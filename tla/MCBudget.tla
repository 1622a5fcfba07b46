------------------------------ MODULE MCBudget -----------------------------
(* Budget and LiveFeed for TLC: two budgets that call for the wrap-up at 1   *)
(* and the end at 3 seconds, one by its seconds and one by its cost.         *)
EXTENDS Budget

MCBudgets == {[maxSeconds |-> 3, maxCost |-> 72000, wrapUpPct |-> 33],
              [maxSeconds |-> 60, maxCost |-> 23055, wrapUpPct |-> 65]}
MCOnlyOf == [v \in Viewers |-> IF v = "all" THEN Publishers ELSE {Watch}]
============================================================================
