------------------------------- MODULE Budget ------------------------------
(***************************************************************************)
(* The budget of a call: the pure guard (apps/api/media/budget_guard.py)   *)
(* and the task that asks it at every tick (media/bridge.py,               *)
(* _watch_budget). The task is a publisher of the live feed, and its       *)
(* events are inserted before it goes on: a database that stalls delays    *)
(* the end of the call.                                                    *)
(*                                                                         *)
(* Seconds are the unit of time. Money is counted in 1/60 of 0.0001 USD,   *)
(* so that the rates of the code are whole numbers of it per second.       *)
(* Timers are punctual: time does not pass a wake-up that is due.          *)
(***************************************************************************)
EXTENDS LiveFeed

CONSTANTS
  Watch,            \* the publisher that is _watch_budget
  Budgets,          \* the BudgetConfigs tried
  Tick,             \* BUDGET_TICK_SECONDS
  MaxStall,         \* bound: seconds the awaits of the task take in all
  MaxElapsed        \* bound

ASSUME BudgetAssumption ==
  /\ Watch \in Publishers /\ Tick \in Nat \ {0} /\ MaxStall \in Nat /\ MaxElapsed \in Nat
  /\ \A b \in Budgets : /\ b.maxSeconds \in Nat \ {0} /\ b.maxCost \in Nat \ {0}
                        /\ b.wrapUpPct \in 1..100

VARIABLES
  budget,   \* the client's BudgetConfig
  elapsed,  \* elapsed_seconds
  due,      \* when the sleep ends
  guard,    \* what _watch_budget does
  wrappedUp,  \* _wrapped_up
  told,     \* external: wrap-up instructions the model got
  stall     \* history: seconds spent in the task's own awaits

budgetVars == <<budget, elapsed, due, guard, wrappedUp, told, stall>>
vars == <<feedVars, budgetVars>>

CostPerSecond == 3600 + 85      \* 0.36 and 0.0085 USD per minute
AnalysisCost == 60 * 200        \* 0.02 USD

EstimateCost(seconds) == seconds * CostPerSecond + AnalysisCost

\* Whether a share of the budget is used up, by whichever ceiling is closer.
Reached(pct, seconds) ==
  \/ 100 * seconds >= pct * budget.maxSeconds
  \/ 100 * EstimateCost(seconds) >= pct * budget.maxCost

\* Mutant: only the ceiling in seconds ends a call.
CheckSeconds(seconds) ==
  IF seconds >= budget.maxSeconds THEN "expired"
  ELSE IF Reached(budget.wrapUpPct, seconds) THEN "wrap_up" ELSE "normal"

Check(seconds) ==
  IF Reached(100, seconds) THEN "expired"
  ELSE IF Reached(budget.wrapUpPct, seconds) THEN "wrap_up" ELSE "normal"

NeedsWrapUpNow(seconds) == Check(seconds) = "wrap_up" /\ ~wrappedUp

BudgetInit ==
  /\ FeedInit
  /\ budget \in Budgets
  /\ elapsed = 0 /\ due = Tick
  /\ guard = "sleep" /\ wrappedUp = FALSE
  /\ told = 0
  /\ stall = 0

GuardMoves(at) == guard' = at /\ UNCHANGED wrappedUp

Sleeps == GuardMoves("sleep") /\ due' = elapsed + Tick

\* A second passes. The awaits of the task last as long as they last.
SecondPasses ==
  /\ elapsed < MaxElapsed
  /\ IF guard = "sleep" THEN elapsed < due /\ UNCHANGED stall
     ELSE guard # "over" /\ stall < MaxStall /\ stall' = stall + 1
  /\ elapsed' = elapsed + 1
  /\ UNCHANGED <<feedVars, budget, due, guard, wrappedUp, told>>

Awake == guard = "sleep" /\ elapsed = due

\* At each tick one of three.
BudgetExpires ==
  /\ Awake /\ Check(elapsed) = "expired"
  /\ Emits(Watch)
  /\ GuardMoves("expiring")
  /\ UNCHANGED <<stored, viewer, log, budget, elapsed, due, told, stall>>

BudgetWrapsUp ==
  /\ Awake /\ NeedsWrapUpNow(elapsed)
  /\ guard' = "wrapping" /\ wrappedUp' = TRUE
  /\ UNCHANGED <<feedVars, budget, elapsed, due, told, stall>>

BudgetIsFine ==
  /\ Awake /\ Check(elapsed) # "expired" /\ ~NeedsWrapUpNow(elapsed)
  /\ Sleeps
  /\ UNCHANGED <<feedVars, budget, elapsed, told, stall>>

\* The task ends, and run() with it, which cancels the other tasks of the call.
GuardEnds ==
  /\ GuardMoves("over")
  /\ pub' = [p \in Publishers |-> "failed"]
  /\ UNCHANGED count

\* realtime.send_json: the instruction is out, or the error ends the task.
SendWrapUp ==
  /\ guard = "wrapping"
  /\ \/ told' = told + 1 /\ Emits(Watch) /\ GuardMoves("telling")
     \/ GuardEnds /\ UNCHANGED told
  /\ UNCHANGED <<stored, viewer, log, budget, elapsed, due, stall>>

\* Mutant: the loop goes on after the event of the expiry.
EmitReturnsSleeping ==
  /\ guard \in {"telling", "expiring"} /\ pub[Watch] \in {"idle", "failed"}
  /\ Sleeps
  /\ pub' = [pub EXCEPT ![Watch] = "idle"]
  /\ UNCHANGED <<count, stored, viewer, log, budget, elapsed, told, stall>>

\* Its event is out, or its insert failed: the task goes on, stops, or dies.
EmitReturns ==
  /\ guard \in {"telling", "expiring"} /\ pub[Watch] \in {"idle", "failed"}
  /\ IF guard = "telling" /\ pub[Watch] = "idle" THEN Sleeps /\ UNCHANGED <<pub, count>>
     ELSE GuardEnds /\ UNCHANGED due
  /\ UNCHANGED <<stored, viewer, log, budget, elapsed, told, stall>>

\* The call ends for another reason, and the task is cancelled where it is.
CallOver ==
  /\ guard # "over"
  /\ GuardEnds
  /\ UNCHANGED <<stored, viewer, log, budget, elapsed, due, told, stall>>

WatchBudget == BudgetExpires \/ BudgetWrapsUp \/ BudgetIsFine \/ SendWrapUp \/ EmitReturns

\* The feed, whose watch emits only when the task says so.
FeedStep ==
  \/ \E p \in Publishers \ {Watch} : Emit(p)
  \/ \E p \in Publishers : InsertCallEvent(p) \/ PublishEvent(p)
  \/ \E v \in Viewers : Connect(v) \/ StreamEvent(v) \/ Disconnect(v) \/ Unsubscribe(v)

BudgetNext ==
  \/ SecondPasses \/ WatchBudget \/ CallOver
  \/ FeedStep /\ UNCHANGED budgetVars

\* Time passes, the event loop runs what is ready, and the database answers.
\* Nobody is assumed to read the feed.
BudgetSpec ==
  /\ BudgetInit
  /\ [][BudgetNext]_vars
  /\ WF_vars(SecondPasses) /\ WF_vars(WatchBudget)
  /\ \A p \in Publishers : WF_vars((InsertCallEvent(p) \/ PublishEvent(p)) /\ UNCHANGED budgetVars)
  /\ \A v \in Viewers : WF_vars(Unsubscribe(v) /\ UNCHANGED budgetVars)

-----------------------------------------------------------------------------
(* Properties *)

BudgetTypeOK ==
  /\ FeedTypeOK
  /\ budget \in Budgets /\ elapsed \in 0..MaxElapsed /\ due \in Nat
  /\ guard \in {"sleep", "wrapping", "telling", "expiring", "over"} /\ wrappedUp \in BOOLEAN
  /\ told \in 0..1
  /\ stall \in 0..MaxStall

\* "sent once, not on every tick" and "once the instruction has actually been
\* delivered" (budget_guard.py:80, 109): the mark is set before the send, but a
\* send that fails ends the call, so a call that goes on marked was told.
MarkedCallWasTold == guard \in {"sleep", "telling", "expiring"} => (wrappedUp <=> told = 1)

\* No call outlives both its ceilings by more than a tick and what its own
\* awaits took, whichever ceiling binds.
OverrunBounded ==
  guard = "sleep" /\ elapsed > Tick + stall => ~Reached(100, elapsed - Tick - stall)

\* A call that its budget ends was told to wrap up first, when the window
\* between the two is at least a tick and the awaits that delayed it.
WarnedBeforeEnd ==
  guard = "expiring" /\ elapsed > Tick + stall
    /\ Reached(budget.wrapUpPct, elapsed - Tick - stall) => told = 1

\* The guard as a whole: types, the wrap-up sent once and in time, and the end
\* of the call at most a tick late (budget_guard.py:79-113, bridge.py:616-641).
BudgetOK == BudgetTypeOK /\ MarkedCallWasTold /\ OverrunBounded /\ WarnedBeforeEnd

\* However the database behaves, as long as it answers, a call does not go on
\* for ever behind its budget.
ExpiredCallEnds ==
  (\E s \in 0..MaxElapsed : elapsed = s /\ Check(s) = "expired") ~> guard = "over"

=============================================================================
