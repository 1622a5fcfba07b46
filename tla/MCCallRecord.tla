---------------------------- MODULE MCCallRecord ---------------------------
(* CallRecord for TLC: two deliveries of the status, two invocations of the *)
(* payment tool with two attempts each.                                     *)
EXTENDS CallRecord

MCPayAttempt(i, n) ==
  IF i = 1 THEN IF n = 1 THEN "pay11" ELSE "pay12" ELSE IF n = 1 THEN "pay21" ELSE "pay22"
============================================================================
