---------------------------- MODULE MCFrontDesk ----------------------------
(* Six small parts around a call for TLC, in one run. They share no          *)
(* variable, so that every behaviour exercises one of them and their states  *)
(* add up instead of multiplying.                                            *)
EXTENDS Registry, DemoReplay, Recording, Rules, Reporting, Transfer

VARIABLE part    \* the part this behaviour exercises

vars == <<regVars, demoVars, recVars, ruleVars, repVars, transferVars, part>>

MCWindows == {ClosedDay, Window(0, 2), Window(1, 3), Window(3, 1)}

\* One initial state of a part that stands still.
RegStands == RegInit /\ file = Empty
RecStands == RecInit /\ order = "disabled"
RuleStands == RuleInit /\ hours = [f \in Fields |-> ClosedDay] /\ policy = "never" /\ ~fee
TransferStands == TransferInit /\ ~ready

FrontInit ==
  \/ /\ part = "registry" /\ RegInit
     /\ DemoInit /\ RecStands /\ RuleStands /\ RepInit /\ TransferStands
  \/ /\ part = "replay" /\ DemoInit
     /\ RegStands /\ RecStands /\ RuleStands /\ RepInit /\ TransferStands
  \/ /\ part = "recording" /\ RecInit
     /\ RegStands /\ DemoInit /\ RuleStands /\ RepInit /\ TransferStands
  \/ /\ part = "rules" /\ RuleInit
     /\ RegStands /\ DemoInit /\ RecStands /\ RepInit /\ TransferStands
  \/ /\ part = "reports" /\ RepInit
     /\ RegStands /\ DemoInit /\ RecStands /\ RuleStands /\ TransferStands
  \/ /\ part = "transfer" /\ TransferInit
     /\ RegStands /\ DemoInit /\ RecStands /\ RuleStands /\ RepInit

FrontNext ==
  /\ UNCHANGED part
  /\ \/ /\ part = "registry" /\ RegNext
        /\ UNCHANGED <<demoVars, recVars, ruleVars, repVars, transferVars>>
     \/ /\ part = "replay" /\ DemoNext
        /\ UNCHANGED <<regVars, recVars, ruleVars, repVars, transferVars>>
     \/ /\ part = "recording" /\ RecNext
        /\ UNCHANGED <<regVars, demoVars, ruleVars, repVars, transferVars>>
     \/ /\ part = "rules" /\ RuleNext
        /\ UNCHANGED <<regVars, demoVars, recVars, repVars, transferVars>>
     \/ /\ part = "reports" /\ RepNext
        /\ UNCHANGED <<regVars, demoVars, recVars, ruleVars, transferVars>>
     \/ /\ part = "transfer" /\ TransferNext
        /\ UNCHANGED <<regVars, demoVars, recVars, ruleVars, repVars>>

FrontSpec == FrontInit /\ [][FrontNext]_vars /\ RegFairness /\ RecFairness
============================================================================
