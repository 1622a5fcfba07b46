--------------------------- MODULE CallFlowProofs ---------------------------
(***************************************************************************)
(* For every pair of thresholds and any number of events in a call: the    *)
(* call escalates at most once and never misses a trigger, and the streak  *)
(* of tool failures and the outcome agree with the tool history.           *)
(***************************************************************************)
EXTENDS CallFlow, TLAPS

-----------------------------------------------------------------------------
(* Type correctness *)

Events ==
  [kind : {"utterance"}, value : Utterances] \cup [kind : {"call"}, value : Tools]
    \cup [kind : {"verdict"}, value : Labels]

Checks == [at : {"check"}, classify : BOOLEAN]
Reasons == {"safety", "caller_request", "tool_failure", "frustration"}

Handlers ==
  [at : {"read", "gone"}] \cup Checks \cup [at : {"announce"}, reason : Reasons]
    \cup [at : {"tool"}, tool : Tools] \cup [at : {"store"}, tool : Tools, ok : BOOLEAN]

Entries == [tool : Tools, ok : BOOLEAN]

LEMMA CheckIsHandler ==
  ASSUME NEW b \in BOOLEAN
  PROVE  [at |-> "check", classify |-> b] \in Handlers
<1>1. [at |-> "check", classify |-> b] \in Checks
  BY DEF Checks
<1>. QED BY <1>1 DEF Handlers

\* The inbox and the handler must be typed as well, because their fields end
\* up in the state.
TypeInv ==
  /\ CallTypeOK
  /\ handler \in Handlers
  /\ inbox \in Seq(Events)

\* A new call has its types (state.py:36-53).
LEMMA TypeInitInv == CallInit => TypeInv
<1>. SUFFICES ASSUME CallInit PROVE TypeInv
  OBVIOUS
<1>1. handler \in Handlers /\ handler.at = "read"
  BY DEF CallInit, Handlers, Reading
<1>2. inbox = <<>> /\ toolHistory = <<>> /\ events = 0 /\ 0 \in 0..MaxEvents
  BY CallFlowAssumption DEF CallInit
<1>3. escalated \in BOOLEAN /\ bookingConfirmed \in BOOLEAN /\ stopped \in BOOLEAN
  BY DEF CallInit
<1>4. toolHistory \in Seq([tool : Tools, ok : BOOLEAN]) /\ inbox \in Seq(Events)
  BY <1>2
<1>5. /\ lastCallerText \in Utterances \cup {"silent"} /\ inServiceArea \in {"unknown", "in", "out"}
      /\ consecutiveToolFailures \in Nat /\ negativeSentimentTurns \in Nat
      /\ events \in 0..MaxEvents /\ verdictsDue \in Nat /\ transfers \in Nat
      /\ outcome \in Outcomes
  BY <1>2 DEF CallInit, Outcomes
<1>. QED BY <1>1, <1>3, <1>4, <1>5 DEF TypeInv, CallTypeOK

\* What an event carries depends on its kind.
LEMMA HeadOfInbox ==
  ASSUME TypeInv, inbox # <<>>
  PROVE  /\ Head(inbox) \in Events /\ Tail(inbox) \in Seq(Events)
         /\ Head(inbox).kind = "utterance" => Head(inbox).value \in Utterances
         /\ Head(inbox).kind = "call" => Head(inbox).value \in Tools
         /\ Head(inbox).kind = "verdict" => Head(inbox).value \in Labels
<1>1. Head(inbox) \in Events /\ Tail(inbox) \in Seq(Events)
  BY DEF TypeInv
<1>2. ASSUME NEW e \in Events
      PROVE  /\ e.kind = "utterance" => e.value \in Utterances
             /\ e.kind = "call" => e.value \in Tools
             /\ e.kind = "verdict" => e.value \in Labels
  BY DEF Events
<1>. QED BY <1>1, <1>2

\* What a handler carries depends on where it is.
LEMMA HandlerFields ==
  ASSUME TypeInv
  PROVE  /\ handler.at \in {"read", "check", "announce", "tool", "store", "gone"}
         /\ handler.at = "tool" => handler.tool \in Tools
         /\ handler.at = "store" => handler.tool \in Tools /\ handler.ok \in BOOLEAN
  BY DEF TypeInv, Handlers, Checks

\* What the service sends, and the end of the call, keep the types.
LEMMA ExternalTypeInv ==
  ASSUME TypeInv,
         \/ \E u \in Utterances : CallerSpeaks(u)
         \/ \E t \in Tools : ModelCallsTool(t)
         \/ \E l \in Labels : ClassifierAnswers(l)
         \/ Stop
  PROVE  TypeInv'
<1>. USE CallFlowAssumption
<1>1. CASE \E u \in Utterances : CallerSpeaks(u)
  <2>1. PICK u \in Utterances : CallerSpeaks(u)
    BY <1>1
  <2>2. [kind |-> "utterance", value |-> u] \in Events
    BY DEF Events
  <2>. QED
    BY <2>1, <2>2 DEF CallerSpeaks, Arrives, stateVars, historyVars, TypeInv, CallTypeOK
<1>2. CASE \E t \in Tools : ModelCallsTool(t)
  <2>1. PICK t \in Tools : ModelCallsTool(t)
    BY <1>2
  <2>2. [kind |-> "call", value |-> t] \in Events
    BY DEF Events
  <2>. QED
    BY <2>1, <2>2 DEF ModelCallsTool, Arrives, stateVars, historyVars, TypeInv, CallTypeOK
<1>3. CASE \E l \in Labels : ClassifierAnswers(l)
  <2>1. PICK l \in Labels : ClassifierAnswers(l)
    BY <1>3
  <2>2. [kind |-> "verdict", value |-> l] \in Events
    BY DEF Events
  <2>. QED
    BY <2>1, <2>2 DEF ClassifierAnswers, Arrives, stateVars, historyVars, TypeInv, CallTypeOK
<1>4. CASE Stop
  BY <1>4 DEF Stop, stateVars, externalVars, historyVars, TypeInv, CallTypeOK
<1>. QED BY <1>1, <1>2, <1>3, <1>4

\* Reading an event keeps the types (bridge.py:486-530, 582-583).
LEMMA ReadTypeInv ==
  ASSUME TypeInv, OnCallerTranscript \/ OnSentimentVerdict \/ OnFunctionCall
  PROVE  TypeInv'
<1>1. CASE OnCallerTranscript
  <2>1. [at |-> "check", classify |-> TRUE] \in Handlers
    BY CheckIsHandler
  <2>. QED
    BY <1>1, <2>1, HeadOfInbox DEF OnCallerTranscript, Read, TypeInv, CallTypeOK
<1>2. CASE OnSentimentVerdict
  <2>1. handler' = handler \/ handler' = [at |-> "check", classify |-> FALSE]
    BY <1>2 DEF OnSentimentVerdict
  <2>2. handler' \in Handlers /\ handler'.at \in {"read", "check"}
    <3>1. handler = Reading
      BY <1>2 DEF OnSentimentVerdict, Read
    <3>2. Reading \in Handlers
      BY DEF Reading, Handlers
    <3>3. [at |-> "check", classify |-> FALSE] \in Handlers
      BY CheckIsHandler
    <3>4. CASE handler' = handler
      BY <3>1, <3>2, <3>4 DEF Reading
    <3>5. CASE handler' = [at |-> "check", classify |-> FALSE]
      BY <3>3, <3>5
    <3>. QED BY <2>1, <3>4, <3>5
  <2>3. negativeSentimentTurns' \in Nat
    <3>1. \/ UNCHANGED negativeSentimentTurns
          \/ \E l \in Labels \cup {Head(inbox).value} : RecordSentiment(l)
      BY <1>2 DEF OnSentimentVerdict
    <3>. QED BY <3>1 DEF RecordSentiment, TypeInv, CallTypeOK
  <2>. QED
    <3>1. inbox' \in Seq(Events)
      BY <1>2, HeadOfInbox DEF OnSentimentVerdict, Read
    <3>2. UNCHANGED <<lastCallerText, consecutiveToolFailures, toolHistory, inServiceArea, events,
                      verdictsDue, transfers, outcome>>
      BY <1>2 DEF OnSentimentVerdict, Read
    <3>3. UNCHANGED <<escalated, bookingConfirmed, stopped>>
      BY <1>2 DEF OnSentimentVerdict, Read
    <3>4. (escalated \in BOOLEAN /\ bookingConfirmed \in BOOLEAN /\ stopped \in BOOLEAN)'
      BY <3>3 DEF TypeInv, CallTypeOK
    <3>5. CallTypeOK'
      BY <2>2, <2>3, <3>2, <3>4 DEF TypeInv, CallTypeOK
    <3>. QED BY <2>2, <3>1, <3>5 DEF TypeInv
<1>3. CASE OnFunctionCall
  <2>1. inbox # <<>> /\ Head(inbox).value \in Tools
    BY <1>3, HeadOfInbox DEF OnFunctionCall, Read
  <2>2. [at |-> "tool", tool |-> Head(inbox).value] \in Handlers
    BY <2>1 DEF Handlers
  <2>. QED
    BY <1>3, <2>1, <2>2, HeadOfInbox DEF OnFunctionCall, Read, stateVars, TypeInv, CallTypeOK
<1>. QED BY <1>1, <1>2, <1>3

\* Escalating keeps the types (bridge.py:551-580).
LEMMA EscalateTypeInv ==
  ASSUME TypeInv, CheckEscalation \/ Escalate
  PROVE  TypeInv'
<1>1. Reading \in Handlers /\ [at |-> "tool", tool |-> "transfer_to_human"] \in Handlers
  BY DEF Reading, Handlers, Tools
<1>2. CASE CheckEscalation
  <2>1. CASE ShouldEscalate # "none" /\ handler' = [at |-> "announce", reason |-> ShouldEscalate]
    <3>1. ShouldEscalate \in Reasons
      BY <2>1 DEF ShouldEscalate, Reasons
    <3>2. handler' \in Handlers
      BY <2>1, <3>1 DEF Handlers
    <3>. QED
      BY <1>2, <2>1, <3>2 DEF CheckEscalation, Reading, historyVars, TypeInv, CallTypeOK
  <2>2. CASE handler' = Reading
    BY <1>1, <1>2, <2>2 DEF CheckEscalation, Reading, historyVars, TypeInv, CallTypeOK
  <2>. QED BY <1>2, <2>1, <2>2 DEF CheckEscalation
<1>3. CASE Escalate
  BY <1>1, <1>3 DEF Escalate, Reading, stateVars, externalVars, TypeInv, CallTypeOK
<1>. QED BY <1>2, <1>3

\* A tool's result keeps the types (gateway.py:221-244, state.py:55-59).
LEMMA ToolTypeInv ==
  ASSUME TypeInv,
         \/ \E ok \in BOOLEAN : ToolFinishes(ok)
         \/ \E area \in {"in", "out"} : OnInvocation(area)
  PROVE  TypeInv'
<1>1. CASE \E ok \in BOOLEAN : ToolFinishes(ok)
  <2>1. PICK ok \in BOOLEAN : ToolFinishes(ok)
    BY <1>1
  <2>2. [at |-> "store", tool |-> handler.tool, ok |-> ok] \in Handlers
    BY <2>1, HandlerFields DEF ToolFinishes, Handlers
  <2>. QED
    BY <2>1, <2>2 DEF ToolFinishes, stateVars, externalVars, historyVars, TypeInv, CallTypeOK
<1>2. CASE \E area \in {"in", "out"} : OnInvocation(area)
  <2>1. PICK area \in {"in", "out"} : OnInvocation(area)
    BY <1>2
  <2>2. /\ handler' = [at |-> "check", classify |-> FALSE] /\ handler' \in Handlers
        /\ [tool |-> handler.tool, ok |-> handler.ok] \in Entries
    BY <2>1, HandlerFields, CheckIsHandler DEF OnInvocation, Entries
  <2>3. toolHistory' \in Seq(Entries) /\ consecutiveToolFailures' \in Nat
    BY <2>1, <2>2 DEF OnInvocation, RecordTool, TypeInv, CallTypeOK, Entries
  <2>4. bookingConfirmed' \in BOOLEAN
    BY <2>1 DEF OnInvocation
  <2>5. inServiceArea' \in {"unknown", "in", "out"}
    BY <2>1 DEF OnInvocation, TypeInv, CallTypeOK
  <2>. QED
    BY <2>1, <2>2, <2>3, <2>4, <2>5
    DEF OnInvocation, externalVars, historyVars, TypeInv, CallTypeOK, Entries
<1>. QED BY <1>1, <1>2

\* Cancelling the pump and finishing the call keep the types
\* (bridge.py:196-199, gateway.py:157-180).
LEMMA EndTypeInv ==
  ASSUME TypeInv, Cancel \/ FinishCall \/ SessionFails
  PROVE  TypeInv'
<1>1. CASE Cancel
  <2>1. [at |-> "gone"] \in Handlers
    BY DEF Handlers
  <2>. QED
    BY <1>1, <2>1 DEF Cancel, stateVars, externalVars, historyVars, TypeInv, CallTypeOK
<1>2. CASE FinishCall
  <2>1. outcome' \in Outcomes
    BY <1>2 DEF FinishCall, Classify, Outcomes
  <2>. QED
    BY <1>2, <2>1 DEF FinishCall, stateVars, externalVars, historyVars, TypeInv, CallTypeOK
<1>3. CASE SessionFails
  <2>1. outcome' \in Outcomes /\ stopped' \in BOOLEAN
    BY <1>3 DEF SessionFails, Outcomes
  <2>. QED
    BY <1>3, <2>1 DEF SessionFails, stateVars, externalVars, historyVars, TypeInv, CallTypeOK
<1>. QED BY <1>1, <1>2, <1>3

\* Every step of a call keeps the types.
LEMMA TypeStepInv == TypeInv /\ [CallNext]_callVars => TypeInv'
<1>. SUFFICES ASSUME TypeInv, [CallNext]_callVars PROVE TypeInv'
  OBVIOUS
<1>1. CASE UNCHANGED callVars
  BY <1>1 DEF callVars, stateVars, externalVars, historyVars, TypeInv, CallTypeOK
<1>. QED
  BY <1>1, ExternalTypeInv, ReadTypeInv, EscalateTypeInv, ToolTypeInv, EndTypeInv
  DEF CallNext, PumpStep

\* The state of a call keeps its types (state.py:36-65).
THEOREM CallTypeCorrect == CallSpec => []CallTypeOK
<1>1. TypeInv => CallTypeOK
  BY DEF TypeInv
<1>. QED BY <1>1, TypeInitInv, TypeStepInv, PTL DEF CallSpec

-----------------------------------------------------------------------------
(* Escalation *)

\* OneTransferPerCall needs the order in which a call escalates: the flag
\* first, then the announcement, then the transfer.
EscalationInv ==
  /\ transfers \in {0, 1}
  /\ ~escalated => transfers = 0
  /\ handler.at = "announce" => escalated /\ transfers = 0

\* A new call has not escalated (state.py:52).
LEMMA EscalationInitInv == CallInit => EscalationInv
  BY DEF CallInit, EscalationInv, Reading

\* Every step keeps the order of an escalation (bridge.py:551-580).
LEMMA EscalationStepInv == EscalationInv /\ [CallNext]_callVars => EscalationInv'
<1>. SUFFICES ASSUME EscalationInv, [CallNext]_callVars PROVE EscalationInv'
  OBVIOUS
<1>1. CASE UNCHANGED <<escalated, transfers, handler>>
  BY <1>1 DEF EscalationInv
<1>2. CASE \/ \E u \in Utterances : CallerSpeaks(u)
           \/ \E t \in Tools : ModelCallsTool(t)
           \/ \E l \in Labels : ClassifierAnswers(l)
           \/ Stop \/ FinishCall \/ SessionFails
  BY <1>1, <1>2
  DEF CallerSpeaks, ModelCallsTool, ClassifierAnswers, Stop, FinishCall, SessionFails, Arrives, stateVars,
      historyVars
<1>3. CASE OnCallerTranscript
  BY <1>3 DEF OnCallerTranscript, Read, EscalationInv
<1>4. CASE OnSentimentVerdict
  BY <1>4 DEF OnSentimentVerdict, Read, EscalationInv
<1>5. CASE OnFunctionCall
  BY <1>5 DEF OnFunctionCall, Read, stateVars, EscalationInv
<1>6. CASE CheckEscalation
  BY <1>6 DEF CheckEscalation, Reading, historyVars, EscalationInv
<1>7. CASE Escalate
  BY <1>7 DEF Escalate, Reading, stateVars, EscalationInv
<1>8. CASE \/ \E ok \in BOOLEAN : ToolFinishes(ok)
           \/ \E area \in {"in", "out"} : OnInvocation(area)
           \/ Cancel
  BY <1>8 DEF ToolFinishes, OnInvocation, Cancel, stateVars, historyVars, EscalationInv
<1>9. CASE UNCHANGED callVars
  BY <1>1, <1>9 DEF callVars, stateVars, historyVars
<1>. QED BY <1>2, <1>3, <1>4, <1>5, <1>6, <1>7, <1>8, <1>9 DEF CallNext, PumpStep

\* Whatever the caller says, the verdicts are and the tools do, a call
\* dispatches at most one escalation transfer (bridge.py:557-580).
THEOREM CallEscalatesOnce == CallSpec => []OneTransferPerCall
<1>1. EscalationInv => OneTransferPerCall
  BY DEF EscalationInv, OneTransferPerCall
<1>. QED BY <1>1, EscalationInitInv, EscalationStepInv, PTL DEF CallSpec

\* The pump goes back to reading only through the check, or with the call
\* escalated already.
TriggerInv == NoTriggerMissed /\ EscalationInv /\ TypeInv

\* Before the caller has spoken no trigger has been reached (escalation.py:58-94).
LEMMA TriggerInitInv == CallInit => NoTriggerMissed
  BY CallFlowAssumption DEF CallInit, NoTriggerMissed, ShouldEscalate

\* Every step leaves no trigger behind (bridge.py:492, 530, 613).
LEMMA TriggerStepInv == TriggerInv /\ [CallNext]_callVars => NoTriggerMissed'
<1>. SUFFICES ASSUME TriggerInv, [CallNext]_callVars, handler' = Reading, ~escalated'
              PROVE  ShouldEscalate' = "none"
  BY DEF NoTriggerMissed
<1>1. CASE /\ UNCHANGED <<lastCallerText, consecutiveToolFailures, negativeSentimentTurns>>
           /\ handler = Reading /\ ~escalated
  BY <1>1 DEF TriggerInv, NoTriggerMissed, ShouldEscalate
<1>2. CASE \/ \E u \in Utterances : CallerSpeaks(u)
           \/ \E t \in Tools : ModelCallsTool(t)
           \/ \E l \in Labels : ClassifierAnswers(l)
           \/ Stop \/ FinishCall \/ SessionFails
  BY <1>1, <1>2
  DEF CallerSpeaks, ModelCallsTool, ClassifierAnswers, Stop, FinishCall, SessionFails, Arrives, stateVars
<1>3. CASE OnCallerTranscript \/ OnFunctionCall
  BY <1>3 DEF OnCallerTranscript, OnFunctionCall, Reading
<1>4. CASE OnSentimentVerdict
  <2>1. handler = Reading /\ UNCHANGED <<lastCallerText, consecutiveToolFailures, escalated>>
    BY <1>4 DEF OnSentimentVerdict, Read
  <2>2. UNCHANGED negativeSentimentTurns
    BY <1>4 DEF OnSentimentVerdict, Reading
  <2>. QED BY <1>1, <2>1, <2>2
<1>5. CASE CheckEscalation
  <2>1. ShouldEscalate = "none"
    BY <1>5 DEF CheckEscalation, Reading
  <2>2. UNCHANGED <<lastCallerText, consecutiveToolFailures, negativeSentimentTurns>>
    BY <1>5 DEF CheckEscalation
  <2>. QED BY <2>1, <2>2 DEF ShouldEscalate
<1>6. CASE Escalate
  BY <1>6 DEF Escalate, stateVars, TriggerInv, EscalationInv
<1>7. CASE \/ \E ok \in BOOLEAN : ToolFinishes(ok)
           \/ \E area \in {"in", "out"} : OnInvocation(area)
           \/ Cancel
  BY <1>7 DEF ToolFinishes, OnInvocation, Cancel, Reading
<1>8. CASE UNCHANGED callVars
  BY <1>1, <1>8 DEF callVars, stateVars
<1>. QED BY <1>2, <1>3, <1>4, <1>5, <1>6, <1>7, <1>8 DEF CallNext, PumpStep

\* For any thresholds: when the pump reads its next event, no trigger is
\* pending on a call that has not escalated (bridge.py:492, 530, 613).
THEOREM NoTriggerIsMissed == CallSpec => []NoTriggerMissed
<1>. QED
  BY TypeInitInv, TypeStepInv, EscalationInitInv, EscalationStepInv, TriggerInitInv, TriggerStepInv,
     PTL
  DEF CallSpec, TriggerInv

-----------------------------------------------------------------------------
(* The tool history *)

\* Steps that store no tool result leave the history and its counters alone.
LEMMA HistoryUnchanged ==
  ASSUME [CallNext]_callVars, ~\E area \in {"in", "out"} : OnInvocation(area)
  PROVE  UNCHANGED <<toolHistory, consecutiveToolFailures, bookingConfirmed>>
<1>1. CASE \/ \E u \in Utterances : CallerSpeaks(u)
           \/ \E t \in Tools : ModelCallsTool(t)
           \/ \E l \in Labels : ClassifierAnswers(l)
           \/ Stop \/ FinishCall \/ SessionFails \/ Cancel \/ Escalate
           \/ \E ok \in BOOLEAN : ToolFinishes(ok)
  BY <1>1
  DEF CallerSpeaks, ModelCallsTool, ClassifierAnswers, Stop, FinishCall, SessionFails, Cancel,
      Escalate, ToolFinishes, Arrives, stateVars
<1>2. CASE OnCallerTranscript \/ OnSentimentVerdict \/ OnFunctionCall \/ CheckEscalation
  BY <1>2 DEF OnCallerTranscript, OnSentimentVerdict, OnFunctionCall, CheckEscalation, stateVars
<1>3. CASE UNCHANGED callVars
  BY <1>3 DEF callVars, stateVars
<1>. QED BY <1>1, <1>2, <1>3 DEF CallNext, PumpStep

\* No tool has been used in a new call (state.py:40-51).
LEMMA StreakInitInv == CallInit => FailureStreakExact
  BY DEF CallInit, FailureStreakExact, TrailingFailures

\* Storing a result extends the run of failures by one or ends it
\* (state.py:55-59).
LEMMA RecordToolStreak ==
  ASSUME TypeInv, FailureStreakExact, NEW tool \in Tools, NEW ok \in BOOLEAN, RecordTool(tool, ok)
  PROVE  FailureStreakExact'
<1>. DEFINE n == Len(toolHistory)
<1>1. /\ n \in Nat /\ DOMAIN toolHistory = 1..n /\ consecutiveToolFailures \in Nat
      /\ Len(toolHistory') = n + 1 /\ DOMAIN toolHistory' = 1..(n + 1)
      /\ \A k \in 1..n : toolHistory'[k] = toolHistory[k]
      /\ toolHistory'[n + 1].ok = ok
  BY DEF RecordTool, TypeInv, CallTypeOK
<1>2. TrailingFailures = (n - consecutiveToolFailures + 1)..n
  BY DEF FailureStreakExact
<1>. HIDE DEF n
<1>3. CASE ok
  <2>1. consecutiveToolFailures' = 0
    BY <1>3 DEF RecordTool
  <2>2. ASSUME NEW k \in DOMAIN toolHistory'
        PROVE  \E j \in k..Len(toolHistory') : toolHistory'[j].ok
    <3>1. n + 1 \in k..Len(toolHistory')
      BY <1>1
    <3>. QED BY <1>1, <1>3, <3>1
  <2>3. TrailingFailures' = {}
    BY <2>2 DEF TrailingFailures
  <2>. QED BY <1>1, <2>1, <2>3 DEF FailureStreakExact
<1>4. CASE ~ok
  <2>1. consecutiveToolFailures' = consecutiveToolFailures + 1
    BY <1>4 DEF RecordTool
  <2>2. ASSUME NEW k \in 1..n
        PROVE  k \in TrailingFailures' <=> k \in TrailingFailures
    <3>1. k..(n + 1) = (k..n) \cup {n + 1} /\ \A j \in k..n : j \in 1..n
      BY <1>1
    <3>2. (\A j \in k..(n + 1) : ~toolHistory'[j].ok) <=> (\A j \in k..n : ~toolHistory[j].ok)
      BY <1>1, <1>4, <3>1
    <3>3. k \in DOMAIN toolHistory /\ k \in DOMAIN toolHistory'
      BY <1>1
    <3>. QED BY <1>1, <3>2, <3>3 DEF TrailingFailures, n
  <2>3. n + 1 \in TrailingFailures'
    <3>1. \A j \in (n + 1)..(n + 1) : j = n + 1
      BY <1>1
    <3>. QED BY <1>1, <1>4, <3>1 DEF TrailingFailures
  <2>4. TrailingFailures' = TrailingFailures \cup {n + 1}
    <3>1. TrailingFailures' \subseteq 1..(n + 1) /\ TrailingFailures \subseteq 1..n
      BY <1>1 DEF TrailingFailures
    <3>2. ASSUME NEW k \in 1..(n + 1) PROVE k \in 1..n \/ k = n + 1
      BY <1>1
    <3>. QED BY <2>2, <2>3, <3>1, <3>2
  <2>. QED BY <1>1, <1>2, <2>1, <2>4 DEF FailureStreakExact
<1>. QED BY <1>3, <1>4

\* Every step keeps the streak exact.
LEMMA StreakStepInv == TypeInv /\ FailureStreakExact /\ [CallNext]_callVars => FailureStreakExact'
<1>. SUFFICES ASSUME TypeInv, FailureStreakExact, [CallNext]_callVars PROVE FailureStreakExact'
  OBVIOUS
<1>1. CASE \E area \in {"in", "out"} : OnInvocation(area)
  <2>1. RecordTool(handler.tool, handler.ok) /\ handler.at = "store"
    BY <1>1 DEF OnInvocation
  <2>. QED BY <2>1, HandlerFields, RecordToolStreak
<1>2. CASE ~\E area \in {"in", "out"} : OnInvocation(area)
  BY <1>2, HistoryUnchanged DEF FailureStreakExact, TrailingFailures
<1>. QED BY <1>1, <1>2

\* For any number of tool calls the counter is the run of failures at the end
\* of the history (state.py:57-58).
THEOREM FailureStreakIsExact == CallSpec => []FailureStreakExact
<1>. QED BY TypeInitInv, TypeStepInv, StreakInitInv, StreakStepInv, PTL DEF CallSpec

-----------------------------------------------------------------------------
(* The outcome *)

BookingStored == [tool |-> "book_appointment", ok |-> TRUE]

\* Unless the session raised, the outcome is decided from the flag once the pump
\* is gone, so the flag must agree with the history and the history must not
\* grow afterwards.
OutcomeInv ==
  /\ bookingConfirmed <=> \E k \in DOMAIN toolHistory : toolHistory[k] = BookingStored
  /\ outcome \notin {"live", "failed"} =>
       handler.at = "gone" /\ (outcome = "booked" <=> bookingConfirmed)

\* A new call has no outcome and no booking (state.py:36-53).
LEMMA OutcomeInitInv == CallInit => OutcomeInv
  BY DEF CallInit, OutcomeInv

\* Storing a result sets the flag with the history (gateway.py:237-238).
LEMMA OnInvocationOutcome ==
  ASSUME TypeInv, OutcomeInv, NEW area \in {"in", "out"}, OnInvocation(area)
  PROVE  OutcomeInv'
<1>1. handler.at = "store" /\ handler.tool \in Tools /\ handler.ok \in BOOLEAN
  BY HandlerFields DEF OnInvocation
<1>2. outcome' \in {"live", "failed"}
  BY <1>1 DEF OnInvocation, OutcomeInv
<1>3. /\ DOMAIN toolHistory' = DOMAIN toolHistory \cup {Len(toolHistory) + 1}
      /\ \A k \in DOMAIN toolHistory : toolHistory'[k] = toolHistory[k]
      /\ toolHistory'[Len(toolHistory) + 1] = [tool |-> handler.tool, ok |-> handler.ok]
  BY <1>1 DEF OnInvocation, RecordTool, TypeInv, CallTypeOK
<1>4. [tool |-> handler.tool, ok |-> handler.ok] = BookingStored
        <=> handler.ok /\ handler.tool = "book_appointment"
  BY <1>1 DEF BookingStored
<1>5. bookingConfirmed' <=> bookingConfirmed \/ (handler.ok /\ handler.tool = "book_appointment")
  BY DEF OnInvocation
<1>. QED BY <1>2, <1>3, <1>4, <1>5 DEF OutcomeInv

\* Every step keeps the outcome and the history in agreement
\* (gateway.py:157-186).
LEMMA OutcomeStepInv == TypeInv /\ OutcomeInv /\ [CallNext]_callVars => OutcomeInv'
<1>. SUFFICES ASSUME TypeInv, OutcomeInv, [CallNext]_callVars PROVE OutcomeInv'
  OBVIOUS
<1>1. CASE \E area \in {"in", "out"} : OnInvocation(area)
  BY <1>1, OnInvocationOutcome
<1>2. CASE ~\E area \in {"in", "out"} : OnInvocation(area)
  <2>1. UNCHANGED <<toolHistory, bookingConfirmed>>
    BY <1>2, HistoryUnchanged
  <2>2. CASE FinishCall
    <3>1. outcome' = "booked" <=> bookingConfirmed
      BY <2>2 DEF FinishCall, Classify
    <3>2. handler.at = "gone" /\ handler' = handler
      BY <2>2 DEF FinishCall
    <3>. QED BY <2>1, <3>1, <3>2 DEF OutcomeInv
  <2>7. CASE SessionFails
    BY <2>1, <2>7 DEF SessionFails, OutcomeInv
  <2>3. CASE outcome' = outcome /\ (handler' = handler \/ handler.at # "gone" \/ handler'.at = "gone")
    BY <2>1, <2>3 DEF OutcomeInv
  <2>4. CASE \/ \E u \in Utterances : CallerSpeaks(u)
             \/ \E t \in Tools : ModelCallsTool(t)
             \/ \E l \in Labels : ClassifierAnswers(l)
             \/ Stop \/ Cancel \/ Escalate \/ CheckEscalation
             \/ \E ok \in BOOLEAN : ToolFinishes(ok)
    BY <2>3, <2>4
    DEF CallerSpeaks, ModelCallsTool, ClassifierAnswers, Stop, Cancel, Escalate, CheckEscalation,
        ToolFinishes, Arrives
  <2>5. CASE OnCallerTranscript \/ OnSentimentVerdict \/ OnFunctionCall
    <3>1. Read("utterance") \/ Read("verdict") \/ Read("call")
      BY <2>5 DEF OnCallerTranscript, OnSentimentVerdict, OnFunctionCall
    <3>. QED BY <2>3, <3>1 DEF Read, Reading
  <2>6. CASE UNCHANGED callVars
    BY <2>3, <2>6 DEF callVars
  <2>. QED BY <1>2, <2>2, <2>4, <2>5, <2>6, <2>7 DEF CallNext, PumpStep
<1>. QED BY <1>1, <1>2

\* Wherever the call is stopped, it is "booked" only with a booking that succeeded
\* and was recorded, and with one it is "booked" unless the session raised
\* (gateway.py:133, 160-169, 183-186, 237-238).
THEOREM OutcomeBookedExactly == CallSpec => []BookedExactly
<1>1. OutcomeInv => BookedExactly
  BY DEF OutcomeInv, BookedExactly, BookingStored
<1>. QED BY <1>1, TypeInitInv, TypeStepInv, OutcomeInitInv, OutcomeStepInv, PTL DEF CallSpec

\* What the call remembers agrees with what happened in it, for any thresholds
\* and any number of events (state.py:36-65, gateway.py:183-262).
THEOREM CallStateCorrect == CallSpec => []CallStateExact
<1>. QED BY CallTypeCorrect, FailureStreakIsExact, OutcomeBookedExactly, PTL DEF CallStateExact

=============================================================================
