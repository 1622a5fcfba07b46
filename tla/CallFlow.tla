------------------------------ MODULE CallFlow ------------------------------
(***************************************************************************)
(* One call as pump_openai sees it: caller utterances, sentiment verdicts  *)
(* and function calls arrive on one socket and are handled one after the   *)
(* other; each handler may escalate the call, which dispatches the         *)
(* transfer from inside the handler (apps/api/media/bridge.py,             *)
(* apps/api/domain/state.py, apps/api/domain/escalation.py,                *)
(* apps/api/media/gateway.py).                                             *)
(*                                                                         *)
(* An utterance is abstracted to what should_escalate can tell apart, a    *)
(* tool result to its status. How a tool reaches that status, retries and  *)
(* timeouts included, is in Booking.                                       *)
(*                                                                         *)
(* External: the model service, which sends events, and whatever stops the *)
(* bridge (hang-up, budget, shutdown).                                     *)
(***************************************************************************)
EXTENDS Integers, Sequences

CONSTANTS
  MaxToolFailures,      \* escalation.max_consecutive_tool_failures
  MaxNegativeTurns,     \* escalation.max_negative_sentiment_turns
  LiveSentiment,        \* escalation.live_sentiment
  MaxEvents             \* bound: utterances and function calls in one call

ASSUME CallFlowAssumption ==
  /\ MaxToolFailures \in Nat \ {0}
  /\ MaxNegativeTurns \in Nat \ {0}
  /\ LiveSentiment \in BOOLEAN
  /\ MaxEvents \in Nat

VARIABLES
  lastCallerText,            \* "silent" until the caller has said something
  consecutiveToolFailures,
  negativeSentimentTurns,
  toolHistory,
  escalated,
  bookingConfirmed,
  inServiceArea,             \* "unknown" is Python's None
  handler,                   \* what pump_openai is awaiting
  stopped,                   \* the bridge's stop flag
  outcome,                   \* the call row's outcome, "live" until it is over
  inbox,                     \* external: events sent and not read
  events,                    \* external: how many were sent
  verdictsDue,               \* external: classifications asked for, not answered
  verdicts,                  \* history: every label pump_openai has read
  transfers                  \* history: transfers dispatched by an escalation

stateVars == <<lastCallerText, consecutiveToolFailures, negativeSentimentTurns, toolHistory,
               escalated, bookingConfirmed, inServiceArea>>
externalVars == <<inbox, events, verdictsDue>>
historyVars == <<verdicts, transfers>>
callVars == <<stateVars, handler, stopped, outcome, externalVars, historyVars>>

Utterances == {"plain", "human", "safety"}
Labels == {"negative", "positive", "garbled"}
Tools == {"book_appointment", "check_service_area", "transfer_to_human"}
Outcomes == {"live", "booked", "escalated", "out_of_area", "abandoned", "qualified", "failed"}

Reading == [at |-> "read"]

CallInit ==
  /\ lastCallerText = "silent"
  /\ consecutiveToolFailures = 0
  /\ negativeSentimentTurns = 0
  /\ toolHistory = <<>>
  /\ escalated = FALSE
  /\ bookingConfirmed = FALSE
  /\ inServiceArea = "unknown"
  /\ handler = Reading
  /\ stopped = FALSE
  /\ outcome = "live"
  /\ inbox = <<>>
  /\ events = 0
  /\ verdictsDue = 0
  /\ verdicts = <<>>
  /\ transfers = 0

-----------------------------------------------------------------------------
(* External: the model service and the end of the call *)

Arrives(event) ==
  /\ ~stopped
  /\ inbox' = Append(inbox, event)
  /\ UNCHANGED <<stateVars, handler, stopped, outcome, historyVars>>

CallerSpeaks(u) ==
  /\ events < MaxEvents
  /\ events' = events + 1
  /\ Arrives([kind |-> "utterance", value |-> u])
  /\ UNCHANGED verdictsDue

ModelCallsTool(t) ==
  /\ events < MaxEvents
  /\ events' = events + 1
  /\ Arrives([kind |-> "call", value |-> t])
  /\ UNCHANGED verdictsDue

ClassifierAnswers(label) ==
  /\ verdictsDue > 0
  /\ verdictsDue' = verdictsDue - 1
  /\ Arrives([kind |-> "verdict", value |-> label])
  /\ UNCHANGED events

Stop ==
  /\ ~stopped
  /\ stopped' = TRUE
  /\ UNCHANGED <<stateVars, handler, outcome, externalVars, historyVars>>

-----------------------------------------------------------------------------
(* pump_openai: one event at a time *)

Read(kind) ==
  /\ handler = Reading
  /\ ~stopped
  /\ inbox # <<>>
  /\ Head(inbox).kind = kind
  /\ inbox' = Tail(inbox)
  /\ UNCHANGED <<stopped, outcome, events, verdictsDue, transfers>>

\* The turn is stored before escalation is considered.
OnCallerTranscript ==
  /\ Read("utterance")
  /\ lastCallerText' = Head(inbox).value
  /\ handler' = [at |-> "check", classify |-> TRUE]
  /\ UNCHANGED <<consecutiveToolFailures, negativeSentimentTurns, toolHistory, escalated,
                 bookingConfirmed, inServiceArea, verdicts>>

RecordSentiment(label) ==
  negativeSentimentTurns' = IF label = "negative" THEN negativeSentimentTurns + 1 ELSE 0

\* Mutant: the verdict is recorded and left at that.
OnSentimentVerdictUnchecked ==
  /\ Read("verdict")
  /\ verdicts' = Append(verdicts, Head(inbox).value)
  /\ \/ Head(inbox).value = "garbled" /\ UNCHANGED negativeSentimentTurns
     \/ Head(inbox).value # "garbled" /\ RecordSentiment(Head(inbox).value)
  /\ UNCHANGED <<lastCallerText, consecutiveToolFailures, toolHistory, escalated,
                 bookingConfirmed, inServiceArea, handler>>

\* A label outside the closed set is dropped before record_sentiment.
OnSentimentVerdict ==
  /\ Read("verdict")
  /\ verdicts' = Append(verdicts, Head(inbox).value)
  /\ \/ /\ Head(inbox).value = "garbled"
        /\ UNCHANGED <<negativeSentimentTurns, handler>>
     \/ /\ Head(inbox).value # "garbled"
        /\ RecordSentiment(Head(inbox).value)
        /\ handler' = [at |-> "check", classify |-> FALSE]
  /\ UNCHANGED <<lastCallerText, consecutiveToolFailures, toolHistory, escalated,
                 bookingConfirmed, inServiceArea>>

OnFunctionCall ==
  /\ Read("call")
  /\ handler' = [at |-> "tool", tool |-> Head(inbox).value]
  /\ UNCHANGED <<stateVars, verdicts>>

\* Mutant: the safety keywords are not consulted.
ShouldEscalateNoSafety ==
  IF lastCallerText = "human" THEN "caller_request"
  ELSE IF consecutiveToolFailures >= MaxToolFailures THEN "tool_failure"
  ELSE IF negativeSentimentTurns >= MaxNegativeTurns THEN "frustration"
  ELSE "none"

\* Highest priority first; "none" leaves the call with the agent.
ShouldEscalate ==
  IF lastCallerText = "safety" THEN "safety"
  ELSE IF lastCallerText = "human" THEN "caller_request"
  ELSE IF consecutiveToolFailures >= MaxToolFailures THEN "tool_failure"
  ELSE IF negativeSentimentTurns >= MaxNegativeTurns THEN "frustration"
  ELSE "none"

\* Mutant: the flag is not set before the transfer is tried.
CheckEscalationUnflagged ==
  /\ handler.at = "check"
  /\ \/ /\ ~escalated
        /\ ShouldEscalate # "none"
        /\ handler' = [at |-> "announce", reason |-> ShouldEscalate]
     \/ /\ escalated \/ ShouldEscalate = "none"
        /\ handler' = Reading
  /\ UNCHANGED <<stateVars, stopped, outcome, externalVars, historyVars>>

\* The end of every handler. The flag is set before the transfer is tried.
CheckEscalation ==
  /\ handler.at = "check"
  /\ \/ /\ ~escalated
        /\ ShouldEscalate # "none"
        /\ escalated' = TRUE
        /\ handler' = [at |-> "announce", reason |-> ShouldEscalate]
        /\ UNCHANGED verdictsDue
     \/ /\ escalated \/ ShouldEscalate = "none"
        /\ handler' = Reading
        /\ verdictsDue' = IF handler.classify /\ LiveSentiment /\ ~escalated
                          THEN verdictsDue + 1 ELSE verdictsDue
        /\ UNCHANGED escalated
  /\ UNCHANGED <<lastCallerText, consecutiveToolFailures, negativeSentimentTurns, toolHistory,
                 bookingConfirmed, inServiceArea, stopped, outcome, inbox, events, historyVars>>

\* The event and the hook are awaited, then the transfer is dispatched if the
\* client's tools_enabled has it; the call consults that setting only here, and
\* only once. The cut for a safety keyword is AudioPath's SafetyPreempts.
Escalate ==
  /\ handler.at = "announce"
  /\ \/ /\ handler' = [at |-> "tool", tool |-> "transfer_to_human"]
        /\ transfers' = transfers + 1
     \/ /\ handler' = Reading
        /\ UNCHANGED transfers
  /\ UNCHANGED <<stateVars, stopped, outcome, externalVars, verdicts>>

\* run_tool is over and the result goes back to the model.
ToolFinishes(ok) ==
  /\ handler.at = "tool"
  /\ handler' = [at |-> "store", tool |-> handler.tool, ok |-> ok]
  /\ UNCHANGED <<stateVars, stopped, outcome, externalVars, historyVars>>

RecordTool(tool, ok) ==
  /\ toolHistory' = Append(toolHistory, [tool |-> tool, ok |-> ok])
  /\ consecutiveToolFailures' = IF ok THEN 0 ELSE consecutiveToolFailures + 1

\* Mutant: any answer of the booking tool confirms the booking.
OnInvocationUnchecked(area) ==
  /\ handler.at = "store"
  /\ RecordTool(handler.tool, handler.ok)
  /\ bookingConfirmed' = (bookingConfirmed \/ handler.tool = "book_appointment")
  /\ handler' = [at |-> "check", classify |-> FALSE]
  /\ UNCHANGED <<lastCallerText, negativeSentimentTurns, escalated, inServiceArea, stopped,
                 outcome, externalVars, historyVars>>

\* on_invocation stores the row and sets the flags, then record_tool runs.
OnInvocation(area) ==
  /\ handler.at = "store"
  /\ RecordTool(handler.tool, handler.ok)
  /\ bookingConfirmed' = (bookingConfirmed \/ (handler.ok /\ handler.tool = "book_appointment"))
  /\ inServiceArea' = IF handler.ok /\ handler.tool = "check_service_area"
                      THEN area ELSE inServiceArea
  /\ handler' = [at |-> "check", classify |-> FALSE]
  /\ UNCHANGED <<lastCallerText, negativeSentimentTurns, escalated, stopped, outcome,
                 externalVars, historyVars>>

-----------------------------------------------------------------------------
(* run and the gateway: the pump is cancelled wherever it is, the outcome  *)
(* is decided once, from the state it left or because the session raised.  *)

Cancel ==
  /\ stopped
  /\ handler.at # "gone"
  /\ handler' = [at |-> "gone"]
  /\ UNCHANGED <<stateVars, stopped, outcome, externalVars, historyVars>>

Classify ==
  IF bookingConfirmed THEN "booked"
  ELSE IF escalated THEN "escalated"
  ELSE IF inServiceArea = "out" THEN "out_of_area"
  ELSE IF lastCallerText = "silent" THEN "abandoned"
  ELSE "qualified"

FinishCall ==
  /\ handler.at = "gone"
  /\ outcome = "live"
  /\ outcome' = Classify
  /\ UNCHANGED <<stateVars, handler, stopped, externalVars, historyVars>>

\* The model service cannot be reached, the session's task is cancelled or its
\* teardown raises: the call is not classified, whatever it had achieved, and
\* a pump in the middle of a handler may still finish it.
SessionFails ==
  /\ outcome = "live"
  /\ outcome' = "failed"
  /\ stopped' = TRUE
  /\ UNCHANGED <<stateVars, handler, externalVars, historyVars>>

-----------------------------------------------------------------------------

PumpStep ==
  \/ OnCallerTranscript
  \/ OnSentimentVerdict
  \/ OnFunctionCall
  \/ CheckEscalation
  \/ Escalate
  \/ \E ok \in BOOLEAN : ToolFinishes(ok)
  \/ \E area \in {"in", "out"} : OnInvocation(area)

CallNext ==
  \/ \E u \in Utterances : CallerSpeaks(u)
  \/ \E t \in Tools : ModelCallsTool(t)
  \/ \E l \in Labels : ClassifierAnswers(l)
  \/ Stop
  \/ PumpStep
  \/ Cancel
  \/ FinishCall
  \/ SessionFails

\* The event loop runs a pump that can run, and every await in a handler is
\* bounded: a tool by its budgets, a write by the socket.
CallSpec == CallInit /\ [][CallNext]_callVars /\ WF_callVars(PumpStep)

-----------------------------------------------------------------------------
(* Properties *)

CallTypeOK ==
  /\ lastCallerText \in Utterances \cup {"silent"}
  /\ consecutiveToolFailures \in Nat
  /\ negativeSentimentTurns \in Nat
  /\ toolHistory \in Seq([tool : Tools, ok : BOOLEAN])
  /\ escalated \in BOOLEAN /\ bookingConfirmed \in BOOLEAN /\ stopped \in BOOLEAN
  /\ inServiceArea \in {"unknown", "in", "out"}
  /\ outcome \in Outcomes
  /\ handler.at \in {"read", "check", "announce", "tool", "store", "gone"}
  /\ events \in 0..MaxEvents
  /\ verdictsDue \in Nat
  /\ transfers \in Nat

\* Whichever handler raised a trigger, it has escalated by the time the pump
\* reads its next event: no path through a turn, a verdict or a tool result
\* leaves a threshold reached and the call with the agent (bridge.py:492,
\* 530, 613 all end in _check_escalation).
NoTriggerMissed ==
  handler = Reading /\ ~escalated => ShouldEscalate = "none"

\* However many triggers fire, and although a failing transfer is itself a
\* tool failure that is checked again from inside the escalation
\* (bridge.py:580, 613), one call dispatches one escalation transfer.
OneTransferPerCall == transfers <= 1

TrailingFailures ==
  {k \in DOMAIN toolHistory : \A j \in k..Len(toolHistory) : ~toolHistory[j].ok}

\* "three *consecutive* failures is the trigger, not three failures over the
\* life of the call" (state.py:57-58): the counter equals the run of failures
\* at the end of the tool history, the failures of a transfer included.
FailureStreakExact ==
  TrailingFailures = (Len(toolHistory) - consecutiveToolFailures + 1)..Len(toolHistory)

\* A call is written down as "booked" only if a booking succeeded and was
\* recorded, and a call in which one did is written down as something else only
\* if its session raised, wherever the pump was cancelled and whatever else
\* happened (gateway.py:133, 160-169, 183-186, 237-238).
BookedExactly ==
  LET booked == \E k \in DOMAIN toolHistory :
                   toolHistory[k] = [tool |-> "book_appointment", ok |-> TRUE]
  IN /\ outcome = "booked" => booked
     /\ booked => outcome \in {"live", "booked", "failed"}

\* What the call remembers agrees with what happened in it: types, streak and
\* outcome (state.py:36-65, gateway.py:183-262).
CallStateExact == CallTypeOK /\ FailureStreakExact /\ BookedExactly

SafetyWaiting == \E k \in DOMAIN inbox : inbox[k].kind = "utterance" /\ inbox[k].value = "safety"

\* A safety keyword the caller has spoken is acted on, whatever else is in the
\* inbox, unless the call ends first (escalation.py:74-77).
SafetyAlwaysEscalates == SafetyWaiting ~> (escalated \/ stopped)

\* "a gas-smell call pre-empt[s] an in-flight booking rather than queue behind
\* it" (escalation.py:4-5): no booking completes while a safety utterance the
\* service has already sent is still unread.
SafetyPreemptsBooking ==
  [][SafetyWaiting /\ handler.at = "tool" /\ handler.tool = "book_appointment"
       => handler'.at # "store"]_handler

\* The last n verdicts read, n being the frustration threshold, are negative.
NegativeRun ==
  /\ Len(verdicts) >= MaxNegativeTurns
  /\ \A k \in (Len(verdicts) - MaxNegativeTurns + 1)..Len(verdicts) : verdicts[k] = "negative"

\* "`record_sentiment` treats anything outside the negative set as a streak
\* reset, so an unparseable answer is a false negative" (bridge.py:78-80): an
\* escalation for frustration follows consecutive negative verdicts.
FrustrationIsConsecutive ==
  handler.at = "announce" /\ handler.reason = "frustration" => NegativeRun

=============================================================================
