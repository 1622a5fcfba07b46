----------------------------- MODULE CallRecord ----------------------------
(***************************************************************************)
(* The calls row of one call and the messages its handlers send: the voice *)
(* webhook and the media gateway that write the row, Twilio's status and   *)
(* SMS callbacks (apps/api/telephony/twiml.py, status_webhook.py;          *)
(* media/gateway.py), and the payment link tool under                      *)
(* run_tool (tools/payment.py, tools/registry.py). The calls of send_sms   *)
(* are those of SmsSend.                                                   *)
(*                                                                         *)
(* Every handler is a task, and each of its transactions one step: at READ *)
(* COMMITTED a row may change between a SELECT and the UPDATE behind it.   *)
(*                                                                         *)
(* External: Twilio reports one terminal status of a call, delivers it at  *)
(* least once, and delivers it again after a failure or a timeout.         *)
(***************************************************************************)
EXTENDS SmsSend, Sequences

CONSTANTS
  Deliveries,       \* deliveries of the status callback
  Invocations,      \* 1..n, the model service's requests for one amount
  Attempts,         \* 1..n, run_tool's budgets for the payment tool
  PayAttempt(_, _), \* invocation, attempt -> its sender
  MissedKey, PayKey,
  MaxCrashes,       \* bound: tasks that die
  MaxAskedIfFailed  \* bound: invocations of the tool in a call reported failed

\* Every call of send_sms is a sender of its own, and the keys are the two
\* prefixes "missed_call:" and "payment_link:", the latter with one amount.
ASSUME RecordAssumption ==
  /\ 1 \in Attempts /\ Attempts \subseteq Nat /\ Invocations \subseteq Nat \ {0}
  /\ \A i \in Invocations, n \in Attempts : PayAttempt(i, n) \in Senders \ Deliveries
  /\ \A i, j \in Invocations, m, n \in Attempts :
       PayAttempt(i, m) = PayAttempt(j, n) => i = j /\ m = n
  /\ Deliveries \subseteq Senders
  /\ MissedKey \in Keys /\ PayKey \in Keys /\ MissedKey # PayKey
  /\ MaxCrashes \in Nat /\ MaxAskedIfFailed \in Nat

VARIABLES
  row,      \* the calls row
  gateway,  \* the task of the media socket; `raced`: the callbacks that had
            \* read the row and not written it when the gateway wrote
  status,   \* external: how the call ended, for Twilio
  callback, \* delivery -> where its handler is
  pay,      \* where the payment tool is, and what its invocations answered
  crashes

recordVars == <<row, gateway, status, callback, pay, crashes>>
vars == <<smsVars, recordVars>>

Terminal == {"completed", "busy", "no-answer", "canceled", "failed"}
Missed == {"no-answer", "busy", "failed"}
Outcomes == {"handled", "abandoned", "failed"}
Sender == PayAttempt(pay.invocation, pay.attempt)
NoRow == [stored |-> FALSE, outcome |-> "none"]

RecordInit ==
  /\ SmsInit
  /\ row = NoRow
  /\ gateway = [at |-> "none", outcome |-> "none", raced |-> {}]
  /\ status = "live"
  /\ callback = [d \in Deliveries |-> "idle"]
  /\ pay = [at |-> "idle", invocation |-> 0, attempt |-> 0, told |-> <<>>]
  /\ crashes = 0

-----------------------------------------------------------------------------
(* The voice webhook, which stores the row. *)

InboundVoice ==
  /\ ~row.stored /\ gateway.at = "none" /\ status = "live"
  /\ row' = [NoRow EXCEPT !.stored = TRUE]
  /\ UNCHANGED <<smsVars, gateway, status, callback, pay, crashes>>

-----------------------------------------------------------------------------
(* The media gateway: the row of a legacy stream, and the unconditional    *)
(* update of its `finally`.                                                *)

GatewayConnects ==
  /\ gateway.at = "none" /\ status = "live"
  /\ row' = [row EXCEPT !.stored = TRUE]
  /\ gateway' = [gateway EXCEPT !.at = "running"]
  /\ UNCHANGED <<smsVars, status, callback, pay, crashes>>

\* run() is over before the row is updated: a payment tool that is still
\* awaited has been cancelled with pump_openai.
PayCancelled ==
  IF pay.at = "idle" THEN UNCHANGED <<smsVars, pay>>
  ELSE /\ pay' = [pay EXCEPT !.at = "gone"]
       /\ IF pay.at = "texting" /\ ~Over(Sender) THEN Abandon(Sender) ELSE UNCHANGED smsVars

GatewayFinishes ==
  /\ gateway.at = "running"
  /\ PayCancelled
  /\ \E outcome \in {"handled", "failed"} :
       /\ row' = [row EXCEPT !.outcome = outcome]
       /\ gateway' = [at |-> "ended", outcome |-> outcome,
                      raced |-> {d \in Deliveries : callback[d] = "decided"}]
  /\ UNCHANGED <<status, callback, crashes>>

\* The process dies, or the final UPDATE raises.
GatewayDies ==
  /\ gateway.at = "running" /\ crashes < MaxCrashes
  /\ PayCancelled
  /\ gateway' = [gateway EXCEPT !.at = "dead"]
  /\ crashes' = crashes + 1
  /\ UNCHANGED <<row, status, callback>>

\* External.
CallEnds ==
  /\ status = "live"
  /\ \E s \in Terminal :
       /\ gateway.at = "none" \/ s \in {"completed", "failed"}
       /\ s = "failed" => pay.invocation <= MaxAskedIfFailed
       /\ status' = s
  /\ UNCHANGED <<smsVars, row, gateway, callback, pay, crashes>>

-----------------------------------------------------------------------------
(* call_status: the row is read, its outcome written if the row read had   *)
(* none, and a missed call texted about after the transaction.             *)

Then(d) == IF status \in Missed THEN "text" ELSE "done"

\* Mutant: `if call.outcome is None` is left out.
StatusReadsBlind(d) ==
  /\ callback[d] = "idle" /\ status # "live"
  /\ callback' = [callback EXCEPT ![d] = IF row.stored THEN "decided" ELSE "done"]
  /\ UNCHANGED <<smsVars, row, gateway, status, pay, crashes>>

StatusReads(d) ==
  /\ callback[d] = "idle" /\ status # "live"
  /\ callback' = [callback EXCEPT ![d] =
       IF ~row.stored THEN "done"
       ELSE IF row.outcome = "none" THEN "decided" ELSE Then(d)]
  /\ UNCHANGED <<smsVars, row, gateway, status, pay, crashes>>

\* Mutant: only missed calls are finalised.
StatusWritesMissed(d) ==
  /\ callback[d] = "decided"
  /\ row' = IF status \in Missed THEN [row EXCEPT !.outcome = "abandoned"] ELSE row
  /\ callback' = [callback EXCEPT ![d] = Then(d)]
  /\ UNCHANGED <<smsVars, gateway, status, pay, crashes>>

StatusWrites(d) ==
  /\ callback[d] = "decided"
  /\ row' = [row EXCEPT !.outcome = IF status \in {"no-answer", "canceled", "busy"}
                                    THEN "abandoned" ELSE "failed"]
  /\ callback' = [callback EXCEPT ![d] = Then(d)]
  /\ UNCHANGED <<smsVars, gateway, status, pay, crashes>>

StatusTexts(d) ==
  /\ callback[d] = "text"
  /\ SendSms(d, MissedKey)
  /\ callback' = [callback EXCEPT ![d] = "texting"]
  /\ UNCHANGED <<row, gateway, status, pay, crashes>>

StatusAnswers(d) ==
  /\ callback[d] = "texting" /\ Over(d)
  /\ callback' = [callback EXCEPT ![d] = IF send[d].at = "done" THEN "done" ELSE "dead"]
  /\ UNCHANGED <<smsVars, row, gateway, status, pay, crashes>>

StatusDies(d) ==
  /\ crashes < MaxCrashes
  /\ crashes' = crashes + 1
  /\ \/ /\ callback[d] \in {"decided", "text"}
        /\ callback' = [callback EXCEPT ![d] = "dead"]
        /\ UNCHANGED smsVars
     \/ callback[d] = "texting" /\ Abandon(d) /\ UNCHANGED callback
  /\ UNCHANGED <<row, gateway, status, pay>>

-----------------------------------------------------------------------------
(* send_payment_link under run_tool: a Stripe link, which Stripe collapses *)
(* by its idempotency key, then the text. The tools of a call run one      *)
(* after the other, and the model service may ask for this one again: the  *)
(* key holds the call and the amount, not the invocation.                  *)

PayStarts ==
  /\ gateway.at = "running" /\ pay.at = "idle" /\ pay.invocation + 1 \in Invocations
  /\ status = "failed" => pay.invocation < MaxAskedIfFailed
  /\ pay' = [pay EXCEPT !.at = "link", !.invocation = @ + 1, !.attempt = 1]
  /\ UNCHANGED <<smsVars, row, gateway, status, callback, crashes>>

PayTells(what) == pay' = [pay EXCEPT !.at = "idle", !.told = Append(@, what)]
PayTellsOk == PayTells("ok")

\* The next budget, if one is left, or the degraded answer.
PayFails ==
  IF pay.attempt + 1 \in Attempts
  THEN pay' = [pay EXCEPT !.at = "link", !.attempt = @ + 1]
  ELSE PayTells("degraded")

\* No link, an error, or a timeout before the text.
PayUnlinked ==
  /\ pay.at = "link"
  /\ PayFails
  /\ UNCHANGED <<smsVars, row, gateway, status, callback, crashes>>

\* The link is there, and send_sms begins.
PayTexts ==
  /\ pay.at = "link"
  /\ SendSms(Sender, PayKey)
  /\ pay' = [pay EXCEPT !.at = "texting"]
  /\ UNCHANGED <<row, gateway, status, callback, crashes>>

\* Mutant: a deduplicated send is taken for a delivered one.
PayAnsweredLenient ==
  /\ pay.at = "texting" /\ send[Sender].at = "done"
  /\ IF send[Sender].result = "true" \/ send[Sender].heard = "none" THEN PayTellsOk ELSE PayFails
  /\ UNCHANGED <<smsVars, row, gateway, status, callback, crashes>>

PayAnswered ==
  /\ pay.at = "texting" /\ send[Sender].at = "done"
  /\ IF send[Sender].result = "true" THEN PayTellsOk ELSE PayFails
  /\ UNCHANGED <<smsVars, row, gateway, status, callback, crashes>>

\* wait_for cancels the handler; send_sms ends at its await.
PayTimesOut ==
  /\ pay.at = "texting"
  /\ Abandon(Sender)
  /\ PayFails
  /\ UNCHANGED <<row, gateway, status, callback, crashes>>

-----------------------------------------------------------------------------

StatusStep(d) ==
  StatusReads(d) \/ StatusWrites(d) \/ StatusTexts(d) \/ StatusAnswers(d)

Sends(s) == SendStep(s) /\ UNCHANGED recordVars

\* With new credentials; no handler of this process is under way.
Restarts ==
  /\ gateway.at # "running" /\ \A d \in Deliveries : callback[d] \in {"idle", "done", "dead"}
  /\ Repair /\ UNCHANGED recordVars

RecordNext ==
  \/ InboundVoice \/ GatewayConnects \/ GatewayFinishes \/ GatewayDies \/ CallEnds
  \/ \E d \in Deliveries : StatusStep(d) \/ StatusDies(d)
  \/ PayStarts \/ PayUnlinked \/ PayTexts \/ PayAnswered \/ PayTimesOut
  \/ \E s \in Senders : Sends(s)
  \/ Restarts
  \/ (InboundSms \/ \E s \in Senders : TwilioAccepts(s)) /\ UNCHANGED recordVars

\* Twilio delivers a terminal status until it is answered, and a handler that
\* can go on goes on.
RecordSpec ==
  /\ RecordInit
  /\ [][RecordNext]_vars
  /\ \A d \in Deliveries : WF_vars(StatusStep(d))

-----------------------------------------------------------------------------
(* Properties *)

RecordTypeOK ==
  /\ SmsTypeOK
  /\ row \in [stored : BOOLEAN, outcome : Outcomes \cup {"none"}]
  /\ gateway \in [at : {"none", "running", "ended", "dead"},
                  outcome : {"none", "handled", "failed"}, raced : SUBSET Deliveries]
  /\ status \in Terminal \cup {"live"}
  /\ callback \in [Deliveries -> {"idle", "decided", "text", "texting", "done", "dead"}]
  /\ pay \in [at : {"idle", "link", "texting", "gone"},
              invocation : Invocations \cup {0}, attempt : Attempts \cup {0},
              told : Seq({"ok", "degraded"})]
  /\ crashes \in 0..MaxCrashes

\* "the gateway's own `finally` sets one for every call it did handle"
\* (status_webhook.py:50-51). The guard there is a read: a callback that had
\* read "none" before the gateway wrote, and writes after it, overwrites the
\* outcome, which the code does not prevent. Nothing else does: until one of
\* those callbacks has gone on, the row holds what the gateway wrote.
GatewayOutcomeStands ==
  gateway.at = "ended" =>
    \/ row.outcome = gateway.outcome
    \/ \E d \in gateway.raced : callback[d] # "decided"

\* What a sender did is in doubt: it was abandoned, it had no answer, or its
\* success could not be recorded.
InDoubt(s) ==
  send[s].at = "dead" \/ send[s].heard = "unheard" \/ (send[s].heard = "ok" /\ send[s].result = "raised")

\* What the caller is told of the link (payment.py:141-151). "ok" means that
\* exactly one message was taken. "Did not send", with a message taken, is
\* explained by the one sender that claimed the key: what it did is in doubt, it
\* is of a later invocation, or of an earlier one that was told "ok", whose
\* message the repeated request must not duplicate (payment.py:125-128).
PayToldTruth ==
  \A i \in DOMAIN pay.told :
    /\ pay.told[i] = "ok" => texts[PayKey] = 1
    /\ pay.told[i] = "degraded" /\ texts[PayKey] > 0 =>
         \E j \in Invocations, n \in Attempts :
           /\ Claimed(PayAttempt(j, n)) /\ send[PayAttempt(j, n)].key = PayKey
           /\ j > i \/ (j < i /\ pay.told[j] = "ok") \/ InDoubt(PayAttempt(j, n))

\* Every call with a row ends with an outcome, also when it never reached the
\* media plane or the process that handled it died (status_webhook.py:50-56).
EndedCallHasOutcome ==
  (row.stored /\ status # "live") ~> row.outcome # "none"

\* Types, and every claimed key explained (repository.py:243-248).
RecordOK == RecordTypeOK /\ UnsentKeyExplained

=============================================================================
