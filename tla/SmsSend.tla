------------------------------ MODULE SmsSend ------------------------------
(***************************************************************************)
(* send_sms: the suppression check, the claim of the dedupe key, the POST  *)
(* under the UNSAFE_WRITE policy, and the record of the delivery           *)
(* (apps/api/telephony/sms.py and the sms_sends and contacts helpers of    *)
(* apps/api/db/repository.py). One recipient of one client; a sender is    *)
(* one call of send_sms.                                                   *)
(*                                                                         *)
(* Check and claim share a transaction, not a snapshot: at READ COMMITTED  *)
(* a STOP may commit between the SELECT and the INSERT.                    *)
(*                                                                         *)
(* External: the provider may act on a request whose answer is ambiguous   *)
(* or whose sender is gone, and at any later time.                         *)
(***************************************************************************)
EXTENDS Naturals, FiniteSets

CONSTANTS Senders, Keys, NoKey

R == INSTANCE Retry

VARIABLES
  configured, \* Twilio credentials are set
  optedOut,   \* contacts.opted_out_at is not null
  claims,     \* keys that have a row in sms_sends
  delivered,  \* those marked delivered
  send,       \* sender -> where its call of send_sms is
  wire,       \* external: sender -> its latest request, as the provider has it
  texts       \* external: key -> messages the provider took

smsVars == <<configured, optedOut, claims, delivered, send, wire, texts>>

Idle == [at |-> "idle", key |-> NoKey, tries |-> 0, heard |-> "none", result |-> "none"]

SmsInit ==
  /\ configured \in BOOLEAN
  /\ optedOut \in BOOLEAN
  /\ claims = {} /\ delivered = {}
  /\ send = [s \in Senders |-> Idle]
  /\ wire = [s \in Senders |-> "none"]
  /\ texts = [k \in Keys |-> 0]

Returns(s, r) == send' = [send EXCEPT ![s].at = "done", ![s].result = r]

\* The caller's await of send_sms is over: it returned or raised, or it was
\* abandoned with its claim ("dead") or rolled back without one ("undone").
Over(s) == send[s].at \in {"done", "dead", "undone"}

\* The sender whose transaction inserted the row of its key: every sender that
\* came past the claim, and none that was refused.
Claimed(s) == send[s].at \in {"post", "asked", "mark", "dead"} \/ send[s].heard # "none"

-----------------------------------------------------------------------------
(* The first transaction: the check, then the claim and its commit.        *)

\* Mutant: the key is claimed before the configuration is looked at.
SendSmsClaimFirst(s, k) ==
  /\ send[s].at = "idle"
  /\ claims' = IF configured THEN claims ELSE claims \cup {k}
  /\ IF configured /\ ~optedOut
     THEN send' = [send EXCEPT ![s] = [Idle EXCEPT !.at = "cleared", !.key = k]]
     ELSE send' = [send EXCEPT ![s] = [Idle EXCEPT !.at = "done", !.key = k, !.result = "false"]]
  /\ UNCHANGED <<configured, optedOut, delivered, wire, texts>>

\* The configuration and is_suppressed: nothing is claimed yet.
SendSms(s, k) ==
  /\ send[s].at = "idle"
  /\ IF configured /\ ~optedOut
     THEN send' = [send EXCEPT ![s] = [Idle EXCEPT !.at = "cleared", !.key = k]]
     ELSE send' = [send EXCEPT ![s] = [Idle EXCEPT !.at = "done", !.key = k, !.result = "false"]]
  /\ UNCHANGED <<configured, optedOut, claims, delivered, wire, texts>>

\* The INSERT waits for a concurrent one of the same key, so it is one step with
\* its commit. A transaction that fails, in the SELECT or here, claims nothing.
ClaimSmsSend(s) ==
  /\ send[s].at = "cleared"
  /\ \/ /\ send[s].key \in claims
        /\ Returns(s, "false") /\ UNCHANGED claims
     \/ /\ send[s].key \notin claims
        /\ claims' = claims \cup {send[s].key}
        /\ send' = [send EXCEPT ![s].at = "post"]
     \/ Returns(s, "raised") /\ UNCHANGED claims
  /\ UNCHANGED <<configured, optedOut, delivered, wire, texts>>

-----------------------------------------------------------------------------
(* request_with_retry around the POST. *)

Post(s) ==
  /\ send[s].at = "post"
  /\ send' = [send EXCEPT ![s].at = "asked", ![s].tries = @ + 1]
  /\ wire' = [wire EXCEPT ![s] = "sent"]
  /\ UNCHANGED <<configured, optedOut, claims, delivered, texts>>

TwilioAccepts(s) ==
  /\ wire[s] = "sent"
  /\ wire' = [wire EXCEPT ![s] = IF send[s].at = "asked" THEN "acted" ELSE "none"]
  /\ texts' = [texts EXCEPT ![send[s].key] = @ + 1]
  /\ UNCHANGED <<configured, optedOut, claims, delivered, send>>

\* An answer that says nothing about what the provider did, or will still do.
Ambiguous(answer) == answer \in {"broken", "unanswered"}

Heard(answer) ==
  IF answer = "ok" THEN "ok" ELSE IF Ambiguous(answer) THEN "unheard" ELSE "refused"

Answered(s, answer) ==
  /\ send[s].at = "asked"
  /\ answer \in R!Possible(wire[s] = "acted")
  /\ wire' = [wire EXCEPT ![s] = IF Ambiguous(answer) /\ @ = "sent" THEN @ ELSE "none"]
  /\ IF R!Retries(R!UnsafeWrite, send[s].tries, answer)
     THEN send' = [send EXCEPT ![s].at = "post"]
     ELSE send' = [send EXCEPT ![s].at = IF answer = "ok" THEN "mark" ELSE "done",
                               ![s].heard = Heard(answer), ![s].tries = 0,
                               ![s].result = IF answer = "ok" THEN @ ELSE "false"]
  /\ UNCHANGED <<configured, optedOut, claims, delivered, texts>>

\* The second transaction; when it fails the exception leaves send_sms.
MarkDelivered(s) ==
  /\ send[s].at = "mark"
  /\ \/ delivered' = delivered \cup {send[s].key} /\ Returns(s, "true")
     \/ Returns(s, "raised") /\ UNCHANGED delivered
  /\ UNCHANGED <<configured, optedOut, claims, wire, texts>>

\* The task is cancelled, or the process dies, at an await of send_sms. Before
\* the commit the transaction is rolled back, after it the claim stands.
Abandon(s) ==
  /\ send[s].at \in {"cleared", "post", "asked", "mark"}
  /\ send' = [send EXCEPT ![s].at = IF @ = "cleared" THEN "undone" ELSE "dead", ![s].tries = 0]
  /\ wire' = [wire EXCEPT ![s] = IF @ = "acted" THEN "none" ELSE @]
  /\ UNCHANGED <<configured, optedOut, claims, delivered, texts>>

-----------------------------------------------------------------------------
(* Around it: inbound_sms and the operator. *)

\* A STOP for a number of this client; a repeated one changes nothing here.
InboundSms ==
  /\ optedOut' = TRUE
  /\ UNCHANGED <<configured, claims, delivered, send, wire, texts>>

\* Credentials are added and the process restarted.
Repair ==
  /\ ~configured
  /\ \A s \in Senders : send[s].at = "idle" \/ Over(s)
  /\ configured' = TRUE
  /\ UNCHANGED <<optedOut, claims, delivered, send, wire, texts>>

SendStep(s) ==
  ClaimSmsSend(s) \/ Post(s) \/ (\E a \in R!Answers : Answered(s, a)) \/ MarkDelivered(s)

-----------------------------------------------------------------------------
(* Properties *)

SmsTypeOK ==
  /\ configured \in BOOLEAN
  /\ optedOut \in BOOLEAN
  /\ delivered \subseteq claims /\ claims \subseteq Keys
  /\ send \in [Senders -> [at : {"idle", "cleared", "post", "asked", "mark",
                                 "done", "dead", "undone"},
                           key : Keys \cup {NoKey}, tries : 0..2,
                           heard : {"none", "ok", "refused", "unheard"},
                           result : {"none", "true", "false", "raised"}]]
  /\ wire \in [Senders -> {"none", "sent", "acted"}]
  /\ texts \in [Keys -> Nat]

\* "one missed call is one text" (status_webhook.py:64-65), and the suppression
\* is what "this module will not send around" (sms.py:3-5): whatever is retried,
\* redelivered, cancelled or lost, the provider takes at most one message per
\* key, and after a STOP no further message is considered. One whose check came
\* before the STOP may still be claimed, and sent, after it.
Promise == INSTANCE Outbox WITH
  stopped <- optedOut,
  due <- {send[s].key : s \in {t \in Senders : send[t].at = "cleared"}},
  reserved <- claims
ImplementsOutbox == Promise!OutboxSpec

\* "The claim stands either way" (repository.py:243-248): a claimed key whose
\* message the provider never took, with no sender of it left, is explained by
\* a sender that died after the claim or was not answered "ok"; an attempt
\* that lacked the configuration never consumes a key (sms.py:51-54). A row
\* marked delivered is a message the provider took.
UnsentKeyExplained ==
  \A k \in claims :
    \/ texts[k] > 0
    \/ /\ k \notin delivered
       /\ \E s \in Senders :
            /\ send[s].key = k
            /\ \/ send[s].at \in {"post", "asked", "dead"}
               \/ send[s].heard \in {"refused", "unheard"}

=============================================================================
