-------------------------- MODULE CallRecordProofs --------------------------
(***************************************************************************)
(* For any number of senders, keys, callbacks, invocations and attempts: a *)
(* key is one message, claimed by one sender, and considered before the    *)
(* opt-out; a claimed key that was never sent is explained; what the       *)
(* gateway wrote stands but for callbacks that read before it; and what    *)
(* the caller is told about the link is true, or explained.                *)
(***************************************************************************)
EXTENDS CallRecord, TLAPS

Live == {"post", "asked", "mark"}

Calls == [at : {"idle", "cleared", "post", "asked", "mark", "done", "dead", "undone"},
          key : Keys \cup {NoKey}, tries : 0..2, heard : {"none", "ok", "refused", "unheard"},
          result : {"none", "true", "false", "raised"}]

\* What a sender's place in send_sms says about the provider. Until a request
\* is on its way, and after it was refused, the key's message was not taken;
\* an answer of "ok" comes only from a provider that took it.
SenderSound(s) ==
  /\ send[s].key \in claims
  /\ wire[s] = "sent" => texts[send[s].key] = 0
  /\ wire[s] = "acted" => texts[send[s].key] = 1 /\ send[s].at = "asked"
  /\ send[s].at = "post" => texts[send[s].key] = 0 /\ wire[s] = "none" /\ send[s].tries < 2
  /\ send[s].at = "asked" => wire[s] # "none" /\ send[s].tries > 0
  /\ send[s].at \in {"post", "asked"} => send[s].heard = "none"
  /\ send[s].at = "mark" => send[s].heard = "ok"
  /\ send[s].heard = "ok" => texts[send[s].key] = 1
  /\ send[s].heard = "refused" => texts[send[s].key] = 0 /\ wire[s] = "none"
  /\ send[s].heard # "none" => send[s].at \in {"mark", "done", "dead"}
  /\ send[s].result = "true" => send[s].at = "done" /\ send[s].heard = "ok"
  /\ send[s].at = "done" /\ send[s].heard = "ok" => send[s].result \in {"true", "raised"}

\* A sender that has not claimed its key, or was refused, or rolled back.
SenderAside(s) ==
  /\ wire[s] = "none"
  /\ send[s].at \in {"idle", "cleared", "done", "undone"}
  /\ send[s].at = "cleared" => send[s].key \in Keys /\ send[s].tries = 0
  /\ send[s].result # "true"

SendersSound == \A s \in Senders : IF Claimed(s) THEN SenderSound(s) ELSE SenderAside(s)

\* A key has one row, inserted by one sender (models.py:175-180).
OneOwner ==
  /\ \A s, t \in Senders : Claimed(s) /\ Claimed(t) /\ send[s].key = send[t].key => s = t
  /\ \A k \in claims : \E s \in Senders : Claimed(s) /\ send[s].key = k

TextsOnce ==
  /\ \A k \in Keys : texts[k] \in {0, 1} /\ (texts[k] = 1 => k \in claims)
  /\ \A k \in delivered : texts[k] = 1

SmsInv == SmsTypeOK /\ SendersSound /\ OneOwner /\ TextsOnce

\* One step of some call of send_sms, or of its surroundings.
SmsNext ==
  \/ \E s \in Senders :
       \/ \E k \in Keys : SendSms(s, k)
       \/ ClaimSmsSend(s) \/ Post(s) \/ (\E a \in R!Answers : Answered(s, a))
       \/ MarkDelivered(s) \/ Abandon(s) \/ TwilioAccepts(s)
  \/ InboundSms \/ Repair

-----------------------------------------------------------------------------
(* The senders. *)

\* UNSAFE_WRITE sends again only what never reached the provider
\* (resilience.py:51-60), and only a provider that acted says "ok".
LEMMA AnswerFacts ==
  /\ \A n \in Nat, a \in R!Answers :
       R!Retries(R!UnsafeWrite, n, a) <=> n < 2 /\ a \in {"limited", "unconnected"}
  /\ R!Possible(TRUE) = {"ok", "broken", "unanswered"}
  /\ \A a \in R!Possible(FALSE) : a # "ok" /\ a \in R!Answers
BY DEF R!Retries, R!UnsafeWrite, R!Policy, R!Retryable, R!PreDeliveryStatus,
       R!PreDeliveryExceptions, R!Possible, R!Answers, R!RetryableStatus, R!RetryableExceptions

\* At the start nothing is claimed (sms.py:34-51).
LEMMA SmsInitInv == SmsInit => SmsInv
BY DEF SmsInit, Idle, SmsInv, SmsTypeOK, SendersSound, SenderAside, Claimed, Live, OneOwner, TextsOnce

\* A step within a call of send_sms that holds no claim, before and after,
\* concerns nobody else.
LEMMA AsideStepInv ==
  ASSUME SmsInv, NEW s \in Senders, ~Claimed(s), ~Claimed(s)', SmsTypeOK', SenderAside(s)',
         \A t \in Senders : t # s => send'[t] = send[t] /\ wire'[t] = wire[t],
         UNCHANGED <<claims, delivered, texts>>
  PROVE  SmsInv'
<1>1. \A t \in Senders : (Claimed(t)' <=> Claimed(t)) /\ (Claimed(t) => send'[t].key = send[t].key)
  BY DEF Claimed
<1>2. SendersSound'
  <2>. SUFFICES ASSUME NEW t \in Senders, t # s
                PROVE  IF Claimed(t)' THEN SenderSound(t)' ELSE SenderAside(t)'
    BY DEF SendersSound
  <2>. QED BY <1>1 DEF SmsInv, SendersSound, SenderSound, SenderAside
<1>3. OneOwner'
  BY <1>1 DEF SmsInv, OneOwner
<1>4. TextsOnce'
  BY DEF SmsInv, TextsOnce
<1>. QED BY <1>2, <1>3, <1>4 DEF SmsInv

\* The check claims nothing (sms.py:49-61).
LEMMA SendSmsInv ==
  ASSUME SmsInv, NEW s \in Senders, NEW k \in Keys, SendSms(s, k)
  PROVE  SmsInv'
<1>1. /\ send[s].at = "idle" /\ ~Claimed(s) /\ SenderAside(s)
      /\ UNCHANGED <<configured, optedOut, claims, delivered, wire, texts>>
  BY DEF SmsInv, SendersSound, SendSms, Claimed, SenderSound
<1>2. PICK at \in {"cleared", "done"}, r \in {"none", "false"} :
        send' = [send EXCEPT ![s] = [at |-> at, key |-> k, tries |-> 0,
                                     heard |-> "none", result |-> r]]
  <2>1. CASE configured /\ ~optedOut
    <3>1. send' = [send EXCEPT ![s] = [at |-> "cleared", key |-> k, tries |-> 0,
                                       heard |-> "none", result |-> "none"]]
      BY <2>1 DEF SendSms, Idle
    <3>. QED BY <3>1
  <2>2. CASE ~(configured /\ ~optedOut)
    <3>1. send' = [send EXCEPT ![s] = [at |-> "done", key |-> k, tries |-> 0,
                                       heard |-> "none", result |-> "false"]]
      BY <2>2 DEF SendSms, Idle
    <3>. QED BY <3>1
  <2>. QED BY <2>1, <2>2
<1>3. /\ send'[s] = [at |-> at, key |-> k, tries |-> 0, heard |-> "none", result |-> r]
      /\ \A t \in Senders : t # s => send'[t] = send[t]
  BY <1>2 DEF SmsInv, SmsTypeOK
<1>4. SmsTypeOK'
  BY <1>1, <1>2 DEF SmsInv, SmsTypeOK
<1>5. ~Claimed(s)' /\ SenderAside(s)'
  BY <1>1, <1>3 DEF Claimed, SenderAside
<1>. QED BY <1>1, <1>3, <1>4, <1>5, AsideStepInv

\* The claim: a key is new when a sender gets it (repository.py:220-237).
LEMMA ClaimSmsSendInv ==
  ASSUME SmsInv, NEW s \in Senders, ClaimSmsSend(s)
  PROVE  SmsInv'
<1>1. /\ send[s].at = "cleared" /\ ~Claimed(s) /\ SenderAside(s)
      /\ UNCHANGED <<configured, optedOut, delivered, wire, texts>>
  BY DEF SmsInv, SendersSound, ClaimSmsSend, Claimed, SenderSound
<1>2. PICK k \in Keys : send[s].key = k
  BY <1>1 DEF SenderAside
<1>3. CASE UNCHANGED claims
  <2>1. PICK r \in {"false", "raised"} :
          send' = [send EXCEPT ![s].at = "done", ![s].result = r]
    <3>1. k \notin claims => claims \cup {k} # claims
      OBVIOUS
    <3>. QED BY <1>2, <1>3, <3>1 DEF ClaimSmsSend, Returns
  <2>2. /\ send'[s] = [send[s] EXCEPT !.at = "done", !.result = r]
        /\ \A t \in Senders : t # s => send'[t] = send[t]
    BY <2>1 DEF SmsInv, SmsTypeOK
  <2>3. SmsTypeOK'
    <3>1. [send[s] EXCEPT !.at = "done", !.result = r] \in Calls
      BY DEF SmsInv, SmsTypeOK, Calls
    <3>2. send' \in [Senders -> Calls]
      BY <2>1, <3>1 DEF SmsInv, SmsTypeOK, Calls
    <3>. QED BY <1>1, <1>3, <3>2 DEF SmsInv, SmsTypeOK, Calls
  <2>4. send[s].heard = "none" /\ send'[s].heard = send[s].heard /\ send'[s].at = "done"
        /\ send'[s].result = r
    BY <1>1, <2>2 DEF Claimed, SmsInv, SmsTypeOK
  <2>5. ~Claimed(s)' /\ SenderAside(s)'
    BY <1>1, <2>4 DEF Claimed, SenderAside
  <2>. QED BY <1>1, <1>3, <2>2, <2>3, <2>5, AsideStepInv
<1>4. CASE ~UNCHANGED claims
  <2>1. /\ send' = [send EXCEPT ![s].at = "post"]
        /\ claims' = claims \cup {k} /\ k \notin claims
    BY <1>2, <1>4 DEF ClaimSmsSend
  <2>2. /\ send'[s] = [send[s] EXCEPT !.at = "post"]
        /\ \A t \in Senders : t # s => send'[t] = send[t]
    BY <2>1 DEF SmsInv, SmsTypeOK
  <2>3. /\ send'[s].at = "post" /\ send'[s].key = k /\ send'[s].tries = 0
        /\ send'[s].heard = "none" /\ send'[s].result # "true"
    BY <1>1, <1>2, <2>2 DEF Claimed, SenderAside, SmsInv, SmsTypeOK
  <2>4. Claimed(s)' /\ \A t \in Senders : t # s => (Claimed(t)' <=> Claimed(t))
    BY <2>2, <2>3 DEF Claimed
  <2>5. SmsTypeOK'
    BY <1>1, <2>1 DEF SmsInv, SmsTypeOK
  <2>6. texts[k] = 0 /\ wire[s] = "none"
    BY <1>1, <2>1 DEF SmsInv, TextsOnce, SenderAside
  <2>7. SendersSound'
    <3>1. SenderSound(s)'
      BY <1>1, <2>1, <2>3, <2>6 DEF SenderSound
    <3>2. ASSUME NEW t \in Senders, t # s
          PROVE  IF Claimed(t)' THEN SenderSound(t)' ELSE SenderAside(t)'
      BY <1>1, <2>1, <2>2, <2>4, <3>2 DEF SmsInv, SendersSound, SenderSound, SenderAside
    <3>. QED BY <2>4, <3>1, <3>2 DEF SendersSound
  <2>8. \A t \in Senders : Claimed(t) => send[t].key # k
    BY <2>1 DEF SmsInv, SendersSound, SenderSound
  <2>9. OneOwner'
    BY <1>1, <2>1, <2>2, <2>3, <2>4, <2>8 DEF SmsInv, OneOwner
  <2>10. TextsOnce'
    BY <1>1, <2>1 DEF SmsInv, TextsOnce
  <2>. QED BY <2>5, <2>7, <2>9, <2>10 DEF SmsInv
<1>. QED BY <1>3, <1>4

\* A step within a call of send_sms whose claim stands moves no claim.
LEMMA OwnStepInv ==
  ASSUME SmsInv, NEW s \in Senders, Claimed(s), Claimed(s)', SmsTypeOK',
         send'[s].key = send[s].key,
         \A t \in Senders : t # s => send'[t] = send[t] /\ wire'[t] = wire[t],
         \A k \in Keys : k # send[s].key => texts'[k] = texts[k],
         texts'[send[s].key] \in {0, 1},
         UNCHANGED claims,
         SenderSound(s)',
         \A k \in delivered' : texts'[k] = 1
  PROVE  SmsInv'
<1>1. \A t \in Senders : (Claimed(t)' <=> Claimed(t)) /\ send'[t].key = send[t].key
  BY DEF Claimed
<1>2. \A t \in Senders : t # s /\ Claimed(t) => send[t].key # send[s].key /\ send[t].key \in Keys
  BY DEF SmsInv, OneOwner, SendersSound, SenderSound, SmsTypeOK
<1>3. SendersSound'
  <2>. SUFFICES ASSUME NEW t \in Senders, t # s
                PROVE  IF Claimed(t)' THEN SenderSound(t)' ELSE SenderAside(t)'
    BY DEF SendersSound
  <2>1. CASE Claimed(t)
    BY <1>1, <1>2, <2>1 DEF SmsInv, SendersSound, SenderSound
  <2>2. CASE ~Claimed(t)
    BY <1>1, <2>2 DEF SmsInv, SendersSound, SenderAside
  <2>. QED BY <2>1, <2>2
<1>4. OneOwner'
  BY <1>1 DEF SmsInv, OneOwner
<1>5. TextsOnce'
  BY DEF SmsInv, TextsOnce, SendersSound, SenderSound, SmsTypeOK
<1>. QED BY <1>3, <1>4, <1>5 DEF SmsInv

\* The POST of an attempt (sms.py:70-78).
LEMMA PostInv ==
  ASSUME SmsInv, NEW s \in Senders, Post(s)
  PROVE  SmsInv'
<1>1. Claimed(s) /\ SenderSound(s) /\ send[s].at = "post"
  BY DEF SmsInv, SendersSound, Post, Claimed, Live
<1>2. /\ send'[s] = [send[s] EXCEPT !.at = "asked", !.tries = @ + 1] /\ wire'[s] = "sent"
      /\ \A t \in Senders : t # s => send'[t] = send[t] /\ wire'[t] = wire[t]
  BY DEF Post, SmsInv, SmsTypeOK
<1>3. SmsTypeOK'
  BY <1>1 DEF SmsInv, SmsTypeOK, Post, SenderSound
<1>4. Claimed(s)' /\ SenderSound(s)'
  BY <1>1, <1>2 DEF Claimed, Live, SenderSound, Post, SmsInv, SmsTypeOK
<1>5. texts[send[s].key] \in {0, 1} /\ send'[s].key = send[s].key
  BY <1>1, <1>2 DEF SmsInv, TextsOnce, SenderSound, SmsTypeOK
<1>6. /\ UNCHANGED <<claims, texts, delivered>>
      /\ \A k \in delivered : texts[k] = 1
  BY DEF Post, SmsInv, TextsOnce
<1>. QED BY <1>1, <1>2, <1>3, <1>4, <1>5, <1>6, OwnStepInv

\* The provider acts on a request, also one nobody waits for (sms.py:70-78).
LEMMA TwilioAcceptsInv ==
  ASSUME SmsInv, NEW s \in Senders, TwilioAccepts(s)
  PROVE  SmsInv'
<1>1. /\ Claimed(s) /\ SenderSound(s) /\ send[s].key \in Keys /\ texts[send[s].key] = 0
  BY DEF SmsInv, SmsTypeOK, SendersSound, SenderSound, SenderAside, TwilioAccepts
<1>2. /\ UNCHANGED <<configured, optedOut, claims, delivered, send>>
      /\ wire' = [wire EXCEPT ![s] = IF send[s].at = "asked" THEN "acted" ELSE "none"]
      /\ texts' = [texts EXCEPT ![send[s].key] = 1]
  BY <1>1 DEF TwilioAccepts, SmsInv, SmsTypeOK
<1>3. SmsTypeOK'
  BY <1>2 DEF SmsInv, SmsTypeOK
<1>4. Claimed(s)' /\ SenderSound(s)'
  BY <1>1, <1>2 DEF SenderSound, Claimed, SmsInv, SmsTypeOK, TwilioAccepts
<1>5. \A k \in delivered' : texts'[k] = 1
  BY <1>1, <1>2 DEF SmsInv, TextsOnce, SmsTypeOK
<1>6. /\ \A t \in Senders : t # s => wire'[t] = wire[t]
      /\ \A k \in Keys : k # send[s].key => texts'[k] = texts[k]
      /\ texts'[send[s].key] \in {0, 1}
  BY <1>1, <1>2 DEF SmsInv, SmsTypeOK
<1>. QED BY <1>1, <1>2, <1>3, <1>4, <1>5, <1>6, OwnStepInv

\* An answer: only what never reached the provider is sent again, and "ok" is
\* heard only of a message that was taken (resilience.py:125-170).
LEMMA AnsweredInv ==
  ASSUME SmsInv, NEW s \in Senders, NEW answer \in R!Answers, Answered(s, answer)
  PROVE  SmsInv'
<1>1. /\ Claimed(s) /\ SenderSound(s) /\ send[s].at = "asked"
      /\ wire[s] \in {"sent", "acted"} /\ send[s].tries \in 1..2
  BY DEF SmsInv, SmsTypeOK, SendersSound, SenderSound, Claimed, Live, Answered
<1>2. /\ answer = "ok" => wire[s] = "acted"
      /\ wire[s] = "acted" => answer \in {"ok", "broken", "unanswered"}
  BY <1>1, AnswerFacts DEF Answered
<1>3. /\ UNCHANGED <<configured, optedOut, claims, delivered, texts>>
      /\ wire' = [wire EXCEPT ![s] = IF Ambiguous(answer) /\ @ = "sent" THEN @ ELSE "none"]
      /\ \A t \in Senders : t # s => wire'[t] = wire[t]
  BY DEF Answered
<1>4. CASE R!Retries(R!UnsafeWrite, send[s].tries, answer)
  <2>1. send[s].tries < 2 /\ answer \in {"limited", "unconnected"} /\ wire[s] = "sent"
    BY <1>1, <1>2, <1>4, AnswerFacts
  <2>2. send' = [send EXCEPT ![s].at = "post"]
    BY <1>4 DEF Answered
  <2>3. wire'[s] = "none"
    BY <1>3, <2>1 DEF Ambiguous, SmsInv, SmsTypeOK
  <2>4. SmsTypeOK'
    BY <1>3, <2>2 DEF SmsInv, SmsTypeOK
  <2>5. Claimed(s)' /\ SenderSound(s)'
    BY <1>1, <1>3, <2>1, <2>2, <2>3 DEF Claimed, Live, SenderSound, SmsInv, SmsTypeOK
  <2>6. send'[s].key = send[s].key /\ \A t \in Senders : t # s => send'[t] = send[t]
    BY <2>2 DEF SmsInv, SmsTypeOK
  <2>7. texts'[send[s].key] \in {0, 1} /\ \A k \in delivered' : texts'[k] = 1
    BY <1>1, <1>3 DEF SmsInv, SmsTypeOK, TextsOnce, SenderSound
  <2>. QED BY <1>1, <1>3, <2>4, <2>5, <2>6, <2>7, OwnStepInv
<1>5. CASE ~R!Retries(R!UnsafeWrite, send[s].tries, answer)
  <2>1. send' = [send EXCEPT ![s].at = IF answer = "ok" THEN "mark" ELSE "done",
                             ![s].heard = Heard(answer), ![s].tries = 0,
                             ![s].result = IF answer = "ok" THEN @ ELSE "false"]
    BY <1>5 DEF Answered
  <2>2. /\ Heard(answer) \in {"ok", "refused", "unheard"}
        /\ Heard(answer) = "ok" <=> answer = "ok"
        /\ Heard(answer) = "refused" => ~Ambiguous(answer) /\ answer # "ok"
    BY DEF Heard
  <2>3. SmsTypeOK'
    <3>1. wire' \in [Senders -> {"none", "sent", "acted"}]
      BY <1>1, <1>3 DEF SmsInv, SmsTypeOK
    <3>2. send[s] \in Calls
      BY DEF SmsInv, SmsTypeOK, Calls
    <3>3. send \in [Senders -> Calls]
      BY DEF SmsInv, SmsTypeOK, Calls
    <3>. DEFINE heard == [at |-> IF answer = "ok" THEN "mark" ELSE "done", key |-> send[s].key,
                          tries |-> 0, heard |-> Heard(answer),
                          result |-> IF answer = "ok" THEN send[s].result ELSE "false"]
    <3>4. heard \in Calls
      BY <2>2, <3>2 DEF Calls
    <3>5. send'[s] = heard /\ \A t \in Senders : t # s => send'[t] = send[t]
      BY <2>1, <3>2, <3>3 DEF Calls
    <3>. HIDE DEF heard
    <3>6. send' = [t \in Senders |-> send'[t]]
      BY <2>1, <3>3
    <3>7. send' \in [Senders -> Calls]
      BY <3>3, <3>4, <3>5, <3>6
    <3>. QED BY <1>3, <3>1, <3>7 DEF SmsInv, SmsTypeOK, Calls
  <2>4. /\ send'[s].at = IF answer = "ok" THEN "mark" ELSE "done"
        /\ send'[s].heard = Heard(answer) /\ send'[s].key = send[s].key
        /\ send'[s].result = IF answer = "ok" THEN send[s].result ELSE "false"
        /\ \A t \in Senders : t # s => send'[t] = send[t]
    BY <2>1 DEF SmsInv, SmsTypeOK
  <2>5. wire'[s] = IF Ambiguous(answer) /\ wire[s] = "sent" THEN wire[s] ELSE "none"
    BY <1>3 DEF SmsInv, SmsTypeOK
  <2>6. Claimed(s)'
    BY <2>2, <2>4 DEF Claimed
  <2>7. SenderSound(s)'
    BY <1>1, <1>2, <1>3, <2>2, <2>4, <2>5 DEF SenderSound, Ambiguous
  <2>8. texts'[send[s].key] \in {0, 1} /\ \A k \in delivered' : texts'[k] = 1
    BY <1>1, <1>3 DEF SmsInv, SmsTypeOK, TextsOnce, SenderSound
  <2>. QED BY <1>1, <1>3, <2>3, <2>4, <2>6, <2>7, <2>8, OwnStepInv
<1>. QED BY <1>4, <1>5

\* A success is recorded, or the record of it fails (sms.py:95-101).
LEMMA MarkDeliveredInv ==
  ASSUME SmsInv, NEW s \in Senders, MarkDelivered(s)
  PROVE  SmsInv'
<1>1. Claimed(s) /\ SenderSound(s) /\ send[s].at = "mark" /\ send[s].key \in Keys
  BY DEF SmsInv, SmsTypeOK, SendersSound, SenderSound, Claimed, Live, MarkDelivered
<1>2. PICK r \in {"true", "raised"} :
        /\ send' = [send EXCEPT ![s].at = "done", ![s].result = r]
        /\ delivered' \subseteq delivered \cup {send[s].key}
        /\ UNCHANGED <<configured, optedOut, claims, wire, texts>>
  BY DEF MarkDelivered, Returns
<1>3. SmsTypeOK'
  <2>1. [send[s] EXCEPT !.at = "done", !.result = r] \in Calls
    BY DEF SmsInv, SmsTypeOK, Calls
  <2>2. send' \in [Senders -> Calls]
    BY <1>2, <2>1 DEF SmsInv, SmsTypeOK, Calls
  <2>. QED BY <1>1, <1>2, <2>2 DEF SmsInv, SmsTypeOK, SenderSound, Calls
<1>4. Claimed(s)' /\ SenderSound(s)'
  BY <1>1, <1>2 DEF Claimed, SenderSound, SmsInv, SmsTypeOK
<1>5. \A k \in delivered' : texts'[k] = 1
  BY <1>1, <1>2 DEF SmsInv, TextsOnce, SenderSound
<1>6. /\ send'[s].key = send[s].key /\ texts'[send[s].key] \in {0, 1}
      /\ \A t \in Senders : t # s => send'[t] = send[t] /\ wire'[t] = wire[t]
  BY <1>1, <1>2 DEF SmsInv, SmsTypeOK, TextsOnce
<1>. QED BY <1>1, <1>2, <1>3, <1>4, <1>5, <1>6, OwnStepInv

\* A sender that is cancelled or dies leaves its claim, and its request, behind
\* (repository.py:243-248); before the commit there is no claim to leave.
LEMMA AbandonInv ==
  ASSUME SmsInv, NEW s \in Senders, Abandon(s)
  PROVE  SmsInv'
<1>1. PICK end \in {"undone", "dead"} :
        /\ end = IF send[s].at = "cleared" THEN "undone" ELSE "dead"
        /\ send' = [send EXCEPT ![s].at = end, ![s].tries = 0]
  BY DEF Abandon
<1>2. /\ wire' = [wire EXCEPT ![s] = IF @ = "acted" THEN "none" ELSE @]
      /\ UNCHANGED <<configured, optedOut, claims, delivered, texts>>
      /\ send[s].at \in Live \cup {"cleared"}
  BY DEF Abandon, Live
<1>3. SmsTypeOK'
  <2>. DEFINE gone == [at |-> end, key |-> send[s].key, tries |-> 0,
                      heard |-> send[s].heard, result |-> send[s].result]
  <2>1. send \in [Senders -> Calls] /\ gone \in Calls
    BY DEF SmsInv, SmsTypeOK, Calls
  <2>2. /\ send'[s] = gone
        /\ \A t \in Senders : t # s => send'[t] = send[t]
    BY <1>1, <2>1 DEF Calls
  <2>. HIDE DEF gone
  <2>3. send' = [t \in Senders |-> send'[t]]
    BY <1>1, <2>1
  <2>4. send' \in [Senders -> Calls]
    BY <2>1, <2>2, <2>3
  <2>. QED BY <1>2, <2>4 DEF SmsInv, SmsTypeOK, Calls
<1>4. /\ send'[s].key = send[s].key /\ send'[s].heard = send[s].heard
      /\ send'[s].result = send[s].result /\ send'[s].at = end
      /\ \A t \in Senders : t # s => send'[t] = send[t] /\ wire'[t] = wire[t]
  BY <1>1, <1>2 DEF SmsInv, SmsTypeOK
<1>5. CASE send[s].at = "cleared"
  <2>1. ~Claimed(s) /\ SenderAside(s)
    BY <1>5 DEF SmsInv, SendersSound, SenderSound, Claimed
  <2>2. wire'[s] = "none"
    BY <1>2, <2>1 DEF SenderAside, SmsInv, SmsTypeOK
  <2>3. ~Claimed(s)' /\ SenderAside(s)'
    BY <1>1, <1>4, <1>5, <2>1, <2>2 DEF Claimed, SenderAside
  <2>. QED BY <1>2, <1>3, <1>4, <2>1, <2>3, AsideStepInv
<1>6. CASE send[s].at # "cleared"
  <2>1. Claimed(s) /\ SenderSound(s) /\ send[s].at \in Live /\ send[s].key \in Keys
    BY <1>2, <1>6 DEF SmsInv, SmsTypeOK, SendersSound, SenderSound, Claimed, Live
  <2>2. wire'[s] = IF wire[s] = "acted" THEN "none" ELSE wire[s]
    BY <1>2 DEF SmsInv, SmsTypeOK
  <2>3. send'[s].at = "dead" /\ send[s].result # "true" /\ UNCHANGED <<claims, texts>>
    BY <1>1, <1>2, <1>4, <1>6, <2>1 DEF Live, SenderSound
  <2>5. Claimed(s)' /\ SenderSound(s)'
    BY <1>4, <2>1, <2>2, <2>3 DEF Claimed, SenderSound
  <2>4. texts'[send[s].key] \in {0, 1} /\ \A k \in delivered' : texts'[k] = 1
    BY <1>2, <2>1 DEF SmsInv, TextsOnce
  <2>. QED BY <1>2, <1>3, <1>4, <2>1, <2>4, <2>5, OwnStepInv
<1>. QED BY <1>5, <1>6

\* Every step of the senders and of what is around them keeps the invariant.
LEMMA SmsStepInv == SmsInv /\ [SmsNext]_smsVars => SmsInv'
<1>. SUFFICES ASSUME SmsInv, [SmsNext]_smsVars PROVE SmsInv'
  OBVIOUS
<1>1. CASE InboundSms \/ Repair \/ UNCHANGED smsVars
  <2>1. /\ UNCHANGED <<claims, delivered, send, wire, texts>>
        /\ configured' \in BOOLEAN /\ optedOut' \in BOOLEAN
    BY <1>1 DEF InboundSms, Repair, smsVars, SmsInv, SmsTypeOK
  <2>2. SmsTypeOK'
    BY <2>1 DEF SmsInv, SmsTypeOK
  <2>3. SendersSound' /\ OneOwner' /\ TextsOnce'
    BY <2>1 DEF SmsInv, SendersSound, SenderSound, SenderAside, Claimed, OneOwner, TextsOnce
  <2>. QED BY <2>2, <2>3 DEF SmsInv
<1>. QED BY <1>1, SendSmsInv, ClaimSmsSendInv, PostInv, AnsweredInv, MarkDeliveredInv, AbandonInv,
            TwilioAcceptsInv DEF SmsNext

\* A step within a call of send_sms moves that call, and never back to its check.
LEMMA OwnStepFrame ==
  ASSUME SmsInv, NEW s \in Senders,
         \/ ClaimSmsSend(s) \/ Post(s) \/ (\E a \in R!Answers : Answered(s, a))
         \/ MarkDelivered(s) \/ Abandon(s)
  PROVE  /\ send'[s].key = send[s].key /\ send'[s].at \notin {"idle", "cleared"}
         /\ send[s].at \in {"cleared", "post", "asked", "mark"}
         /\ \A t \in Senders : t # s => send'[t] = send[t]
<1>0. send[s] \in Calls /\ send \in [Senders -> Calls]
  BY DEF SmsInv, SmsTypeOK, Calls
<1>1. CASE ClaimSmsSend(s)
  BY <1>0, <1>1 DEF ClaimSmsSend, Returns, Calls
<1>2. CASE Post(s)
  BY <1>0, <1>2 DEF Post, Calls
<1>3. ASSUME NEW a \in R!Answers, Answered(s, a)
      PROVE  /\ send'[s].key = send[s].key /\ send'[s].at \notin {"idle", "cleared"}
             /\ send[s].at = "asked"
             /\ \A t \in Senders : t # s => send'[t] = send[t]
  <2>1. \/ send' = [send EXCEPT ![s].at = "post"]
        \/ \E at \in {"mark", "done"}, r \in {"none", "true", "false", "raised"} :
             send' = [send EXCEPT ![s].at = at, ![s].heard = Heard(a), ![s].tries = 0, ![s].result = r]
    <3>1. send[s].result \in {"none", "true", "false", "raised"}
      BY <1>0 DEF Calls
    <3>. QED BY <1>3, <3>1 DEF Answered
  <2>2. send[s].at = "asked"
    BY <1>3 DEF Answered
  <2>. QED BY <1>0, <2>1, <2>2 DEF Calls
<1>4. CASE MarkDelivered(s)
  BY <1>0, <1>4 DEF MarkDelivered, Returns, Calls
<1>5. CASE Abandon(s)
  <2>1. PICK end \in {"undone", "dead"} : send' = [send EXCEPT ![s].at = end, ![s].tries = 0]
    BY <1>5 DEF Abandon
  <2>. QED BY <1>0, <1>5, <2>1 DEF Abandon, Calls
<1>. QED BY <1>1, <1>2, <1>3, <1>4, <1>5

\* The keys under consideration (sms.py:57-63).
Due == {send[s].key : s \in {t \in Senders : send[t].at = "cleared"}}

\* A sender that moves on in its call leaves its key to the others considering
\* the same, or takes it away; one that is not "cleared" changes nothing.
LEMMA DueFacts ==
  ASSUME NEW s \in Senders, send'[s].key = send[s].key, send'[s].at # "cleared",
         \A t \in Senders : t # s => send'[t] = send[t]
  PROVE  /\ send[s].at # "cleared" => Due' = Due
         /\ send[s].at = "cleared" => send[s].key \in Due /\ Due' \in {Due, Due \ {send[s].key}}
<1>1. CASE send[s].at # "cleared"
  <2>1. \A t \in Senders : send'[t].at = "cleared" <=> send[t].at = "cleared"
    BY <1>1
  <2>2. {t \in Senders : send'[t].at = "cleared"} = {t \in Senders : send[t].at = "cleared"}
    BY <2>1
  <2>. QED BY <1>1, <2>1, <2>2 DEF Due
<1>2. CASE send[s].at = "cleared"
  <2>1. send[s].key \in Due
    BY <1>2 DEF Due
  <2>2. Due' \subseteq Due
    BY DEF Due
  <2>3. Due \ {send[s].key} \subseteq Due'
    BY DEF Due
  <2>. QED BY <1>2, <2>1, <2>2, <2>3
<1>. QED BY <1>1, <1>2

\* A step of the senders is a step of the outbox or none: a check considers the
\* key, a claim reserves it, a refusal or a rollback settles it, the provider's
\* taking the message delivers it, a STOP stops.
LEMMA SmsRefinesStep ==
  SmsInv /\ [SmsNext]_smsVars => [Promise!OutboxNext]_(Promise!outboxVars)
<1>. SUFFICES ASSUME SmsInv, [SmsNext]_smsVars
              PROVE  [Promise!OutboxNext]_<<optedOut, Due, claims, texts>>
  BY DEF Promise!outboxVars, Due
<1>. USE DEF Promise!OutboxNext
<1>1. ASSUME NEW s \in Senders, NEW k \in Keys, SendSms(s, k)
      PROVE  [Promise!OutboxNext]_<<optedOut, Due, claims, texts>>
  <2>1. /\ send[s].at = "idle" /\ UNCHANGED <<optedOut, claims, texts>>
        /\ \A t \in Senders : t # s => send'[t] = send[t]
    BY <1>1 DEF SendSms, SmsInv, SmsTypeOK
  <2>2. CASE configured /\ ~optedOut
    <3>1. send'[s].at = "cleared" /\ send'[s].key = k
      BY <1>1, <2>2 DEF SendSms, Idle, SmsInv, SmsTypeOK
    <3>2. Due' = Due \cup {k}
      BY <2>1, <3>1 DEF Due
    <3>. QED BY <2>1, <2>2, <3>2 DEF Promise!Consider, Due
  <2>3. CASE ~(configured /\ ~optedOut)
    <3>1. send'[s].at = "done"
      BY <1>1, <2>3 DEF SendSms, Idle, SmsInv, SmsTypeOK
    <3>2. Due' = Due
      <4>1. \A t \in Senders : send'[t].at = "cleared" <=> send[t].at = "cleared"
        BY <2>1, <3>1
      <4>2. \A t \in Senders : send[t].at = "cleared" => send'[t].key = send[t].key
        BY <2>1
      <4>3. {t \in Senders : send'[t].at = "cleared"} = {t \in Senders : send[t].at = "cleared"}
        BY <4>1
      <4>. QED BY <4>2, <4>3 DEF Due
    <3>. QED BY <2>1, <3>2
  <2>. QED BY <2>2, <2>3
<1>2. ASSUME NEW s \in Senders, TwilioAccepts(s)
      PROVE  [Promise!OutboxNext]_<<optedOut, Due, claims, texts>>
  <2>1. send[s].key \in claims /\ send[s].key \in Keys /\ texts[send[s].key] = 0
    BY <1>2 DEF SmsInv, SmsTypeOK, SendersSound, SenderSound, SenderAside, TwilioAccepts
  <2>2. Due' = Due
    BY <1>2 DEF TwilioAccepts, Due
  <2>3. Promise!Deliver(send[s].key)
    BY <1>2, <2>1, <2>2 DEF TwilioAccepts, Promise!Deliver, SmsInv, SmsTypeOK, Due
  <2>. QED BY <2>1, <2>3
<1>3. ASSUME NEW s \in Senders,
             ClaimSmsSend(s) \/ Post(s) \/ (\E a \in R!Answers : Answered(s, a))
               \/ MarkDelivered(s) \/ Abandon(s)
      PROVE  [Promise!OutboxNext]_<<optedOut, Due, claims, texts>>
  <2>1. /\ UNCHANGED <<optedOut, texts>>
        /\ claims' = claims \/ (send[s].at = "cleared" /\ send[s].key \notin claims
                                /\ claims' = claims \cup {send[s].key})
    BY <1>3 DEF ClaimSmsSend, Post, Answered, MarkDelivered, Abandon
  <2>2. /\ send'[s].key = send[s].key /\ send'[s].at # "cleared"
        /\ \A t \in Senders : t # s => send'[t] = send[t]
    BY <1>3, OwnStepFrame
  <2>3. send[s].at = "cleared" => send[s].key \in Keys
    BY DEF SmsInv, SendersSound, SenderAside, Claimed, SenderSound
  <2>4. CASE send[s].at # "cleared"
    BY <2>1, <2>2, <2>4, DueFacts
  <2>5. CASE send[s].at = "cleared"
    <3>1. send[s].key \in Due /\ Due' \in {Due, Due \ {send[s].key}} /\ send[s].key \in Keys
      BY <2>2, <2>3, <2>5, DueFacts
    <3>2. CASE claims' = claims
      BY <2>1, <3>1, <3>2 DEF Promise!Settle, Due
    <3>3. CASE claims' # claims
      BY <2>1, <3>1, <3>3 DEF Promise!Reserve, Due
    <3>. QED BY <3>2, <3>3
  <2>. QED BY <2>4, <2>5
<1>4. CASE InboundSms
  BY <1>4 DEF InboundSms, Promise!Stop, Due
<1>5. CASE Repair \/ UNCHANGED smsVars
  BY <1>5 DEF Repair, smsVars, Due
<1>. QED BY <1>1, <1>2, <1>3, <1>4, <1>5 DEF SmsNext

-----------------------------------------------------------------------------
(* The call row and the payment tool. *)

Pay == [at : {"idle", "link", "texting", "gone"}, invocation : Invocations \cup {0},
        attempt : Attempts \cup {0}, told : Seq({"ok", "degraded"})]

CallbackStates == {"idle", "decided", "text", "texting", "done", "dead"}

\* Once the gateway has written, a callback between its read and its write had
\* read before that, and one that reads finds an outcome.
GatewayInv ==
  gateway.at = "ended" =>
    /\ row.outcome # "none"
    /\ \A d \in Deliveries : callback[d] = "decided" => d \in gateway.raced
    /\ GatewayOutcomeStands

\* Over, and not heard to succeed.
Spent(s) == send[s].at \in {"done", "dead", "undone"} /\ send[s].result # "true"

\* A sender of the payment tool is the one awaited now, was cut off with its
\* invocation, is spent, or its invocation was told "ok".
Accounted(i, n) ==
  \/ i = pay.invocation /\ (pay.at = "gone" \/ (pay.at = "texting" /\ pay.attempt = n))
  \/ i \in DOMAIN pay.told /\ pay.told[i] = "ok"
  \/ Spent(PayAttempt(i, n))

\* Where the payment tool is: every invocation but the one under way has
\* answered, it waits for the sender of its attempt, and "ok" is a message.
PayInv ==
  /\ Len(pay.told) = IF pay.at = "idle" THEN pay.invocation ELSE pay.invocation - 1
  /\ pay.at \in {"link", "texting"} => pay.attempt \in Attempts /\ pay.invocation \in Invocations
  /\ pay.at = "texting" => send[Sender].at # "idle" /\ send[Sender].key = PayKey
  /\ \A s \in Senders : send[s].at # "idle" /\ send[s].key = PayKey =>
       \E i \in Invocations, n \in Attempts : s = PayAttempt(i, n)
  /\ \A i \in Invocations, n \in Attempts :
       send[PayAttempt(i, n)].at # "idle" => Accounted(i, n)
  /\ \A i \in DOMAIN pay.told : pay.told[i] = "ok" => texts[PayKey] = 1

RecordInv == SmsInv /\ RecordTypeOK /\ GatewayInv /\ PayInv

\* What the row's handlers may rely on: a sender goes from "idle" on, keeps its
\* key and its end, and a message stays taken.
Kept(t) ==
  /\ send'[t].at = "idle" <=> send[t].at = "idle"
  /\ send'[t].key = send[t].key
  /\ send[t].at \in {"done", "dead", "undone"} => send'[t] = send[t]

\* A call of send_sms begins with its key (sms.py:33-61).
LEMMA SendSmsFrame ==
  ASSUME SmsInv, NEW s \in Senders, NEW k \in Keys, SendSms(s, k)
  PROVE  /\ UNCHANGED texts /\ send[s].at = "idle"
         /\ send'[s].at # "idle" /\ send'[s].key = k
         /\ \A t \in Senders : t # s => send'[t] = send[t]
<1>1. send \in [Senders -> Calls]
  BY DEF SmsInv, SmsTypeOK, Calls
<1>2. CASE configured /\ ~optedOut
  BY <1>1, <1>2 DEF SendSms, Idle
<1>3. CASE ~(configured /\ ~optedOut)
  BY <1>1, <1>3 DEF SendSms, Idle
<1>. QED BY <1>2, <1>3

\* No step within a call of send_sms starts another one (sms.py:34-99).
LEMMA SendsKept ==
  ASSUME SmsInv, NEW s \in Senders,
         \/ ClaimSmsSend(s) \/ Post(s) \/ (\E a \in R!Answers : Answered(s, a))
         \/ MarkDelivered(s) \/ Abandon(s) \/ TwilioAccepts(s)
         \/ InboundSms \/ Repair \/ UNCHANGED smsVars
  PROVE  /\ \A t \in Senders : Kept(t)
         /\ texts[PayKey] = 1 => texts'[PayKey] = 1
<1>1. CASE \/ ClaimSmsSend(s) \/ Post(s) \/ (\E a \in R!Answers : Answered(s, a))
           \/ MarkDelivered(s) \/ Abandon(s)
  <2>1. UNCHANGED texts
    BY <1>1 DEF ClaimSmsSend, Post, Answered, MarkDelivered, Abandon
  <2>. QED BY <1>1, <2>1, OwnStepFrame DEF Kept
<1>2. CASE TwilioAccepts(s)
  <2>1. UNCHANGED send /\ send[s].key \in Keys /\ texts[send[s].key] = 0
    BY <1>2 DEF TwilioAccepts, SmsInv, SmsTypeOK, SendersSound, SenderSound, SenderAside
  <2>2. texts[PayKey] = 1 => texts'[PayKey] = 1
    BY <1>2, <2>1, RecordAssumption DEF TwilioAccepts, SmsInv, SmsTypeOK
  <2>. QED BY <2>1, <2>2 DEF Kept
<1>3. CASE InboundSms \/ Repair \/ UNCHANGED smsVars
  BY <1>3 DEF InboundSms, Repair, smsVars, Kept
<1>. QED BY <1>1, <1>2, <1>3

\* Every attempt of every invocation is a sender, of no other attempt.
LEMMA PaySenders ==
  /\ \A i \in Invocations, n \in Attempts : PayAttempt(i, n) \in Senders \ Deliveries
  /\ PayInv /\ pay.at \in {"link", "texting"} =>
       Sender \in Senders /\ Sender = PayAttempt(pay.invocation, pay.attempt)
BY RecordAssumption DEF PayInv, Sender

\* The tool is not disturbed by senders that go on by themselves.
LEMMA PayUntouched ==
  ASSUME PayInv, UNCHANGED pay, \A t \in Senders : Kept(t), texts[PayKey] = 1 => texts'[PayKey] = 1
  PROVE  PayInv'
<1>1. pay.at = "texting" => Kept(Sender)
  BY PaySenders
<1>2. \A i \in Invocations, n \in Attempts : send'[PayAttempt(i, n)].at # "idle" => Accounted(i, n)'
  <2>. SUFFICES ASSUME NEW i \in Invocations, NEW n \in Attempts, send'[PayAttempt(i, n)].at # "idle"
                PROVE  Accounted(i, n)'
    OBVIOUS
  <2>1. Kept(PayAttempt(i, n))
    BY PaySenders
  <2>2. Accounted(i, n)
    BY <2>1 DEF PayInv, Kept
  <2>. QED BY <2>1, <2>2 DEF Accounted, Spent, Kept
<1>. QED BY <1>1, <1>2 DEF PayInv, Kept, Sender

\* Invocations are counted from one, and so are their answers.
LEMMA PayNumbers ==
  ASSUME pay \in Pay
  PROVE  /\ pay.invocation \in Nat /\ pay.told \in Seq({"ok", "degraded"})
         /\ Len(pay.told) \in Nat /\ DOMAIN pay.told = 1..Len(pay.told)
<1>1. pay.told \in Seq({"ok", "degraded"}) /\ pay.invocation \in Invocations \cup {0}
  BY DEF Pay
<1>2. PICK told \in Seq({"ok", "degraded"}) : told = pay.told
  BY <1>1
<1>3. Len(told) \in Nat /\ DOMAIN told = 1..Len(told)
  OBVIOUS
<1>4. pay.invocation \in Nat
  <2>1. \A i \in Invocations : i \in Nat
    BY RecordAssumption
  <2>2. pay.invocation \in Invocations \/ pay.invocation = 0
    BY <1>1
  <2>. QED BY <2>1, <2>2
<1>. QED BY <1>2, <1>3, <1>4

\* An answer is one more entry, and the tool is idle again.
LEMMA PayTellsFacts ==
  ASSUME pay \in Pay, NEW what \in {"ok", "degraded"}, PayTells(what)
  PROVE  /\ pay' \in Pay /\ pay'.at = "idle" /\ pay'.invocation = pay.invocation
         /\ Len(pay'.told) = Len(pay.told) + 1
         /\ DOMAIN pay'.told = DOMAIN pay.told \cup {Len(pay.told) + 1}
         /\ \A i \in DOMAIN pay.told : pay'.told[i] = pay.told[i]
         /\ pay'.told[Len(pay.told) + 1] = what
<1>1. pay' = [pay EXCEPT !.at = "idle", !.told = Append(pay.told, what)] /\ pay.told \in Seq({"ok", "degraded"})
  BY DEF PayTells, Pay
<1>2. PICK told \in Seq({"ok", "degraded"}) : told = pay.told
  BY <1>1
<1>3. /\ Append(told, what) \in Seq({"ok", "degraded"}) /\ Len(Append(told, what)) = Len(told) + 1
      /\ DOMAIN Append(told, what) = DOMAIN told \cup {Len(told) + 1}
      /\ \A i \in DOMAIN told : Append(told, what)[i] = told[i]
      /\ Append(told, what)[Len(told) + 1] = what
  OBVIOUS
<1>4. pay' \in Pay /\ pay'.at = "idle" /\ pay'.invocation = pay.invocation
      /\ pay'.told = Append(told, what)
  BY <1>1, <1>2, <1>3 DEF Pay
<1>. QED BY <1>2, <1>3, <1>4

\* The process or run() ends: a tool that is awaited is cancelled (bridge.py's
\* finally), and nobody is told anything any more.
LEMMA PayCancelledInv ==
  ASSUME RecordInv, PayCancelled
  PROVE  /\ [SmsNext]_smsVars /\ PayInv'
         /\ pay' = pay \/ pay' = [pay EXCEPT !.at = "gone"]
<1>0. pay \in Pay /\ PayInv /\ SmsInv /\ (pay.at = "texting" => Sender \in Senders)
  BY PaySenders DEF RecordInv, RecordTypeOK, Pay
<1>1. /\ pay' = pay \/ (pay' = [pay EXCEPT !.at = "gone"] /\ pay.at # "idle")
      /\ UNCHANGED smsVars \/ (pay.at = "texting" /\ Abandon(Sender))
  BY DEF PayCancelled
<1>2. [SmsNext]_smsVars
  BY <1>0, <1>1 DEF SmsNext
<1>3. (\A t \in Senders : Kept(t)) /\ (texts[PayKey] = 1 => texts'[PayKey] = 1)
  <2>1. CASE UNCHANGED smsVars
    BY <2>1 DEF smsVars, Kept
  <2>2. CASE pay.at = "texting" /\ Abandon(Sender)
    BY <1>0, <2>2, SendsKept
  <2>. QED BY <1>1, <2>1, <2>2
<1>4. CASE pay' = pay
  BY <1>0, <1>2, <1>3, <1>4, PayUntouched
<1>5. CASE pay' = [pay EXCEPT !.at = "gone"] /\ pay.at # "idle"
  <2>1. /\ pay'.at = "gone" /\ pay'.invocation = pay.invocation /\ pay'.attempt = pay.attempt
        /\ pay'.told = pay.told
    BY <1>0, <1>5 DEF Pay
  <2>2. ASSUME NEW i \in Invocations, NEW n \in Attempts, send'[PayAttempt(i, n)].at # "idle"
        PROVE  Accounted(i, n)'
    <3>1. Kept(PayAttempt(i, n)) /\ send[PayAttempt(i, n)].at # "idle"
      BY <1>3, <2>2, PaySenders DEF Kept
    <3>2. Accounted(i, n)
      BY <1>0, <3>1 DEF PayInv
    <3>. QED BY <2>1, <3>1, <3>2 DEF Accounted, Spent, Kept
  <2>3. \A s \in Senders : send'[s].at # "idle" /\ send'[s].key = PayKey =>
          \E i \in Invocations, n \in Attempts : s = PayAttempt(i, n)
    BY <1>0, <1>3 DEF PayInv, Kept
  <2>4. PayInv'
    BY <1>0, <1>3, <1>5, <2>1, <2>2, <2>3 DEF PayInv
  <2>. QED BY <1>2, <1>5, <2>4
<1>. QED BY <1>1, <1>4, <1>5

\* Everything the handlers of the row do to the senders is a step of the
\* senders: they start one, cancel one, or leave them alone.
LEMMA RecordStepSms ==
  ASSUME RecordInv, RecordNext
  PROVE  [SmsNext]_smsVars
<1>. USE DEF smsVars
<1>1. CASE GatewayFinishes \/ GatewayDies
  BY <1>1, PayCancelledInv DEF GatewayFinishes, GatewayDies
<1>2. CASE InboundVoice \/ GatewayConnects \/ CallEnds \/ PayStarts \/ PayUnlinked \/ PayAnswered
  BY <1>2 DEF InboundVoice, GatewayConnects, CallEnds, PayStarts, PayUnlinked, PayAnswered
<1>3. ASSUME NEW d \in Deliveries, StatusStep(d) \/ StatusDies(d)
      PROVE  [SmsNext]_smsVars
  <2>1. d \in Senders /\ MissedKey \in Keys
    BY RecordAssumption
  <2>. QED BY <1>3, <2>1 DEF StatusStep, StatusReads, StatusWrites, StatusTexts, StatusAnswers,
                             StatusDies, SmsNext
<1>4. CASE PayTexts \/ PayTimesOut
  <2>1. Sender \in Senders /\ PayKey \in Keys
    BY <1>4, PaySenders, RecordAssumption DEF RecordInv, PayTexts, PayTimesOut
  <2>. QED BY <1>4, <2>1 DEF PayTexts, PayTimesOut, SmsNext
<1>5. ASSUME NEW s \in Senders, Sends(s) \/ TwilioAccepts(s)
      PROVE  [SmsNext]_smsVars
  BY <1>5 DEF Sends, SendStep, SmsNext
<1>6. CASE InboundSms \/ Restarts
  BY <1>6 DEF Restarts, SmsNext
<1>. QED BY <1>1, <1>2, <1>3, <1>4, <1>5, <1>6 DEF RecordNext

\* The next budget or the degraded answer, once the sender of this attempt is
\* spent, or never started (registry.py:159-190).
LEMMA PayFailsInv ==
  ASSUME PayInv, pay \in Pay, PayFails, pay.at \in {"link", "texting"},
         \A t \in Senders : t # Sender => send'[t] = send[t],
         send'[Sender].at = "idle" <=> send[Sender].at = "idle",
         send'[Sender].key = send[Sender].key,
         pay.at = "link" => send'[Sender] = send[Sender],
         pay.at = "texting" => /\ send'[Sender].at \in {"done", "dead", "undone"}
                               /\ send'[Sender].result # "true",
         UNCHANGED texts
  PROVE  PayInv' /\ pay' \in Pay
<1>. DEFINE me == PayAttempt(pay.invocation, pay.attempt)
<1>1. /\ me \in Senders /\ Sender = me /\ pay.attempt \in Attempts /\ pay.invocation \in Invocations
      /\ Len(pay.told) = pay.invocation - 1
      /\ pay.invocation \in Nat /\ Len(pay.told) \in Nat
  BY PaySenders, PayNumbers DEF PayInv
<1>2. /\ pay' \in Pay /\ pay'.invocation = pay.invocation
      /\ pay'.at \in {"link", "idle"}
      /\ pay'.at = "link" => pay'.attempt \in Attempts /\ pay'.told = pay.told
      /\ Len(pay'.told) = IF pay'.at = "idle" THEN pay.invocation ELSE pay.invocation - 1
      /\ \A i \in DOMAIN pay.told : i \in DOMAIN pay'.told /\ pay'.told[i] = pay.told[i]
      /\ \A i \in DOMAIN pay'.told : pay'.told[i] = "ok" => i \in DOMAIN pay.told
  <2>1. CASE pay.attempt + 1 \in Attempts
    <3>1. pay' = [pay EXCEPT !.at = "link", !.attempt = pay.attempt + 1]
      BY <2>1 DEF PayFails
    <3>2. /\ pay' \in Pay /\ pay'.at = "link" /\ pay'.attempt \in Attempts
          /\ pay'.invocation = pay.invocation /\ pay'.told = pay.told
      BY <2>1, <3>1 DEF Pay
    <3>. QED BY <1>1, <3>2
  <2>2. CASE pay.attempt + 1 \notin Attempts
    <3>1. PayTells("degraded")
      BY <2>2 DEF PayFails
    <3>2. /\ pay' \in Pay /\ pay'.at = "idle" /\ pay'.invocation = pay.invocation
          /\ Len(pay'.told) = Len(pay.told) + 1
          /\ DOMAIN pay'.told = DOMAIN pay.told \cup {Len(pay.told) + 1}
          /\ \A i \in DOMAIN pay.told : pay'.told[i] = pay.told[i]
          /\ pay'.told[Len(pay.told) + 1] = "degraded"
      BY <3>1, PayTellsFacts
    <3>. QED BY <1>1, <3>2
  <2>. QED BY <2>1, <2>2
<1>3. ASSUME NEW i \in Invocations, NEW n \in Attempts, send'[PayAttempt(i, n)].at # "idle"
      PROVE  Accounted(i, n)'
  <2>1. CASE PayAttempt(i, n) = me /\ pay.at = "texting"
    BY <1>1, <2>1 DEF Accounted, Spent
  <2>2. CASE ~(PayAttempt(i, n) = me /\ pay.at = "texting")
    <3>1. send'[PayAttempt(i, n)] = send[PayAttempt(i, n)]
      BY <1>1, <2>2, PaySenders
    <3>2. ~(pay.at = "texting" /\ pay.attempt = n /\ pay.invocation = i)
      BY <2>2
    <3>3. Accounted(i, n)
      BY <1>3, <3>1 DEF PayInv
    <3>. QED BY <1>2, <3>1, <3>2, <3>3 DEF Accounted, Spent
  <2>. QED BY <2>1, <2>2
<1>4. \A s \in Senders : send'[s].at # "idle" /\ send'[s].key = PayKey =>
        \E i \in Invocations, n \in Attempts : s = PayAttempt(i, n)
  BY DEF PayInv
<1>5. \A i \in DOMAIN pay'.told : pay'.told[i] = "ok" => texts'[PayKey] = 1
  BY <1>2 DEF PayInv
<1>. QED BY <1>1, <1>2, <1>3, <1>4, <1>5 DEF PayInv

\* A step of the record keeps what is known of the payment tool.
LEMMA RecordStepPay ==
  ASSUME RecordInv, RecordNext
  PROVE  PayInv'
<1>0. /\ pay \in Pay /\ SmsInv /\ PayInv
      /\ \A i \in Invocations, n \in Attempts : PayAttempt(i, n) \in Senders \ Deliveries
      /\ pay.at \in {"link", "texting"} =>
           /\ pay.attempt \in Attempts /\ pay.invocation \in Invocations
           /\ Sender \in Senders /\ Sender = PayAttempt(pay.invocation, pay.attempt)
  BY PaySenders DEF RecordInv, RecordTypeOK, Pay, PayInv
<1>1. CASE GatewayFinishes \/ GatewayDies
  BY <1>1, PayCancelledInv DEF GatewayFinishes, GatewayDies
<1>2. CASE UNCHANGED <<smsVars, pay>>
  BY <1>0, <1>2 DEF PayInv, Accounted, Spent, Sender, smsVars
<1>3. CASE InboundVoice \/ GatewayConnects \/ CallEnds
  BY <1>2, <1>3 DEF InboundVoice, GatewayConnects, CallEnds
<1>4. ASSUME NEW d \in Deliveries, StatusReads(d) \/ StatusWrites(d) \/ StatusAnswers(d)
      PROVE  PayInv'
  BY <1>2, <1>4 DEF StatusReads, StatusWrites, StatusAnswers
<1>5. ASSUME NEW d \in Deliveries, StatusTexts(d)
      PROVE  PayInv'
  <2>1. /\ UNCHANGED <<pay, texts>> /\ send[d].at = "idle" /\ d \in Senders /\ MissedKey # PayKey
        /\ send'[d].key = MissedKey /\ \A t \in Senders : t # d => send'[t] = send[t]
    <3>1. d \in Senders /\ MissedKey \in Keys /\ MissedKey # PayKey
      BY RecordAssumption
    <3>2. UNCHANGED pay /\ SendSms(d, MissedKey)
      BY <1>5 DEF StatusTexts
    <3>. QED BY <1>0, <3>1, <3>2, SendSmsFrame
  <2>2. \A i \in Invocations, n \in Attempts : send'[PayAttempt(i, n)] = send[PayAttempt(i, n)]
    BY <1>0, <2>1
  <2>3. pay.at = "texting" => send'[Sender] = send[Sender]
    BY <1>0, <2>2
  <2>4. \A s \in Senders : send'[s].at # "idle" /\ send'[s].key = PayKey =>
          \E i \in Invocations, n \in Attempts : s = PayAttempt(i, n)
    BY <1>0, <2>1 DEF PayInv
  <2>5. ASSUME NEW i \in Invocations, NEW n \in Attempts, send'[PayAttempt(i, n)].at # "idle"
        PROVE  Accounted(i, n)'
    BY <1>0, <2>1, <2>2, <2>5 DEF PayInv, Accounted, Spent
  <2>. QED BY <1>0, <2>1, <2>3, <2>4, <2>5 DEF PayInv, Sender
<1>6. ASSUME NEW s \in Senders, Sends(s) \/ (TwilioAccepts(s) /\ UNCHANGED recordVars)
      PROVE  PayInv'
  <2>1. UNCHANGED pay
    BY <1>6 DEF Sends, recordVars
  <2>. QED BY <1>0, <1>6, <2>1, SendsKept, PayUntouched DEF Sends, SendStep
<1>7. ASSUME NEW d \in Deliveries, StatusDies(d)
      PROVE  PayInv'
  <2>1. UNCHANGED pay /\ d \in Senders /\ (Abandon(d) \/ UNCHANGED smsVars)
    BY <1>7, RecordAssumption DEF StatusDies
  <2>. QED BY <1>0, <2>1, SendsKept, PayUntouched
<1>8. CASE (InboundSms /\ UNCHANGED recordVars) \/ Restarts
  <2>1. UNCHANGED pay /\ (InboundSms \/ Repair)
    BY <1>8 DEF recordVars, Restarts
  <2>2. (\A t \in Senders : Kept(t)) /\ (texts[PayKey] = 1 => texts'[PayKey] = 1)
    BY <2>1 DEF InboundSms, Repair, Kept
  <2>. QED BY <1>0, <2>1, <2>2, PayUntouched
<1>9. CASE PayStarts
  <2>1. pay.at = "idle" /\ UNCHANGED smsVars /\ pay.invocation + 1 \in Invocations
    BY <1>9 DEF PayStarts
  <2>2. pay' = [pay EXCEPT !.at = "link", !.invocation = pay.invocation + 1, !.attempt = 1] /\ 1 \in Attempts
    BY <1>9, RecordAssumption DEF PayStarts
  <2>3. /\ pay'.at = "link" /\ pay'.attempt = 1 /\ pay'.told = pay.told
        /\ pay'.invocation = pay.invocation + 1 /\ pay.invocation \in Nat
    BY <1>0, <2>1, <2>2, RecordAssumption DEF Pay
  <2>4. Len(pay'.told) = pay'.invocation - 1
    BY <1>0, <2>1, <2>3 DEF PayInv
  <2>5. ASSUME NEW i \in Invocations, NEW n \in Attempts, send'[PayAttempt(i, n)].at # "idle"
        PROVE  Accounted(i, n)'
    BY <1>0, <2>1, <2>3, <2>5 DEF PayInv, Accounted, Spent, smsVars
  <2>. QED BY <1>0, <2>1, <2>2, <2>3, <2>4, <2>5 DEF PayInv, smsVars
<1>10. CASE PayUnlinked
  BY <1>0, <1>10, PayFailsInv DEF PayUnlinked, smsVars
<1>11. CASE PayTexts
  <2>1. /\ pay.at = "link" /\ UNCHANGED texts /\ send[Sender].at = "idle"
        /\ send'[Sender].at # "idle" /\ send'[Sender].key = PayKey
        /\ \A t \in Senders : t # Sender => send'[t] = send[t]
    <3>1. pay.at = "link" /\ SendSms(Sender, PayKey) /\ PayKey \in Keys
      BY <1>11, RecordAssumption DEF PayTexts
    <3>. QED BY <1>0, <3>1, SendSmsFrame
  <2>2. /\ pay'.at = "texting" /\ pay'.attempt = pay.attempt /\ pay'.told = pay.told
        /\ pay'.invocation = pay.invocation
    BY <1>0, <1>11 DEF PayTexts, Pay
  <2>3. Sender' = Sender
    BY <2>2 DEF Sender
  <2>4. ASSUME NEW i \in Invocations, NEW n \in Attempts, send'[PayAttempt(i, n)].at # "idle"
        PROVE  Accounted(i, n)'
    <3>1. CASE i = pay.invocation /\ n = pay.attempt
      BY <2>2, <3>1 DEF Accounted
    <3>2. CASE ~(i = pay.invocation /\ n = pay.attempt)
      <4>1. PayAttempt(i, n) # Sender /\ PayAttempt(i, n) \in Senders
        BY <1>0, <2>1, <3>2, RecordAssumption
      <4>2. send'[PayAttempt(i, n)] = send[PayAttempt(i, n)]
        BY <2>1, <4>1
      <4>3. Accounted(i, n)
        BY <1>0, <2>4, <4>2 DEF PayInv
      <4>. QED BY <2>1, <2>2, <4>2, <4>3 DEF Accounted, Spent
    <3>. QED BY <3>1, <3>2
  <2>5. \A s \in Senders : send'[s].at # "idle" /\ send'[s].key = PayKey =>
          \E i \in Invocations, n \in Attempts : s = PayAttempt(i, n)
    BY <1>0, <2>1 DEF PayInv
  <2>. QED BY <1>0, <2>1, <2>2, <2>3, <2>4, <2>5 DEF PayInv
<1>12. CASE PayAnswered
  <2>1. pay.at = "texting" /\ send[Sender].at = "done" /\ UNCHANGED smsVars
    BY <1>12 DEF PayAnswered
  <2>2. CASE send[Sender].result # "true"
    <3>1. UNCHANGED <<send, texts>> /\ PayFails
      BY <1>12, <2>1, <2>2 DEF PayAnswered, smsVars
    <3>. QED BY <1>0, <2>1, <2>2, <3>1, PayFailsInv
  <2>3. CASE send[Sender].result = "true"
    <3>1. texts[PayKey] = 1
      BY <1>0, <2>1, <2>3 DEF SmsInv, SendersSound, SenderSound, SenderAside, PayInv
    <3>2. PayTells("ok")
      BY <1>12, <2>3 DEF PayAnswered, PayTellsOk
    <3>3. /\ pay'.at = "idle" /\ pay'.invocation = pay.invocation
          /\ Len(pay'.told) = Len(pay.told) + 1
          /\ DOMAIN pay'.told = DOMAIN pay.told \cup {Len(pay.told) + 1}
          /\ \A i \in DOMAIN pay.told : pay'.told[i] = pay.told[i]
          /\ pay'.told[Len(pay.told) + 1] = "ok"
      BY <1>0, <3>2, PayTellsFacts
    <3>4. /\ Len(pay.told) = pay.invocation - 1 /\ pay.invocation \in Nat
          /\ Len(pay.told) \in Nat
      BY <1>0, <2>1, PayNumbers DEF PayInv
    <3>5. Len(pay'.told) = pay.invocation
      BY <3>3, <3>4
    <3>6. ASSUME NEW i \in Invocations, NEW n \in Attempts, send'[PayAttempt(i, n)].at # "idle"
          PROVE  Accounted(i, n)'
      <4>1. Accounted(i, n)
        BY <1>0, <2>1, <3>6 DEF PayInv, smsVars
      <4>2. CASE i = pay.invocation
        <5>1. i = Len(pay.told) + 1
          BY <3>4, <4>2
        <5>. QED BY <3>3, <5>1 DEF Accounted
      <4>3. CASE i # pay.invocation
        BY <2>1, <3>3, <4>1, <4>3 DEF Accounted, Spent, smsVars
      <4>. QED BY <4>2, <4>3
    <3>7. \A s \in Senders : send'[s].at # "idle" /\ send'[s].key = PayKey =>
            \E i \in Invocations, n \in Attempts : s = PayAttempt(i, n)
      BY <1>0, <2>1 DEF PayInv, smsVars
    <3>8. texts'[PayKey] = 1
      BY <2>1, <3>1 DEF smsVars
    <3>. QED BY <3>3, <3>5, <3>6, <3>7, <3>8 DEF PayInv
  <2>. QED BY <2>2, <2>3
<1>13. CASE PayTimesOut
  <2>1. pay.at = "texting" /\ Abandon(Sender) /\ PayFails /\ UNCHANGED texts /\ Sender \in Senders
    BY <1>0, <1>13 DEF PayTimesOut, Abandon
  <2>2. PICK t \in Senders : t = Sender
    BY <2>1
  <2>3. /\ send'[t].key = send[t].key /\ send'[t].at \in {"dead", "undone"}
        /\ send'[t].result = send[t].result /\ send[t].at \in {"cleared", "post", "asked", "mark"}
        /\ \A u \in Senders : u # t => send'[u] = send[u]
    <3>1. PICK end \in {"undone", "dead"} : send' = [send EXCEPT ![t].at = end, ![t].tries = 0]
      BY <2>1, <2>2 DEF Abandon
    <3>2. send[t].at \in {"cleared", "post", "asked", "mark"}
      BY <2>1, <2>2 DEF Abandon
    <3>. QED BY <1>0, <3>1, <3>2 DEF SmsInv, SmsTypeOK
  <2>4. send[t].result # "true"
    BY <1>0, <2>3 DEF SmsInv, SendersSound, SenderSound, SenderAside
  <2>. QED BY <1>0, <2>1, <2>2, <2>3, <2>4, PayFailsInv
<1>. QED BY <1>1, <1>3, <1>4, <1>5, <1>6, <1>7, <1>8, <1>9, <1>10, <1>11, <1>12, <1>13
         DEF RecordNext, StatusStep

\* Twilio's callbacks leave alone what the gateway wrote: they read an outcome,
\* or had read before the gateway wrote (status_webhook.py:50-56).
LEMMA RecordStepGateway ==
  ASSUME RecordInv, RecordNext
  PROVE  GatewayInv'
<1>. USE DEF GatewayInv, GatewayOutcomeStands
<1>0. GatewayInv /\ callback \in [Deliveries -> CallbackStates]
      /\ gateway \in [at : {"none", "running", "ended", "dead"},
                      outcome : {"none", "handled", "failed"}, raced : SUBSET Deliveries]
  BY DEF RecordInv, RecordTypeOK, CallbackStates
<1>1. CASE GatewayFinishes
  <2>1. PICK outcome \in {"handled", "failed"} :
          /\ row' = [row EXCEPT !.outcome = outcome]
          /\ gateway' = [at |-> "ended", outcome |-> outcome,
                         raced |-> {d \in Deliveries : callback[d] = "decided"}]
    BY <1>1 DEF GatewayFinishes
  <2>2. row'.outcome = outcome
    BY <2>1 DEF RecordInv, RecordTypeOK
  <2>. QED BY <1>1, <2>1, <2>2 DEF GatewayFinishes
<1>2. CASE InboundVoice \/ GatewayConnects \/ GatewayDies
  BY <1>0, <1>2 DEF InboundVoice, GatewayConnects, GatewayDies
<1>3. ASSUME NEW d \in Deliveries, StatusStep(d) \/ StatusDies(d)
      PROVE  GatewayInv'
  <2>1. UNCHANGED gateway /\ \A e \in Deliveries : e # d => callback'[e] = callback[e]
    BY <1>0, <1>3 DEF StatusStep, StatusReads, StatusWrites, StatusTexts, StatusAnswers, StatusDies
  <2>. SUFFICES ASSUME gateway.at = "ended"
                PROVE  GatewayInv'
    BY <1>0, <2>1
  <2>2. callback'[d] # "decided"
    BY <1>0, <1>3 DEF StatusStep, StatusReads, StatusWrites, StatusTexts, StatusAnswers, StatusDies, Then
  <2>3. CASE UNCHANGED row
    BY <1>0, <2>1, <2>2, <2>3
  <2>4. CASE StatusWrites(d)
    <3>1. callback[d] = "decided" /\ d \in gateway.raced
      BY <1>0, <2>4 DEF StatusWrites
    <3>2. row'.outcome # "none"
      BY <2>4 DEF StatusWrites, RecordInv, RecordTypeOK
    <3>. QED BY <1>0, <2>1, <2>2, <3>1, <3>2
  <2>. QED BY <1>3, <2>3, <2>4 DEF StatusStep, StatusReads, StatusTexts, StatusAnswers, StatusDies
<1>4. CASE UNCHANGED <<row, gateway, callback>>
  BY <1>0, <1>4
<1>. QED BY <1>1, <1>2, <1>3, <1>4 DEF RecordNext, CallEnds, PayStarts, PayUnlinked, PayTexts,
            PayAnswered, PayTimesOut, Sends, Restarts, recordVars

\* Every handler keeps the types of the row and of the tasks around it.
LEMMA RecordStepTypes ==
  ASSUME RecordInv, RecordNext, SmsTypeOK'
  PROVE  RecordTypeOK'
<1>. DEFINE RowOK == row \in [stored : BOOLEAN, outcome : Outcomes \cup {"none"}]
            GateOK == gateway \in [at : {"none", "running", "ended", "dead"},
                                  outcome : {"none", "handled", "failed"}, raced : SUBSET Deliveries]
            RestOK == /\ status \in Terminal \cup {"live"}
                      /\ callback \in [Deliveries -> CallbackStates]
                      /\ crashes \in 0..MaxCrashes
<1>0. RowOK /\ GateOK /\ RestOK /\ pay \in Pay
  BY DEF RecordInv, RecordTypeOK, Pay, CallbackStates
<1>1. CASE InboundVoice \/ GatewayConnects
  <2>1. RowOK' /\ GateOK'
    BY <1>0, <1>1 DEF InboundVoice, GatewayConnects, NoRow
  <2>2. UNCHANGED <<status, callback, pay, crashes>>
    BY <1>1 DEF InboundVoice, GatewayConnects
  <2>. QED BY <1>0, <2>1, <2>2 DEF RecordTypeOK, Pay, CallbackStates
<1>2. CASE GatewayFinishes \/ GatewayDies
  <2>1. RowOK' /\ GateOK'
    <3>1. CASE GatewayFinishes
      <4>1. PICK outcome \in {"handled", "failed"} :
              /\ row' = [row EXCEPT !.outcome = outcome]
              /\ gateway' = [at |-> "ended", outcome |-> outcome,
                             raced |-> {d \in Deliveries : callback[d] = "decided"}]
        BY <3>1 DEF GatewayFinishes
      <4>2. RowOK'
        BY <1>0, <4>1 DEF Outcomes
      <4>. QED BY <4>1, <4>2
    <3>2. CASE GatewayDies
      BY <1>0, <3>2 DEF GatewayDies
    <3>. QED BY <1>2, <3>1, <3>2
  <2>2. UNCHANGED <<status, callback>> /\ crashes' \in 0..MaxCrashes
    BY <1>0, <1>2, RecordAssumption DEF GatewayFinishes, GatewayDies
  <2>3. pay' = pay \/ pay' = [pay EXCEPT !.at = "gone"]
    BY <1>2, PayCancelledInv DEF GatewayFinishes, GatewayDies
  <2>4. pay' \in Pay
    BY <1>0, <2>3 DEF Pay
  <2>. QED BY <1>0, <2>1, <2>2, <2>4 DEF RecordTypeOK, Pay, CallbackStates
<1>3. CASE CallEnds
  BY <1>0, <1>3 DEF CallEnds, RecordTypeOK, Pay, CallbackStates
<1>4. ASSUME NEW d \in Deliveries, StatusStep(d) \/ StatusDies(d)
      PROVE  RecordTypeOK'
  <2>1. UNCHANGED <<gateway, status, pay>> /\ crashes' \in 0..MaxCrashes
    BY <1>0, <1>4, RecordAssumption
       DEF StatusStep, StatusReads, StatusWrites, StatusTexts, StatusAnswers, StatusDies
  <2>2. RowOK'
    BY <1>0, <1>4 DEF StatusStep, StatusReads, StatusWrites, StatusTexts, StatusAnswers,
                      StatusDies, Outcomes
  <2>3. callback' \in [Deliveries -> CallbackStates]
    BY <1>0, <1>4 DEF StatusStep, StatusReads, StatusWrites, StatusTexts, StatusAnswers,
                      StatusDies, Then, CallbackStates
  <2>. QED BY <1>0, <2>1, <2>2, <2>3 DEF RecordTypeOK, Pay, CallbackStates
<1>5. CASE PayStarts \/ PayUnlinked \/ PayTexts \/ PayAnswered \/ PayTimesOut
  <2>1. UNCHANGED <<row, gateway, status, callback, crashes>>
    BY <1>5 DEF PayStarts, PayUnlinked, PayTexts, PayAnswered, PayTimesOut
  <2>2. pay' \in Pay
    <3>1. CASE PayFails
      <4>1. CASE pay.attempt + 1 \in Attempts
        BY <1>0, <3>1, <4>1 DEF PayFails, Pay
      <4>2. CASE pay.attempt + 1 \notin Attempts
        BY <1>0, <3>1, <4>2, PayTellsFacts DEF PayFails
      <4>. QED BY <4>1, <4>2
    <3>2. CASE PayTellsOk
      BY <1>0, <3>2, PayTellsFacts DEF PayTellsOk
    <3>3. CASE PayStarts
      BY <1>0, <3>3, RecordAssumption DEF PayStarts, Pay
    <3>4. CASE PayTexts
      BY <1>0, <3>4 DEF PayTexts, Pay
    <3>. QED BY <1>5, <3>1, <3>2, <3>3, <3>4 DEF PayUnlinked, PayAnswered, PayTimesOut
  <2>. QED BY <1>0, <2>1, <2>2 DEF RecordTypeOK, Pay, CallbackStates
<1>6. CASE UNCHANGED recordVars
  BY <1>0, <1>6 DEF recordVars, RecordTypeOK, Pay, CallbackStates
<1>. QED BY <1>1, <1>2, <1>3, <1>4, <1>5, <1>6 DEF RecordNext, Sends, Restarts

\* At the start there is no row, no message and no attempt.
LEMMA RecordInitInv == RecordInit => RecordInv
<1>. SUFFICES ASSUME RecordInit PROVE RecordInv
  OBVIOUS
<1>1. SmsInv
  BY SmsInitInv DEF RecordInit
<1>2. RecordTypeOK
  BY <1>1, RecordAssumption DEF RecordInit, RecordTypeOK, SmsInv, NoRow, Outcomes
<1>3. GatewayInv
  BY DEF RecordInit, GatewayInv
<1>4. PayInv
  <2>1. \A i \in Invocations, n \in Attempts : PayAttempt(i, n) \in Senders
    BY PaySenders
  <2>. QED BY <2>1 DEF RecordInit, SmsInit, Idle, PayInv
<1>. QED BY <1>1, <1>2, <1>3, <1>4 DEF RecordInv

\* Every step keeps the invariant.
LEMMA RecordStepInv == RecordInv /\ [RecordNext]_vars => RecordInv'
<1>. SUFFICES ASSUME RecordInv, [RecordNext]_vars PROVE RecordInv'
  OBVIOUS
<1>1. CASE RecordNext
  <2>1. SmsInv'
    BY <1>1, RecordStepSms, SmsStepInv DEF RecordInv
  <2>2. SmsTypeOK'
    BY <2>1 DEF SmsInv
  <2>. QED BY <1>1, <2>1, <2>2, RecordStepTypes, RecordStepGateway, RecordStepPay DEF RecordInv
<1>2. CASE UNCHANGED vars
  <2>1. SmsInv'
    BY <1>2, SmsStepInv DEF RecordInv, vars
  <2>2. RecordTypeOK' /\ GatewayInv' /\ PayInv'
    BY <1>2, <2>1 DEF RecordInv, SmsInv, RecordTypeOK, GatewayInv, GatewayOutcomeStands, PayInv,
                      Accounted, Spent, Sender, vars, smsVars, recordVars
  <2>. QED BY <2>1, <2>2 DEF RecordInv
<1>. QED BY <1>1, <1>2

-----------------------------------------------------------------------------
(* The theorems. *)

\* A claimed key without a message is explained by what its one owner heard.
LEMMA UnsentExplained == SmsInv => UnsentKeyExplained
<1>. SUFFICES ASSUME SmsInv, NEW k \in claims, ~(texts[k] > 0)
              PROVE  /\ k \notin delivered
                     /\ \E s \in Senders :
                          /\ send[s].key = k
                          /\ \/ send[s].at \in {"post", "asked", "dead"}
                             \/ send[s].heard \in {"refused", "unheard"}
  BY DEF UnsentKeyExplained
<1>1. k \notin delivered
  BY DEF SmsInv, TextsOnce
<1>2. PICK s \in Senders : Claimed(s) /\ send[s].key = k
  BY DEF SmsInv, OneOwner
<1>3. SenderSound(s) /\ send[s].heard \in {"none", "ok", "refused", "unheard"}
  BY <1>2 DEF SmsInv, SmsTypeOK, SendersSound
<1>4. send[s].heard # "ok" /\ send[s].at # "mark"
  BY <1>2, <1>3 DEF SenderSound
<1>. QED BY <1>1, <1>2, <1>3, <1>4 DEF Claimed

\* What the caller is told of the link follows from what its senders heard.
LEMMA PayTruth == RecordInv => PayToldTruth
<1>. SUFFICES ASSUME RecordInv, NEW i \in DOMAIN pay.told
              PROVE  /\ pay.told[i] = "ok" => texts[PayKey] = 1
                     /\ pay.told[i] = "degraded" /\ texts[PayKey] > 0 =>
                          \E j \in Invocations, n \in Attempts :
                            /\ Claimed(PayAttempt(j, n)) /\ send[PayAttempt(j, n)].key = PayKey
                            /\ j > i \/ (j < i /\ pay.told[j] = "ok") \/ InDoubt(PayAttempt(j, n))
  BY DEF PayToldTruth
<1>1. pay.told[i] = "ok" => texts[PayKey] = 1
  BY DEF RecordInv, PayInv
<1>2. ASSUME pay.told[i] = "degraded", texts[PayKey] > 0
      PROVE  \E j \in Invocations, n \in Attempts :
               /\ Claimed(PayAttempt(j, n)) /\ send[PayAttempt(j, n)].key = PayKey
               /\ j > i \/ (j < i /\ pay.told[j] = "ok") \/ InDoubt(PayAttempt(j, n))
  <2>1. PayKey \in claims
    BY <1>2, RecordAssumption DEF RecordInv, SmsInv, TextsOnce
  <2>2. PICK s \in Senders : Claimed(s) /\ send[s].key = PayKey
    BY <2>1 DEF RecordInv, SmsInv, OneOwner
  <2>3. SenderSound(s) /\ send[s].at # "idle"
    BY <2>2 DEF RecordInv, SmsInv, SendersSound, SenderSound, Claimed
  <2>4. PICK j \in Invocations, n \in Attempts : s = PayAttempt(j, n)
    BY <2>2, <2>3 DEF RecordInv, PayInv
  <2>5. Accounted(j, n)
    BY <2>3, <2>4 DEF RecordInv, PayInv
  <2>6. /\ pay.told \in Seq({"ok", "degraded"}) /\ i \in 1..Len(pay.told) /\ Len(pay.told) \in Nat
        /\ pay.invocation \in Nat /\ j \in Nat
    <3>1. pay \in Pay /\ j \in Nat
      BY RecordAssumption DEF RecordInv, RecordTypeOK, Pay
    <3>. QED BY <3>1, PayNumbers
  <2>7. CASE j = pay.invocation /\ pay.at # "idle"
    <3>1. Len(pay.told) = pay.invocation - 1
      BY <2>7 DEF RecordInv, PayInv
    <3>2. j > i
      BY <2>6, <2>7, <3>1
    <3>. QED BY <2>2, <2>4, <3>2
  <2>8. CASE j \in DOMAIN pay.told /\ pay.told[j] = "ok"
    <3>1. j # i
      BY <1>2, <2>8
    <3>2. j > i \/ j < i
      BY <2>6, <3>1
    <3>. QED BY <2>2, <2>4, <2>8, <3>2
  <2>9. CASE Spent(s)
    <3>1. send[s].heard # "refused" /\ send[s].heard \in {"none", "ok", "refused", "unheard"}
      BY <1>2, <2>2, <2>3 DEF SenderSound, RecordInv, SmsInv, SmsTypeOK
    <3>2. send[s].at = "done" /\ send[s].heard = "ok" => send[s].result = "raised"
      BY <2>3, <2>9 DEF SenderSound, Spent
    <3>3. send[s].heard = "none" => send[s].at = "dead"
      BY <2>2, <2>9 DEF Claimed, Spent
    <3>4. send[s].at # "undone" /\ send[s].at \in {"done", "dead", "undone"}
      BY <2>2, <2>3, <2>9 DEF Claimed, SenderSound, Spent
    <3>5. InDoubt(s)
      BY <3>1, <3>2, <3>3, <3>4 DEF InDoubt
    <3>. QED BY <2>2, <2>4, <3>5
  <2>. QED BY <2>4, <2>5, <2>7, <2>8, <2>9 DEF Accounted
<1>. QED BY <1>1, <1>2

\* Types hold, and every claimed key is explained (repository.py:243-248).
THEOREM RecordCorrect == RecordSpec => []RecordOK
<1>1. RecordInv => RecordOK
  BY UnsentExplained DEF RecordInv, RecordOK
<1>. QED BY <1>1, RecordInitInv, RecordStepInv, PTL DEF RecordSpec

\* What the gateway wrote stays, until a callback that had read "none" before
\* the gateway wrote goes on; such a callback overwrites it, and no other does
\* (status_webhook.py:50-56).
THEOREM GatewayOutcomeIsKept == RecordSpec => []GatewayOutcomeStands
<1>1. RecordInv => GatewayOutcomeStands
  BY DEF RecordInv, GatewayInv, GatewayOutcomeStands
<1>. QED BY <1>1, RecordInitInv, RecordStepInv, PTL DEF RecordSpec

\* What the caller hears of the link is the case, or explained by the sender that
\* holds the claim, over any number of requests of one amount
\* (payment.py:125-151).
THEOREM PayIsTruthful == RecordSpec => []PayToldTruth
BY PayTruth, RecordInitInv, RecordStepInv, PTL DEF RecordSpec

\* The SMS path keeps its promise: one message per key, and none considered
\* after the opt-out; what was considered before it may still be sent
\* (models.py:175-180, sms.py:3-5, 58-70).
THEOREM RecordImplementsOutbox == RecordSpec => ImplementsOutbox
<1>1. RecordInit => Promise!OutboxInit
  BY DEF RecordInit, SmsInit, Idle, Promise!OutboxInit
<1>2. RecordInv /\ [RecordNext]_vars => [Promise!OutboxNext]_(Promise!outboxVars)
  <2>. SUFFICES ASSUME RecordInv, [RecordNext]_vars
                PROVE  [Promise!OutboxNext]_(Promise!outboxVars)
    OBVIOUS
  <2>1. [SmsNext]_smsVars
    BY RecordStepSms DEF vars
  <2>. QED BY <2>1, SmsRefinesStep DEF RecordInv
<1>. QED BY <1>1, <1>2, RecordInitInv, RecordStepInv, PTL
         DEF RecordSpec, ImplementsOutbox, Promise!OutboxSpec

=============================================================================
