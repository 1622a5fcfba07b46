------------------------------- MODULE Outbox ------------------------------
(***************************************************************************)
(* What the SMS path promises: each key stands for at most one message     *)
(* (db/models.py:175-180, "The UNIQUE key is the dedupe"); a message is    *)
(* considered, then decided on, then sent; and none is considered once the *)
(* recipient has opted out (telephony/sms.py:3-5).                         *)
(***************************************************************************)
EXTENDS Naturals

CONSTANT Keys

VARIABLES
  stopped,    \* the recipient has opted out
  due,        \* keys under consideration: the recipient was not, when asked
  reserved,   \* keys whose message has been decided on
  texts       \* key -> messages the provider has taken

outboxVars == <<stopped, due, reserved, texts>>

OutboxInit ==
  stopped \in BOOLEAN /\ due = {} /\ reserved = {} /\ texts = [k \in Keys |-> 0]

Stop == stopped' = TRUE /\ UNCHANGED <<due, reserved, texts>>

Consider(k) ==
  /\ ~stopped
  /\ due' = due \cup {k}
  /\ UNCHANGED <<stopped, reserved, texts>>

\* It comes to nothing: the message was decided on already, or the task failed.
Settle(k) ==
  /\ due' = due \ {k}
  /\ UNCHANGED <<stopped, reserved, texts>>

\* Others may still be considering the same message.
Reserve(k) ==
  /\ k \in due /\ k \notin reserved
  /\ due' \in {due, due \ {k}}
  /\ reserved' = reserved \cup {k}
  /\ UNCHANGED <<stopped, texts>>

Deliver(k) ==
  /\ k \in reserved
  /\ texts[k] = 0
  /\ texts' = [texts EXCEPT ![k] = 1]
  /\ UNCHANGED <<stopped, due, reserved>>

OutboxNext ==
  Stop \/ \E k \in Keys : Consider(k) \/ Settle(k) \/ Reserve(k) \/ Deliver(k)

OutboxSpec == OutboxInit /\ [][OutboxNext]_outboxVars

=============================================================================
