------------------------ MODULE BridgeLifecycleProofs ------------------------
(***************************************************************************)
(* For any number of turns and frames, with or without a process shutdown  *)
(* and a failing database: no turn is stored twice or forgotten, and the   *)
(* sockets close on queued frames only after a drain that timed out.       *)
(***************************************************************************)
EXTENDS BridgeLifecycle, TLAPS

-----------------------------------------------------------------------------
(* One row per turn *)

\* A turn is in one hand at a time: in the partial text, with the pump that
\* stores it, or with the closer that flushes it; a turn that has a row is in
\* none. 0 is the empty hand.
InHand(t) == t = storing \/ t = partial \/ \E c \in Closers : t = flushing[c]

TurnInv ==
  /\ begun \in Nat /\ storing \in Nat /\ partial \in Nat
  /\ flushing \in [Closers -> Nat]
  /\ rows \in [Turns -> Nat]
  /\ storing <= begun /\ partial <= begun /\ \A c \in Closers : flushing[c] <= begun
  /\ storing # 0 => storing # partial /\ \A c \in Closers : storing # flushing[c]
  /\ partial # 0 => \A c \in Closers : partial # flushing[c]
  /\ \A c, e \in Closers : flushing[c] # 0 /\ flushing[c] = flushing[e] => c = e
  /\ \A t \in Turns : rows[t] <= 1 /\ (rows[t] = 1 => t <= begun /\ ~InHand(t))

\* A new call has no turns (bridge.py:158-172).
LEMMA TurnInitInv == LifeInit => TurnInv
  BY LifecycleAssumption DEF LifeInit, TurnInv, InHand, Turns

\* A turn the agent begins, and a transcript that is done, move one turn
\* (bridge.py:356-363).
LEMMA TranscriptInv ==
  ASSUME TurnInv, TranscriptDelta \/ TranscriptDone
  PROVE  TurnInv'
<1>1. CASE TranscriptDelta
  BY <1>1 DEF TranscriptDelta, TurnInv, InHand, Turns
<1>2. CASE TranscriptDone
  BY <1>2 DEF TranscriptDone, OpenaiReads, TurnInv, InHand, Turns
<1>. QED BY <1>1, <1>2

\* A turn in hand has no row yet, so storing it gives it its first.
LEMMA RowInv ==
  ASSUME TurnInv, NEW t, t # 0, InHand(t), Store(t)
  PROVE  /\ rows' \in [Turns -> Nat]
         /\ \A u \in Turns : rows'[u] = IF u = t THEN 1 ELSE rows[u]
         /\ t <= begun
<1>1. rows' = [rows EXCEPT ![t] = @ + 1] /\ rows \in [Turns -> Nat]
  BY DEF Store, TurnInv
<1>2. \A u \in Turns : rows[u] \in {0, 1}
  BY DEF TurnInv
<1>3. t \in Turns => rows[t] = 0
  BY <1>2 DEF TurnInv
<1>4. t <= begun
  BY DEF TurnInv, InHand
<1>5. \A u \in Turns : rows'[u] = IF u = t THEN rows[u] + 1 ELSE rows[u]
  BY <1>1
<1>6. \A u \in Turns : rows'[u] = IF u = t THEN 1 ELSE rows[u]
  BY <1>3, <1>5
<1>7. rows' \in [Turns -> Nat]
  <2>1. CASE t \in Turns
    BY <1>1, <2>1
  <2>2. CASE t \notin Turns
    <3>1. DOMAIN rows' = Turns /\ \A u \in Turns : rows'[u] = rows[u]
      BY <1>1, <2>2
    <3>. QED BY <1>1, <3>1
  <2>. QED BY <2>1, <2>2
<1>. QED BY <1>4, <1>6, <1>7

\* A turn that leaves the pump's hand gets its row or is lost
\* (bridge.py:549, 196-199).
LEMMA StoringInv ==
  ASSUME TurnInv, UNCHANGED <<begun, partial, flushing>>, storing' = 0,
         rows' = rows \/ (storing # 0 /\ Store(storing))
  PROVE  TurnInv'
<1>1. CASE rows' = rows
  BY <1>1 DEF TurnInv, InHand, Turns
<1>2. CASE storing # 0 /\ Store(storing)
  <2>1. /\ rows' \in [Turns -> Nat]
        /\ \A u \in Turns : rows'[u] = IF u = storing THEN 1 ELSE rows[u]
        /\ storing <= begun
    BY <1>2, RowInv DEF InHand
  <2>2. \A t \in Turns : InHand(t)' => InHand(t) /\ t # storing
    BY <1>2, LifecycleAssumption DEF TurnInv, InHand, Turns
  <2>3. \A t \in Turns : rows'[t] <= 1 /\ (rows'[t] = 1 => t <= begun' /\ ~InHand(t)')
    BY <2>1, <2>2 DEF TurnInv
  <2>. QED BY <2>1, <2>3 DEF TurnInv
<1>. QED BY <1>1, <1>2

\* The closer that claims the flag takes the partial text, and stores it or
\* loses it (bridge.py:220-237, 245-260).
LEMMA CloserTurnInv ==
  ASSUME TurnInv, NEW c \in Closers, CloserCloses(c) \/ FlushPartialTurn(c)
  PROVE  TurnInv'
<1>1. CASE CloserCloses(c)
  <2>1. UNCHANGED <<begun, storing, rows>>
    BY <1>1 DEF CloserCloses
  <2>2. CASE UNCHANGED <<partial, flushing>>
    BY <2>1, <2>2 DEF TurnInv, InHand
  <2>3. CASE partial' = 0 /\ flushing' = [flushing EXCEPT ![c] = partial]
    <3>1. /\ flushing' \in [Closers -> Nat] /\ flushing'[c] = partial
          /\ \A e \in Closers : e # c => flushing'[e] = flushing[e]
      BY <2>3 DEF TurnInv
    <3>2. \A t : InHand(t)' => InHand(t) \/ t = 0
      BY <2>1, <2>3, <3>1 DEF InHand
    <3>3. \A t \in Turns : t # 0
      BY LifecycleAssumption DEF Turns
    <3>4. \A t \in Turns : rows'[t] <= 1 /\ (rows'[t] = 1 => t <= begun' /\ ~InHand(t)')
      BY <2>1, <3>2, <3>3 DEF TurnInv
    <3>. QED BY <2>1, <2>3, <3>1, <3>4 DEF TurnInv
  <2>. QED BY <1>1, <2>2, <2>3 DEF CloserCloses, Aclose
<1>2. CASE FlushPartialTurn(c)
  <2>1. UNCHANGED <<begun, storing, partial>> /\ flushing' = [flushing EXCEPT ![c] = 0]
    BY <1>2 DEF FlushPartialTurn
  <2>4. /\ flushing' \in [Closers -> Nat] /\ flushing'[c] = 0
        /\ \A e \in Closers : e # c => flushing'[e] = flushing[e]
    BY <2>1 DEF TurnInv
  <2>5. \A t \in Turns : InHand(t)' => InHand(t) /\ t # flushing[c]
    <3>. SUFFICES ASSUME NEW t \in Turns, InHand(t)'
                  PROVE  InHand(t) /\ t # flushing[c]
      OBVIOUS
    <3>1. t # 0
      BY LifecycleAssumption DEF Turns
    <3>. QED BY <2>1, <2>4, <3>1 DEF TurnInv, InHand
  <2>6. /\ \A e \in Closers : flushing'[e] <= begun
        /\ storing # 0 => \A e \in Closers : storing # flushing'[e]
        /\ partial # 0 => \A e \in Closers : partial # flushing'[e]
        /\ \A d, e \in Closers : flushing'[d] # 0 /\ flushing'[d] = flushing'[e] => d = e
    BY <2>4 DEF TurnInv
  <2>7. /\ rows' \in [Turns -> Nat]
        /\ \A t \in Turns : rows'[t] <= 1 /\ (rows'[t] = 1 => t <= begun' /\ ~InHand(t)')
    <3>1. CASE rows' = rows
      BY <2>1, <2>5, <3>1 DEF TurnInv
    <3>2. CASE flushing[c] # 0 /\ Store(flushing[c])
      <4>1. /\ rows' \in [Turns -> Nat]
            /\ \A u \in Turns : rows'[u] = IF u = flushing[c] THEN 1 ELSE rows[u]
            /\ flushing[c] <= begun
        BY <3>2, RowInv DEF InHand
      <4>. QED BY <2>1, <2>5, <4>1 DEF TurnInv
    <3>. QED BY <1>2, <3>1, <3>2 DEF FlushPartialTurn
  <2>. QED BY <2>1, <2>4, <2>6, <2>7 DEF TurnInv
<1>. QED BY <1>1, <1>2

\* Every step keeps each turn in one hand.
LEMMA TurnStepInv == TurnInv /\ [LifeNext]_lifeVars => TurnInv'
<1>. SUFFICES ASSUME TurnInv, [LifeNext]_lifeVars PROVE TurnInv'
  OBVIOUS
<1>1. CASE UNCHANGED <<begun, storing, partial, flushing, rows>>
  BY <1>1 DEF TurnInv, InHand
<1>2. CASE SendAudio \/ PumpOutbound \/ TwilioStalls
  BY <1>1, <1>2 DEF SendAudio, PumpOutbound, TwilioStalls, turnVars
<1>3. CASE \E p \in Pumps : StoppingPumpEnds(p) \/ PumpFails(p) \/ PumpSeesStop(p)
  BY <1>1, <1>3 DEF StoppingPumpEnds, PumpFails, PumpSeesStop, turnVars
<1>4. CASE TranscriptDelta \/ TranscriptDone
  BY <1>4, TranscriptInv
<1>5. CASE TurnStored \/ RunCancels
  BY <1>5, StoringInv DEF TurnStored, RunCancels
<1>6. CASE RunWakes \/ ShutdownBegins \/ FinishCall \/ EnqueuePostCall
  BY <1>1, <1>6 DEF RunWakes, ShutdownBegins, FinishCall, EnqueuePostCall, turnVars
<1>7. ASSUME NEW c \in Closers, CloserStep(c)
      PROVE  TurnInv'
  <2>1. CASE Drain(c) \/ CloseSockets(c)
    BY <1>1, <2>1 DEF Drain, CloseSockets, turnVars
  <2>. QED BY <1>7, <2>1, CloserTurnInv DEF CloserStep
<1>8. CASE UNCHANGED lifeVars
  BY <1>1, <1>8 DEF lifeVars, turnVars
<1>. QED
  BY <1>2, <1>3, <1>4, <1>5, <1>6, <1>7, <1>8 DEF LifeNext, HandlerStep, Closers

\* However run(), shutdown() and the pumps interleave at the end of a call, no
\* turn gets two rows (bridge.py:213-214, 245-260).
THEOREM TurnIsStoredOnce == LifeSpec => []TurnStoredOnce
<1>1. TurnInv => TurnStoredOnce
  BY DEF TurnInv, TurnStoredOnce
<1>. QED BY <1>1, TurnInitInv, TurnStepInv, PTL DEF LifeSpec

-----------------------------------------------------------------------------
(* Draining *)

\* A drain that ended empty leaves nothing behind, because the stop flag that
\* precedes every drain also ends the production of frames.
DrainInv ==
  /\ queued \in Nat
  /\ closer \in [Closers -> {"idle", "drain", "cancel", "close", "flush", "sockets", "returned"}]
  /\ drained \in [Closers -> {"none", "empty", "timeout"}]
  /\ \A c \in Closers : closer[c] # "idle" => stop
  /\ \A c \in Closers : closer[c] \notin {"idle", "drain"} => drained[c] # "none"
  /\ \A c \in Closers : drained[c] = "empty" => stop /\ queued = 0
  /\ DrainBeforeClose

\* Nothing is queued or closed in a new call (bridge.py:158-172).
LEMMA DrainInitInv == LifeInit => DrainInv
  BY DEF LifeInit, DrainInv, DrainBeforeClose

\* A closer that moves on after its drain keeps DrainInv
\* (bridge.py:196-199, 220-237).
LEMMA CloserMovesInv ==
  ASSUME DrainInv, NEW c \in Closers, NEW from, NEW to,
         Goes(c, from, to), from \notin {"idle", "drain"},
         to \in {"close", "flush", "sockets", "returned"},
         UNCHANGED <<queued, drained, stop>>,
         sockets' = sockets \/ sockets' = "closed"
  PROVE  DrainInv'
<1>1. drained[c] \in {"empty", "timeout"} /\ stop
  BY DEF Goes, DrainInv
<1>2. closer' = [closer EXCEPT ![c] = to] /\ closer[c] = from
  BY DEF Goes
<1>3. DrainBeforeClose'
  BY <1>1 DEF DrainInv, DrainBeforeClose
<1>. QED BY <1>1, <1>2, <1>3 DEF DrainInv

\* The end of a drain (bridge.py:239-243).
LEMMA DrainEndsInv ==
  ASSUME DrainInv, NEW c \in Closers, Drain(c)
  PROVE  DrainInv'
<1>1. PICK to \in {"cancel", "close"} : Goes(c, "drain", to)
  BY DEF Drain
<1>2. /\ UNCHANGED <<queued, sockets, stop>>
      /\ \/ queued = 0 /\ drained' = [drained EXCEPT ![c] = "empty"]
         \/ drained' = [drained EXCEPT ![c] = "timeout"]
  BY DEF Drain
<1>3. stop /\ drained[c] \in {"none", "empty", "timeout"}
  BY <1>1 DEF Goes, DrainInv
<1>4. closer' = [closer EXCEPT ![c] = to]
  BY <1>1 DEF Goes
<1>5. DrainBeforeClose'
  <2>1. CASE queued = 0
    BY <1>2, <2>1 DEF DrainBeforeClose
  <2>2. CASE drained' = [drained EXCEPT ![c] = "timeout"]
    BY <2>2 DEF DrainInv, DrainBeforeClose
  <2>. QED BY <1>2, <2>1, <2>2
<1>. QED BY <1>2, <1>3, <1>4, <1>5 DEF DrainInv

\* Every step keeps DrainInv.
LEMMA DrainStepInv == DrainInv /\ [LifeNext]_lifeVars => DrainInv'
<1>. SUFFICES ASSUME DrainInv, [LifeNext]_lifeVars PROVE DrainInv'
  OBVIOUS
<1>1. CASE /\ UNCHANGED <<queued, closer, drained, sockets>>
           /\ stop' = stop \/ stop' = TRUE
  BY <1>1 DEF DrainInv, DrainBeforeClose
<1>2. CASE SendAudio
  <2>1. ~stop /\ sockets = "open" /\ queued' = queued + 1 /\ UNCHANGED <<closer, drained, sockets, stop>>
    BY <1>2 DEF SendAudio, OpenaiReads, taskVars
  <2>. QED BY <2>1 DEF DrainInv, DrainBeforeClose
<1>3. CASE PumpOutbound
  <2>1. queued > 0 /\ queued' = queued - 1 /\ UNCHANGED <<closer, drained, sockets, stop>>
    BY <1>3 DEF PumpOutbound, taskVars
  <2>. QED BY <2>1 DEF DrainInv, DrainBeforeClose
<1>4. CASE \/ TwilioStalls \/ TranscriptDelta \/ TranscriptDone \/ TurnStored
           \/ \E p \in Pumps : StoppingPumpEnds(p) \/ PumpFails(p) \/ PumpSeesStop(p)
  BY <1>1, <1>4
  DEF TwilioStalls, TranscriptDelta, TranscriptDone, TurnStored, StoppingPumpEnds, PumpFails,
      PumpSeesStop, taskVars, audioLeft
<1>5. CASE RunWakes \/ ShutdownBegins
  <2>1. PICK c \in Closers : Goes(c, "idle", "drain")
    BY <1>5 DEF RunWakes, ShutdownBegins, Closers
  <2>2. stop' = TRUE /\ UNCHANGED <<queued, drained, sockets>>
    BY <1>5 DEF RunWakes, ShutdownBegins, audioLeft
  <2>. QED BY <2>1, <2>2 DEF Goes, DrainInv, DrainBeforeClose
<1>6. CASE RunCancels
  <2>1. "run" \in Closers
    BY DEF Closers
  <2>. QED BY <1>6, <2>1, CloserMovesInv DEF RunCancels, audioLeft
<1>7. ASSUME NEW c \in Closers, CloserStep(c)
      PROVE  DrainInv'
  <2>1. CASE Drain(c)
    BY <2>1, DrainEndsInv
  <2>2. CASE CloserCloses(c)
    <3>1. PICK to \in {"returned", "flush"} : Goes(c, "close", to)
      BY <2>2 DEF CloserCloses, Aclose
    <3>. QED BY <2>2, <3>1, CloserMovesInv DEF CloserCloses, audioLeft
  <2>3. CASE FlushPartialTurn(c)
    BY <2>3, CloserMovesInv DEF FlushPartialTurn, audioLeft
  <2>4. CASE CloseSockets(c)
    BY <2>4, CloserMovesInv DEF CloseSockets, audioLeft
  <2>. QED BY <1>7, <2>1, <2>2, <2>3, <2>4 DEF CloserStep
<1>8. CASE FinishCall
  <2>1. closer["run"] = "returned" /\ "run" \in Closers
    BY <1>8 DEF FinishCall, Closers
  <2>2. drained["run"] \in {"empty", "timeout"}
    BY <2>1 DEF DrainInv
  <2>3. UNCHANGED <<queued, closer, drained, stop>>
    BY <1>8 DEF FinishCall, taskVars, audioLeft
  <2>4. DrainBeforeClose'
    BY <2>1, <2>2, <2>3 DEF DrainInv, DrainBeforeClose
  <2>. QED BY <2>3, <2>4 DEF DrainInv
<1>9. CASE EnqueuePostCall
  BY <1>1, <1>9 DEF EnqueuePostCall, taskVars, audioLeft
<1>10. CASE UNCHANGED lifeVars
  BY <1>1, <1>10 DEF lifeVars, taskVars, audioLeft
<1>. QED
  BY <1>2, <1>3, <1>4, <1>5, <1>6, <1>7, <1>8, <1>9, <1>10 DEF LifeNext, HandlerStep, Closers

\* Whoever closes the sockets, frames are left in the queue only after a drain
\* that timed out (bridge.py:186-199).
THEOREM SocketsCloseDrained == LifeSpec => []DrainBeforeClose
<1>1. DrainInv => DrainBeforeClose
  BY DEF DrainInv
<1>. QED BY <1>1, DrainInitInv, DrainStepInv, PTL DEF LifeSpec

-----------------------------------------------------------------------------
(* No turn forgotten *)

\* A turn the agent began is stored, lost with its insert, or still in a hand;
\* and once a closer has taken the partial text, no new turn begins, because
\* every closer sets the stop flag before it drains.
AccountInv ==
  /\ LifeTypeOK
  /\ \A c \in Closers : closer[c] # "idle" => stop
  /\ \A c \in Closers : closer[c] \in {"flush", "sockets", "returned"} => closed
  /\ closed => stop /\ partial = 0
  /\ call # "live" => closer["run"] = "returned"
  /\ \A c \in Closers : flushing[c] # 0 => closer[c] = "flush"
  /\ \A t \in 1..begun : rows[t] > 0 \/ t \in lost \/ InHand(t)

LEMMA AccountInitInv == LifeInit => AccountInv
<1>. SUFFICES ASSUME LifeInit PROVE AccountInv
  OBVIOUS
<1>1. LifeTypeOK
  <2>1. rows \in [Turns -> Nat] /\ flushing \in [Closers -> 0..MaxTurns]
    BY LifecycleAssumption DEF LifeInit
  <2>2. closer \in [Closers -> {"idle", "drain", "cancel", "close", "flush", "sockets", "returned"}]
        /\ pump \in [Pumps -> {"running", "done", "cancelled"}]
    BY DEF LifeInit
  <2>3. /\ storing \in 0..MaxTurns /\ partial \in 0..MaxTurns /\ queued \in 0..MaxQueue
        /\ begun \in 0..MaxTurns
    BY LifecycleAssumption DEF LifeInit
  <2>. QED BY <2>1, <2>2, <2>3 DEF LifeInit, LifeTypeOK
<1>2. \A t \in 1..begun : rows[t] > 0 \/ t \in lost \/ InHand(t)
  BY DEF LifeInit
<1>. QED BY <1>1, <1>2 DEF LifeInit, AccountInv, Closers

\* The parts of AccountInv that a step of a pump leaves alone.
LEMMA PumpAccountInv ==
  ASSUME AccountInv, LifeTypeOK', UNCHANGED <<closed, closer, flushing, call>>,
         stop' = stop \/ stop' = TRUE, partial' = 0 \/ partial' = partial \/ ~stop,
         \A t \in 1..begun' : rows'[t] > 0 \/ t \in lost' \/ InHand(t)'
  PROVE  AccountInv'
BY DEF AccountInv

\* A turn that is stored or lost leaves the hand it was in.
LEMMA StoreAccounts ==
  ASSUME AccountInv, UNCHANGED begun, NEW t,
         \/ t # 0 /\ Store(t) /\ UNCHANGED lost
         \/ UNCHANGED rows /\ lost' = IF t = 0 THEN lost ELSE lost \cup {t},
         \A u \in 1..begun : InHand(u) => InHand(u)' \/ u = t
  PROVE  \A u \in 1..begun' : rows'[u] > 0 \/ u \in lost' \/ InHand(u)'
<1>. SUFFICES ASSUME NEW u \in 1..begun
              PROVE  rows'[u] > 0 \/ u \in lost' \/ InHand(u)'
  OBVIOUS
<1>1. u \in Turns /\ rows[u] \in Nat /\ DOMAIN rows = Turns /\ u # 0
  BY LifecycleAssumption DEF AccountInv, LifeTypeOK, Turns
<1>2. CASE t # 0 /\ Store(t) /\ UNCHANGED lost
  BY <1>1, <1>2 DEF AccountInv, Store
<1>3. CASE UNCHANGED rows /\ lost' = IF t = 0 THEN lost ELSE lost \cup {t}
  BY <1>1, <1>3 DEF AccountInv
<1>. QED BY <1>2, <1>3

\* The pumps: a turn begins only before the stop flag, and goes from hand to
\* hand until it is stored or its insert fails (bridge.py:356-363, 549).
LEMMA PumpsAccount ==
  ASSUME AccountInv,
         \/ SendAudio \/ TranscriptDelta \/ TranscriptDone \/ TurnStored \/ PumpOutbound \/ TwilioStalls
         \/ \E p \in Pumps : StoppingPumpEnds(p) \/ PumpFails(p) \/ PumpSeesStop(p)
  PROVE  AccountInv'
<1>1. CASE TranscriptDelta
  <2>1. begun' = begun + 1 /\ partial' = begun + 1 /\ partial = 0 /\ ~stop /\ begun < MaxTurns
        /\ UNCHANGED <<storing, flushing, rows, lost>>
    BY <1>1 DEF TranscriptDelta, OpenaiReads
  <2>2. LifeTypeOK'
    BY <1>1, <2>1, LifecycleAssumption DEF TranscriptDelta, AccountInv, LifeTypeOK, taskVars, audioLeft
  <2>3. \A t \in 1..begun' : rows'[t] > 0 \/ t \in lost' \/ InHand(t)'
    BY <2>1 DEF AccountInv, LifeTypeOK, InHand
  <2>. QED BY <1>1, <2>1, <2>2, <2>3, PumpAccountInv DEF TranscriptDelta, taskVars
<1>2. CASE TranscriptDone
  <2>1. storing = 0 /\ partial' = 0 /\ storing' = partial /\ UNCHANGED <<flushing, begun, rows, lost>>
    BY <1>2 DEF TranscriptDone, OpenaiReads
  <2>2. LifeTypeOK'
    BY <1>2, <2>1, LifecycleAssumption DEF TranscriptDone, AccountInv, LifeTypeOK, taskVars, audioLeft
  <2>3. \A t \in 1..begun' : rows'[t] > 0 \/ t \in lost' \/ InHand(t)'
    BY <2>1 DEF AccountInv, LifeTypeOK, InHand
  <2>. QED BY <1>2, <2>1, <2>2, <2>3, PumpAccountInv DEF TranscriptDone, taskVars
<1>3. CASE TurnStored
  <2>1. /\ storing # 0 /\ storing' = 0 /\ UNCHANGED <<begun, partial, flushing, stop, closed, closer, call>>
        /\ \/ Store(storing) /\ UNCHANGED <<pump, lost>>
           \/ lost' = lost \cup {storing} /\ PumpEnds("openai") /\ UNCHANGED rows
    BY <1>3 DEF TurnStored
  <2>2. storing \in Turns
    BY <2>1, LifecycleAssumption DEF AccountInv, LifeTypeOK, Turns
  <2>3. LifeTypeOK'
    <3>1. pump' \in [Pumps -> {"running", "done", "cancelled"}]
      BY <2>1 DEF PumpEnds, AccountInv, LifeTypeOK
    <3>2. rows' \in [Turns -> Nat] /\ lost' \subseteq Turns
      <4>1. rows \in [Turns -> Nat] /\ lost \subseteq Turns
        BY DEF AccountInv, LifeTypeOK
      <4>2. CASE Store(storing) /\ UNCHANGED lost
        BY <2>2, <4>1, <4>2 DEF Store
      <4>3. CASE lost' = lost \cup {storing} /\ UNCHANGED rows
        BY <2>2, <4>1, <4>3
      <4>. QED BY <2>1, <4>2, <4>3
    <3>. QED BY <1>3, <2>1, <3>1, <3>2, LifecycleAssumption
             DEF TurnStored, AccountInv, LifeTypeOK, audioLeft
  <2>4. \A t \in 1..begun' : rows'[t] > 0 \/ t \in lost' \/ InHand(t)'
    BY <2>1, StoreAccounts DEF InHand
  <2>. QED BY <2>1, <2>3, <2>4, PumpAccountInv
<1>4. CASE \/ SendAudio \/ PumpOutbound \/ TwilioStalls
           \/ \E p \in Pumps : StoppingPumpEnds(p) \/ PumpFails(p) \/ PumpSeesStop(p)
  <2>1. UNCHANGED <<turnVars, closed, closer, call, sockets>> /\ (stop' = stop \/ stop' = TRUE)
    BY <1>4 DEF SendAudio, PumpOutbound, TwilioStalls, StoppingPumpEnds, PumpFails, PumpSeesStop, taskVars
  <2>2. queued' \in 0..MaxQueue /\ stalled' \in BOOLEAN
    <3>1. queued \in 0..MaxQueue /\ MaxQueue \in Nat /\ stalled \in BOOLEAN
      BY LifecycleAssumption DEF AccountInv, LifeTypeOK
    <3>2. CASE SendAudio
      BY <3>1, <3>2 DEF SendAudio
    <3>3. CASE PumpOutbound
      BY <3>1, <3>3 DEF PumpOutbound
    <3>4. CASE \/ TwilioStalls
               \/ \E p \in Pumps : StoppingPumpEnds(p) \/ PumpFails(p) \/ PumpSeesStop(p)
      BY <3>1, <3>4 DEF TwilioStalls, StoppingPumpEnds, PumpFails, PumpSeesStop, audioLeft
    <3>. QED BY <1>4, <3>2, <3>3, <3>4
  <2>3. pump' \in [Pumps -> {"running", "done", "cancelled"}]
    BY <1>4 DEF SendAudio, PumpOutbound, TwilioStalls, StoppingPumpEnds, PumpFails, PumpSeesStop,
                PumpEnds, taskVars, AccountInv, LifeTypeOK
  <2>4. LifeTypeOK'
    BY <2>1, <2>2, <2>3 DEF AccountInv, LifeTypeOK, turnVars
  <2>5. \A t \in 1..begun' : rows'[t] > 0 \/ t \in lost' \/ InHand(t)'
    BY <2>1 DEF AccountInv, InHand, turnVars
  <2>. QED BY <2>1, <2>4, <2>5, PumpAccountInv DEF turnVars
<1>. QED BY <1>1, <1>2, <1>3, <1>4

\* A closer moves only forward, and behind its own drain the flag is set.
LEMMA GoesFacts ==
  ASSUME AccountInv, NEW c \in Closers, NEW from, NEW to, Goes(c, from, to),
         to \in {"idle", "drain", "cancel", "close", "flush", "sockets", "returned"}
  PROVE  /\ closer' \in [Closers -> {"idle", "drain", "cancel", "close", "flush", "sockets", "returned"}]
         /\ closer[c] = from /\ closer'[c] = to
         /\ \A e \in Closers : e # c => closer'[e] = closer[e]
BY DEF Goes, AccountInv, LifeTypeOK

\* Drains and the cancellation of the pumps come before the flag is claimed; a
\* turn whose insert is cut off is stored or lost (bridge.py:181-199, 239-243).
LEMMA DrainsAccount ==
  ASSUME AccountInv, RunWakes \/ ShutdownBegins \/ RunCancels \/ \E c \in Closers : Drain(c)
  PROVE  AccountInv'
<1>0. call # "live" => closer["run"] = "returned"
  BY DEF AccountInv
<1>1. CASE RunWakes \/ ShutdownBegins \/ \E c \in Closers : Drain(c)
  <2>1. PICK c \in Closers, from \in {"idle", "drain"}, to \in {"drain", "cancel", "close"} :
          /\ Goes(c, from, to)
          /\ stop' = TRUE \/ (from # "idle" /\ UNCHANGED stop)
    BY <1>1 DEF RunWakes, ShutdownBegins, Drain, Closers
  <2>2. UNCHANGED <<closed, pump, turnVars, queued, stalled, sockets, call>>
    BY <1>1 DEF RunWakes, ShutdownBegins, Drain, audioLeft
  <2>3. LifeTypeOK'
    BY <2>1, <2>2, GoesFacts DEF AccountInv, LifeTypeOK, turnVars
  <2>4. stop'
    BY <2>1, <2>2, GoesFacts DEF AccountInv
  <2>5. \A t \in 1..begun' : rows'[t] > 0 \/ t \in lost' \/ InHand(t)'
    BY <2>2 DEF AccountInv, InHand, turnVars
  <2>6. \A e \in Closers : closer'[e] \in {"flush", "sockets", "returned"} => closed'
    BY <2>1, <2>2, GoesFacts DEF AccountInv
  <2>7. call' # "live" => closer'["run"] = "returned"
    BY <1>0, <2>1, <2>2, GoesFacts DEF Closers
  <2>8. \A e \in Closers : flushing'[e] # 0 => closer'[e] = "flush"
    BY <2>1, <2>2, GoesFacts DEF AccountInv, turnVars
  <2>. QED BY <2>2, <2>3, <2>4, <2>5, <2>6, <2>7, <2>8 DEF AccountInv, turnVars
<1>2. CASE RunCancels
  <2>1. /\ Goes("run", "cancel", "close") /\ "run" \in Closers /\ storing' = 0
        /\ UNCHANGED <<stop, closed, partial, flushing, begun, audioLeft, sockets, call>>
        /\ \/ storing # 0 /\ Store(storing) /\ UNCHANGED lost
           \/ UNCHANGED rows /\ lost' = IF storing = 0 THEN lost ELSE lost \cup {storing}
    BY <1>2 DEF RunCancels, Closers
  <2>2. storing # 0 => storing \in Turns
    BY LifecycleAssumption DEF AccountInv, LifeTypeOK, Turns
  <2>3. pump' \in [Pumps -> {"running", "done", "cancelled"}]
    BY <1>2 DEF RunCancels, AccountInv, LifeTypeOK
  <2>4. rows' \in [Turns -> Nat] /\ lost' \subseteq Turns
    BY <2>1, <2>2 DEF Store, AccountInv, LifeTypeOK
  <2>5. LifeTypeOK'
    BY <2>1, <2>3, <2>4, GoesFacts, LifecycleAssumption DEF AccountInv, LifeTypeOK, audioLeft
  <2>6. \A t \in 1..begun' : rows'[t] > 0 \/ t \in lost' \/ InHand(t)'
    BY <2>1, StoreAccounts DEF InHand
  <2>7. \A e \in Closers : closer'[e] \in {"flush", "sockets", "returned"} => closed'
    BY <2>1, GoesFacts DEF AccountInv
  <2>8. \A e \in Closers : closer'[e] # "idle" => stop'
    BY <2>1, GoesFacts DEF AccountInv
  <2>9. call' # "live" => closer'["run"] = "returned"
    BY <1>0, <2>1, GoesFacts
  <2>10. \A e \in Closers : flushing'[e] # 0 => closer'[e] = "flush"
    BY <2>1, GoesFacts DEF AccountInv
  <2>. QED BY <2>1, <2>5, <2>6, <2>7, <2>8, <2>9, <2>10 DEF AccountInv
<1>. QED BY <1>1, <1>2

\* The closer that claims the flag has the partial text in hand, and flushes it
\* before it closes (bridge.py:213-237, 245-260).
LEMMA ClosesAccount ==
  ASSUME AccountInv, NEW c \in Closers, CloserCloses(c) \/ FlushPartialTurn(c) \/ CloseSockets(c)
  PROVE  AccountInv'
<1>0. PICK from \in {"close", "flush", "sockets"}, to \in {"flush", "sockets", "returned"} :
        /\ Goes(c, from, to)
        /\ from = "close" => closed'
  BY DEF CloserCloses, Aclose, FlushPartialTurn, CloseSockets
<1>1. /\ UNCHANGED <<stop, pump, storing, begun, audioLeft, call>>
      /\ sockets' \in {sockets, "closed"} /\ (closed => closed') /\ partial' \in {partial, 0}
      /\ closed' => closed \/ partial' = 0
  <2>1. CASE CloserCloses(c)
    BY <2>1 DEF CloserCloses, Aclose
  <2>2. CASE FlushPartialTurn(c)
    BY <2>2 DEF FlushPartialTurn
  <2>3. CASE CloseSockets(c)
    BY <2>3 DEF CloseSockets, turnVars
  <2>. QED BY <2>1, <2>2, <2>3
<1>2. /\ closer' \in [Closers -> {"idle", "drain", "cancel", "close", "flush", "sockets", "returned"}]
      /\ closer[c] = from /\ closer'[c] = to /\ \A e \in Closers : e # c => closer'[e] = closer[e]
  BY <1>0, GoesFacts
<1>3. from = "close" \/ closed
  BY <1>2 DEF AccountInv
<1>4. /\ flushing' \in [Closers -> 0..MaxTurns] /\ rows' \in [Turns -> Nat] /\ lost' \subseteq Turns
      /\ \A e \in Closers : flushing'[e] # 0 => closer'[e] = "flush"
      /\ \A t \in 1..begun' : rows'[t] > 0 \/ t \in lost' \/ InHand(t)'
  <2>1. CASE CloserCloses(c)
    <3>1. UNCHANGED <<begun, storing, rows, lost>>
      BY <2>1 DEF CloserCloses
    <3>2. closer[c] = "close" /\ flushing[c] = 0
      BY <2>1 DEF CloserCloses, Aclose, Goes, AccountInv
    <3>3. CASE UNCHANGED <<partial, flushing>>
      <4>1. \A t : InHand(t)' <=> InHand(t)
        BY <3>1, <3>3 DEF InHand
      <4>. QED BY <1>2, <3>1, <3>2, <3>3, <4>1 DEF AccountInv, LifeTypeOK
    <3>4. CASE partial' = 0 /\ flushing' = [flushing EXCEPT ![c] = partial] /\ closer'[c] = "flush"
      <4>1. flushing' \in [Closers -> 0..MaxTurns] /\ flushing'[c] = partial
            /\ \A e \in Closers : e # c => flushing'[e] = flushing[e]
        BY <3>4 DEF AccountInv, LifeTypeOK
      <4>2. \A t \in 1..begun : InHand(t) => InHand(t)'
        BY <3>1, <3>2, <4>1 DEF InHand
      <4>. QED BY <1>2, <3>1, <3>4, <4>1, <4>2 DEF AccountInv, LifeTypeOK
    <3>5. closer'[c] = "flush" \/ UNCHANGED <<partial, flushing>>
      BY <2>1, GoesFacts DEF CloserCloses, Aclose
    <3>. QED BY <2>1, <3>3, <3>4, <3>5 DEF CloserCloses, Aclose
  <2>2. CASE FlushPartialTurn(c)
    <3>1. /\ flushing' = [flushing EXCEPT ![c] = 0] /\ UNCHANGED <<storing, partial, begun>>
          /\ \/ flushing[c] # 0 /\ Store(flushing[c]) /\ UNCHANGED lost
             \/ UNCHANGED rows /\ lost' = IF flushing[c] = 0 THEN lost ELSE lost \cup {flushing[c]}
      BY <2>2 DEF FlushPartialTurn
    <3>2. /\ flushing' \in [Closers -> 0..MaxTurns] /\ flushing'[c] = 0
          /\ \A e \in Closers : e # c => flushing'[e] = flushing[e]
          /\ flushing[c] # 0 => flushing[c] \in Turns
      BY <3>1, LifecycleAssumption DEF AccountInv, LifeTypeOK, Turns
    <3>3. rows' \in [Turns -> Nat] /\ lost' \subseteq Turns
      BY <3>1, <3>2 DEF Store, AccountInv, LifeTypeOK
    <3>4. \A u \in 1..begun : InHand(u) => InHand(u)' \/ u = flushing[c]
      BY <3>1, <3>2 DEF InHand
    <3>5. \A t \in 1..begun' : rows'[t] > 0 \/ t \in lost' \/ InHand(t)'
      BY <3>1, <3>4, StoreAccounts
    <3>. QED BY <1>2, <3>2, <3>3, <3>5 DEF AccountInv
  <2>3. CASE CloseSockets(c)
    <3>1. UNCHANGED <<storing, partial, flushing, begun, rows, lost>> /\ closer[c] = "sockets"
      BY <2>3 DEF CloseSockets, Goes, turnVars
    <3>. QED BY <1>2, <3>1 DEF AccountInv, LifeTypeOK, InHand
  <2>. QED BY <2>1, <2>2, <2>3
<1>5. LifeTypeOK'
  <2>1. partial' \in 0..MaxTurns /\ closed' \in BOOLEAN /\ sockets' \in {"open", "closed"}
    <3>1. closed' \in BOOLEAN
      BY DEF CloserCloses, Aclose, FlushPartialTurn, CloseSockets, AccountInv, LifeTypeOK
    <3>. QED BY <1>1, <3>1, LifecycleAssumption DEF AccountInv, LifeTypeOK
  <2>. QED BY <1>1, <1>2, <1>4, <2>1 DEF AccountInv, LifeTypeOK, audioLeft
<1>6. /\ \A e \in Closers : closer'[e] # "idle" => stop'
      /\ \A e \in Closers : closer'[e] \in {"flush", "sockets", "returned"} => closed'
      /\ closed' => stop' /\ partial' = 0
  <2>1. stop /\ UNCHANGED stop
    BY <1>1, <1>2 DEF AccountInv
  <2>2. closed' /\ (closed => closed')
    BY <1>0, <1>1, <1>3
  <2>3. partial' = 0
    BY <1>1, <2>2 DEF AccountInv
  <2>. QED BY <2>1, <2>2, <2>3
<1>7. call' # "live" => closer'["run"] = "returned"
  BY <1>1, <1>2 DEF AccountInv, Closers
<1>. QED BY <1>4, <1>5, <1>6, <1>7 DEF AccountInv

\* Every step keeps the invariant.
LEMMA AccountStepInv == AccountInv /\ [LifeNext]_lifeVars => AccountInv'
<1>. SUFFICES ASSUME AccountInv, [LifeNext]_lifeVars PROVE AccountInv'
  OBVIOUS
<1>1. CASE FinishCall \/ EnqueuePostCall \/ UNCHANGED lifeVars
  <2>1. UNCHANGED <<taskVars, turnVars, queued, stalled>> /\ sockets' \in {sockets, "closed"}
    BY <1>1 DEF FinishCall, EnqueuePostCall, lifeVars, audioLeft
  <2>2. /\ call' \in {"live", "finalised", "handed_off", "unfinished"}
        /\ call' # "live" => closer["run"] = "returned"
    BY <1>1 DEF FinishCall, EnqueuePostCall, lifeVars, AccountInv, LifeTypeOK
  <2>3. LifeTypeOK'
    BY <2>1, <2>2 DEF AccountInv, LifeTypeOK, taskVars, turnVars
  <2>. QED BY <2>1, <2>2, <2>3 DEF AccountInv, InHand, taskVars, turnVars
<1>. QED BY <1>1, PumpsAccount, DrainsAccount, ClosesAccount DEF LifeNext, HandlerStep, CloserStep, Closers

\* Types, and every turn of a call that is over is stored or was lost with its
\* own insert: in whatever order run(), shutdown() and the pumps get there, no
\* text is dropped (bridge.py:245-260).
THEOREM TurnsAreAccounted == LifeSpec => []TurnsAccounted
<1>1. TurnInv /\ AccountInv => TurnsAccounted
  <2>. SUFFICES ASSUME TurnInv, AccountInv, Settled, NEW t \in 1..begun
                PROVE  rows[t] = 1 \/ t \in lost
    BY DEF TurnsAccounted, NoTurnForgotten, AccountInv
  <2>1. closer["run"] = "returned" /\ "run" \in Closers
    BY DEF AccountInv, Settled, Over, Closers
  <2>2. partial = 0
    BY <2>1 DEF AccountInv
  <2>3. ~InHand(t)
    BY <2>2 DEF InHand, Settled
  <2>4. t \in Turns
    BY LifecycleAssumption DEF AccountInv, LifeTypeOK, Turns
  <2>. QED BY <2>3, <2>4 DEF AccountInv, TurnInv
<1>. QED BY <1>1, TurnInitInv, TurnStepInv, AccountInitInv, AccountStepInv, PTL DEF LifeSpec

=============================================================================
