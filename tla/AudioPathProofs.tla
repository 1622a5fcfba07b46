--------------------------- MODULE AudioPathProofs ---------------------------
(***************************************************************************)
(* For every queue capacity, set of items and number of frames: the queue's*)
(* join counter is exact, frames keep their order, a barge-in silences     *)
(* what was queued, no item is truncated twice, and the three pumps        *)
(* together implement the ledger's specification, so that what is proved   *)
(* of LedgerSpec holds of a call.                                          *)
(***************************************************************************)
EXTENDS AudioPath, TLAPS

-----------------------------------------------------------------------------
(* The ledger alone: its baselines are consistent for every set of items,  *)
(* marks and chunk sizes, whatever order its methods are called in.         *)

\* Type correctness and the two invariants are inductive only together: that
\* an ack leaves every remaining mark above the played count needs the prune,
\* and that the last mark survives the prune needs the watermarks.
LedgerInv == LedgerTypeOK /\ WatermarksConsistent /\ DroppedAckHeals

\* The empty ledger of a new call satisfies the invariant
\* (playback_ledger.py:48-54).
LEMMA LedgerInitInv == LedgerInit => LedgerInv
  BY LedgerAssumption DEF LedgerInit, LedgerInv, LedgerTypeOK, WatermarksConsistent,
     DroppedAckHeals

\* Handing a chunk to Twilio keeps the invariant (playback_ledger.py:57-60).
LEMMA ChunkSentInv ==
  ASSUME LedgerInv, NEW m \in MarkNames, NEW b \in ChunkSizes, OnChunkSent(m, b)
  PROVE  LedgerInv'
<1>. USE LedgerAssumption DEF LedgerInv, OnChunkSent
<1>1. /\ DOMAIN marks' = DOMAIN marks \cup {m}
      /\ \A n \in DOMAIN marks' : marks'[n] = IF n = m THEN queuedBytes' ELSE marks[n]
      /\ b \in Nat /\ b > 0
  OBVIOUS
<1>2. LedgerTypeOK'
  BY <1>1 DEF LedgerTypeOK
<1>3. WatermarksConsistent'
  BY <1>1 DEF LedgerTypeOK, WatermarksConsistent
<1>4. DroppedAckHeals'
  BY <1>1 DEF LedgerTypeOK, DroppedAckHeals
<1>. QED BY <1>2, <1>3, <1>4

\* An ack of any name, known or not, keeps the invariant
\* (playback_ledger.py:62-82).
LEMMA MarkAckInv ==
  ASSUME LedgerInv, NEW m, OnMarkAck(m)
  PROVE  LedgerInv'
<1>. USE DEF LedgerInv
<1>1. CASE m \notin DOMAIN marks
  <2>1. UNCHANGED ledgerVars
    BY <1>1 DEF OnMarkAck
  <2>. QED BY <2>1 DEF ledgerVars, LedgerTypeOK, WatermarksConsistent, DroppedAckHeals
<1>2. CASE m \in DOMAIN marks
  <2>1. /\ playedBytes' = IF marks[m] > playedBytes THEN marks[m] ELSE playedBytes
        /\ marks' = Prune(Pop(marks, m), playedBytes')
        /\ UNCHANGED <<queuedBytes, currentItemId, itemStartOffset>>
    BY <1>2 DEF OnMarkAck
  <2>2. /\ DOMAIN marks' = {n \in DOMAIN marks \ {m} : marks[n] > playedBytes'}
        /\ \A n \in DOMAIN marks' : marks'[n] = marks[n]
        /\ marks' = [n \in DOMAIN marks' |-> marks'[n]]
    BY <2>1 DEF Prune, Pop
  <2>3. playedBytes' = marks[m] /\ playedBytes' \in Nat /\ playedBytes' <= queuedBytes
    BY <1>2, <2>1 DEF LedgerTypeOK, WatermarksConsistent
  <2>4. LedgerTypeOK'
    BY <2>1, <2>2, <2>3 DEF LedgerTypeOK
  <2>5. WatermarksConsistent'
    BY <2>1, <2>2, <2>3 DEF LedgerTypeOK, WatermarksConsistent
  <2>6. DroppedAckHeals'
    <3>. SUFFICES ASSUME playedBytes' < queuedBytes'
                  PROVE  \E n \in DOMAIN marks' : marks'[n] = queuedBytes'
      BY DEF DroppedAckHeals
    <3>1. playedBytes < queuedBytes
      BY <1>2, <2>1, <2>3 DEF LedgerTypeOK, WatermarksConsistent
    <3>2. PICK n \in DOMAIN marks : marks[n] = queuedBytes
      BY <3>1 DEF DroppedAckHeals
    <3>3. n # m /\ marks[n] > playedBytes'
      BY <3>2, <2>1, <2>3 DEF LedgerTypeOK
    <3>. QED BY <3>2, <3>3, <2>1, <2>2
  <2>. QED BY <2>4, <2>5, <2>6
<1>. QED BY <1>1, <1>2

\* A new item behind the queued audio, and the reset after a flush, keep the
\* invariant (playback_ledger.py:85-102).
LEMMA ItemBoundaryInv ==
  ASSUME LedgerInv,
         (\E i \in ItemIds : OnItemStarted(i)) \/ BeginNewItem(NoItem)
  PROVE  LedgerInv'
<1>. USE DEF LedgerInv, LedgerTypeOK, WatermarksConsistent, DroppedAckHeals
<1>1. CASE \E i \in ItemIds : OnItemStarted(i)
  BY <1>1 DEF OnItemStarted
<1>2. CASE BeginNewItem(NoItem)
  BY <1>2 DEF BeginNewItem
<1>. QED BY <1>1, <1>2

\* One step of the ledger keeps the invariant.
LEMMA LedgerStepInv == LedgerInv /\ [LedgerNext]_ledgerVars => LedgerInv'
<1>. SUFFICES ASSUME LedgerInv, [LedgerNext]_ledgerVars PROVE LedgerInv'
  OBVIOUS
<1>1. CASE \E m \in MarkNames, b \in ChunkSizes : OnChunkSent(m, b)
  BY <1>1, ChunkSentInv
<1>2. CASE \E m \in MarkNames : OnMarkAck(m)
  BY <1>2, MarkAckInv
<1>3. CASE (\E i \in ItemIds : OnItemStarted(i)) \/ BeginNewItem(NoItem)
  BY <1>3, ItemBoundaryInv
<1>4. CASE UNCHANGED ledgerVars
  BY <1>4 DEF ledgerVars, LedgerInv, LedgerTypeOK, WatermarksConsistent, DroppedAckHeals
<1>. QED BY <1>1, <1>2, <1>3, <1>4 DEF LedgerNext

\* In every order of chunks, acks, item changes and flushes the ledger's
\* baselines stay consistent and a dropped ack heals
\* (playback_ledger.py:57-102).
THEOREM LedgerCorrect == LedgerSpec => [](LedgerTypeOK /\ LedgerSound)
<1>1. LedgerInv => LedgerTypeOK /\ LedgerSound
  BY DEF LedgerInv, LedgerSound
<1>. QED BY <1>1, LedgerInitInv, LedgerStepInv, PTL DEF LedgerSpec

\* No call of any ledger method decreases the played count
\* (playback_ledger.py:66-67).
THEOREM LedgerNeverRewinds == LedgerSpec => PlayedNeverRewinds
<1>1. LedgerInv /\ [LedgerNext]_ledgerVars => [playedBytes' >= playedBytes]_ledgerVars
  <2>. SUFFICES ASSUME LedgerInv, [LedgerNext]_ledgerVars
                PROVE  playedBytes' >= playedBytes
    OBVIOUS
  <2>. USE DEF LedgerInv, LedgerTypeOK
  <2>1. ASSUME NEW m \in MarkNames, OnMarkAck(m) PROVE playedBytes' >= playedBytes
    BY <2>1 DEF OnMarkAck, ledgerVars
  <2>2. CASE UNCHANGED playedBytes
    BY <2>2
  <2>. QED BY <2>1, <2>2 DEF LedgerNext, OnChunkSent, OnItemStarted, BeginNewItem, ledgerVars
<1>. QED BY <1>1, LedgerInitInv, LedgerStepInv, PTL DEF LedgerSpec, PlayedNeverRewinds

-----------------------------------------------------------------------------
(* The invariant *)

QueueTypeOK ==
  /\ markSeq \in 0..MaxFrames
  /\ outbound \in Seq(Frames)
  /\ unfinished \in Int
  /\ pumpAt \in {"get", "media", "mark"}
  /\ inFlight \in Frames \cup {NoFrame}
  /\ pumpAt # "get" => inFlight \in Frames

\* WireOrder and SpeechCutSilences compare a new frame with the last one the
\* pump took and with the last cut, so both must be no newer than markSeq.
CounterBounds ==
  /\ inFlight.mark <= markSeq
  /\ lastCut \in [Causes -> -1..MaxFrames]
  /\ lastCut["speech"] <= markSeq

QueueInv == QueueTypeOK /\ CounterBounds /\ JoinCounterExact /\ WireOrder /\ SpeechCutSilences

LEMMA AudioConstants ==
  /\ OutboundQueueMax \in Nat \ {0}
  /\ MaxFrames \in Nat
  /\ MarkNames = 1..MaxFrames
  /\ ChunkSizes \subseteq Nat \ {0}
  /\ NoItem \notin ItemIds
  BY AudioAssumption, LedgerAssumption

\* Marks in the queue and in the pump's hands are numbers.
LEMMA MarksAreNumbers ==
  ASSUME QueueTypeOK
  PROVE  /\ \A k \in DOMAIN outbound : outbound[k] \in Frames /\ outbound[k].mark \in Nat
         /\ inFlight.mark \in Nat
         /\ \A f \in Frames : f.mark \in 1..MaxFrames
<1>1. \A f \in Frames : f.mark \in 1..MaxFrames /\ f.mark \in Nat
  BY AudioConstants DEF Frames
<1>2. \A k \in DOMAIN outbound : outbound[k] \in Frames
  BY DEF QueueTypeOK
<1>. QED BY <1>1, <1>2 DEF QueueTypeOK, NoFrame

\* A call that has just begun satisfies the queue's invariant
\* (bridge.py:158-166).
LEMMA QueueInitInv == AudioInit => QueueInv
  BY AudioConstants
  DEF AudioInit, QueueInv, QueueTypeOK, CounterBounds, JoinCounterExact, WireOrder,
      SpeechCutSilences, NoFrame, Causes

\* Queueing a delta, with or without losing the oldest frame, keeps it
\* (bridge.py:396-415).
LEMMA SendAudioInv ==
  ASSUME QueueInv, NEW i \in ItemIds, NEW b \in ChunkSizes, SendAudio(i, b)
  PROVE  QueueInv'
<1>. DEFINE frame == [mark |-> markSeq + 1, bytes |-> b, item |-> i]
<1>1. frame \in Frames /\ frame.mark = markSeq + 1 /\ markSeq' = markSeq + 1
  BY AudioConstants DEF SendAudio, Frames, QueueInv, QueueTypeOK
<1>2. UNCHANGED <<pumpAt, inFlight, lastCut>>
  BY DEF SendAudio, pumpVars, cutVars
<1>. HIDE DEF frame
<1>3. \E lost \in {0, 1} :
        /\ outbound' \in Seq(Frames)
        /\ Len(outbound') = Len(outbound) + 1 - lost
        /\ Len(outbound') \in 1..OutboundQueueMax
        /\ unfinished' = unfinished + 1 - lost
        /\ outbound'[Len(outbound')] = frame
        /\ \A k \in 1..(Len(outbound') - 1) :
              k + lost \in DOMAIN outbound /\ outbound'[k] = outbound[k + lost]
  <2>1. CASE /\ Len(outbound) < OutboundQueueMax
             /\ outbound' = Append(outbound, frame)
             /\ unfinished' = unfinished + 1
    <3>. WITNESS 0 \in {0, 1}
    <3>. QED BY <1>1, <2>1, AudioConstants DEF QueueInv, QueueTypeOK
  <2>2. CASE /\ Len(outbound) = OutboundQueueMax
             /\ outbound' = Append(Tail(outbound), frame)
             /\ unfinished' = (unfinished - 1) + 1
    <3>1. /\ Tail(outbound) \in Seq(Frames) /\ Len(Tail(outbound)) = Len(outbound) - 1
          /\ \A k \in 1..(Len(outbound) - 1) : Tail(outbound)[k] = outbound[k + 1]
      BY <2>2, AudioConstants DEF QueueInv, QueueTypeOK
    <3>. WITNESS 1 \in {0, 1}
    <3>. QED BY <1>1, <2>2, <3>1, AudioConstants DEF QueueInv, QueueTypeOK
  <2>. QED BY <2>1, <2>2 DEF SendAudio, frame
<1>4. PICK lost \in {0, 1} :
        /\ outbound' \in Seq(Frames)
        /\ Len(outbound') = Len(outbound) + 1 - lost
        /\ Len(outbound') \in 1..OutboundQueueMax
        /\ unfinished' = unfinished + 1 - lost
        /\ outbound'[Len(outbound')] = frame
        /\ \A k \in 1..(Len(outbound') - 1) :
              k + lost \in DOMAIN outbound /\ outbound'[k] = outbound[k + lost]
  BY <1>3
<1>5. /\ \A j, k \in DOMAIN outbound : j < k => outbound[j].mark < outbound[k].mark
      /\ \A k \in DOMAIN outbound :
           /\ outbound[k].mark \in Nat /\ inFlight.mark < outbound[k].mark
           /\ outbound[k].mark <= markSeq /\ outbound[k].mark > lastCut["speech"]
      /\ markSeq \in Nat /\ inFlight.mark \in Nat /\ inFlight.mark <= markSeq
      /\ lastCut["speech"] \in Int /\ lastCut["speech"] <= markSeq
  BY AudioConstants, MarksAreNumbers
  DEF QueueInv, QueueTypeOK, CounterBounds, WireOrder, SpeechCutSilences, Causes
<1>6. QueueTypeOK'
  <2>1. markSeq' \in 0..MaxFrames
    BY <1>1, <1>5, AudioConstants, MarksAreNumbers DEF QueueInv
  <2>. QED BY <1>2, <1>4, <2>1 DEF QueueInv, QueueTypeOK
<1>7. CounterBounds'
  BY <1>1, <1>2, <1>5 DEF QueueInv, CounterBounds
<1>8. JoinCounterExact'
  BY <1>2, <1>4, AudioConstants DEF QueueInv, QueueTypeOK, JoinCounterExact
<1>9. ASSUME NEW k \in DOMAIN outbound'
      PROVE  \/ k = Len(outbound') /\ outbound'[k].mark = markSeq + 1
             \/ /\ k < Len(outbound') /\ k + lost \in DOMAIN outbound
                /\ outbound'[k].mark = outbound[k + lost].mark
  <2>1. k \in 1..Len(outbound')
    BY <1>4
  <2>. QED BY <1>1, <1>4, <2>1
<1>10. WireOrder'
  <2>1. ASSUME NEW j \in DOMAIN outbound', NEW k \in DOMAIN outbound', j < k
        PROVE  outbound'[j].mark < outbound'[k].mark
    <3>0. j \in Int /\ k \in Int /\ k <= Len(outbound') /\ Len(outbound') \in Int
      BY <1>4
    <3>1. j + lost \in DOMAIN outbound /\ outbound'[j].mark = outbound[j + lost].mark
      BY <1>9, <2>1, <3>0
    <3>2. CASE outbound'[k].mark = markSeq + 1
      BY <1>5, <3>1, <3>2
    <3>3. CASE k + lost \in DOMAIN outbound /\ outbound'[k].mark = outbound[k + lost].mark
      <4>1. j + lost < k + lost
        BY <2>1, <3>0
      <4>. QED BY <1>5, <3>1, <3>3, <4>1
    <3>. QED BY <1>9, <3>2, <3>3
  <2>2. ASSUME NEW k \in DOMAIN outbound'
        PROVE  inFlight'.mark < outbound'[k].mark /\ outbound'[k].mark <= markSeq'
    BY <1>1, <1>2, <1>5, <1>9
  <2>. QED BY <2>1, <2>2 DEF WireOrder
<1>11. SpeechCutSilences'
  BY <1>1, <1>2, <1>5, <1>9 DEF SpeechCutSilences
<1>. QED BY <1>6, <1>7, <1>8, <1>10, <1>11 DEF QueueInv

\* Both cuts keep it: a barge-in leaves an empty queue, a safety cut does not
\* touch it (bridge.py:455-484, 568-570).
LEMMA StartCutInv ==
  ASSUME QueueInv, OnBargeIn \/ SafetyPreempts
  PROVE  QueueInv'
<1>1. UNCHANGED <<pumpAt, inFlight, markSeq>>
  BY DEF OnBargeIn, SafetyPreempts, StartCut, DiscardQueuedAudio, pumpVars, queueVars
<1>2. CASE OnBargeIn
  <2>1. outbound' = <<>> /\ unfinished' = unfinished - Len(outbound)
    BY <1>2 DEF OnBargeIn, DiscardQueuedAudio
  <2>2. lastCut' = [lastCut EXCEPT !["speech"] = markSeq]
    BY <1>2 DEF OnBargeIn, StartCut
  <2>. QED
    BY <1>1, <2>1, <2>2, AudioConstants
    DEF QueueInv, QueueTypeOK, CounterBounds, JoinCounterExact, WireOrder, SpeechCutSilences,
        Causes
<1>3. CASE SafetyPreempts
  <2>1. UNCHANGED <<outbound, unfinished>>
    BY <1>3 DEF SafetyPreempts, queueVars
  <2>2. lastCut' = [lastCut EXCEPT !["safety"] = markSeq]
    BY <1>3 DEF SafetyPreempts, StartCut
  <2>. QED
    BY <1>1, <2>1, <2>2
    DEF QueueInv, QueueTypeOK, CounterBounds, JoinCounterExact, WireOrder, SpeechCutSilences,
        Causes
<1>. QED BY <1>2, <1>3

\* The three pieces of the outbound pump keep it (bridge.py:425-453).
LEMMA PumpInv ==
  ASSUME QueueInv, PumpMedia \/ PumpMark \/ PumpRecord
  PROVE  QueueInv'
<1>1. UNCHANGED <<markSeq, lastCut>>
  BY DEF PumpMedia, PumpMark, PumpRecord, PumpWrites, cutVars
<1>2. CASE PumpMedia
  <2>1. /\ pumpAt = "get" /\ pumpAt' = "media" /\ unfinished' = unfinished
        /\ outbound # <<>> /\ inFlight' = Head(outbound) /\ outbound' = Tail(outbound)
    BY <1>2 DEF PumpMedia, PumpWrites
  <2>2. /\ outbound' \in Seq(Frames)
        /\ Len(outbound') = Len(outbound) - 1
        /\ inFlight' \in Frames /\ inFlight' = outbound[1] /\ 1 \in DOMAIN outbound
        /\ \A k \in DOMAIN outbound' : k + 1 \in DOMAIN outbound /\ outbound'[k] = outbound[k + 1]
    BY <2>1 DEF QueueInv, QueueTypeOK
  <2>3. QueueTypeOK' /\ CounterBounds'
    <3>1. inFlight'.mark <= markSeq'
      BY <1>1, <2>2 DEF QueueInv, WireOrder
    <3>. QED BY <1>1, <2>1, <2>2, <3>1 DEF QueueInv, QueueTypeOK, CounterBounds
  <2>4. JoinCounterExact'
    BY <1>1, <2>1, <2>2, AudioConstants DEF QueueInv, QueueTypeOK, JoinCounterExact
  <2>5. WireOrder'
    <3>1. \A j, k \in DOMAIN outbound : j < k => outbound[j].mark < outbound[k].mark
      BY DEF QueueInv, WireOrder
    <3>2. ASSUME NEW j \in DOMAIN outbound', NEW k \in DOMAIN outbound', j < k
          PROVE  outbound'[j].mark < outbound'[k].mark
      <4>1. j + 1 \in DOMAIN outbound /\ k + 1 \in DOMAIN outbound /\ j + 1 < k + 1
        BY <2>2, <3>2
      <4>. QED BY <4>1, <2>2, <3>1
    <3>3. ASSUME NEW k \in DOMAIN outbound'
          PROVE  inFlight'.mark < outbound'[k].mark /\ outbound'[k].mark <= markSeq'
      <4>1. k + 1 \in DOMAIN outbound /\ 1 < k + 1
        BY <2>2
      <4>. QED BY <4>1, <2>2, <3>1, <1>1 DEF QueueInv, WireOrder
    <3>. QED BY <3>2, <3>3 DEF WireOrder
  <2>6. SpeechCutSilences'
    BY <1>1, <2>2 DEF QueueInv, SpeechCutSilences
  <2>. QED BY <2>3, <2>4, <2>5, <2>6 DEF QueueInv
<1>3. CASE PumpMark
  BY <1>1, <1>3
  DEF PumpMark, PumpWrites, QueueInv, QueueTypeOK, CounterBounds, JoinCounterExact, WireOrder,
      SpeechCutSilences
<1>4. CASE PumpRecord
  BY <1>1, <1>4
  DEF PumpRecord, QueueInv, QueueTypeOK, CounterBounds, JoinCounterExact, WireOrder,
      SpeechCutSilences
<1>. QED BY <1>2, <1>3, <1>4

\* Every step of a call keeps the queue's invariant.
LEMMA QueueStepInv == QueueInv /\ [AudioNext]_audioVars => QueueInv'
<1>. SUFFICES ASSUME QueueInv, [AudioNext]_audioVars PROVE QueueInv'
  OBVIOUS
<1>1. CASE UNCHANGED <<queueVars, pumpVars, cutVars>>
  BY <1>1
  DEF queueVars, pumpVars, cutVars, QueueInv, QueueTypeOK, CounterBounds, JoinCounterExact,
      WireOrder, SpeechCutSilences
<1>2. CASE \E i \in ItemIds : ItemAdded(i)
  BY <1>1, <1>2 DEF ItemAdded
<1>3. CASE \E i \in ItemIds, b \in ChunkSizes : SendAudio(i, b)
  BY <1>3, SendAudioInv
<1>4. CASE OnBargeIn \/ SafetyPreempts
  BY <1>4, StartCutInv
<1>5. CASE Reconcile \/ EndCut
  BY <1>5
  DEF Reconcile, EndCut, queueVars, pumpVars, QueueInv, QueueTypeOK, CounterBounds,
      JoinCounterExact, WireOrder, SpeechCutSilences
<1>6. CASE PumpMedia \/ PumpMark \/ PumpRecord
  BY <1>6, PumpInv
<1>7. CASE (\E m \in MarkNames : MarkArrives(m)) \/ TwilioPlays
  BY <1>1, <1>7 DEF MarkArrives, TwilioPlays
<1>8. CASE UNCHANGED audioVars
  BY <1>1, <1>8 DEF audioVars
<1>. QED BY <1>2, <1>3, <1>4, <1>5, <1>6, <1>7, <1>8 DEF AudioNext

\* Whatever the capacity and the interleaving of pumps and cuts: each frame is
\* settled exactly once in the join counter and the queue stays within its
\* capacity (bridge.py:409-415, 453, 463-469).
THEOREM JoinCounterIsExact == AudioSpec => []JoinCounterExact
<1>1. QueueInv => JoinCounterExact
  BY DEF QueueInv
<1>. QED BY <1>1, QueueInitInv, QueueStepInv, PTL DEF AudioSpec

\* Frames leave in the order the model produced them and a barge-in silences
\* all that were queued before it (bridge.py:396-415, 475-476).
THEOREM CutQueueIsOrdered == AudioSpec => []CutQueueOrdered
<1>1. QueueInv => CutQueueOrdered
  BY DEF QueueInv, CutQueueOrdered
<1>. QED BY <1>1, QueueInitInv, QueueStepInv, PTL DEF AudioSpec

-----------------------------------------------------------------------------
(* Cuts *)

\* TruncatedOnce is about a step the model will be told of: what makes it true
\* is that the item of a cut stays current until the flush, and that a
\* truncated item, once flushed, is never announced again.
CutInv ==
  /\ cut = [at |-> cut.at, item |-> cut.item, audioEndMs |-> cut.audioEndMs]
  /\ cut.at \in {"idle", "cleared", "reconciled"}
  /\ cut.at # "idle" => cut.item = currentItemId
  /\ cut.at # "reconciled" => currentItemId \notin DOMAIN told
  /\ started \in Seq(ItemIds)
  /\ \A i \in DOMAIN told \cup {currentItemId} :
        i # NoItem => \E k \in DOMAIN started : started[k] = i
  /\ NoItem \notin DOMAIN told

\* Nothing has been cut or announced in a new call (bridge.py:158-172).
LEMMA CutInitInv == AudioInit => CutInv
  BY DEF AudioInit, LedgerInit, CutInv, NoCut

\* Announcing an item that was never announced before keeps CutInv
\* (bridge.py:345-350).
LEMMA ItemAddedCutInv ==
  ASSUME CutInv, NEW i \in ItemIds, ItemAdded(i)
  PROVE  CutInv'
<1>1. /\ cut.at = "idle" /\ UNCHANGED <<cut, told>> /\ currentItemId' = i
      /\ started' = Append(started, i) /\ \A k \in DOMAIN started : started[k] # i
  BY DEF ItemAdded, NextEvent, cutVars, OnItemStarted
<1>2. /\ started' \in Seq(ItemIds)
      /\ \A k \in DOMAIN started : k \in DOMAIN started' /\ started'[k] = started[k]
      /\ Len(started) + 1 \in DOMAIN started' /\ started'[Len(started) + 1] = i
  BY <1>1 DEF CutInv
<1>3. i \notin DOMAIN told
  BY <1>1, AudioConstants DEF CutInv
<1>. QED BY <1>1, <1>2, <1>3 DEF CutInv

\* Starting, reconciling and ending a cut keep CutInv (barge_in.py:60-122).
LEMMA CutStepsCutInv ==
  ASSUME CutInv, OnBargeIn \/ SafetyPreempts \/ Reconcile \/ EndCut
  PROVE  CutInv'
<1>1. UNCHANGED started
  BY DEF OnBargeIn, SafetyPreempts, StartCut, Reconcile, EndCut, itemVars
<1>2. CASE OnBargeIn \/ SafetyPreempts
  <2>1. /\ cut' = [at |-> "cleared", item |-> currentItemId, audioEndMs |-> PlayedMsForCurrentItem]
        /\ cut.at = "idle" /\ UNCHANGED <<told, currentItemId>>
    BY <1>2 DEF OnBargeIn, SafetyPreempts, StartCut, NextEvent, ledgerVars
  <2>. QED BY <1>1, <2>1 DEF CutInv
<1>3. CASE Reconcile
  <2>1. /\ cut.at = "cleared" /\ cut' = [cut EXCEPT !.at = "reconciled"]
        /\ UNCHANGED currentItemId
        /\ \/ DOMAIN told' = DOMAIN told \cup {cut.item} /\ cut.item # NoItem
           \/ UNCHANGED told
    BY <1>3 DEF Reconcile, Truncates, ledgerVars
  <2>2. /\ cut' = [at |-> cut'.at, item |-> cut'.item, audioEndMs |-> cut'.audioEndMs]
        /\ cut'.at = "reconciled" /\ cut'.item = cut.item
    BY <2>1 DEF CutInv
  <2>. QED BY <1>1, <2>1, <2>2 DEF CutInv
<1>4. CASE EndCut
  <2>1. cut' = NoCut /\ currentItemId' = NoItem /\ UNCHANGED told
    BY <1>4 DEF EndCut, BeginNewItem
  <2>. QED BY <1>1, <2>1 DEF CutInv, NoCut
<1>. QED BY <1>2, <1>3, <1>4

\* Every step of a call keeps CutInv.
LEMMA CutStepInv == CutInv /\ [AudioNext]_audioVars => CutInv'
<1>. SUFFICES ASSUME CutInv, [AudioNext]_audioVars PROVE CutInv'
  OBVIOUS
<1>1. CASE UNCHANGED <<cut, told, currentItemId, started>>
  BY <1>1 DEF CutInv
<1>2. CASE \E i \in ItemIds : ItemAdded(i)
  BY <1>2, ItemAddedCutInv
<1>3. CASE \E i \in ItemIds, b \in ChunkSizes : SendAudio(i, b)
  BY <1>1, <1>3 DEF SendAudio, ledgerVars, cutVars
<1>4. CASE OnBargeIn \/ SafetyPreempts \/ Reconcile \/ EndCut
  BY <1>4, CutStepsCutInv
<1>5. CASE PumpMedia \/ PumpMark \/ PumpRecord
  BY <1>1, <1>5
  DEF PumpMedia, PumpMark, PumpRecord, PumpWrites, OnChunkSent, ledgerVars, cutVars, itemVars
<1>6. CASE \E m \in MarkNames : MarkArrives(m)
  BY <1>1, <1>6 DEF MarkArrives, OnMarkAck, ledgerVars, cutVars, itemVars
<1>7. CASE TwilioPlays
  BY <1>1, <1>7 DEF TwilioPlays, ledgerVars, cutVars, itemVars
<1>8. CASE UNCHANGED audioVars
  BY <1>1, <1>8 DEF audioVars, ledgerVars, cutVars, itemVars
<1>. QED BY <1>2, <1>3, <1>4, <1>5, <1>6, <1>7, <1>8 DEF AudioNext

\* No item is truncated twice, however often the caller and the safety keyword
\* cut in (barge_in.py:81-93, playback_ledger.py:99-102).
THEOREM NoSecondTruncation == AudioSpec => []TruncatedOnce
<1>1. CutInv => TruncatedOnce
  BY DEF CutInv, TruncatedOnce, Truncates
<1>. QED BY <1>1, CutInitInv, CutStepInv, PTL DEF AudioSpec

-----------------------------------------------------------------------------
(* Refinement *)

\* A new call's ledger is empty, and each step of the pumps is one call of a
\* ledger method or leaves the ledger alone (bridge.py:298, 348, 452,
\* barge_in.py:93).
LEMMA AudioStepRefines == QueueInv /\ [AudioNext]_audioVars => [LedgerNext]_ledgerVars
<1>. SUFFICES ASSUME QueueInv, [AudioNext]_audioVars PROVE [LedgerNext]_ledgerVars
  OBVIOUS
<1>1. CASE \E i \in ItemIds : ItemAdded(i)
  BY <1>1 DEF ItemAdded, LedgerNext
<1>2. CASE \E i \in ItemIds, b \in ChunkSizes : SendAudio(i, b)
  BY <1>2 DEF SendAudio
<1>3. CASE OnBargeIn \/ SafetyPreempts
  BY <1>3 DEF OnBargeIn, SafetyPreempts, StartCut
<1>4. CASE Reconcile
  BY <1>4 DEF Reconcile
<1>5. CASE EndCut
  BY <1>5 DEF EndCut, LedgerNext
<1>6. CASE PumpMedia \/ PumpMark
  BY <1>6 DEF PumpMedia, PumpMark, PumpWrites
<1>7. CASE PumpRecord
  <2>1. inFlight.mark \in MarkNames /\ inFlight.bytes \in ChunkSizes
    BY <1>7 DEF PumpRecord, QueueInv, QueueTypeOK, Frames
  <2>. QED BY <1>7, <2>1 DEF PumpRecord, LedgerNext
<1>8. CASE \E m \in MarkNames : MarkArrives(m)
  BY <1>8 DEF MarkArrives, LedgerNext
<1>9. CASE TwilioPlays
  BY <1>9 DEF TwilioPlays
<1>10. CASE UNCHANGED audioVars
  BY <1>10 DEF audioVars
<1>. QED BY <1>1, <1>2, <1>3, <1>4, <1>5, <1>6, <1>7, <1>8, <1>9, <1>10 DEF AudioNext

\* The three pumps, the cuts and the acks in any order use the ledger only as
\* its specification allows (playback_ledger.py:17-18).
THEOREM AudioImplementsLedger == AudioSpec => ImplementsLedger
<1>1. AudioInit => LedgerInit
  BY DEF AudioInit
<1>. QED
  BY <1>1, QueueInitInv, QueueStepInv, AudioStepRefines, PTL
  DEF AudioSpec, ImplementsLedger, LedgerSpec

\* Hence what is proved of the ledger holds throughout a call: consistent
\* baselines, and a lost ack that heals (playback_ledger.py:66-69).
THEOREM CallLedgerCorrect == AudioSpec => []LedgerSound
<1>. QED BY AudioImplementsLedger, LedgerCorrect, PTL DEF ImplementsLedger

-----------------------------------------------------------------------------
(* Type correctness *)

Entries == [kind : {"media", "mark"}, frame : Frames]

\* Acks come from marks on the wire, which come from the pump.
TwilioInv ==
  /\ wire \in Seq(Entries)
  /\ acks \subseteq MarkNames
  /\ heard \in [ItemIds -> Nat]

\* Twilio has neither played nor acknowledged anything in a new call.
LEMMA TwilioInitInv == AudioInit => TwilioInv
  BY DEF AudioInit, TwilioInv

\* What a frame carries, and what is in Twilio's buffer.
LEMMA EntryFields ==
  ASSUME TwilioInv
  PROVE  \A k \in DOMAIN wire :
           /\ wire[k] \in Entries /\ wire[k].frame.mark \in MarkNames
           /\ wire[k].frame.bytes \in Nat /\ wire[k].frame.item \in ItemIds
<1>1. \A f \in Frames : f.mark \in MarkNames /\ f.bytes \in Nat /\ f.item \in ItemIds
  BY AudioConstants DEF Frames
<1>2. \A e \in Entries : e.frame \in Frames
  BY DEF Entries
<1>. QED BY <1>1, <1>2 DEF TwilioInv

\* Every step of a call keeps TwilioInv (bridge.py:425-453, 477-480).
LEMMA TwilioStepInv == QueueInv /\ TwilioInv /\ [AudioNext]_audioVars => TwilioInv'
<1>. SUFFICES ASSUME QueueInv, TwilioInv, [AudioNext]_audioVars PROVE TwilioInv'
  OBVIOUS
<1>1. CASE UNCHANGED twilioVars
  BY <1>1 DEF twilioVars, TwilioInv
<1>2. CASE OnBargeIn \/ SafetyPreempts
  <2>1. TwilioClears
    BY <1>2 DEF OnBargeIn, SafetyPreempts, StartCut
  <2>. QED BY <2>1, EntryFields DEF TwilioClears, TwilioInv
<1>3. CASE PumpMedia \/ PumpMark
  <2>1. PICK kind \in {"media", "mark"}, frame \in Frames : PumpWrites(kind, frame)
    <3>1. CASE PumpMedia
      <4>1. Head(outbound) \in Frames
        BY <3>1 DEF PumpMedia, QueueInv, QueueTypeOK
      <4>. QED BY <3>1, <4>1 DEF PumpMedia
    <3>2. CASE PumpMark
      <4>1. inFlight \in Frames
        BY <3>2 DEF PumpMark, QueueInv, QueueTypeOK
      <4>. QED BY <3>2, <4>1 DEF PumpMark
    <3>. QED BY <1>3, <3>1, <3>2
  <2>2. [kind |-> kind, frame |-> frame] \in Entries
    BY DEF Entries
  <2>. QED BY <2>1, <2>2 DEF PumpWrites, TwilioInv
<1>4. CASE \E m \in MarkNames : MarkArrives(m)
  BY <1>4 DEF MarkArrives, TwilioInv
<1>5. CASE TwilioPlays
  <2>1. 1 \in DOMAIN wire /\ Head(wire) = wire[1] /\ wire' = Tail(wire) /\ wire' \in Seq(Entries)
    BY <1>5 DEF TwilioPlays, TwilioInv
  <2>. DEFINE entry == Head(wire)
  <2>2. entry.frame.mark \in MarkNames /\ entry.frame.bytes \in Nat /\ entry.frame.item \in ItemIds
    BY <2>1, EntryFields
  <2>3. \/ heard' = [heard EXCEPT ![entry.frame.item] = @ + entry.frame.bytes] /\ UNCHANGED acks
        \/ acks' = acks \cup {entry.frame.mark} /\ UNCHANGED heard
    BY <1>5 DEF TwilioPlays
  <2>. HIDE DEF entry
  <2>. QED BY <2>1, <2>2, <2>3 DEF TwilioInv
<1>6. CASE \/ \E i \in ItemIds : ItemAdded(i)
           \/ \E i \in ItemIds, b \in ChunkSizes : SendAudio(i, b)
           \/ Reconcile \/ EndCut \/ PumpRecord
  BY <1>1, <1>6 DEF ItemAdded, SendAudio, Reconcile, EndCut, PumpRecord
<1>7. CASE UNCHANGED audioVars
  BY <1>1, <1>7 DEF audioVars
<1>. QED BY <1>2, <1>3, <1>4, <1>5, <1>6, <1>7 DEF AudioNext

\* Every variable keeps its type, marks and frames stay within the call's
\* names and sizes (bridge.py:158-172).
THEOREM AudioTypeCorrect == AudioSpec => []AudioTypeOK
<1>1. AudioSpec => []LedgerTypeOK
  BY AudioImplementsLedger, LedgerCorrect, PTL DEF ImplementsLedger
<1>2. LedgerTypeOK /\ QueueInv /\ CutInv /\ TwilioInv => AudioTypeOK
  BY DEF AudioTypeOK, QueueInv, QueueTypeOK, CounterBounds, CutInv, TwilioInv
<1>. QED
  BY <1>1, <1>2, QueueInitInv, QueueStepInv, CutInitInv, CutStepInv, TwilioInitInv, TwilioStepInv, PTL
  DEF AudioSpec

\* Types and join counter together, for any capacity, items and marks
\* (bridge.py:405-415).
THEOREM AudioStateCorrect == AudioSpec => []AudioStateOK
<1>. QED BY AudioTypeCorrect, JoinCounterIsExact, PTL DEF AudioStateOK

-----------------------------------------------------------------------------
(* Honest truncation *)

\* What an entry of Twilio's buffer adds to what the caller has heard of an item.
Audible(e, i) == IF e.kind = "media" /\ e.frame.item = i THEN e.frame.bytes ELSE 0

\* sum[k] is what the caller will have heard of the item once Twilio has played
\* the first k entries of its buffer.
Hears(i, sum) ==
  /\ sum[0] = heard[i]
  /\ \A k \in 1..Len(wire) : sum[k] = sum[k - 1] + Audible(wire[k], i)

\* An ack of this mark, now or once the pump has recorded it, credits the
\* current item with no more than n bytes.
Credits(m, n) ==
  /\ m \in DOMAIN marks => marks[m] <= itemStartOffset + n
  /\ pumpAt = "mark" /\ inFlight.mark = m => queuedBytes + inFlight.bytes <= itemStartOffset + n

InHand == IF pumpAt = "get" THEN 0 ELSE inFlight.bytes

\* Played and queued counts, and those any ack can bring about, are covered by
\* what was heard or is in front of the mark in the buffer.
Covered(sum) ==
  /\ playedBytes <= itemStartOffset + sum[0]
  /\ queuedBytes + InHand <= itemStartOffset + sum[Len(wire)]
  /\ \A m \in acks : Credits(m, sum[0])
  /\ \A k \in 1..Len(wire) : wire[k].kind = "mark" => Credits(wire[k].frame.mark, sum[k])

\* Frames belong to items that were announced, and others were not heard of.
OriginInv ==
  /\ started \in Seq(ItemIds)
  /\ \A k \in DOMAIN outbound : outbound[k].item \in ToSet(started)
  /\ pumpAt # "get" => inFlight.item \in ToSet(started)
  /\ \A k \in DOMAIN wire : wire[k].frame.item \in ToSet(started)
  /\ \A i \in ItemIds \ ToSet(started) : heard[i] = 0

\* While items do not blur, what the bridge holds is of the last one, which is
\* the current one unless a cut has ended it.
Solo ==
  /\ currentItemId # NoItem => currentItemId = Last(started)
  /\ \A k \in DOMAIN outbound : outbound[k].item = Last(started)
  /\ pumpAt # "get" => inFlight.item = Last(started)
SoloInv == ~blurred => Solo

\* The mark the pump is about to write has not been written before.
MarkInv ==
  /\ \A m \in acks : m <= inFlight.mark /\ (pumpAt = "media" => m # inFlight.mark)
  /\ \A k \in DOMAIN wire : wire[k].kind = "mark" =>
       wire[k].frame.mark <= inFlight.mark /\ (pumpAt = "media" => wire[k].frame.mark # inFlight.mark)

Speaking == ~blurred /\ currentItemId # NoItem /\ cut.at = "idle"

CoverInv == Speaking => \E sum \in [0..Len(wire) -> Nat] : Hears(currentItemId, sum) /\ Covered(sum)

HonestInv == OriginInv /\ SoloInv /\ MarkInv /\ CoverInv

\* Sorts of the values the invariant compares.
LEMMA HonestTypes ==
  ASSUME QueueInv, TwilioInv, LedgerTypeOK
  PROVE  /\ inFlight.mark \in Nat /\ inFlight.bytes \in Nat
         /\ playedBytes \in Nat /\ queuedBytes \in Nat /\ itemStartOffset \in Nat
         /\ \A m \in DOMAIN marks : marks[m] \in Nat
         /\ acks \subseteq Nat
         /\ \A k \in DOMAIN outbound : outbound[k] \in Frames
         /\ \A f \in Frames : f.mark \in Nat /\ f.bytes \in Nat /\ f.item \in ItemIds
         /\ wire \in Seq(Entries) /\ Len(wire) \in Nat /\ DOMAIN wire = 1..Len(wire)
         /\ \A k \in DOMAIN wire : wire[k].frame.mark \in Nat /\ wire[k].frame.bytes \in Nat
         /\ \A i \in ItemIds : heard[i] \in Nat
<1>1. \A f \in Frames : f.mark \in Nat /\ f.bytes \in Nat /\ f.item \in ItemIds
  <2>1. MarkNames \subseteq Nat /\ ChunkSizes \subseteq Nat
    BY AudioConstants
  <2>. QED BY <2>1 DEF Frames
<1>2. inFlight.mark \in Nat /\ inFlight.bytes \in Nat
  <2>1. CASE inFlight \in Frames
    BY <1>1, <2>1
  <2>2. CASE inFlight = NoFrame
    BY <2>2 DEF NoFrame
  <2>. QED BY <2>1, <2>2 DEF QueueInv, QueueTypeOK
<1>3. \A k \in DOMAIN outbound : outbound[k] \in Frames
  BY MarksAreNumbers DEF QueueInv
<1>4. acks \subseteq Nat
  BY AudioConstants DEF TwilioInv
<1>5. \A k \in DOMAIN wire : wire[k].frame.mark \in Nat /\ wire[k].frame.bytes \in Nat
  BY EntryFields, AudioConstants
<1>. QED BY <1>1, <1>2, <1>3, <1>4, <1>5 DEF TwilioInv, LedgerTypeOK

\* What is in the queue was there or is the new delta (bridge.py:396-415).
LEMMA SentFrames ==
  ASSUME QueueInv, NEW i, NEW b, SendAudio(i, b)
  PROVE  \A k \in DOMAIN outbound' :
           outbound'[k].item = i \/ \E j \in DOMAIN outbound : outbound'[k] = outbound[j]
<1>. DEFINE frame == [mark |-> markSeq + 1, bytes |-> b, item |-> i]
<1>1. frame.item = i /\ outbound \in Seq(Frames)
  BY DEF QueueInv, QueueTypeOK
<1>2. \/ outbound' = Append(outbound, frame)
      \/ Len(outbound) = OutboundQueueMax /\ outbound' = Append(Tail(outbound), frame)
  BY DEF SendAudio
<1>. HIDE DEF frame
<1>3. CASE outbound' = Append(outbound, frame)
  <2>1. \A k \in DOMAIN outbound' : outbound'[k] = frame \/ (k \in DOMAIN outbound /\ outbound'[k] = outbound[k])
    BY <1>1, <1>3
  <2>. QED BY <2>1, <1>1
<1>4. CASE Len(outbound) = OutboundQueueMax /\ outbound' = Append(Tail(outbound), frame)
  <2>1. /\ Tail(outbound) \in Seq(Frames) /\ Len(Tail(outbound)) = Len(outbound) - 1
        /\ \A k \in 1..(Len(outbound) - 1) : Tail(outbound)[k] = outbound[k + 1]
    BY <1>1, <1>4, AudioConstants
  <2>2. \A k \in DOMAIN outbound' :
          outbound'[k] = frame \/ (k + 1 \in DOMAIN outbound /\ outbound'[k] = outbound[k + 1])
    BY <1>1, <1>4, <2>1, AudioConstants
  <2>. QED BY <2>2, <1>1
<1>. QED BY <1>2, <1>3, <1>4

\* What the pump writes is the frame it holds, taken from the queue's head
\* (bridge.py:425-447).
LEMMA PumpedFrame ==
  ASSUME QueueInv, OriginInv, PumpMedia \/ PumpMark
  PROVE  \E frame \in Frames :
           /\ frame.item \in ToSet(started)
           /\ inFlight' = frame /\ UNCHANGED <<started, heard>>
           /\ \E kind \in {"media", "mark"} : wire' = Append(wire, [kind |-> kind, frame |-> frame])
           /\ \A k \in DOMAIN outbound' : \E j \in DOMAIN outbound : outbound'[k] = outbound[j]
<1>1. CASE PumpMedia
  <2>1. outbound \in Seq(Frames) /\ outbound # <<>>
    BY <1>1 DEF PumpMedia, QueueInv, QueueTypeOK
  <2>2. Head(outbound) = outbound[1] /\ 1 \in DOMAIN outbound /\ Head(outbound) \in Frames
    BY <2>1
  <2>3. \A k \in DOMAIN Tail(outbound) : k + 1 \in DOMAIN outbound /\ Tail(outbound)[k] = outbound[k + 1]
    BY <2>1
  <2>4. /\ inFlight' = Head(outbound) /\ outbound' = Tail(outbound) /\ UNCHANGED <<started, heard>>
        /\ wire' = Append(wire, [kind |-> "media", frame |-> Head(outbound)])
    BY <1>1 DEF PumpMedia, PumpWrites, itemVars
  <2>5. Head(outbound).item \in ToSet(started)
    BY <2>2 DEF OriginInv
  <2>. QED BY <2>2, <2>3, <2>4, <2>5
<1>2. CASE PumpMark
  <2>1. /\ inFlight' = inFlight /\ outbound' = outbound /\ UNCHANGED <<started, heard>>
        /\ wire' = Append(wire, [kind |-> "mark", frame |-> inFlight])
    BY <1>2 DEF PumpMark, PumpWrites, itemVars
  <2>2. inFlight \in Frames /\ inFlight.item \in ToSet(started)
    BY <1>2 DEF PumpMark, QueueInv, QueueTypeOK, OriginInv
  <2>. QED BY <2>1, <2>2
<1>. QED BY <1>1, <1>2

\* Every frame keeps to an announced item, also across announcements.
LEMMA OriginStep ==
  ASSUME QueueInv, TwilioInv, LedgerTypeOK, OriginInv, [AudioNext]_audioVars
  PROVE  OriginInv'
<1>. USE DEF OriginInv
<1>1. CASE \E i \in ItemIds : ItemAdded(i)
  <2>1. PICK i \in ItemIds : ItemAdded(i)
    BY <1>1
  <2>2. started' = Append(started, i) /\ UNCHANGED <<outbound, pumpAt, inFlight, wire, heard>>
    BY <2>1 DEF ItemAdded, queueVars, pumpVars, twilioVars
  <2>3. started' \in Seq(ItemIds) /\ ToSet(started) \subseteq ToSet(started')
    BY <2>2 DEF ToSet
  <2>. QED BY <2>2, <2>3
<1>2. CASE \E i \in ItemIds, b \in ChunkSizes : SendAudio(i, b)
  <2>1. PICK i \in ItemIds, b \in ChunkSizes : SendAudio(i, b)
    BY <1>2
  <2>2. UNCHANGED <<started, pumpAt, inFlight, wire, heard>> /\ i \in ToSet(started)
    BY <2>1 DEF SendAudio, pumpVars, twilioVars
  <2>3. \A k \in DOMAIN outbound' : outbound'[k].item = i \/ \E j \in DOMAIN outbound : outbound'[k] = outbound[j]
    BY <2>1, SentFrames
  <2>. QED BY <2>2, <2>3
<1>3. CASE OnBargeIn \/ SafetyPreempts
  <2>1. /\ UNCHANGED <<started, pumpAt, inFlight, heard>> /\ wire' = <<>>
        /\ outbound' = <<>> \/ outbound' = outbound
    BY <1>3 DEF OnBargeIn, SafetyPreempts, StartCut, DiscardQueuedAudio, TwilioClears, queueVars,
                pumpVars, itemVars
  <2>. QED BY <2>1
<1>4. CASE PumpMedia \/ PumpMark
  <2>1. PICK frame \in Frames :
          /\ frame.item \in ToSet(started)
          /\ inFlight' = frame /\ UNCHANGED <<started, heard>>
          /\ \E kind \in {"media", "mark"} : wire' = Append(wire, [kind |-> kind, frame |-> frame])
          /\ \A k \in DOMAIN outbound' : \E j \in DOMAIN outbound : outbound'[k] = outbound[j]
    BY <1>4, PumpedFrame
  <2>2. PICK kind \in {"media", "mark"} : wire' = Append(wire, [kind |-> kind, frame |-> frame])
    BY <2>1
  <2>3. \A k \in DOMAIN wire' :
          (k \in DOMAIN wire /\ wire'[k] = wire[k]) \/ wire'[k].frame = frame
    BY <2>2 DEF TwilioInv
  <2>. QED BY <2>1, <2>3
<1>5. CASE TwilioPlays
  <2>1. /\ UNCHANGED <<started, outbound, pumpAt, inFlight>> /\ wire # <<>> /\ wire' = Tail(wire)
        /\ heard' = heard \/ heard' = [heard EXCEPT ![Head(wire).frame.item] = @ + Head(wire).frame.bytes]
    BY <1>5 DEF TwilioPlays, queueVars, pumpVars, itemVars
  <2>2. Head(wire) = wire[1] /\ 1 \in DOMAIN wire
    BY <2>1 DEF TwilioInv
  <2>3. \A k \in DOMAIN wire' : k + 1 \in DOMAIN wire /\ wire'[k] = wire[k + 1]
    BY <2>1 DEF TwilioInv
  <2>4. \A i \in ItemIds \ ToSet(started) : heard'[i] = heard[i]
    BY <2>1, <2>2 DEF TwilioInv
  <2>. QED BY <2>1, <2>3, <2>4
<1>6. CASE Reconcile \/ EndCut \/ PumpRecord \/ (\E m \in MarkNames : MarkArrives(m)) \/ UNCHANGED audioVars
  <2>1. /\ UNCHANGED <<started, outbound, inFlight, wire, heard>>
        /\ pumpAt' = pumpAt \/ pumpAt' = "get"
    BY <1>6 DEF Reconcile, EndCut, PumpRecord, MarkArrives, audioVars, queueVars, pumpVars, twilioVars,
                itemVars
  <2>. QED BY <2>1
<1>. QED BY <1>1, <1>2, <1>3, <1>4, <1>5, <1>6 DEF AudioNext

\* An item begins unblurred only when the bridge holds no frame (bridge.py:347-350).
LEMMA SoloStep ==
  ASSUME QueueInv, OriginInv, SoloInv, [AudioNext]_audioVars
  PROVE  SoloInv'
<1>. SUFFICES ASSUME ~blurred' PROVE Solo'
  BY DEF SoloInv
<1>1. CASE \E i \in ItemIds : ItemAdded(i)
  <2>1. PICK i \in ItemIds : ItemAdded(i)
    BY <1>1
  <2>2. /\ outbound' = <<>> /\ pumpAt' = "get" /\ currentItemId' = i
        /\ started' = Append(started, i) /\ started \in Seq(ItemIds)
    BY <2>1 DEF ItemAdded, OnItemStarted, queueVars, pumpVars, OriginInv
  <2>3. Last(started') = i
    BY <2>2 DEF Last
  <2>. QED BY <2>2, <2>3 DEF Solo
<1>2. CASE \E i \in ItemIds, b \in ChunkSizes : SendAudio(i, b)
  <2>1. PICK i \in ItemIds, b \in ChunkSizes : SendAudio(i, b)
    BY <1>2
  <2>2. ~blurred /\ i = Last(started) /\ UNCHANGED <<started, currentItemId, pumpAt, inFlight>>
    BY <2>1 DEF SendAudio, ledgerVars, pumpVars
  <2>3. \A k \in DOMAIN outbound' :
          outbound'[k].item = i \/ \E j \in DOMAIN outbound : outbound'[k] = outbound[j]
    BY <2>1, SentFrames
  <2>. QED BY <2>2, <2>3 DEF SoloInv, Solo
<1>3. CASE OnBargeIn \/ SafetyPreempts
  <2>1. /\ UNCHANGED <<started, blurred, currentItemId, pumpAt, inFlight>>
        /\ outbound' = <<>> \/ outbound' = outbound
    BY <1>3 DEF OnBargeIn, SafetyPreempts, StartCut, DiscardQueuedAudio, queueVars, pumpVars, itemVars,
                ledgerVars
  <2>. QED BY <2>1 DEF SoloInv, Solo
<1>4. CASE PumpMedia
  <2>1. outbound \in Seq(Frames) /\ outbound # <<>>
    BY <1>4 DEF PumpMedia, QueueInv, QueueTypeOK
  <2>2. /\ inFlight' = Head(outbound) /\ outbound' = Tail(outbound)
        /\ UNCHANGED <<started, blurred, currentItemId>>
    BY <1>4 DEF PumpMedia, PumpWrites, itemVars, ledgerVars
  <2>3. \A k \in DOMAIN Tail(outbound) : k + 1 \in DOMAIN outbound /\ Tail(outbound)[k] = outbound[k + 1]
    BY <2>1
  <2>4. Head(outbound) = outbound[1] /\ 1 \in DOMAIN outbound
    BY <2>1
  <2>. QED BY <2>2, <2>3, <2>4 DEF SoloInv, Solo
<1>5. CASE PumpMark \/ PumpRecord
  <2>1. UNCHANGED <<started, blurred, currentItemId, outbound, inFlight>> /\ pumpAt # "get"
    BY <1>5 DEF PumpMark, PumpRecord, PumpWrites, OnChunkSent, itemVars, ledgerVars
  <2>. QED BY <2>1 DEF SoloInv, Solo
<1>6. CASE EndCut
  <2>1. UNCHANGED <<started, blurred, outbound, pumpAt, inFlight>> /\ currentItemId' = NoItem
    BY <1>6 DEF EndCut, BeginNewItem, queueVars, pumpVars, itemVars
  <2>. QED BY <2>1 DEF SoloInv, Solo
<1>7. CASE Reconcile \/ TwilioPlays \/ (\E m \in MarkNames : MarkArrives(m)) \/ UNCHANGED audioVars
  <2>1. UNCHANGED <<started, blurred, currentItemId, outbound, pumpAt, inFlight>>
    BY <1>7 DEF Reconcile, TwilioPlays, MarkArrives, OnMarkAck, audioVars, queueVars, pumpVars, itemVars,
                ledgerVars
  <2>. QED BY <2>1 DEF SoloInv, Solo
<1>. QED BY <1>1, <1>2, <1>3, <1>4, <1>5, <1>6, <1>7 DEF AudioNext

\* The names of marks grow with the queue's order (bridge.py:434-440).
LEMMA MarkStep ==
  ASSUME QueueInv, TwilioInv, LedgerTypeOK, MarkInv, [AudioNext]_audioVars
  PROVE  MarkInv'
<1>1. CASE \/ \E i \in ItemIds : ItemAdded(i)
           \/ \E i \in ItemIds, b \in ChunkSizes : SendAudio(i, b)
           \/ Reconcile \/ EndCut \/ UNCHANGED audioVars
  <2>1. UNCHANGED <<acks, wire, inFlight, pumpAt>>
    BY <1>1 DEF ItemAdded, SendAudio, Reconcile, EndCut, audioVars, pumpVars, twilioVars
  <2>. QED BY <2>1 DEF MarkInv
<1>2. CASE OnBargeIn \/ SafetyPreempts
  <2>1. /\ UNCHANGED <<inFlight, pumpAt>> /\ wire' = <<>>
        /\ \A m \in acks' : m \in acks \/
             \E k \in DOMAIN wire : wire[k].kind = "mark" /\ m = wire[k].frame.mark
    BY <1>2 DEF OnBargeIn, SafetyPreempts, StartCut, TwilioClears, pumpVars
  <2>. QED BY <2>1 DEF MarkInv
<1>3. CASE PumpMedia
  <2>1. outbound \in Seq(Frames) /\ outbound # <<>>
    BY <1>3 DEF PumpMedia, QueueInv, QueueTypeOK
  <2>2. Head(outbound) = outbound[1] /\ 1 \in DOMAIN outbound
    BY <2>1
  <2>3. inFlight.mark < Head(outbound).mark /\ inFlight.mark \in Nat /\ Head(outbound).mark \in Nat
    BY <2>2, HonestTypes DEF QueueInv, WireOrder
  <2>4. /\ inFlight' = Head(outbound) /\ pumpAt' = "media" /\ acks' = acks
        /\ wire' = Append(wire, [kind |-> "media", frame |-> Head(outbound)])
    BY <1>3 DEF PumpMedia, PumpWrites
  <2>. DEFINE e == [kind |-> "media", frame |-> Head(outbound)]
  <2>5. \A k \in DOMAIN wire' : (k \in DOMAIN wire /\ wire'[k] = wire[k]) \/ wire'[k] = e
    BY <2>4 DEF TwilioInv
  <2>6. \A m \in acks' : m <= inFlight'.mark /\ m # inFlight'.mark
    <3>1. \A m \in acks : m \in Nat /\ m <= inFlight.mark
      BY HonestTypes DEF MarkInv
    <3>. QED BY <2>3, <2>4, <3>1
  <2>7. ASSUME NEW k \in DOMAIN wire', wire'[k].kind = "mark"
        PROVE  wire'[k].frame.mark <= inFlight'.mark /\ wire'[k].frame.mark # inFlight'.mark
    <3>1. k \in DOMAIN wire /\ wire'[k] = wire[k]
      BY <2>5, <2>7
    <3>2. wire[k].frame.mark \in Nat /\ wire[k].frame.mark <= inFlight.mark
      BY <2>7, <3>1, HonestTypes DEF MarkInv
    <3>. QED BY <2>3, <2>4, <3>1, <3>2
  <2>. QED BY <2>6, <2>7 DEF MarkInv
<1>4. CASE PumpMark
  <2>1. /\ inFlight' = inFlight /\ pumpAt' = "mark" /\ acks' = acks
        /\ wire' = Append(wire, [kind |-> "mark", frame |-> inFlight])
    BY <1>4 DEF PumpMark, PumpWrites
  <2>2. \A k \in DOMAIN wire' :
          (k \in DOMAIN wire /\ wire'[k] = wire[k]) \/ wire'[k].frame = inFlight
    BY <2>1 DEF TwilioInv
  <2>. QED BY <2>1, <2>2, HonestTypes DEF MarkInv
<1>5. CASE PumpRecord \/ (\E m \in MarkNames : MarkArrives(m))
  <2>1. /\ UNCHANGED <<inFlight, wire>> /\ acks' \subseteq acks
        /\ pumpAt' = pumpAt \/ pumpAt' = "get"
    BY <1>5 DEF PumpRecord, MarkArrives, pumpVars, twilioVars
  <2>. QED BY <2>1 DEF MarkInv
<1>6. CASE TwilioPlays
  <2>1. /\ UNCHANGED <<inFlight, pumpAt>> /\ wire # <<>> /\ wire' = Tail(wire)
        /\ acks' = acks \/ (Head(wire).kind = "mark" /\ acks' = acks \cup {Head(wire).frame.mark})
    BY <1>6 DEF TwilioPlays, pumpVars
  <2>2. Head(wire) = wire[1] /\ 1 \in DOMAIN wire
    BY <2>1 DEF TwilioInv
  <2>3. \A k \in DOMAIN wire' : k + 1 \in DOMAIN wire /\ wire'[k] = wire[k + 1]
    BY <2>1 DEF TwilioInv
  <2>. QED BY <2>1, <2>2, <2>3 DEF MarkInv
<1>. QED BY <1>1, <1>2, <1>3, <1>4, <1>5, <1>6 DEF AudioNext

\* A new item has not been heard of, and every mark is of older audio
\* (playback_ledger.py:91-97).
LEMMA ItemCovered ==
  ASSUME QueueInv, TwilioInv, LedgerTypeOK, WatermarksConsistent, OriginInv,
         NEW i \in ItemIds, ItemAdded(i), ~blurred'
  PROVE  \E sum \in [0..Len(wire') -> Nat] : Hears(currentItemId, sum)' /\ Covered(sum)'
<1>1. /\ UNCHANGED <<wire, heard, acks, marks, playedBytes, queuedBytes, pumpAt, inFlight>>
      /\ pumpAt = "get" /\ currentItemId' = i /\ itemStartOffset' = queuedBytes
      /\ \A k \in DOMAIN started : started[k] # i
  BY DEF ItemAdded, OnItemStarted, pumpVars, twilioVars
<1>2. i \notin ToSet(started)
  BY <1>1 DEF ToSet
<1>3. /\ Len(wire) \in Nat /\ DOMAIN wire = 1..Len(wire) /\ heard[i] = 0
      /\ \A k \in 1..Len(wire) : Audible(wire[k], i) = 0
  BY <1>2, HonestTypes DEF OriginInv, Audible
<1>4. PICK sum : /\ sum \in [0..Len(wire') -> Nat] /\ \A k \in 0..Len(wire) : sum[k] = 0
                  /\ sum[0] = 0 /\ sum[Len(wire)] = 0
  <2>. DEFINE zero == [k \in 0..Len(wire) |-> 0]
  <2>1. /\ zero \in [0..Len(wire') -> Nat] /\ \A k \in 0..Len(wire) : zero[k] = 0
        /\ zero[0] = 0 /\ zero[Len(wire)] = 0
    BY <1>1, <1>3
  <2>. HIDE DEF zero
  <2>. QED BY <2>1
<1>5. Hears(i, sum)
  <2>1. ASSUME NEW k \in 1..Len(wire) PROVE sum[k] = sum[k - 1] + Audible(wire[k], i)
    <3>1. k \in 0..Len(wire) /\ k - 1 \in 0..Len(wire)
      BY <1>3
    <3>. QED BY <3>1, <1>3, <1>4
  <2>. QED BY <2>1, <1>3, <1>4 DEF Hears
<1>6. Hears(currentItemId, sum)'
  BY <1>1, <1>5 DEF Hears
<1>7. pumpAt' = "get" /\ \A m \in DOMAIN marks' : marks'[m] <= itemStartOffset' + 0
  BY <1>1, HonestTypes DEF WatermarksConsistent
<1>8. Covered(sum)'
  <2>1. /\ playedBytes' <= itemStartOffset' + 0 /\ queuedBytes' + 0 <= itemStartOffset' + 0
    BY <1>1, HonestTypes DEF WatermarksConsistent
  <2>2. InHand' = 0
    BY <1>1 DEF InHand
  <2>3. \A k \in 1..Len(wire') : sum[k] = 0
    BY <1>1, <1>3, <1>4
  <2>4. sum[0] = 0 /\ sum[Len(wire')] = 0
    BY <1>1, <1>4
  <2>. QED BY <2>1, <2>2, <2>3, <2>4, <1>7 DEF Covered, Credits
<1>. QED BY <1>4, <1>6, <1>8

\* The sums over Twilio's buffer with one more entry at its end, of a bytes.
Extend(sum, a) ==
  [k \in 0..(Len(wire) + 1) |-> IF k <= Len(wire) THEN sum[k] ELSE sum[Len(wire)] + a]

\* One entry more in Twilio's buffer is one sum more.
LEMMA HearsMore ==
  ASSUME TwilioInv, NEW i, NEW e, NEW sum \in [0..Len(wire) -> Nat], Hears(i, sum),
         NEW a \in Nat, a = Audible(e, i), wire' = Append(wire, e), heard' = heard,
         NEW more, more = Extend(sum, a)
  PROVE  /\ more \in [0..Len(wire') -> Nat]
         /\ more[0] = heard'[i]
         /\ \A k \in 1..Len(wire') : more[k] = more[k - 1] + Audible(wire'[k], i)
         /\ more[0] = sum[0] /\ more[Len(wire')] = sum[Len(wire)] + a
         /\ \A k \in 0..Len(wire) : more[k] = sum[k]
<1>. DEFINE n == Len(wire)
<1>0. more = [k \in 0..(n + 1) |-> IF k <= n THEN sum[k] ELSE sum[n] + a]
  BY DEF Extend
<1>1. /\ n \in Nat /\ Len(wire') = n + 1
      /\ wire'[n + 1] = e /\ \A k \in 1..n : wire'[k] = wire[k]
  BY DEF TwilioInv
<1>2. /\ \A k \in 0..n : sum[k] \in Nat
      /\ sum[0] = heard[i] /\ \A k \in 1..n : sum[k] = sum[k - 1] + Audible(wire[k], i)
  BY DEF Hears
<1>. HIDE DEF n
<1>3. /\ more \in [0..(n + 1) -> Nat] /\ more[n + 1] = sum[n] + a
      /\ \A k \in 0..n : more[k] = sum[k]
  BY <1>0, <1>1, <1>2
<1>4. ASSUME NEW k \in 1..(n + 1) PROVE more[k] = more[k - 1] + Audible(wire'[k], i)
  <2>1. CASE k = n + 1
    BY <2>1, <1>1, <1>3
  <2>2. CASE k # n + 1
    <3>1. k \in 1..n /\ k \in 0..n /\ k - 1 \in 0..n
      BY <2>2, <1>1
    <3>. QED BY <3>1, <1>1, <1>2, <1>3
  <2>. QED BY <2>1, <2>2
<1>5. /\ more \in [0..Len(wire') -> Nat] /\ more[Len(wire')] = sum[Len(wire)] + a
      /\ \A k \in 1..Len(wire') : more[k] = more[k - 1] + Audible(wire'[k], i)
      /\ \A k \in 0..Len(wire) : more[k] = sum[k]
  BY <1>1, <1>3, <1>4 DEF n
<1>6. more[0] = sum[0] /\ more[0] = heard'[i]
  BY <1>1, <1>2, <1>3
<1>. QED BY <1>5, <1>6

\* A frame that goes out is in front of everything written later (bridge.py:425-440).
LEMMA MediaCovered ==
  ASSUME QueueInv, TwilioInv, LedgerTypeOK, SoloInv, CoverInv, PumpMedia, Speaking'
  PROVE  \E sum \in [0..Len(wire') -> Nat] : Hears(currentItemId, sum)' /\ Covered(sum)'
<1>1. outbound \in Seq(Frames) /\ outbound # <<>>
  BY DEF PumpMedia, QueueInv, QueueTypeOK
<1>2. PICK f \in Frames : f = Head(outbound) /\ f = outbound[1] /\ 1 \in DOMAIN outbound
  BY <1>1
<1>3. PICK e : e = [kind |-> "media", frame |-> f]
  OBVIOUS
<1>4. /\ UNCHANGED <<heard, acks, marks, playedBytes, queuedBytes, currentItemId, itemStartOffset, cut, blurred>>
      /\ pumpAt = "get" /\ pumpAt' = "media" /\ inFlight' = f /\ wire' = Append(wire, e)
  BY <1>2, <1>3 DEF PumpMedia, PumpWrites, ledgerVars, cutVars, itemVars
<1>5. Speaking
  BY <1>4 DEF Speaking
<1>6. PICK i : i = currentItemId
  OBVIOUS
<1>7. f.item = i /\ f.bytes \in Nat
  BY <1>2, <1>5, <1>6, HonestTypes DEF Speaking, SoloInv, Solo
<1>8. f.bytes = Audible(e, i) /\ e.kind # "mark"
  BY <1>3, <1>7 DEF Audible
<1>9. PICK sum \in [0..Len(wire) -> Nat] : Hears(i, sum) /\ Covered(sum)
  BY <1>5, <1>6 DEF CoverInv
<1>10. heard' = heard /\ wire' = Append(wire, e)
  BY <1>4
<1>11. PICK more : more = Extend(sum, f.bytes)
  OBVIOUS
<1>11a. /\ more \in [0..Len(wire') -> Nat]
        /\ more[0] = heard'[i]
        /\ \A k \in 1..Len(wire') : more[k] = more[k - 1] + Audible(wire'[k], i)
        /\ more[0] = sum[0] /\ more[Len(wire')] = sum[Len(wire)] + f.bytes
        /\ \A k \in 0..Len(wire) : more[k] = sum[k]
  BY <1>7, <1>8, <1>9, <1>10, <1>11, HearsMore
<1>12. Hears(currentItemId, more)'
  BY <1>4, <1>6, <1>11a DEF Hears
<1>13. pumpAt' # "mark"
  BY <1>4
<1>14. ASSUME NEW k \in 1..Len(wire'), wire'[k].kind = "mark", wire'[k].frame.mark \in DOMAIN marks'
       PROVE  marks'[wire'[k].frame.mark] <= itemStartOffset' + more[k]
  <2>1. /\ Len(wire) \in Nat /\ Len(wire') = Len(wire) + 1
        /\ wire'[Len(wire) + 1] = e /\ \A j \in 1..Len(wire) : wire'[j] = wire[j]
    BY <1>4 DEF TwilioInv
  <2>2. k \in 1..Len(wire) /\ k \in 0..Len(wire) /\ wire'[k] = wire[k]
    BY <1>8, <1>14, <2>1
  <2>3. marks[wire[k].frame.mark] <= itemStartOffset + sum[k]
    BY <1>4, <1>9, <1>14, <2>2 DEF Covered, Credits
  <2>. QED BY <1>4, <1>11a, <2>2, <2>3
<1>15. Covered(more)'
  <2>1. queuedBytes <= itemStartOffset + sum[Len(wire)] /\ sum[Len(wire)] \in Nat
    <3>1. queuedBytes + 0 <= itemStartOffset + sum[Len(wire)]
      BY <1>4, <1>9 DEF Covered, InHand
    <3>2. sum[Len(wire)] \in Nat
      <4>1. Len(wire) \in 0..Len(wire)
        BY HonestTypes
      <4>. QED BY <4>1, <1>9
    <3>. QED BY <3>1, <3>2, HonestTypes
  <2>2. InHand' = f.bytes
    BY <1>4 DEF InHand
  <2>3. queuedBytes' + InHand' <= itemStartOffset' + more[Len(wire')]
    BY <2>1, <2>2, <1>4, <1>7, <1>8, <1>11a, HonestTypes
  <2>4. playedBytes' <= itemStartOffset' + more[0]
    BY <1>4, <1>9, <1>11a DEF Covered
  <2>5. \A m \in acks' : m \in DOMAIN marks' => marks'[m] <= itemStartOffset' + more[0]
    BY <1>4, <1>9, <1>11a DEF Covered, Credits
  <2>. QED BY <2>3, <2>4, <2>5, <1>13, <1>14 DEF Covered, Credits
<1>. QED BY <1>11a, <1>12, <1>15

\* A mark goes out behind the frame it is for (bridge.py:441-444).
LEMMA MarkCovered ==
  ASSUME QueueInv, TwilioInv, LedgerTypeOK, WatermarksConsistent, MarkInv, CoverInv, PumpMark, Speaking'
  PROVE  \E sum \in [0..Len(wire') -> Nat] : Hears(currentItemId, sum)' /\ Covered(sum)'
<1>1. PICK e, f : f = inFlight /\ e = [kind |-> "mark", frame |-> f]
  OBVIOUS
<1>2. /\ UNCHANGED <<heard, acks, marks, playedBytes, queuedBytes, currentItemId, itemStartOffset, cut,
                     blurred, inFlight>>
      /\ pumpAt = "media" /\ pumpAt' = "mark" /\ wire' = Append(wire, e)
  BY <1>1 DEF PumpMark, PumpWrites, ledgerVars, cutVars, itemVars
<1>3. Speaking
  BY <1>2 DEF Speaking
<1>4. PICK i : i = currentItemId
  OBVIOUS
<1>5. 0 = Audible(e, i)
  BY <1>1 DEF Audible
<1>6. PICK sum \in [0..Len(wire) -> Nat] : Hears(i, sum) /\ Covered(sum)
  BY <1>3, <1>4 DEF CoverInv
<1>7. heard' = heard /\ wire' = Append(wire, e)
  BY <1>2
<1>8. PICK more : more = Extend(sum, 0)
  OBVIOUS
<1>8a. /\ more \in [0..Len(wire') -> Nat]
       /\ more[0] = heard'[i]
       /\ \A k \in 1..Len(wire') : more[k] = more[k - 1] + Audible(wire'[k], i)
       /\ more[0] = sum[0] /\ more[Len(wire')] = sum[Len(wire)] + 0
       /\ \A k \in 0..Len(wire) : more[k] = sum[k]
  BY <1>5, <1>6, <1>7, <1>8, HearsMore
<1>9. Hears(currentItemId, more)'
  BY <1>2, <1>4, <1>8a DEF Hears
<1>10. /\ Len(wire) \in Nat /\ Len(wire') = Len(wire) + 1
       /\ wire'[Len(wire) + 1] = e /\ \A j \in 1..Len(wire) : wire'[j] = wire[j]
  BY <1>2 DEF TwilioInv
<1>11. more[Len(wire')] = sum[Len(wire)] /\ sum[Len(wire)] \in Nat
  <2>1. Len(wire) \in 0..Len(wire)
    BY <1>10
  <2>2. sum[Len(wire)] \in Nat
    BY <2>1
  <2>3. more[Len(wire')] = sum[Len(wire)] + 0
    BY <1>8a
  <2>. QED BY <2>2, <2>3
<1>12. queuedBytes + inFlight.bytes <= itemStartOffset + sum[Len(wire)]
  BY <1>2, <1>6 DEF Covered, InHand
<1>13. \A m \in acks : m # inFlight.mark
  BY <1>2 DEF MarkInv
<1>14. ASSUME NEW k \in 1..Len(wire'), wire'[k].kind = "mark"
       PROVE  /\ wire'[k].frame.mark \in DOMAIN marks' =>
                   marks'[wire'[k].frame.mark] <= itemStartOffset' + more[k]
              /\ inFlight'.mark = wire'[k].frame.mark =>
                   queuedBytes' + inFlight'.bytes <= itemStartOffset' + more[k]
  <2>1. CASE k = Len(wire')
    <3>1. f.mark = wire'[k].frame.mark /\ more[k] = sum[Len(wire)]
      BY <1>1, <1>10, <1>11, <2>1
    <3>2. f.mark \in DOMAIN marks => marks[f.mark] <= queuedBytes + inFlight.bytes
      <4>1. f.mark \in DOMAIN marks => marks[f.mark] \in Nat /\ marks[f.mark] <= queuedBytes
        BY HonestTypes DEF WatermarksConsistent
      <4>2. queuedBytes \in Nat /\ inFlight.bytes \in Nat
        BY HonestTypes
      <4>. QED BY <4>1, <4>2
    <3>3. /\ f.mark \in DOMAIN marks => marks[f.mark] \in Nat
          /\ queuedBytes \in Nat /\ inFlight.bytes \in Nat /\ itemStartOffset \in Nat
      BY HonestTypes
    <3>4. f.mark \in DOMAIN marks => marks[f.mark] <= itemStartOffset + sum[Len(wire)]
      <4>1. ASSUME NEW v \in Nat, v <= queuedBytes + inFlight.bytes
            PROVE  v <= itemStartOffset + sum[Len(wire)]
        BY <1>11, <1>12, <3>3, <4>1
      <4>. QED BY <3>2, <3>3, <4>1
    <3>. QED BY <1>2, <1>12, <3>1, <3>4
  <2>2. CASE k # Len(wire')
    <3>1. k \in 1..Len(wire) /\ k \in 0..Len(wire) /\ wire'[k] = wire[k]
      BY <2>2, <1>10
    <3>2. wire[k].frame.mark # inFlight.mark
      BY <1>2, <1>14, <3>1, HonestTypes DEF MarkInv
    <3>3. wire[k].frame.mark \in DOMAIN marks => marks[wire[k].frame.mark] <= itemStartOffset + sum[k]
      BY <1>6, <1>14, <3>1 DEF Covered, Credits
    <3>. QED BY <1>2, <1>8a, <3>1, <3>2, <3>3
  <2>. QED BY <2>1, <2>2
<1>15. Covered(more)'
  <2>1. queuedBytes' + InHand' <= itemStartOffset' + more[Len(wire')]
    BY <1>2, <1>11, <1>12 DEF InHand
  <2>2. playedBytes' <= itemStartOffset' + more[0]
    BY <1>2, <1>6, <1>8a DEF Covered
  <2>3. \A m \in acks' : /\ inFlight'.mark # m
                         /\ m \in DOMAIN marks' => marks'[m] <= itemStartOffset' + more[0]
    BY <1>2, <1>6, <1>8a, <1>13 DEF Covered, Credits
  <2>. QED BY <2>1, <2>2, <2>3, <1>14 DEF Covered, Credits
<1>. QED BY <1>8a, <1>9, <1>15

\* Recording a frame counts what was already covered in the pump's hands, and
\* its mark with it (playback_ledger.py:57-62).
LEMMA RecordCovered ==
  ASSUME QueueInv, TwilioInv, LedgerTypeOK, CoverInv, PumpRecord, Speaking'
  PROVE  \E sum \in [0..Len(wire') -> Nat] : Hears(currentItemId, sum)' /\ Covered(sum)'
<1>1. /\ UNCHANGED <<wire, heard, acks, playedBytes, currentItemId, itemStartOffset, cut, blurred>>
      /\ pumpAt = "mark" /\ pumpAt' = "get" /\ queuedBytes' = queuedBytes + inFlight.bytes
      /\ \A m \in DOMAIN marks' :
           \/ m = inFlight.mark /\ marks'[m] = queuedBytes + inFlight.bytes
           \/ m \in DOMAIN marks /\ marks'[m] = marks[m]
  BY DEF PumpRecord, OnChunkSent, cutVars, itemVars, twilioVars
<1>2. PICK sum \in [0..Len(wire) -> Nat] : Hears(currentItemId, sum) /\ Covered(sum)
  BY <1>1 DEF CoverInv, Speaking
<1>3. Hears(currentItemId, sum)'
  BY <1>1, <1>2 DEF Hears
<1>4. ASSUME NEW m, NEW n, Credits(m, n), m \in DOMAIN marks' PROVE marks'[m] <= itemStartOffset' + n
  BY <1>1, <1>4 DEF Credits
<1>5. Covered(sum)'
  <2>1. queuedBytes' + InHand' <= itemStartOffset' + sum[Len(wire')]
    <3>1. queuedBytes + inFlight.bytes <= itemStartOffset + sum[Len(wire)]
      BY <1>1, <1>2 DEF Covered, InHand
    <3>2. InHand' = 0 /\ queuedBytes + inFlight.bytes \in Nat
      BY <1>1, HonestTypes DEF InHand
    <3>. QED BY <3>1, <3>2, <1>1
  <2>2. playedBytes' <= itemStartOffset' + sum[0]
    BY <1>1, <1>2 DEF Covered
  <2>3. \A m \in acks' : m \in DOMAIN marks' => marks'[m] <= itemStartOffset' + sum[0]
    BY <1>1, <1>2, <1>4 DEF Covered
  <2>4. \A k \in 1..Len(wire') : wire'[k].kind = "mark" /\ wire'[k].frame.mark \in DOMAIN marks' =>
          marks'[wire'[k].frame.mark] <= itemStartOffset' + sum[k]
    BY <1>1, <1>2, <1>4 DEF Covered
  <2>. QED BY <2>1, <2>2, <2>3, <2>4, <1>1 DEF Covered, Credits
<1>. QED BY <1>1, <1>3, <1>5

\* An ack raises the played count to what its mark covers (playback_ledger.py:64-80).
LEMMA AckCovered ==
  ASSUME QueueInv, TwilioInv, LedgerTypeOK, CoverInv, NEW a \in MarkNames, MarkArrives(a), Speaking'
  PROVE  \E sum \in [0..Len(wire') -> Nat] : Hears(currentItemId, sum)' /\ Covered(sum)'
<1>1. /\ UNCHANGED <<wire, heard, currentItemId, itemStartOffset, cut, blurred, queuedBytes, pumpAt, inFlight>>
      /\ a \in acks /\ acks' \subseteq acks
      /\ \A m \in DOMAIN marks' : m \in DOMAIN marks /\ marks'[m] = marks[m]
      /\ playedBytes' = playedBytes \/ (a \in DOMAIN marks /\ playedBytes' = marks[a])
  BY DEF MarkArrives, OnMarkAck, Prune, Pop, pumpVars, cutVars, itemVars, ledgerVars
<1>2. PICK sum \in [0..Len(wire) -> Nat] : Hears(currentItemId, sum) /\ Covered(sum)
  BY <1>1 DEF CoverInv, Speaking
<1>3. Hears(currentItemId, sum)'
  BY <1>1, <1>2 DEF Hears
<1>4. playedBytes' <= itemStartOffset' + sum[0]
  BY <1>1, <1>2 DEF Covered, Credits
<1>5. Covered(sum)'
  <2>1. queuedBytes' + InHand' <= itemStartOffset' + sum[Len(wire')]
    BY <1>1, <1>2 DEF Covered, InHand
  <2>. QED BY <1>1, <1>2, <1>4, <2>1 DEF Covered, Credits
<1>. QED BY <1>1, <1>3, <1>5

\* What Twilio plays moves from the buffer to what was heard.
LEMMA PlayCovered ==
  ASSUME QueueInv, TwilioInv, LedgerTypeOK, CoverInv, TwilioPlays, Speaking'
  PROVE  \E sum \in [0..Len(wire') -> Nat] : Hears(currentItemId, sum)' /\ Covered(sum)'
<1>1. /\ UNCHANGED <<marks, playedBytes, currentItemId, itemStartOffset, cut, blurred, queuedBytes, pumpAt,
                     inFlight>>
      /\ wire # <<>> /\ wire' = Tail(wire)
  BY DEF TwilioPlays, pumpVars, cutVars, itemVars, ledgerVars
<1>2. PICK i \in ItemIds : i = currentItemId
  BY <1>1 DEF Speaking, LedgerTypeOK
<1>3. PICK sum \in [0..Len(wire) -> Nat] : Hears(i, sum) /\ Covered(sum)
  BY <1>1, <1>2 DEF CoverInv, Speaking
<1>4. PICK n \in Nat : n = Len(wire) /\ n > 0
  BY <1>1 DEF TwilioInv
<1>5. /\ Len(wire') = n - 1 /\ \A k \in 1..(n - 1) : wire'[k] = wire[k + 1]
      /\ 1 \in 1..n /\ 1 \in DOMAIN wire /\ Head(wire) = wire[1]
  BY <1>1, <1>4 DEF TwilioInv
<1>6. /\ \A k \in 0..n : sum[k] \in Nat
      /\ sum[0] = heard[i] /\ \A k \in 1..n : sum[k] = sum[k - 1] + Audible(wire[k], i)
  BY <1>3, <1>4 DEF Hears
<1>7. heard'[i] = sum[1] /\ sum[0] <= sum[1] /\ (wire[1].kind = "mark" => sum[1] = sum[0])
  <2>1. sum[1] = heard[i] + Audible(wire[1], i) /\ sum[0] = heard[i]
    <3>1. sum[1] = sum[1 - 1] + Audible(wire[1], i)
      BY <1>5, <1>6
    <3>. QED BY <3>1, <1>6
  <2>2. wire[1].frame.bytes \in Nat /\ heard[i] \in Nat
    BY <1>5, HonestTypes
  <2>3. \/ wire[1].kind = "media" /\ heard' = [heard EXCEPT ![wire[1].frame.item] = @ + wire[1].frame.bytes]
        \/ wire[1].kind = "mark" /\ heard' = heard
    BY <1>5 DEF TwilioPlays
  <2>4. heard'[i] = heard[i] + Audible(wire[1], i)
    BY <2>2, <2>3 DEF Audible, TwilioInv
  <2>5. Audible(wire[1], i) \in Nat /\ (wire[1].kind = "mark" => Audible(wire[1], i) = 0)
    BY <2>2 DEF Audible
  <2>. QED BY <2>1, <2>2, <2>4, <2>5
<1>8. PICK rest \in [0..(n - 1) -> Nat] : \A k \in 0..(n - 1) : rest[k] = sum[k + 1]
  <2>. DEFINE r == [k \in 0..(n - 1) |-> sum[k + 1]]
  <2>1. r \in [0..(n - 1) -> Nat] /\ \A k \in 0..(n - 1) : r[k] = sum[k + 1]
    BY <1>4, <1>6
  <2>. HIDE DEF r
  <2>. QED BY <2>1
<1>9. rest[0] = sum[1] /\ rest[n - 1] = sum[n]
  BY <1>4, <1>8
<1>10. ASSUME NEW k \in 1..(n - 1) PROVE rest[k] = rest[k - 1] + Audible(wire'[k], i)
  <2>1. k + 1 \in 1..n /\ k \in 0..(n - 1) /\ k - 1 \in 0..(n - 1) /\ (k + 1) - 1 = k /\ (k - 1) + 1 = k
    BY <1>4
  <2>. QED BY <2>1, <1>5, <1>6, <1>8, SMTT(30)
<1>11. Hears(currentItemId, rest)'
  BY <1>1, <1>2, <1>5, <1>7, <1>9, <1>10 DEF Hears
<1>12. ASSUME NEW m \in acks'
       PROVE  m \in acks \/ (wire[1].kind = "mark" /\ m = wire[1].frame.mark)
  BY <1>5, <1>12 DEF TwilioPlays
<1>13. ASSUME NEW m \in acks' PROVE Credits(m, sum[0]) /\ sum[0] <= rest[0]
  <2>1. wire[1].kind = "mark" => Credits(wire[1].frame.mark, sum[1])
    BY <1>3, <1>4, <1>5 DEF Covered
  <2>2. m \in acks => Credits(m, sum[0])
    BY <1>3 DEF Covered
  <2>. QED BY <1>7, <1>9, <1>12, <2>1, <2>2
<1>14. Covered(rest)'
  <2>1. queuedBytes' + InHand' <= itemStartOffset' + rest[Len(wire')]
    BY <1>1, <1>3, <1>4, <1>5, <1>9 DEF Covered, InHand
  <2>2. /\ sum[0] \in Nat /\ rest[0] \in Nat /\ sum[0] <= rest[0]
    BY <1>4, <1>6, <1>7, <1>8, <1>9
  <2>3. playedBytes' <= itemStartOffset' + rest[0]
    <3>1. playedBytes <= itemStartOffset + sum[0]
      BY <1>3 DEF Covered
    <3>2. playedBytes \in Nat /\ itemStartOffset \in Nat
      BY HonestTypes
    <3>3. playedBytes <= itemStartOffset + rest[0]
      BY <2>2, <3>1, <3>2
    <3>. QED BY <1>1, <3>3
  <2>4. ASSUME NEW m \in acks'
        PROVE  /\ m \in DOMAIN marks' => marks'[m] <= itemStartOffset' + rest[0]
               /\ pumpAt' = "mark" /\ inFlight'.mark = m =>
                    queuedBytes' + inFlight'.bytes <= itemStartOffset' + rest[0]
    <3>1. Credits(m, sum[0])
      BY <1>13
    <3>2. /\ m \in DOMAIN marks => marks[m] <= itemStartOffset + sum[0]
          /\ pumpAt = "mark" /\ inFlight.mark = m => queuedBytes + inFlight.bytes <= itemStartOffset + sum[0]
      BY <3>1 DEF Credits
    <3>3. ASSUME NEW p \in Nat, p <= itemStartOffset + sum[0] PROVE p <= itemStartOffset + rest[0]
      <4>1. itemStartOffset \in Nat
        BY HonestTypes
      <4>. QED BY <3>3, <4>1, <2>2
    <3>4. m \in DOMAIN marks => marks[m] \in Nat
      BY HonestTypes
    <3>5. queuedBytes + inFlight.bytes \in Nat
      BY HonestTypes
    <3>. QED BY <3>2, <3>3, <3>4, <3>5, <1>1
  <2>5. ASSUME NEW k \in 1..Len(wire'), wire'[k].kind = "mark"
        PROVE  /\ wire'[k].frame.mark \in DOMAIN marks' =>
                    marks'[wire'[k].frame.mark] <= itemStartOffset' + rest[k]
               /\ pumpAt' = "mark" /\ inFlight'.mark = wire'[k].frame.mark =>
                    queuedBytes' + inFlight'.bytes <= itemStartOffset' + rest[k]
    <3>1. k \in 1..(n - 1) /\ k \in 0..(n - 1) /\ k + 1 \in 1..n /\ wire'[k] = wire[k + 1]
      BY <1>4, <1>5
    <3>2. Credits(wire[k + 1].frame.mark, sum[k + 1])
      BY <1>3, <1>4, <2>5, <3>1 DEF Covered
    <3>. QED BY <3>1, <3>2, <1>1, <1>8 DEF Credits
  <2>. QED BY <2>1, <2>3, <2>4, <2>5 DEF Covered, Credits
<1>15. rest \in [0..Len(wire') -> Nat]
  BY <1>5
<1>. QED BY <1>11, <1>14, <1>15

\* Every step of a call keeps what the current item is credited with covered
\* by what was heard of it.
LEMMA CoverStep ==
  ASSUME QueueInv, TwilioInv, LedgerTypeOK, WatermarksConsistent, CutInv,
         OriginInv, SoloInv, MarkInv, CoverInv, [AudioNext]_audioVars
  PROVE  CoverInv'
<1>. SUFFICES ASSUME Speaking'
              PROVE  \E sum \in [0..Len(wire') -> Nat] : Hears(currentItemId, sum)' /\ Covered(sum)'
  BY DEF CoverInv
<1>1. CASE \E i \in ItemIds : ItemAdded(i)
  BY <1>1, ItemCovered DEF Speaking
<1>2. CASE (\E i \in ItemIds, b \in ChunkSizes : SendAudio(i, b)) \/ UNCHANGED audioVars
  <2>1. UNCHANGED <<wire, heard, acks, marks, playedBytes, queuedBytes, currentItemId, itemStartOffset, cut,
                    pumpAt, inFlight>>
    BY <1>2 DEF SendAudio, audioVars, ledgerVars, pumpVars, cutVars, twilioVars
  <2>2. ~blurred
    BY <1>2 DEF Speaking, SendAudio, audioVars, itemVars
  <2>3. PICK sum \in [0..Len(wire) -> Nat] : Hears(currentItemId, sum) /\ Covered(sum)
    BY <2>1, <2>2 DEF CoverInv, Speaking
  <2>4. Hears(currentItemId, sum)' /\ Covered(sum)'
    BY <2>1, <2>3 DEF Hears, Covered, Credits, InHand
  <2>. QED BY <2>1, <2>3, <2>4
<1>3. CASE OnBargeIn \/ SafetyPreempts \/ Reconcile
  <2>1. cut'.at # "idle"
    BY <1>3 DEF OnBargeIn, SafetyPreempts, StartCut, Reconcile, CutInv
  <2>. QED BY <2>1 DEF Speaking
<1>4. CASE EndCut
  BY <1>4 DEF EndCut, BeginNewItem, Speaking
<1>5. CASE PumpMedia
  BY <1>5, MediaCovered
<1>6. CASE PumpMark
  BY <1>6, MarkCovered
<1>7. CASE PumpRecord
  BY <1>7, RecordCovered
<1>8. CASE \E m \in MarkNames : MarkArrives(m)
  BY <1>8, AckCovered
<1>9. CASE TwilioPlays
  BY <1>9, PlayCovered
<1>. QED BY <1>1, <1>2, <1>3, <1>4, <1>5, <1>6, <1>7, <1>8, <1>9 DEF AudioNext

\* Nothing has been said or heard in a call that begins.
LEMMA HonestInitInv == AudioInit => HonestInv
  BY DEF AudioInit, LedgerInit, HonestInv, OriginInv, SoloInv, Solo, MarkInv, CoverInv, Speaking, NoFrame

\* More bytes are never fewer milliseconds (playback_ledger.py:28-30).
LEMMA MsMonotone ==
  ASSUME NEW a \in Int, NEW b \in Nat, a <= b
  PROVE  BytesToMs(a) <= BytesToMs(b)
  BY DEF BytesToMs, UlawBytesPerSecond

\* A cut reads the played count while its item speaks (barge_in.py:64-67).
LEMMA StartCutHonest ==
  ASSUME LedgerTypeOK, TwilioInv, HonestInv, [AudioNext]_audioVars, ~blurred, cut' # cut
  PROVE  CutIsHonest
<1>. SUFFICES ASSUME cut'.at = "cleared", cut'.item # NoItem
              PROVE  cut'.audioEndMs <= BytesToMs(heard[cut'.item])
  BY DEF CutIsHonest
<1>1. CASE OnBargeIn \/ SafetyPreempts
  <2>1. /\ cut' = [at |-> "cleared", item |-> currentItemId, audioEndMs |-> PlayedMsForCurrentItem]
        /\ cut.at = "idle"
    BY <1>1 DEF OnBargeIn, SafetyPreempts, StartCut, NextEvent
  <2>2. currentItemId # NoItem /\ currentItemId \in ItemIds
    BY <2>1 DEF LedgerTypeOK
  <2>3. PICK sum \in [0..Len(wire) -> Nat] : Hears(currentItemId, sum) /\ Covered(sum)
    BY <2>1, <2>2 DEF HonestInv, CoverInv, Speaking
  <2>4. playedBytes <= itemStartOffset + heard[currentItemId]
    BY <2>3 DEF Hears, Covered
  <2>5. playedBytes - itemStartOffset \in Int /\ heard[currentItemId] \in Nat
    BY <2>2 DEF LedgerTypeOK, TwilioInv
  <2>6. playedBytes - itemStartOffset <= heard[currentItemId]
    BY <2>2, <2>4, <2>5 DEF LedgerTypeOK
  <2>7. PlayedMsForCurrentItem <= BytesToMs(heard[currentItemId])
    BY <2>5, <2>6, MsMonotone DEF PlayedMsForCurrentItem
  <2>. QED BY <2>1, <2>7
<1>2. CASE EndCut
  BY <1>2 DEF EndCut, NoCut
<1>3. CASE Reconcile
  BY <1>3 DEF Reconcile
<1>4. CASE \/ \E i \in ItemIds : ItemAdded(i)
           \/ \E i \in ItemIds, b \in ChunkSizes : SendAudio(i, b)
           \/ PumpMedia \/ PumpMark \/ PumpRecord \/ TwilioPlays
           \/ \E m \in MarkNames : MarkArrives(m)
           \/ UNCHANGED audioVars
  <2>1. cut' = cut
    BY <1>4 DEF ItemAdded, SendAudio, PumpMedia, PumpMark, PumpRecord, PumpWrites, TwilioPlays, MarkArrives,
                audioVars, cutVars
  <2>. QED BY <2>1
<1>. QED BY <1>1, <1>2, <1>3, <1>4 DEF AudioNext

\* Without blurred items audio_end_ms never exceeds what the caller heard of the
\* item, whatever acks are late, lost, doubled or reordered (bridge.py:422-424).
THEOREM TruncationsAreHonest == AudioSpec => TruncationHonest
<1>1. AudioSpec => [](LedgerTypeOK /\ WatermarksConsistent)
  BY AudioImplementsLedger, LedgerCorrect, PTL DEF ImplementsLedger, LedgerSound
<1>2. QueueInv /\ TwilioInv /\ CutInv /\ LedgerTypeOK /\ WatermarksConsistent /\ HonestInv
        /\ [AudioNext]_audioVars => HonestInv'
  BY OriginStep, SoloStep, MarkStep, CoverStep DEF HonestInv
<1>3. LedgerTypeOK /\ TwilioInv /\ HonestInv /\ [AudioNext]_audioVars => [~blurred => CutIsHonest]_cut
  BY StartCutHonest
<1>. QED
  BY <1>1, <1>2, <1>3, QueueInitInv, QueueStepInv, TwilioInitInv, TwilioStepInv, CutInitInv,
     CutStepInv, HonestInitInv, PTL
  DEF AudioSpec, TruncationHonest

=============================================================================
