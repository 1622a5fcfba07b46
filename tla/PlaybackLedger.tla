--------------------------- MODULE PlaybackLedger ---------------------------
(***************************************************************************)
(* The playback ledger of one call (apps/api/media/playback_ledger.py):    *)
(* how much agent audio was handed to Twilio, how much of it Twilio has    *)
(* reported as played, and where the current response item began.          *)
(*                                                                         *)
(* Every method of the class is synchronous, so each is one atomic step.   *)
(* The module is used in two ways: LedgerSpec drives it with every order   *)
(* of calls; AudioPath calls the same operators from its tasks and is      *)
(* shown to implement LedgerSpec.                                          *)
(***************************************************************************)
EXTENDS Integers, FiniteSets

CONSTANTS
  ItemIds,     \* ids of Realtime conversation items
  NoItem,      \* Python's None
  MarkNames,   \* names of Twilio marks
  ChunkSizes   \* decoded sizes of an audio delta, in bytes

ASSUME LedgerAssumption ==
  /\ NoItem \notin ItemIds
  /\ ChunkSizes \subseteq Nat \ {0}

VARIABLES
  marks,            \* outstanding marks: name -> cumulative bytes at that mark
  playedBytes,
  queuedBytes,
  currentItemId,
  itemStartOffset

ledgerVars == <<marks, playedBytes, queuedBytes, currentItemId, itemStartOffset>>

-----------------------------------------------------------------------------
(* Reads *)

UlawBytesPerSecond == 8000

\* The float quotient is truncated, and a negative difference reads as 0.
BytesToMs(n) == IF n > 0 THEN (n * 1000) \div UlawBytesPerSecond ELSE 0

PlayedMsForCurrentItem == BytesToMs(playedBytes - itemStartOffset)
QueuedMsForCurrentItem == BytesToMs(queuedBytes - itemStartOffset)
UnplayedMs == BytesToMs(queuedBytes - playedBytes)

-----------------------------------------------------------------------------
(* Writes *)

LedgerInit ==
  /\ marks = [m \in {} |-> 0]
  /\ playedBytes = 0
  /\ queuedBytes = 0
  /\ currentItemId = NoItem
  /\ itemStartOffset = 0

OnChunkSent(name, bytes) ==
  /\ queuedBytes' = queuedBytes + bytes
  /\ marks' = [m \in DOMAIN marks \cup {name} |->
                 IF m = name THEN queuedBytes' ELSE marks[m]]
  /\ UNCHANGED <<playedBytes, currentItemId, itemStartOffset>>

\* Mutant: every ack empties the table.
PruneAll(ms, played) == [m \in {} |-> 0]

\* Keeps the marks the played watermark has not passed yet.
Prune(ms, played) == [m \in {n \in DOMAIN ms : ms[n] > played} |-> ms[m]]

Pop(ms, name) == [m \in DOMAIN ms \ {name} |-> ms[m]]

OnMarkAck(name) ==
  \/ /\ name \notin DOMAIN marks
     /\ UNCHANGED ledgerVars
  \/ /\ name \in DOMAIN marks
     /\ playedBytes' = IF marks[name] > playedBytes THEN marks[name] ELSE playedBytes
     /\ marks' = Prune(Pop(marks, name), playedBytes')
     /\ UNCHANGED <<queuedBytes, currentItemId, itemStartOffset>>

\* Mutant: a new item is measured from where the last one was.
OnItemStartedKeepingOffset(item) ==
  /\ currentItemId' = item
  /\ UNCHANGED <<marks, playedBytes, queuedBytes, itemStartOffset>>

OnItemStarted(item) ==
  /\ currentItemId' = item
  /\ itemStartOffset' = queuedBytes
  /\ UNCHANGED <<marks, playedBytes, queuedBytes>>

\* Mutant: the flush leaves the item.
BeginNewItemKeepingItem(item) ==
  /\ marks' = [m \in {} |-> 0]
  /\ queuedBytes' = playedBytes
  /\ itemStartOffset' = playedBytes
  /\ UNCHANGED <<playedBytes, currentItemId>>

BeginNewItem(item) ==
  /\ marks' = [m \in {} |-> 0]
  /\ queuedBytes' = playedBytes
  /\ itemStartOffset' = playedBytes
  /\ currentItemId' = item
  /\ UNCHANGED playedBytes

-----------------------------------------------------------------------------
(* The ledger on its own: any caller, any order, acks for any name. *)

LedgerNext ==
  \/ \E m \in MarkNames, b \in ChunkSizes : OnChunkSent(m, b)
  \/ \E m \in MarkNames : OnMarkAck(m)
  \/ \E i \in ItemIds : OnItemStarted(i)
  \/ BeginNewItem(NoItem)

LedgerSpec == LedgerInit /\ [][LedgerNext]_ledgerVars

-----------------------------------------------------------------------------
(* Properties *)

LedgerTypeOK ==
  /\ DOMAIN marks \subseteq MarkNames
  /\ \A m \in DOMAIN marks : marks[m] \in Nat
  /\ marks = [m \in DOMAIN marks |-> marks[m]]
  /\ playedBytes \in Nat
  /\ queuedBytes \in Nat
  /\ itemStartOffset \in Nat
  /\ currentItemId \in ItemIds \cup {NoItem}

\* The three baselines stay consistent through acks in any order, item
\* changes and flushes: played never overtakes queued, an item never starts
\* past the queued watermark, and every outstanding mark lies strictly
\* between what was played and what was queued
\* (playback_ledger.py:57-102; barge_in.py:64-66 reads all three).
WatermarksConsistent ==
  /\ playedBytes <= queuedBytes
  /\ itemStartOffset <= queuedBytes
  /\ \A m \in DOMAIN marks : playedBytes < marks[m] /\ marks[m] <= queuedBytes

\* "A dropped ack self-heals, because any later mark's cumulative total
\* already covers every mark before it" (playback_ledger.py:67-69): while some
\* queued audio is unplayed, a mark is still outstanding whose ack alone
\* brings the played count up to everything queued.
DroppedAckHeals ==
  playedBytes < queuedBytes => \E m \in DOMAIN marks : marks[m] = queuedBytes

\* Both: whatever order acks, items and flushes come in, the ledger's readings
\* stay meaningful and can still reach what was sent (playback_ledger.py:57-102).
LedgerSound == WatermarksConsistent /\ DroppedAckHeals

\* "A late ack must never walk the played count backwards"
\* (playback_ledger.py:66-67), and no flush or item change does either.
PlayedNeverRewinds == [][playedBytes' >= playedBytes]_ledgerVars

=============================================================================
