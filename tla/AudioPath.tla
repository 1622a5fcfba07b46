------------------------------ MODULE AudioPath ------------------------------
(***************************************************************************)
(* Agent audio from the model to the caller, and the barge-in that cuts it *)
(* off (apps/api/media/bridge.py, apps/api/media/barge_in.py).             *)
(*                                                                         *)
(* Three asyncio tasks share the ledger and the outbound queue:            *)
(*   pump_openai    queues audio, starts items, runs the barge-in          *)
(*   pump_outbound  writes a media and a mark message, then ledgers them   *)
(*   pump_twilio    feeds mark acks to the ledger                          *)
(* A write to a socket happens at the call and its await may then suspend  *)
(* the task, so an action ends where an await follows a write and the      *)
(* other tasks may run there. A pump is sequential: while a cut is under   *)
(* way, pump_openai handles nothing else. Statistics, the latency clock    *)
(* and the barge_in event are left out; what a truncation does to the      *)
(* stored turns is in TurnLog.                                             *)
(*                                                                         *)
(* External: Twilio's buffer `wire` plays in order and echoes a mark once  *)
(* the audio before it was played; a clear empties it. An ack may be late, *)
(* duplicated, reordered or never arrive. The model announces items and    *)
(* streams their audio, also after it was told to stop.                    *)
(***************************************************************************)
EXTENDS PlaybackLedger, SequencesExt

CONSTANTS
  OutboundQueueMax,    \* capacity of the bridge's queue
  MaxFrames            \* bound: audio deltas in one call

ASSUME AudioAssumption ==
  /\ OutboundQueueMax \in Nat \ {0}
  /\ MaxFrames \in Nat
  /\ MarkNames = 1..MaxFrames

VARIABLES
  markSeq,      \* bridge._mark_seq
  outbound,     \* bridge._outbound: frames not yet written
  unfinished,   \* the queue's join counter
  pumpAt,       \* what pump_outbound last did: "get" is waiting for a frame
  inFlight,     \* the frame it is writing, the last one it wrote when idle
  cut,          \* the barge-in under way
  told,         \* items truncated at the model: item -> audio_end_ms
  lastCut,      \* history: markSeq at the last cut of each cause, -1 before
  blurred,      \* history: an item began behind audio the ledger did not know of
  wire,         \* external: what Twilio has received and not played
  acks,         \* external: mark acks on their way back
  heard,        \* external: item -> bytes the caller has heard
  started       \* external: items announced by the model, in order

queueVars == <<markSeq, outbound, unfinished>>
pumpVars == <<pumpAt, inFlight>>
cutVars == <<cut, told, lastCut>>
itemVars == <<started, blurred>>
twilioVars == <<wire, acks, heard>>
audioVars == <<ledgerVars, queueVars, pumpVars, cutVars, twilioVars, itemVars>>

Frames == [mark : MarkNames, bytes : ChunkSizes, item : ItemIds]
NoFrame == [mark |-> 0, bytes |-> 0, item |-> NoItem]
Causes == {"speech", "safety"}
NoCut == [at |-> "idle", item |-> NoItem, audioEndMs |-> 0]

AudioInit ==
  /\ LedgerInit
  /\ markSeq = 0
  /\ outbound = <<>>
  /\ unfinished = 0
  /\ pumpAt = "get"
  /\ inFlight = NoFrame
  /\ cut = NoCut
  /\ told = [i \in {} |-> 0]
  /\ lastCut = [c \in Causes |-> -1]
  /\ blurred = FALSE
  /\ wire = <<>>
  /\ acks = {}
  /\ heard = [i \in ItemIds |-> 0]
  /\ started = <<>>

-----------------------------------------------------------------------------
(* pump_openai *)

\* pump_openai takes its next event.
NextEvent == cut.at = "idle"

ItemAdded(i) ==
  /\ NextEvent
  /\ \A k \in DOMAIN started : started[k] # i
  /\ started' = Append(started, i)
  /\ blurred' = (blurred \/ outbound # <<>> \/ pumpAt # "get")
  /\ OnItemStarted(i)
  /\ UNCHANGED <<queueVars, pumpVars, cutVars, twilioVars>>

\* A full queue loses its oldest frame, never the new one.
SendAudio(i, b) ==
  LET frame == [mark |-> markSeq + 1, bytes |-> b, item |-> i]
  IN  /\ NextEvent
      /\ i \in ToSet(started)
      /\ markSeq < MaxFrames
      /\ markSeq' = markSeq + 1
      /\ \/ /\ Len(outbound) < OutboundQueueMax
            /\ outbound' = Append(outbound, frame)
            /\ unfinished' = unfinished + 1
         \/ /\ Len(outbound) = OutboundQueueMax
            /\ outbound' = Append(Tail(outbound), frame)
            /\ unfinished' = (unfinished - 1) + 1
      /\ blurred' = (blurred \/ i # Last(started))
      /\ UNCHANGED <<ledgerVars, pumpVars, cutVars, twilioVars, started>>

\* Mutant: the discarded frames are not settled with task_done.
DiscardQueuedAudioUnsettled ==
  /\ outbound' = <<>>
  /\ UNCHANGED <<markSeq, unfinished>>

DiscardQueuedAudio ==
  /\ outbound' = <<>>
  /\ unfinished' = unfinished - Len(outbound)
  /\ UNCHANGED markSeq

\* Twilio drops its buffer; it may echo the marks that were in it.
TwilioClears ==
  /\ wire' = <<>>
  /\ \/ UNCHANGED acks
     \/ acks' = acks \cup {wire[k].frame.mark : k \in {n \in DOMAIN wire : wire[n].kind = "mark"}}
  /\ UNCHANGED heard

\* on_speech_started up to its first await: read the ledger, send `clear`.
StartCut(cause) ==
  /\ cut' = [at |-> "cleared", item |-> currentItemId, audioEndMs |-> PlayedMsForCurrentItem]
  /\ lastCut' = [lastCut EXCEPT ![cause] = markSeq]
  /\ TwilioClears
  /\ UNCHANGED <<ledgerVars, pumpVars, told, itemVars>>

\* Mutant: the barge-in clears Twilio's buffer only.
OnBargeInRemoteOnly ==
  /\ NextEvent
  /\ StartCut("speech")
  /\ UNCHANGED queueVars

OnBargeIn ==
  /\ NextEvent
  /\ DiscardQueuedAudio
  /\ StartCut("speech")

\* _check_escalation cuts at most once per call, and only the Twilio side.
SafetyPreempts ==
  /\ NextEvent
  /\ lastCut["safety"] = -1
  /\ StartCut("safety")
  /\ UNCHANGED queueVars

Truncates(c) == c.item # NoItem /\ c.audioEndMs > 0

\* response.cancel, then conversation.item.truncate when something was heard.
Reconcile ==
  /\ cut.at = "cleared"
  /\ cut' = [cut EXCEPT !.at = "reconciled"]
  /\ \/ /\ Truncates(cut)
        /\ told' = [i \in DOMAIN told \cup {cut.item} |->
                      IF i = cut.item THEN cut.audioEndMs ELSE told[i]]
     \/ /\ ~Truncates(cut)
        /\ UNCHANGED told
  /\ UNCHANGED <<ledgerVars, queueVars, pumpVars, lastCut, twilioVars, itemVars>>

\* Mutant: the flush is taken for an ordinary transition.
EndCutAsTransition ==
  /\ cut.at = "reconciled"
  /\ cut' = NoCut
  /\ OnItemStarted(NoItem)
  /\ UNCHANGED <<queueVars, pumpVars, told, lastCut, twilioVars, itemVars>>

EndCut ==
  /\ cut.at = "reconciled"
  /\ cut' = NoCut
  /\ BeginNewItem(NoItem)
  /\ UNCHANGED <<queueVars, pumpVars, told, lastCut, twilioVars, itemVars>>

-----------------------------------------------------------------------------
(* pump_outbound *)

PumpWrites(kind, frame) ==
  /\ wire' = Append(wire, [kind |-> kind, frame |-> frame])
  /\ pumpAt' = kind
  /\ UNCHANGED <<ledgerVars, markSeq, unfinished, cutVars, acks, heard, itemVars>>

PumpMedia ==
  /\ pumpAt = "get"
  /\ outbound # <<>>
  /\ inFlight' = Head(outbound)
  /\ outbound' = Tail(outbound)
  /\ PumpWrites("media", Head(outbound))

PumpMark ==
  /\ pumpAt = "media"
  /\ PumpWrites("mark", inFlight)
  /\ UNCHANGED <<outbound, inFlight>>

PumpRecord ==
  /\ pumpAt = "mark"
  /\ OnChunkSent(inFlight.mark, inFlight.bytes)
  /\ unfinished' = unfinished - 1
  /\ pumpAt' = "get"
  /\ UNCHANGED <<markSeq, outbound, inFlight, cutVars, twilioVars, itemVars>>

-----------------------------------------------------------------------------
(* pump_twilio: an ack, of which another copy may follow *)

MarkArrives(m) ==
  /\ m \in acks
  /\ acks' \in {acks, acks \ {m}}
  /\ OnMarkAck(m)
  /\ UNCHANGED <<queueVars, pumpVars, cutVars, wire, heard, itemVars>>

-----------------------------------------------------------------------------
(* External: Twilio plays the head of its buffer *)

TwilioPlays ==
  /\ wire # <<>>
  /\ wire' = Tail(wire)
  /\ LET entry == Head(wire)
     IN  \/ /\ entry.kind = "media"
            /\ heard' = [heard EXCEPT ![entry.frame.item] = @ + entry.frame.bytes]
            /\ UNCHANGED acks
         \/ /\ entry.kind = "mark"
            /\ acks' = acks \cup {entry.frame.mark}
            /\ UNCHANGED heard
  /\ UNCHANGED <<ledgerVars, queueVars, pumpVars, cutVars, itemVars>>

-----------------------------------------------------------------------------

AudioNext ==
  \/ \E i \in ItemIds : ItemAdded(i)
  \/ \E i \in ItemIds, b \in ChunkSizes : SendAudio(i, b)
  \/ OnBargeIn
  \/ SafetyPreempts
  \/ Reconcile
  \/ EndCut
  \/ PumpMedia
  \/ PumpMark
  \/ PumpRecord
  \/ \E m \in MarkNames : MarkArrives(m)
  \/ TwilioPlays

AudioSpec == AudioInit /\ [][AudioNext]_audioVars

-----------------------------------------------------------------------------
(* Properties *)

AudioTypeOK ==
  /\ LedgerTypeOK
  /\ markSeq \in 0..MaxFrames
  /\ outbound \in Seq(Frames)
  /\ unfinished \in Int
  /\ pumpAt \in {"get", "media", "mark"}
  /\ inFlight \in Frames \cup {NoFrame}
  /\ pumpAt # "get" => inFlight \in Frames
  /\ cut.at \in {"idle", "cleared", "reconciled"}
  /\ lastCut \in [Causes -> -1..MaxFrames]
  /\ acks \subseteq MarkNames
  /\ heard \in [ItemIds -> Nat]

\* Queue.join returns exactly when every frame was written, lost or
\* discarded: overflow, barge-in and pump each settle the join counter once
\* per frame (bridge.py:409-415, 453, 463-469). One missed task_done and every
\* drain waits out its timeout; one too many raises inside the pump. The queue
\* itself never outgrows its capacity.
JoinCounterExact ==
  /\ unfinished = Len(outbound) + (IF pumpAt = "get" THEN 0 ELSE 1)
  /\ Len(outbound) <= OutboundQueueMax

\* The outbound state as a whole: types, and the counter that a drain waits for
\* (bridge.py:405-415).
AudioStateOK == AudioTypeOK /\ JoinCounterExact

\* The caller can only lose audio, never hear it twice or out of order: frames
\* in the queue are in the order the model produced them and all of them are
\* newer than the one being written (bridge.py:396-415).
WireOrder ==
  /\ \A j, k \in DOMAIN outbound : j < k => outbound[j].mark < outbound[k].mark
  /\ \A k \in DOMAIN outbound : inFlight.mark < outbound[k].mark /\ outbound[k].mark <= markSeq

\* "Local queue first, then Twilio's buffer" (bridge.py:475-476): audio still
\* queued when the caller starts to speak is never written afterwards. The
\* one frame the pump already holds is not queued any more.
SpeechCutSilences ==
  \A k \in DOMAIN outbound : outbound[k].mark > lastCut["speech"]

\* Both: what is written is in the model's order and newer than the last cut
\* the caller's speech made (bridge.py:396-415, 475-476).
CutQueueOrdered == WireOrder /\ SpeechCutSilences

\* The same demand for every cut, the one for a safety keyword included:
\* "Reversing these means the pump writes fresh audio in behind the `clear`
\* that was meant to silence it" (bridge.py:475-476); "Safety pre-empts
\* whatever is playing" (bridge.py:569).
EveryCutSilences ==
  \A k \in DOMAIN outbound, c \in Causes : outbound[k].mark > lastCut[c]

\* An item is truncated at most once: the flush forgets the item, so no later
\* cut can revise what the model was told the caller heard (barge_in.py:81-93,
\* playback_ledger.py:99-102).
TruncatedOnce ==
  cut.at = "cleared" /\ Truncates(cut) => cut.item \notin DOMAIN told

\* audio_end_ms never exceeds what the caller heard of the item that is cut:
\* `audio_end_ms` is "a statement about what the caller heard rather than what
\* we intended" (bridge.py:422-423).
CutIsHonest ==
  cut'.at = "cleared" /\ cut'.item # NoItem
    => cut'.audioEndMs <= BytesToMs(heard[cut'.item])

TruncationAlwaysHonest == [][CutIsHonest]_cut

\* The same while every item began with the local queue written out and no
\* audio of an older item came after it: late, lost, duplicated and reordered
\* acks, discarded frames and cuts in the middle of a write never inflate it.
TruncationHonest == [][~blurred => CutIsHonest]_cut

\* The pumps use the ledger as LedgerSpec allows: "Confusing those two" item
\* boundaries "is how a truncation offset silently drifts for the rest of a
\* call" (playback_ledger.py:17-18).
ImplementsLedger == LedgerSpec

=============================================================================
