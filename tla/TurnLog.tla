------------------------------ MODULE TurnLog ------------------------------
(***************************************************************************)
(* Which rows of `turns` a call leaves behind: the transcripts pump_openai *)
(* stores, the partial text it keeps for a call that ends mid-answer, and  *)
(* the truncation a barge-in writes onto rows that are already there       *)
(* (apps/api/media/bridge.py, apps/api/media/gateway.py,                   *)
(* apps/api/db/repository.py).                                             *)
(*                                                                         *)
(* A row is made first and stored after an await. Until then it is in the  *)
(* hand of pump_openai, or of whoever closes the bridge; the pump reads no *)
(* event meanwhile, but acks arrive, the call may end, and the write may   *)
(* raise or be cut off. A cut awaits its sends between reading the ledger  *)
(* and flushing it. How far the current item has been played is            *)
(* AudioPath's business; here it grows by itself.                          *)
(*                                                                         *)
(* External: the model service. A spoken item is announced, its transcript *)
(* arrives in deltas and then as a whole, also when the item was cut off.  *)
(* The out-of-band classifier answers with a message item that is text.    *)
(***************************************************************************)
EXTENDS Integers, Sequences, FiniteSets

CONSTANTS
  Items,         \* spoken items of one call
  TextItems,     \* items of the classifier, which say nothing
  NoItem,        \* Python's None
  MaxPlayedMs,   \* bound: how far one item is played
  MaxCallerTurns \* bound

ASSUME TurnLogAssumption ==
  /\ Items \cap TextItems = {} /\ NoItem \notin Items \cup TextItems
  /\ MaxPlayedMs \in Nat /\ MaxCallerTurns \in Nat

VARIABLES
  currentItemId,    \* ledger.current_item_id
  playedMs,         \* ledger.played_ms_for_current_item()
  partial,          \* items whose text is in bridge._partial_agent_text
  rows,             \* the turns of this call, in order of insertion
  safetyCutDone,    \* the one safety cut of the call has happened
  storing,          \* who -> the row whose insert it awaits
  cut,              \* the cut whose sends or truncation the pump awaits
  stopping,         \* bridge._stop
  pumpOver,         \* pump_openai has returned, raised or been cancelled
  over,             \* bridge._closed: the last turn was handed to the flush
  produced,         \* external: item -> where the service is with it
  overlapped,       \* history: an item began beside one that was not done
  cutAt,            \* history: items cut off -> milliseconds heard
  lost              \* history: items whose row was not stored when awaited

ledgerVars == <<currentItemId, playedMs>>
endVars == <<stopping, pumpOver, over>>
serviceVars == <<produced, overlapped>>
turnLogVars == <<ledgerVars, partial, rows, safetyCutDone, storing, cut, endVars, serviceVars, cutAt, lost>>

Null == -1
Writers == {"pump", "closer"}

TurnInit ==
  /\ currentItemId = NoItem
  /\ playedMs = 0
  /\ partial = {}
  /\ rows = <<>>
  /\ safetyCutDone = FALSE
  /\ storing = [w \in Writers |-> {}]
  /\ cut = {}
  /\ stopping = FALSE
  /\ pumpOver = FALSE
  /\ over = FALSE
  /\ produced = [i \in Items \cup TextItems |-> "new"]
  /\ overlapped = FALSE
  /\ cutAt = [i \in {} |-> 0]
  /\ lost = {}

-----------------------------------------------------------------------------
(* Storing turns *)

\* A row takes the id of whatever item is current, whoever spoke.
RecordTurn(w, role, of) ==
  storing' = [storing EXCEPT ![w] =
                {[role |-> role, of |-> of, itemId |-> currentItemId, truncatedAtMs |-> Null]}]

\* on_turn: the insert commits.
StoreTurn(w) ==
  /\ \E r \in storing[w] : rows' = Append(rows, r)
  /\ storing' = [storing EXCEPT ![w] = {}]
  /\ UNCHANGED <<ledgerVars, partial, safetyCutDone, cut, endVars, serviceVars, cutAt, lost>>

\* Its insert raised, or was cut off before it committed.
DropTurn(w) ==
  /\ storing' = [storing EXCEPT ![w] = {}]
  /\ lost' = lost \cup UNION {r.of : r \in storing[w]}

SetTurnTruncation(item, ms) ==
  rows' = [k \in DOMAIN rows |->
             IF rows[k].itemId = item THEN [rows[k] EXCEPT !.truncatedAtMs = ms] ELSE rows[k]]

-----------------------------------------------------------------------------
(* pump_openai *)

\* Nothing is awaited; a new event is read unless the call is stopping.
BetweenWrites == ~pumpOver /\ storing["pump"] = {} /\ cut = {}
ReadsEvent == BetweenWrites /\ ~stopping

Idle == \A i \in Items : produced[i] # "speaking"

ItemStarted(i) ==
  /\ currentItemId' = i
  /\ playedMs' = 0

ItemAdded(i) ==
  /\ ReadsEvent
  /\ produced[i] = "new"
  /\ overlapped' = (overlapped \/ ~Idle)
  /\ produced' = [produced EXCEPT ![i] = "speaking"]
  /\ ItemStarted(i)
  /\ UNCHANGED <<partial, rows, safetyCutDone, storing, cut, endVars, cutAt, lost>>

\* The classifier's answer is a message item as well.
TextItemAdded(i) ==
  /\ ReadsEvent
  /\ overlapped' = TRUE
  /\ produced[i] = "new"
  /\ produced' = [produced EXCEPT ![i] = "done"]
  /\ ItemStarted(i)
  /\ UNCHANGED <<partial, rows, safetyCutDone, storing, cut, endVars, cutAt, lost>>

TranscriptDelta(i) ==
  /\ ReadsEvent
  /\ produced[i] = "speaking"
  /\ partial' = partial \cup {i}
  /\ UNCHANGED <<ledgerVars, rows, safetyCutDone, storing, cut, endVars, serviceVars, cutAt, lost>>

\* Mutant: the partial text outlives the transcript.
TranscriptDoneKeepingPartial(i) ==
  /\ ReadsEvent
  /\ produced[i] = "speaking"
  /\ produced' = [produced EXCEPT ![i] = "done"]
  /\ RecordTurn("pump", "agent", {i})
  /\ UNCHANGED <<ledgerVars, partial, rows, safetyCutDone, cut, endVars, overlapped, cutAt, lost>>

\* The partial text is cleared before the insert is awaited.
TranscriptDone(i) ==
  /\ ReadsEvent
  /\ produced[i] = "speaking"
  /\ produced' = [produced EXCEPT ![i] = "done"]
  /\ partial' = {}
  /\ RecordTurn("pump", "agent", {i})
  /\ UNCHANGED <<ledgerVars, rows, safetyCutDone, cut, endVars, overlapped, cutAt, lost>>

CallerTranscript ==
  /\ ReadsEvent
  /\ Cardinality({k \in DOMAIN rows : rows[k].role = "caller"}) < MaxCallerTurns
  /\ RecordTurn("pump", "caller", {})
  /\ UNCHANGED <<ledgerVars, partial, rows, safetyCutDone, cut, endVars, serviceVars, cutAt, lost>>

\* on_speech_started reads the ledger, then awaits `clear` and the cancel.
Cuts(why) ==
  /\ cut' = {[item |-> currentItemId, ms |-> playedMs, at |-> why]}
  /\ UNCHANGED <<ledgerVars, partial, rows, storing, endVars, serviceVars, cutAt, lost>>

OnBargeIn ==
  /\ ReadsEvent
  /\ Cuts("barge_in")
  /\ UNCHANGED safetyCutDone

\* The cut inside _check_escalation, which ends a handler that is under way.
SafetyPreempts ==
  /\ BetweenWrites
  /\ ~safetyCutDone
  /\ safetyCutDone' = TRUE
  /\ Cuts("safety")

\* Mutant: the flush does not forget the item.
BeginNewItemKeepingId == \E c \in cut :
  /\ c.at \in {"barge_in", "safety"}
  /\ playedMs' = 0
  /\ cutAt' = [i \in DOMAIN cutAt \cup ({c.item} \cap Items) |-> IF i = c.item THEN c.ms ELSE cutAt[i]]
  /\ cut' = {[d EXCEPT !.at = "truncation"] : d \in {e \in cut : e.at = "barge_in" /\ e.item # NoItem}}
  /\ UNCHANGED <<currentItemId, partial, rows, safetyCutDone, storing, endVars, serviceVars, lost>>

\* The sends are through: ledger.begin_new_item(). Only a barge-in goes on to
\* the truncation hook. History: what was cut.
BeginNewItem == \E c \in cut :
  /\ c.at \in {"barge_in", "safety"}
  /\ currentItemId' = NoItem
  /\ playedMs' = 0
  /\ cutAt' = [i \in DOMAIN cutAt \cup ({c.item} \cap Items) |-> IF i = c.item THEN c.ms ELSE cutAt[i]]
  /\ cut' = {[d EXCEPT !.at = "truncation"] : d \in {e \in cut : e.at = "barge_in" /\ e.item # NoItem}}
  /\ UNCHANGED <<partial, rows, safetyCutDone, storing, endVars, serviceVars, lost>>

\* on_truncation commits.
OnTruncation == \E c \in cut :
  /\ c.at = "truncation"
  /\ SetTurnTruncation(c.item, c.ms)
  /\ cut' = {}
  /\ UNCHANGED <<ledgerVars, partial, safetyCutDone, storing, endVars, serviceVars, cutAt, lost>>

\* Something it awaits raises, which ends the call; or the call is stopping and
\* the pump returns, or is cancelled where it waits.
PumpEnds ==
  /\ ~pumpOver
  /\ stopping \/ storing["pump"] # {} \/ cut # {}
  /\ pumpOver' = TRUE
  /\ stopping' = TRUE
  /\ cut' = {}
  /\ DropTurn("pump")
  /\ UNCHANGED <<ledgerVars, partial, rows, safetyCutDone, over, serviceVars, cutAt>>

-----------------------------------------------------------------------------
(* The end of the call: run() or shutdown() closes the bridge *)

Stop ==
  /\ ~stopping
  /\ stopping' = TRUE
  /\ UNCHANGED <<ledgerVars, partial, rows, safetyCutDone, storing, cut, pumpOver, over, serviceVars, cutAt, lost>>

\* Mutant: the call ends without the flush.
FlushNothing ==
  /\ stopping /\ ~over
  /\ over' = TRUE
  /\ partial' = {}
  /\ UNCHANGED <<ledgerVars, rows, safetyCutDone, storing, cut, stopping, pumpOver, serviceVars, cutAt, lost>>

FlushPartialTurn ==
  /\ stopping /\ ~over
  /\ over' = TRUE
  /\ partial' = {}
  /\ \/ /\ partial # {}
        /\ RecordTurn("closer", "agent", partial)
     \/ /\ partial = {}
        /\ UNCHANGED storing
  /\ UNCHANGED <<ledgerVars, rows, safetyCutDone, cut, stopping, pumpOver, serviceVars, cutAt, lost>>

\* The failure of the last insert is logged and swallowed.
FlushFails ==
  /\ storing["closer"] # {}
  /\ DropTurn("closer")
  /\ UNCHANGED <<ledgerVars, partial, rows, safetyCutDone, cut, endVars, serviceVars, cutAt>>

-----------------------------------------------------------------------------
(* pump_twilio: acks raise the played watermark *)

Played ==
  /\ currentItemId # NoItem
  /\ playedMs < MaxPlayedMs
  /\ playedMs' = playedMs + 1
  /\ UNCHANGED <<currentItemId, partial, rows, safetyCutDone, storing, cut, endVars, serviceVars, cutAt, lost>>

-----------------------------------------------------------------------------

TurnNext ==
  \/ \E i \in Items : ItemAdded(i) \/ TranscriptDelta(i) \/ TranscriptDone(i)
  \/ \E i \in TextItems : TextItemAdded(i)
  \/ CallerTranscript
  \/ OnBargeIn \/ SafetyPreempts \/ BeginNewItem \/ OnTruncation
  \/ \E w \in Writers : StoreTurn(w)
  \/ PumpEnds
  \/ Stop \/ FlushPartialTurn \/ FlushFails
  \/ Played

TurnSpec == TurnInit /\ [][TurnNext]_turnLogVars

-----------------------------------------------------------------------------
(* Properties *)

Row == [role : {"caller", "agent"}, of : SUBSET Items,
        itemId : Items \cup TextItems \cup {NoItem}, truncatedAtMs : Null..MaxPlayedMs]

TurnTypeOK ==
  /\ currentItemId \in Items \cup TextItems \cup {NoItem}
  /\ playedMs \in 0..MaxPlayedMs
  /\ partial \subseteq Items
  /\ rows \in Seq(Row)
  /\ storing \in [Writers -> SUBSET Row]
  /\ cut \subseteq [item : Items \cup TextItems \cup {NoItem}, ms : 0..MaxPlayedMs,
                    at : {"barge_in", "safety", "truncation"}]
  /\ safetyCutDone \in BOOLEAN /\ overlapped \in BOOLEAN
  /\ stopping \in BOOLEAN /\ pumpOver \in BOOLEAN /\ over \in BOOLEAN
  /\ produced \in [Items \cup TextItems -> {"new", "speaking", "done"}]
  /\ DOMAIN cutAt \subseteq Items /\ lost \subseteq Items

RowsOf(i) == {k \in DOMAIN rows : i \in rows[k].of}

\* Whatever the order of deltas, transcripts, cuts and the end of the call, no
\* words of the agent get two rows (bridge.py:361-363 and 252-253 both clear
\* the partial text before they store).
NoTurnTwice == \A i \in Items : Cardinality(RowsOf(i)) <= 1

\* What a row says about a cut is never revised: the flush forgets the item,
\* so no later cut names it (playback_ledger.py:99-102, repository.py:122-129).
TruncationIsFinal ==
  [][\A k \in DOMAIN rows : rows[k].truncatedAtMs # Null => rows'[k] = rows[k]]_rows

\* "truncated_at_ms -- set when this turn was barged over" (PRD.md:500), for
\* the agent's turns and without overlapping responses: a marked turn was cut,
\* and the row tells how much of it the caller heard.
MarkedAgentTurnWasCut ==
  \A k \in DOMAIN rows :
    ~overlapped /\ rows[k].role = "agent" /\ rows[k].truncatedAtMs # Null =>
      \E i \in rows[k].of : i \in DOMAIN cutAt /\ cutAt[i] = rows[k].truncatedAtMs

HadText(i) == produced[i] = "done" \/ i \in partial
Held(i) == \E w \in Writers : \E r \in storing[w] : i \in r.of
Logged(i) == RowsOf(i) # {}
Accounted(i) == i \in partial \/ Held(i) \/ Logged(i) \/ i \in lost

\* "Without this a caller who hangs up mid-answer leaves a transcript that
\* stops one turn early" (bridge.py:248-249). Without overlapping responses,
\* text that has arrived stays in the partial text or in the hand of whoever
\* stores it until it has a row, wherever the call ends; the code forgets it
\* only when that insert raises or is cut off (bridge.py:252-257, 361-363).
TextStays ==
  \A i \in Items : HadText(i) /\ ~overlapped => Accounted(i)' \/ overlapped'

\* And such a loss is the end of the agent's transcript, never a hole in it:
\* once words were lost, no row of the agent is stored any more, although the
\* pump and a shutdown store turns side by side (bridge.py:183-231).
LossIsLast ==
  lost # {} => \A k \in DOMAIN rows' \ DOMAIN rows : rows'[k].role = "caller"

NoTextLost == [][TextStays /\ LossIsLast]_turnLogVars

\* PRD.md:500 read the other way round: the row of a turn that was barged over
\* while the caller heard it is marked, once it is stored.
CutTurnIsMarked ==
  \A i \in DOMAIN cutAt, k \in DOMAIN rows :
    rows[k].of = {i} /\ cutAt[i] > 0 => rows[k].truncatedAtMs = cutAt[i]

\* Types, no words twice, and truncations on the rows that were cut
\* (bridge.py:329-385, repository.py:97-129).
TurnRowsOK == TurnTypeOK /\ NoTurnTwice /\ MarkedAgentTurnWasCut

=============================================================================
