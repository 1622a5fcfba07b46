---------------------------- MODULE LiveCallProofs ----------------------------
(***************************************************************************)
(* What a call leaves behind while it is live, for any number of items,    *)
(* turns and milliseconds: no words get two rows, words that arrived are   *)
(* lost only with a failed insert, and what a row says about a cut is      *)
(* final.                                                                  *)
(***************************************************************************)
EXTENDS TurnLog, Budget, FiniteSetTheorems, TLAPS

-----------------------------------------------------------------------------
(* Turn rows *)

\* The items: one is announced once, cut off at most once, and has partial text
\* only while it is spoken; without overlap one is spoken at a time, and it is
\* the current one until it is cut.
SpokenInv ==
  /\ currentItemId # NoItem => produced[currentItemId] # "new"
  /\ \A i \in partial : produced[i] = "speaking"
  /\ \A i \in DOMAIN cutAt : produced[i] # "new" /\ i # currentItemId
  /\ ~overlapped => \A i, j \in Items :
       produced[i] = "speaking" /\ produced[j] = "speaking" => i = j /\ currentItemId \in {i, NoItem}

\* A row that is made, stored or not: its words are done or the call is over, an
\* agent's row has words, and without overlap it names their item, or none.
RowOK(r) ==
  /\ \A i \in r.of : produced[i] = "done" \/ over
  /\ r.role = "agent" => r.of # {}
  /\ r.role = "agent" /\ ~overlapped => \A i \in r.of : r.itemId \in {i, NoItem}

\* The rows: no words are in two of them; a marked row names an item that will
\* not be current again.
RowsInv ==
  /\ \A k, l \in DOMAIN rows, i \in Items : i \in rows[k].of /\ i \in rows[l].of => k = l
  /\ \A k \in DOMAIN rows : RowOK(rows[k])
  /\ \A k \in DOMAIN rows : rows[k].truncatedAtMs # Null =>
       rows[k].itemId # NoItem /\ rows[k].itemId # currentItemId /\ produced[rows[k].itemId] # "new"

\* The cut that is under way: it read the current item; when it goes on to mark
\* rows, that item is past, and no row of it was marked before.
CutInv ==
  /\ \A c, d \in cut : c = d
  /\ \A c \in cut : c.at # "truncation" => c.item = currentItemId
  /\ \A c \in cut : c.at = "truncation" =>
       /\ c.item # NoItem /\ c.item # currentItemId /\ produced[c.item] # "new"
       /\ \A k \in DOMAIN rows : rows[k].itemId = c.item => rows[k].truncatedAtMs = Null
       /\ c.item \in Items => c.item \in DOMAIN cutAt /\ cutAt[c.item] = c.ms

\* The rows in hand: one for each writer, unmarked, with words no stored row has.
HeldInv == \A w \in Writers :
  /\ \A r, s \in storing[w] : r = s
  /\ \A r \in storing[w] : /\ RowOK(r) /\ r.truncatedAtMs = Null
                           /\ \A k \in DOMAIN rows : r.of \cap rows[k].of = {}

\* The end: words are in one hand at a time, the flush comes after the stop, and
\* when words were lost the agent has no row to come.
EndInv ==
  /\ \A r \in storing["pump"] : r.of # {} => partial = {} /\ storing["closer"] = {}
  /\ storing["closer"] # {} => over
  /\ over => stopping /\ partial = {}
  /\ lost # {} => stopping /\ partial = {} /\ \A w \in Writers : \A r \in storing[w] : r.role = "caller"

\* The words of an item that is done are in hand, in a row, or lost.
DoneInv == \A i \in Items : produced[i] = "done" => Held(i) \/ Logged(i) \/ i \in lost

TurnInv == /\ TurnTypeOK /\ SpokenInv /\ RowsInv /\ CutInv /\ HeldInv /\ EndInv /\ DoneInv
           /\ MarkedAgentTurnWasCut

\* A call begins without items and rows (bridge.py:159-172).
LEMMA TurnInitInv == TurnInit => TurnInv
<1>. SUFFICES ASSUME TurnInit PROVE TurnInv
  OBVIOUS
<1>1. /\ rows \in Seq(Row) /\ DOMAIN rows = {} /\ DOMAIN cutAt = {} /\ cut = {} /\ lost = {} /\ partial = {}
      /\ storing \in [Writers -> SUBSET Row] /\ \A w \in Writers : storing[w] = {}
  BY DEF TurnInit
<1>2. TurnTypeOK
  <2>1. /\ safetyCutDone \in BOOLEAN /\ over \in BOOLEAN /\ overlapped \in BOOLEAN
        /\ stopping \in BOOLEAN /\ pumpOver \in BOOLEAN
    BY DEF TurnInit
  <2>2. /\ currentItemId = NoItem /\ playedMs \in 0..MaxPlayedMs
        /\ produced \in [Items \cup TextItems -> {"new", "speaking", "done"}]
    BY TurnLogAssumption DEF TurnInit
  <2>. QED BY <1>1, <2>1, <2>2 DEF TurnTypeOK
<1>3. SpokenInv
  BY <1>1 DEF TurnInit, SpokenInv
<1>4. RowsInv /\ MarkedAgentTurnWasCut
  BY <1>1 DEF TurnInit, RowsInv, MarkedAgentTurnWasCut
<1>5. CutInv /\ HeldInv
  BY <1>1 DEF CutInv, HeldInv
<1>6. EndInv
  BY <1>1 DEF TurnInit, EndInv, Writers
<1>7. DoneInv
  BY DEF TurnInit, DoneInv
<1>. QED BY <1>2, <1>3, <1>4, <1>5, <1>6, <1>7 DEF TurnInv

\* Every row of the log is one of Row.
LEMMA RowsAreRows ==
  ASSUME TurnTypeOK
  PROVE  /\ DOMAIN rows = 1..Len(rows) /\ Len(rows) \in Nat
         /\ \A k \in DOMAIN rows : rows[k] \in Row
  BY DEF TurnTypeOK

\* The service moves an item on, and the call towards its end.
MovesOn ==
  /\ \A i \in Items \cup TextItems : produced[i] = "done" => produced'[i] = "done"
  /\ \A i \in Items \cup TextItems : produced'[i] = "new" => produced[i] = "new"
  /\ over => over'
  /\ overlapped => overlapped'
  /\ \A i \in DOMAIN cutAt : i \in DOMAIN cutAt' /\ cutAt'[i] = cutAt[i]

\* What is true of a row stays true of it.
LEMMA RowStaysOK ==
  ASSUME MovesOn, NEW r \in Row, RowOK(r)
  PROVE  RowOK(r)'
<1>1. r.of \subseteq Items
  BY DEF Row
<1>. QED BY <1>1 DEF MovesOn, RowOK

\* A step that stores nothing: it announces a new item, or forgets the current
\* one, and remembers the cuts there were.
LEMMA NothingStored ==
  ASSUME TurnInv, MovesOn, UNCHANGED rows,
         currentItemId' = currentItemId \/ currentItemId' = NoItem
           \/ (currentItemId' \in Items \cup TextItems /\ produced[currentItemId'] = "new")
  PROVE  RowsInv' /\ MarkedAgentTurnWasCut'
<1>1. \A k \in DOMAIN rows : /\ rows[k] \in Row /\ rows[k].of \subseteq Items
                             /\ rows[k].itemId \in Items \cup TextItems \cup {NoItem}
  BY RowsAreRows DEF TurnInv, Row
<1>2. (\A k \in DOMAIN rows : RowOK(rows[k]))'
  <2>. SUFFICES ASSUME NEW k \in DOMAIN rows PROVE RowOK(rows[k])'
    OBVIOUS
  <2>1. PICK r \in Row : r = rows[k]
    BY <1>1
  <2>2. RowOK(r)'
    BY <2>1, RowStaysOK DEF TurnInv, RowsInv
  <2>. QED BY <2>1, <2>2 DEF RowOK
<1>3. (\A k \in DOMAIN rows : rows[k].truncatedAtMs # Null =>
         rows[k].itemId # NoItem /\ rows[k].itemId # currentItemId /\ produced[rows[k].itemId] # "new")'
  BY <1>1 DEF TurnInv, RowsInv, MovesOn
<1>4. MarkedAgentTurnWasCut'
  BY DEF TurnInv, MarkedAgentTurnWasCut, MovesOn
<1>. QED BY <1>2, <1>3, <1>4 DEF TurnInv, RowsInv

\* A cut that is under way is untouched by what else happens.
LEMMA CutKept ==
  ASSUME TurnInv, MovesOn, UNCHANGED <<rows, cut, currentItemId>>
  PROVE  CutInv'
<1>1. \A c \in cut : c.item \in Items \cup TextItems \cup {NoItem}
  BY DEF TurnInv, TurnTypeOK
<1>. QED BY <1>1 DEF TurnInv, CutInv, MovesOn

\* What a hand still holds is as good as it was.
LEMMA HandsKept ==
  ASSUME TurnInv, MovesOn, UNCHANGED rows, NEW w \in Writers, NEW r \in storing[w]
  PROVE  (RowOK(r)') /\ r.truncatedAtMs = Null /\ \A k \in DOMAIN rows' : r.of \cap rows'[k].of = {}
<1>1. r \in Row /\ RowOK(r)
  BY DEF TurnInv, TurnTypeOK, HeldInv
<1>2. RowOK(r)'
  BY <1>1, RowStaysOK
<1>. QED BY <1>2 DEF TurnInv, HeldInv

LEMMA HandsKeptInv ==
  ASSUME TurnInv, MovesOn, UNCHANGED rows, \A w \in Writers : storing'[w] \subseteq storing[w]
  PROVE  HeldInv'
<1>. SUFFICES ASSUME NEW w \in Writers
              PROVE  /\ \A r, s \in storing'[w] : r = s
                     /\ \A r \in storing'[w] :
                          (RowOK(r)') /\ r.truncatedAtMs = Null /\ \A k \in DOMAIN rows' : r.of \cap rows'[k].of = {}
  BY DEF HeldInv
<1>1. \A r, s \in storing'[w] : r = s
  BY DEF TurnInv, HeldInv
<1>2. ASSUME NEW r \in storing'[w]
      PROVE  (RowOK(r)') /\ r.truncatedAtMs = Null /\ \A k \in DOMAIN rows' : r.of \cap rows'[k].of = {}
  BY <1>2, HandsKept
<1>. QED BY <1>1, <1>2

\* An item of the agent or of the classifier is announced (bridge.py:347-350).
LEMMA AddedInv ==
  ASSUME TurnInv,
         \/ \E i \in Items : ItemAdded(i)
         \/ \E i \in TextItems : TextItemAdded(i)
  PROVE  TurnInv'
<1>1. PICK i \in Items \cup TextItems :
        /\ ReadsEvent /\ produced[i] = "new" /\ currentItemId' = i /\ playedMs' = 0
        /\ \/ i \in Items /\ produced' = [produced EXCEPT ![i] = "speaking"] /\ overlapped' = (overlapped \/ ~Idle)
           \/ i \in TextItems /\ produced' = [produced EXCEPT ![i] = "done"] /\ overlapped' = TRUE
        /\ UNCHANGED <<partial, rows, safetyCutDone, storing, cut, stopping, pumpOver, over, cutAt, lost>>
  BY DEF ItemAdded, TextItemAdded, ItemStarted, endVars
<1>2. /\ \A j \in Items \cup TextItems : j # i => produced'[j] = produced[j]
      /\ i \in Items => produced'[i] = "speaking"
      /\ i \in TextItems => produced'[i] = "done"
      /\ i \in Items <=> i \notin TextItems
      /\ produced' \in [Items \cup TextItems -> {"new", "speaking", "done"}]
  BY <1>1, TurnLogAssumption DEF TurnInv, TurnTypeOK
<1>3. overlapped' \in BOOLEAN /\ (overlapped => overlapped')
  BY <1>1 DEF TurnInv, TurnTypeOK
<1>4. MovesOn
  BY <1>1, <1>2, <1>3 DEF MovesOn
<1>5. TurnTypeOK'
  BY <1>1, <1>2, <1>3, TurnLogAssumption DEF TurnInv, TurnTypeOK
<1>6. SpokenInv'
  <2>1. currentItemId' # NoItem => produced'[currentItemId'] # "new"
    BY <1>1, <1>2
  <2>2. \A j \in partial' : produced'[j] = "speaking"
    BY <1>1, <1>2 DEF TurnInv, TurnTypeOK, SpokenInv
  <2>3. \A j \in DOMAIN cutAt' : produced'[j] # "new" /\ j # currentItemId'
    BY <1>1, <1>2 DEF TurnInv, TurnTypeOK, SpokenInv
  <2>4. ~overlapped' => \A j \in Items : produced'[j] = "speaking" => j = i
    BY <1>1, <1>2 DEF Idle
  <2>. QED BY <1>1, <2>1, <2>2, <2>3, <2>4 DEF SpokenInv
<1>7. RowsInv' /\ MarkedAgentTurnWasCut'
  BY <1>1, <1>4, NothingStored
<1>8. CutInv'
  BY <1>1 DEF CutInv, ReadsEvent, BetweenWrites
<1>9. HeldInv'
  BY <1>1, <1>4, HandsKeptInv
<1>10. EndInv'
  BY <1>1 DEF TurnInv, EndInv
<1>11. DoneInv'
  BY <1>1, <1>2 DEF TurnInv, DoneInv, Held, Logged, RowsOf
<1>. QED BY <1>5, <1>6, <1>7, <1>8, <1>9, <1>10, <1>11 DEF TurnInv

\* Text arrives, an ack raises the played watermark, the call is told to stop:
\* nothing is made or stored.
LEMMA QuietTurnInv ==
  ASSUME TurnInv, Played \/ Stop \/ \E i \in Items : TranscriptDelta(i)
  PROVE  TurnInv'
<1>0. UNCHANGED <<currentItemId, rows, safetyCutDone, storing, cut, pumpOver, over, produced, overlapped, cutAt, lost>>
  BY DEF Played, Stop, TranscriptDelta, ledgerVars, endVars, serviceVars
<1>a. playedMs' \in 0..MaxPlayedMs
  <2>1. playedMs' = playedMs \/ (playedMs < MaxPlayedMs /\ playedMs' = playedMs + 1)
    BY DEF Played, Stop, TranscriptDelta, ledgerVars
  <2>. QED BY <2>1, TurnLogAssumption DEF TurnInv, TurnTypeOK
<1>b. stopping' \in BOOLEAN
  BY DEF TurnInv, TurnTypeOK, Played, Stop, TranscriptDelta, endVars
<1>c. partial' \subseteq Items /\ \A j \in partial' : produced[j] = "speaking"
  BY DEF TurnInv, TurnTypeOK, SpokenInv, Played, Stop, TranscriptDelta
<1>1. /\ UNCHANGED <<currentItemId, rows, safetyCutDone, storing, cut, pumpOver, over, produced, overlapped, cutAt, lost>>
      /\ playedMs' \in 0..MaxPlayedMs /\ stopping' \in BOOLEAN
      /\ partial' \subseteq Items /\ \A j \in partial' : produced[j] = "speaking"
  BY <1>0, <1>a, <1>b, <1>c
<1>2. MovesOn
  BY <1>1 DEF MovesOn
<1>3. TurnTypeOK'
  BY <1>1 DEF TurnInv, TurnTypeOK
<1>4. SpokenInv'
  BY <1>1 DEF TurnInv, SpokenInv
<1>5. RowsInv' /\ MarkedAgentTurnWasCut'
  BY <1>1, <1>2, NothingStored
<1>6. CutInv'
  BY <1>1, <1>2, CutKept
<1>7. HeldInv'
  BY <1>1, <1>2, HandsKeptInv
<1>8. EndInv'
  <2>1. \/ partial' = partial /\ (stopping => stopping')
        \/ stopping' = stopping /\ ~stopping /\ storing["pump"] = {}
    BY DEF Played, Stop, TranscriptDelta, ReadsEvent, BetweenWrites, endVars
  <2>. QED BY <1>1, <2>1 DEF TurnInv, EndInv
<1>9. DoneInv'
  BY <1>1 DEF TurnInv, DoneInv, Held, Logged, RowsOf
<1>. QED BY <1>3, <1>4, <1>5, <1>6, <1>7, <1>8, <1>9 DEF TurnInv

\* A row that is made holds words that have none yet (bridge.py:538-549).
LEMMA MadeInv ==
  ASSUME TurnInv, MovesOn, NEW w \in Writers, NEW role \in {"caller", "agent"}, NEW of \in SUBSET Items,
         RecordTurn(w, role, of), UNCHANGED rows,
         \A i \in of : produced[i] = "speaking" /\ ~over /\ (produced'[i] = "done" \/ over'),
         role = "agent" => of # {} /\ (~overlapped' => \A i \in of : currentItemId \in {i, NoItem})
  PROVE  HeldInv' /\ storing' \in [Writers -> SUBSET Row]
<1>0. [role |-> role, of |-> of, itemId |-> currentItemId, truncatedAtMs |-> Null] \in Row
  BY TurnLogAssumption DEF TurnInv, TurnTypeOK, Row, Null
<1>1. PICK new \in Row : new = [role |-> role, of |-> of, itemId |-> currentItemId, truncatedAtMs |-> Null]
  BY <1>0
<1>2. /\ storing'[w] = {new} /\ \A v \in Writers \ {w} : storing'[v] = storing[v]
      /\ storing' \in [Writers -> SUBSET Row]
  BY <1>1 DEF RecordTurn, TurnInv, TurnTypeOK
<1>3. new.role = role /\ new.of = of /\ new.itemId = currentItemId /\ new.truncatedAtMs = Null
  BY <1>1
<1>4. RowOK(new)'
  BY <1>3 DEF RowOK
<1>5. \A k \in DOMAIN rows : new.of \cap rows[k].of = {}
  <2>1. \A k \in DOMAIN rows : \A i \in rows[k].of : produced[i] = "done" \/ over
    BY DEF TurnInv, RowsInv, RowOK
  <2>. QED BY <1>3, <2>1
<1>6. ASSUME NEW v \in Writers, NEW r \in storing'[v]
      PROVE  (RowOK(r)') /\ r.truncatedAtMs = Null /\ \A k \in DOMAIN rows' : r.of \cap rows'[k].of = {}
  <2>1. CASE v = w
    <3>1. r = new
      BY <1>2, <1>6, <2>1
    <3>. QED BY <1>3, <1>4, <1>5, <3>1
  <2>2. CASE v # w
    BY <1>2, <1>6, <2>2, HandsKept
  <2>. QED BY <2>1, <2>2
<1>7. \A v \in Writers : \A r, s \in storing'[v] : r = s
  BY <1>2 DEF TurnInv, HeldInv
<1>. QED BY <1>2, <1>6, <1>7 DEF HeldInv

\* A transcript arrives as a whole, of the agent or of the caller
\* (bridge.py:352-353, 361-363).
LEMMA TranscriptInv ==
  ASSUME TurnInv, CallerTranscript \/ \E i \in Items : TranscriptDone(i)
  PROVE  TurnInv'
<1>1. CASE CallerTranscript
  <2>1. /\ RecordTurn("pump", "caller", {}) /\ ReadsEvent
        /\ UNCHANGED <<currentItemId, playedMs, partial, rows, safetyCutDone, cut, stopping, pumpOver, over,
                       produced, overlapped, cutAt, lost>>
    BY <1>1 DEF CallerTranscript, ledgerVars, endVars, serviceVars
  <2>2. MovesOn
    BY <2>1 DEF MovesOn
  <2>3. HeldInv' /\ storing' \in [Writers -> SUBSET Row]
    BY <2>1, <2>2, MadeInv DEF Writers
  <2>4. TurnTypeOK' /\ SpokenInv'
    BY <2>1, <2>3 DEF TurnInv, TurnTypeOK, SpokenInv
  <2>5. RowsInv' /\ MarkedAgentTurnWasCut' /\ CutInv'
    BY <2>1, <2>2, NothingStored, CutKept
  <2>6. /\ storing["pump"] = {} /\ storing'["closer"] = storing["closer"]
        /\ \A r \in storing'["pump"] : r.of = {}
    BY <2>1 DEF RecordTurn, ReadsEvent, BetweenWrites, TurnInv, TurnTypeOK, Writers
  <2>7. EndInv'
    BY <2>1, <2>6 DEF TurnInv, EndInv, ReadsEvent, Writers
  <2>8. DoneInv'
    BY <2>1, <2>6 DEF TurnInv, DoneInv, Held, Logged, RowsOf, Writers
  <2>. QED BY <2>3, <2>4, <2>5, <2>7, <2>8 DEF TurnInv
<1>2. CASE \E i \in Items : TranscriptDone(i)
  <2>1. PICK i \in Items : TranscriptDone(i)
    BY <1>2
  <2>2. /\ RecordTurn("pump", "agent", {i}) /\ ReadsEvent /\ produced[i] = "speaking" /\ partial' = {}
        /\ produced' = [produced EXCEPT ![i] = "done"]
        /\ UNCHANGED <<currentItemId, playedMs, rows, safetyCutDone, cut, stopping, pumpOver, over, overlapped, cutAt, lost>>
    BY <2>1 DEF TranscriptDone, ledgerVars, endVars
  <2>3. \A j \in Items \cup TextItems : produced'[j] = IF j = i THEN "done" ELSE produced[j]
    BY <2>2 DEF TurnInv, TurnTypeOK
  <2>4. MovesOn
    BY <2>2, <2>3 DEF MovesOn
  <2>5. /\ ~over /\ (~overlapped' => currentItemId \in {i, NoItem}) /\ storing["closer"] = {} /\ lost = {}
    BY <2>2 DEF TurnInv, SpokenInv, EndInv, ReadsEvent
  <2>6. HeldInv' /\ storing' \in [Writers -> SUBSET Row]
    BY <2>2, <2>3, <2>4, <2>5, MadeInv DEF Writers
  <2>7. TurnTypeOK'
    BY <2>2, <2>6 DEF TurnInv, TurnTypeOK
  <2>8. SpokenInv'
    BY <2>2, <2>3 DEF TurnInv, TurnTypeOK, SpokenInv
  <2>9. RowsInv' /\ MarkedAgentTurnWasCut' /\ CutInv'
    BY <2>2, <2>4, NothingStored, CutKept
  <2>10. /\ storing["pump"] = {} /\ storing'["closer"] = {}
         /\ \E r \in storing'["pump"] : i \in r.of
    BY <2>2, <2>5 DEF RecordTurn, ReadsEvent, BetweenWrites, TurnInv, TurnTypeOK, Writers
  <2>11. EndInv'
    BY <2>2, <2>5, <2>10 DEF TurnInv, EndInv, ReadsEvent
  <2>12. DoneInv'
    <3>1. Held(i)'
      BY <2>10 DEF Held, Writers
    <3>2. ASSUME NEW j \in Items, j # i, produced'[j] = "done" PROVE Logged(j)
      <4>1. produced[j] = "done"
        BY <2>3, <3>2
      <4>2. ~Held(j)
        BY <2>5, <2>10 DEF Held, Writers
      <4>. QED BY <2>5, <4>1, <4>2 DEF TurnInv, DoneInv
    <3>3. \A j \in Items : Logged(j) => Logged(j)'
      BY <2>2 DEF Logged, RowsOf
    <3>. QED BY <3>1, <3>2, <3>3 DEF DoneInv
  <2>. QED BY <2>6, <2>7, <2>8, <2>9, <2>11, <2>12 DEF TurnInv
<1>. QED BY <1>1, <1>2

\* The end of the call makes a row of the text it had (bridge.py:245-260).
LEMMA FlushInv ==
  ASSUME TurnInv, FlushPartialTurn
  PROVE  TurnInv'
<1>1. /\ stopping /\ ~over /\ over' = TRUE /\ partial' = {}
      /\ UNCHANGED <<currentItemId, playedMs, rows, safetyCutDone, cut, stopping, pumpOver, produced, overlapped, cutAt, lost>>
      /\ \/ partial # {} /\ RecordTurn("closer", "agent", partial)
         \/ partial = {} /\ UNCHANGED storing
  BY DEF FlushPartialTurn, ledgerVars, serviceVars
<1>2. MovesOn
  BY <1>1 DEF MovesOn
<1>3. HeldInv' /\ storing' \in [Writers -> SUBSET Row]
  <2>1. CASE partial # {} /\ RecordTurn("closer", "agent", partial)
    <3>1. ~overlapped => \A i \in partial : currentItemId \in {i, NoItem}
      BY DEF TurnInv, TurnTypeOK, SpokenInv
    <3>2. partial \in SUBSET Items /\ \A i \in partial : produced[i] = "speaking"
      BY DEF TurnInv, TurnTypeOK, SpokenInv
    <3>. QED BY <1>1, <1>2, <2>1, <3>1, <3>2, MadeInv DEF Writers
  <2>2. CASE UNCHANGED storing
    BY <1>1, <1>2, <2>2, HandsKeptInv DEF TurnInv, TurnTypeOK
  <2>. QED BY <1>1, <2>1, <2>2
<1>4. TurnTypeOK' /\ SpokenInv'
  BY <1>1, <1>3 DEF TurnInv, TurnTypeOK, SpokenInv
<1>5. RowsInv' /\ MarkedAgentTurnWasCut' /\ CutInv'
  BY <1>1, <1>2, NothingStored, CutKept
<1>6. /\ storing["closer"] = {} /\ storing'["pump"] = storing["pump"]
      /\ partial = {} => storing' = storing
  <2>1. storing["closer"] = {}
    BY <1>1 DEF TurnInv, EndInv
  <2>. QED BY <1>1, <2>1 DEF RecordTurn, TurnInv, TurnTypeOK, Writers
<1>7. EndInv'
  BY <1>1, <1>6 DEF TurnInv, EndInv
<1>8. DoneInv'
  <2>1. \A i \in Items : Held(i) => Held(i)'
    BY <1>6 DEF Held, Writers
  <2>. QED BY <1>1, <2>1 DEF TurnInv, DoneInv, Logged, RowsOf
<1>. QED BY <1>3, <1>4, <1>5, <1>7, <1>8 DEF TurnInv

\* A cut reads the ledger; nothing else changes until its sends are through
\* (barge_in.py:60-85).
LEMMA CutStartsInv ==
  ASSUME TurnInv, OnBargeIn \/ SafetyPreempts
  PROVE  TurnInv'
<1>1. PICK why \in {"barge_in", "safety"} :
        /\ cut' = {[item |-> currentItemId, ms |-> playedMs, at |-> why]}
        /\ UNCHANGED <<currentItemId, playedMs, partial, rows, storing, stopping, pumpOver, over,
                       produced, overlapped, cutAt, lost>>
  BY DEF OnBargeIn, SafetyPreempts, Cuts, ledgerVars, endVars, serviceVars
<1>2. safetyCutDone' \in BOOLEAN
  BY DEF TurnInv, TurnTypeOK, OnBargeIn, SafetyPreempts
<1>3. MovesOn
  BY <1>1 DEF MovesOn
<1>4. TurnTypeOK' /\ SpokenInv'
  BY <1>1, <1>2 DEF TurnInv, TurnTypeOK, SpokenInv
<1>5. RowsInv' /\ MarkedAgentTurnWasCut' /\ HeldInv'
  BY <1>1, <1>3, NothingStored, HandsKeptInv
<1>6. CutInv'
  BY <1>1 DEF CutInv
<1>7. EndInv' /\ DoneInv'
  BY <1>1 DEF TurnInv, EndInv, DoneInv, Held, Logged, RowsOf
<1>. QED BY <1>4, <1>5, <1>6, <1>7 DEF TurnInv

\* The ledger forgets the item that was cut; a barge-in goes on to its rows
\* (playback_ledger.py:92-102, bridge.py:480-484).
LEMMA NewItemInv ==
  ASSUME TurnInv, BeginNewItem
  PROVE  TurnInv'
<1>1. PICK c \in cut :
        /\ c.at \in {"barge_in", "safety"} /\ currentItemId' = NoItem /\ playedMs' = 0
        /\ cutAt' = [i \in DOMAIN cutAt \cup ({c.item} \cap Items) |-> IF i = c.item THEN c.ms ELSE cutAt[i]]
        /\ cut' = {[d EXCEPT !.at = "truncation"] : d \in {e \in cut : e.at = "barge_in" /\ e.item # NoItem}}
        /\ UNCHANGED <<partial, rows, safetyCutDone, storing, stopping, pumpOver, over, produced, overlapped, lost>>
  BY DEF BeginNewItem, endVars, serviceVars
<1>2. /\ c.item = currentItemId /\ c.item \in Items \cup TextItems \cup {NoItem} /\ c.ms \in 0..MaxPlayedMs
      /\ c \in [item : Items \cup TextItems \cup {NoItem}, ms : 0..MaxPlayedMs,
                at : {"barge_in", "safety", "truncation"}]
      /\ \A d \in cut : d = c
  BY <1>1 DEF TurnInv, TurnTypeOK, CutInv
<1>3. /\ DOMAIN cutAt' = DOMAIN cutAt \cup ({c.item} \cap Items)
      /\ \A i \in DOMAIN cutAt' : cutAt'[i] = IF i = c.item THEN c.ms ELSE cutAt[i]
  BY <1>1
<1>4. \A i \in DOMAIN cutAt : i # c.item /\ produced[i] # "new" /\ i \in Items
  BY <1>2 DEF TurnInv, TurnTypeOK, SpokenInv
<1>5. MovesOn
  BY <1>1, <1>3, <1>4 DEF MovesOn
<1>6. \A d \in cut' : /\ d.item = c.item /\ d.ms = c.ms /\ d.at = "truncation" /\ c.item # NoItem
                      /\ d \in [item : Items \cup TextItems \cup {NoItem}, ms : 0..MaxPlayedMs,
                                at : {"barge_in", "safety", "truncation"}]
  BY <1>1, <1>2
<1>7. TurnTypeOK'
  BY <1>1, <1>3, <1>6, TurnLogAssumption DEF TurnInv, TurnTypeOK
<1>8. SpokenInv'
  <2>1. \A i \in DOMAIN cutAt' : i \in Items /\ produced[i] # "new"
    BY <1>2, <1>3, <1>4, TurnLogAssumption DEF TurnInv, SpokenInv
  <2>. QED BY <1>1, <2>1, TurnLogAssumption DEF TurnInv, SpokenInv
<1>9. RowsInv' /\ MarkedAgentTurnWasCut' /\ HeldInv'
  BY <1>1, <1>5, NothingStored, HandsKeptInv
<1>10. CutInv'
  <2>1. \A d, e \in cut' : d = e
    BY <1>1, <1>2
  <2>2. c.item # NoItem =>
          /\ produced[c.item] # "new"
          /\ \A k \in DOMAIN rows : rows[k].itemId = c.item => rows[k].truncatedAtMs = Null
          /\ c.item \in Items => c.item \in DOMAIN cutAt' /\ cutAt'[c.item] = c.ms
    BY <1>2, <1>3 DEF TurnInv, SpokenInv, RowsInv
  <2>. QED BY <1>1, <1>6, <2>1, <2>2 DEF CutInv
<1>11. EndInv' /\ DoneInv'
  BY <1>1 DEF TurnInv, EndInv, DoneInv, Held, Logged, RowsOf
<1>. QED BY <1>7, <1>8, <1>9, <1>10, <1>11 DEF TurnInv

\* What SetTurnTruncation does to the rows.
LEMMA Marking ==
  ASSUME TurnTypeOK, NEW item, NEW ms \in 0..MaxPlayedMs, SetTurnTruncation(item, ms)
  PROVE  /\ rows' \in Seq(Row) /\ DOMAIN rows' = DOMAIN rows
         /\ \A k \in DOMAIN rows : /\ rows'[k].role = rows[k].role /\ rows'[k].of = rows[k].of
                                   /\ rows'[k].itemId = rows[k].itemId
                                   /\ rows[k].itemId # item => rows'[k] = rows[k]
                                   /\ rows[k].itemId = item => rows'[k].truncatedAtMs = ms
<1>1. /\ Len(rows) \in Nat /\ DOMAIN rows = 1..Len(rows)
      /\ \A k \in 1..Len(rows) : rows[k] \in Row
  BY RowsAreRows
<1>2. ms \in Null..MaxPlayedMs
  BY TurnLogAssumption DEF Null
<1>3. /\ DOMAIN rows' = DOMAIN rows
      /\ \A k \in DOMAIN rows : /\ rows'[k] \in Row
                                /\ rows'[k].role = rows[k].role /\ rows'[k].of = rows[k].of
                                /\ rows'[k].itemId = rows[k].itemId
                                /\ rows[k].itemId # item => rows'[k] = rows[k]
                                /\ rows[k].itemId = item => rows'[k].truncatedAtMs = ms
      /\ rows' = [k \in 1..Len(rows) |-> rows'[k]]
  BY <1>1, <1>2 DEF SetTurnTruncation, Row
<1>4. rows' \in Seq(Row)
  BY <1>1, <1>3
<1>. QED BY <1>3, <1>4

\* The truncation of a barge-in lands on the rows of the item that was cut, none
\* of which was marked before (repository.py:122-129).
LEMMA TruncationInv ==
  ASSUME TurnInv, OnTruncation
  PROVE  TurnInv'
<1>1. PICK c \in cut : c.at = "truncation" /\ SetTurnTruncation(c.item, c.ms)
  BY DEF OnTruncation
<1>2. /\ cut' = {}
      /\ UNCHANGED <<currentItemId, playedMs, partial, safetyCutDone, storing, stopping, pumpOver, over,
                     produced, overlapped, cutAt, lost>>
  BY DEF OnTruncation, ledgerVars, endVars, serviceVars
<1>3. c.ms \in 0..MaxPlayedMs
  BY DEF TurnInv, TurnTypeOK
<1>4. /\ rows' \in Seq(Row) /\ DOMAIN rows' = DOMAIN rows
      /\ \A k \in DOMAIN rows : /\ rows'[k].role = rows[k].role /\ rows'[k].of = rows[k].of
                                /\ rows'[k].itemId = rows[k].itemId
                                /\ rows[k].itemId # c.item => rows'[k] = rows[k]
                                /\ rows[k].itemId = c.item => rows'[k].truncatedAtMs = c.ms
  BY <1>1, <1>3, Marking DEF TurnInv
<1>5. /\ c.item # NoItem /\ c.item # currentItemId /\ produced[c.item] # "new"
      /\ c.item \in Items => c.item \in DOMAIN cutAt /\ cutAt[c.item] = c.ms
  BY <1>1 DEF TurnInv, CutInv
<1>6. TurnTypeOK' /\ SpokenInv' /\ CutInv'
  BY <1>2, <1>4 DEF TurnInv, TurnTypeOK, SpokenInv, CutInv
<1>7. RowsInv'
  <2>1. (\A k, l \in DOMAIN rows, i \in Items : i \in rows[k].of /\ i \in rows[l].of => k = l)'
    BY <1>4 DEF TurnInv, RowsInv
  <2>2. (\A k \in DOMAIN rows : RowOK(rows[k]))'
    BY <1>2, <1>4 DEF TurnInv, RowsInv, RowOK
  <2>3. (\A k \in DOMAIN rows : rows[k].truncatedAtMs # Null =>
           rows[k].itemId # NoItem /\ rows[k].itemId # currentItemId /\ produced[rows[k].itemId] # "new")'
    BY <1>2, <1>4, <1>5 DEF TurnInv, RowsInv
  <2>. QED BY <2>1, <2>2, <2>3 DEF RowsInv
<1>8. HeldInv'
  <2>. SUFFICES ASSUME NEW w \in Writers, NEW r \in storing[w]
                PROVE  (RowOK(r)') /\ \A k \in DOMAIN rows' : r.of \cap rows'[k].of = {}
    BY <1>2 DEF TurnInv, HeldInv
  <2>. QED BY <1>2, <1>4 DEF TurnInv, HeldInv, RowOK
<1>9. EndInv' /\ DoneInv'
  BY <1>2, <1>4 DEF TurnInv, EndInv, DoneInv, Held, Logged, RowsOf
<1>10. ASSUME NEW k \in DOMAIN rows, ~overlapped, rows[k].role = "agent", rows'[k].truncatedAtMs # Null
       PROVE  \E i \in rows[k].of : i \in DOMAIN cutAt /\ cutAt[i] = rows'[k].truncatedAtMs
  <2>1. CASE rows[k].itemId = c.item
    <3>1. PICK i \in rows[k].of : i = c.item
      BY <1>5, <1>10, <2>1 DEF TurnInv, RowsInv, RowOK
    <3>2. i \in Items
      BY <3>1, RowsAreRows DEF TurnInv, Row
    <3>. QED BY <1>4, <1>5, <2>1, <3>1, <3>2
  <2>2. CASE rows[k].itemId # c.item
    BY <1>4, <1>10, <2>2 DEF TurnInv, MarkedAgentTurnWasCut
  <2>. QED BY <2>1, <2>2
<1>11. MarkedAgentTurnWasCut'
  BY <1>2, <1>4, <1>10 DEF MarkedAgentTurnWasCut
<1>. QED BY <1>4, <1>6, <1>7, <1>8, <1>9, <1>11 DEF TurnInv

\* A row in hand is stored (gateway.py:210-219).
LEMMA StoredInv ==
  ASSUME TurnInv, NEW w \in Writers, StoreTurn(w)
  PROVE  TurnInv'
<1>1. PICK r \in storing[w] : rows' = Append(rows, r)
  BY DEF StoreTurn
<1>2. UNCHANGED <<currentItemId, playedMs, partial, safetyCutDone, cut, stopping, pumpOver, over,
                  produced, overlapped, cutAt, lost>>
  BY DEF StoreTurn, ledgerVars, endVars, serviceVars
<1>3. /\ r \in Row /\ RowOK(r) /\ r.truncatedAtMs = Null /\ \A k \in DOMAIN rows : r.of \cap rows[k].of = {}
      /\ r.of \subseteq Items /\ \A s \in storing[w] : s = r
  BY DEF TurnInv, TurnTypeOK, HeldInv, Row
<1>4. /\ Len(rows) \in Nat /\ DOMAIN rows = 1..Len(rows) /\ DOMAIN rows' = 1..(Len(rows) + 1)
      /\ rows'[Len(rows) + 1] = r /\ \A k \in 1..Len(rows) : rows'[k] = rows[k]
      /\ \A k \in 1..Len(rows) : rows[k] \in Row
      /\ rows' \in Seq(Row)
  BY <1>1, <1>3 DEF TurnInv, TurnTypeOK
<1>5. /\ storing'[w] = {} /\ \A v \in Writers \ {w} : storing'[v] = storing[v]
      /\ storing' \in [Writers -> SUBSET Row]
  BY DEF StoreTurn, TurnInv, TurnTypeOK
<1>6. TurnTypeOK' /\ SpokenInv'
  BY <1>2, <1>4, <1>5 DEF TurnInv, TurnTypeOK, SpokenInv
<1>7. RowsInv'
  <2>1. (\A k, l \in DOMAIN rows, i \in Items : i \in rows[k].of /\ i \in rows[l].of => k = l)'
    BY <1>3, <1>4 DEF TurnInv, RowsInv
  <2>2. (\A k \in DOMAIN rows : RowOK(rows[k]))'
    BY <1>2, <1>3, <1>4 DEF TurnInv, RowsInv, RowOK
  <2>3. (\A k \in DOMAIN rows : rows[k].truncatedAtMs # Null =>
           rows[k].itemId # NoItem /\ rows[k].itemId # currentItemId /\ produced[rows[k].itemId] # "new")'
    BY <1>2, <1>3, <1>4 DEF TurnInv, RowsInv
  <2>. QED BY <2>1, <2>2, <2>3 DEF RowsInv
<1>8. CutInv'
  BY <1>2, <1>3, <1>4 DEF TurnInv, CutInv
<1>9. HeldInv'
  <2>. SUFFICES ASSUME NEW v \in Writers, NEW s \in storing'[v]
                PROVE  /\ \A t \in storing'[v] : s = t
                       /\ (RowOK(s)') /\ s.truncatedAtMs = Null /\ \A k \in DOMAIN rows' : s.of \cap rows'[k].of = {}
    BY DEF HeldInv
  <2>1. v # w /\ s \in storing[v]
    BY <1>5
  <2>2. s.of \cap r.of = {}
    <3>1. CASE v = "pump"
      BY <1>1, <2>1, <3>1 DEF TurnInv, EndInv, Writers
    <3>2. CASE v = "closer"
      BY <1>1, <2>1, <3>2 DEF TurnInv, EndInv, Writers
    <3>. QED BY <3>1, <3>2 DEF Writers
  <2>3. \A k \in DOMAIN rows' : s.of \cap rows'[k].of = {}
    BY <1>4, <2>1, <2>2 DEF TurnInv, HeldInv
  <2>4. RowOK(s)' /\ s.truncatedAtMs = Null
    BY <1>2, <2>1 DEF TurnInv, HeldInv, RowOK
  <2>5. \A t \in storing'[v] : s = t
    BY <1>5, <2>1 DEF TurnInv, HeldInv
  <2>. QED BY <2>3, <2>4, <2>5
<1>10. EndInv'
  BY <1>2, <1>5 DEF TurnInv, EndInv, Writers
<1>11. DoneInv'
  <2>. SUFFICES ASSUME NEW i \in Items, produced[i] = "done", i \notin lost
                PROVE  Held(i)' \/ Logged(i)'
    BY <1>2 DEF DoneInv
  <2>1. CASE i \in r.of
    BY <1>4, <2>1 DEF Logged, RowsOf
  <2>2. CASE i \notin r.of /\ Held(i)
    BY <1>3, <1>5, <2>2 DEF Held
  <2>3. CASE Logged(i)
    BY <1>4, <2>3 DEF Logged, RowsOf
  <2>. QED BY <2>1, <2>2, <2>3 DEF TurnInv, DoneInv
<1>12. MarkedAgentTurnWasCut'
  BY <1>2, <1>3, <1>4 DEF TurnInv, MarkedAgentTurnWasCut
<1>. QED BY <1>6, <1>7, <1>8, <1>9, <1>10, <1>11, <1>12 DEF TurnInv

\* A row in hand is not stored: its words are lost, and they were the last of
\* the agent's (bridge.py:252-260, 361-363).
LEMMA DroppedInv ==
  ASSUME TurnInv, PumpEnds \/ FlushFails
  PROVE  TurnInv'
<1>1. PICK w \in Writers : DropTurn(w) /\ (w = "pump" => stopping')
  BY DEF PumpEnds, FlushFails, Writers
<1>2. /\ UNCHANGED <<currentItemId, playedMs, partial, rows, safetyCutDone, over, produced, overlapped, cutAt>>
      /\ pumpOver' \in BOOLEAN /\ stopping' \in BOOLEAN /\ (stopping => stopping')
      /\ cut' = cut \/ cut' = {}
  BY DEF PumpEnds, FlushFails, TurnInv, TurnTypeOK, ledgerVars, endVars, serviceVars
<1>3. /\ storing'[w] = {} /\ \A v \in Writers \ {w} : storing'[v] = storing[v]
      /\ storing' \in [Writers -> SUBSET Row]
      /\ lost' = lost \cup UNION {r.of : r \in storing[w]}
  BY <1>1 DEF DropTurn, TurnInv, TurnTypeOK
<1>4. \A r \in storing[w] : r.of \subseteq Items
  BY DEF TurnInv, TurnTypeOK, Row
<1>5. lost' \subseteq Items
  BY <1>3, <1>4 DEF TurnInv, TurnTypeOK
<1>6. MovesOn
  BY <1>2 DEF MovesOn
<1>7. TurnTypeOK' /\ SpokenInv'
  BY <1>2, <1>3, <1>5 DEF TurnInv, TurnTypeOK, SpokenInv
<1>8. RowsInv' /\ MarkedAgentTurnWasCut' /\ HeldInv'
  <2>1. \A v \in Writers : storing'[v] \subseteq storing[v]
    BY <1>3
  <2>. QED BY <1>2, <1>6, <2>1, NothingStored, HandsKeptInv
<1>9. CutInv'
  <2>1. CASE cut' = {}
    BY <2>1 DEF CutInv
  <2>2. CASE cut' = cut
    BY <1>2, <1>6, <2>2, CutKept
  <2>. QED BY <1>2, <2>1, <2>2
<1>10. EndInv'
  <2>1. ASSUME lost' # {}
        PROVE  stopping' /\ partial' = {} /\ \A v \in Writers : \A r \in storing'[v] : r.role = "caller"
    <3>1. CASE lost # {}
      BY <1>2, <1>3, <3>1 DEF TurnInv, EndInv
    <3>2. CASE lost = {}
      <4>1. PICK r \in storing[w] : r.of # {}
        BY <1>3, <2>1, <3>2
      <4>2. CASE w = "pump"
        BY <1>1, <1>2, <1>3, <4>1, <4>2 DEF TurnInv, EndInv, Writers
      <4>3. CASE w = "closer"
        <5>1. over /\ stopping /\ partial = {}
          BY <4>1, <4>3 DEF TurnInv, EndInv
        <5>2. \A s \in storing["pump"] : s.of = {} /\ s \in Row /\ RowOK(s)
          BY <4>1, <4>3 DEF TurnInv, TurnTypeOK, EndInv, HeldInv, Writers
        <5>3. \A s \in storing["pump"] : s.role = "caller"
          BY <5>2 DEF RowOK, Row
        <5>. QED BY <1>2, <1>3, <4>3, <5>1, <5>3 DEF Writers
      <4>. QED BY <4>2, <4>3 DEF Writers
    <3>. QED BY <3>1, <3>2
  <2>. QED BY <1>2, <1>3, <2>1 DEF TurnInv, EndInv, Writers
<1>11. DoneInv'
  <2>. SUFFICES ASSUME NEW i \in Items, produced[i] = "done" PROVE Held(i)' \/ Logged(i)' \/ i \in lost'
    BY <1>2 DEF DoneInv
  <2>1. CASE Held(i)
    BY <1>3, <2>1 DEF Held
  <2>2. CASE Logged(i) \/ i \in lost
    BY <1>2, <1>3, <2>2 DEF Logged, RowsOf
  <2>. QED BY <2>1, <2>2 DEF TurnInv, DoneInv
<1>. QED BY <1>7, <1>8, <1>9, <1>10, <1>11 DEF TurnInv

\* Every step keeps the invariant.
LEMMA TurnStepInv == TurnInv /\ [TurnNext]_turnLogVars => TurnInv'
<1>. SUFFICES ASSUME TurnInv, [TurnNext]_turnLogVars PROVE TurnInv'
  OBVIOUS
<1>1. CASE UNCHANGED turnLogVars
  <2>1. /\ UNCHANGED <<currentItemId, playedMs, partial, rows, safetyCutDone, storing, cut, stopping, pumpOver>>
        /\ UNCHANGED <<over, produced, overlapped, cutAt, lost>>
    BY <1>1 DEF turnLogVars, ledgerVars, endVars, serviceVars
  <2>. QED BY <2>1 DEF TurnInv, TurnTypeOK, SpokenInv, RowsInv, RowOK, CutInv, HeldInv, EndInv, DoneInv,
         Held, Logged, RowsOf, MarkedAgentTurnWasCut
<1>. QED BY <1>1, AddedInv, QuietTurnInv, TranscriptInv, FlushInv, CutStartsInv, NewItemInv, TruncationInv,
       StoredInv, DroppedInv DEF TurnNext

\* Whatever the order of deltas, transcripts, cuts, failures and the end of the
\* call: no words get two rows, and a marked turn of the agent was cut where its
\* row says (bridge.py:329-385, repository.py:97-129).
THEOREM TurnRowsAreSound == TurnSpec => []TurnRowsOK
<1>1. TurnInv => NoTurnTwice
  <2>. SUFFICES ASSUME TurnInv, NEW i \in Items PROVE Cardinality(RowsOf(i)) <= 1
    BY DEF NoTurnTwice
  <2>1. CASE RowsOf(i) = {}
    BY <2>1, FS_EmptySet
  <2>2. CASE RowsOf(i) # {}
    <3>1. PICK k \in DOMAIN rows : i \in rows[k].of
      BY <2>2 DEF RowsOf
    <3>2. RowsOf(i) = {k}
      BY <3>1 DEF RowsOf, TurnInv, RowsInv
    <3>3. Cardinality({k}) = 1
      BY FS_Singleton
    <3>. QED BY <3>2, <3>3
  <2>. QED BY <2>1, <2>2
<1>2. TurnInv => TurnRowsOK
  BY <1>1 DEF TurnInv, TurnRowsOK
<1>. QED BY <1>2, TurnInitInv, TurnStepInv, PTL DEF TurnSpec

\* What a step may do to the rows: add the row of one of the writers at the end,
\* or mark those of the item that was cut.
LEMMA RowsChange ==
  ASSUME TurnInv, [TurnNext]_turnLogVars
  PROVE  \/ UNCHANGED rows
         \/ \E w \in Writers : StoreTurn(w)
         \/ \E c \in cut : c.at = "truncation" /\ SetTurnTruncation(c.item, c.ms)
  BY DEF TurnNext, turnLogVars, ItemAdded, TextItemAdded, TranscriptDelta, TranscriptDone, CallerTranscript,
     OnBargeIn, SafetyPreempts, Cuts, BeginNewItem, OnTruncation, PumpEnds, Stop, FlushPartialTurn, FlushFails,
     Played

\* A row keeps its words, and its mark once it has one.
LEMMA RowStays ==
  ASSUME TurnInv, [TurnNext]_turnLogVars, NEW k \in DOMAIN rows
  PROVE  /\ k \in DOMAIN rows' /\ rows'[k].of = rows[k].of
         /\ rows[k].truncatedAtMs # Null => rows'[k] = rows[k]
<1>1. CASE UNCHANGED rows
  BY <1>1
<1>2. CASE \E w \in Writers : StoreTurn(w)
  <2>0. PICK w \in Writers : StoreTurn(w)
    BY <1>2
  <2>1. PICK r \in storing[w] : rows' = Append(rows, r)
    BY <2>0 DEF StoreTurn
  <2>2. r \in Row /\ rows \in Seq(Row)
    BY DEF TurnInv, TurnTypeOK
  <2>. QED BY <2>1, <2>2
<1>3. CASE \E c \in cut : c.at = "truncation" /\ SetTurnTruncation(c.item, c.ms)
  <2>1. PICK c \in cut : c.at = "truncation" /\ SetTurnTruncation(c.item, c.ms)
    BY <1>3
  <2>2. c.ms \in 0..MaxPlayedMs /\ TurnTypeOK
    BY DEF TurnInv, TurnTypeOK
  <2>3. /\ k \in DOMAIN rows' /\ rows'[k].of = rows[k].of
        /\ rows[k].itemId # c.item => rows'[k] = rows[k]
    BY <2>1, <2>2, Marking
  <2>4. rows[k].truncatedAtMs # Null => rows[k].itemId # c.item
    BY <2>1 DEF TurnInv, CutInv
  <2>. QED BY <2>3, <2>4
<1>. QED BY <1>1, <1>2, <1>3, RowsChange

\* "truncated_at_ms" of a row, once set, is what it stays, however many cuts
\* follow (repository.py:122-129): the flush forgets the item, and an item is
\* announced once.
THEOREM TruncationStays == TurnSpec => TruncationIsFinal
<1>1. TurnInv /\ [TurnNext]_turnLogVars =>
        [\A k \in DOMAIN rows : rows[k].truncatedAtMs # Null => rows'[k] = rows[k]]_rows
  BY RowStays
<1>. QED BY <1>1, TurnInitInv, TurnStepInv, PTL DEF TurnSpec, TruncationIsFinal

\* Words that are done stay accounted for: a hand keeps them until they have a
\* row or their insert fails.
LEMMA DoneStays ==
  ASSUME TurnInv, [TurnNext]_turnLogVars, NEW i \in Items, Held(i) \/ Logged(i) \/ i \in lost
  PROVE  Held(i)' \/ Logged(i)' \/ i \in lost'
<1>1. lost \subseteq lost'
  BY DEF TurnNext, turnLogVars, ItemAdded, TextItemAdded, TranscriptDelta, TranscriptDone, CallerTranscript,
     OnBargeIn, SafetyPreempts, Cuts, BeginNewItem, OnTruncation, StoreTurn, PumpEnds, Stop, FlushPartialTurn,
     FlushFails, Played, DropTurn
<1>2. Logged(i) => Logged(i)'
  BY RowStays DEF Logged, RowsOf
<1>3. ASSUME Held(i) PROVE Held(i)' \/ Logged(i)' \/ i \in lost'
  <2>0. PICK w \in Writers : \E r \in storing[w] : i \in r.of
    BY <1>3 DEF Held
  <2>1. PICK r \in storing[w] : i \in r.of
    BY <2>0
  <2>2. CASE UNCHANGED storing
    BY <2>1, <2>2 DEF Held
  <2>3. CASE \E v \in Writers : StoreTurn(v)
    <3>1. PICK v \in Writers : StoreTurn(v)
      BY <2>3
    <3>2. PICK s \in storing[v] : rows' = Append(rows, s)
      BY <3>1 DEF StoreTurn
    <3>3. CASE v = w
      <4>1. s = r /\ rows \in Seq(Row) /\ r \in Row
        BY <2>1, <3>2, <3>3 DEF TurnInv, TurnTypeOK, HeldInv
      <4>2. Len(rows) + 1 \in DOMAIN rows' /\ rows'[Len(rows) + 1] = r
        BY <3>2, <4>1
      <4>. QED BY <2>1, <4>2 DEF Logged, RowsOf
    <3>4. CASE v # w
      BY <2>1, <3>1, <3>4 DEF StoreTurn, Held, TurnInv, TurnTypeOK
    <3>. QED BY <3>3, <3>4
  <2>4. CASE \E v \in Writers : DropTurn(v)
    BY <2>1, <2>4 DEF DropTurn, Held, TurnInv, TurnTypeOK
  <2>5. CASE \E j \in Items : TranscriptDone(j)
    BY <2>1, <2>5 DEF TranscriptDone, RecordTurn, ReadsEvent, BetweenWrites, Held, Writers, TurnInv, TurnTypeOK
  <2>6. CASE CallerTranscript
    BY <2>1, <2>6 DEF CallerTranscript, RecordTurn, ReadsEvent, BetweenWrites, Held, Writers, TurnInv, TurnTypeOK
  <2>7. CASE FlushPartialTurn
    BY <2>1, <2>7 DEF FlushPartialTurn, RecordTurn, Held, Writers, TurnInv, TurnTypeOK, EndInv
  <2>8. \/ UNCHANGED storing \/ (\E v \in Writers : StoreTurn(v) \/ DropTurn(v))
        \/ (\E j \in Items : TranscriptDone(j)) \/ CallerTranscript \/ FlushPartialTurn
    BY DEF TurnNext, turnLogVars, ItemAdded, TextItemAdded, TranscriptDelta, OnBargeIn, SafetyPreempts, Cuts,
       BeginNewItem, OnTruncation, PumpEnds, Stop, FlushFails, Played, Writers
  <2>. QED BY <2>2, <2>3, <2>4, <2>5, <2>6, <2>7, <2>8
<1>. QED BY <1>1, <1>2, <1>3

\* Text that has arrived stays with the call until it has its row or the insert
\* of that row fails, as long as the service does not overlap its answers; and
\* words that were lost that way were the agent's last (bridge.py:245-260,
\* 361-363).
THEOREM TextIsKept == TurnSpec => NoTextLost
<1>1. ASSUME TurnInv, TurnNext PROVE TextStays
  <2>. SUFFICES ASSUME NEW i \in Items, HadText(i), ~overlapped PROVE Accounted(i)' \/ overlapped'
    BY DEF TextStays
  <2>1. CASE produced[i] = "done"
    <3>1. Held(i)' \/ Logged(i)' \/ i \in lost'
      BY <1>1, <2>1, DoneStays DEF TurnInv, DoneInv
    <3>. QED BY <3>1 DEF Accounted
  <2>2. CASE i \in partial
    <3>1. produced[i] = "speaking" /\ \A j \in Items : produced[j] = "speaking" => j = i
      BY <1>1, <2>2 DEF TurnInv, SpokenInv
    <3>2. CASE \E j \in Items : TranscriptDone(j)
      <4>1. RecordTurn("pump", "agent", {i})
        BY <3>1, <3>2 DEF TranscriptDone
      <4>. QED BY <1>1, <4>1 DEF RecordTurn, Accounted, Held, Writers, TurnInv, TurnTypeOK
    <3>3. CASE FlushPartialTurn
      <4>1. RecordTurn("closer", "agent", partial)
        BY <2>2, <3>3 DEF FlushPartialTurn
      <4>. QED BY <1>1, <2>2, <4>1 DEF RecordTurn, Accounted, Held, Writers, TurnInv, TurnTypeOK
    <3>4. CASE ~FlushPartialTurn /\ ~\E j \in Items : TranscriptDone(j)
      <4>1. i \in partial'
        BY <1>1, <2>2, <3>4 DEF TurnNext, ItemAdded, TextItemAdded, TranscriptDelta, CallerTranscript, OnBargeIn,
           SafetyPreempts, Cuts, BeginNewItem, OnTruncation, StoreTurn, PumpEnds, Stop, FlushFails, Played
      <4>. QED BY <4>1 DEF Accounted
    <3>. QED BY <3>2, <3>3, <3>4
  <2>. QED BY <2>1, <2>2 DEF HadText
<1>2. ASSUME TurnInv, TurnNext PROVE LossIsLast
  <2>. SUFFICES ASSUME lost # {}, NEW k \in DOMAIN rows', k \notin DOMAIN rows
                PROVE  rows'[k].role = "caller"
    BY DEF LossIsLast
  <2>1. CASE \E w \in Writers : StoreTurn(w)
    <3>0. PICK w \in Writers : StoreTurn(w)
      BY <2>1
    <3>1. PICK r \in storing[w] : rows' = Append(rows, r)
      BY <3>0 DEF StoreTurn
    <3>2. rows \in Seq(Row) /\ r \in Row /\ r.role = "caller"
      BY <1>2 DEF TurnInv, TurnTypeOK, EndInv
    <3>3. k = Len(rows) + 1 /\ rows'[k] = r
      BY <3>1, <3>2
    <3>. QED BY <3>2, <3>3
  <2>2. CASE \E c \in cut : c.at = "truncation" /\ SetTurnTruncation(c.item, c.ms)
    BY <2>2 DEF SetTurnTruncation
  <2>. QED BY <1>2, <2>1, <2>2, RowsChange
<1>3. TurnInv /\ [TurnNext]_turnLogVars => [TextStays /\ LossIsLast]_turnLogVars
  BY <1>1, <1>2
<1>. QED BY <1>3, TurnInitInv, TurnStepInv, PTL DEF TurnSpec, NoTextLost

-----------------------------------------------------------------------------
(* The live feed *)

FeedEvents == Publishers \X Nat

Subscriptions ==
  [at : {"away", "live", "gone"}, queue : Seq(FeedEvents), seen : Seq(FeedEvents),
   shown : SUBSET Nat, joined : Nat, lost : Nat, connects : Nat]

\* All a viewer took or has queued: stored, in each publisher's order, and older
\* than what that publisher is about to publish.
LineOK(line) ==
  /\ \A i \in 1..Len(line) :
       /\ line[i] \in stored
       /\ line[i][2] <= count[line[i][1]]
       /\ pub[line[i][1]] \in {"insert", "publish"} => line[i][2] < count[line[i][1]]
  /\ \A i, j \in 1..Len(line) : i < j /\ line[i][1] = line[j][1] => line[i][2] < line[j][2]

ViewerInv(v) == LET r == viewer[v] IN
  /\ Len(r.queue) <= QueueMax
  /\ r.joined <= Len(log)
  /\ LineOK(r.seen \o r.queue)
  /\ r.shown = {i \in 1..Len(r.seen) : r.seen[i][1] \in OnlyOf[v]}
  /\ r.at # "away" /\ r.lost = 0 => r.seen \o r.queue = SubSeq(log, r.joined + 1, Len(log))

HooksInv ==
  /\ pub \in [Publishers -> {"idle", "insert", "publish", "failed"}]
  /\ count \in [Publishers -> Nat]
  /\ \A e \in stored : e \in FeedEvents /\ e[2] \in 1..count[e[1]]
  /\ \A p \in Publishers : pub[p] \in {"insert", "publish"} => count[p] >= 1
  /\ \A p \in Publishers : pub[p] = "publish" => <<p, count[p]>> \in stored

FeedInv ==
  /\ HooksInv
  /\ log \in Seq(FeedEvents)
  /\ viewer \in [Viewers -> Subscriptions]
  /\ \A v \in Viewers : ViewerInv(v)

\* What an event adds at the end of a queue it adds at the end of the line.
LEMMA QueuedIsLast ==
  ASSUME NEW E, NEW s \in Seq(E), NEW q \in Seq(E), NEW e \in E
  PROVE  s \o Append(q, e) = Append(s \o q, e)
  OBVIOUS

\* Taking the head off the queue leaves the line as it is.
LEMMA TakenStaysInLine ==
  ASSUME NEW E, NEW s \in Seq(E), NEW q \in Seq(E), q # <<>>
  PROVE  /\ Head(q) \in E /\ Tail(q) \in Seq(E) /\ Len(Tail(q)) < Len(q)
         /\ Append(s, Head(q)) \o Tail(q) = s \o q
<1>1. Head(q) = q[1] /\ Len(q) \in Nat \ {0} /\ q[1] \in E
  OBVIOUS
<1>2. /\ Tail(q) \in Seq(E) /\ Len(Tail(q)) = Len(q) - 1
      /\ \A i \in 1..Len(q) - 1 : Tail(q)[i] = q[i + 1]
  OBVIOUS
<1>3. Append(s, Head(q)) \o Tail(q) \in Seq(E) /\ s \o q \in Seq(E)
  BY <1>1, <1>2
<1>4. /\ Len(Append(s, Head(q)) \o Tail(q)) = Len(s) + Len(q)
      /\ Len(s \o q) = Len(s) + Len(q)
  BY <1>1, <1>2
<1>5. ASSUME NEW i \in 1..Len(s) + Len(q)
      PROVE  (Append(s, Head(q)) \o Tail(q))[i] = (s \o q)[i]
  <2>1. CASE i <= Len(s)
    BY <2>1, <1>1, <1>2
  <2>2. CASE i = Len(s) + 1
    BY <2>2, <1>1, <1>2
  <2>3. CASE i > Len(s) + 1
    BY <2>3, <1>1, <1>2
  <2>. QED BY <2>1, <2>2, <2>3
<1>. QED BY <1>1, <1>2, <1>3, <1>4, <1>5

\* A line that nothing joins stays good while hooks move on.
LEMMA LineStays ==
  ASSUME NEW line \in Seq(FeedEvents), LineOK(line),
         stored \subseteq stored',
         \A p \in Publishers : /\ count[p] \in Nat /\ count'[p] \in Nat
                               /\ count'[p] >= count[p]
                               /\ pub'[p] \in {"insert", "publish"} =>
                                    pub[p] \in {"insert", "publish"} \/ count'[p] > count[p]
  PROVE  LineOK(line)'
<1>1. \A i \in 1..Len(line) : line[i][1] \in Publishers /\ line[i][2] \in Nat
  BY DEF FeedEvents
<1>. QED BY <1>1 DEF LineOK

\* The event that a hook publishes may join any good line.
LEMMA LineGrows ==
  ASSUME NEW line \in Seq(FeedEvents), LineOK(line), HooksInv,
         NEW p \in Publishers, pub[p] = "publish"
  PROVE  LET longer == Append(line, <<p, count[p]>>) IN
           /\ longer \in Seq(FeedEvents)
           /\ \A i \in 1..Len(longer) :
                /\ longer[i] \in stored
                /\ longer[i][2] <= count[longer[i][1]]
                /\ longer[i][1] # p /\ pub[longer[i][1]] \in {"insert", "publish"} =>
                     longer[i][2] < count[longer[i][1]]
           /\ \A i, j \in 1..Len(longer) :
                i < j /\ longer[i][1] = longer[j][1] => longer[i][2] < longer[j][2]
<1>. DEFINE e == <<p, count[p]>>
            longer == Append(line, e)
<1>1. e \in FeedEvents /\ e \in stored /\ e[1] = p /\ e[2] = count[p] /\ count[p] \in Nat
  BY DEF HooksInv, FeedEvents
<1>2. \A i \in 1..Len(line) :
        /\ line[i][1] \in Publishers /\ line[i][2] \in Nat
        /\ line[i] \in stored /\ line[i][2] <= count[line[i][1]]
        /\ line[i][1] = p => line[i][2] < count[p]
        /\ pub[line[i][1]] \in {"insert", "publish"} => line[i][2] < count[line[i][1]]
  BY DEF LineOK, FeedEvents
<1>3. \A i, j \in 1..Len(line) : i < j /\ line[i][1] = line[j][1] => line[i][2] < line[j][2]
  BY DEF LineOK
<1>. HIDE DEF e
<1>4. /\ longer \in Seq(FeedEvents)
      /\ Len(longer) = Len(line) + 1 /\ Len(line) \in Nat
      /\ longer[Len(line) + 1] = e
      /\ \A i \in 1..Len(line) : longer[i] = line[i]
  BY <1>1
<1>. HIDE DEF longer
<1>5. \A i \in 1..Len(longer) : i = Len(line) + 1 \/ i \in 1..Len(line)
  BY <1>4
<1>6. ASSUME NEW i \in 1..Len(longer)
      PROVE  /\ longer[i] \in stored
             /\ longer[i][2] <= count[longer[i][1]]
             /\ longer[i][1] # p /\ pub[longer[i][1]] \in {"insert", "publish"} =>
                  longer[i][2] < count[longer[i][1]]
  BY <1>1, <1>2, <1>4, <1>5
<1>7. ASSUME NEW i \in 1..Len(longer), NEW j \in 1..Len(longer),
             i < j, longer[i][1] = longer[j][1]
      PROVE  longer[i][2] < longer[j][2]
  <2>1. i \in 1..Len(line)
    BY <1>4, <1>7
  <2>2. CASE j = Len(line) + 1
    BY <2>1, <2>2, <1>1, <1>2, <1>4, <1>7
  <2>3. CASE j \in 1..Len(line)
    BY <2>1, <2>3, <1>3, <1>4, <1>7
  <2>. QED BY <2>2, <2>3, <1>5
<1>. QED BY <1>4, <1>6, <1>7 DEF longer, e

\* A step of the hooks that publishes nothing leaves the viewers' lines good.
LEMMA HooksMove ==
  ASSUME FeedInv, HooksInv', UNCHANGED <<viewer, log>>, stored \subseteq stored',
         \A p \in Publishers : /\ count'[p] >= count[p]
                               /\ pub'[p] \in {"insert", "publish"} =>
                                    pub[p] \in {"insert", "publish"} \/ count'[p] > count[p]
  PROVE  FeedInv'
<1>1. \A p \in Publishers : /\ count[p] \in Nat /\ count'[p] \in Nat
                            /\ count'[p] >= count[p]
                            /\ pub'[p] \in {"insert", "publish"} =>
                                 pub[p] \in {"insert", "publish"} \/ count'[p] > count[p]
  BY DEF FeedInv, HooksInv
<1>2. ASSUME NEW v \in Viewers PROVE ViewerInv(v)'
  <2>1. viewer[v].seen \in Seq(FeedEvents) /\ viewer[v].queue \in Seq(FeedEvents)
    BY DEF FeedInv, Subscriptions
  <2>5. viewer[v].seen \o viewer[v].queue \in Seq(FeedEvents)
    BY <2>1
  <2>2. PICK line \in Seq(FeedEvents) : line = viewer[v].seen \o viewer[v].queue
    BY <2>5, Zenon
  <2>3. LineOK(line)
    BY <2>2 DEF FeedInv, ViewerInv
  <2>4. LineOK(line)'
    BY <2>3, <1>1, LineStays
  <2>. QED BY <2>2, <2>4 DEF FeedInv, ViewerInv
<1>. QED BY <1>2 DEF FeedInv

\* An event begins: its number is above all that its publisher had.
LEMMA EmitsInv ==
  ASSUME FeedInv, NEW p \in Publishers, Emits(p), UNCHANGED <<stored, viewer, log>>
  PROVE  FeedInv'
<1>1. /\ pub' \in [Publishers -> {"idle", "insert", "publish", "failed"}]
      /\ count' \in [Publishers -> Nat]
      /\ count'[p] = count[p] + 1 /\ pub'[p] = "insert"
      /\ \A q \in Publishers : q # p => count'[q] = count[q] /\ pub'[q] = pub[q]
      /\ \A q \in Publishers : count[q] \in Nat
  BY DEF FeedInv, HooksInv, Emits
<1>2. \A q \in Publishers : count'[q] >= count[q]
  BY <1>1
<1>3. \A e \in stored : e \in FeedEvents /\ e[2] \in 1..count[e[1]] /\ e[1] \in Publishers
  BY DEF FeedInv, HooksInv, FeedEvents
<1>4. HooksInv'
  <2>1. \A e \in stored' : e \in FeedEvents /\ e[2] \in 1..count'[e[1]]
    BY <1>1, <1>2, <1>3
  <2>2. \A q \in Publishers : pub'[q] \in {"insert", "publish"} => count'[q] >= 1
    <3>1. \A q \in Publishers : pub[q] \in {"insert", "publish"} => count[q] >= 1
      BY DEF FeedInv, HooksInv
    <3>. QED BY <1>1, <3>1
  <2>3. \A q \in Publishers : pub'[q] = "publish" => <<q, count'[q]>> \in stored'
    BY <1>1 DEF FeedInv, HooksInv
  <2>. QED BY <1>1, <2>1, <2>2, <2>3 DEF HooksInv
<1>5. \A q \in Publishers : pub'[q] \in {"insert", "publish"} =>
                              pub[q] \in {"insert", "publish"} \/ count'[q] > count[q]
  BY <1>1
<1>. QED BY <1>2, <1>4, <1>5, HooksMove

\* The insert puts the row of the event there before its publication.
LEMMA InsertCallEventInv ==
  ASSUME FeedInv, NEW p \in Publishers, InsertCallEvent(p)
  PROVE  FeedInv'
<1>1. /\ pub' \in [Publishers -> {"idle", "insert", "publish", "failed"}]
      /\ count' = count /\ count[p] \in Nat /\ count[p] >= 1
      /\ stored \subseteq stored'
      /\ \A q \in Publishers : q # p => pub'[q] = pub[q]
      /\ pub[p] = "insert"
  BY DEF FeedInv, HooksInv, InsertCallEvent
<1>2. \A e \in stored' : e \in stored \/ e = <<p, count[p]>>
  BY DEF InsertCallEvent
<1>3. pub'[p] = "publish" => <<p, count[p]>> \in stored'
  BY DEF FeedInv, HooksInv, InsertCallEvent
<1>4. HooksInv'
  <2>1. \A e \in stored' : e \in FeedEvents /\ e[2] \in 1..count'[e[1]]
    <3>1. <<p, count[p]>> \in FeedEvents /\ <<p, count[p]>>[2] \in 1..count[<<p, count[p]>>[1]]
      BY <1>1 DEF FeedEvents
    <3>. QED BY <1>1, <1>2, <3>1 DEF FeedInv, HooksInv
  <2>2. \A q \in Publishers : pub'[q] \in {"insert", "publish"} => count'[q] >= 1
    BY <1>1 DEF FeedInv, HooksInv
  <2>3. \A q \in Publishers : pub'[q] = "publish" => <<q, count'[q]>> \in stored'
    BY <1>1, <1>3 DEF FeedInv, HooksInv
  <2>4. count' \in [Publishers -> Nat]
    BY <1>1 DEF FeedInv, HooksInv
  <2>. QED BY <1>1, <2>1, <2>2, <2>3, <2>4 DEF HooksInv
<1>5. \A q \in Publishers :
        /\ count'[q] >= count[q]
        /\ pub'[q] \in {"insert", "publish"} =>
             pub[q] \in {"insert", "publish"} \/ count'[q] > count[q]
  BY <1>1 DEF FeedInv, HooksInv
<1>6. UNCHANGED <<viewer, log>>
  BY DEF InsertCallEvent
<1>. QED BY <1>1, <1>4, <1>5, <1>6, HooksMove

\* What was published since a viewer came grows by the event.
LEMMA LogGrows ==
  ASSUME NEW E, NEW s \in Seq(E), NEW e \in E, NEW j \in Nat, j <= Len(s)
  PROVE  SubSeq(Append(s, e), j + 1, Len(Append(s, e))) = Append(SubSeq(s, j + 1, Len(s)), e)
<1>. DEFINE new == SubSeq(Append(s, e), j + 1, Len(s) + 1)
            old == SubSeq(s, j + 1, Len(s))
<1>1. /\ Len(s) \in Nat /\ Append(s, e) \in Seq(E) /\ Len(Append(s, e)) = Len(s) + 1
      /\ Append(s, e)[Len(s) + 1] = e
      /\ \A i \in 1..Len(s) : Append(s, e)[i] = s[i]
  OBVIOUS
<1>2. /\ new \in Seq(E) /\ Len(new) = Len(s) + 1 - j
      /\ \A i \in 1..Len(s) + 1 - j : new[i] = Append(s, e)[j + i]
  BY <1>1
<1>3. /\ old \in Seq(E) /\ Len(old) = Len(s) - j
      /\ \A i \in 1..Len(s) - j : old[i] = s[j + i]
  BY <1>1
<1>. HIDE DEF new, old
<1>4. /\ Append(old, e) \in Seq(E) /\ Len(Append(old, e)) = Len(s) + 1 - j
      /\ Append(old, e)[Len(s) + 1 - j] = e
      /\ \A i \in 1..Len(s) - j : Append(old, e)[i] = s[j + i]
  BY <1>1, <1>3
<1>5. ASSUME NEW i \in 1..Len(s) + 1 - j PROVE new[i] = Append(old, e)[i]
  <2>1. CASE i = Len(s) + 1 - j
    BY <2>1, <1>1, <1>2, <1>4
  <2>2. CASE i <= Len(s) - j
    BY <2>2, <1>1, <1>2, <1>4
  <2>3. i = Len(s) + 1 - j \/ i <= Len(s) - j
    BY <1>1
  <2>. QED BY <2>1, <2>2, <2>3
<1>6. new = Append(old, e)
  BY <1>1, <1>2, <1>4, <1>5
<1>. QED BY <1>1, <1>6 DEF new, old

\* Publishing adds the event to the log and to every queue with room.
LEMMA PublishEventInv ==
  ASSUME FeedInv, NEW p \in Publishers, PublishEvent(p)
  PROVE  FeedInv'
<1>. DEFINE e == <<p, count[p]>>
<1>1. /\ pub[p] = "publish" /\ e \in FeedEvents /\ HooksInv
      /\ pub' = [pub EXCEPT ![p] = "idle"]
      /\ UNCHANGED <<count, stored>>
      /\ log' = Append(log, e) /\ log \in Seq(FeedEvents)
      /\ viewer' = [v \in Viewers |-> Put(v, e)]
  BY DEF FeedInv, HooksInv, PublishEvent, Publish, FeedEvents
<1>2. HooksInv'
  BY <1>1 DEF HooksInv
<1>3. log' \in Seq(FeedEvents) /\ Len(log') = Len(log) + 1 /\ Len(log) \in Nat
  BY <1>1
<1>5. \A q \in Publishers : pub'[q] \in {"insert", "publish"} =>
                              q # p /\ pub[q] \in {"insert", "publish"}
  BY <1>1 DEF HooksInv
<1>6. \A q \in Publishers : /\ count[q] \in Nat /\ count'[q] \in Nat
                            /\ count'[q] >= count[q]
                            /\ pub'[q] \in {"insert", "publish"} =>
                                 pub[q] \in {"insert", "publish"} \/ count'[q] > count[q]
  BY <1>1, <1>5 DEF HooksInv
<1>7. stored \subseteq stored'
  BY <1>1
<1>4. ASSUME NEW v \in Viewers
      PROVE  viewer'[v] \in Subscriptions /\ ViewerInv(v)'
  <2>. DEFINE r == viewer[v]
              n == viewer'[v]
  <2>0. r \in Subscriptions /\ Len(r.queue) <= QueueMax /\ r.joined <= Len(log)
    BY DEF FeedInv, ViewerInv
  <2>9. r.shown = {i \in 1..Len(r.seen) : r.seen[i][1] \in OnlyOf[v]}
    BY DEF FeedInv, ViewerInv
  <2>. HIDE DEF r
  <2>1. /\ r.seen \in Seq(FeedEvents) /\ r.queue \in Seq(FeedEvents)
        /\ r.joined \in Nat /\ r.lost \in Nat /\ r.joined <= Len(log)
        /\ Len(r.queue) <= QueueMax /\ Len(r.queue) \in Nat /\ QueueMax \in Nat
        /\ r.at \in {"away", "live", "gone"} /\ r.shown \in SUBSET Nat /\ r.connects \in Nat
    BY <2>0, <1>3, FeedAssumption DEF Subscriptions
  <2>10. r.seen \o r.queue \in Seq(FeedEvents)
    BY <2>1
  <2>2. PICK line \in Seq(FeedEvents) : line = r.seen \o r.queue
    BY <2>10, Zenon
  <2>3. /\ LineOK(line)
        /\ r.at # "away" /\ r.lost = 0 => line = SubSeq(log, r.joined + 1, Len(log))
    BY <2>2 DEF FeedInv, ViewerInv, r
  <2>4. LineOK(line)'
    BY <2>2, <2>3, <1>6, <1>7, LineStays
  <2>5. n = IF r.at \notin {"live", "gone"} THEN r
            ELSE IF Len(r.queue) >= QueueMax THEN [r EXCEPT !.lost = @ + 1]
            ELSE [r EXCEPT !.queue = Append(@, e)]
    BY <1>1 DEF Put, Subscribed, r
  <2>. HIDE DEF n, e
  <2>6. CASE r.at = "away" \/ Len(r.queue) >= QueueMax
    <3>1. /\ n \in Subscriptions
          /\ n.seen = r.seen /\ n.queue = r.queue /\ n.shown = r.shown
          /\ n.joined = r.joined /\ n.at = r.at
          /\ n.at = "away" \/ n.lost # 0
      <4>1. CASE r.at = "away"
        BY <4>1, <2>0, <2>5
      <4>2. CASE r.at # "away"
        <5>1. n = [r EXCEPT !.lost = @ + 1]
          BY <4>2, <2>1, <2>5, <2>6
        <5>2. n = [at |-> r.at, queue |-> r.queue, seen |-> r.seen, shown |-> r.shown,
                   joined |-> r.joined, lost |-> r.lost + 1, connects |-> r.connects]
          BY <5>1, <2>0 DEF Subscriptions
        <5>. QED BY <5>2, <2>1 DEF Subscriptions
      <4>. QED BY <4>1, <4>2
    <3>2. n.shown = {i \in 1..Len(n.seen) : n.seen[i][1] \in OnlyOf[v]}
      BY <3>1, <2>9
    <3>3. n.seen \o n.queue = line /\ Len(n.queue) <= QueueMax /\ n.joined <= Len(log')
      BY <3>1, <2>0, <2>1, <2>2, <1>3
    <3>. QED BY <3>1, <3>2, <3>3, <2>4 DEF ViewerInv, n
  <2>7. CASE r.at # "away" /\ Len(r.queue) < QueueMax
    <3>1. n = [at |-> r.at, queue |-> Append(r.queue, e), seen |-> r.seen, shown |-> r.shown,
               joined |-> r.joined, lost |-> r.lost, connects |-> r.connects]
      <4>1. n = [r EXCEPT !.queue = Append(@, e)]
        BY <2>7, <2>1, <2>5
      <4>. QED BY <4>1, <2>0 DEF Subscriptions
    <3>2. /\ n \in Subscriptions
          /\ n.seen = r.seen /\ n.queue = Append(r.queue, e) /\ n.shown = r.shown
          /\ n.joined = r.joined /\ n.at = r.at /\ n.lost = r.lost
      <4>1. Append(r.queue, e) \in Seq(FeedEvents)
        BY <2>1, <1>1
      <4>. QED BY <3>1, <4>1, <2>1 DEF Subscriptions
    <3>3. PICK longer : longer = Append(line, e)
      OBVIOUS
    <3>4. n.seen \o n.queue = longer
      <4>1. e \in FeedEvents
        BY <1>1
      <4>2. r.seen \o Append(r.queue, e) = Append(r.seen \o r.queue, e)
        <5>1. r.seen \in Seq(FeedEvents) /\ r.queue \in Seq(FeedEvents)
          BY <2>1
        <5>2. \A s, q \in Seq(FeedEvents) : s \o Append(q, e) = Append(s \o q, e)
          BY <4>1, QueuedIsLast
        <5>. QED BY <5>1, <5>2
      <4>. QED BY <4>2, <3>2, <3>3, <2>2
    <3>5. /\ longer \in Seq(FeedEvents)
          /\ \A i \in 1..Len(longer) :
               /\ longer[i] \in stored
               /\ longer[i][2] <= count[longer[i][1]]
               /\ longer[i][1] # p /\ pub[longer[i][1]] \in {"insert", "publish"} =>
                    longer[i][2] < count[longer[i][1]]
          /\ \A i, j \in 1..Len(longer) :
               i < j /\ longer[i][1] = longer[j][1] => longer[i][2] < longer[j][2]
      BY <3>3, <2>2, <2>3, <1>1, LineGrows, ZenonT(60) DEF e
    <3>6. LineOK(longer)'
      <4>1. \A i \in 1..Len(longer) : longer[i][1] \in Publishers
        BY <3>5 DEF FeedEvents
      <4>. QED BY <4>1, <3>5, <1>1, <1>5 DEF LineOK
    <3>7. n.at # "away" /\ n.lost = 0 => longer = SubSeq(log', n.joined + 1, Len(log'))
      <4>1. SubSeq(log', r.joined + 1, Len(log')) = Append(SubSeq(log, r.joined + 1, Len(log)), e)
        BY <2>0, <2>1, <1>1, LogGrows
      <4>. QED BY <4>1, <3>2, <3>3, <2>3
    <3>8. Len(n.queue) <= QueueMax
      BY <3>2, <2>1, <2>7, <1>1
    <3>9. n.shown = {i \in 1..Len(n.seen) : n.seen[i][1] \in OnlyOf[v]}
      BY <3>2, <2>9
    <3>10. n.joined <= Len(log')
      BY <3>2, <2>0, <2>1, <1>3
    <3>. QED BY <3>2, <3>4, <3>6, <3>7, <3>8, <3>9, <3>10 DEF ViewerInv, n
  <2>8. r.at = "away" \/ Len(r.queue) >= QueueMax \/ (r.at # "away" /\ Len(r.queue) < QueueMax)
    BY <2>1
  <2>. QED BY <2>6, <2>7, <2>8 DEF n
<1>. QED BY <1>1, <1>2, <1>3, <1>4 DEF FeedInv

\* One viewer moves to a subscription that is as good as the one it had.
LEMMA ViewerMoves ==
  ASSUME FeedInv, NEW v \in Viewers, UNCHANGED <<pub, count, stored, log>>,
         NEW n \in Subscriptions, viewer' = [viewer EXCEPT ![v] = n],
         Len(n.queue) <= QueueMax, n.joined <= Len(log), LineOK(n.seen \o n.queue),
         n.shown = {i \in 1..Len(n.seen) : n.seen[i][1] \in OnlyOf[v]},
         n.at # "away" /\ n.lost = 0 => n.seen \o n.queue = SubSeq(log, n.joined + 1, Len(log))
  PROVE  FeedInv'
<1>1. /\ viewer' \in [Viewers -> Subscriptions] /\ viewer'[v] = n
      /\ \A w \in Viewers : w # v => viewer'[w] = viewer[w]
  BY DEF FeedInv
<1>2. HooksInv' /\ log' \in Seq(FeedEvents)
  BY DEF FeedInv, HooksInv
<1>3. ASSUME NEW line, LineOK(line) PROVE LineOK(line)'
  BY <1>3 DEF LineOK
<1>4. ViewerInv(v)'
  BY <1>1, <1>3 DEF ViewerInv
<1>5. ASSUME NEW w \in Viewers, w # v PROVE ViewerInv(w)'
  <2>1. ViewerInv(w)
    BY DEF FeedInv
  <2>. QED BY <2>1, <1>1, <1>3, <1>5 DEF ViewerInv
<1>. QED BY <1>1, <1>2, <1>4, <1>5 DEF FeedInv

\* A viewer that connects, or is forgotten, has taken and lost nothing.
LEMMA EmptyLine ==
  ASSUME FeedInv
  PROVE  /\ LineOK(<<>> \o <<>>)
         /\ <<>> \o <<>> = SubSeq(log, Len(log) + 1, Len(log))
         /\ Len(log) \in Nat /\ <<>> \in Seq(FeedEvents) /\ 0 <= QueueMax
<1>1. log \in Seq(FeedEvents)
  BY DEF FeedInv
<1>2. Len(log) \in Nat
  BY <1>1
<1>3. <<>> \o <<>> = <<>> /\ <<>> \in Seq(FeedEvents)
  OBVIOUS
<1>4. SubSeq(log, Len(log) + 1, Len(log)) = <<>>
  BY <1>1, <1>2
<1>5. LineOK(<<>>)
  BY DEF LineOK
<1>. QED BY <1>2, <1>3, <1>4, <1>5, FeedAssumption

\* Coming and going keeps the feed's invariant.
LEMMA ConnectionsInv ==
  ASSUME FeedInv, NEW v \in Viewers, Connect(v) \/ Disconnect(v) \/ Unsubscribe(v)
  PROVE  FeedInv'
<1>1. UNCHANGED <<pub, count, stored, log>>
  BY DEF Connect, Disconnect, Unsubscribe
<1>2. viewer[v] \in Subscriptions /\ ViewerInv(v) /\ viewer[v].connects \in Nat
  BY DEF FeedInv, Subscriptions
<1>3. CASE Connect(v)
  <2>. DEFINE n == [at |-> "live", queue |-> <<>>, seen |-> <<>>, shown |-> {},
                    joined |-> Len(log), lost |-> 0, connects |-> viewer[v].connects + 1]
  <2>1. viewer' = [viewer EXCEPT ![v] = n]
    BY <1>3 DEF Connect, Subscription
  <2>2. n \in Subscriptions
    BY <1>2, EmptyLine DEF Subscriptions
  <2>3. n.shown = {i \in 1..Len(n.seen) : n.seen[i][1] \in OnlyOf[v]}
    OBVIOUS
  <2>4. /\ Len(n.queue) <= QueueMax /\ n.joined <= Len(log) /\ LineOK(n.seen \o n.queue)
        /\ n.seen \o n.queue = SubSeq(log, n.joined + 1, Len(log))
    BY EmptyLine
  <2>. HIDE DEF n
  <2>. QED BY <2>1, <2>2, <2>3, <2>4, <1>1, ViewerMoves
<1>4. CASE Unsubscribe(v)
  <2>. DEFINE n == [at |-> "away", queue |-> <<>>, seen |-> <<>>, shown |-> {},
                    joined |-> 0, lost |-> 0, connects |-> viewer[v].connects]
  <2>1. viewer' = [viewer EXCEPT ![v] = n]
    BY <1>4 DEF Unsubscribe, Subscription
  <2>2. n \in Subscriptions
    BY <1>2, EmptyLine DEF Subscriptions
  <2>3. n.shown = {i \in 1..Len(n.seen) : n.seen[i][1] \in OnlyOf[v]} /\ n.at = "away"
    OBVIOUS
  <2>4. Len(n.queue) <= QueueMax /\ n.joined <= Len(log) /\ LineOK(n.seen \o n.queue)
    BY EmptyLine
  <2>. HIDE DEF n
  <2>. QED BY <2>1, <2>2, <2>3, <2>4, <1>1, ViewerMoves
<1>5. CASE Disconnect(v)
  <2>. DEFINE r == viewer[v]
              n == [at |-> "gone", queue |-> r.queue, seen |-> r.seen, shown |-> r.shown,
                    joined |-> r.joined, lost |-> r.lost, connects |-> r.connects]
  <2>1. viewer' = [viewer EXCEPT ![v] = n]
    <3>1. [r EXCEPT !.at = "gone"] = n
      BY <1>2 DEF Subscriptions
    <3>2. viewer' = [viewer EXCEPT ![v] = [r EXCEPT !.at = "gone"]]
      BY <1>5 DEF Disconnect
    <3>. QED BY <3>1, <3>2
  <2>2. n \in Subscriptions
    BY <1>2 DEF Subscriptions
  <2>3. /\ n.shown = {i \in 1..Len(n.seen) : n.seen[i][1] \in OnlyOf[v]}
        /\ Len(n.queue) <= QueueMax /\ n.joined <= Len(log) /\ LineOK(n.seen \o n.queue)
        /\ n.lost = 0 => n.seen \o n.queue = SubSeq(log, n.joined + 1, Len(log))
    BY <1>2, <1>5 DEF ViewerInv, Disconnect
  <2>. HIDE DEF n
  <2>. QED BY <2>1, <2>2, <2>3, <1>1, ViewerMoves
<1>. QED BY <1>3, <1>4, <1>5

\* The stream takes an event off its queue, and the line is what it was.
LEMMA StreamEventInv ==
  ASSUME FeedInv, NEW v \in Viewers, StreamEvent(v)
  PROVE  FeedInv'
<1>. DEFINE r == viewer[v]
            e == Head(r.queue)
            here == Len(r.seen) + 1
            shown == IF Shown(v, e) THEN r.shown \cup {here} ELSE r.shown
            n == [at |-> r.at, queue |-> Tail(r.queue), seen |-> Append(r.seen, e), shown |-> shown,
                  joined |-> r.joined, lost |-> r.lost, connects |-> r.connects]
<1>1. UNCHANGED <<pub, count, stored, log>> /\ r.queue # <<>>
  BY DEF StreamEvent
<1>2. r \in Subscriptions /\ ViewerInv(v)
  BY DEF FeedInv
<1>3. viewer' = [viewer EXCEPT ![v] = n]
  BY DEF StreamEvent
<1>4. /\ r.seen \in Seq(FeedEvents) /\ r.queue \in Seq(FeedEvents)
      /\ r.at \in {"away", "live", "gone"} /\ r.joined \in Nat /\ r.lost \in Nat
      /\ r.connects \in Nat /\ r.shown \in SUBSET Nat
  BY <1>2 DEF Subscriptions
<1>5. /\ r.shown = {i \in 1..Len(r.seen) : r.seen[i][1] \in OnlyOf[v]}
      /\ Len(r.queue) <= QueueMax /\ r.joined <= Len(log) /\ LineOK(r.seen \o r.queue)
      /\ r.at # "away" /\ r.lost = 0 => r.seen \o r.queue = SubSeq(log, r.joined + 1, Len(log))
  BY <1>2 DEF ViewerInv
<1>. HIDE DEF r
<1>6. /\ e \in FeedEvents /\ Tail(r.queue) \in Seq(FeedEvents)
      /\ Len(Tail(r.queue)) < Len(r.queue)
      /\ Append(r.seen, e) \o Tail(r.queue) = r.seen \o r.queue
  BY <1>1, <1>4, TakenStaysInLine
<1>. HIDE DEF e
<1>7. /\ Append(r.seen, e) \in Seq(FeedEvents) /\ Len(Append(r.seen, e)) = here
      /\ Append(r.seen, e)[here] = e /\ here \in Nat /\ Len(r.seen) \in Nat
      /\ \A i \in 1..Len(r.seen) : Append(r.seen, e)[i] = r.seen[i]
  BY <1>4, <1>6
<1>8. shown = {i \in 1..here : Append(r.seen, e)[i][1] \in OnlyOf[v]}
  <2>1. 1..here = (1..Len(r.seen)) \cup {here} /\ here \notin 1..Len(r.seen)
    BY <1>7
  <2>. QED BY <2>1, <1>5, <1>7 DEF Shown
<1>9. shown \in SUBSET Nat
  BY <1>4, <1>7
<1>. HIDE DEF shown, here
<1>10. n \in Subscriptions
  BY <1>4, <1>6, <1>7, <1>9 DEF Subscriptions
<1>11. Len(Tail(r.queue)) <= QueueMax
  BY <1>4, <1>5, <1>6, FeedAssumption
<1>12. /\ n.shown = {i \in 1..Len(n.seen) : n.seen[i][1] \in OnlyOf[v]}
       /\ Len(n.queue) <= QueueMax /\ n.joined <= Len(log) /\ LineOK(n.seen \o n.queue)
       /\ n.at # "away" /\ n.lost = 0 => n.seen \o n.queue = SubSeq(log, n.joined + 1, Len(log))
  BY <1>5, <1>6, <1>7, <1>8, <1>11
<1>. HIDE DEF n
<1>. QED BY <1>1, <1>3, <1>10, <1>12, ViewerMoves

\* The viewers of a feed nobody has connected to yet.
LEMMA FeedInitInv == FeedInit => FeedInv
<1>. SUFFICES ASSUME FeedInit PROVE FeedInv
  OBVIOUS
<1>1. HooksInv
  BY DEF FeedInit, HooksInv
<1>2. log = <<>> /\ log \in Seq(FeedEvents) /\ Len(log) = 0 /\ <<>> \o <<>> = <<>>
  BY DEF FeedInit
<1>3. Subscription("away", 0, 0) \in Subscriptions
  BY DEF Subscription, Subscriptions
<1>4. viewer = [v \in Viewers |-> Subscription("away", 0, 0)]
  BY DEF FeedInit
<1>5. LineOK(<<>>)
  BY DEF LineOK
<1>6. ASSUME NEW v \in Viewers PROVE ViewerInv(v)
  <2>1. viewer[v] = Subscription("away", 0, 0)
    BY <1>4
  <2>2. {} = {i \in 1..Len(<<>>) : <<>>[i][1] \in OnlyOf[v]}
    OBVIOUS
  <2>. QED BY <2>1, <2>2, <1>2, <1>5, FeedAssumption DEF ViewerInv, Subscription
<1>. QED BY <1>1, <1>2, <1>3, <1>4, <1>6 DEF FeedInv

\* Every step of a call that shares the feed with its budget keeps the invariant.
LEMMA FeedStepInv == FeedInv /\ [BudgetNext]_vars => FeedInv'
<1>. SUFFICES ASSUME FeedInv, [BudgetNext]_vars PROVE FeedInv'
  OBVIOUS
<1>. USE BudgetAssumption
<1>1. CASE UNCHANGED feedVars
  <2>1. /\ pub' = pub /\ count' = count /\ stored' = stored
        /\ viewer' = viewer /\ log' = log
    BY <1>1 DEF feedVars
  <2>2. HooksInv'
    BY <2>1 DEF FeedInv, HooksInv
  <2>3. \A p \in Publishers : /\ count'[p] >= count[p]
                              /\ pub'[p] \in {"insert", "publish"} =>
                                   pub[p] \in {"insert", "publish"} \/ count'[p] > count[p]
    BY <2>1 DEF FeedInv, HooksInv
  <2>. QED BY <2>1, <2>2, <2>3, HooksMove
<1>2. CASE \E p \in Publishers : Emits(p) /\ UNCHANGED <<stored, viewer, log>>
  BY <1>2, EmitsInv
<1>3. CASE GuardEnds /\ UNCHANGED <<stored, viewer, log>>
  <2>1. HooksInv'
    BY <1>3 DEF GuardEnds, HooksInv, FeedInv
  <2>2. \A p \in Publishers : /\ count'[p] >= count[p]
                              /\ pub'[p] \in {"insert", "publish"} =>
                                   pub[p] \in {"insert", "publish"} \/ count'[p] > count[p]
    BY <1>3 DEF GuardEnds, HooksInv, FeedInv
  <2>. QED BY <2>1, <2>2, <1>3, HooksMove
<1>4. CASE FeedStep
  <2>1. ASSUME NEW p \in Publishers, Emit(p) PROVE FeedInv'
    BY <2>1, EmitsInv DEF Emit
  <2>2. ASSUME NEW p \in Publishers, InsertCallEvent(p) PROVE FeedInv'
    BY <2>2, InsertCallEventInv
  <2>3. ASSUME NEW p \in Publishers, PublishEvent(p) PROVE FeedInv'
    BY <2>3, PublishEventInv
  <2>4. ASSUME NEW v \in Viewers, StreamEvent(v) PROVE FeedInv'
    BY <2>4, StreamEventInv
  <2>5. ASSUME NEW v \in Viewers, Connect(v) \/ Disconnect(v) \/ Unsubscribe(v) PROVE FeedInv'
    BY <2>5, ConnectionsInv
  <2>. QED BY <1>4, <2>1, <2>2, <2>3, <2>4, <2>5 DEF FeedStep
<1>5. SecondPasses \/ BudgetWrapsUp \/ BudgetIsFine => UNCHANGED feedVars
  BY DEF SecondPasses, BudgetWrapsUp, BudgetIsFine, feedVars
<1>6. BudgetExpires \/ CallOver \/ SendWrapUp \/ EmitReturns =>
        \/ \E p \in Publishers : Emits(p) /\ UNCHANGED <<stored, viewer, log>>
        \/ GuardEnds /\ UNCHANGED <<stored, viewer, log>>
        \/ UNCHANGED feedVars
  BY DEF BudgetExpires, CallOver, SendWrapUp, EmitReturns, feedVars
<1>. QED BY <1>1, <1>2, <1>3, <1>4, <1>5, <1>6 DEF BudgetNext, WatchBudget, vars

\* The invariant gives the three promises of the feed.
LEMMA FeedInvSound == FeedInv => FeedTypeOK /\ FeedOK
<1>. SUFFICES ASSUME FeedInv PROVE FeedTypeOK /\ FeedOK
  OBVIOUS
<1>1. ASSUME NEW v \in Viewers
      PROVE  /\ viewer[v] \in Subscriptions /\ ViewerInv(v)
             /\ viewer[v].seen \o viewer[v].queue \in Seq(FeedEvents)
             /\ viewer[v].joined \in 0..Len(log)
  <2>1. viewer[v] \in Subscriptions /\ ViewerInv(v) /\ log \in Seq(FeedEvents)
    BY DEF FeedInv
  <2>2. /\ viewer[v].seen \in Seq(FeedEvents) /\ viewer[v].queue \in Seq(FeedEvents)
        /\ viewer[v].joined \in Nat /\ viewer[v].joined <= Len(log) /\ Len(log) \in Nat
    BY <2>1 DEF Subscriptions, ViewerInv
  <2>. QED BY <2>1, <2>2
<1>2. FeedTypeOK
  BY <1>1 DEF FeedInv, HooksInv, FeedTypeOK, FeedEvents, Subscriptions, ViewerInv
<1>3. LiveNeverAheadOfDb
  <2>. SUFFICES ASSUME NEW v \in Viewers, NEW e \in ToSet(viewer[v].seen \o viewer[v].queue)
                PROVE  e \in stored
    BY DEF LiveNeverAheadOfDb
  <2>1. PICK line \in Seq(FeedEvents) : line = viewer[v].seen \o viewer[v].queue
    BY <1>1, Zenon
  <2>2. PICK i \in 1..Len(line) : e = line[i]
    <3>1. e \in ToSet(line) /\ DOMAIN line = 1..Len(line)
      BY <2>1
    <3>. QED BY <3>1 DEF ToSet
  <2>. QED BY <2>1, <2>2, <1>1 DEF ViewerInv, LineOK
<1>4. NoGapUnlessFull
  BY <1>1 DEF NoGapUnlessFull, Subscribed, ViewerInv
<1>5. FeedInOrder
  BY <1>1 DEF FeedInOrder, ViewerInv, LineOK
<1>. QED BY <1>2, <1>3, <1>4, <1>5 DEF FeedOK

\* For any number of calls, viewers, events and places in a queue: what a viewer
\* sees is stored, in order, and complete unless its own queue filled
\* (gateway.py:199-208, live.py:39-60, stream.py:26-46).
THEOREM LiveFeedIsHonest == BudgetSpec => []FeedOK
<1>1. BudgetInit => FeedInv
  BY FeedInitInv DEF BudgetInit
<1>2. FeedInv => FeedOK
  BY FeedInvSound
<1>. QED BY <1>1, <1>2, FeedStepInv, PTL DEF BudgetSpec

-----------------------------------------------------------------------------
(* The budget *)

\* While the watch sleeps: it wakes in time, and what it last looked at, a tick
\* before that and at most `stall` later than it should have, was in budget and
\* warned about if it had to be.
SleepInv ==
  guard = "sleep" =>
    /\ elapsed <= due
    /\ due > Tick + stall => /\ ~Reached(100, due - Tick - stall)
                             /\ Reached(budget.wrapUpPct, due - Tick - stall) => wrappedUp

\* While it warns: what it looked at was in budget when the awaits began.
WarnInv ==
  guard \in {"wrapping", "telling"} =>
    wrappedUp /\ (elapsed > stall => ~Reached(100, elapsed - stall))

ExpiryInv ==
  guard = "expiring" /\ elapsed > Tick + stall =>
    (Reached(budget.wrapUpPct, elapsed - Tick - stall) => wrappedUp)

ToldInv ==
  /\ ~wrappedUp \/ guard = "wrapping" => told = 0
  /\ MarkedCallWasTold

WatchTypeOK ==
  /\ budget \in Budgets /\ elapsed \in 0..MaxElapsed /\ due \in Nat
  /\ guard \in {"sleep", "wrapping", "telling", "expiring", "over"} /\ wrappedUp \in BOOLEAN
  /\ told \in 0..1
  /\ stall \in 0..MaxStall

BudgetInv == WatchTypeOK /\ ToldInv /\ SleepInv /\ WarnInv /\ ExpiryInv

\* A share of the budget that is used up stays used up (budget_guard.py:83-90).
LEMMA ReachedStays ==
  ASSUME budget \in Budgets, NEW pct \in Nat, NEW s \in Int, NEW t \in Int, s <= t,
         Reached(pct, s)
  PROVE  Reached(pct, t)
<1>0. budget.maxSeconds \in Nat /\ budget.maxCost \in Nat
  BY BudgetAssumption
<1>. DEFINE seconds == pct * budget.maxSeconds
            money == pct * budget.maxCost
<1>1. seconds \in Int /\ money \in Int
  BY <1>0
<1>2. 100 * s >= seconds \/ 100 * (s * 3685 + 12000) >= money
  BY DEF Reached, EstimateCost, CostPerSecond, AnalysisCost
<1>. HIDE DEF seconds, money
<1>3. 100 * t >= seconds \/ 100 * (t * 3685 + 12000) >= money
  BY <1>1, <1>2
<1>. QED BY <1>3 DEF Reached, EstimateCost, CostPerSecond, AnalysisCost, seconds, money

LEMMA BudgetConstants ==
  ASSUME BudgetInv
  PROVE  /\ Tick \in Nat \ {0} /\ MaxStall \in Nat /\ MaxElapsed \in Nat
         /\ budget.wrapUpPct \in Nat
         /\ elapsed \in Nat /\ due \in Nat /\ stall \in Nat /\ budget \in Budgets
  BY BudgetAssumption DEF BudgetInv, WatchTypeOK

\* The first sleep of a call (budget_guard.py:68-70, bridge.py:616-618).
LEMMA BudgetInitInv == BudgetInit => BudgetInv
<1>. SUFFICES ASSUME BudgetInit PROVE BudgetInv
  OBVIOUS
<1>1. /\ budget \in Budgets /\ elapsed = 0 /\ due = Tick /\ guard = "sleep"
      /\ ~wrappedUp /\ wrappedUp \in BOOLEAN /\ told = 0 /\ stall = 0
  BY DEF BudgetInit
<1>2. Tick \in Nat \ {0} /\ MaxStall \in Nat /\ MaxElapsed \in Nat
  BY BudgetAssumption
<1>3. WatchTypeOK
  BY <1>1, <1>2 DEF WatchTypeOK
<1>4. ToldInv
  BY <1>1 DEF ToldInv, MarkedCallWasTold
<1>5. SleepInv /\ WarnInv /\ ExpiryInv
  BY <1>1, <1>2 DEF SleepInv, WarnInv, ExpiryInv
<1>. QED BY <1>3, <1>4, <1>5 DEF BudgetInv

\* A second of sleep does not pass the wake-up; a second of an await is stall.
LEMMA SecondPassesInv == ASSUME BudgetInv, SecondPasses PROVE BudgetInv'
<1>1. /\ budget' = budget /\ due' = due /\ guard' = guard /\ wrappedUp' = wrappedUp
      /\ told' = told /\ elapsed' = elapsed + 1 /\ elapsed < MaxElapsed
      /\ guard = "sleep" => elapsed < due /\ stall' = stall
      /\ guard # "sleep" => stall < MaxStall /\ stall' = stall + 1
  BY DEF SecondPasses
<1>2. WatchTypeOK'
  BY <1>1, BudgetConstants DEF BudgetInv, WatchTypeOK
<1>3. ToldInv'
  BY <1>1 DEF BudgetInv, ToldInv, MarkedCallWasTold
<1>4. SleepInv'
  BY <1>1, BudgetConstants DEF BudgetInv, SleepInv, Reached
<1>5. WarnInv'
  <2>1. guard # "sleep" => elapsed' - stall' = elapsed - stall /\ (elapsed' > stall' => elapsed > stall)
    BY <1>1, BudgetConstants
  <2>. QED BY <1>1, <2>1 DEF BudgetInv, WarnInv, Reached
<1>6. ExpiryInv'
  <2>1. guard # "sleep" => /\ elapsed' - Tick - stall' = elapsed - Tick - stall
                           /\ elapsed' > Tick + stall' => elapsed > Tick + stall
    BY <1>1, BudgetConstants
  <2>. QED BY <1>1, <2>1 DEF BudgetInv, ExpiryInv, Reached
<1>. QED BY <1>2, <1>3, <1>4, <1>5, <1>6 DEF BudgetInv

\* The three outcomes of a tick.
LEMMA TickInv ==
  ASSUME BudgetInv, BudgetExpires \/ BudgetWrapsUp \/ BudgetIsFine
  PROVE  BudgetInv'
<1>1. guard = "sleep" /\ elapsed = due /\ UNCHANGED <<budget, elapsed, told, stall>>
  BY DEF BudgetExpires, BudgetWrapsUp, BudgetIsFine, Awake
<1>2. /\ Tick \in Nat \ {0} /\ budget.wrapUpPct \in Nat /\ elapsed \in Nat /\ stall \in Nat
      /\ budget \in Budgets /\ wrappedUp \in BOOLEAN
  BY BudgetConstants DEF BudgetInv, WatchTypeOK
<1>3. \A pct \in Nat : Reached(pct, elapsed - stall) => Reached(pct, elapsed)
  BY <1>2, ReachedStays
<1>4. /\ told = 0 \/ wrappedUp
      /\ wrappedUp <=> told = 1
      /\ elapsed > Tick + stall => (Reached(budget.wrapUpPct, elapsed - Tick - stall) => wrappedUp)
  BY <1>1, <1>2 DEF BudgetInv, ToldInv, MarkedCallWasTold, SleepInv
<1>5. CASE BudgetExpires
  <2>1. guard' = "expiring" /\ wrappedUp' = wrappedUp /\ due' = due
    BY <1>5 DEF BudgetExpires, GuardMoves
  <2>2. WatchTypeOK'
    BY <1>1, <2>1 DEF BudgetInv, WatchTypeOK
  <2>3. ToldInv'
    BY <1>1, <1>4, <2>1 DEF ToldInv, MarkedCallWasTold
  <2>4. SleepInv' /\ WarnInv'
    BY <2>1 DEF SleepInv, WarnInv
  <2>5. ExpiryInv'
    BY <1>1, <1>4, <2>1 DEF ExpiryInv, Reached
  <2>. QED BY <2>2, <2>3, <2>4, <2>5 DEF BudgetInv
<1>6. CASE BudgetWrapsUp
  <2>1. guard' = "wrapping" /\ wrappedUp' = TRUE /\ due' = due /\ ~wrappedUp /\ ~Reached(100, elapsed)
    BY <1>6 DEF BudgetWrapsUp, NeedsWrapUpNow, Check, feedVars
  <2>2. WatchTypeOK'
    BY <1>1, <2>1 DEF BudgetInv, WatchTypeOK
  <2>3. ToldInv'
    BY <1>1, <1>4, <2>1 DEF ToldInv, MarkedCallWasTold
  <2>4. SleepInv' /\ ExpiryInv'
    BY <2>1 DEF SleepInv, ExpiryInv
  <2>5. WarnInv'
    BY <1>1, <1>3, <2>1 DEF WarnInv, Reached
  <2>. QED BY <2>2, <2>3, <2>4, <2>5 DEF BudgetInv
<1>7. CASE BudgetIsFine
  <2>1. /\ guard' = "sleep" /\ wrappedUp' = wrappedUp /\ due' = elapsed + Tick
        /\ ~Reached(100, elapsed)
        /\ Reached(budget.wrapUpPct, elapsed) => wrappedUp
    BY <1>7 DEF BudgetIsFine, NeedsWrapUpNow, Check, Sleeps, GuardMoves
  <2>2. WatchTypeOK'
    BY <1>1, <1>2, <2>1 DEF BudgetInv, WatchTypeOK
  <2>3. ToldInv'
    BY <1>1, <1>4, <2>1 DEF ToldInv, MarkedCallWasTold
  <2>4. WarnInv' /\ ExpiryInv'
    BY <2>1 DEF WarnInv, ExpiryInv
  <2>5. due' - Tick - stall' = elapsed - stall /\ elapsed' <= due'
    BY <1>1, <1>2, <2>1
  <2>6. /\ ~Reached(100, elapsed - stall)
        /\ Reached(budget.wrapUpPct, elapsed - stall) => wrappedUp
    BY <1>2, <1>3, <2>1
  <2>7. SleepInv'
    BY <1>1, <2>1, <2>5, <2>6 DEF SleepInv, Reached
  <2>. QED BY <2>2, <2>3, <2>4, <2>7 DEF BudgetInv
<1>. QED BY <1>5, <1>6, <1>7

\* The instruction goes out once, and the watch sleeps again or is over.
LEMMA AfterTickInv ==
  ASSUME BudgetInv, SendWrapUp \/ EmitReturns \/ CallOver
  PROVE  BudgetInv'
<1>1. UNCHANGED <<budget, elapsed, wrappedUp, stall>>
  BY DEF SendWrapUp, EmitReturns, CallOver, GuardEnds, GuardMoves, Sleeps
<1>2. CASE guard' = "over" /\ UNCHANGED <<told, due>>
  <2>1. ToldInv'
    BY <1>1, <1>2 DEF BudgetInv, ToldInv, MarkedCallWasTold
  <2>. QED BY <2>1, <1>1, <1>2 DEF BudgetInv, WatchTypeOK, SleepInv, WarnInv, ExpiryInv
<1>3. CASE guard = "wrapping" /\ guard' = "telling" /\ told' = told + 1 /\ due' = due
  <2>1. told = 0 /\ wrappedUp /\ (elapsed > stall => ~Reached(100, elapsed - stall))
    BY <1>3 DEF BudgetInv, ToldInv, WarnInv
  <2>2. WatchTypeOK'
    BY <1>1, <1>3, <2>1 DEF BudgetInv, WatchTypeOK
  <2>3. ToldInv'
    BY <1>1, <1>3, <2>1 DEF ToldInv, MarkedCallWasTold
  <2>4. WarnInv'
    BY <1>1, <1>3, <2>1 DEF WarnInv, Reached
  <2>. QED BY <2>2, <2>3, <2>4, <1>3 DEF BudgetInv, SleepInv, ExpiryInv
<1>4. CASE guard = "telling" /\ guard' = "sleep" /\ due' = elapsed + Tick /\ told' = told
  <2>1. wrappedUp /\ (elapsed > stall => ~Reached(100, elapsed - stall))
    BY <1>4 DEF BudgetInv, WarnInv
  <2>2. due' - Tick - stall' = elapsed - stall /\ elapsed' <= due' /\ due' \in Nat
        /\ (due' > Tick + stall' => elapsed > stall)
    BY <1>1, <1>4, BudgetConstants
  <2>3. WatchTypeOK'
    BY <1>1, <1>4, <2>2 DEF BudgetInv, WatchTypeOK
  <2>4. ToldInv'
    BY <1>1, <1>4, <2>1 DEF BudgetInv, ToldInv, MarkedCallWasTold
  <2>5. SleepInv'
    BY <1>1, <1>4, <2>1, <2>2 DEF SleepInv, Reached
  <2>. QED BY <2>3, <2>4, <2>5, <1>4 DEF BudgetInv, WarnInv, ExpiryInv
<1>5. SendWrapUp => (guard = "wrapping" /\ guard' = "telling" /\ told' = told + 1 /\ due' = due)
                      \/ (guard' = "over" /\ UNCHANGED <<told, due>>)
  BY DEF SendWrapUp, GuardMoves, GuardEnds
<1>6. EmitReturns => (guard = "telling" /\ guard' = "sleep" /\ due' = elapsed + Tick /\ told' = told)
                       \/ (guard' = "over" /\ UNCHANGED <<told, due>>)
  BY DEF EmitReturns, GuardMoves, GuardEnds, Sleeps
<1>7. CallOver => guard' = "over" /\ UNCHANGED <<told, due>>
  BY DEF CallOver, GuardMoves, GuardEnds
<1>. QED BY <1>2, <1>3, <1>4, <1>5, <1>6, <1>7

\* Every step of a call keeps the invariant of its budget.
LEMMA BudgetStepInv == BudgetInv /\ [BudgetNext]_vars => BudgetInv'
<1>. SUFFICES ASSUME BudgetInv, [BudgetNext]_vars PROVE BudgetInv'
  OBVIOUS
<1>1. CASE UNCHANGED budgetVars
  <2>1. /\ budget' = budget /\ elapsed' = elapsed /\ due' = due /\ guard' = guard
        /\ wrappedUp' = wrappedUp /\ told' = told /\ stall' = stall
    BY <1>1 DEF budgetVars
  <2>2. ToldInv' /\ WatchTypeOK'
    BY <2>1 DEF BudgetInv, WatchTypeOK, ToldInv, MarkedCallWasTold
  <2>3. SleepInv' /\ WarnInv' /\ ExpiryInv'
    BY <2>1 DEF BudgetInv, SleepInv, WarnInv, ExpiryInv, Reached
  <2>. QED BY <2>2, <2>3 DEF BudgetInv
<1>. QED BY <1>1, SecondPassesInv, TickInv, AfterTickInv DEF BudgetNext, WatchBudget, vars

\* The invariant bounds the overrun and promises the warning.
LEMMA BudgetInvSound == FeedInv /\ BudgetInv => BudgetOK
<1>. SUFFICES ASSUME FeedInv, BudgetInv PROVE BudgetOK
  OBVIOUS
<1>1. BudgetTypeOK
  BY FeedInvSound DEF BudgetInv, WatchTypeOK, BudgetTypeOK
<1>2. MarkedCallWasTold
  BY DEF BudgetInv, ToldInv
<1>3. OverrunBounded
  <2>. SUFFICES ASSUME guard = "sleep", elapsed > Tick + stall
                PROVE  ~Reached(100, elapsed - Tick - stall)
    BY DEF OverrunBounded
  <2>1. elapsed <= due /\ (due > Tick + stall => ~Reached(100, due - Tick - stall))
    BY DEF BudgetInv, SleepInv
  <2>2. /\ due > Tick + stall /\ elapsed - Tick - stall <= due - Tick - stall
        /\ elapsed - Tick - stall \in Int /\ due - Tick - stall \in Int /\ budget \in Budgets
    BY <2>1, BudgetConstants
  <2>. QED BY <2>1, <2>2, ReachedStays
<1>4. WarnedBeforeEnd
  BY DEF BudgetInv, ExpiryInv, ToldInv, MarkedCallWasTold, WarnedBeforeEnd
<1>. QED BY <1>1, <1>2, <1>3, <1>4 DEF BudgetOK

\* For any budget, tick and stalls: a call goes on at most a tick and its own
\* awaits beyond its ceilings, is told to wrap up once, and before the end when
\* the window is wide enough (budget_guard.py:79-113, bridge.py:616-641).
THEOREM BudgetIsKept == BudgetSpec => []BudgetOK
<1>1. BudgetInit => FeedInv
  BY FeedInitInv DEF BudgetInit
<1>. QED BY <1>1, BudgetInitInv, FeedStepInv, BudgetStepInv, BudgetInvSound, PTL DEF BudgetSpec

=============================================================================
