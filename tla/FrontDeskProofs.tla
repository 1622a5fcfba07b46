-------------------------- MODULE FrontDeskProofs ---------------------------
(***************************************************************************)
(* For any number of invocations, requests, files and edits, any hours and *)
(* any samples: the parts around a call keep what MCFrontDesk checks of    *)
(* them on small instances.                                                *)
(* Each part is proved as a specification of its own; in a behaviour of    *)
(* FrontSpec every part but one stands still, so that it is a behaviour of *)
(* each.                                                                   *)
(***************************************************************************)
EXTENDS Registry, DemoReplay, Recording, Rules, Reporting, Transfer, FiniteSetTheorems,
        WellFoundedInduction, TLAPS

-----------------------------------------------------------------------------
(* The hand-over to a person. *)

Told == {"ok", "unavailable"}
Oks == {i \in DOMAIN results : results[i] = "ok"}

\* Every request Twilio may still act on, and every redirect it made, belongs
\* to one invocation that has posted: before its first POST, and between two
\* attempts, an invocation has no request on its way. A redirect nobody was
\* told of is left for the answer that is waited for.
TransferInv ==
  /\ transfer \in [at : {"idle", "post", "asked"}, attempt : Nat]
  /\ results \in Seq(Told)
  /\ request \in {"none", "sent", "acted"}
  /\ strays \in Nat /\ redirects \in Nat
  /\ request = "none" <=> transfer.at # "asked"
  /\ redirects + strays + (IF request = "sent" THEN 1 ELSE 0)
       <= Len(results) + (IF transfer.at = "asked" THEN 1 ELSE 0)
  /\ Cardinality(Oks) + (IF request = "acted" THEN 1 ELSE 0) <= redirects

\* A redirect is an unsafe write: only what never reached Twilio is sent again,
\* and only a request it acted on is answered "ok" (resilience.py:51-60).
LEMMA RedirectAnswers ==
  /\ \A n \in Nat, a \in Answers :
       Retries(UnsafeWrite, n, a) => a \in {"limited", "unconnected"}
  /\ Possible(TRUE) = {"ok", "broken", "unanswered"}
  /\ \A a \in Possible(FALSE) : a # "ok" /\ a \in Answers
BY DEF Retries, UnsafeWrite, Policy, Retryable, PreDeliveryStatus, PreDeliveryExceptions,
       Possible, Answers, RetryableStatus, RetryableExceptions

\* One more line told to the model counts once if it is "ok", else not.
LEMMA OksAppend ==
  ASSUME results \in Seq(Told), NEW status \in Told, results' = Append(results, status)
  PROVE  /\ Cardinality(Oks) \in Nat /\ Len(results') = Len(results) + 1
         /\ Cardinality(Oks') = Cardinality(Oks) + (IF status = "ok" THEN 1 ELSE 0)
         /\ results' \in Seq(Told)
<1>1. /\ Len(results) \in Nat /\ DOMAIN results = 1..Len(results)
      /\ Len(results') = Len(results) + 1 /\ DOMAIN results' = 1..(Len(results) + 1)
      /\ \A i \in 1..Len(results) : results'[i] = results[i]
      /\ results'[Len(results) + 1] = status /\ results' \in Seq(Told)
  OBVIOUS
<1>2. IsFiniteSet(Oks) /\ Cardinality(Oks) \in Nat
  <2>1. IsFiniteSet(1..Len(results))
    BY <1>1, FS_Interval
  <2>2. Oks \subseteq 1..Len(results)
    BY <1>1 DEF Oks
  <2>. QED BY <2>1, <2>2, FS_Subset, FS_CardinalityType
<1>3. Oks' = IF status = "ok" THEN Oks \cup {Len(results) + 1} ELSE Oks
  BY <1>1 DEF Oks
<1>4. Len(results) + 1 \notin Oks
  BY <1>1 DEF Oks
<1>5. Cardinality(Oks \cup {Len(results) + 1}) = Cardinality(Oks) + 1
  BY <1>2, <1>4, FS_AddElement
<1>6. Cardinality(Oks') = Cardinality(Oks) + (IF status = "ok" THEN 1 ELSE 0)
  BY <1>2, <1>3, <1>5
<1>. QED BY <1>1, <1>2, <1>6

\* Telling the model ends the invocation.
LEMMA TellsFacts ==
  ASSUME TransferInv, NEW status \in Told, Tells(status)
  PROVE  /\ transfer' = [at |-> "idle", attempt |-> 0] /\ results' \in Seq(Told)
         /\ Len(results) \in Nat /\ Len(results') = Len(results) + 1
         /\ Cardinality(Oks) \in Nat
         /\ Cardinality(Oks') = Cardinality(Oks) + (IF status = "ok" THEN 1 ELSE 0)
BY OksAppend DEF Tells, TransferInv

\* Nothing has been asked, told or redirected when the call begins.
LEMMA TransferInitInv == TransferInit => TransferInv
<1>. SUFFICES ASSUME TransferInit PROVE TransferInv
  OBVIOUS
<1>1. Oks = {} /\ Cardinality(Oks) = 0 /\ Len(results) = 0
  BY FS_EmptySet DEF TransferInit, Oks
<1>. QED BY <1>1 DEF TransferInit, TransferInv

\* A step that tells nobody anything.
LEMMA QuietTransferStep ==
  ASSUME TransferInv, UNCHANGED results
  PROVE  Len(results) \in Nat /\ Oks' = Oks /\ Cardinality(Oks) \in Nat
<1>1. results \in Seq(Told)
  BY DEF TransferInv
<1>2. Len(results) \in Nat /\ IsFiniteSet(Oks)
  <2>1. Len(results) \in Nat /\ IsFiniteSet(1..Len(results)) /\ DOMAIN results = 1..Len(results)
    BY <1>1, FS_Interval
  <2>2. Oks \subseteq 1..Len(results)
    BY <2>1 DEF Oks
  <2>. QED BY <2>1, <2>2, FS_Subset
<1>. QED BY <1>2, FS_CardinalityType DEF Oks

\* Every step keeps the invariant.
LEMMA TransferStepInv == TransferInv /\ [TransferNext]_transferVars => TransferInv'
<1>. SUFFICES ASSUME TransferInv, [TransferNext]_transferVars PROVE TransferInv'
  OBVIOUS
<1>. USE DEF TransferInv
<1>1. CASE TransferToHuman
  <2>1. CASE ~ready
    BY <1>1, <2>1, TellsFacts DEF TransferToHuman, Told
  <2>2. CASE ready
    BY <1>1, <2>2, QuietTransferStep DEF TransferToHuman
  <2>. QED BY <2>1, <2>2
<1>2. CASE PostRedirect
  <2>1. UNCHANGED results
    BY <1>2 DEF PostRedirect
  <2>. QED BY <1>2, <2>1, QuietTransferStep DEF PostRedirect
<1>3. CASE TwilioRedirects
  <2>1. UNCHANGED results
    BY <1>3 DEF TwilioRedirects
  <2>. QED BY <1>3, <2>1, QuietTransferStep DEF TwilioRedirects
<1>4. CASE RedirectAnswered
  <2>1. PICK answer \in Possible(request = "acted") :
          /\ IF Retries(UnsafeWrite, transfer.attempt, answer)
             THEN transfer' = [transfer EXCEPT !.at = "post"] /\ UNCHANGED results
             ELSE Tells(StatusOf(answer))
          /\ IF answer \in {"broken", "unanswered"} THEN Forget
             ELSE request' = "none" /\ UNCHANGED strays
    BY <1>4 DEF RedirectAnswered
  <2>2. transfer.at = "asked" /\ UNCHANGED redirects
    BY <1>4 DEF RedirectAnswered
  <2>3. /\ answer = "ok" => request = "acted"
        /\ request = "acted" => answer \in {"ok", "broken", "unanswered"}
        /\ answer \in Answers
    BY RedirectAnswers DEF Answers, RetryableStatus, RetryableExceptions, PreDeliveryStatus, PreDeliveryExceptions
  <2>4. CASE Retries(UnsafeWrite, transfer.attempt, answer)
    <3>1. answer \in {"limited", "unconnected"}
      BY <2>3, <2>4, RedirectAnswers
    <3>2. request = "sent" /\ request' = "none" /\ UNCHANGED <<strays, results>>
      BY <2>1, <2>2, <2>3, <2>4, <3>1
    <3>3. transfer' = [transfer EXCEPT !.at = "post"]
      BY <2>1, <2>4
    <3>. QED BY <2>2, <3>2, <3>3, QuietTransferStep
  <2>5. CASE ~Retries(UnsafeWrite, transfer.attempt, answer)
    <3>1. Tells(StatusOf(answer)) /\ StatusOf(answer) \in Told
      BY <2>1, <2>5 DEF StatusOf, Told
    <3>2. StatusOf(answer) = "ok" => request = "acted"
      BY <2>3 DEF StatusOf
    <3>3. /\ request' = "none"
          /\ strays' \in {strays, strays + 1} /\ (strays' = strays + 1 => request = "sent")
      BY <2>1, <2>2 DEF Forget
    <3>. QED BY <2>2, <3>1, <3>2, <3>3, TellsFacts
  <2>. QED BY <2>4, <2>5
<1>5. CASE TransferTimesOut
  <2>1. /\ Tells("unavailable") /\ "unavailable" \in Told
        /\ request' = "none" /\ strays' = (IF request = "sent" THEN strays + 1 ELSE strays)
        /\ UNCHANGED redirects
    BY <1>5 DEF TransferTimesOut, Forget, Told
  <2>. QED BY <2>1, TellsFacts
<1>6. CASE StreamCloses \/ UNCHANGED transferVars
  <2>1. UNCHANGED <<transfer, results, request, strays, redirects>>
    BY <1>6 DEF StreamCloses, transferVars
  <2>. QED BY <2>1, QuietTransferStep
<1>. QED BY <1>1, <1>2, <1>3, <1>4, <1>5, <1>6 DEF TransferNext

\* An invocation redirects the call at most once, and the model hears "ok" only
\* of a redirect that was made, one each (transfer.py:82-147).
THEOREM TransferCorrect == TransferSpec => []TransferOK
<1>1. TransferInv => TransferOK
  <2>. SUFFICES ASSUME TransferInv PROVE TransferOK
    OBVIOUS
  <2>1. Len(results) \in Nat /\ Cardinality(Oks) \in Nat
    <3>1. results \in Seq(Told)
      BY DEF TransferInv
    <3>2. Len(results) \in Nat /\ IsFiniteSet(1..Len(results)) /\ Oks \subseteq 1..Len(results)
      BY <3>1, FS_Interval DEF Oks
    <3>. QED BY <3>2, FS_Subset, FS_CardinalityType
  <2>2. Connected = Cardinality(Oks)
    BY DEF Connected, Oks
  <2>. QED BY <2>1, <2>2 DEF TransferInv, TransferOK, OneRedirectPerInvocation,
                             ToldConnectedIsRedirected, Invocations
<1>. QED BY <1>1, TransferInitInv, TransferStepInv, PTL DEF TransferSpec

-----------------------------------------------------------------------------
(* The showcase. *)

Places == {"idle", "waits", "writes", "published", "done", "lost", "failed"}

\* One transaction at a time has the fixture's row. Until it publishes, no
\* viewer hears of a request; once it has, it is what they heard last until its
\* end is known, and whoever published last is committed, about to be, or
\* failed.
DemoInv ==
  /\ replay \in [Replays -> [at : Places, parts : 0..6]]
  /\ \A q, r \in Replays : Holds(q) /\ Holds(r) => q = r
  /\ \A r \in Replays : At(r, "published") => replay[r].parts = 6 /\ feed /= <<>> /\ Last(feed) = r
  /\ \A r \in Replays : replay[r].at \in {"idle", "waits", "writes", "lost"} =>
                           \A i \in 1..Len(feed) : feed[i] /= r
  /\ feed /= <<>> => At(Last(feed), "published") \/ At(Last(feed), "failed") \/ stored.by = Last(feed)
  /\ feed \in Seq(Replays) /\ edited \in BOOLEAN
  /\ stored = Nobody \/ (stored.by \in Replays /\ stored.parts = 6)

\* The scripted call has six parts (replay.py:209-301).
LEMMA SixParts == Whole = 6
BY DEF Whole, FixtureReplay

LEMMA DemoInitInv == DemoInit => DemoInv
<1>. SUFFICES ASSUME DemoInit PROVE DemoInv
  OBVIOUS
<1>1. replay \in [Replays -> [at : Places, parts : 0..6]]
  BY DEF DemoInit, Places
<1>2. \A r \in Replays : ~Holds(r) /\ ~At(r, "published")
  BY DEF DemoInit, Holds, At
<1>3. feed = <<>> /\ feed \in Seq(Replays) /\ \A r \in Replays : \A i \in 1..Len(feed) : feed[i] /= r
  BY DEF DemoInit
<1>. QED BY <1>1, <1>2, <1>3 DEF DemoInit, DemoInv

\* Publishing puts a request last in the feed, and no other into it.
LEMMA FeedAppend ==
  ASSUME feed \in Seq(Replays), NEW r \in Replays, feed' = Append(feed, r)
  PROVE  /\ feed' \in Seq(Replays) /\ feed' /= <<>> /\ Last(feed') = r
         /\ \A q \in Replays : q /= r /\ (\A i \in 1..Len(feed) : feed[i] /= q)
              => \A i \in 1..Len(feed') : feed'[i] /= q
BY DEF Last

\* A request that neither publishes nor commits moves on by itself.
LEMMA DemoQuietStep ==
  ASSUME DemoInv, UNCHANGED <<stored, feed>>, edited' \in BOOLEAN,
         replay' \in [Replays -> [at : Places, parts : 0..6]],
         \A q, r \in Replays : Holds(q)' /\ Holds(r)' => q = r,
         \A r \in Replays : At(r, "published")' => replay'[r] = replay[r],
         \A r \in Replays : replay'[r].at \in {"idle", "waits", "writes", "lost"} =>
                            replay[r].at \in {"idle", "waits", "writes", "lost"},
         \A r \in Replays : At(r, "published") => At(r, "published")' \/ At(r, "failed")',
         \A r \in Replays : At(r, "failed") => At(r, "failed")'
  PROVE  DemoInv'
<1>1. feed /= <<>> => Last(feed) \in Replays
  BY DEF DemoInv, Last
<1>2. \A r \in Replays : At(r, "published")' => replay'[r].parts = 6 /\ feed' /= <<>> /\ Last(feed') = r
  BY DEF DemoInv, At
<1>3. feed' /= <<>> => At(Last(feed), "published")' \/ At(Last(feed), "failed")' \/ stored'.by = Last(feed')
  BY <1>1 DEF DemoInv
<1>. QED BY <1>2, <1>3 DEF DemoInv, At

\* A request that does not publish leaves the feed and, unless it commits, what
\* is stored.
LEMMA DemoStepInv == DemoInv /\ [DemoNext]_demoVars => DemoInv'
<1>. SUFFICES ASSUME DemoInv, [DemoNext]_demoVars PROVE DemoInv'
  OBVIOUS
<1>0. feed /= <<>> => Last(feed) \in Replays
  BY DEF DemoInv, Last
<1>1. ASSUME NEW r \in Replays, ResetAndReplay(r) PROVE DemoInv'
  <2>1. /\ At(r, "idle") /\ UNCHANGED <<stored, feed>> /\ edited' \in BOOLEAN
        /\ \/ replay' = [replay EXCEPT ![r].at = "waits"] /\ \E q \in Replays : Holds(q)
           \/ replay' = [replay EXCEPT ![r].at = "writes"] /\ \A q \in Replays : ~Holds(q)
    BY <1>1 DEF ResetAndReplay, Goes
  <2>2. replay' \in [Replays -> [at : Places, parts : 0..6]]
    BY <2>1 DEF DemoInv, Places
  <2>3. /\ \A q \in Replays : q /= r => replay'[q] = replay[q]
        /\ replay'[r].at \in {"waits", "writes"}
        /\ replay'[r].at = "writes" => \A q \in Replays : ~Holds(q)
    BY <2>1 DEF DemoInv
  <2>. QED BY <2>1, <2>2, <2>3, DemoQuietStep DEF DemoInv, At, Holds
<1>2. ASSUME NEW r \in Replays, Persist(r) PROVE DemoInv'
  <2>1. /\ At(r, "writes") /\ replay[r].parts < 6 /\ UNCHANGED <<stored, feed, edited>>
        /\ replay' = [replay EXCEPT ![r].parts = @ + 1]
    BY <1>2, SixParts DEF Persist
  <2>2. replay' \in [Replays -> [at : Places, parts : 0..6]]
    BY <2>1 DEF DemoInv
  <2>3. replay'[r].at = "writes" /\ \A q \in Replays : q /= r => replay'[q] = replay[q]
    BY <2>1 DEF DemoInv, At
  <2>. QED BY <2>1, <2>2, <2>3, DemoQuietStep DEF DemoInv, At, Holds
<1>3. ASSUME NEW r \in Replays, PublishReplay(r) PROVE DemoInv'
  <2>1. /\ At(r, "writes") /\ replay[r].parts = 6 /\ UNCHANGED <<stored, edited>>
        /\ feed' = Append(feed, r) /\ replay' = [replay EXCEPT ![r].at = "published"]
    BY <1>3, SixParts DEF PublishReplay, Goes
  <2>2. \A q \in Replays : q /= r => ~Holds(q)
    BY <2>1 DEF DemoInv, At, Holds
  <2>3. feed \in Seq(Replays)
    BY DEF DemoInv
  <2>. QED BY <2>1, <2>2, <2>3, FeedAppend DEF DemoInv, At, Holds, Places
<1>4. ASSUME NEW r \in Replays, CommitReplay(r) PROVE DemoInv'
  <2>1. /\ At(r, "published") /\ UNCHANGED <<feed, edited>> /\ Last(feed) = r
        /\ stored' = [by |-> r, parts |-> 6]
    BY <1>4 DEF CommitReplay, DemoInv
  <2>2. \A q \in Replays : replay'[q] = IF q = r THEN [replay[q] EXCEPT !.at = "done"]
                                        ELSE IF At(q, "waits") THEN [replay[q] EXCEPT !.at = "lost"]
                                        ELSE replay[q]
    BY <1>4, <2>1 DEF CommitReplay, At, Holds
  <2>3. replay' \in [Replays -> [at : Places, parts : 0..6]]
    <3>1. replay' = [q \in Replays |-> replay'[q]]
      BY <1>4 DEF CommitReplay
    <3>2. ASSUME NEW q \in Replays PROVE replay'[q] \in [at : Places, parts : 0..6]
      <4>1. PICK at \in {replay[q].at, "done", "lost"} : replay'[q] = [replay[q] EXCEPT !.at = at]
        <5>1. replay[q] \in [at : Places, parts : 0..6]
          BY DEF DemoInv
        <5>2. replay[q] = [replay[q] EXCEPT !.at = replay[q].at]
          BY <5>1
        <5>. QED BY <2>2, <5>2
      <4>2. replay[q] \in [at : Places, parts : 0..6] /\ at \in Places
        BY DEF DemoInv, Places
      <4>. QED BY <4>1, <4>2
    <3>. QED BY <3>1, <3>2
  <2>4. \A q \in Replays : ~Holds(q)'
    <3>1. \A q \in Replays : q /= r => ~Holds(q)
      BY <2>1 DEF DemoInv, At, Holds
    <3>2. replay'[r].at = "done"
      BY <2>2 DEF DemoInv
    <3>3. \A q \in Replays : q /= r => replay'[q] = replay[q] \/ replay'[q].at = "lost"
      <4>. SUFFICES ASSUME NEW q \in Replays, q /= r
                    PROVE  replay'[q] = replay[q] \/ replay'[q].at = "lost"
        OBVIOUS
      <4>1. replay'[q] = replay[q] \/ replay'[q] = [replay[q] EXCEPT !.at = "lost"]
        BY <2>2
      <4>2. replay[q] \in [at : Places, parts : 0..6]
        BY DEF DemoInv
      <4>. QED BY <4>1, <4>2
    <3>. QED BY <3>1, <3>2, <3>3 DEF Holds
  <2>5. \A q \in Replays : replay'[q].at \in {"idle", "waits", "writes", "lost"} =>
          replay[q].at \in {"idle", "waits", "writes", "lost"}
    BY <2>1, <2>2 DEF DemoInv, At
  <2>. QED BY <2>1, <2>3, <2>4, <2>5 DEF DemoInv, At, Holds
<1>5. ASSUME NEW r \in Replays, ReplayFails(r) PROVE DemoInv'
  <2>1. /\ Holds(r) /\ UNCHANGED <<stored, feed, edited>>
        /\ \/ replay' = [replay EXCEPT ![r].at = "failed"]
           \/ \E q \in Replays : /\ At(q, "waits")
                                 /\ replay' = [replay EXCEPT ![r].at = "failed", ![q].at = "writes"]
    BY <1>5 DEF ReplayFails, Goes
  <2>2. \A q \in Replays : q /= r => ~Holds(q)
    BY <2>1 DEF DemoInv
  <2>3. CASE replay' = [replay EXCEPT ![r].at = "failed"]
    <3>1. replay' \in [Replays -> [at : Places, parts : 0..6]]
      BY <2>3 DEF DemoInv, Places
    <3>2. replay'[r].at = "failed" /\ \A p \in Replays : p /= r => replay'[p] = replay[p]
      BY <2>3 DEF DemoInv
    <3>. QED BY <2>1, <2>2, <3>1, <3>2, DemoQuietStep DEF DemoInv, At, Holds
  <2>4. ASSUME NEW q \in Replays, At(q, "waits"),
               replay' = [replay EXCEPT ![r].at = "failed", ![q].at = "writes"]
        PROVE  DemoInv'
    <3>1. q /= r
      BY <2>1, <2>4 DEF At, Holds
    <3>2. replay' \in [Replays -> [at : Places, parts : 0..6]]
      BY <2>4, ZenonT(60) DEF DemoInv, Places
    <3>3. /\ replay'[r].at = "failed" /\ replay'[q].at = "writes"
          /\ \A p \in Replays : p /= r /\ p /= q => replay'[p] = replay[p]
      BY <2>4, <3>1 DEF DemoInv
    <3>4. \A p \in Replays : Holds(p)' => p = q
      BY <2>2, <3>3 DEF Holds
    <3>5. \A p \in Replays : At(p, "published")' => replay'[p] = replay[p]
      BY <3>3 DEF At
    <3>6. \A p \in Replays : replay'[p].at \in {"idle", "waits", "writes", "lost"} =>
                             replay[p].at \in {"idle", "waits", "writes", "lost"}
      BY <2>4, <3>3 DEF At
    <3>7. \A p \in Replays : /\ At(p, "published") => At(p, "published")' \/ At(p, "failed")'
                             /\ At(p, "failed") => At(p, "failed")'
      BY <2>4, <3>3 DEF At
    <3>8. edited' \in BOOLEAN
      BY <2>1 DEF DemoInv
    <3>. QED BY <2>1, <3>2, <3>4, <3>5, <3>6, <3>7, <3>8, DemoQuietStep
  <2>. QED BY <2>1, <2>3, <2>4
<1>6. CASE EditConfig \/ UNCHANGED demoVars
  <2>1. UNCHANGED <<stored, replay, feed>> /\ edited' \in BOOLEAN
    BY <1>6 DEF EditConfig, demoVars, DemoInv
  <2>. QED BY <2>1 DEF DemoInv, At, Holds
<1>. QED BY <1>1, <1>2, <1>3, <1>4, <1>5, <1>6 DEF DemoNext

\* The probe and the viewers: the invariants of ReplayOK follow.
LEMMA DemoInvariants ==
  DemoInv => DemoTypeOK /\ ReadyMeansWhole /\ LoserPublishesNothing /\ LastShownIsStored
<1>. SUFFICES ASSUME DemoInv
              PROVE  DemoTypeOK /\ ReadyMeansWhole /\ LoserPublishesNothing /\ LastShownIsStored
  OBVIOUS
<1>1. DemoTypeOK
  BY SixParts DEF DemoInv, DemoTypeOK, Places
<1>2. ReadyMeansWhole
  BY SixParts DEF DemoInv, ReadyMeansWhole, FixtureDataReady
<1>3. LoserPublishesNothing
  BY DEF DemoInv, LoserPublishesNothing, Contains
<1>4. LastShownIsStored
  BY DEF DemoInv, LastShownIsStored, Last, At, Holds
<1>. QED BY <1>1, <1>2, <1>3, <1>4

\* A commit replaces one whole call by another.
LEMMA ReadyStays == DemoInv /\ [DemoNext]_demoVars => [FixtureDataReady => FixtureDataReady']_demoVars
<1>. SUFFICES ASSUME DemoInv, DemoNext, stored' /= stored
              PROVE  stored' /= Nobody
  BY DEF FixtureDataReady, demoVars
<1>1. PICK r \in Replays : CommitReplay(r)
  BY DEF DemoNext, EditConfig, ResetAndReplay, Persist, PublishReplay, ReplayFails
<1>2. stored'.parts = 6
  BY <1>1 DEF CommitReplay, DemoInv
<1>. QED BY <1>2 DEF Nobody

\* What the probe and the viewers are shown is one whole call, and stays,
\* whatever requests overlap or fail (replay.py:315-333).
THEOREM ReplayCorrect == DemoSpec => ReplayOK
BY DemoInitInv, DemoStepInv, DemoInvariants, ReadyStays, PTL DEF DemoSpec, ReplayOK, StaysReady

-----------------------------------------------------------------------------
(* The recording. *)

\* The order is given once, a report says what Twilio has, and what Twilio has
\* of a recording does not change after it reported.
RecInv ==
  /\ row \in [exists : BOOLEAN, consent : BOOLEAN, url : Nat]
  /\ order \in {"enabled", "disabled", "scheduled", "started", "failed"}
  /\ remote \in Seq({"runs", "completed", "absent"})
  /\ Len(remote) <= 1
  /\ order \in {"enabled", "disabled", "scheduled"} => Len(remote) = 0
  /\ order = "enabled" <=> ~row.exists /\ order # "disabled"
  /\ \A report \in reports : report.recording \in DOMAIN remote /\ remote[report.recording] = report.status
                             /\ report.status \in {"completed", "absent"}
  /\ row.url /= NoUrl => row.exists /\ row.consent /\ row.url \in DOMAIN remote
                          /\ remote[row.url] = "completed"

LEMMA RecInitInv == RecInit => RecInv
<1>. SUFFICES ASSUME RecInit PROVE RecInv
  OBVIOUS
<1>1. remote \in Seq({"runs", "completed", "absent"}) /\ Len(remote) = 0
  BY DEF RecInit
<1>. QED BY <1>1 DEF RecInit, RecInv, NoUrl

\* Every step keeps the invariant.
LEMMA RecStepInv == RecInv /\ [RecNext]_recVars => RecInv'
<1>. SUFFICES ASSUME RecInv, [RecNext]_recVars PROVE RecInv'
  OBVIOUS
<1>. USE DEF RecInv, NoUrl
<1>1. CASE InboundVoice
  BY <1>1 DEF InboundVoice
<1>2. CASE StartCallRecording
  <2>1. CASE remote' = Append(remote, "runs") /\ order' \in {"started", "failed"}
    <3>1. Len(remote) = 0 /\ UNCHANGED <<row, reports>> /\ row.exists
      BY <1>2 DEF StartCallRecording
    <3>2. remote' \in Seq({"runs", "completed", "absent"}) /\ Len(remote') = 1 /\ DOMAIN remote = {}
      BY <2>1, <3>1
    <3>. QED BY <2>1, <3>1, <3>2
  <2>2. CASE remote' = remote /\ order' = "failed"
    BY <1>2, <2>2 DEF StartCallRecording
  <2>. QED BY <1>2, <2>1, <2>2 DEF StartCallRecording
<1>3. CASE TwilioReports
  <2>1. PICK i \in DOMAIN remote, s \in {"completed", "absent"} :
          /\ remote[i] = "runs" /\ remote' = [remote EXCEPT ![i] = s]
          /\ reports' = reports \union {[recording |-> i, status |-> s]}
    BY <1>3 DEF TwilioReports
  <2>2. remote' \in Seq({"runs", "completed", "absent"}) /\ Len(remote') = Len(remote)
        /\ DOMAIN remote' = DOMAIN remote
    BY <2>1
  <2>3. UNCHANGED <<row, order>>
    BY <1>3 DEF TwilioReports
  <2>. QED BY <2>1, <2>2, <2>3
<1>4. CASE RecordingStatus
  <2>1. PICK report \in reports :
          /\ reports' = reports \ {report}
          /\ row' = IF Stores(report) THEN [row EXCEPT !.url = report.recording] ELSE row
    BY <1>4 DEF RecordingStatus
  <2>2. report.recording \in DOMAIN remote /\ report.recording \in Nat
    BY <2>1
  <2>3. UNCHANGED <<order, remote>>
    BY <1>4 DEF RecordingStatus
  <2>. QED BY <2>1, <2>2, <2>3 DEF Stores
<1>5. CASE CallOver \/ UNCHANGED recVars
  BY <1>5 DEF CallOver, recVars
<1>. QED BY <1>1, <1>2, <1>3, <1>4, <1>5 DEF RecNext

\* A call is recorded at most once, and what its row offers for playback is
\* completed media Twilio has (recording.py:13-55, status_webhook.py:75-100).
THEOREM RecordingCorrect == RecSpec => [](OneRecordingPerCall /\ StoredIsPlayable)
<1>1. RecInv => OneRecordingPerCall /\ StoredIsPlayable
  BY DEF RecInv, OneRecordingPerCall, StoredIsPlayable, PlaybackAnswers
<1>. QED BY <1>1, RecInitInv, RecStepInv, PTL DEF RecSpec

-----------------------------------------------------------------------------
(* The registry of client configurations *)

\* A path whose content, as it is, some cache holds.
Held(p, byId) ==
  /\ file[p].content = "ok"
  /\ file[p].cfg.client_id \in DOMAIN byId
  /\ byId[file[p].cfg.client_id] = file[p].cfg

\* The two indexes hold the same configurations, each under its own keys.
Paired(byId, byNumber) ==
  /\ \A c \in DOMAIN byId :
       /\ byId[c].client_id = c
       /\ byId[c].phone_number \in DOMAIN byNumber
       /\ byNumber[byId[c].phone_number] = byId[c]
  /\ \A n \in DOMAIN byNumber :
       /\ byNumber[n].phone_number = n
       /\ byNumber[n].client_id \in DOMAIN byId
       /\ byId[byNumber[n].client_id] = byNumber[n]

\* A cache, installed or being built: paired, with times that have been, and true
\* to every file that its time and the races do not give away.
CacheOK(byId, byNumber, mtimes) ==
  /\ Paired(byId, byNumber)
  /\ DOMAIN byId \subseteq Clients
  /\ IsFiniteSet(DOMAIN byId) /\ IsFiniteSet(DOMAIN mtimes)
  /\ \A p \in DOMAIN mtimes : mtimes[p] \in Nat /\ mtimes[p] <= clock
  /\ \A p \in DOMAIN file \ raced :
       p \in DOMAIN mtimes /\ file[p].mtime = mtimes[p] => Held(p, byId)

\* A reload holds one configuration more than times between a read and its stat,
\* and what it has read is what the file still holds.
LoadInv ==
  /\ CacheOK(load.byId, load.byNumber, load.mtimes)
  /\ Cardinality(DOMAIN load.byId) =
       Cardinality(DOMAIN load.mtimes) + (IF load.state = "stat" THEN 1 ELSE 0)
  /\ \A p \in DOMAIN file \ raced : InWindow(p) => Held(p, load.byId)

InstalledInv ==
  /\ CacheOK(reg.byId, reg.byNumber, reg.mtimes)
  /\ Cardinality(DOMAIN reg.byId) = Cardinality(DOMAIN reg.mtimes)

\* An override has the number of its client unless the file moved under it.
OverrideInv ==
  \A c \in DOMAIN override \intersect DOMAIN reg.byId :
    override[c].phone_number = reg.byId[c].phone_number \/ c \in moved

RegInv ==
  /\ RegTypeOK /\ clock \in Nat /\ edits \in 0..MaxEdits
  /\ LoadInv /\ InstalledInv /\ OverrideInv

\* The empty cache of a new reload, or of a new process, is a good one.
LEMMA EmptyCache ==
  /\ CacheOK(Empty, Empty, Empty)
  /\ Cardinality(DOMAIN Empty) = 0 /\ DOMAIN Empty = {}
<1>1. DOMAIN Empty = {}
  BY DEF Empty
<1>2. IsFiniteSet({}) /\ Cardinality({}) = 0
  BY FS_EmptySet
<1>. HIDE DEF Empty
<1>. QED BY <1>1, <1>2 DEF CacheOK, Paired

\* While no time runs backward and every file that changed without a race has a
\* newer time than any cache knows, a cache that was good is good.
LEMMA CacheStays ==
  ASSUME NEW byId, NEW byNumber, NEW mtimes, CacheOK(byId, byNumber, mtimes),
         clock \in Nat, clock' \in Nat, clock <= clock',
         \A p \in DOMAIN file' \ raced' :
           \/ p \in DOMAIN file \ raced /\ file'[p] = file[p]
           \/ file'[p].mtime \in Nat /\ file'[p].mtime > clock
  PROVE  CacheOK(byId, byNumber, mtimes)'
<1>1. \A p \in DOMAIN mtimes : mtimes[p] \in Nat /\ mtimes[p] <= clock /\ mtimes[p] <= clock'
  BY DEF CacheOK
<1>2. ASSUME NEW p \in DOMAIN file' \ raced', p \in DOMAIN mtimes, file'[p].mtime = mtimes[p]
      PROVE  Held(p, byId)'
  <2>1. p \in DOMAIN file \ raced /\ file'[p] = file[p]
    BY <1>1, <1>2
  <2>. QED BY <2>1, <1>2 DEF CacheOK, Held
<1>. QED BY <1>1, <1>2 DEF CacheOK, Paired

\* What an edit does to the files, and what it does not hide.
LEMMA EditSees ==
  ASSUME RegInv, EditFile
  PROVE  /\ clock' \in Nat /\ clock <= clock' /\ edits' \in 0..MaxEdits
         /\ DOMAIN file' \subseteq Paths /\ raced' \subseteq Paths
         /\ \A p \in DOMAIN file' :
              /\ file'[p].content \in {"ok", "bad"} /\ file'[p].mtime \in 0..clock'
              /\ file'[p].content = "ok" => file'[p].cfg \in Configs
         /\ \A p \in DOMAIN file' \ raced' :
              \/ p \in DOMAIN file \ raced /\ file'[p] = file[p]
              \/ file'[p].mtime \in Nat /\ file'[p].mtime > clock /\ ~InWindow(p)
<1>1. /\ clock \in Nat /\ edits' = edits + 1 /\ edits' \in 0..MaxEdits
      /\ DOMAIN file \subseteq Paths /\ raced \subseteq Paths
      /\ \A p \in DOMAIN file :
           /\ file[p].content \in {"ok", "bad"} /\ file[p].mtime \in 0..clock
           /\ file[p].content = "ok" => file[p].cfg \in Configs
  BY RegistryAssumption DEF RegInv, RegTypeOK, EditFile
<1>2. PICK p \in Paths : Write(p) \/ (p \in DOMAIN file /\ file' = Without(file, p)
                                      /\ UNCHANGED <<clock, raced>>)
  BY DEF EditFile
<1>3. CASE Write(p)
  <2>1. /\ clock' \in Nat /\ clock <= clock'
        /\ (p \in raced' /\ raced' = raced \union {p}) \/ (clock' > clock /\ ~InWindow(p)
                                                          /\ raced' = raced \ {p})
    BY <1>1, <1>3 DEF Write, Touch
  <2>2. PICK new : /\ file' = With(file, p, new)
                   /\ new.content \in {"ok", "bad"} /\ new.mtime = clock'
                   /\ new.content = "ok" => new.cfg \in Configs
    <3>1. ASSUME NEW c \in Clients, NEW n \in Numbers, file' = With(file, p, Valid(c, n, edits', clock'))
          PROVE  \E new : /\ file' = With(file, p, new)
                          /\ new.content \in {"ok", "bad"} /\ new.mtime = clock'
                          /\ new.content = "ok" => new.cfg \in Configs
      <4>1. /\ Valid(c, n, edits', clock').content = "ok"
            /\ Valid(c, n, edits', clock').mtime = clock'
            /\ Valid(c, n, edits', clock').cfg \in Configs
        BY <1>1 DEF Valid, Configs
      <4>. QED BY <3>1, <4>1
    <3>2. ASSUME file' = With(file, p, Malformed(clock'))
          PROVE  \E new : /\ file' = With(file, p, new)
                          /\ new.content \in {"ok", "bad"} /\ new.mtime = clock'
                          /\ new.content = "ok" => new.cfg \in Configs
      <4>1. Malformed(clock').content = "bad" /\ Malformed(clock').mtime = clock'
        BY DEF Malformed
      <4>. QED BY <3>2, <4>1
    <3>. QED BY <1>3, <3>1, <3>2 DEF Write
  <2>3. /\ DOMAIN file' = DOMAIN file \union {p} /\ file'[p] = new
        /\ \A q \in DOMAIN file : q # p => file'[q] = file[q]
    BY <2>2 DEF With
  <2>4. ASSUME NEW q \in DOMAIN file'
        PROVE  /\ file'[q].content \in {"ok", "bad"} /\ file'[q].mtime \in 0..clock'
               /\ file'[q].content = "ok" => file'[q].cfg \in Configs
    <3>1. CASE q = p
      BY <3>1, <2>1, <2>2, <2>3
    <3>2. CASE q # p
      BY <3>2, <2>1, <2>3, <1>1
    <3>. QED BY <3>1, <3>2
  <2>5. ASSUME NEW q \in DOMAIN file' \ raced'
        PROVE  \/ q \in DOMAIN file \ raced /\ file'[q] = file[q]
               \/ file'[q].mtime \in Nat /\ file'[q].mtime > clock /\ ~InWindow(q)
    <3>1. CASE q = p
      BY <3>1, <2>1, <2>2, <2>3
    <3>2. CASE q # p
      BY <3>2, <2>1, <2>3
    <3>. QED BY <3>1, <3>2
  <2>. QED BY <1>1, <2>1, <2>3, <2>4, <2>5
<1>4. CASE p \in DOMAIN file /\ file' = Without(file, p) /\ UNCHANGED <<clock, raced>>
  <2>1. /\ DOMAIN file' = DOMAIN file \ {p}
        /\ \A q \in DOMAIN file' : file'[q] = file[q]
    BY <1>4 DEF Without
  <2>. QED BY <1>1, <1>4, <2>1
<1>. QED BY <1>2, <1>3, <1>4

\* An edit keeps the invariant: what it changes shows in a time, or raced.
LEMMA EditFileInv == ASSUME RegInv, EditFile PROVE RegInv'
<1>1. UNCHANGED <<reg, load, override, up, moved>>
  BY DEF EditFile
<1>2. RegTypeOK' /\ clock' \in Nat /\ edits' \in 0..MaxEdits
  BY <1>1, EditSees DEF RegInv, RegTypeOK
<1>3. /\ clock \in Nat /\ clock' \in Nat /\ clock <= clock'
      /\ \A p \in DOMAIN file' \ raced' :
           \/ p \in DOMAIN file \ raced /\ file'[p] = file[p]
           \/ file'[p].mtime \in Nat /\ file'[p].mtime > clock
  BY EditSees DEF RegInv
<1>4. ASSUME NEW byId, NEW byNumber, NEW mtimes, CacheOK(byId, byNumber, mtimes)
      PROVE  CacheOK(byId, byNumber, mtimes)'
  BY <1>3, <1>4, CacheStays
<1>5. InstalledInv'
  BY <1>1, <1>4 DEF RegInv, InstalledInv
<1>6. LoadInv'
  <2>1. CacheOK(load.byId, load.byNumber, load.mtimes)'
    BY <1>1, <1>4 DEF RegInv, LoadInv
  <2>2. ASSUME NEW p \in DOMAIN file' \ raced', InWindow(p)' PROVE Held(p, load.byId)'
    <3>1. InWindow(p)
      BY <1>1, <2>2 DEF InWindow, Current
    <3>2. p \in DOMAIN file \ raced /\ file'[p] = file[p]
      BY <3>1, EditSees
    <3>. QED BY <3>1, <3>2, <1>1 DEF RegInv, LoadInv, Held
  <2>. QED BY <1>1, <2>1, <2>2 DEF RegInv, LoadInv
<1>7. OverrideInv'
  BY <1>1 DEF RegInv, OverrideInv
<1>. QED BY <1>2, <1>5, <1>6, <1>7 DEF RegInv

\* Steps that leave the files alone keep what is said of files and caches.
LEMMA FilesStand ==
  ASSUME UNCHANGED <<file, clock, raced>>,
         NEW byId, NEW byNumber, NEW mtimes, CacheOK(byId, byNumber, mtimes)
  PROVE  CacheOK(byId, byNumber, mtimes)'
  BY DEF CacheOK, Paired, Held

\* A lookup that finds the cache stale starts from nothing.
LEMMA EnsureFreshInv == ASSUME RegInv, EnsureFresh PROVE RegInv'
<1>1. /\ UNCHANGED <<file, clock, edits, reg, override, up, raced, moved>>
      /\ load'.state = "read" /\ load'.todo = DOMAIN file
      /\ load'.byId = Empty /\ load'.byNumber = Empty /\ load'.mtimes = Empty
  BY DEF EnsureFresh
<1>2. RegTypeOK'
  BY <1>1, EmptyCache DEF RegInv, RegTypeOK
<1>3. LoadInv'
  <2>1. CacheOK(Empty, Empty, Empty)'
    BY <1>1, EmptyCache, FilesStand
  <2>. QED BY <2>1, <1>1, EmptyCache DEF LoadInv, InWindow
<1>4. InstalledInv' /\ OverrideInv'
  BY <1>1, FilesStand DEF RegInv, InstalledInv, OverrideInv
<1>. QED BY <1>1, <1>2, <1>3, <1>4 DEF RegInv

\* A reload that raises leaves the cache it found.
LEMMA RaiseInv ==
  ASSUME RegInv, Raise, UNCHANGED <<file, clock, edits, override, up, raced, moved>>
  PROVE  RegInv'
<1>1. /\ UNCHANGED <<file, clock, edits, reg, override, up, raced, moved>>
      /\ load' = Idle /\ load'.state = "idle" /\ load'.todo = {}
      /\ load'.byId = Empty /\ load'.byNumber = Empty /\ load'.mtimes = Empty
  BY DEF Raise, Idle
<1>2. RegTypeOK'
  BY <1>1 DEF RegInv, RegTypeOK, Idle
<1>3. LoadInv'
  <2>1. CacheOK(Empty, Empty, Empty)'
    BY <1>1, EmptyCache, FilesStand
  <2>. QED BY <2>1, <1>1, EmptyCache DEF LoadInv, InWindow
<1>4. InstalledInv' /\ OverrideInv'
  BY <1>1, FilesStand DEF RegInv, InstalledInv, OverrideInv
<1>. QED BY <1>1, <1>2, <1>3, <1>4 DEF RegInv

\* A new configuration under two new keys keeps the indexes paired.
LEMMA PairedGrows ==
  ASSUME NEW byId, NEW byNumber, Paired(byId, byNumber), NEW cfg,
         cfg.client_id \notin DOMAIN byId, cfg.phone_number \notin DOMAIN byNumber
  PROVE  Paired(With(byId, cfg.client_id, cfg), With(byNumber, cfg.phone_number, cfg))
<1>. DEFINE c == cfg.client_id
            n == cfg.phone_number
            I == With(byId, c, cfg)
            N == With(byNumber, n, cfg)
<1>1. /\ DOMAIN I = DOMAIN byId \union {c} /\ I[c] = cfg
      /\ \A x \in DOMAIN byId : x # c => I[x] = byId[x]
  BY DEF With
<1>2. /\ DOMAIN N = DOMAIN byNumber \union {n} /\ N[n] = cfg
      /\ \A x \in DOMAIN byNumber : x # n => N[x] = byNumber[x]
  BY DEF With
<1>. HIDE DEF I, N
<1>3. ASSUME NEW x \in DOMAIN I
      PROVE  I[x].client_id = x /\ I[x].phone_number \in DOMAIN N /\ N[I[x].phone_number] = I[x]
  <2>1. CASE x = c
    BY <2>1, <1>1, <1>2
  <2>2. CASE x # c
    <3>1. x \in DOMAIN byId /\ I[x] = byId[x]
      BY <2>2, <1>1
    <3>2. /\ byId[x].client_id = x /\ byId[x].phone_number \in DOMAIN byNumber
          /\ byNumber[byId[x].phone_number] = byId[x]
      BY <3>1 DEF Paired
    <3>. QED BY <3>1, <3>2, <1>2
  <2>. QED BY <2>1, <2>2
<1>4. ASSUME NEW x \in DOMAIN N
      PROVE  N[x].phone_number = x /\ N[x].client_id \in DOMAIN I /\ I[N[x].client_id] = N[x]
  <2>1. CASE x = n
    BY <2>1, <1>1, <1>2
  <2>2. CASE x # n
    <3>1. x \in DOMAIN byNumber /\ N[x] = byNumber[x]
      BY <2>2, <1>2
    <3>2. /\ byNumber[x].phone_number = x /\ byNumber[x].client_id \in DOMAIN byId
          /\ byId[byNumber[x].client_id] = byNumber[x]
      BY <3>1 DEF Paired
    <3>. QED BY <3>1, <3>2, <1>1
  <2>. QED BY <2>1, <2>2
<1>. QED BY <1>3, <1>4 DEF Paired, I, N

\* A file is read: it is refused, or it is in both indexes.
LEMMA ReadFileInv == ASSUME RegInv, ReadFile PROVE RegInv'
<1>1. /\ UNCHANGED <<file, clock, edits, override, up, raced, moved>> /\ load.state = "read"
  BY DEF ReadFile
<1>2. PICK p \in Paths :
        /\ Current(p)
        /\ IF Refused(p) THEN Raise
           ELSE /\ load' = [state |-> "stat", todo |-> load.todo,
                            byId |-> With(load.byId, file[p].cfg.client_id, file[p].cfg),
                            byNumber |-> With(load.byNumber, file[p].cfg.phone_number, file[p].cfg),
                            mtimes |-> load.mtimes]
                /\ UNCHANGED reg
  BY DEF ReadFile
<1>3. CASE Refused(p)
  BY <1>1, <1>2, <1>3, RaiseInv
<1>4. CASE ~Refused(p)
  <2>. DEFINE cfg == file[p].cfg
              I == With(load.byId, cfg.client_id, cfg)
              N == With(load.byNumber, cfg.phone_number, cfg)
  <2>1. /\ p \in DOMAIN file /\ file[p].content = "ok" /\ cfg \in Configs
        /\ cfg.client_id \notin DOMAIN load.byId /\ cfg.phone_number \notin DOMAIN load.byNumber
    BY <1>4 DEF Refused, RegInv, RegTypeOK
  <2>2. /\ load'.state = "stat" /\ load'.todo = load.todo /\ load'.mtimes = load.mtimes
        /\ load'.byId = I /\ load'.byNumber = N /\ reg' = reg
    BY <1>2, <1>4
  <2>3. CacheOK(load.byId, load.byNumber, load.mtimes)
    BY DEF RegInv, LoadInv
  <2>4. cfg.client_id \in Clients
    BY <2>1 DEF Configs
  <2>5. /\ DOMAIN I = DOMAIN load.byId \union {cfg.client_id} /\ I[cfg.client_id] = cfg
        /\ \A c \in DOMAIN load.byId : I[c] = load.byId[c]
    BY <2>1 DEF With
  <2>6. Paired(I, N)
    BY <2>1, <2>3, PairedGrows DEF CacheOK
  <2>. DEFINE ids == DOMAIN load.byId
              who == cfg.client_id
  <2>7. IsFiniteSet(DOMAIN I) /\ Cardinality(DOMAIN I) = Cardinality(DOMAIN load.byId) + 1
    <3>1. IsFiniteSet(ids) /\ who \notin ids /\ DOMAIN I = ids \union {who}
      BY <2>1, <2>3, <2>5 DEF CacheOK
    <3>. HIDE DEF ids, who
    <3>2. IsFiniteSet(ids \union {who}) /\ Cardinality(ids \union {who}) = Cardinality(ids) + 1
      BY <3>1, FS_AddElement
    <3>. QED BY <3>1, <3>2 DEF ids
  <2>. HIDE DEF I, N, cfg
  <2>8. CacheOK(I, N, load.mtimes)
    <3>1. ASSUME NEW q \in DOMAIN file \ raced, Held(q, load.byId) PROVE Held(q, I)
      BY <3>1, <2>5 DEF Held
    <3>. QED BY <3>1, <2>3, <2>4, <2>5, <2>6, <2>7 DEF CacheOK
  <2>9. CacheOK(load.byId, load.byNumber, load.mtimes)'
    BY <2>2, <2>8, <1>1 DEF CacheOK, Paired, Held
  <2>10. ASSUME NEW q \in DOMAIN file' \ raced', InWindow(q)' PROVE Held(q, load.byId)'
    <3>1. q \in load.todo /\ p \in load.todo /\ p <= q /\ q <= p /\ p \in Nat /\ q \in Nat
      BY <1>2, <2>2, <2>10, RegistryAssumption DEF InWindow, Current, RegInv, RegTypeOK
    <3>2. q = p
      BY <3>1
    <3>. QED BY <3>2, <2>1, <2>2, <2>5, <1>1 DEF Held, cfg
  <2>11. Cardinality(DOMAIN load'.byId) = Cardinality(DOMAIN load'.mtimes) + 1
    <3>1. Cardinality(DOMAIN load.mtimes) \in Nat
      BY <2>3, FS_CardinalityType DEF CacheOK
    <3>2. Cardinality(DOMAIN load.byId) = Cardinality(DOMAIN load.mtimes) + 0
      BY <1>1 DEF RegInv, LoadInv
    <3>. QED BY <3>1, <3>2, <2>2, <2>7
  <2>12. LoadInv'
    BY <2>2, <2>9, <2>10, <2>11 DEF LoadInv
  <2>13. RegTypeOK'
    BY <2>2, <1>1, <1>2 DEF RegInv, RegTypeOK, Current
  <2>14. InstalledInv' /\ OverrideInv'
    BY <1>1, <2>2, FilesStand DEF RegInv, InstalledInv, OverrideInv
  <2>. QED BY <1>1, <2>12, <2>13, <2>14 DEF RegInv
<1>. QED BY <1>3, <1>4

\* The time of the file that was read is taken, unless the file is gone.
LEMMA StatFileInv == ASSUME RegInv, StatFile PROVE RegInv'
<1>1. /\ UNCHANGED <<file, clock, edits, override, up, raced, moved>> /\ load.state = "stat"
  BY DEF StatFile
<1>2. PICK p \in Paths : /\ Current(p)
                         /\ IF p \notin DOMAIN file THEN Raise ELSE Takes(p) /\ UNCHANGED reg
  BY DEF StatFile
<1>3. CASE p \notin DOMAIN file
  BY <1>1, <1>2, <1>3, RaiseInv
<1>4. CASE p \in DOMAIN file
  <2>. DEFINE M == With(load.mtimes, p, file[p].mtime)
              timed == DOMAIN load.mtimes
  <2>1. /\ load'.state = "read" /\ load'.todo = load.todo \ {p} /\ load'.mtimes = M
        /\ load'.byId = load.byId /\ load'.byNumber = load.byNumber /\ reg' = reg
    BY <1>2, <1>4 DEF Takes
  <2>2. CacheOK(load.byId, load.byNumber, load.mtimes)
    BY DEF RegInv, LoadInv
  <2>3. p \in load.todo /\ p \notin timed /\ file[p].mtime \in Nat /\ file[p].mtime <= clock
        /\ clock \in Nat
    BY <1>2, <1>4 DEF Current, RegInv, RegTypeOK
  <2>4. /\ DOMAIN M = timed \union {p} /\ M[p] = file[p].mtime
        /\ \A q \in timed : M[q] = load.mtimes[q]
    BY <2>3 DEF With
  <2>5. IsFiniteSet(DOMAIN M) /\ Cardinality(DOMAIN M) = Cardinality(timed) + 1
    <3>1. IsFiniteSet(timed) /\ p \notin timed
      BY <2>2, <2>3 DEF CacheOK
    <3>. HIDE DEF timed
    <3>2. IsFiniteSet(timed \union {p}) /\ Cardinality(timed \union {p}) = Cardinality(timed) + 1
      BY <3>1, FS_AddElement
    <3>. QED BY <3>2, <2>4
  <2>. HIDE DEF M
  <2>6. p \notin raced => Held(p, load.byId)
    BY <1>1, <1>2, <1>4 DEF RegInv, LoadInv, InWindow
  <2>7. CacheOK(load.byId, load.byNumber, M)
    <3>1. \A q \in DOMAIN M : M[q] \in Nat /\ M[q] <= clock
      BY <2>2, <2>3, <2>4 DEF CacheOK
    <3>2. ASSUME NEW q \in DOMAIN file \ raced, q \in DOMAIN M, file[q].mtime = M[q]
          PROVE  Held(q, load.byId)
      BY <3>2, <2>2, <2>4, <2>6 DEF CacheOK
    <3>. QED BY <3>1, <3>2, <2>2, <2>5 DEF CacheOK
  <2>8. CacheOK(load.byId, load.byNumber, load.mtimes)'
    BY <2>1, <2>7, <1>1 DEF CacheOK, Paired, Held
  <2>9. Cardinality(DOMAIN load.byId) = Cardinality(timed) + 1
    BY <1>1 DEF RegInv, LoadInv
  <2>10. LoadInv'
    <3>1. Cardinality(DOMAIN load'.byId) = Cardinality(DOMAIN load'.mtimes) + 0
      <4>1. Cardinality(DOMAIN M) \in Nat
        BY <2>5, FS_CardinalityType
      <4>. QED BY <4>1, <2>1, <2>5, <2>9
    <3>. QED BY <3>1, <2>1, <2>8 DEF LoadInv, InWindow
  <2>11. RegTypeOK'
    BY <2>1, <2>4, <1>1 DEF RegInv, RegTypeOK
  <2>12. InstalledInv' /\ OverrideInv'
    BY <1>1, <2>1, FilesStand DEF RegInv, InstalledInv, OverrideInv
  <2>. QED BY <1>1, <2>10, <2>11, <2>12 DEF RegInv
<1>. QED BY <1>3, <1>4

\* The three indexes are swapped together.
LEMMA InstallInv == ASSUME RegInv, Install PROVE RegInv'
<1>1. /\ UNCHANGED <<file, clock, edits, override, up, raced>> /\ load.state = "read"
      /\ reg'.byId = load.byId /\ reg'.byNumber = load.byNumber /\ reg'.mtimes = load.mtimes
      /\ load' = Idle /\ load'.state = "idle" /\ load'.todo = {}
      /\ load'.byId = Empty /\ load'.byNumber = Empty /\ load'.mtimes = Empty
      /\ moved' = moved \union
           {c \in DOMAIN override \intersect DOMAIN load.byId :
              load.byId[c].phone_number /= override[c].phone_number}
  BY DEF Install, Idle
<1>2. RegTypeOK'
  BY <1>1 DEF RegInv, RegTypeOK, Idle
<1>3. LoadInv'
  <2>1. CacheOK(Empty, Empty, Empty)'
    BY <1>1, EmptyCache, FilesStand
  <2>. QED BY <2>1, <1>1, EmptyCache DEF LoadInv, InWindow
<1>4. InstalledInv'
  <2>1. CacheOK(load.byId, load.byNumber, load.mtimes)
    BY DEF RegInv, LoadInv
  <2>2. CacheOK(reg.byId, reg.byNumber, reg.mtimes)'
    BY <2>1, <1>1 DEF CacheOK, Paired, Held
  <2>3. Cardinality(DOMAIN load.byId) = Cardinality(DOMAIN load.mtimes)
    <3>1. Cardinality(DOMAIN load.mtimes) \in Nat
      BY <2>1, FS_CardinalityType DEF CacheOK
    <3>. QED BY <3>1, <1>1 DEF RegInv, LoadInv
  <2>. QED BY <2>2, <2>3, <1>1 DEF InstalledInv
<1>5. OverrideInv'
  BY <1>1 DEF OverrideInv
<1>. QED BY <1>1, <1>2, <1>3, <1>4, <1>5 DEF RegInv

\* Starting up and editing overrides keep the invariant: an override takes the
\* number of the file as it is cached.
LEMMA OverridesInv ==
  ASSUME RegInv, Boot \/ ReplaceFixtureConfig \/ ResetFixtureConfig
  PROVE  RegInv'
<1>1. UNCHANGED <<file, clock, edits, reg, load, raced>> /\ up' \in BOOLEAN
  BY DEF Boot, ReplaceFixtureConfig, ResetFixtureConfig, RegInv, RegTypeOK
<1>2. LoadInv' /\ InstalledInv'
  BY <1>1 DEF RegInv, LoadInv, InstalledInv, CacheOK, Paired, Held, InWindow, Current
<1>3. /\ DOMAIN override' \subseteq Clients /\ moved' \subseteq DOMAIN override'
      /\ \A c \in DOMAIN override' : override'[c].client_id = c
      /\ OverrideInv'
  <2>1. CASE Boot
    BY <2>1, <1>1 DEF Boot, RegInv, RegTypeOK, OverrideInv
  <2>2. CASE ReplaceFixtureConfig
    <3>1. PICK c \in DOMAIN reg.byId :
            /\ override' = With(override, c, [client_id |-> c,
                                  phone_number |-> reg.byId[c].phone_number, edit |-> 0])
            /\ moved' = moved \ {c}
      BY <2>2 DEF ReplaceFixtureConfig
    <3>2. /\ DOMAIN override' = DOMAIN override \union {c}
          /\ override'[c].client_id = c /\ override'[c].phone_number = reg.byId[c].phone_number
          /\ \A x \in DOMAIN override : x # c => override'[x] = override[x]
      BY <3>1 DEF With, Without
    <3>3. c \in Clients
      BY DEF RegInv, InstalledInv, CacheOK
    <3>. QED BY <3>1, <3>2, <3>3, <1>1 DEF RegInv, RegTypeOK, OverrideInv
  <2>3. CASE ResetFixtureConfig
    <3>1. PICK c \in DOMAIN override : override' = Without(override, c) /\ moved' = moved \ {c}
      BY <2>3 DEF ResetFixtureConfig
    <3>2. /\ DOMAIN override' = DOMAIN override \ {c}
          /\ \A x \in DOMAIN override' : override'[x] = override[x]
      BY <3>1 DEF With, Without
    <3>. QED BY <3>1, <3>2, <1>1 DEF RegInv, RegTypeOK, OverrideInv
  <2>. QED BY <2>1, <2>2, <2>3
<1>4. RegTypeOK'
  BY <1>1, <1>3 DEF RegInv, RegTypeOK
<1>. QED BY <1>1, <1>2, <1>3, <1>4 DEF RegInv

\* A registry that has loaded nothing yet.
LEMMA RegInitInv == RegInit => RegInv
<1>. SUFFICES ASSUME RegInit PROVE RegInv
  OBVIOUS
<1>1. /\ clock = 0 /\ edits = 0 /\ load = Idle /\ override = Empty /\ up = FALSE
      /\ raced = {} /\ moved = {}
      /\ reg.byId = Empty /\ reg.byNumber = Empty /\ reg.mtimes = Empty
  BY DEF RegInit
<1>2. /\ load.state = "idle" /\ load.todo = {}
      /\ load.byId = Empty /\ load.byNumber = Empty /\ load.mtimes = Empty
  BY <1>1 DEF Idle
<1>3. /\ DOMAIN file \subseteq Paths
      /\ \A p \in DOMAIN file : /\ file[p].content = "ok" /\ file[p].mtime = 0
                                /\ file[p].cfg \in Configs
  <2>1. CASE file = Empty
    BY <2>1, EmptyCache
  <2>2. ASSUME NEW q \in Paths, NEW c \in Clients, NEW n \in Numbers,
               file = [p \in {q} |-> Valid(c, n, 0, 0)]
        PROVE  /\ DOMAIN file \subseteq Paths
               /\ \A p \in DOMAIN file : /\ file[p].content = "ok" /\ file[p].mtime = 0
                                         /\ file[p].cfg \in Configs
    <3>1. /\ Valid(c, n, 0, 0).content = "ok" /\ Valid(c, n, 0, 0).mtime = 0
          /\ Valid(c, n, 0, 0).cfg \in Configs
      BY RegistryAssumption DEF Valid, Configs
    <3>2. DOMAIN file = {q} /\ \A p \in DOMAIN file : file[p] = Valid(c, n, 0, 0)
      BY <2>2
    <3>. QED BY <3>1, <3>2
  <2>3. file = Empty \/ \E q \in Paths, c \in Clients, n \in Numbers :
                           file = [p \in {q} |-> Valid(c, n, 0, 0)]
    BY DEF RegInit
  <2>. QED BY <2>1, <2>2, <2>3
<1>4. RegTypeOK
  <2>1. /\ DOMAIN override = {} /\ DOMAIN load.mtimes = {}
        /\ \A p \in DOMAIN file : file[p].mtime \in 0..clock
    BY <1>1, <1>2, <1>3, EmptyCache
  <2>. QED BY <2>1, <1>1, <1>2, <1>3 DEF RegTypeOK
<1>5. LoadInv /\ InstalledInv
  BY <1>1, <1>2, EmptyCache DEF LoadInv, InstalledInv, InWindow
<1>6. OverrideInv
  BY <1>1, EmptyCache DEF OverrideInv
<1>. QED BY <1>1, <1>4, <1>5, <1>6, RegistryAssumption DEF RegInv

\* The invariant gives what lookups rely on.
LEMMA RegInvSound == RegInv => RegistryOK
<1>. SUFFICES ASSUME RegInv PROVE RegistryOK
  OBVIOUS
<1>1. Paired(reg.byId, reg.byNumber)
  BY DEF RegInv, InstalledInv, CacheOK
<1>2. CacheIsWhole
  <2>1. ASSUME NEW x PROVE x \in Range(reg.byId) <=> x \in Range(reg.byNumber)
    BY <1>1 DEF Paired, Range
  <2>2. Range(reg.byId) = Range(reg.byNumber)
    BY <2>1
  <2>. QED BY <2>2, <1>1 DEF CacheIsWhole, RegInv, InstalledInv, Paired
<1>3. FreshUnlessRaced
  <2>. SUFFICES ASSUME ~Stale, NEW p \in DOMAIN file \ raced
                PROVE  file[p].content = "ok" /\ file[p].cfg \in Range(reg.byId)
    BY DEF FreshUnlessRaced
  <2>1. [q \in DOMAIN file |-> file[q].mtime] = reg.mtimes
    BY DEF Stale
  <2>2. p \in DOMAIN reg.mtimes /\ file[p].mtime = reg.mtimes[p]
    BY <2>1
  <2>3. Held(p, reg.byId)
    BY <2>2 DEF RegInv, InstalledInv, CacheOK
  <2>. QED BY <2>3 DEF Held, Range
<1>4. RoutedByNumber
  <2>. SUFFICES ASSUME NEW n \in DOMAIN reg.byNumber
                PROVE  ResolveByNumber(n).phone_number = n \/ reg.byNumber[n].client_id \in moved
    BY DEF RoutedByNumber
  <2>. DEFINE c == reg.byNumber[n].client_id
  <2>1. reg.byNumber[n].phone_number = n /\ c \in DOMAIN reg.byId /\ reg.byId[c] = reg.byNumber[n]
    BY <1>1 DEF Paired
  <2>2. c \in DOMAIN override => override[c].phone_number = n \/ c \in moved
    BY <2>1 DEF RegInv, OverrideInv
  <2>. QED BY <2>1, <2>2 DEF ResolveByNumber, Overridden
<1>. QED BY <1>2, <1>3, <1>4 DEF RegistryOK, RegInv

\* For any clients, numbers, files and edits at any moment of a reload: lookups
\* see one whole directory, in its latest state unless an edit raced, and a call
\* gets the client of its number (loader.py:38-106).
THEOREM RegistryCorrect == RegSpec => []RegistryOK
<1>1. RegInv /\ [RegNext]_regVars => RegInv'
  <2>. SUFFICES ASSUME RegInv, [RegNext]_regVars PROVE RegInv'
    OBVIOUS
  <2>1. CASE UNCHANGED regVars
    <3>1. /\ file' = file /\ clock' = clock /\ edits' = edits /\ reg' = reg /\ load' = load
          /\ override' = override /\ up' = up /\ raced' = raced /\ moved' = moved
      BY <2>1 DEF regVars
    <3>2. RegTypeOK' /\ OverrideInv'
      BY <3>1 DEF RegInv, RegTypeOK, OverrideInv
    <3>3. LoadInv' /\ InstalledInv'
      BY <3>1 DEF RegInv, LoadInv, InstalledInv, CacheOK, Paired, Held, InWindow, Current
    <3>. QED BY <3>1, <3>2, <3>3 DEF RegInv
  <2>. QED BY <2>1, EditFileInv, EnsureFreshInv, ReadFileInv, StatFileInv, InstallInv,
              OverridesInv DEF RegNext
<1>. QED BY <1>1, RegInitInv, RegInvSound, PTL DEF RegSpec

-----------------------------------------------------------------------------
(* Induction on finite sets: the library's theorem with a set of good sets   *)
(* in the place of its predicate.                                            *)

LEMMA FiniteInduction ==
  ASSUME NEW S, IsFiniteSet(S), NEW Good, {} \in Good,
         \A T \in SUBSET S : \A x \in S \ T : T \in Good => T \cup {x} \in Good
  PROVE  S \in Good
<1>. SUFFICES ASSUME S \notin Good PROVE FALSE
  OBVIOUS
<1>1. IsWellFoundedOn(StrictSubsetOrdering(S), FiniteSubsetsOf(S))
  BY FS_StrictSubsetOrderingWellFounded
<1>. DEFINE Bad == {T \in FiniteSubsetsOf(S) : T \notin Good}
<1>2. S \in Bad
  BY DEF FiniteSubsetsOf
<1>3. PICK U \in Bad : \A V \in Bad : ~ (<<V, U>> \in StrictSubsetOrdering(S))
  BY <1>1, <1>2, WFMin
<1>4. U # {} /\ U \in SUBSET S /\ IsFiniteSet(U)
  BY DEF FiniteSubsetsOf
<1>5. PICK x \in U : TRUE
  BY <1>4
<1>6. U \ {x} \in Good
  <2>1. IsFiniteSet(U \ {x})
    BY <1>4, FS_RemoveElement
  <2>2. <<U \ {x}, U>> \in StrictSubsetOrdering(S)
    BY <1>4, <1>5 DEF StrictSubsetOrdering
  <2>. QED BY <1>3, <1>4, <2>1, <2>2 DEF FiniteSubsetsOf
<1>7. (U \ {x}) \cup {x} \in Good /\ (U \ {x}) \cup {x} = U
  BY <1>4, <1>5, <1>6
<1>. QED BY <1>7

\* A finite set of integers that is not empty has a least element.
LEMMA LeastExists ==
  ASSUME NEW S \in SUBSET Int, IsFiniteSet(S), S # {}
  PROVE  \E m \in S : \A k \in S : m <= k
<1>. DEFINE Good == {T \in SUBSET S : T = {} \/ \E m \in T : \A k \in T : m <= k}
<1>1. {} \in Good
  OBVIOUS
<1>2. ASSUME NEW T \in SUBSET S, NEW x \in S \ T, T \in Good
      PROVE  T \cup {x} \in Good
  <2>1. CASE T = {}
    BY <2>1
  <2>2. CASE T # {}
    <3>1. PICK m \in T : \A k \in T : m <= k
      BY <1>2, <2>2
    <3>2. CASE m <= x
      BY <3>1, <3>2
    <3>3. CASE ~(m <= x)
      <4>1. \A k \in T \cup {x} : x <= k
        BY <3>1, <3>3
      <4>. QED BY <4>1
    <3>. QED BY <3>2, <3>3
  <2>. QED BY <2>1, <2>2
<1>. HIDE DEF Good
<1>3. S \in Good
  BY <1>1, <1>2, FiniteInduction
<1>. QED BY <1>3 DEF Good

\* Min is what it is called.
LEMMA MinIsLeast ==
  ASSUME NEW S \in SUBSET Int, NEW m \in S, \A k \in S : m <= k
  PROVE  Min(S) = m
<1>1. Min(S) \in S /\ \A k \in S : Min(S) <= k
  BY DEF Min
<1>2. PICK n : n = Min(S)
  OBVIOUS
<1>3. n \in Int /\ m \in Int /\ n <= m /\ m <= n
  BY <1>1, <1>2
<1>. QED BY <1>2, <1>3

\* A finite set of integers that is not empty has a greatest element.
LEMMA GreatestExists ==
  ASSUME NEW S \in SUBSET Int, IsFiniteSet(S), S # {}
  PROVE  \E m \in S : \A k \in S : k <= m
<1>. DEFINE Good == {T \in SUBSET S : T = {} \/ \E m \in T : \A k \in T : k <= m}
<1>1. {} \in Good
  OBVIOUS
<1>2. ASSUME NEW T \in SUBSET S, NEW x \in S \ T, T \in Good
      PROVE  T \cup {x} \in Good
  <2>1. CASE T = {}
    BY <2>1
  <2>2. CASE T # {}
    <3>1. PICK m \in T : \A k \in T : k <= m
      BY <1>2, <2>2
    <3>2. CASE x <= m
      BY <3>1, <3>2
    <3>3. CASE ~(x <= m)
      <4>1. \A k \in T \cup {x} : k <= x
        BY <3>1, <3>3
      <4>. QED BY <4>1
    <3>. QED BY <3>2, <3>3
  <2>. QED BY <2>1, <2>2
<1>. HIDE DEF Good
<1>3. S \in Good
  BY <1>1, <1>2, FiniteInduction
<1>. QED BY <1>3 DEF Good

-----------------------------------------------------------------------------
(* The rules of the configuration. A time is a day and a slot of it. *)

Day == SlotsPerDay
SlotAt(q, r) == q * Day + r
FieldOf(q) ==
  LET weekday == q % 7
  IN IF weekday < 5 THEN "mon_fri" ELSE IF weekday = 5 THEN "sat" ELSE "sun"
HoursOf(q) == hours[FieldOf(q)]
Opening(q) == SlotAt(q, HoursOf(q).start)

\* Every time is a slot of a day, with the day and the slot of it that the code takes.
LEMMA SplitTime ==
  ASSUME NEW t \in Nat
  PROVE  t = SlotAt(t \div Day, t % Day) /\ t \div Day \in Nat /\ t % Day \in 0..Day - 1
BY RuleAssumption DEF Day, SlotAt

\* The day and the slot of a time are those it was made of.
LEMMA JoinTime ==
  ASSUME NEW q \in Nat, NEW r \in 0..Day - 1
  PROVE  SlotAt(q, r) \div Day = q /\ SlotAt(q, r) % Day = r /\ SlotAt(q, r) \in Nat
BY RuleAssumption DEF Day, SlotAt

\* A week later is the same slot seven days later, and p days later, p days.
LEMMA DaysLater ==
  ASSUME NEW q \in Nat, NEW r \in 0..Day - 1, NEW p \in Nat
  PROVE  SlotAt(q, r) + p * SlotsPerDay = SlotAt(q + p, r)
BY RuleAssumption DEF Day, SlotAt

\* A slot of an earlier day is an earlier slot.
LEMMA EarlierDay ==
  ASSUME NEW p \in Nat, NEW q \in Nat, p < q, NEW x \in 0..Day - 1, NEW y \in 0..Day - 1
  PROVE  SlotAt(p, x) < SlotAt(q, y)
<1>1. Day \in Nat /\ Day > 0
  BY RuleAssumption DEF Day
<1>2. (p + 1) * Day <= q * Day
  BY <1>1
<1>. QED BY <1>1, <1>2 DEF SlotAt

\* On one day, times are ordered as their slots are.
LEMMA SameDay ==
  ASSUME NEW q \in Nat, NEW x \in 0..Day - 1, NEW y \in 0..Day - 1
  PROVE  SlotAt(q, x) <= SlotAt(q, y) <=> x <= y
BY RuleAssumption DEF Day, SlotAt

\* The hours of a day are a window, and repeat every week.
LEMMA HoursWeekly ==
  ASSUME RuleTypeOK, NEW q \in Nat
  PROVE  /\ HoursOf(q) \in Windows /\ HoursOf(q).closed \in BOOLEAN
         /\ HoursOf(q).start \in 0..Day - 1 /\ HoursOf(q).end \in 0..Day - 1
         /\ HoursOf(q + 7) = HoursOf(q)
         /\ Proper => HoursOf(q).closed \/ HoursOf(q).start < HoursOf(q).end
<1>1. FieldOf(q) \in Fields /\ FieldOf(q + 7) = FieldOf(q)
  BY DEF FieldOf, Fields
<1>. QED BY <1>1, RuleAssumption DEF RuleTypeOK, HoursOf, Day, Proper

\* is_open compares the slot with the hours of the day.
LEMMA OpenAt ==
  ASSUME NEW q \in Nat, NEW r \in 0..Day - 1
  PROVE  /\ IsOpen(SlotAt(q, r)) <=> ~HoursOf(q).closed /\ HoursOf(q).start <= r /\ r < HoursOf(q).end
         /\ WindowFor(SlotAt(q, r)) = HoursOf(q)
<1>1. SlotAt(q, r) \div Day = q /\ SlotAt(q, r) % Day = r
  BY JoinTime
<1>2. WindowFor(SlotAt(q, r)) = HoursOf(q)
  BY <1>1 DEF WindowFor, HoursOf, DayField, FieldOf, Day
<1>. QED BY <1>1, <1>2 DEF IsOpen, WindowContains, Day

\* next_open looks at the hours of the day so many days ahead, and names its opening.
LEMMA CandidateAt ==
  ASSUME NEW q \in Nat, NEW r \in 0..Day - 1, NEW o \in Nat
  PROVE  /\ WindowFor(SlotAt(q, r) + o * SlotsPerDay) = HoursOf(q + o)
         /\ Candidate(SlotAt(q, r), o) = Opening(q + o)
<1>1. SlotAt(q, r) + o * SlotsPerDay = SlotAt(q + o, r) /\ q + o \in Nat
  BY DaysLater
<1>2. WindowFor(SlotAt(q, r) + o * SlotsPerDay) = HoursOf(q + o)
  BY <1>1, OpenAt
<1>3. SlotAt(q, r) \div Day = q
  BY JoinTime
<1>. QED BY <1>2, <1>3 DEF Candidate, Opening, Day, SlotAt

-----------------------------------------------------------------------------
(* next_open *)

\* The first opening after a closed moment: the least day that settles the search.
FirstDay(t, o) ==
  /\ o \in 0..HorizonDays /\ Yields(t, o)
  /\ \A p \in 0..HorizonDays : Yields(t, p) => o <= p

\* Whenever it is open within a week, a day of that week settles the search, and
\* its opening is not later.
LEMMA OpenIsYielded ==
  ASSUME RuleTypeOK, NEW q \in Nat, NEW r \in 0..Day - 1, NEW t, t = SlotAt(q, r), ~IsOpen(t),
         NEW u \in t..t + 7 * SlotsPerDay, IsOpen(u)
  PROVE  \E p \in 0..7 : Yields(t, p) /\ Opening(q + p) <= u
<1>1. /\ SlotsPerDay \in Nat /\ t \in Nat /\ u \in Nat /\ t <= u
      /\ SlotAt(q + 7, r) \in Nat /\ u <= SlotAt(q + 7, r)
  BY RuleAssumption, JoinTime, DaysLater
<1>2. PICK k \in Nat, s \in 0..Day - 1 : u = SlotAt(k, s)
  BY <1>1, SplitTime
<1>3. q <= k
  <2>. SUFFICES ASSUME k < q PROVE FALSE
    BY <1>2
  <2>1. SlotAt(k, s) < SlotAt(q, r)
    BY <1>2, EarlierDay
  <2>. QED BY <2>1, <1>1, <1>2
<1>4. k <= q + 7
  <2>. SUFFICES ASSUME q + 7 < k PROVE FALSE
    BY <1>2
  <2>1. SlotAt(q + 7, r) < SlotAt(k, s)
    BY <1>2, EarlierDay
  <2>. QED BY <2>1, <1>1, <1>2
<1>5. PICK p \in 0..7 : k = q + p
  BY <1>2, <1>3, <1>4
<1>6. ~HoursOf(k).closed /\ HoursOf(k).start <= s /\ s < HoursOf(k).end
  BY <1>2, OpenAt
<1>7. HoursOf(k).start \in 0..Day - 1 /\ HoursOf(k).end \in 0..Day - 1 /\ Opening(k) \in Nat
  BY <1>2, HoursWeekly, JoinTime DEF Opening
<1>8. Opening(k) <= u
  BY <1>2, <1>6, <1>7, SameDay DEF Opening
<1>9. WindowFor(t + p * SlotsPerDay) = HoursOf(k) /\ Candidate(t, p) = Opening(k)
  <2>1. p \in Nat
    OBVIOUS
  <2>. QED BY <2>1, <1>5, CandidateAt
<1>10. t <= Opening(k)
  <2>1. CASE p = 0
    <3>1. k = q /\ r <= s
      BY <2>1, <1>1, <1>2, <1>5, SameDay
    <3>2. r <= HoursOf(k).start
      BY <3>1, <1>6, <1>7, OpenAt
    <3>. QED BY <3>1, <3>2, <1>7, SameDay DEF Opening
  <2>2. CASE p # 0
    <3>1. q < k
      BY <2>2, <1>5
    <3>2. SlotAt(q, r) < SlotAt(k, HoursOf(k).start)
      BY <3>1, <1>2, <1>7, EarlierDay
    <3>. QED BY <3>2, <1>1, <1>7 DEF Opening
  <2>. QED BY <2>1, <2>2
<1>11. Yields(t, p)
  BY <1>1, <1>6, <1>7, <1>9, <1>10 DEF Yields
<1>. QED BY <1>5, <1>8, <1>11

\* The day that settles the search opens at or after t, within a week of it, and
\* before any other opening of that week.
LEMMA FirstDayOpens ==
  ASSUME RuleTypeOK, Proper, NEW q \in Nat, NEW r \in 0..Day - 1, NEW t, t = SlotAt(q, r), ~IsOpen(t),
         NEW o, FirstDay(t, o)
  PROVE  /\ Candidate(t, o) \in t..t + 7 * SlotsPerDay /\ IsOpen(Candidate(t, o))
         /\ \A u \in t..t + 7 * SlotsPerDay : IsOpen(u) => Candidate(t, o) <= u
<1>1. /\ HorizonDays \in Nat /\ HorizonDays >= 7 /\ o \in Nat /\ o <= HorizonDays
      /\ t \in Nat /\ SlotsPerDay \in Nat
      /\ t + 7 * SlotsPerDay = SlotAt(q + 7, r) /\ SlotAt(q + 7, r) \in Nat
  BY RuleAssumption, JoinTime, DaysLater DEF FirstDay
<1>2. \A p \in Nat : WindowFor(t + p * SlotsPerDay) = HoursOf(q + p) /\ Candidate(t, p) = Opening(q + p)
  BY CandidateAt
<1>3. \A k \in Nat : HoursOf(k).start \in 0..Day - 1 /\ HoursOf(k).end \in 0..Day - 1 /\ Opening(k) \in Nat
  BY HoursWeekly, JoinTime DEF Opening
<1>4. PICK k \in Nat : k = q + o
  BY <1>1
<1>5. ~HoursOf(k).closed /\ t <= Opening(k)
  BY <1>1, <1>2, <1>3, <1>4 DEF FirstDay, Yields
<1>6. \A p \in Nat : p < o => ~Yields(t, p)
  BY <1>1 DEF FirstDay
<1>7. o <= 7
  <2>. SUFFICES ASSUME o > 7 PROVE FALSE
    BY <1>1
  <2>1. PICK p \in Nat : o = p + 7 /\ p >= 1
    BY <1>1
  <2>2. PICK j \in Nat : j = q + p
    OBVIOUS
  <2>3. HoursOf(k) = HoursOf(j)
    <3>1. k = j + 7
      BY <2>1, <2>2, <1>4
    <3>. QED BY <3>1, HoursWeekly
  <2>4. t < Opening(j)
    <3>1. q < j
      BY <2>1, <2>2
    <3>. QED BY <3>1, <1>3, EarlierDay DEF Opening
  <2>5. t <= Opening(j)
    BY <2>4, <1>1, <1>3
  <2>6. Yields(t, p)
    BY <2>2, <2>3, <2>5, <1>1, <1>2, <1>3, <1>5 DEF Yields
  <2>. QED BY <2>1, <2>6, <1>1, <1>6
<1>8. Opening(k) <= SlotAt(q + 7, r)
  <2>1. CASE o < 7
    <3>1. k < q + 7 /\ q + 7 \in Nat
      BY <2>1, <1>1, <1>4
    <3>2. Opening(k) < SlotAt(q + 7, r)
      BY <3>1, <1>3, EarlierDay DEF Opening
    <3>. QED BY <3>2, <1>1, <1>3
  <2>2. CASE o = 7
    <3>1. HoursOf(k) = HoursOf(q) /\ q + 0 = q /\ k = q + 7
      BY <2>2, <1>4, HoursWeekly
    <3>2. ~Yields(t, 0) /\ ~HoursOf(q + 0).closed
      BY <3>1, <2>2, <1>5, <1>6
    <3>3. ~(t <= Opening(q))
      BY <3>1, <3>2, <1>1, <1>2, <1>3, ZenonT(60) DEF Yields
    <3>4. HoursOf(q).start <= r
      BY <3>3, <1>3, SameDay DEF Opening
    <3>. QED BY <3>1, <3>4, <1>3, SameDay DEF Opening
  <2>. QED BY <2>1, <2>2, <1>1, <1>7
<1>9. Opening(k) \in t..t + 7 * SlotsPerDay
  BY <1>1, <1>3, <1>5, <1>8
<1>10. IsOpen(Opening(k))
  <2>1. HoursOf(k).start < HoursOf(k).end
    BY <1>5, HoursWeekly
  <2>. QED BY <2>1, <1>3, <1>5, OpenAt DEF Opening
<1>11. ASSUME NEW u \in t..t + 7 * SlotsPerDay, IsOpen(u)
       PROVE  Opening(k) <= u
  <2>1. PICK p \in 0..7 : Yields(t, p) /\ Opening(q + p) <= u
    BY <1>11, OpenIsYielded
  <2>2. o <= p
    BY <2>1, <1>1 DEF FirstDay
  <2>3. CASE o = p
    BY <2>1, <2>3, <1>4
  <2>4. CASE o # p
    <3>1. PICK j \in Nat : j = q + p /\ k < j
      BY <2>2, <2>4, <1>1, <1>4
    <3>2. Opening(k) < Opening(j)
      BY <3>1, <1>3, EarlierDay DEF Opening
    <3>3. u \in Int /\ Opening(j) <= u
      BY <2>1, <3>1, <1>1
    <3>. QED BY <3>1, <3>2, <3>3, <1>3
  <2>. QED BY <2>3, <2>4
<1>. QED BY <1>1, <1>2, <1>4, <1>9, <1>10, <1>11

\* The days that settle the search are finitely many, so one is the first.
LEMMA FirstDayExists ==
  ASSUME NEW t, {offset \in 0..HorizonDays : Yields(t, offset)} # {}
  PROVE  \E o : FirstDay(t, o) /\ o = Min({offset \in 0..HorizonDays : Yields(t, offset)})
<1>. DEFINE days == {offset \in 0..HorizonDays : Yields(t, offset)}
<1>1. days \in SUBSET Int /\ days \subseteq 0..HorizonDays /\ IsFiniteSet(0..HorizonDays)
  BY RuleAssumption, FS_Interval
<1>2. IsFiniteSet(days)
  BY <1>1, FS_Subset
<1>3. PICK o \in days : \A p \in days : o <= p
  BY <1>1, <1>2, LeastExists
<1>4. Min(days) = o
  BY <1>1, <1>3, MinIsLeast
<1>. QED BY <1>3, <1>4 DEF FirstDay

\* next_open from an open time is that time; from a closed one it is the first
\* opening, and Never only without an opening in the week.
LEMMA NextOpenCases ==
  ASSUME RuleTypeOK, Proper, NEW t \in Nat
  PROVE  \/ NextOpen(t) = Never /\ \A u \in t..t + 7 * SlotsPerDay : ~IsOpen(u)
         \/ /\ NextOpen(t) \in t..t + 7 * SlotsPerDay /\ IsOpen(NextOpen(t))
            /\ \A u \in t..t + 7 * SlotsPerDay : IsOpen(u) => NextOpen(t) <= u
<1>. DEFINE days == {offset \in 0..HorizonDays : Yields(t, offset)}
<1>1. PICK q \in Nat, r \in 0..Day - 1 : t = SlotAt(q, r)
  BY SplitTime
<1>2. SlotsPerDay \in Nat /\ HorizonDays \in Nat /\ HorizonDays >= 7
  BY RuleAssumption
<1>3. CASE IsOpen(t)
  <2>1. t + 0 * SlotsPerDay = t
    BY <1>2
  <2>2. Yields(t, 0)
    BY <2>1, <1>3 DEF Yields, IsOpen
  <2>3. 0 \in days
    BY <2>2, <1>2
  <2>4. NextOpen(t) = t
    BY <2>3, <1>3 DEF NextOpen
  <2>5. t \in t..t + 7 * SlotsPerDay
    BY <1>2
  <2>. QED BY <2>4, <2>5, <1>2, <1>3
<1>4. CASE ~IsOpen(t) /\ days = {}
  <2>1. NextOpen(t) = Never
    BY <1>4 DEF NextOpen
  <2>2. ASSUME NEW u \in t..t + 7 * SlotsPerDay, IsOpen(u) PROVE FALSE
    <3>1. PICK p \in 0..7 : Yields(t, p)
      BY <2>2, <1>1, <1>4, OpenIsYielded
    <3>. QED BY <3>1, <1>2, <1>4
  <2>. QED BY <2>1, <2>2
<1>5. CASE ~IsOpen(t) /\ days # {}
  <2>1. PICK o : FirstDay(t, o) /\ o = Min(days)
    BY <1>5, FirstDayExists
  <2>2. NextOpen(t) = Candidate(t, o)
    BY <2>1, <1>5 DEF NextOpen
  <2>. QED BY <2>1, <2>2, <1>1, <1>5, FirstDayOpens
<1>. QED BY <1>3, <1>4, <1>5

\* next_open against its reference: the least open time of the week ahead.
LEMMA NextOpenFirst == RuleTypeOK => NextOpenIsFirst
<1>. SUFFICES ASSUME RuleTypeOK, Proper PROVE NextOpenIsFirst
  BY DEF NextOpenIsFirst
<1>. DEFINE open == {t \in now..now + 7 * SlotsPerDay : IsOpen(t)}
<1>1. now \in Nat /\ SlotsPerDay \in Nat
  BY RuleAssumption DEF RuleTypeOK
<1>2. CASE NextOpen(now) = Never /\ open = {}
  BY <1>2 DEF NextOpenIsFirst
<1>3. CASE /\ NextOpen(now) \in now..now + 7 * SlotsPerDay /\ IsOpen(NextOpen(now))
           /\ \A u \in now..now + 7 * SlotsPerDay : IsOpen(u) => NextOpen(now) <= u
  <2>1. open \in SUBSET Int /\ NextOpen(now) \in open /\ \A u \in open : NextOpen(now) <= u
    BY <1>1, <1>3
  <2>2. Min(open) = NextOpen(now)
    BY <2>1, MinIsLeast
  <2>. QED BY <2>1, <2>2 DEF NextOpenIsFirst
<1>. QED BY <1>1, <1>2, <1>3, NextOpenCases

\* next_open names an open time, and qualify books at an open time.
LEMMA CallbackBooked == RuleTypeOK => CallbackCanBeBooked
<1>. SUFFICES ASSUME RuleTypeOK, Proper, NextOpen(now) # Never
              PROVE  Qualify(NextOpen(now), FALSE, "in", FALSE, "decline") = "book"
  BY DEF CallbackCanBeBooked
<1>1. now \in Nat
  BY RuleAssumption DEF RuleTypeOK
<1>2. IsOpen(NextOpen(now))
  BY <1>1, NextOpenCases
<1>3. DispatchDecision(NextOpen(now), FALSE) = "open"
  BY <1>2 DEF DispatchDecision
<1>. QED BY <1>3 DEF Qualify

\* An emergency is booked as one outside the opening hours alone, where the fee
\* applies if there is one.
LEMMA FeeMatches == FeeMatchesBooking
<1>. SUFFICES ASSUME NEW emergency \in BOOLEAN, NEW verdict,
                     verdict = Qualify(now, FALSE, "in", emergency, "decline"),
                     verdict \in {"book", "book_emergency"}
              PROVE  AppliesEmergencyFee(now, emergency) <=> verdict = "book_emergency" /\ fee
  BY DEF FeeMatchesBooking
<1>1. DispatchDecision(now, emergency) \in {"open", "closed", "emergency_only"}
  BY DEF DispatchDecision
<1>2. Qualify(now, FALSE, "in", emergency, "decline") =
        (CASE DispatchDecision(now, emergency) = "open" -> "book"
           [] DispatchDecision(now, emergency) = "emergency_only" -> "book_emergency"
           [] OTHER -> "callback")
  BY DEF Qualify
<1>3. DispatchDecision(now, emergency) = "open" => IsOpen(now)
  BY DEF DispatchDecision
<1>4. DispatchDecision(now, emergency) = "emergency_only" => emergency /\ ~IsOpen(now)
  BY DEF DispatchDecision
<1>. QED BY <1>1, <1>2, <1>3, <1>4 DEF AppliesEmergencyFee

-----------------------------------------------------------------------------
(* The service area. *)

\* What the call knows of the area is what was stated last.
AreaInv ==
  /\ area = "unknown" <=> stated = "none"
  /\ area = "out" => stated \notin Postcodes

\* A caller is referred or declined only if the area is known to be another.
LEMMA AreaFromInv == AreaInv /\ area \in {"unknown", "in", "out"} => AreaAsStated
<1>. SUFFICES ASSUME AreaInv, area \in {"unknown", "in", "out"},
                     NEW o \in OutOfArea \ {"escalate"}, Qualify(now, FALSE, area, FALSE, o) = o
              PROVE  area = "out"
  BY DEF AreaAsStated, AreaInv
<1>1. o \in {"capture_and_refer", "decline"}
  BY DEF OutOfArea
<1>2. area = "unknown" => Qualify(now, FALSE, area, FALSE, o) = "callback"
  BY DEF Qualify
<1>3. area = "in" => Qualify(now, FALSE, area, FALSE, o) \in {"book", "book_emergency", "callback"}
  BY DEF Qualify
<1>. QED BY <1>1, <1>2, <1>3

-----------------------------------------------------------------------------
(* The slots offered. *)

\* p puts the n slots of r in order.
Sorts(p, r, n) ==
  /\ p \in [1..n -> 1..n]
  /\ \A i, j \in 1..n : p[i] = p[j] => i = j
  /\ \A i, j \in 1..n : i < j => r[p[i]] <= r[p[j]]

\* No slot of r comes twice.
Differ(r, n) == \A i, j \in 1..n : r[i] = r[j] => i = j

\* Slots put in order: if one permutation does it, the chosen one does.
LEMMA ParsedInOrder ==
  ASSUME NEW n \in Nat, NEW r \in [1..n -> Int], NEW perm, Sorts(perm, r, n)
  PROVE  \E p : Sorts(p, r, n) /\ ParseSlots(r) = [i \in 1..n |-> r[p[i]]]
<1>. DEFINE Good(p) == \A i, j \in DOMAIN r : i < j => r[p[i]] <= r[p[j]]
<1>1. DOMAIN r = 1..n
  OBVIOUS
<1>2. perm \in Injection(DOMAIN r, DOMAIN r) /\ Good(perm)
  BY <1>1 DEF Injection, IsInjective, Sorts
<1>3. PICK p : p = CHOOSE o \in Injection(DOMAIN r, DOMAIN r) : Good(o)
  OBVIOUS
<1>4. p \in Injection(DOMAIN r, DOMAIN r) /\ Good(p)
  BY <1>2, <1>3
<1>5. ParseSlots(r) = [i \in DOMAIN r |-> r[p[i]]]
  BY <1>3 DEF ParseSlots
<1>6. Sorts(p, r, n)
  BY <1>1, <1>4 DEF Injection, IsInjective, Sorts
<1>. QED BY <1>1, <1>5, <1>6

\* A response that can be put in order, of slots that differ, is offered from its
\* earliest slot on.
LEMMA OffersInOrder ==
  ASSUME NEW n \in Nat, NEW r \in [1..n -> Int], NEW perm, Sorts(perm, r, n), Differ(r, n)
  PROVE  LET offered == CheckAvailability(r)
         IN  /\ Len(offered) = Min({MaxSlotsSpoken, Len(r)})
             /\ \A i \in DOMAIN offered : \A s \in ToSet(r) \ ToSet(offered) : offered[i] < s
             /\ \A i, j \in DOMAIN offered : i < j => offered[i] < offered[j]
<1>1. PICK p : Sorts(p, r, n) /\ ParseSlots(r) = [i \in 1..n |-> r[p[i]]]
  BY ParsedInOrder
<1>2. p \in [1..n -> 1..n] /\ p \in Injection(1..n, 1..n)
  BY <1>1 DEF Injection, IsInjective, Sorts
<1>3. p \in Surjection(1..n, 1..n)
  BY <1>2, FS_Interval, FS_Injection
<1>4. PICK slots : slots = ParseSlots(r)
  OBVIOUS
<1>5. /\ slots \in Seq(Int) /\ Len(slots) = n /\ DOMAIN slots = 1..n
      /\ \A i \in 1..n : slots[i] = r[p[i]] /\ slots[i] \in Int
  BY <1>1, <1>2, <1>4
<1>6. \A i, j \in 1..n : i < j => slots[i] < slots[j]
  <2>. SUFFICES ASSUME NEW i \in 1..n, NEW j \in 1..n, i < j PROVE slots[i] < slots[j]
    OBVIOUS
  <2>1. r[p[i]] <= r[p[j]] /\ p[i] # p[j]
    <3>1. (\A a, b \in 1..n : p[a] = p[b] => a = b)
          /\ \A a, b \in 1..n : a < b => r[p[a]] <= r[p[b]]
      BY <1>1 DEF Sorts
    <3>2. i # j
      OBVIOUS
    <3>3. r[p[i]] <= r[p[j]]
      BY <3>1
    <3>4. p[i] # p[j]
      BY <3>1, <3>2
    <3>. QED BY <3>3, <3>4
  <2>2. p[i] \in 1..n /\ p[j] \in 1..n
    BY <1>2
  <2>3. r[p[i]] # r[p[j]]
    BY <2>1, <2>2 DEF Differ
  <2>4. slots[i] \in Int /\ slots[j] \in Int /\ slots[i] = r[p[i]] /\ slots[j] = r[p[j]]
    BY <1>5
  <2>5. slots[i] <= slots[j] /\ slots[i] # slots[j]
    BY <2>1, <2>3, <2>4
  <2>. QED BY <2>4, <2>5
<1>7. ToSet(r) = ToSet(slots)
  <2>1. \A m \in 1..n : \E i \in 1..n : p[i] = m
    BY <1>3 DEF Surjection
  <2>2. ToSet(r) = {r[m] : m \in 1..n} /\ ToSet(slots) = {slots[i] : i \in 1..n}
    BY <1>5 DEF ToSet
  <2>3. \A m \in 1..n : \E i \in 1..n : r[m] = slots[i]
    <3>. SUFFICES ASSUME NEW m \in 1..n PROVE \E i \in 1..n : r[m] = slots[i]
      OBVIOUS
    <3>1. PICK i \in 1..n : p[i] = m
      BY <2>1
    <3>2. slots[i] = r[p[i]]
      BY <1>5
    <3>. QED BY <3>1, <3>2
  <2>4. \A i \in 1..n : \E m \in 1..n : r[m] = slots[i]
    BY <1>2, <1>5
  <2>5. \A x : x \in ToSet(r) <=> x \in ToSet(slots)
    BY <2>2, <2>3, <2>4
  <2>. QED BY <2>5
<1>8. Len(r) = n
  OBVIOUS
<1>9. PICK k : k = IF n < MaxSlotsSpoken THEN n ELSE MaxSlotsSpoken
  OBVIOUS
<1>10. k \in 0..n /\ MaxSlotsSpoken \in Int
  BY <1>9 DEF MaxSlotsSpoken
<1>11. k = Min({MaxSlotsSpoken, Len(r)})
  <2>1. PICK S : S = {MaxSlotsSpoken, n}
    OBVIOUS
  <2>2. S \in SUBSET Int /\ k \in S /\ \A m \in S : k <= m
    BY <2>1, <1>9, <1>10
  <2>3. Min(S) = k
    BY <2>2, MinIsLeast
  <2>. QED BY <2>1, <2>3, <1>8
<1>12. PICK offered : offered = SubSeq(slots, 1, k)
  OBVIOUS
<1>13. CheckAvailability(r) = offered
  BY <1>4, <1>5, <1>9, <1>12 DEF CheckAvailability
<1>14. Len(offered) = k /\ DOMAIN offered = 1..k /\ \A i \in 1..k : offered[i] = slots[i]
  BY <1>5, <1>10, <1>12
<1>15. ASSUME NEW i \in DOMAIN offered, NEW s \in ToSet(r) \ ToSet(offered)
       PROVE  offered[i] < s
  <2>1. PICK j \in 1..n : s = slots[j]
    BY <1>5, <1>7 DEF ToSet
  <2>2. ~(j \in 1..k)
    BY <2>1, <1>14 DEF ToSet
  <2>3. i \in 1..n /\ i < j /\ offered[i] = slots[i]
    <3>1. i \in 1..k /\ offered[i] = slots[i]
      BY <1>14
    <3>2. k \in Int /\ k <= n
      BY <1>10
    <3>. QED BY <3>1, <3>2, <2>2
  <2>. QED BY <2>1, <2>3, <1>6
<1>16. \A i, j \in DOMAIN offered : i < j => offered[i] < offered[j]
  <2>1. 1..k \subseteq 1..n
    BY <1>10
  <2>. QED BY <2>1, <1>6, <1>14
<1>. QED BY <1>11, <1>13, <1>14, <1>15, <1>16

\* Each response a provider may give can be put in order, and holds no slot twice.
LEMMA OffersEarliest == RuleTypeOK => OffersAreEarliest
<1>. SUFFICES ASSUME RuleTypeOK, NEW urgency \in {"emergency", "soon", "flexible"},
                     NEW r \in Responses(now, urgency)
              PROVE  LET offered == CheckAvailability(r)
                     IN  /\ Len(offered) = Min({MaxSlotsSpoken, Len(r)})
                         /\ \A i \in DOMAIN offered : \A s \in ToSet(r) \ ToSet(offered) : offered[i] < s
                         /\ \A i, j \in DOMAIN offered : i < j => offered[i] < offered[j]
  BY DEF OffersAreEarliest
<1>1. now \in Int
  BY RuleAssumption DEF RuleTypeOK
<1>2. PICK t : t = now
  OBVIOUS
<1>3. t \in Int /\ r \in {<<t + 3, t + 1, t + 2, t>>, <<t + 2, t, t + 1>>, <<t + 1>>, <<>>}
  BY <1>1, <1>2 DEF Responses
<1>4. CASE r = <<t + 3, t + 1, t + 2, t>>
  <2>1. r \in [1..4 -> Int] /\ r[1] = t + 3 /\ r[2] = t + 1 /\ r[3] = t + 2 /\ r[4] = t
    BY <1>3, <1>4
  <2>2. PICK perm : perm = <<4, 2, 3, 1>>
    OBVIOUS
  <2>3. /\ perm \in [1..4 -> 1..4]
        /\ perm[1] = 4 /\ perm[2] = 2 /\ perm[3] = 3 /\ perm[4] = 1
    BY <2>2
  <2>4. Sorts(perm, r, 4)
    BY <2>1, <2>3, <1>3 DEF Sorts
  <2>5. Differ(r, 4) /\ 4 \in Nat
    BY <2>1, <1>3 DEF Differ
  <2>. QED BY <2>1, <2>4, <2>5, OffersInOrder
<1>5. CASE r = <<t + 2, t, t + 1>>
  <2>1. r \in [1..3 -> Int] /\ r[1] = t + 2 /\ r[2] = t /\ r[3] = t + 1
    BY <1>3, <1>5
  <2>2. PICK perm : perm = <<2, 3, 1>>
    OBVIOUS
  <2>3. perm \in [1..3 -> 1..3] /\ perm[1] = 2 /\ perm[2] = 3 /\ perm[3] = 1
    BY <2>2
  <2>4. Sorts(perm, r, 3)
    BY <2>1, <2>3, <1>3 DEF Sorts
  <2>5. Differ(r, 3) /\ 3 \in Nat
    BY <2>1, <1>3 DEF Differ
  <2>. QED BY <2>1, <2>4, <2>5, OffersInOrder
<1>6. CASE r = <<t + 1>>
  <2>1. r \in [1..1 -> Int] /\ 1 \in Nat
    BY <1>3, <1>6
  <2>2. PICK perm : perm = [i \in 1..1 |-> i]
    OBVIOUS
  <2>3. Sorts(perm, r, 1) /\ Differ(r, 1)
    BY <2>2 DEF Sorts, Differ
  <2>. QED BY <2>1, <2>3, OffersInOrder
<1>7. CASE r = <<>>
  <2>1. r \in [1..0 -> Int] /\ 0 \in Nat
    BY <1>7
  <2>2. Sorts(r, r, 0) /\ Differ(r, 0)
    BY <1>7 DEF Sorts, Differ
  <2>. QED BY <2>1, <2>2, OffersInOrder
<1>. QED BY <1>3, <1>4, <1>5, <1>6, <1>7

-----------------------------------------------------------------------------
\* Time passes and postcodes are looked up: the rules' state stays what it is,
\* and the area stays the one stated last (service_area.py).
LEMMA RuleInvariant == RuleSpec => [](RuleTypeOK /\ AreaInv)
<1>1. ASSUME RuleInit PROVE RuleTypeOK /\ AreaInv
  <2>1. 0 \in 0..7 * SlotsPerDay - 1 /\ 0 \in 0..MaxLookups
    BY RuleAssumption
  <2>. QED BY <1>1, <2>1 DEF RuleInit, RuleTypeOK, AreaInv, Arguments
<1>2. ASSUME RuleTypeOK, AreaInv, [RuleNext]_ruleVars
      PROVE  RuleTypeOK' /\ AreaInv'
  <2>1. CASE TimePasses
    <3>1. now' \in 0..7 * SlotsPerDay - 1
      BY <1>2, <2>1, RuleAssumption DEF TimePasses, RuleTypeOK
    <3>. QED BY <1>2, <2>1, <3>1 DEF TimePasses, RuleTypeOK, AreaInv
  <2>2. CASE LookUp
    <3>1. PICK postcode \in Arguments, address \in Arguments : CheckServiceArea(postcode, address)
      BY <2>2 DEF LookUp
    <3>2. ExtractPostcode(postcode, address) \in Arguments
      BY DEF ExtractPostcode
    <3>3. lookups' \in 0..MaxLookups
      BY <1>2, <2>2, RuleAssumption DEF LookUp, RuleTypeOK
    <3>4. /\ area' \in {"unknown", "in", "out"} /\ stated' \in Arguments
          /\ AreaInv'
      <4>1. CASE ExtractPostcode(postcode, address) = "none"
        BY <1>2, <3>1, <4>1 DEF CheckServiceArea, RuleTypeOK, AreaInv
      <4>2. CASE ExtractPostcode(postcode, address) # "none"
        BY <3>1, <3>2, <4>2 DEF CheckServiceArea, AreaInv
      <4>. QED BY <4>1, <4>2
    <3>. QED BY <1>2, <2>2, <3>3, <3>4 DEF LookUp, RuleTypeOK
  <2>3. CASE UNCHANGED ruleVars
    BY <1>2, <2>3 DEF ruleVars, RuleTypeOK, AreaInv
  <2>. QED BY <1>2, <2>1, <2>2, <2>3 DEF RuleNext
<1>. QED BY <1>1, <1>2, PTL DEF RuleSpec

\* For any hours, policies, postcodes and division of the day: the first opening
\* is named, whoever is called back can be booked then, the fee applies to the
\* emergency bookings alone and only where one is configured, the area is the one stated, the slots offered are the
\* earliest (hours.py, qualification.py, service_area.py, availability.py).
THEOREM RulesCorrect == RuleSpec => []RulesOK
<1>1. RuleTypeOK /\ AreaInv => RulesOK
  BY NextOpenFirst, CallbackBooked, FeeMatches, AreaFromInv, OffersEarliest DEF RulesOK, RuleTypeOK
<1>. QED BY <1>1, RuleInvariant, PTL

-----------------------------------------------------------------------------
(* Sums over a bag. *)

\* A sum counts its units: one for every time an element is in the bag.
Units(f, S) == {u \in S \X Nat : 1 <= u[2] /\ u[2] <= f[u[1]]}

\* The bag says of every element of S how often it is there.
Weighs(f, S) == IsFiniteSet(S) /\ \A x \in S : f[x] \in Nat

\* The units of one element are as many as the bag says.
LEMMA UnitsOfOne ==
  ASSUME NEW f, NEW x, f[x] \in Nat
  PROVE  IsFiniteSet(Units(f, {x})) /\ Cardinality(Units(f, {x})) = f[x]
<1>1. IsFiniteSet({x}) /\ Cardinality({x}) = 1
  BY FS_Singleton
<1>2. IsFiniteSet(1..f[x]) /\ Cardinality(1..f[x]) = f[x]
  BY FS_Interval
<1>3. Units(f, {x}) = {x} \X (1..f[x])
  BY DEF Units
<1>4. PICK T : T = 1..f[x]
  OBVIOUS
<1>5. IsFiniteSet({x} \X T) /\ Cardinality({x} \X T) = 1 * Cardinality(T)
  BY <1>1, <1>2, <1>4, FS_Product
<1>6. Units(f, {x}) = {x} \X T
  BY <1>3, <1>4
<1>7. Cardinality(T) = f[x]
  BY <1>2, <1>4
<1>8. 1 * Cardinality(T) = f[x]
  BY <1>7
<1>. QED BY <1>5, <1>6, <1>8

\* There are finitely many units, by induction on the set.
LEMMA UnitsFinite ==
  ASSUME NEW f, NEW S, Weighs(f, S)
  PROVE  IsFiniteSet(Units(f, S)) /\ Cardinality(Units(f, S)) \in Nat
<1>. DEFINE Good == {T \in SUBSET S : IsFiniteSet(Units(f, T))}
<1>1. {} \in Good
  <2>1. Units(f, {}) = {}
    BY DEF Units
  <2>. QED BY <2>1, FS_EmptySet
<1>2. ASSUME NEW T \in SUBSET S, NEW x \in S \ T, T \in Good
      PROVE  T \cup {x} \in Good
  <2>1. Units(f, T \cup {x}) = Units(f, T) \cup Units(f, {x})
    BY DEF Units
  <2>2. IsFiniteSet(Units(f, {x}))
    BY UnitsOfOne DEF Weighs
  <2>. QED BY <1>2, <2>1, <2>2, FS_Union
<1>3. IsFiniteSet(S)
  BY DEF Weighs
<1>. HIDE DEF Good
<1>4. S \in Good
  BY <1>1, <1>2, <1>3, FiniteInduction
<1>. QED BY <1>4, FS_CardinalityType DEF Good

\* The units of two sets that share no element add up.
LEMMA UnitsJoin ==
  ASSUME NEW f, NEW S, NEW T, Weighs(f, S), Weighs(f, T), S \cap T = {}
  PROVE  Cardinality(Units(f, S \cup T)) = Cardinality(Units(f, S)) + Cardinality(Units(f, T))
<1>1. Units(f, S \cup T) = Units(f, S) \cup Units(f, T) /\ Units(f, S) \cap Units(f, T) = {}
  BY DEF Units
<1>2. IsFiniteSet(Units(f, S)) /\ IsFiniteSet(Units(f, T))
      /\ Cardinality(Units(f, S)) \in Nat /\ Cardinality(Units(f, T)) \in Nat
  BY UnitsFinite
<1>3. PICK A, B : A = Units(f, S) /\ B = Units(f, T)
  OBVIOUS
<1>4. Cardinality(A \cup B) = Cardinality(A) + Cardinality(B) - Cardinality(A \cap B)
  BY <1>2, <1>3, FS_Union
<1>5. Cardinality({}) = 0
  BY FS_EmptySet
<1>6. Cardinality(A \cap B) = 0 /\ Units(f, S \cup T) = A \cup B
  BY <1>1, <1>3, <1>5
<1>7. Cardinality(A) \in Nat /\ Cardinality(B) \in Nat
  BY <1>2, <1>3
<1>8. Cardinality(A \cup B) = Cardinality(A) + Cardinality(B)
  BY <1>4, <1>6, <1>7
<1>. QED BY <1>3, <1>6, <1>8

\* The recursion of the sum has one solution on the finite sets: the count of units.
LEMMA SumIsUnits ==
  ASSUME NEW f, NEW S, Weighs(f, S)
  PROVE  SumFunctionOnSet(f, S) = Cardinality(Units(f, S))
<1>. DEFINE AnyOf(s) == CHOOSE x \in s : TRUE
            Rec(g) == [s \in SUBSET S |-> IF s = {} THEN 0 ELSE f[AnyOf(s)] + g[s \ {AnyOf(s)}]]
            h == [s \in SUBSET S |-> Cardinality(Units(f, s))]
<1>1. \A s \in SUBSET S : Weighs(f, s)
  BY FS_Subset DEF Weighs
<1>2. \A s \in SUBSET S : s # {} => AnyOf(s) \in s
  OBVIOUS
<1>3. \A s \in SUBSET S : h[s] = IF s = {} THEN 0 ELSE f[AnyOf(s)] + h[s \ {AnyOf(s)}]
  <2>. SUFFICES ASSUME NEW s \in SUBSET S
                PROVE  h[s] = IF s = {} THEN 0 ELSE f[AnyOf(s)] + h[s \ {AnyOf(s)}]
    OBVIOUS
  <2>1. CASE s = {}
    <3>1. Units(f, {}) = {}
      BY DEF Units
    <3>. QED BY <2>1, <3>1, FS_EmptySet
  <2>2. CASE s # {}
    <3>1. PICK x \in s : x = AnyOf(s)
      BY <1>2, <2>2
    <3>2. {x} \cup (s \ {x}) = s /\ {x} \cap (s \ {x}) = {}
      OBVIOUS
    <3>3. Weighs(f, {x}) /\ Weighs(f, s \ {x}) /\ f[x] \in Nat
      BY <1>1 DEF Weighs
    <3>4. Cardinality(Units(f, {x} \cup (s \ {x})))
            = Cardinality(Units(f, {x})) + Cardinality(Units(f, s \ {x}))
      BY <3>2, <3>3, UnitsJoin
    <3>5. Cardinality(Units(f, {x})) = f[x]
      BY <3>3, UnitsOfOne
    <3>6. h[s] = f[x] + h[s \ {x}]
      BY <3>2, <3>4, <3>5
    <3>. QED BY <2>2, <3>1, <3>6
  <2>. QED BY <2>1, <2>2
<1>4. h = Rec(h)
  BY <1>3
<1>5. PICK g : g = CHOOSE iter : iter = Rec(iter)
  OBVIOUS
<1>. HIDE DEF Rec
<1>6. g = Rec(g)
  BY <1>4, <1>5
<1>. USE DEF Rec
<1>7. SumFunctionOnSet(f, S) = g[S]
  BY <1>5 DEF SumFunctionOnSet, FoldFunctionOnSet, MapThenFoldSet
<1>. DEFINE Good == {T \in SUBSET S : g[T] = h[T]}
<1>8. ASSUME S \notin Good PROVE FALSE
  <2>. DEFINE Bad == {T \in FiniteSubsetsOf(S) : T \notin Good}
  <2>1. S \in Bad
    BY <1>8 DEF FiniteSubsetsOf, Weighs
  <2>2. IsWellFoundedOn(StrictSubsetOrdering(S), FiniteSubsetsOf(S))
    BY FS_StrictSubsetOrderingWellFounded
  <2>. HIDE DEF Good
  <2>3. PICK s \in Bad : \A V \in Bad : ~ (<<V, s>> \in StrictSubsetOrdering(S))
    BY <2>1, <2>2, WFMin
  <2>4. s \in SUBSET S /\ IsFiniteSet(s) /\ s \notin Good
    BY DEF FiniteSubsetsOf
  <2>5. CASE s = {}
    <3>1. g[s] = 0 /\ h[s] = 0
      BY <1>3, <1>6, <2>4, <2>5
    <3>. QED BY <3>1, <2>4 DEF Good
  <2>6. CASE s # {}
    <3>1. PICK x \in s : x = AnyOf(s)
      BY <1>2, <2>4, <2>6
    <3>2. IsFiniteSet(s \ {x})
      BY <2>4, FS_RemoveElement
    <3>3. <<s \ {x}, s>> \in StrictSubsetOrdering(S)
      BY <2>4, <3>1 DEF StrictSubsetOrdering
    <3>4. s \ {x} \in Good
      BY <2>3, <2>4, <3>2, <3>3 DEF FiniteSubsetsOf
    <3>5. g[s \ {x}] = h[s \ {x}]
      BY <3>4 DEF Good
    <3>6. g[s] = f[x] + g[s \ {x}]
      BY <1>6, <2>4, <2>6, <3>1
    <3>7. h[s] = f[x] + h[s \ {x}]
      BY <1>3, <2>4, <2>6, <3>1
    <3>. QED BY <2>4, <3>5, <3>6, <3>7 DEF Good
  <2>. QED BY <2>5, <2>6
<1>. QED BY <1>7, <1>8


\* What a sum over a set is made of: its parts, its subsets, and nothing if no
\* element of it is in the bag.
LEMMA SumFacts ==
  ASSUME NEW f, NEW S, Weighs(f, S)
  PROVE  /\ SumFunctionOnSet(f, S) \in Nat
         /\ \A T \in SUBSET S :
              /\ SumFunctionOnSet(f, T) \in Nat
              /\ SumFunctionOnSet(f, S) = SumFunctionOnSet(f, T) + SumFunctionOnSet(f, S \ T)
              /\ SumFunctionOnSet(f, T) <= SumFunctionOnSet(f, S)
         /\ (\A x \in S : f[x] = 0) => SumFunctionOnSet(f, S) = 0
<1>1. \A T \in SUBSET S : Weighs(f, T)
  BY FS_Subset DEF Weighs
<1>2. \A T \in SUBSET S : /\ SumFunctionOnSet(f, T) = Cardinality(Units(f, T))
                          /\ SumFunctionOnSet(f, T) \in Nat
  BY <1>1, SumIsUnits, UnitsFinite
<1>3. ASSUME NEW T \in SUBSET S
      PROVE  /\ SumFunctionOnSet(f, S) = SumFunctionOnSet(f, T) + SumFunctionOnSet(f, S \ T)
             /\ SumFunctionOnSet(f, T) <= SumFunctionOnSet(f, S)
  <2>1. PICK U : U = S \ T
    OBVIOUS
  <2>2. T \cup U = S /\ T \cap U = {} /\ U \in SUBSET S
    BY <2>1
  <2>3. Cardinality(Units(f, T \cup U)) = Cardinality(Units(f, T)) + Cardinality(Units(f, U))
    BY <1>1, <2>2, UnitsJoin
  <2>4. SumFunctionOnSet(f, S) = SumFunctionOnSet(f, T) + SumFunctionOnSet(f, U)
    BY <1>2, <2>2, <2>3
  <2>5. PICK a, b, c : /\ a = SumFunctionOnSet(f, T) /\ b = SumFunctionOnSet(f, U)
                       /\ c = SumFunctionOnSet(f, S)
    OBVIOUS
  <2>6. a \in Nat /\ b \in Nat /\ c = a + b
    BY <1>2, <2>2, <2>4, <2>5
  <2>7. a <= c
    BY <2>6
  <2>. QED BY <2>1, <2>4, <2>5, <2>7
<1>4. ASSUME \A x \in S : f[x] = 0
      PROVE  SumFunctionOnSet(f, S) = 0
  <2>1. Units(f, S) = {}
    BY <1>4 DEF Units
  <2>. QED BY <1>2, <2>1, FS_EmptySet
<1>. QED BY <1>2, <1>3, <1>4

-----------------------------------------------------------------------------
(* Percentiles of a bag of milliseconds. *)

\* The bag holds whole milliseconds, of finitely many values.
Samples(bag) ==
  /\ DOMAIN bag \subseteq Nat /\ IsFiniteSet(DOMAIN bag)
  /\ \A v \in DOMAIN bag : bag[v] \in Nat

\* UpTo counts some of the samples, and more of them the higher it looks.
LEMMA UpToFacts ==
  ASSUME NEW bag, Samples(bag)
  PROVE  /\ Count(bag) \in Nat
         /\ \A v \in Int : UpTo(bag, v) \in Nat /\ UpTo(bag, v) <= Count(bag)
         /\ \A v, w \in Int : v <= w => UpTo(bag, v) <= UpTo(bag, w)
<1>1. Weighs(bag, DOMAIN bag) /\ Count(bag) = SumFunctionOnSet(bag, DOMAIN bag)
  BY DEF Samples, Weighs, Count, SumFunction
<1>2. \A v \in Int : UpTo(bag, v) = SumFunctionOnSet(bag, {w \in DOMAIN bag : w <= v})
  BY DEF UpTo
<1>3. ASSUME NEW v \in Int, NEW w \in Int, v <= w
      PROVE  UpTo(bag, v) <= UpTo(bag, w)
  <2>1. PICK S, T : S = {x \in DOMAIN bag : x <= w} /\ T = {x \in DOMAIN bag : x <= v}
    OBVIOUS
  <2>2. Weighs(bag, S)
    BY <1>1, <2>1, FS_Subset DEF Weighs
  <2>3. T \in SUBSET S
    BY <1>3, <2>1 DEF Samples
  <2>4. SumFunctionOnSet(bag, T) <= SumFunctionOnSet(bag, S)
    BY <2>2, <2>3, SumFacts
  <2>. QED BY <1>2, <2>1, <2>4
<1>4. ASSUME NEW v \in Int
      PROVE  UpTo(bag, v) \in Nat /\ UpTo(bag, v) <= Count(bag)
  <2>1. {w \in DOMAIN bag : w <= v} \in SUBSET DOMAIN bag
    OBVIOUS
  <2>. QED BY <1>1, <1>2, <2>1, SumFacts
<1>5. Count(bag) \in Nat
  BY <1>1, SumFacts
<1>. QED BY <1>3, <1>4, <1>5

\* A count changes at a value that was observed.
LEMMA CountedAt ==
  ASSUME NEW bag, Samples(bag), NEW v \in Int, UpTo(bag, v) # 0
  PROVE  \E w \in Observed(bag) : w <= v /\ UpTo(bag, w) = UpTo(bag, v)
<1>. DEFINE S == {x \in DOMAIN bag : x <= v}
            O == {x \in Observed(bag) : x <= v}
<1>1. Weighs(bag, DOMAIN bag) /\ Weighs(bag, S) /\ UpTo(bag, v) = SumFunctionOnSet(bag, S)
  BY FS_Subset DEF Samples, Weighs, UpTo
<1>2. O # {}
  <2>1. ASSUME O = {} PROVE \A x \in S : bag[x] = 0
    BY <2>1 DEF Observed, Samples
  <2>. QED BY <1>1, <2>1, SumFacts
<1>3. O \in SUBSET Int /\ IsFiniteSet(O)
  <2>1. O \subseteq DOMAIN bag
    BY DEF Observed
  <2>. QED BY <2>1, FS_Subset DEF Samples
<1>4. PICK w \in O : \A k \in O : k <= w
  BY <1>2, <1>3, GreatestExists
<1>5. w \in Int /\ w <= v /\ w \in Observed(bag)
  BY <1>3
<1>. DEFINE T == {x \in DOMAIN bag : x <= w}
<1>6. T \in SUBSET S
  BY <1>5 DEF Samples
<1>7. \A x \in S \ T : bag[x] = 0
  BY <1>4, <1>5 DEF Samples, Observed
<1>8. Weighs(bag, S \ T)
  BY <1>1, FS_Subset DEF Weighs
<1>9. SumFunctionOnSet(bag, S \ T) = 0
  BY <1>7, <1>8, SumFacts
<1>10. UpTo(bag, w) = SumFunctionOnSet(bag, T)
  BY DEF UpTo
<1>. HIDE DEF S, T
<1>11. /\ SumFunctionOnSet(bag, S) = SumFunctionOnSet(bag, T) + SumFunctionOnSet(bag, S \ T)
       /\ SumFunctionOnSet(bag, T) \in Nat
  BY <1>1, <1>6, SumFacts
<1>12. SumFunctionOnSet(bag, S) = SumFunctionOnSet(bag, T)
  BY <1>9, <1>11
<1>. QED BY <1>1, <1>5, <1>10, <1>12

\* sorted(samples)[i - 1] was observed, and is above a threshold exactly if fewer
\* than i samples are not.
LEMMA OrderedFacts ==
  ASSUME NEW bag, Samples(bag), NEW i \in 1..Count(bag)
  PROVE  /\ Ordered(bag, i) \in Nat /\ UpTo(bag, Ordered(bag, i)) >= i
         /\ \A v \in Observed(bag) : UpTo(bag, v) >= i => Ordered(bag, i) <= v
         /\ \A t \in Int : Ordered(bag, i) > t <=> UpTo(bag, t) < i
<1>. DEFINE S == {v \in Observed(bag) : UpTo(bag, v) >= i}
<1>1. Observed(bag) \subseteq DOMAIN bag /\ DOMAIN bag \subseteq Nat /\ IsFiniteSet(DOMAIN bag)
  BY DEF Observed, Samples
<1>2. Count(bag) \in Nat /\ i \in Int /\ 1 <= i /\ i <= Count(bag)
  BY UpToFacts
<1>3. \A t \in Int : UpTo(bag, t) >= i => \E w \in S : w <= t
  <2>. SUFFICES ASSUME NEW t \in Int, UpTo(bag, t) >= i PROVE \E w \in S : w <= t
    OBVIOUS
  <2>1. UpTo(bag, t) # 0
    BY <1>2, UpToFacts
  <2>2. PICK w \in Observed(bag) : w <= t /\ UpTo(bag, w) = UpTo(bag, t)
    BY <2>1, CountedAt
  <2>. QED BY <2>2
<1>4. S # {}
  <2>1. DOMAIN bag # {}
    <3>1. ASSUME DOMAIN bag = {} PROVE FALSE
      <4>1. SumFunctionOnSet(bag, DOMAIN bag) = 0
        BY <3>1, SumFacts DEF Samples, Weighs
      <4>. QED BY <1>2, <4>1 DEF Count, SumFunction
    <3>. QED BY <3>1
  <2>2. PICK m \in DOMAIN bag : \A k \in DOMAIN bag : k <= m
    BY <1>1, <2>1, GreatestExists
  <2>3. {w \in DOMAIN bag : w <= m} = DOMAIN bag
    BY <2>2
  <2>4. UpTo(bag, m) = Count(bag) /\ m \in Int
    BY <1>1, <2>3 DEF UpTo, Count, SumFunction
  <2>. QED BY <1>2, <1>3, <2>4
<1>5. S \in SUBSET Int /\ IsFiniteSet(S)
  BY <1>1, FS_Subset
<1>6. PICK m \in S : \A k \in S : m <= k
  BY <1>4, <1>5, LeastExists
<1>7. Ordered(bag, i) = m
  BY <1>5, <1>6, MinIsLeast DEF Ordered
<1>8. m \in Nat /\ UpTo(bag, m) >= i /\ UpTo(bag, m) \in Nat
  BY <1>1, UpToFacts
<1>9. \A t \in Int : m > t <=> UpTo(bag, t) < i
  <2>. SUFFICES ASSUME NEW t \in Int PROVE m > t <=> UpTo(bag, t) < i
    OBVIOUS
  <2>1. UpTo(bag, t) \in Nat /\ (m <= t => UpTo(bag, m) <= UpTo(bag, t))
    BY <1>8, UpToFacts
  <2>2. UpTo(bag, t) >= i => m <= t
    <3>1. ASSUME NEW w \in S, w <= t PROVE m <= t
      BY <1>5, <1>6, <3>1
    <3>. QED BY <1>3, <3>1
  <2>. QED BY <1>2, <1>8, <2>1, <2>2
<1>. QED BY <1>6, <1>7, <1>8, <1>9

\* The percentile is above a threshold exactly if more than the other share of
\* the samples is.
LEMMA BreachIsShare ==
  ASSUME NEW bag, Samples(bag), NEW pct \in {50, 95}, NEW t \in Nat
  PROVE  Breach(Percentile(bag, pct), t) <=> 100 * Above(bag, t) > (100 - pct) * Count(bag)
<1>1. PICK n \in Nat, c \in Nat : n = Count(bag) /\ c = UpTo(bag, t) /\ c <= n
  BY UpToFacts
<1>2. Above(bag, t) = n - c
  BY <1>1 DEF Above
<1>3. CASE n = 0
  <2>1. Percentile(bag, pct) = NoValue
    BY <1>1, <1>3 DEF Percentile
  <2>. QED BY <1>1, <1>2, <1>3, <2>1 DEF Breach
<1>4. CASE n # 0
  <2>1. PICK i : i = Rank(pct, n)
    OBVIOUS
  <2>2. i \in 1..n /\ (c < i <=> 100 * (n - c) > (100 - pct) * n)
    <3>1. CASE pct = 50
      BY <1>1, <1>4, <2>1, <3>1 DEF Rank
    <3>2. CASE pct = 95
      BY <1>1, <1>4, <2>1, <3>2 DEF Rank
    <3>. QED BY <3>1, <3>2
  <2>3. Percentile(bag, pct) = Ordered(bag, i)
    BY <1>1, <1>4, <2>1 DEF Percentile
  <2>4. Ordered(bag, i) \in Nat /\ (Ordered(bag, i) > t <=> c < i)
    BY <1>1, <2>2, OrderedFacts
  <2>. QED BY <1>1, <1>2, <2>2, <2>3, <2>4 DEF Breach, NoValue
<1>. QED BY <1>3, <1>4

\* The header's median is made of the two middle samples, the gate's is the lower.
LEMMA HeaderAbove ==
  ASSUME Samples(turns)
  PROVE  HeaderNotBelowGate
<1>1. PICK n \in Nat : n = Count(turns)
  BY UpToFacts
<1>2. CASE n = 0
  BY <1>1, <1>2 DEF HeaderNotBelowGate, HeaderMedian, Percentile, NoValue
<1>3. CASE n # 0
  <2>1. PICK i \in 1..n, j \in 1..n : i = (n + 1) \div 2 /\ j = n \div 2 + 1 /\ i <= j
    BY <1>3
  <2>2. Rank(50, n) = i /\ (n % 2 = 1 => i = j)
    BY <2>1 DEF Rank
  <2>3. PICK a, b : a = Ordered(turns, i) /\ b = Ordered(turns, j)
    OBVIOUS
  <2>4. a \in Nat /\ b \in Nat /\ (i = j => a = b)
    BY <1>1, <2>1, <2>3, OrderedFacts
  <2>5. a <= b
    <3>1. ~(a > b)
      <4>1. UpTo(turns, b) >= j /\ UpTo(turns, b) \in Nat
        BY <1>1, <2>1, <2>3, <2>4, OrderedFacts, UpToFacts
      <4>2. a > b <=> UpTo(turns, b) < i
        BY <1>1, <2>1, <2>3, <2>4, OrderedFacts
      <4>. QED BY <2>1, <4>1, <4>2
    <3>. QED BY <2>4, <3>1
  <2>6. HeaderMedian = (a + b) \div 2 /\ Percentile(turns, 50) = a
    BY <1>1, <1>3, <2>1, <2>2, <2>3 DEF HeaderMedian, Percentile
  <2>7. (a + b) \div 2 >= a /\ (a = b => (a + b) \div 2 = a)
    BY <2>4, <2>5
  <2>. QED BY <1>1, <2>2, <2>4, <2>6, <2>7 DEF HeaderNotBelowGate
<1>. QED BY <1>2, <1>3

-----------------------------------------------------------------------------
(* The payloads of the barge_in events. *)

\* A sum over one element is what the bag says of it.
LEMMA SumOfOne ==
  ASSUME NEW f, NEW x, f[x] \in Nat
  PROVE  SumFunctionOnSet(f, {x}) = f[x]
<1>1. PICK S : S = {x}
  OBVIOUS
<1>2. Weighs(f, S)
  BY <1>1, FS_Singleton DEF Weighs
<1>3. SumFunctionOnSet(f, S) = Cardinality(Units(f, S))
  BY <1>2, SumIsUnits
<1>. QED BY <1>1, <1>3, UnitsOfOne

\* There are finitely many payloads, and finitely many values of a key.
LEMMA PayloadsFinite ==
  /\ IsFiniteSet(Payloads)
  /\ \A key \in {"cutoff_ms", "discarded_ms"} :
       LET values == {p[key] : p \in Payloads} \ {NoValue}
       IN values \subseteq Nat /\ IsFiniteSet(values)
<1>. DEFINE A == Cutoffs \cup {NoValue}
            B == Discards \cup {NoValue}
            f == [u \in A \X B |-> [cutoff_ms |-> u[1], discarded_ms |-> u[2]]]
<1>1. IsFiniteSet(Cutoffs) /\ IsFiniteSet(Discards) /\ Cutoffs \subseteq Nat /\ Discards \subseteq Nat
  BY RepAssumption
<1>2. IsFiniteSet(A) /\ IsFiniteSet(B)
  BY <1>1, FS_AddElement
<1>3. IsFiniteSet(A \X B)
  BY <1>2, FS_Product
<1>4. f \in Surjection(A \X B, Payloads)
  <2>1. f \in [A \X B -> Payloads]
    BY DEF Payloads
  <2>2. ASSUME NEW p \in Payloads PROVE \E u \in A \X B : f[u] = p
    <3>1. /\ p.cutoff_ms \in A /\ p.discarded_ms \in B
          /\ p = [cutoff_ms |-> p.cutoff_ms, discarded_ms |-> p.discarded_ms]
      BY DEF Payloads
    <3>2. PICK u \in A \X B : u = <<p.cutoff_ms, p.discarded_ms>>
      BY <3>1
    <3>. QED BY <3>1, <3>2
  <2>. QED BY <2>1, <2>2 DEF Surjection
<1>5. IsFiniteSet(Payloads)
  BY <1>3, <1>4, FS_Surjection
<1>6. {p["cutoff_ms"] : p \in Payloads} \ {NoValue} \subseteq Cutoffs
  BY DEF Payloads
<1>7. {p["discarded_ms"] : p \in Payloads} \ {NoValue} \subseteq Discards
  BY DEF Payloads
<1>8. ASSUME NEW S, S \subseteq Cutoffs \/ S \subseteq Discards
      PROVE  S \subseteq Nat /\ IsFiniteSet(S)
  BY <1>1, <1>8, FS_Subset
<1>. QED BY <1>5, <1>6, <1>7, <1>8

\* The samples of a key are those payloads that have a number there.
LEMMA NumbersAreSamples ==
  ASSUME RepTypeOK, NEW key \in {"cutoff_ms", "discarded_ms"}, NEW n, n = NumbersOf(key)
  PROVE  /\ Samples(n) /\ DOMAIN n = {p[key] : p \in Payloads} \ {NoValue}
         /\ \A T \in SUBSET DOMAIN n :
              SumFunctionOnSet(n, T) = SumFunctionOnSet(bargeIns, {p \in Payloads : p[key] \in T})
<1>. DEFINE values == {p[key] : p \in Payloads} \ {NoValue}
            Holding(T) == {p \in Payloads : p[key] \in T}
            Good == {T \in SUBSET values : SumFunctionOnSet(n, T) = SumFunctionOnSet(bargeIns, Holding(T))}
<1>1. values \subseteq Nat /\ IsFiniteSet(values) /\ IsFiniteSet(Payloads)
  BY PayloadsFinite
<1>2. n = [v \in values |-> SumFunctionOnSet(bargeIns, {p \in Payloads : p[key] = v})]
  BY DEF NumbersOf
<1>3. \A S \in SUBSET Payloads : Weighs(bargeIns, S)
  BY <1>1, FS_Subset DEF Weighs, RepTypeOK
<1>4. \A v \in values : /\ n[v] = SumFunctionOnSet(bargeIns, {p \in Payloads : p[key] = v})
                        /\ n[v] \in Nat
  BY <1>2, <1>3, SumFacts
<1>5. Samples(n) /\ DOMAIN n = values /\ \A T \in SUBSET values : Weighs(n, T)
  BY <1>1, <1>2, <1>4, FS_Subset DEF Samples, Weighs
<1>6. {} \in Good
  <2>1. Holding({}) = {}
    OBVIOUS
  <2>2. SumFunctionOnSet(n, {}) = 0
    BY <1>5, SumFacts
  <2>3. SumFunctionOnSet(bargeIns, {}) = 0
    BY <1>3, SumFacts
  <2>. QED BY <2>1, <2>2, <2>3
<1>7. ASSUME NEW T \in SUBSET values, NEW x \in values \ T, T \in Good
      PROVE  T \cup {x} \in Good
  <2>1. /\ Holding(T) \in SUBSET Holding(T \cup {x}) /\ Holding(T \cup {x}) \in SUBSET Payloads
        /\ Holding(T \cup {x}) \ Holding(T) = {p \in Payloads : p[key] = x}
        /\ (T \cup {x}) \ T = {x} /\ T \in SUBSET (T \cup {x}) /\ T \cup {x} \in SUBSET values
    BY <1>7
  <2>2. PICK S, U : S = Holding(T \cup {x}) /\ U = Holding(T)
    OBVIOUS
  <2>3. SumFunctionOnSet(bargeIns, S) = SumFunctionOnSet(bargeIns, U) + SumFunctionOnSet(bargeIns, S \ U)
    BY <1>3, <2>1, <2>2, SumFacts
  <2>4. SumFunctionOnSet(bargeIns, S \ U) = n[x]
    BY <1>4, <2>1, <2>2
  <2>5. PICK V : V = T \cup {x}
    OBVIOUS
  <2>6. SumFunctionOnSet(n, V) = SumFunctionOnSet(n, T) + SumFunctionOnSet(n, V \ T)
    BY <1>5, <2>1, <2>5, SumFacts
  <2>7. V \ T = {x} /\ SumFunctionOnSet(n, {x}) = n[x]
    BY <1>4, <2>1, <2>5, SumOfOne
  <2>8. SumFunctionOnSet(n, T) = SumFunctionOnSet(bargeIns, U)
    BY <1>7, <2>2
  <2>9. SumFunctionOnSet(n, V) = SumFunctionOnSet(bargeIns, S)
    BY <2>3, <2>4, <2>6, <2>7, <2>8
  <2>. QED BY <2>1, <2>2, <2>5, <2>9
<1>8. ASSUME NEW T \in SUBSET values PROVE T \in Good
  <2>1. IsFiniteSet(T)
    BY <1>1, FS_Subset
  <2>2. \A U \in SUBSET T : \A x \in T \ U : U \in Good => U \cup {x} \in Good
    BY <1>7
  <2>. HIDE DEF Good
  <2>. QED BY <1>6, <2>1, <2>2, FiniteInduction
<1>. QED BY <1>5, <1>8

\* A threshold on a key is breached exactly if more than a twentieth of the
\* payloads that have a number there are over it.
LEMMA KeyIsShare ==
  ASSUME RepTypeOK, NEW key \in {"cutoff_ms", "discarded_ms"}, NEW t \in Nat,
         NEW measured, measured = {p \in Payloads : p[key] /= NoValue}
  PROVE  Breach(Percentile(NumbersOf(key), 95), t) <=>
           100 * SumFunctionOnSet(bargeIns, {p \in measured : p[key] > t})
             > 5 * SumFunctionOnSet(bargeIns, measured)
<1>1. PICK n : n = NumbersOf(key)
  OBVIOUS
<1>. DEFINE values == {p[key] : p \in Payloads} \ {NoValue}
            low == {p \in measured : p[key] <= t}
            high == {p \in measured : p[key] > t}
<1>2. /\ Samples(n) /\ DOMAIN n = values
      /\ \A T \in SUBSET values :
           SumFunctionOnSet(n, T) = SumFunctionOnSet(bargeIns, {p \in Payloads : p[key] \in T})
  BY <1>1, NumbersAreSamples
<1>3. values \subseteq Nat /\ IsFiniteSet(Payloads)
  BY PayloadsFinite
<1>4. \A p \in measured : p[key] \in values
  OBVIOUS
<1>5. {p \in Payloads : p[key] \in values} = measured
  OBVIOUS
<1>6. {p \in Payloads : p[key] \in {v \in values : v <= t}} = low
  OBVIOUS
<1>7. Count(n) = SumFunctionOnSet(bargeIns, measured)
  BY <1>2, <1>5 DEF Count, SumFunction
<1>8. UpTo(n, t) = SumFunctionOnSet(bargeIns, low)
  <2>1. {v \in values : v <= t} \in SUBSET values
    OBVIOUS
  <2>. QED BY <1>2, <1>6, <2>1 DEF UpTo
<1>9. Weighs(bargeIns, measured)
  BY <1>3, FS_Subset DEF Weighs, RepTypeOK
<1>10. low \in SUBSET measured /\ measured \ low = high
  BY <1>3, <1>4
<1>. HIDE DEF low, high
<1>11. /\ SumFunctionOnSet(bargeIns, measured)
            = SumFunctionOnSet(bargeIns, low) + SumFunctionOnSet(bargeIns, high)
       /\ SumFunctionOnSet(bargeIns, low) \in Nat /\ SumFunctionOnSet(bargeIns, measured) \in Nat
       /\ SumFunctionOnSet(bargeIns, high) \in Nat
  <2>1. high \in SUBSET measured
    BY <1>10
  <2>. QED BY <1>9, <1>10, <2>1, SumFacts
<1>12. Above(n, t) = SumFunctionOnSet(bargeIns, high)
  BY <1>7, <1>8, <1>11 DEF Above
<1>13. Breach(Percentile(n, 95), t) <=> 100 * Above(n, t) > (100 - 95) * Count(n)
  BY <1>2, BreachIsShare
<1>14. 100 - 95 = 5
  OBVIOUS
<1>. QED BY <1>1, <1>7, <1>12, <1>13, <1>14 DEF high

\* The turns are samples, and the gate means shares of its four inputs.
LEMMA GateShares ==
  ASSUME RepTypeOK
  PROVE  Samples(turns) /\ GateMeansShare
<1>1. Samples(turns)
  BY RepAssumption DEF RepTypeOK, Samples
<1>2. /\ "voiceP50" \in Failures <=> Breach(Percentile(turns, 50), 800)
      /\ "voiceP95" \in Failures <=> Breach(Percentile(turns, 95), 1400)
      /\ "bargeIn" \in Failures <=> Breach(Percentile(NumbersOf("cutoff_ms"), 95), 200)
      /\ "truncation" \in Failures <=> Breach(Percentile(NumbersOf("discarded_ms"), 95), 100)
  BY DEF Failures, Thresholds
<1>3. /\ Breach(Percentile(turns, 50), 800) <=> 100 * Above(turns, 800) > (100 - 50) * Count(turns)
      /\ Breach(Percentile(turns, 95), 1400) <=> 100 * Above(turns, 1400) > (100 - 95) * Count(turns)
  BY <1>1, BreachIsShare
<1>4. 100 - 50 = 50 /\ 100 - 95 = 5
  OBVIOUS
<1>5. ASSUME NEW f \in {<<"bargeIn", "cutoff_ms", 200>>, <<"truncation", "discarded_ms", 100>>}
      PROVE  LET measured == {p \in Payloads : p[f[2]] /= NoValue}
             IN f[1] \in Failures <=>
                  100 * SumFunctionOnSet(bargeIns, {p \in measured : p[f[2]] > f[3]})
                    > 5 * SumFunctionOnSet(bargeIns, measured)
  <2>. DEFINE measured == {p \in Payloads : p[f[2]] /= NoValue}
  <2>1. PICK S : S = measured
    OBVIOUS
  <2>2. f[1] \in Failures <=> Breach(Percentile(NumbersOf(f[2]), 95), f[3])
    BY <1>2
  <2>3. f[2] \in {"cutoff_ms", "discarded_ms"} /\ f[3] \in Nat
    OBVIOUS
  <2>4. PICK key \in {"cutoff_ms", "discarded_ms"}, t \in Nat : key = f[2] /\ t = f[3]
    BY <2>3
  <2>5. S = {p \in Payloads : p[key] /= NoValue}
    BY <2>1, <2>4
  <2>6. Breach(Percentile(NumbersOf(key), 95), t) <=>
          100 * SumFunctionOnSet(bargeIns, {p \in S : p[key] > t}) > 5 * SumFunctionOnSet(bargeIns, S)
    BY <2>5, KeyIsShare
  <2>. QED BY <2>1, <2>2, <2>4, <2>6
<1>. QED BY <1>1, <1>2, <1>3, <1>4, <1>5 DEF GateMeansShare

-----------------------------------------------------------------------------
(* The streak. *)

\* The rows of the call that the report counts as failures, and those it does not.
Failed == {i \in DOMAIN tools : tools[i].status \in FailureStatuses}
NotFound == {i \in DOMAIN tools : tools[i].status = "not_found"}

\* The streak is of results that the report counts, or that were not_found.
StreakInv == RepTypeOK /\ streak <= Cardinality(Failed) + Cardinality(NotFound)

\* One more row counts in one of the two, unless it is "ok".
LEMMA OneMoreRow ==
  ASSUME RepTypeOK, NEW status \in Statuses, NEW attempt \in 1..2,
         tools' = Append(tools, [status |-> status, attempt |-> attempt])
  PROVE  /\ tools' \in Seq([status : Statuses, attempt : 1..2])
         /\ Cardinality(Failed) \in Nat /\ Cardinality(NotFound) \in Nat
         /\ Cardinality(Failed') \in Nat /\ Cardinality(NotFound') \in Nat
         /\ status # "ok" => Cardinality(Failed') + Cardinality(NotFound')
                               = Cardinality(Failed) + Cardinality(NotFound) + 1
<1>1. PICK n \in Nat : n = Len(tools)
  BY DEF RepTypeOK
<1>2. /\ DOMAIN tools = 1..n /\ DOMAIN tools' = 1..(n + 1)
      /\ \A i \in 1..n : tools'[i] = tools[i]
      /\ tools'[n + 1].status = status
      /\ tools' \in Seq([status : Statuses, attempt : 1..2])
  BY <1>1 DEF RepTypeOK
<1>3. /\ Failed' = IF status \in FailureStatuses THEN Failed \cup {n + 1} ELSE Failed
      /\ NotFound' = IF status = "not_found" THEN NotFound \cup {n + 1} ELSE NotFound
      /\ n + 1 \notin Failed /\ n + 1 \notin NotFound
      /\ Failed \in SUBSET (1..n) /\ NotFound \in SUBSET (1..n)
  BY <1>2 DEF Failed, NotFound, FailureStatuses
<1>4. IsFiniteSet(Failed) /\ IsFiniteSet(NotFound)
  <2>1. PICK S : S = 1..n
    OBVIOUS
  <2>2. IsFiniteSet(S)
    BY <2>1, FS_Interval
  <2>3. Failed \in SUBSET S /\ NotFound \in SUBSET S
    BY <1>3, <2>1
  <2>. QED BY <2>2, <2>3, FS_Subset
<1>5. /\ Cardinality(Failed \cup {n + 1}) = Cardinality(Failed) + 1
      /\ Cardinality(NotFound \cup {n + 1}) = Cardinality(NotFound) + 1
  BY <1>3, <1>4, FS_AddElement
<1>6. Cardinality(Failed) \in Nat /\ Cardinality(NotFound) \in Nat
  BY <1>4, FS_CardinalityType
<1>7. /\ Cardinality(Failed') = IF status \in FailureStatuses THEN Cardinality(Failed) + 1 ELSE Cardinality(Failed)
      /\ Cardinality(NotFound') = IF status = "not_found" THEN Cardinality(NotFound) + 1 ELSE Cardinality(NotFound)
  BY <1>3, <1>5
<1>. QED BY <1>2, <1>6, <1>7 DEF Statuses, FailureStatuses

\* Rows are added and the streak counted: no step lets the streak run ahead.
LEMMA StreakInvariant == RepSpec => []StreakInv
<1>1. ASSUME RepInit PROVE StreakInv
  <2>1. Failed = {} /\ NotFound = {} /\ tools \in Seq([status : Statuses, attempt : 1..2])
    BY <1>1 DEF RepInit, Failed, NotFound
  <2>2. Cardinality({}) = 0
    BY FS_EmptySet
  <2>. QED BY <1>1, <2>1, <2>2 DEF RepInit, StreakInv, RepTypeOK
<1>2. ASSUME StreakInv, [RepNext]_repVars PROVE StreakInv'
  <2>1. CASE TurnStored
    BY <1>2, <2>1 DEF TurnStored, StreakInv, RepTypeOK, Failed, NotFound
  <2>2. CASE BargedIn
    BY <1>2, <2>2 DEF BargedIn, StreakInv, RepTypeOK, Failed, NotFound
  <2>3. CASE ToolRan
    <3>1. PICK status \in Statuses, attempt \in 1..2 :
            /\ tools' = Append(tools, [status |-> status, attempt |-> attempt])
            /\ streak' = IF status = "ok" THEN 0 ELSE streak + 1
      BY <2>3 DEF ToolRan
    <3>2. RepTypeOK /\ streak \in Nat /\ streak <= Cardinality(Failed) + Cardinality(NotFound)
      BY <1>2 DEF StreakInv, RepTypeOK
    <3>3. /\ tools' \in Seq([status : Statuses, attempt : 1..2])
          /\ Cardinality(Failed) \in Nat /\ Cardinality(NotFound) \in Nat
          /\ Cardinality(Failed') \in Nat /\ Cardinality(NotFound') \in Nat
          /\ status # "ok" => Cardinality(Failed') + Cardinality(NotFound')
                                = Cardinality(Failed) + Cardinality(NotFound) + 1
      BY <3>1, <3>2, OneMoreRow
    <3>4. streak' \in Nat /\ streak' <= Cardinality(Failed') + Cardinality(NotFound')
      BY <3>1, <3>2, <3>3
    <3>5. UNCHANGED <<turns, bargeIns>>
      BY <2>3 DEF ToolRan
    <3>6. RepTypeOK'
      BY <3>2, <3>3, <3>4, <3>5 DEF RepTypeOK
    <3>. QED BY <3>4, <3>6 DEF StreakInv
  <2>4. CASE UNCHANGED repVars
    BY <1>2, <2>4 DEF repVars, StreakInv, RepTypeOK, Failed, NotFound
  <2>. QED BY <1>2, <2>1, <2>2, <2>3, <2>4 DEF RepNext
<1>. QED BY <1>1, <1>2, PTL DEF RepSpec

\* For any samples, thresholds' keys and numbers of rows: the gate fails exactly
\* on the share its percentiles stand for, the header's median is not below the
\* gate's, and the streak of a call shows in the report (metrics.py, dashboard.py).
THEOREM GateCorrect == RepSpec => []GateOK
<1>1. ASSUME StreakInv PROVE GateOK
  <2>1. RepTypeOK
    BY <1>1 DEF StreakInv
  <2>2. ToolStats(tools).failures = Cardinality(Failed)
    BY DEF ToolStats, Failed
  <2>3. StreakShowsInReport
    BY <1>1, <2>2 DEF StreakInv, StreakShowsInReport, NotFound
  <2>. QED BY <2>1, <2>3, GateShares, HeaderAbove DEF GateOK
<1>. QED BY <1>1, StreakInvariant, PTL

=============================================================================
