----------------------------- MODULE DemoReplay ----------------------------
(***************************************************************************)
(* The showcase: one scripted call that POST /api/demo/reset-and-replay    *)
(* deletes, writes again and publishes (apps/api/demo/replay.py,           *)
(* routers/demo.py), while the readiness probe (routers/health.py) asks    *)
(* whether it is there. Requests run at the same time, each in one         *)
(* database transaction that is committed when the request is over.        *)
(***************************************************************************)
EXTENDS Integers, Sequences, SequencesExt

CONSTANTS Replays    \* the requests

VARIABLES
  stored,    \* committed: who wrote the fixture call, and how many parts of it
  replay,    \* a request: what it does, and the parts its transaction wrote
  feed,      \* the requests in the order their events were published
  edited     \* there is an override of the fixture client's configuration

demoVars == <<stored, replay, feed, edited>>

\* The scripted call, in the order persist writes its parts.
FixtureReplay == <<"call", "turns", "tool_invocations", "events", "analysis", "outcome">>
Whole == Len(FixtureReplay)
Nobody == [by |-> "nobody", parts |-> 0]

At(r, s) == replay[r].at = s
Holds(r) == replay[r].at \in {"writes", "published"}    \* the fixture's row
Goes(r, s) == replay' = [replay EXCEPT ![r].at = s]

DemoInit ==
  /\ stored = Nobody
  /\ replay = [r \in Replays |-> [at |-> "idle", parts |-> 0]]
  /\ feed = <<>>
  /\ edited = FALSE

\* The configuration editor (replace_fixture_client_config).
EditConfig == ~edited /\ edited' = TRUE /\ UNCHANGED <<stored, replay, feed>>

\* Mutant: the deletion is committed on its own.
ResetAndReplaySplit(r) ==
  /\ At(r, "idle")
  /\ edited' = FALSE
  /\ stored' = Nobody
  /\ Goes(r, IF \E q \in Replays : Holds(q) THEN "waits" ELSE "writes")
  /\ UNCHANGED feed

\* The override goes first. Then the delete, or the insert behind a delete that
\* found nothing, waits for a transaction that has the fixture's row.
ResetAndReplay(r) ==
  /\ At(r, "idle")
  /\ edited' = FALSE
  /\ Goes(r, IF \E q \in Replays : Holds(q) THEN "waits" ELSE "writes")
  /\ UNCHANGED <<stored, feed>>

Persist(r) ==
  /\ At(r, "writes") /\ replay[r].parts < Whole
  /\ replay' = [replay EXCEPT ![r].parts = @ + 1]
  /\ UNCHANGED <<stored, feed, edited>>

PublishReplay(r) ==
  /\ At(r, "writes") /\ replay[r].parts = Whole
  /\ feed' = Append(feed, r)
  /\ Goes(r, "published")
  /\ UNCHANGED <<stored, edited>>

\* The call's SID is unique: those who waited fail on the row committed now.
CommitReplay(r) ==
  /\ At(r, "published")
  /\ stored' = [by |-> r, parts |-> replay[r].parts]
  /\ replay' = [q \in Replays |->
                  CASE q = r -> [replay[q] EXCEPT !.at = "done"]
                    [] At(q, "waits") -> [replay[q] EXCEPT !.at = "lost"]
                    [] OTHER -> replay[q]]
  /\ UNCHANGED <<feed, edited>>

\* A statement or the commit fails: rolled back, and one who waited goes on.
ReplayFails(r) ==
  /\ Holds(r)
  /\ \/ /\ \A q \in Replays : ~At(q, "waits")
        /\ Goes(r, "failed")
     \/ \E q \in Replays :
          /\ At(q, "waits")
          /\ replay' = [replay EXCEPT ![r].at = "failed", ![q].at = "writes"]
  /\ UNCHANGED <<stored, feed, edited>>

DemoNext ==
  \/ EditConfig
  \/ \E r \in Replays :
       \/ ResetAndReplay(r) \/ Persist(r) \/ PublishReplay(r)
       \/ CommitReplay(r) \/ ReplayFails(r)

DemoSpec == DemoInit /\ [][DemoNext]_demoVars

FixtureDataReady == stored /= Nobody    \* what /health/ready reports

----------------------------------------------------------------------------
(* Properties.                                                               *)

\* Types, and one transaction at a time that holds the fixture's row.
DemoTypeOK ==
  /\ stored = Nobody \/ (stored.by \in Replays /\ stored.parts \in 1..Whole)
  /\ \A r \in Replays :
       /\ replay[r].at \in {"idle", "waits", "writes", "published", "done", "lost", "failed"}
       /\ replay[r].parts \in 0..Whole
  /\ \A q, r \in Replays : Holds(q) /\ Holds(r) => q = r
  /\ feed \in Seq(Replays) /\ edited \in BOOLEAN

\* Whoever finds the fixture ready finds the whole call: its rows become
\* visible together (persist in the request's transaction).
ReadyMeansWhole == FixtureDataReady => stored.parts = Whole

\* Once ready, the service never reports that it is not, whatever requests
\* overlap or fail (reset_fixture and persist commit together).
StaysReady == [][FixtureDataReady => FixtureDataReady']_demoVars

\* A request whose insert lost against another's never reaches a viewer
\* (events are published after persist has returned).
LoserPublishesNothing ==
  \A r \in Replays : replay[r].at \in {"waits", "lost"} => ~Contains(feed, r)

\* When no request is running, what viewers were shown last is what is stored,
\* unless that very request failed after it had published (publication comes
\* before the commit).
LastShownIsStored ==
  (\A r \in Replays : ~Holds(r) /\ ~At(r, "waits")) /\ feed /= <<>> =>
    stored.by = Last(feed) \/ At(Last(feed), "failed")

\* The showcase under overlapping and failing requests: what the probe and the
\* viewers are shown is one whole call, and stays (replay.py:315-333).
ReplayOK ==
  /\ [](DemoTypeOK /\ ReadyMeansWhole /\ LoserPublishesNothing /\ LastShownIsStored)
  /\ StaysReady

============================================================================
