------------------------------ MODULE Recording ----------------------------
(***************************************************************************)
(* The recording of a call: ordered once after the webhook has answered    *)
(* (apps/api/telephony/twiml.py, recording.py), reported by Twilio's       *)
(* callback (status_webhook.py, recording_status), stored if the call has  *)
(* consent (db/repository.py, set_recording_url) and fetched for the       *)
(* dashboard (routers/dashboard.py, get_call_recording).                   *)
(*                                                                         *)
(* Twilio is external: it may act on an order whose answer is lost, it     *)
(* calls back once per recording, and callbacks overtake each other.       *)
(***************************************************************************)
EXTENDS Integers, Sequences

VARIABLES
  row,      \* the call: whether it exists, consent_captured, recording_url
  order,    \* the background task that starts the recording
  remote,   \* external: recordings at Twilio, by number, and their state
  reports,  \* external: callbacks on their way
  live      \* external: the call is on

recVars == <<row, order, remote, reports, live>>

NoUrl == 0

\* Whether the environment records calls: twilio_recording_enabled.
RecInit ==
  /\ row = [exists |-> FALSE, consent |-> FALSE, url |-> NoUrl]
  /\ order \in {"enabled", "disabled"}
  /\ remote = <<>>
  /\ reports = {}
  /\ live = FALSE

\* The call is routed: its row is written with consent, which the answer
\* announces, and the recording is scheduled behind the answer.
InboundVoice ==
  /\ ~row.exists
  /\ row' = [exists |-> TRUE, consent |-> TRUE, url |-> NoUrl]
  /\ live' = TRUE
  /\ order' = IF order = "enabled" THEN "scheduled" ELSE order
  /\ UNCHANGED <<remote, reports>>

\* One POST. Twilio records, whether its answer arrives or not, or refuses, as
\* it does once the call is over.
StartCallRecording ==
  /\ order = "scheduled"
  /\ \/ live /\ remote' = Append(remote, "runs") /\ order' \in {"started", "failed"}
     \/ remote' = remote /\ order' = "failed"
  /\ UNCHANGED <<row, reports, live>>

CallOver == live /\ live' = FALSE /\ UNCHANGED <<row, order, remote, reports>>

\* Twilio has the media ready, or has none: an absent recording has its URL too.
TwilioReports ==
  /\ \E i \in DOMAIN remote, s \in {"completed", "absent"} :
       /\ ~live /\ remote[i] = "runs"
       /\ remote' = [remote EXCEPT ![i] = s]
       /\ reports' = reports \union {[recording |-> i, status |-> s]}
  /\ UNCHANGED <<row, order, live>>

\* Mutant: the status of the callback is not looked at.
StoresAny(report) == row.exists /\ row.consent

\* recording_status and set_recording_url: of a known call with consent, the
\* completed recording.
Stores(report) == report.status = "completed" /\ row.exists /\ row.consent

RecordingStatus ==
  /\ \E report \in reports :
       /\ reports' = reports \ {report}
       /\ row' = IF Stores(report) THEN [row EXCEPT !.url = report.recording] ELSE row
  /\ UNCHANGED <<order, remote, live>>

\* What get_call_recording may answer: 404 without consent or URL or where
\* Twilio has no media, 502 when Twilio does not answer or refuses.
PlaybackAnswers ==
  IF ~row.exists \/ ~row.consent \/ row.url = NoUrl THEN {404}
  ELSE IF remote[row.url] = "completed" THEN {200, 502} ELSE {404, 502}

RecNext ==
  \/ InboundVoice \/ StartCallRecording \/ CallOver \/ TwilioReports
  \/ RecordingStatus

RecSpec == RecInit /\ [][RecNext]_recVars

\* Callbacks arrive; the database accepts the update.
RecFairness == WF_recVars(RecordingStatus)

----------------------------------------------------------------------------
(* Properties.                                                               *)

\* A call is recorded at most once, also when the answer to the order is lost
\* (start_call_recording is a single attempt).
OneRecordingPerCall == Len(remote) <= 1

\* What the call row offers for playback is a recording Twilio has, whatever
\* else it reported (recording_status ignores all but completed).
StoredIsPlayable == row.url /= NoUrl => 200 \in PlaybackAnswers

\* Every completed recording ends up on the call (create_call captures the
\* consent that set_recording_url asks for).
CompletedIsStored ==
  (\E i \in DOMAIN remote : remote[i] = "completed") ~> row.url /= NoUrl

\* One recording per call, playable once it is on the call, and on the call once
\* it is completed (recording.py:13-55, status_webhook.py:75-100).
RecordingOK == [](OneRecordingPerCall /\ StoredIsPlayable) /\ CompletedIsStored

============================================================================
