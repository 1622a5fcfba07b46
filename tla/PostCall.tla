------------------------------ MODULE PostCall -----------------------------
(***************************************************************************)
(* After the call: the Celery tasks that analyse it and mirror it into the *)
(* CRM (apps/api/workers/tasks.py, celery_app.py, analyze.py, crm_sync.py, *)
(* tools/crm.py). The calls are of one phone number of one client.         *)
(*                                                                         *)
(* A task is acknowledged when it ends, well or badly, and delivered again *)
(* when its worker dies before that (acks_late, reject_on_worker_lost). It *)
(* runs in one database transaction, committed at its end.                 *)
(*                                                                         *)
(* External: the CRM acts on a write, or does not, before the client stops *)
(* waiting for the answer.                                                 *)
(***************************************************************************)
EXTENDS Naturals

CONSTANTS
  Calls,
  Analysed,         \* those whose sync is queued already, the others' analysis is
  MaxRetries,       \* MAX_RETRIES
  MaxLost           \* bound: workers that die

ASSUME PostAssumption ==
  Analysed \subseteq Calls /\ MaxRetries \in Nat /\ MaxLost \in Nat

\* How a request ends for its caller, after the retries of request_with_retry if
\* it has them: "refused" is a status of 400 or more, which a provider that
\* acted may also answer, "raised" a transport error or a timeout.
Ends == {"ok", "refused", "raised"}
EndsIf(acted) == IF acted THEN Ends ELSE Ends \ {"ok"}

VARIABLES
  hubspot,    \* HUBSPOT_ACCESS_TOKEN is set
  task,       \* task -> where it is, how often it was retried, whether a
              \* contact is known to it, and whether it read an analysis
  analyses,   \* call -> its row in call_analyses
  mirror,     \* contacts.crm_id of the number is set
  contacts,   \* external: contacts of the number in the CRM, 2 for several
  logs,       \* external: call -> engagements logged (2 for several), one without a summary
  lost,       \* workers that died
  redone,     \* history: calls with a task delivered again, or retried after its log
  excuse      \* history: why the CRM may hold a second contact

vars == <<hubspot, task, analyses, mirror, contacts, logs,
          lost, redone, excuse>>

\* Each delivery of the analysis may chain a sync.
Analyze(c) == <<"analyze", c, 1>>
Syncs == {"sync"} \X Calls \X (1..(MaxLost + 1))
Tasks == {Analyze(c) : c \in Calls} \cup Syncs
CallOf(t) == t[2]

Running == {"queued", "chain", "write", "log", "upsert"}
Settled == {"none", "done", "failed"}

Fresh(at, retries) == [at |-> at, retries |-> retries, known |-> FALSE, summary |-> FALSE]

PostInit ==
  /\ hubspot \in BOOLEAN
  /\ task = [t \in Tasks |-> Fresh(
       CASE t[1] = "analyze" -> IF CallOf(t) \in Analysed THEN "done" ELSE "queued"
         [] OTHER -> IF CallOf(t) \in Analysed /\ t[3] = 1 THEN "queued" ELSE "none", 0)]
  /\ analyses = [c \in Calls |-> IF c \in Analysed THEN "scored" ELSE "none"]
  /\ mirror = FALSE /\ contacts = 0
  /\ logs = [c \in Calls |-> [n |-> 0, bare |-> FALSE]]
  /\ lost = 0
  /\ redone = {}
  /\ excuse = FALSE

Moves(t, at) == task' = [task EXCEPT ![t].at = at]
Redone(c) == redone' = redone \cup {c}

Settles(t, at) == task' = [task EXCEPT ![t] = Fresh(at, 0)]

\* Mutant: the retry is not counted.
TaskRetryUncounted(t) == task' = [task EXCEPT ![t] = Fresh("queued", @.retries)]

\* raise self.retry(...): another delivery, or the end of the task.
TaskRetry(t) ==
  task' = [task EXCEPT ![t] = IF @.retries < MaxRetries THEN Fresh("queued", @.retries + 1)
                                                        ELSE Fresh("failed", 0)]

-----------------------------------------------------------------------------
(* analyze_call *)

\* call_claude: an answer without a valid tool use, and every failure of the
\* request, is FAILED_ANALYSIS. Only a body that is no JSON is raised, as is
\* what the database raises. The upsert replaces whatever is stored.
AnalyzeCall(c) ==
  /\ task[Analyze(c)].at = "queued"
  /\ \/ /\ \E row \in {"scored", "unscored"} : analyses' = [analyses EXCEPT ![c] = row]
        /\ Moves(Analyze(c), "chain")
     \/ TaskRetry(Analyze(c)) /\ UNCHANGED analyses
  /\ UNCHANGED <<hubspot, mirror, contacts, logs, lost, redone, excuse>>

\* A new message of the broker: they are numbered in the order they are sent.
Unsent(c) == {s \in Syncs : CallOf(s) = c /\ task[s].at = "none"}
Queued(c) == {s \in Unsent(c) : \A t \in Unsent(c) : s[3] <= t[3]}

\* sync_crm.delay, outside the try: when the broker refuses, the task fails.
\* Mutant: the sync is queued before the analysis is committed.
ChainSyncEarly(c) ==
  /\ task[Analyze(c)].at \in {"chain", "queued"}
  /\ \E s \in Queued(c) :
       task' = [task EXCEPT ![s].at = "queued",
                            ![Analyze(c)].at = IF @ = "chain" THEN "done" ELSE @]
  /\ UNCHANGED <<hubspot, analyses, mirror, contacts, logs, lost, redone, excuse>>

\* Mutant: it is inside, and its failure retries the analysis.
ChainSyncInside(c) ==
  /\ task[Analyze(c)].at = "chain"
  /\ \/ \E s \in Queued(c) :
          task' = [task EXCEPT ![s].at = "queued", ![Analyze(c)].at = "done"]
     \/ TaskRetry(Analyze(c))
  /\ UNCHANGED <<hubspot, analyses, mirror, contacts, logs, lost, redone, excuse>>

ChainSync(c) ==
  /\ task[Analyze(c)].at = "chain"
  /\ \/ \E s \in Queued(c) :
          task' = [task EXCEPT ![s].at = "queued", ![Analyze(c)].at = "done"]
     \/ Settles(Analyze(c), "failed")
  /\ UNCHANGED <<hubspot, analyses, mirror, contacts, logs, lost, redone, excuse>>

-----------------------------------------------------------------------------
(* sync_crm: search, write the contact, log the call, mirror the id. *)

\* The analysis is read, and find_by_phone asked: a status of 400 or more reads
\* as "no such contact". NullCRM has no ids to log or to mirror.
Reads(s, at, known) ==
  task' = [task EXCEPT ![s] = [at |-> at, retries |-> @.retries, known |-> known,
                               summary |-> analyses[CallOf(s)] # "none"]]

FindByPhone(s) ==
  /\ task[s].at = "queued"
  /\ \/ ~hubspot /\ Reads(s, "upsert", FALSE) /\ UNCHANGED excuse
     \/ /\ hubspot
        /\ \E answer \in Ends :
             IF answer = "raised" THEN TaskRetry(s) /\ UNCHANGED excuse
             ELSE /\ Reads(s, "write", answer = "ok" /\ contacts > 0)
                  /\ excuse' = (excuse \/ (answer # "ok" /\ contacts > 0))
  /\ UNCHANGED <<hubspot, analyses, mirror, contacts, logs, lost, redone>>

\* Another sync of the number has searched and will create too.
Races(s) == \E t \in Syncs \ {s} : task[t].at = "write" /\ ~task[t].known

\* upsert_contact, the POST of a new one: sent once, and raised unless "ok".
CreateContact(s) ==
  /\ task[s].at = "write" /\ ~task[s].known
  /\ \E acted \in BOOLEAN : \E answer \in EndsIf(acted) :
       /\ contacts' = IF acted /\ contacts < 2 THEN contacts + 1 ELSE contacts
       /\ excuse' = (excuse \/ (acted /\ Races(s)))
       /\ IF answer = "ok" THEN task' = [task EXCEPT ![s] = [@ EXCEPT !.at = "log", !.known = TRUE]]
                            ELSE TaskRetry(s)
  /\ UNCHANGED <<hubspot, analyses, mirror, logs, lost, redone>>

\* The PATCH of one that was found: a refusal returns it as it is.
PatchContact(s) ==
  /\ task[s].at = "write" /\ task[s].known
  /\ \E answer \in Ends :
       IF answer = "raised" THEN TaskRetry(s) ELSE Moves(s, "log")
  /\ UNCHANGED <<hubspot, analyses, mirror, contacts, logs, lost, redone, excuse>>

Logged(s) ==
  logs' = [logs EXCEPT ![CallOf(s)] = [n |-> IF @.n < 2 THEN @.n + 1 ELSE 2, bare |-> @.bare \/ ~task[s].summary]]

\* log_call: sent once; a refusal is swallowed, an exception retries the task.
LogCall(s) ==
  /\ task[s].at = "log"
  /\ \E acted \in BOOLEAN : \E answer \in EndsIf(acted) :
       /\ IF acted THEN Logged(s) ELSE UNCHANGED logs
       /\ IF answer = "raised" /\ acted THEN Redone(CallOf(s)) ELSE UNCHANGED redone
       /\ IF answer = "raised" THEN TaskRetry(s) ELSE Moves(s, "upsert")
  /\ UNCHANGED <<hubspot, analyses, mirror, contacts, lost, excuse>>

\* The local contacts row and the commit. A commit that fails retries a task
\* whose call has been logged.
MirrorContact(s) ==
  /\ task[s].at = "upsert"
  /\ \/ /\ mirror' = (mirror \/ task[s].known)
        /\ task' = [task EXCEPT ![s] = Fresh("done", @.retries)]
        /\ UNCHANGED redone
     \/ TaskRetry(s) /\ Redone(CallOf(s)) /\ UNCHANGED mirror
  /\ UNCHANGED <<hubspot, analyses, contacts, logs, lost, excuse>>

-----------------------------------------------------------------------------
(* The worker: it dies, or the soft time limit ends its task. *)

\* A task that had ended but was not acknowledged is delivered again too.
WorkerLost(t) ==
  /\ lost < MaxLost
  /\ task[t].at \in Running \cup {"done"}
  /\ task' = [task EXCEPT ![t] = Fresh("queued", @.retries)]
  /\ Redone(CallOf(t))
  /\ lost' = lost + 1
  /\ UNCHANGED <<hubspot, analyses, mirror, contacts, logs, excuse>>

SoftTimeLimit(t) ==
  /\ task[t].at \in {"queued", "write", "log"}
  /\ Settles(t, "failed")
  /\ UNCHANGED <<hubspot, analyses, mirror, contacts, logs, lost, redone, excuse>>

SyncCrm(s) == \/ FindByPhone(s) \/ CreateContact(s) \/ PatchContact(s)
              \/ LogCall(s) \/ MirrorContact(s)

PostNext ==
  \/ \E c \in Calls : AnalyzeCall(c) \/ ChainSync(c)
  \/ \E s \in Syncs : SyncCrm(s)
  \/ \E t \in Tasks : WorkerLost(t) \/ SoftTimeLimit(t)

\* A worker takes what is queued and goes on with it.
PostSpec ==
  /\ PostInit
  /\ [][PostNext]_vars
  /\ \A c \in Calls : WF_vars(AnalyzeCall(c)) /\ WF_vars(ChainSync(c))
  /\ \A s \in Syncs : WF_vars(SyncCrm(s))

-----------------------------------------------------------------------------
(* Properties *)

PostTypeOK ==
  /\ hubspot \in BOOLEAN
  /\ task \in [Tasks -> [at : Running \cup Settled, retries : 0..MaxRetries,
                      known : BOOLEAN, summary : BOOLEAN]]
  /\ analyses \in [Calls -> {"none", "scored", "unscored"}]
  /\ mirror \in BOOLEAN /\ contacts \in 0..2
  /\ mirror \/ (\E s \in Syncs : task[s].known) => contacts > 0
  /\ logs \in [Calls -> [n : 0..2, bare : BOOLEAN]] /\ (contacts = 0 => \A c \in Calls : logs[c].n = 0)
  /\ lost \in 0..MaxLost

\* "so the CRM gets the summary rather than a placeholder" (tasks.py:7-8): no
\* call is logged at the CRM without its analysis, whatever is redelivered.
LogCarriesSummary == \A c \in Calls : ~logs[c].bare

\* A call is logged again only by a task that was delivered again, or retried
\* after an unanswered log or a failed commit: nothing retries the POST of the
\* engagement by itself (crm.py:118-122).
ExtraLogsWereRedeliveries == \A c \in Calls : logs[c].n > 1 => c \in redone

\* "CRM sync dedupes on E.164" (celery_app.py:9): the number gets a second
\* contact only when a search failed, or when two syncs searched before either
\* created. A lost answer, a retry or a redelivery alone makes none.
SecondContactExplained == contacts > 1 => excuse

\* What the CRM holds of the calls: types, every engagement with its summary, and
\* second contacts and engagements only where something went wrong
\* (crm_sync.py:7-9, crm.py:123-224).
CrmMirrorOK ==
  PostTypeOK /\ LogCarriesSummary /\ ExtraLogsWereRedeliveries /\ SecondContactExplained

\* "analysis upserts" (celery_app.py:9): a scored analysis is replaced by the
\* failed one only by a delivery after a worker died.
ScoreLostOnlyByRerun ==
  [][\A c \in Calls : analyses[c] = "scored" /\ analyses'[c] # "scored" => lost > 0]_vars

\* Every queued analysis ends, and every sync it chains: the retries of a task
\* are counted (tasks.py:29), and workers do not die for ever.
EveryTaskSettles == <>[]\A t \in Tasks : task[t].at \in Settled

\* "Both writes dedupe ... That is what makes this safe to redeliver"
\* (crm_sync.py:7-9). It does not hold: the engagement has no key.
CallLoggedOnce == \A c \in Calls : logs[c].n <= 1

=============================================================================
