---------------------------- MODULE PostCallProofs ----------------------------
(***************************************************************************)
(* What the CRM holds after the calls of a number, for any number of them, *)
(* of retries and of workers that die: every engagement has its summary,   *)
(* second engagements and contacts are there only where something went     *)
(* wrong, and a scored analysis is replaced only after a worker died.      *)
(***************************************************************************)
EXTENDS PostCall, TLAPS

TaskStates == [at : Running \cup Settled, retries : 0..MaxRetries,
               known : BOOLEAN, summary : BOOLEAN]

-----------------------------------------------------------------------------
(* The invariant *)

\* A sync was chained by an analysis that is stored, and a task that was
\* delivered once finds none.
AnalysisInv ==
  /\ \A s \in Syncs : task[s].at # "none" => analyses[CallOf(s)] # "none"
  /\ \A c \in Calls : task[Analyze(c)].at = "chain" => analyses[c] # "none"
  /\ \A c \in Calls : task[Analyze(c)].at = "queued" /\ lost = 0 => analyses[c] = "none"

\* What a sync has learned by the time it writes, and that it creates a contact
\* beside another one only with an excuse.
SyncInv ==
  /\ \A s \in Syncs : task[s].at \in {"write", "log"} => task[s].summary
  /\ \A s \in Syncs : task[s].at = "log" => task[s].known
  /\ \A s \in Syncs : task[s].at = "write" /\ contacts > 0 /\ ~excuse => task[s].known

\* A call no task of which came twice has one sync, which has logged it at most
\* once and does not log it again.
LogInv ==
  \A c \in Calls \ redone :
    /\ logs[c].n <= 1
    /\ \A s, t \in Syncs : CallOf(s) = c /\ CallOf(t) = c
                             /\ task[s].at # "none" /\ task[t].at # "none" => s = t
    /\ task[Analyze(c)].at \in {"queued", "chain"} =>
         \A s \in Syncs : CallOf(s) = c => task[s].at = "none"
    /\ logs[c].n > 0 =>
         /\ task[Analyze(c)].at \notin {"queued", "chain"}
         /\ \A s \in Syncs : CallOf(s) = c => task[s].at \notin {"queued", "write", "log"}

PostInv ==
  /\ PostTypeOK
  /\ AnalysisInv
  /\ SyncInv
  /\ LogInv
  /\ LogCarriesSummary
  /\ SecondContactExplained

-----------------------------------------------------------------------------
(* Tasks *)

\* The tasks: one analysis per call, and the syncs, each of one call.
LEMMA TaskNames ==
  /\ \A c \in Calls : Analyze(c) \in Tasks /\ CallOf(Analyze(c)) = c /\ Analyze(c) \notin Syncs
  /\ \A c, d \in Calls : Analyze(c) = Analyze(d) => c = d
  /\ Syncs \subseteq Tasks /\ \A s \in Syncs : CallOf(s) \in Calls
  /\ \A t \in Tasks : t \in Syncs \/ \E c \in Calls : t = Analyze(c)
<1>1. \A s \in Syncs : s[1] = "sync" /\ CallOf(s) \in Calls
  BY DEF Syncs, CallOf
<1>2. \A c \in Calls : Analyze(c)[1] = "analyze" /\ Analyze(c)[2] = c
  BY DEF Analyze
<1>. QED BY <1>1, <1>2 DEF Tasks, CallOf

\* The ways a task's record is replaced: by a fresh one, or by one that is
\* somewhere else.
LEMMA Records ==
  \A at \in Running \cup Settled, retries \in 0..MaxRetries :
    /\ Fresh(at, retries) \in TaskStates /\ Fresh(at, retries).at = at
    /\ Fresh(at, retries).known = FALSE /\ Fresh(at, retries).summary = FALSE
  BY DEF Fresh, TaskStates

LEMMA MovesRecord ==
  ASSUME PostTypeOK, NEW t \in Tasks, NEW at \in Running \cup Settled, Moves(t, at)
  PROVE  \E v \in TaskStates : /\ task' = [task EXCEPT ![t] = v] /\ v.at = at
                               /\ v.known <=> task[t].known
                               /\ v.summary <=> task[t].summary
<1>. DEFINE v == [task[t] EXCEPT !.at = at]
<1>1. task[t] \in TaskStates
  BY DEF PostTypeOK, TaskStates
<1>2. v \in TaskStates /\ v.at = at
  BY <1>1 DEF TaskStates
<1>3. (v.known <=> task[t].known) /\ (v.summary <=> task[t].summary)
  BY <1>1 DEF TaskStates
<1>4. task' = [task EXCEPT ![t] = v]
  BY DEF Moves
<1>. QED BY <1>2, <1>3, <1>4

\* A retry is queued or, when none is left, failed; either way the task starts
\* from nothing (tasks.py:43-45).
LEMMA RetryRecord ==
  ASSUME PostTypeOK, NEW t \in Tasks, TaskRetry(t)
  PROVE  \E v \in TaskStates : /\ task' = [task EXCEPT ![t] = v]
                               /\ v.at \in {"queued", "failed"} /\ ~v.known
<1>1. task[t].retries \in 0..MaxRetries /\ MaxRetries \in Nat
  BY PostAssumption DEF PostTypeOK
<1>2. CASE task[t].retries < MaxRetries
  <2>1. task[t].retries + 1 \in 0..MaxRetries
    BY <1>1, <1>2
  <2>. DEFINE w == Fresh("queued", task[t].retries + 1)
  <2>3. w \in TaskStates /\ w.at = "queued" /\ w.known = FALSE
    BY <2>1, Records DEF Running
  <2>4. task' = [task EXCEPT ![t] = w]
    BY <1>2 DEF TaskRetry
  <2>. QED BY <2>3, <2>4
<1>3. CASE ~(task[t].retries < MaxRetries)
  <2>1. 0 \in 0..MaxRetries
    BY <1>1, <1>3
  <2>. DEFINE w == Fresh("failed", 0)
  <2>3. w \in TaskStates /\ w.at = "failed" /\ w.known = FALSE
    BY <2>1, Records DEF Settled
  <2>4. task' = [task EXCEPT ![t] = w]
    BY <1>3 DEF TaskRetry
  <2>. QED BY <2>3, <2>4
<1>. QED BY <1>2, <1>3

\* A step of one sync keeps the invariant of the tasks if it has learned what
\* its new state needs, makes no contact another one is about to make, and logs
\* a call that came once when nothing of it can log again.
LEMMA SyncMoves ==
  ASSUME PostInv, NEW s \in Syncs, NEW v \in TaskStates, task' = [task EXCEPT ![s] = v],
         task[s].at # "none", UNCHANGED analyses, lost' = lost \/ lost' # 0,
         redone \subseteq redone', excuse => excuse',
         contacts' \in 0..2, contacts' >= contacts,
         v.at \in {"write", "log"} => v.summary,
         v.at = "log" => v.known,
         v.at = "write" /\ contacts' > 0 /\ ~excuse' => v.known,
         v.known => contacts' > 0,
         contacts' > 0 /\ contacts = 0 /\ ~excuse' => \A t \in Syncs \ {s} : task[t].at = "write" => task[t].known,
         \A c \in Calls \ {CallOf(s)} : logs'[c].n = logs[c].n,
         CallOf(s) \notin redone' =>
           /\ logs'[CallOf(s)].n \in 0..1
           /\ v.at \in {"queued", "write", "log"} => logs'[CallOf(s)].n = 0
  PROVE  /\ task' \in [Tasks -> TaskStates]
         /\ \A t \in Syncs : task'[t].known => contacts' > 0
         /\ AnalysisInv' /\ SyncInv' /\ LogInv'
<1>1. /\ s \in Tasks /\ task \in [Tasks -> TaskStates] /\ CallOf(s) \in Calls
      /\ contacts \in 0..2
  BY TaskNames DEF PostInv, PostTypeOK, TaskStates
<1>2. task' \in [Tasks -> TaskStates] /\ \A t \in Tasks : task'[t] = IF t = s THEN v ELSE task[t]
  BY <1>1
<1>3. \A c \in Calls : task'[Analyze(c)] = task[Analyze(c)]
  BY <1>2, TaskNames
<1>4. \A t \in Syncs : task'[t] = IF t = s THEN v ELSE task[t]
  BY <1>2, TaskNames
<1>5. \A t \in Syncs : task'[t].known => contacts' > 0
  BY <1>1, <1>4 DEF PostInv, PostTypeOK
<1>6. AnalysisInv'
  BY <1>3, <1>4 DEF PostInv, AnalysisInv
<1>7. SyncInv'
  <2>1. \A t \in Syncs : task'[t].at \in {"write", "log"} => task'[t].summary
    BY <1>4 DEF PostInv, SyncInv
  <2>2. \A t \in Syncs : task'[t].at = "log" => task'[t].known
    BY <1>4 DEF PostInv, SyncInv
  <2>3. \A t \in Syncs : task'[t].at = "write" /\ contacts' > 0 /\ ~excuse' => task'[t].known
    BY <1>1, <1>4 DEF PostInv, SyncInv
  <2>. QED BY <2>1, <2>2, <2>3 DEF SyncInv
<1>8. LogInv'
  <2>. SUFFICES ASSUME NEW c \in Calls, c \notin redone'
                PROVE  /\ logs'[c].n <= 1
                       /\ \A t, u \in Syncs : CallOf(t) = c /\ CallOf(u) = c
                             /\ task'[t].at # "none" /\ task'[u].at # "none" => t = u
                       /\ task'[Analyze(c)].at \in {"queued", "chain"} =>
                            \A t \in Syncs : CallOf(t) = c => task'[t].at = "none"
                       /\ logs'[c].n > 0 =>
                            /\ task'[Analyze(c)].at \notin {"queued", "chain"}
                            /\ \A t \in Syncs : CallOf(t) = c => task'[t].at \notin {"queued", "write", "log"}
    BY DEF LogInv
  <2>1. /\ logs[c].n <= 1
        /\ \A t, u \in Syncs : CallOf(t) = c /\ CallOf(u) = c
                               /\ task[t].at # "none" /\ task[u].at # "none" => t = u
        /\ task[Analyze(c)].at \in {"queued", "chain"} =>
             \A t \in Syncs : CallOf(t) = c => task[t].at = "none"
        /\ logs[c].n > 0 =>
             /\ task[Analyze(c)].at \notin {"queued", "chain"}
             /\ \A t \in Syncs : CallOf(t) = c => task[t].at \notin {"queued", "write", "log"}
    BY DEF PostInv, LogInv
  <2>2. \A t, u \in Syncs : CallOf(t) = c /\ CallOf(u) = c
                            /\ task'[t].at # "none" /\ task'[u].at # "none" => t = u
    BY <1>4, <2>1
  <2>3. CASE c = CallOf(s)
    BY <1>3, <1>4, <2>1, <2>2, <2>3
  <2>4. CASE c # CallOf(s)
    BY <1>3, <1>4, <2>1, <2>2, <2>4
  <2>. QED BY <2>3, <2>4
<1>. QED BY <1>2, <1>5, <1>6, <1>7, <1>8

-----------------------------------------------------------------------------
(* The steps of a sync *)

\* A sync that is about to log, or may come to it, finds its call not logged.
LEMMA NotLoggedYet ==
  ASSUME PostInv, NEW s \in Syncs, task[s].at \in {"queued", "write", "log"}
  PROVE  CallOf(s) \in Calls /\ (CallOf(s) \notin redone => logs[CallOf(s)].n = 0)
<1>1. CallOf(s) \in Calls /\ logs[CallOf(s)].n \in 0..2
  BY TaskNames DEF PostInv, PostTypeOK
<1>. QED BY <1>1 DEF PostInv, LogInv

\* A step of a sync that changes nothing but its task, and may add an excuse.
LEMMA QuietSync ==
  ASSUME PostInv, NEW s \in Syncs, NEW v \in TaskStates, task' = [task EXCEPT ![s] = v],
         task[s].at \in {"queued", "write", "log"},
         UNCHANGED <<hubspot, analyses, mirror, contacts, logs, lost, redone>>, excuse => excuse',
         v.at \in {"write", "log"} => v.summary,
         v.at = "log" => v.known,
         v.at = "write" /\ contacts > 0 /\ ~excuse' => v.known,
         v.known => contacts > 0
  PROVE  PostInv'
<1>1. contacts \in 0..2 /\ CallOf(s) \in Calls /\ (CallOf(s) \notin redone => logs[CallOf(s)].n = 0)
  BY NotLoggedYet DEF PostInv, PostTypeOK
<1>2. /\ task' \in [Tasks -> TaskStates]
      /\ \A t \in Syncs : task'[t].known => contacts' > 0
      /\ AnalysisInv' /\ SyncInv' /\ LogInv'
  <2>1. /\ lost' = lost \/ lost' # 0
        /\ redone \subseteq redone' /\ contacts' \in 0..2 /\ contacts' >= contacts
        /\ v.at = "write" /\ contacts' > 0 /\ ~excuse' => v.known
        /\ v.known => contacts' > 0
        /\ task[s].at # "none"
    BY <1>1
  <2>2. contacts' > 0 /\ contacts = 0 /\ ~excuse' => \A t \in Syncs \ {s} : task[t].at = "write" => task[t].known
    BY <1>1
  <2>3. /\ \A c \in Calls \ {CallOf(s)} : logs'[c].n = logs[c].n
        /\ CallOf(s) \notin redone' =>
             /\ logs'[CallOf(s)].n \in 0..1
             /\ v.at \in {"queued", "write", "log"} => logs'[CallOf(s)].n = 0
    BY <1>1
  <2>. QED BY <2>1, <2>2, <2>3, SyncMoves
<1>3. PostTypeOK'
  BY <1>2 DEF PostInv, PostTypeOK, TaskStates
<1>. QED BY <1>2, <1>3 DEF PostInv, LogCarriesSummary, SecondContactExplained

\* A retry of a sync that has not logged.
LEMMA QuietRetry ==
  ASSUME PostInv, NEW s \in Syncs, task[s].at \in {"queued", "write", "log"}, TaskRetry(s),
         UNCHANGED <<hubspot, analyses, mirror, contacts, logs, lost, redone>>, excuse => excuse'
  PROVE  PostInv'
<1>1. s \in Tasks /\ PostTypeOK
  BY TaskNames DEF PostInv
<1>2. PICK v \in TaskStates : /\ task' = [task EXCEPT ![s] = v]
                              /\ v.at \in {"queued", "failed"} /\ ~v.known
  BY <1>1, RetryRecord
<1>. QED BY <1>2, QuietSync

\* The record a sync writes with (crm_sync.py:31-42).
LEMMA ReadsRecord ==
  ASSUME PostInv, NEW s \in Syncs, task[s].at = "queued", NEW at \in {"write", "upsert"},
         NEW known \in BOOLEAN, Reads(s, at, known)
  PROVE  \E v \in TaskStates : /\ task' = [task EXCEPT ![s] = v]
                               /\ v.at = at /\ v.known = known /\ v.summary
<1>1. s \in Tasks /\ task[s].retries \in 0..MaxRetries
  BY TaskNames DEF PostInv, PostTypeOK
<1>2. analyses[CallOf(s)] # "none"
  BY DEF PostInv, AnalysisInv
<1>. DEFINE v == [at |-> at, retries |-> task[s].retries, known |-> known,
                  summary |-> analyses[CallOf(s)] # "none"]
<1>3. v \in TaskStates /\ v.at = at /\ v.known = known /\ v.summary
  BY <1>1, <1>2 DEF TaskStates, Running
<1>4. task' = [task EXCEPT ![s] = v]
  BY DEF Reads
<1>. QED BY <1>3, <1>4

\* The search: a contact it misses excuses a second one (crm.py:123-140).
LEMMA FindByPhoneInv ==
  ASSUME PostInv, NEW s \in Syncs, FindByPhone(s)
  PROVE  PostInv'
<1>1. task[s].at = "queued" /\ UNCHANGED <<hubspot, analyses, mirror, contacts, logs, lost, redone>>
      /\ contacts \in 0..2
  BY DEF FindByPhone, PostInv, PostTypeOK
<1>2. CASE Reads(s, "upsert", FALSE) /\ UNCHANGED excuse
  <2>1. PICK v \in TaskStates : /\ task' = [task EXCEPT ![s] = v]
                                /\ v.at = "upsert" /\ v.known = FALSE /\ v.summary
    BY <1>1, <1>2, ReadsRecord
  <2>. QED BY <1>1, <1>2, <2>1, QuietSync
<1>3. CASE TaskRetry(s) /\ UNCHANGED excuse
  BY <1>1, <1>3, QuietRetry
<1>4. ASSUME NEW answer \in Ends, Reads(s, "write", answer = "ok" /\ contacts > 0),
             excuse' = (excuse \/ (answer # "ok" /\ contacts > 0))
      PROVE  PostInv'
  <2>. DEFINE known == answer = "ok" /\ contacts > 0
  <2>1. known \in BOOLEAN
    OBVIOUS
  <2>2. PICK v \in TaskStates : /\ task' = [task EXCEPT ![s] = v]
                                /\ v.at = "write" /\ v.known = known /\ v.summary
    BY <1>1, <1>4, <2>1, ReadsRecord
  <2>3. (v.known => contacts > 0) /\ (contacts > 0 /\ ~excuse' => v.known) /\ (excuse => excuse')
    BY <1>4, <2>2
  <2>. QED BY <1>1, <2>2, <2>3, QuietSync
<1>. QED BY <1>2, <1>3, <1>4 DEF FindByPhone

\* A contact that was found is written again (crm.py:156-177).
LEMMA PatchContactInv ==
  ASSUME PostInv, NEW s \in Syncs, PatchContact(s)
  PROVE  PostInv'
<1>1. /\ task[s].at = "write" /\ task[s].known
      /\ UNCHANGED <<hubspot, analyses, mirror, contacts, logs, lost, redone, excuse>>
  BY DEF PatchContact
<1>2. CASE TaskRetry(s)
  BY <1>1, <1>2, QuietRetry
<1>3. CASE Moves(s, "log")
  <2>1. s \in Tasks /\ PostTypeOK /\ contacts > 0 /\ task[s].summary
    BY <1>1, TaskNames DEF PostInv, PostTypeOK, SyncInv
  <2>2. PICK v \in TaskStates : /\ task' = [task EXCEPT ![s] = v] /\ v.at = "log"
                                /\ v.known <=> task[s].known
                                /\ v.summary <=> task[s].summary
    BY <1>3, <2>1, MovesRecord DEF Running
  <2>3. v.known /\ v.summary
    BY <1>1, <2>1, <2>2
  <2>4. excuse => excuse'
    BY <1>1
  <2>. QED BY <1>1, <2>1, <2>2, <2>3, <2>4, QuietSync
<1>. QED BY <1>2, <1>3 DEF PatchContact

\* A new contact beside another one has an excuse: the search failed, or two
\* syncs searched before either created (crm.py:142-188).
LEMMA CreateContactInv ==
  ASSUME PostInv, NEW s \in Syncs, CreateContact(s)
  PROVE  PostInv'
<1>1. PICK acted \in BOOLEAN, answer \in Ends :
        /\ answer \in EndsIf(acted)
        /\ contacts' = IF acted /\ contacts < 2 THEN contacts + 1 ELSE contacts
        /\ excuse' = (excuse \/ (acted /\ Races(s)))
        /\ IF answer = "ok" THEN task' = [task EXCEPT ![s] = [@ EXCEPT !.at = "log", !.known = TRUE]]
                            ELSE TaskRetry(s)
  BY DEF CreateContact, EndsIf
<1>2. /\ task[s].at = "write" /\ ~task[s].known
      /\ UNCHANGED <<hubspot, analyses, mirror, logs, lost, redone>>
  BY DEF CreateContact
<1>3. s \in Tasks /\ PostTypeOK /\ task[s] \in TaskStates /\ contacts \in 0..2 /\ task[s].summary
  BY <1>2, TaskNames DEF PostInv, PostTypeOK, SyncInv, TaskStates
<1>4. contacts' \in 0..2 /\ contacts' >= contacts /\ (answer = "ok" => contacts' > 0)
  BY <1>1, <1>3 DEF EndsIf
<1>5. PICK v \in TaskStates :
        /\ task' = [task EXCEPT ![s] = v]
        /\ v.at \in {"log", "queued", "failed"}
        /\ v.at = "log" => v.known /\ v.summary
        /\ v.known => answer = "ok"
  <2>1. CASE answer = "ok"
    <3>. DEFINE v == [task[s] EXCEPT !.at = "log", !.known = TRUE]
    <3>1. task' = [task EXCEPT ![s] = v]
      BY <1>1, <2>1
    <3>2. v \in TaskStates /\ v.at = "log" /\ v.known /\ v.summary
      BY <1>3 DEF TaskStates, Running
    <3>. QED BY <2>1, <3>1, <3>2
  <2>2. CASE answer # "ok"
    <3>1. TaskRetry(s)
      BY <1>1, <2>2
    <3>2. PICK v \in TaskStates : /\ task' = [task EXCEPT ![s] = v]
                                  /\ v.at \in {"queued", "failed"} /\ ~v.known
      BY <1>3, <3>1, RetryRecord
    <3>. QED BY <3>2
  <2>. QED BY <2>1, <2>2
<1>6. CallOf(s) \in Calls /\ (CallOf(s) \notin redone => logs[CallOf(s)].n = 0)
  BY <1>2, NotLoggedYet
<1>7. contacts' > 0 /\ contacts = 0 /\ ~excuse' =>
        \A t \in Syncs \ {s} : task[t].at = "write" => task[t].known
  BY <1>1 DEF Races
<1>8. /\ task' \in [Tasks -> TaskStates]
      /\ \A t \in Syncs : task'[t].known => contacts' > 0
      /\ AnalysisInv' /\ SyncInv' /\ LogInv'
  <2>1. /\ lost' = lost \/ lost' # 0
        /\ redone \subseteq redone' /\ UNCHANGED analyses
        /\ excuse => excuse'
        /\ v.at = "write" /\ contacts' > 0 /\ ~excuse' => v.known
        /\ v.at \in {"write", "log"} => v.summary
        /\ v.at = "log" => v.known
        /\ v.known => contacts' > 0
        /\ task[s].at # "none"
    BY <1>1, <1>2, <1>4, <1>5
  <2>2. /\ \A c \in Calls \ {CallOf(s)} : logs'[c].n = logs[c].n
        /\ CallOf(s) \notin redone' =>
             /\ logs'[CallOf(s)].n \in 0..1
             /\ v.at \in {"queued", "write", "log"} => logs'[CallOf(s)].n = 0
    BY <1>2, <1>6
  <2>. QED BY <1>4, <1>5, <1>7, <2>1, <2>2, SyncMoves
<1>9. SecondContactExplained'
  <2>1. contacts > 0 => excuse
    BY <1>2 DEF PostInv, SyncInv
  <2>2. excuse => excuse'
    BY <1>1
  <2>3. contacts' > 1 => contacts > 0
    BY <1>1, <1>3
  <2>. QED BY <2>1, <2>2, <2>3 DEF SecondContactExplained
<1>10. PostTypeOK'
  BY <1>2, <1>3, <1>4, <1>8 DEF PostTypeOK, TaskStates
<1>. QED BY <1>2, <1>8, <1>9, <1>10 DEF PostInv, LogCarriesSummary

\* The engagement: sent once with the summary that was read; when the answer is
\* an exception the task comes again (crm.py:190-223).
LEMMA LogCallInv ==
  ASSUME PostInv, NEW s \in Syncs, LogCall(s)
  PROVE  PostInv'
<1>. DEFINE c == CallOf(s)
<1>1. PICK acted \in BOOLEAN, answer \in Ends :
        /\ IF acted THEN Logged(s) ELSE UNCHANGED logs
        /\ IF answer = "raised" /\ acted THEN Redone(c) ELSE UNCHANGED redone
        /\ IF answer = "raised" THEN TaskRetry(s) ELSE Moves(s, "upsert")
  BY DEF LogCall, EndsIf
<1>2. task[s].at = "log" /\ UNCHANGED <<hubspot, analyses, mirror, contacts, lost, excuse>>
  BY DEF LogCall
<1>3. s \in Tasks /\ PostTypeOK /\ task[s].summary /\ contacts > 0 /\ contacts \in 0..2
  BY <1>2, TaskNames DEF PostInv, PostTypeOK, SyncInv
<1>4. PICK v \in TaskStates :
        /\ task' = [task EXCEPT ![s] = v]
        /\ v.at \in {"upsert", "queued", "failed"}
        /\ v.at = "queued" => answer = "raised"
  <2>1. CASE answer = "raised"
    BY <1>1, <1>3, <2>1, RetryRecord
  <2>2. CASE answer # "raised"
    <3>1. Moves(s, "upsert")
      BY <1>1, <2>2
    <3>. QED BY <1>3, <3>1, MovesRecord DEF Running
  <2>. QED BY <2>1, <2>2
<1>5. c \in Calls /\ (c \notin redone => logs[c].n = 0) /\ logs[c].n \in 0..2
  BY <1>2, <1>3, NotLoggedYet DEF PostTypeOK
<1>6. /\ logs' \in [Calls -> [n : 0..2, bare : BOOLEAN]]
      /\ \A d \in Calls \ {c} : logs'[d] = logs[d]
      /\ logs[c].n = 0 => logs'[c].n \in 0..1
      /\ ~acted => logs'[c].n = logs[c].n
      /\ ~logs'[c].bare
  <2>1. CASE acted
    <3>. DEFINE n == IF logs[c].n < 2 THEN logs[c].n + 1 ELSE 2
                b == logs[c].bare \/ ~task[s].summary
                e == [n |-> n, bare |-> b]
    <3>1. logs' = [logs EXCEPT ![c] = e]
      BY <1>1, <2>1 DEF Logged
    <3>2. n \in 0..2 /\ (logs[c].n = 0 => n \in 0..1)
      BY <1>5
    <3>3. ~logs[c].bare
      BY <1>5 DEF PostInv, LogCarriesSummary
    <3>4. b = FALSE
      BY <1>3, <3>3
    <3>. HIDE DEF n, b
    <3>5. e \in [n : 0..2, bare : BOOLEAN] /\ e.n = n /\ ~e.bare
      BY <3>2, <3>4
    <3>. HIDE DEF e
    <3>. QED BY <1>3, <1>5, <2>1, <3>1, <3>2, <3>5 DEF PostTypeOK
  <2>2. CASE ~acted
    <3>1. UNCHANGED logs
      BY <1>1, <2>2
    <3>. QED BY <1>3, <1>5, <3>1 DEF PostTypeOK, PostInv, LogCarriesSummary
  <2>. QED BY <2>1, <2>2
<1>7. redone \subseteq redone' /\ (acted /\ answer = "raised" => c \in redone')
  BY <1>1 DEF Redone
<1>8. /\ task' \in [Tasks -> TaskStates]
      /\ \A t \in Syncs : task'[t].known => contacts' > 0
      /\ AnalysisInv' /\ SyncInv' /\ LogInv'
  <2>1. /\ lost' = lost \/ lost' # 0
        /\ UNCHANGED analyses
        /\ contacts' \in 0..2 /\ contacts' >= contacts /\ contacts' > 0
        /\ task[s].at # "none" /\ v.at \notin {"write", "log"}
    BY <1>2, <1>3, <1>4
  <2>2. excuse => excuse'
    BY <1>2
  <2>3. contacts' > 0 /\ contacts = 0 /\ ~excuse' =>
          \A t \in Syncs \ {s} : task[t].at = "write" => task[t].known
    BY <1>3
  <2>4. /\ \A d \in Calls \ {c} : logs'[d].n = logs[d].n
        /\ c \notin redone' =>
             /\ logs'[c].n \in 0..1
             /\ v.at \in {"queued", "write", "log"} => logs'[c].n = 0
    BY <1>4, <1>5, <1>6, <1>7
  <2>. QED BY <1>4, <1>7, <2>1, <2>2, <2>3, <2>4, SyncMoves
<1>9. PostTypeOK'
  BY <1>2, <1>3, <1>6, <1>8 DEF PostTypeOK, TaskStates
<1>10. LogCarriesSummary'
  BY <1>6 DEF PostInv, LogCarriesSummary
<1>. QED BY <1>2, <1>8, <1>9, <1>10 DEF PostInv, SecondContactExplained

\* The local row and the commit (crm_sync.py:58-80).
LEMMA MirrorContactInv ==
  ASSUME PostInv, NEW s \in Syncs, MirrorContact(s)
  PROVE  PostInv'
<1>1. task[s].at = "upsert" /\ UNCHANGED <<hubspot, analyses, contacts, logs, lost, excuse>>
  BY DEF MirrorContact
<1>2. s \in Tasks /\ PostTypeOK /\ contacts \in 0..2 /\ CallOf(s) \in Calls
  BY TaskNames DEF PostInv, PostTypeOK
<1>3. /\ mirror' \in BOOLEAN
      /\ mirror' => mirror \/ task[s].known
      /\ redone \subseteq redone'
  BY <1>2 DEF MirrorContact, Redone, PostTypeOK
<1>4. PICK v \in TaskStates :
        /\ task' = [task EXCEPT ![s] = v]
        /\ v.at \in {"done", "queued", "failed"} /\ ~v.known
        /\ v.at = "queued" => CallOf(s) \in redone'
  <2>1. CASE TaskRetry(s) /\ Redone(CallOf(s))
    BY <1>2, <2>1, RetryRecord DEF Redone
  <2>2. CASE task' = [task EXCEPT ![s] = Fresh("done", @.retries)]
    <3>. DEFINE v == Fresh("done", task[s].retries)
    <3>1. task[s].retries \in 0..MaxRetries
      BY <1>2 DEF PostTypeOK
    <3>2. v \in TaskStates /\ v.at = "done" /\ v.known = FALSE
      BY <3>1, Records DEF Settled
    <3>. QED BY <2>2, <3>2
  <2>. QED BY <2>1, <2>2 DEF MirrorContact
<1>5. /\ task' \in [Tasks -> TaskStates]
      /\ \A t \in Syncs : task'[t].known => contacts' > 0
      /\ AnalysisInv' /\ SyncInv' /\ LogInv'
  <2>1. /\ lost' = lost \/ lost' # 0
        /\ UNCHANGED analyses
        /\ contacts' \in 0..2 /\ contacts' >= contacts /\ contacts' = contacts
        /\ task[s].at # "none" /\ v.at \notin {"write", "log"}
    BY <1>1, <1>2, <1>4
  <2>2. excuse => excuse'
    BY <1>1
  <2>3. CallOf(s) \notin redone => logs[CallOf(s)].n \in 0..1
    BY <1>2 DEF PostInv, PostTypeOK, LogInv
  <2>4. /\ \A d \in Calls \ {CallOf(s)} : logs'[d].n = logs[d].n
        /\ CallOf(s) \notin redone' =>
             /\ logs'[CallOf(s)].n \in 0..1
             /\ v.at \in {"queued", "write", "log"} => logs'[CallOf(s)].n = 0
    BY <1>1, <1>3, <1>4, <2>3
  <2>5. contacts' > 0 /\ contacts = 0 /\ ~excuse' =>
          \A t \in Syncs \ {s} : task[t].at = "write" => task[t].known
    BY <2>1
  <2>. QED BY <1>3, <1>4, <2>1, <2>2, <2>4, <2>5, SyncMoves
<1>6. mirror' => contacts' > 0
  BY <1>1, <1>2, <1>3 DEF PostTypeOK
<1>7. PostTypeOK'
  BY <1>1, <1>2, <1>3, <1>5, <1>6 DEF PostTypeOK, TaskStates
<1>. QED BY <1>1, <1>5, <1>7 DEF PostInv, LogCarriesSummary, SecondContactExplained

-----------------------------------------------------------------------------
(* The analysis, and the worker *)

\* A step of an analysis that ends it, starts it again or has it chain: the
\* syncs stand still.
LEMMA AnalysisMoves ==
  ASSUME PostInv, NEW c \in Calls, NEW v \in TaskStates, task' = [task EXCEPT ![Analyze(c)] = v],
         UNCHANGED <<hubspot, mirror, contacts, logs, excuse>>,
         analyses' \in [Calls -> {"none", "scored", "unscored"}],
         \A d \in Calls : analyses[d] # "none" => analyses'[d] # "none",
         \A d \in Calls \ {c} : analyses'[d] = analyses[d],
         v.at = "chain" => analyses'[c] # "none",
         v.at = "queued" /\ lost' = 0 => analyses'[c] = "none",
         lost' = lost \/ lost' # 0, lost' \in 0..MaxLost,
         redone \subseteq redone',
         c \in redone' \/ (v.at \in {"queued", "chain"} => task[Analyze(c)].at \in {"queued", "chain"})
  PROVE  PostInv'
<1>1. /\ Analyze(c) \in Tasks /\ task \in [Tasks -> TaskStates]
      /\ lost \in 0..MaxLost
  BY TaskNames DEF PostInv, PostTypeOK, TaskStates
<1>2. task' \in [Tasks -> TaskStates] /\ \A t \in Tasks : task'[t] = IF t = Analyze(c) THEN v ELSE task[t]
  BY <1>1
<1>3. \A s \in Syncs : task'[s] = task[s] /\ CallOf(s) \in Calls
  BY <1>2, TaskNames
<1>4. \A d \in Calls : task'[Analyze(d)] = IF d = c THEN v ELSE task[Analyze(d)]
  BY <1>2, TaskNames
<1>5. PostTypeOK'
  BY <1>2, <1>3 DEF PostInv, PostTypeOK, TaskStates
<1>6. AnalysisInv'
  <2>1. \A s \in Syncs : task'[s].at # "none" => analyses'[CallOf(s)] # "none"
    BY <1>3 DEF PostInv, AnalysisInv
  <2>2. \A d \in Calls : task'[Analyze(d)].at = "chain" => analyses'[d] # "none"
    BY <1>4 DEF PostInv, AnalysisInv
  <2>3. \A d \in Calls : task'[Analyze(d)].at = "queued" /\ lost' = 0 => analyses'[d] = "none"
    BY <1>4 DEF PostInv, AnalysisInv
  <2>. QED BY <2>1, <2>2, <2>3 DEF AnalysisInv
<1>7. SyncInv'
  BY <1>3 DEF PostInv, SyncInv
<1>8. LogInv'
  <2>. SUFFICES ASSUME NEW d \in Calls, d \notin redone'
                PROVE  /\ logs[d].n <= 1
                       /\ \A s, t \in Syncs : CallOf(s) = d /\ CallOf(t) = d
                             /\ task'[s].at # "none" /\ task'[t].at # "none" => s = t
                       /\ task'[Analyze(d)].at \in {"queued", "chain"} =>
                            \A s \in Syncs : CallOf(s) = d => task'[s].at = "none"
                       /\ logs[d].n > 0 =>
                            /\ task'[Analyze(d)].at \notin {"queued", "chain"}
                            /\ \A s \in Syncs : CallOf(s) = d => task'[s].at \notin {"queued", "write", "log"}
    BY DEF LogInv
  <2>1. task'[Analyze(d)].at \in {"queued", "chain"} => task[Analyze(d)].at \in {"queued", "chain"}
    BY <1>4
  <2>. QED BY <1>3, <2>1 DEF PostInv, LogInv
<1>. QED BY <1>5, <1>6, <1>7, <1>8 DEF PostInv, LogCarriesSummary, SecondContactExplained

\* The analysis is stored, or the task comes again without one (analyze.py:119-227).
LEMMA AnalyzeCallInv ==
  ASSUME PostInv, NEW c \in Calls, AnalyzeCall(c)
  PROVE  PostInv'
<1>1. /\ task[Analyze(c)].at = "queued"
      /\ UNCHANGED <<hubspot, mirror, contacts, logs, lost, redone, excuse>>
      /\ Analyze(c) \in Tasks /\ PostTypeOK
      /\ analyses \in [Calls -> {"none", "scored", "unscored"}] /\ lost \in 0..MaxLost
  BY TaskNames DEF AnalyzeCall, PostInv, PostTypeOK
<1>2. CASE TaskRetry(Analyze(c)) /\ UNCHANGED analyses
  <2>1. PICK v \in TaskStates : /\ task' = [task EXCEPT ![Analyze(c)] = v]
                                /\ v.at \in {"queued", "failed"} /\ ~v.known
    BY <1>1, <1>2, RetryRecord
  <2>2. lost = 0 => analyses[c] = "none"
    BY <1>1 DEF PostInv, AnalysisInv
  <2>. QED BY <1>1, <1>2, <2>1, <2>2, AnalysisMoves
<1>3. ASSUME NEW row \in {"scored", "unscored"}, analyses' = [analyses EXCEPT ![c] = row],
             Moves(Analyze(c), "chain")
      PROVE  PostInv'
  <2>1. PICK v \in TaskStates : task' = [task EXCEPT ![Analyze(c)] = v] /\ v.at = "chain"
    BY <1>1, <1>3, MovesRecord DEF Running
  <2>2. /\ analyses' \in [Calls -> {"none", "scored", "unscored"}]
        /\ \A d \in Calls : analyses[d] # "none" => analyses'[d] # "none"
        /\ \A d \in Calls \ {c} : analyses'[d] = analyses[d]
        /\ analyses'[c] # "none"
    BY <1>1, <1>3
  <2>. QED BY <1>1, <2>1, <2>2, AnalysisMoves
<1>. QED BY <1>2, <1>3 DEF AnalyzeCall

\* The sync is queued once the analysis is stored, and the analysis is over
\* (tasks.py:47-48).
LEMMA ChainSyncInv ==
  ASSUME PostInv, NEW c \in Calls, ChainSync(c)
  PROVE  PostInv'
<1>1. /\ task[Analyze(c)].at = "chain"
      /\ UNCHANGED <<hubspot, analyses, mirror, contacts, logs, lost, redone, excuse>>
      /\ Analyze(c) \in Tasks /\ PostTypeOK /\ task \in [Tasks -> TaskStates]
      /\ analyses \in [Calls -> {"none", "scored", "unscored"}] /\ lost \in 0..MaxLost
      /\ analyses[c] # "none"
  BY TaskNames DEF ChainSync, PostInv, PostTypeOK, AnalysisInv, TaskStates
<1>2. CASE Settles(Analyze(c), "failed")
  <2>1. 0 \in 0..MaxRetries /\ "failed" \in Running \cup Settled
    BY PostAssumption DEF Settled
  <2>2. Fresh("failed", 0) \in TaskStates /\ Fresh("failed", 0).at = "failed"
    BY <2>1, Records
  <2>3. task' = [task EXCEPT ![Analyze(c)] = Fresh("failed", 0)]
    BY <1>2 DEF Settles
  <2>. QED BY <1>1, <2>2, <2>3, AnalysisMoves
<1>3. ASSUME NEW s \in Queued(c),
             task' = [task EXCEPT ![s].at = "queued", ![Analyze(c)].at = "done"]
      PROVE  PostInv'
  <2>1. s \in Syncs /\ CallOf(s) = c /\ task[s].at = "none" /\ s \in Tasks /\ s # Analyze(c)
    BY TaskNames DEF Queued, Unsent
  <2>2. /\ task' \in [Tasks -> TaskStates]
        /\ \A t \in Tasks : /\ task'[t].at = IF t = s THEN "queued" ELSE IF t = Analyze(c) THEN "done"
                                                                   ELSE task[t].at
                            /\ task'[t].known <=> task[t].known
                            /\ task'[t].summary <=> task[t].summary
    <3>. DEFINE v == [task[s] EXCEPT !.at = "queued"]
                w == [task[Analyze(c)] EXCEPT !.at = "done"]
    <3>1. /\ v \in TaskStates /\ v.at = "queued"
          /\ (v.known <=> task[s].known) /\ (v.summary <=> task[s].summary)
      <4>1. task[s] \in TaskStates
        BY <1>1, <2>1
      <4>. QED BY <4>1 DEF TaskStates, Running
    <3>2. /\ w \in TaskStates /\ w.at = "done"
          /\ (w.known <=> task[Analyze(c)].known) /\ (w.summary <=> task[Analyze(c)].summary)
      <4>1. task[Analyze(c)] \in TaskStates
        BY <1>1
      <4>. QED BY <4>1 DEF TaskStates, Settled
    <3>3. task' = [task EXCEPT ![s] = v, ![Analyze(c)] = w]
      BY <1>3, <2>1
    <3>. HIDE DEF v, w
    <3>4. \A t \in Tasks : task'[t] = IF t = s THEN v ELSE IF t = Analyze(c) THEN w ELSE task[t]
      BY <1>1, <2>1, <3>3
    <3>5. task' = [t \in Tasks |-> task'[t]]
      BY <1>1, <3>3
    <3>6. task' \in [Tasks -> TaskStates]
      BY <1>1, <3>1, <3>2, <3>4, <3>5
    <3>. QED BY <3>1, <3>2, <3>4, <3>6
  <2>3. \A t \in Syncs : /\ task'[t].at = IF t = s THEN "queued" ELSE task[t].at
                         /\ task'[t].known <=> task[t].known
                         /\ task'[t].summary <=> task[t].summary
    BY <2>2, TaskNames
  <2>4. \A d \in Calls : task'[Analyze(d)].at = IF d = c THEN "done" ELSE task[Analyze(d)].at
    BY <2>1, <2>2, TaskNames
  <2>5. PostTypeOK'
    BY <1>1, <2>2, <2>3 DEF PostTypeOK, TaskStates
  <2>6. AnalysisInv'
    BY <1>1, <2>1, <2>3, <2>4 DEF PostInv, AnalysisInv
  <2>7. SyncInv'
    BY <1>1, <2>3 DEF PostInv, SyncInv
  <2>8. LogInv'
    <3>. SUFFICES ASSUME NEW d \in Calls, d \notin redone
                  PROVE  /\ logs[d].n <= 1
                         /\ \A t, u \in Syncs : CallOf(t) = d /\ CallOf(u) = d
                               /\ task'[t].at # "none" /\ task'[u].at # "none" => t = u
                         /\ task'[Analyze(d)].at \in {"queued", "chain"} =>
                              \A t \in Syncs : CallOf(t) = d => task'[t].at = "none"
                         /\ logs[d].n > 0 =>
                              /\ task'[Analyze(d)].at \notin {"queued", "chain"}
                              /\ \A t \in Syncs : CallOf(t) = d => task'[t].at \notin {"queued", "write", "log"}
      BY <1>1 DEF LogInv
    <3>1. CASE d = c
      <4>1. \A t \in Syncs : CallOf(t) = c => task[t].at = "none"
        BY <1>1, <3>1 DEF PostInv, LogInv
      <4>2. logs[c].n \in 0..2 /\ ~(logs[c].n > 0)
        BY <1>1, <3>1 DEF PostInv, LogInv, PostTypeOK
      <4>. QED BY <2>3, <2>4, <3>1, <4>1, <4>2
    <3>2. CASE d # c
      <4>1. \A t \in Syncs : CallOf(t) = d => task'[t].at = task[t].at
        BY <2>1, <2>3, <3>2
      <4>2. task'[Analyze(d)].at = task[Analyze(d)].at
        BY <2>4, <3>2
      <4>. QED BY <4>1, <4>2 DEF PostInv, LogInv
    <3>. QED BY <3>1, <3>2
  <2>. QED BY <1>1, <2>5, <2>6, <2>7, <2>8 DEF PostInv, LogCarriesSummary, SecondContactExplained
<1>. QED BY <1>2, <1>3 DEF ChainSync

\* A worker dies, and its task is delivered again (celery_app.py:32-33).
LEMMA WorkerLostInv ==
  ASSUME PostInv, NEW t \in Tasks, WorkerLost(t)
  PROVE  PostInv'
<1>1. /\ task[t].at \in Running \cup {"done"}
      /\ Redone(CallOf(t)) /\ lost' = lost + 1 /\ lost < MaxLost
      /\ task' = [task EXCEPT ![t] = Fresh("queued", task[t].retries)]
      /\ UNCHANGED <<hubspot, analyses, mirror, contacts, logs, excuse>>
      /\ PostTypeOK /\ task[t].retries \in 0..MaxRetries /\ lost \in 0..MaxLost
      /\ analyses \in [Calls -> {"none", "scored", "unscored"}] /\ contacts \in 0..2
  BY DEF WorkerLost, PostInv, PostTypeOK
<1>2. lost' \in 0..MaxLost /\ lost' # 0
  BY <1>1, PostAssumption
<1>. DEFINE v == Fresh("queued", task[t].retries)
<1>3. v \in TaskStates /\ v.at = "queued" /\ v.known = FALSE
  BY <1>1, Records DEF Running
<1>. HIDE DEF v
<1>4. task' = [task EXCEPT ![t] = v]
  BY <1>1 DEF v
<1>5. CallOf(t) \in redone' /\ redone \subseteq redone'
  BY <1>1 DEF Redone
<1>6. CASE t \in Syncs
  <2>1. /\ task' \in [Tasks -> TaskStates]
        /\ \A s \in Syncs : task'[s].known => contacts' > 0
        /\ AnalysisInv' /\ SyncInv' /\ LogInv'
    <3>1. task[t].at # "none"
      BY <1>1 DEF Running
    <3>2. /\ contacts' \in 0..2 /\ contacts' >= contacts /\ v.at \notin {"write", "log"}
          /\ v.known => contacts' > 0
      BY <1>1, <1>3
    <3>3. excuse => excuse'
      BY <1>1
    <3>4. contacts' > 0 /\ contacts = 0 /\ ~excuse' =>
            \A s \in Syncs \ {t} : task[s].at = "write" => task[s].known
      BY <1>1
    <3>5. UNCHANGED analyses /\ \A d \in Calls \ {CallOf(t)} : logs'[d].n = logs[d].n
      BY <1>1
    <3>. QED BY <1>2, <1>3, <1>4, <1>5, <1>6, <3>1, <3>2, <3>3, <3>4, <3>5, SyncMoves
  <2>2. PostTypeOK'
    BY <1>1, <1>2, <2>1 DEF PostTypeOK, TaskStates
  <2>. QED BY <1>1, <2>1, <2>2 DEF PostInv, LogCarriesSummary, SecondContactExplained
<1>7. CASE \E c \in Calls : t = Analyze(c)
  <2>1. PICK c \in Calls : t = Analyze(c)
    BY <1>7
  <2>2. CallOf(t) = c
    BY <2>1, TaskNames
  <2>. QED BY <1>1, <1>2, <1>3, <1>4, <1>5, <2>1, <2>2, AnalysisMoves, ZenonT(60)
<1>. QED BY <1>6, <1>7, TaskNames

\* The soft time limit ends a task (tasks.py:41-60).
LEMMA SoftTimeLimitInv ==
  ASSUME PostInv, NEW t \in Tasks, SoftTimeLimit(t)
  PROVE  PostInv'
<1>1. /\ task[t].at \in {"queued", "write", "log"}
      /\ task' = [task EXCEPT ![t] = Fresh("failed", 0)]
      /\ UNCHANGED <<hubspot, analyses, mirror, contacts, logs, lost, redone, excuse>>
      /\ PostTypeOK /\ analyses \in [Calls -> {"none", "scored", "unscored"}] /\ lost \in 0..MaxLost
  BY DEF SoftTimeLimit, Settles, PostInv, PostTypeOK
<1>. DEFINE v == Fresh("failed", 0)
<1>2. v \in TaskStates /\ v.at = "failed" /\ v.known = FALSE
  <2>1. 0 \in 0..MaxRetries
    BY PostAssumption
  <2>. QED BY <2>1, Records DEF Settled
<1>. HIDE DEF v
<1>3. task' = [task EXCEPT ![t] = v]
  BY <1>1 DEF v
<1>4. CASE t \in Syncs
  <2>1. excuse => excuse'
    BY <1>1
  <2>. QED BY <1>1, <1>2, <1>3, <1>4, <2>1, QuietSync
<1>5. CASE \E c \in Calls : t = Analyze(c)
  BY <1>1, <1>2, <1>3, <1>5, AnalysisMoves
<1>. QED BY <1>4, <1>5, TaskNames

-----------------------------------------------------------------------------
(* The theorems *)

\* What is queued when the calls are over (gateway.py:265-272).
LEMMA PostInitInv == PostInit => PostInv
<1>. SUFFICES ASSUME PostInit PROVE PostInv
  OBVIOUS
<1>1. /\ hubspot \in BOOLEAN /\ mirror = FALSE /\ contacts = 0 /\ lost = 0 /\ redone = {}
      /\ analyses = [c \in Calls |-> IF c \in Analysed THEN "scored" ELSE "none"]
      /\ logs = [c \in Calls |-> [n |-> 0, bare |-> FALSE]]
  BY DEF PostInit
<1>. DEFINE start(t) == CASE t[1] = "analyze" -> IF CallOf(t) \in Analysed THEN "done" ELSE "queued"
                          [] OTHER -> IF CallOf(t) \in Analysed /\ t[3] = 1 THEN "queued" ELSE "none"
<1>2. task = [t \in Tasks |-> Fresh(start(t), 0)]
  BY DEF PostInit
<1>3. \A t \in Tasks : start(t) \in Running \cup Settled
  BY DEF Running, Settled
<1>4. \A s \in Syncs : s[1] # "analyze" /\ s = <<"sync", s[2], s[3]>>
  BY DEF Syncs
<1>5. \A c \in Calls : Analyze(c)[1] = "analyze"
  BY DEF Analyze
<1>6. \A s \in Syncs : start(s) = IF CallOf(s) \in Analysed /\ s[3] = 1 THEN "queued" ELSE "none"
  BY <1>4
<1>7. \A c \in Calls : start(Analyze(c)) = IF c \in Analysed THEN "done" ELSE "queued"
  BY <1>5, TaskNames
<1>. HIDE DEF start
<1>8. /\ task \in [Tasks -> TaskStates]
      /\ \A t \in Tasks : task[t].at = start(t) /\ ~task[t].known
  <2>1. 0 \in 0..MaxRetries
    BY PostAssumption
  <2>2. \A t \in Tasks : /\ Fresh(start(t), 0) \in TaskStates /\ Fresh(start(t), 0).at = start(t)
                         /\ Fresh(start(t), 0).known = FALSE
    BY <1>3, <2>1, Records
  <2>. QED BY <1>2, <2>2
<1>9. PostTypeOK
  <2>1. \A s \in Syncs : ~task[s].known
    BY <1>8, TaskNames
  <2>2. logs \in [Calls -> [n : 0..2, bare : BOOLEAN]] /\ \A c \in Calls : logs[c].n = 0
    BY <1>1
  <2>3. lost \in 0..MaxLost
    BY <1>1, PostAssumption
  <2>4. mirror \in BOOLEAN /\ ~mirror
    BY <1>1
  <2>. QED BY <1>1, <1>8, <2>1, <2>2, <2>3, <2>4 DEF PostTypeOK, TaskStates
<1>10. /\ \A s \in Syncs : task[s].at = IF CallOf(s) \in Analysed /\ s[3] = 1 THEN "queued" ELSE "none"
       /\ \A c \in Calls : task[Analyze(c)].at = IF c \in Analysed THEN "done" ELSE "queued"
  BY <1>6, <1>7, <1>8, TaskNames
<1>11. AnalysisInv
  BY <1>1, <1>10, TaskNames DEF AnalysisInv
<1>12. SyncInv
  BY <1>10 DEF SyncInv
<1>13. LogInv
  <2>1. \A c \in Calls : logs[c].n <= 1 /\ ~(logs[c].n > 0)
    <3>1. \A c \in Calls : logs[c].n = 0
      BY <1>1
    <3>2. 0 <= 1 /\ ~(0 > 0)
      OBVIOUS
    <3>. QED BY <3>1, <3>2
  <2>2. \A s, t \in Syncs : CallOf(s) = CallOf(t)
          /\ task[s].at # "none" /\ task[t].at # "none" => s = t
    BY <1>4, <1>10 DEF CallOf
  <2>3. \A c \in Calls : task[Analyze(c)].at \in {"queued", "chain"} =>
          \A s \in Syncs : CallOf(s) = c => task[s].at = "none"
    BY <1>10
  <2>. QED BY <2>1, <2>2, <2>3 DEF LogInv
<1>14. LogCarriesSummary /\ SecondContactExplained
  BY <1>1 DEF LogCarriesSummary, SecondContactExplained
<1>. QED BY <1>9, <1>11, <1>12, <1>13, <1>14 DEF PostInv

\* Every step keeps the invariant.
LEMMA PostStepInv == PostInv /\ [PostNext]_vars => PostInv'
<1>. SUFFICES ASSUME PostInv, [PostNext]_vars PROVE PostInv'
  OBVIOUS
<1>1. CASE UNCHANGED vars
  <2>1. PostTypeOK'
    BY <1>1 DEF vars, PostInv, PostTypeOK
  <2>2. AnalysisInv' /\ SyncInv' /\ LogInv'
    BY <1>1 DEF vars, PostInv, AnalysisInv, SyncInv, LogInv
  <2>. QED BY <1>1, <2>1, <2>2 DEF vars, PostInv, LogCarriesSummary, SecondContactExplained
<1>2. ASSUME NEW c \in Calls, AnalyzeCall(c) \/ ChainSync(c)
      PROVE  PostInv'
  BY <1>2, AnalyzeCallInv, ChainSyncInv
<1>3. ASSUME NEW s \in Syncs, SyncCrm(s)
      PROVE  PostInv'
  BY <1>3, FindByPhoneInv, CreateContactInv, PatchContactInv, LogCallInv, MirrorContactInv DEF SyncCrm
<1>4. ASSUME NEW t \in Tasks, WorkerLost(t) \/ SoftTimeLimit(t)
      PROVE  PostInv'
  BY <1>4, WorkerLostInv, SoftTimeLimitInv
<1>. QED BY <1>1, <1>2, <1>3, <1>4 DEF PostNext

\* "so the CRM gets the summary rather than a placeholder" (tasks.py:7-8),
\* "dedupes on E.164" (celery_app.py:9): for any calls, retries and dying
\* workers, what the CRM holds twice has a reason.
THEOREM CrmMirrorIsExplained == PostSpec => []CrmMirrorOK
<1>1. PostInv => ExtraLogsWereRedeliveries
  BY DEF PostInv, PostTypeOK, LogInv, ExtraLogsWereRedeliveries
<1>2. PostInv => CrmMirrorOK
  BY <1>1 DEF PostInv, CrmMirrorOK
<1>. QED BY <1>2, PostInitInv, PostStepInv, PTL DEF PostSpec

\* "analysis upserts" (celery_app.py:9): only a delivery after a worker died
\* puts a failed analysis in the place of a scored one.
THEOREM ScoresAreKept == PostSpec => ScoreLostOnlyByRerun
<1>1. PostInv /\ [PostNext]_vars =>
        [\A c \in Calls : analyses[c] = "scored" /\ analyses'[c] # "scored" => lost > 0]_vars
  <2>. SUFFICES ASSUME PostInv, PostNext, NEW c \in Calls,
                       analyses[c] = "scored", analyses'[c] # "scored"
                PROVE  lost > 0
    OBVIOUS
  <2>1. CASE \E d \in Calls : AnalyzeCall(d)
    <3>1. task[Analyze(c)].at = "queued"
      BY <2>1 DEF AnalyzeCall, PostInv, PostTypeOK
    <3>2. lost # 0 /\ lost \in 0..MaxLost
      BY <3>1 DEF PostInv, PostTypeOK, AnalysisInv
    <3>. QED BY <3>2, PostAssumption
  <2>2. CASE UNCHANGED analyses
    BY <2>2
  <2>. QED BY <2>1, <2>2 DEF PostNext, ChainSync, SyncCrm, FindByPhone, CreateContact,
       PatchContact, LogCall, MirrorContact, WorkerLost, SoftTimeLimit
<1>. QED BY <1>1, PostInitInv, PostStepInv, PTL DEF PostSpec, ScoreLostOnlyByRerun

===============================================================================
