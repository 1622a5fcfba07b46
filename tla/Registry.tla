------------------------------ MODULE Registry -----------------------------
(***************************************************************************)
(* The registry of client configurations (apps/api/config/loader.py): a    *)
(* cache of config/clients/*.yaml that a lookup reloads when the files'    *)
(* modification times have changed, and the overrides the fixture editor   *)
(* lays over it (routers/dashboard.py, routers/demo.py).                   *)
(*                                                                         *)
(* Lookups run on one event loop and do not await, so they do not          *)
(* interleave with each other. Whoever edits the files is another process: *)
(* an edit may fall between any two file operations of a reload.           *)
(***************************************************************************)
EXTENDS Integers, FiniteSets, Functions

CONSTANTS
  Clients, Numbers, \* the identities a file may carry
  Paths,            \* of the directory: the place of each in the sorted names
  MaxEdits          \* bound on edits of files

ASSUME RegistryAssumption == MaxEdits \in Nat /\ Paths \subseteq Nat

VARIABLES
  file,     \* external: path -> [content, cfg, mtime] of the files there are;
            \* "bad" content does not parse or validate
  clock,    \* external: the file system's clock
  edits,    \* external: edits so far; tells contents apart
  reg,      \* _by_id, _by_number and _mtimes
  load,     \* the reload in progress
  override, \* _fixture_overrides
  up,       \* lifespan has started the application
  raced,    \* history: paths whose last edit no modification time shows
  moved     \* history: clients whose file changed number under an override

regVars == <<file, clock, edits, reg, load, override, up, raced, moved>>

Configs == [client_id : Clients, phone_number : Numbers, edit : 0..MaxEdits]
Empty == [x \in {} |-> x]
Idle == [state |-> "idle", todo |-> {}, byId |-> Empty, byNumber |-> Empty, mtimes |-> Empty]

Valid(c, n, edit, mtime) ==
  [content |-> "ok", mtime |-> mtime,
   cfg |-> [client_id |-> c, phone_number |-> n, edit |-> edit]]
Malformed(mtime) == [content |-> "bad", mtime |-> mtime, cfg |-> {}]

With(f, k, v) == [x \in DOMAIN f \union {k} |-> IF x = k THEN v ELSE f[x]]
Without(f, k) == [x \in DOMAIN f \ {k} |-> f[x]]

RegInit ==
  /\ file \in {Empty} \union
        {[p \in {q} |-> Valid(c, n, 0, 0)] : q \in Paths, c \in Clients, n \in Numbers}
  /\ clock = 0 /\ edits = 0
  /\ reg = [byId |-> Empty, byNumber |-> Empty, mtimes |-> Empty]
  /\ load = Idle
  /\ override = Empty
  /\ up = FALSE
  /\ raced = {} /\ moved = {}

----------------------------------------------------------------------------
(* Edits. Two writes within one tick of the clock get the same time.         *)

\* The file a reload is at: the first of those it has not finished.
Current(p) == p \in load.todo /\ \A q \in load.todo : p <= q

\* The reload has read the file and not yet asked for its time.
InWindow(p) == load.state = "stat" /\ Current(p)

Touch(p) ==
  \E quick \in BOOLEAN :
    /\ clock' = IF quick THEN clock ELSE clock + 1
    /\ raced' = IF InWindow(p) \/ quick THEN raced \union {p} ELSE raced \ {p}

Write(p) ==
  /\ Touch(p)
  /\ \/ \E c \in Clients, n \in Numbers : file' = With(file, p, Valid(c, n, edits', clock'))
     \/ file' = With(file, p, Malformed(clock'))

EditFile ==
  /\ edits < MaxEdits
  /\ edits' = edits + 1
  /\ \E p \in Paths :
       \/ Write(p)
       \/ /\ p \in DOMAIN file
          /\ file' = Without(file, p)
          /\ UNCHANGED <<clock, raced>>
  /\ UNCHANGED <<reg, load, override, up, moved>>

----------------------------------------------------------------------------
(* Reload: read a file, take its time, and so on; then swap all three.       *)

Stale ==
  \/ [p \in DOMAIN file |-> file[p].mtime] /= reg.mtimes
  \/ DOMAIN reg.byId = {} /\ DOMAIN file /= {}

\* A lookup finds the cache stale and takes the sorted directory.
EnsureFresh ==
  /\ load.state = "idle" /\ Stale
  /\ load' = [state |-> "read", todo |-> DOMAIN file,
              byId |-> Empty, byNumber |-> Empty, mtimes |-> Empty]
  /\ UNCHANGED <<file, clock, edits, reg, override, up, raced, moved>>

\* What load_client_config and the checks for duplicates refuse.
Refused(p) ==
  \/ p \notin DOMAIN file
  \/ file[p].content = "bad"
  \/ file[p].cfg.client_id \in DOMAIN load.byId
  \/ file[p].cfg.phone_number \in DOMAIN load.byNumber

\* Mutant: a directory that does not load is not tried again.
RaiseRemembering ==
  /\ load' = Idle
  /\ reg' = [reg EXCEPT !.mtimes = [p \in DOMAIN file |-> file[p].mtime]]

\* The reload raises: the lookup fails and the cache is what it was.
Raise == load' = Idle /\ UNCHANGED reg

ReadFile ==
  /\ load.state = "read"
  /\ \E p \in Paths :
       /\ Current(p)
       /\ IF Refused(p) THEN Raise
          ELSE LET cfg == file[p].cfg IN
               /\ load' = [state |-> "stat", todo |-> load.todo,
                           byId |-> With(load.byId, cfg.client_id, cfg),
                           byNumber |-> With(load.byNumber, cfg.phone_number, cfg),
                           mtimes |-> load.mtimes]
               /\ UNCHANGED reg
  /\ UNCHANGED <<file, clock, edits, override, up, raced, moved>>

\* The time is taken, and the next file is up.
Takes(p) ==
  load' = [state |-> "read", todo |-> load.todo \ {p}, byId |-> load.byId,
           byNumber |-> load.byNumber, mtimes |-> With(load.mtimes, p, file[p].mtime)]

\* Mutant: the cache is filled in place, file by file.
StatFileInPlace ==
  /\ load.state = "stat"
  /\ \E p \in Paths :
       /\ Current(p)
       /\ IF p \notin DOMAIN file THEN Raise
          ELSE Takes(p) /\ reg' = [reg EXCEPT !.byId = load.byId, !.byNumber = load.byNumber]
  /\ UNCHANGED <<file, clock, edits, override, up, raced, moved>>

StatFile ==
  /\ load.state = "stat"
  /\ \E p \in Paths :
       /\ Current(p)
       /\ IF p \notin DOMAIN file THEN Raise ELSE Takes(p) /\ UNCHANGED reg
  /\ UNCHANGED <<file, clock, edits, override, up, raced, moved>>

Install ==
  /\ load.state = "read" /\ load.todo = {}
  /\ reg' = [byId |-> load.byId, byNumber |-> load.byNumber, mtimes |-> load.mtimes]
  /\ moved' = moved \union
       {c \in DOMAIN override \intersect DOMAIN load.byId :
          load.byId[c].phone_number /= override[c].phone_number}
  /\ load' = Idle
  /\ UNCHANGED <<file, clock, edits, override, up, raced>>

----------------------------------------------------------------------------
(* What is done with a fresh cache.                                          *)

\* lifespan: the application starts once all() has answered.
Boot ==
  /\ ~up /\ load.state = "idle" /\ ~Stale
  /\ up' = TRUE
  /\ UNCHANGED <<file, clock, edits, reg, load, override, raced, moved>>

Overridden(cfg) == IF cfg.client_id \in DOMAIN override THEN override[cfg.client_id] ELSE cfg
ResolveByNumber(n) == Overridden(reg.byNumber[n])

\* An edited configuration that keeps client and number; all others are refused.
ReplaceFixtureConfig ==
  /\ up /\ load.state = "idle" /\ ~Stale
  /\ \E c \in DOMAIN reg.byId :
       /\ override' = With(override, c, [client_id |-> c,
                             phone_number |-> reg.byId[c].phone_number, edit |-> 0])
       /\ moved' = moved \ {c}
  /\ UNCHANGED <<file, clock, edits, reg, load, up, raced>>

ResetFixtureConfig ==
  /\ up /\ load.state = "idle"
  /\ \E c \in DOMAIN override :
       override' = Without(override, c) /\ moved' = moved \ {c}
  /\ UNCHANGED <<file, clock, edits, reg, load, up, raced>>

RegNext ==
  \/ EditFile
  \/ EnsureFresh \/ ReadFile \/ StatFile \/ Install
  \/ Boot \/ ReplaceFixtureConfig \/ ResetFixtureConfig

RegSpec == RegInit /\ [][RegNext]_regVars

\* Lookups keep coming, and what a lookup starts it finishes.
RegFairness == WF_regVars(EnsureFresh \/ ReadFile \/ StatFile \/ Install)

----------------------------------------------------------------------------
(* Properties.                                                               *)

\* Types: a reload takes the time of each file once, an override is stored
\* under its own client (reload, replace_fixture_config).
RegTypeOK ==
  /\ DOMAIN file \subseteq Paths
  /\ \A p \in DOMAIN file : /\ file[p].content \in {"ok", "bad"} /\ file[p].mtime \in 0..clock
                            /\ file[p].content = "ok" => file[p].cfg \in Configs
  /\ load.state \in {"idle", "read", "stat"} /\ load.todo \subseteq Paths
  /\ load.state = "idle" => load = Idle
  /\ DOMAIN load.mtimes \intersect load.todo = {}
  /\ load.state = "stat" => load.todo /= {}
  /\ DOMAIN override \subseteq Clients
  /\ \A c \in DOMAIN override : override[c].client_id = c
  /\ up \in BOOLEAN /\ raced \subseteq Paths /\ moved \subseteq DOMAIN override

\* What lookups see is one whole directory: the same configurations by client
\* and by number, each from a file of its own, also when a later file of a
\* reload is malformed, duplicated or gone (reload swaps at its end).
CacheIsWhole ==
  /\ Range(reg.byId) = Range(reg.byNumber)
  /\ \A c \in DOMAIN reg.byId : reg.byId[c].client_id = c
  /\ \A n \in DOMAIN reg.byNumber : reg.byNumber[n].phone_number = n
  /\ Cardinality(DOMAIN reg.byId) = Cardinality(DOMAIN reg.mtimes)

\* A cache that passes for fresh differs from a file only if that file was
\* rewritten between its read and its stat, or within one tick of its time
\* (_stale compares modification times, reload takes them after reading).
FreshUnlessRaced ==
  load.state = "idle" /\ ~Stale =>
    \A p \in DOMAIN file \ raced : file[p].content = "ok" /\ file[p].cfg \in Range(reg.byId)

\* A call is answered with a configuration of the number it came in on,
\* unless the file of that client changed its number while an override of it
\* was in place (replace_fixture_config checks only when it is called).
RoutedByNumber ==
  \A n \in DOMAIN reg.byNumber :
    ResolveByNumber(n).phone_number = n \/ reg.byNumber[n].client_id \in moved

\* The cache as a whole: types, one directory at a time, fresh unless an edit
\* raced, and calls routed by their number (loader.py:39-130).
RegistryOK == RegTypeOK /\ CacheIsWhole /\ FreshUnlessRaced /\ RoutedByNumber

\* A directory the reload accepts as it stands.
Loadable ==
  /\ \A p \in DOMAIN file : file[p].content = "ok"
  /\ \A p, q \in DOMAIN file :
       p /= q => /\ file[p].cfg.client_id /= file[q].cfg.client_id
                 /\ file[p].cfg.phone_number /= file[q].cfg.phone_number

\* When editing ends with a directory that loads, the cache ends up with every
\* file whose edit its time shows, whatever failed before (_ensure_fresh on
\* every lookup; the fixed file needs no restart).
EditsTakeEffect ==
  <>[](Loadable =>
         \A p \in DOMAIN file \ raced : file[p].cfg \in Range(reg.byId))
============================================================================
