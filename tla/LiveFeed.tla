------------------------------ MODULE LiveFeed -----------------------------
(***************************************************************************)
(* The live call feed: the on_event hook that stores an event and then     *)
(* publishes it (apps/api/media/gateway.py), the hub with one bounded      *)
(* queue per viewer (observability/live.py), and the SSE stream that       *)
(* drains it (routers/stream.py).                                          *)
(*                                                                         *)
(* A publisher is a task of a call. An event is <<publisher, n>>, the n-th *)
(* event of its publisher. Publishing awaits nothing.                      *)
(***************************************************************************)
EXTENDS Naturals, Sequences, SequencesExt

CONSTANTS
  Publishers,       \* tasks of the calls
  Viewers,
  OnlyOf,           \* viewer -> publishers its ?call_id= filter lets through
  QueueMax,         \* QUEUE_MAXSIZE
  MaxEvents,        \* bound: events of one publisher
  MaxConnects       \* bound: connections of one viewer

ASSUME FeedAssumption ==
  QueueMax \in Nat \ {0} /\ MaxEvents \in Nat

VARIABLES
  pub,      \* publisher -> its hook: "idle", "insert", "publish", "failed"
  count,    \* publisher -> events it has begun
  stored,   \* rows of call_events that are committed
  viewer,   \* viewer -> its subscription
  log       \* history: what was published, in order

feedVars == <<pub, count, stored, viewer, log>>

\* `seen` is what its stream took off its queue, `shown` the places of what it
\* yielded of that, `lost` how many events found its queue full.
Subscription(at, joined, connects) ==
  [at |-> at, queue |-> <<>>, seen |-> <<>>, shown |-> {}, joined |-> joined, lost |-> 0,
   connects |-> connects]

Subscribed(v) == viewer[v].at \in {"live", "gone"}

FeedInit ==
  /\ pub = [p \in Publishers |-> "idle"]
  /\ count = [p \in Publishers |-> 0]
  /\ stored = {}
  /\ viewer = [v \in Viewers |-> Subscription("away", 0, 0)]
  /\ log = <<>>

-----------------------------------------------------------------------------
(* EventHub.publish *)

Put(v, e) ==
  IF ~Subscribed(v) THEN viewer[v]
  ELSE IF Len(viewer[v].queue) >= QueueMax THEN [viewer[v] EXCEPT !.lost = @ + 1]
  ELSE [viewer[v] EXCEPT !.queue = Append(@, e)]

\* Mutant: put is awaited.
PublishAwaits(e) ==
  /\ \A v \in Viewers : Put(v, e).lost = viewer[v].lost
  /\ log' = Append(log, e)
  /\ viewer' = [v \in Viewers |-> Put(v, e)]

Publish(e) ==
  /\ log' = Append(log, e)
  /\ viewer' = [v \in Viewers |-> Put(v, e)]

-----------------------------------------------------------------------------
(* on_event of the gateway. *)

Emits(p) ==
  /\ pub' = [pub EXCEPT ![p] = "insert"]
  /\ count' = [count EXCEPT ![p] = @ + 1]

Emit(p) ==
  /\ pub[p] = "idle" /\ count[p] < MaxEvents
  /\ Emits(p)
  /\ UNCHANGED <<stored, viewer, log>>

\* The insert and its commit; an error leaves the hook, and the task with it.
InsertCallEvent(p) ==
  /\ pub[p] = "insert"
  /\ \/ /\ stored' = stored \cup {<<p, count[p]>>}
        /\ pub' = [pub EXCEPT ![p] = "publish"]
     \/ pub' = [pub EXCEPT ![p] = "failed"] /\ UNCHANGED stored
  /\ UNCHANGED <<count, viewer, log>>

\* Mutant: the event is published before its transaction is over.
PublishEventEarly(p) ==
  /\ pub[p] \in {"insert", "publish"}
  /\ Publish(<<p, count[p]>>)
  /\ pub' = [pub EXCEPT ![p] = "idle"]
  /\ UNCHANGED <<count, stored>>

PublishEvent(p) ==
  /\ pub[p] = "publish"
  /\ Publish(<<p, count[p]>>)
  /\ pub' = [pub EXCEPT ![p] = "idle"]
  /\ UNCHANGED <<count, stored>>

-----------------------------------------------------------------------------
(* The SSE stream of one viewer. *)

Connect(v) ==
  /\ viewer[v].at = "away" /\ viewer[v].connects < MaxConnects
  /\ viewer' = [viewer EXCEPT ![v] = Subscription("live", Len(log), viewer[v].connects + 1)]
  /\ UNCHANGED <<pub, count, stored, log>>

Shown(v, e) == e[1] \in OnlyOf[v]

\* queue.get, the filter and the yield. A viewer that does not read stays there.
StreamEvent(v) ==
  /\ Subscribed(v) /\ viewer[v].queue # <<>>
  /\ LET r == viewer[v]  e == Head(r.queue) IN
       viewer' = [viewer EXCEPT ![v] =
         [at |-> r.at, queue |-> Tail(r.queue), seen |-> Append(r.seen, e),
          shown |-> IF Shown(v, e) THEN r.shown \cup {Len(r.seen) + 1} ELSE r.shown,
          joined |-> r.joined, lost |-> r.lost, connects |-> r.connects]]
  /\ UNCHANGED <<pub, count, stored, log>>

\* External: the browser goes away.
Disconnect(v) ==
  /\ viewer[v].at = "live"
  /\ viewer' = [viewer EXCEPT ![v].at = "gone"]
  /\ UNCHANGED <<pub, count, stored, log>>

\* is_disconnected at the top of the loop, at the latest one heartbeat later.
Unsubscribe(v) ==
  /\ viewer[v].at = "gone"
  /\ viewer' = [viewer EXCEPT ![v] = Subscription("away", 0, viewer[v].connects)]
  /\ UNCHANGED <<pub, count, stored, log>>

FeedNext ==
  \/ \E p \in Publishers : Emit(p) \/ InsertCallEvent(p) \/ PublishEvent(p)
  \/ \E v \in Viewers : Connect(v) \/ StreamEvent(v) \/ Disconnect(v) \/ Unsubscribe(v)

-----------------------------------------------------------------------------
(* Properties *)

FeedTypeOK ==
  /\ pub \in [Publishers -> {"idle", "insert", "publish", "failed"}]
  /\ count \in [Publishers -> Nat]
  /\ \A e \in stored : e[1] \in Publishers /\ e[2] \in 1..count[e[1]]
  /\ \A v \in Viewers :
       /\ viewer[v].at \in {"away", "live", "gone"}
       /\ Len(viewer[v].queue) <= QueueMax
       /\ viewer[v].joined \in 0..Len(log)

\* What a viewer is shown or will be of a call is in the database: a reload of
\* the call page never takes back what the live view showed (gateway.py:199-208).
LiveNeverAheadOfDb ==
  \A v \in Viewers : \A e \in ToSet(viewer[v].seen \o viewer[v].queue) :
    e \in stored

\* "Drop the event for that subscriber only" (live.py:57-60): a viewer whose own
\* queue was never full at a publish takes every event since it subscribed, once
\* and in the order of publication, and is shown each that its filter lets
\* through, whatever the other viewers do.
NoGapUnlessFull ==
  \A v \in Viewers : LET r == viewer[v] IN Subscribed(v) /\ r.lost = 0 =>
    /\ r.seen \o r.queue = SubSeq(log, r.joined + 1, Len(log))
    /\ r.shown = {i \in 1..Len(r.seen) : r.seen[i][1] \in OnlyOf[v]}

\* Also with gaps, what a viewer sees of one publisher is in its order.
FeedInOrder ==
  \A v \in Viewers : LET s == viewer[v].seen \o viewer[v].queue IN
    \A i, j \in 1..Len(s) : i < j /\ s[i][1] = s[j][1] => s[i][2] < s[j][2]

\* What a viewer sees is stored, complete unless its own queue filled, and in
\* order (gateway.py:199-208, live.py:39-60).
FeedOK == LiveNeverAheadOfDb /\ NoGapUnlessFull /\ FeedInOrder

\* "A slow dashboard tab must never apply backpressure to a live phone call"
\* (live.py:58-59): a hook never waits for a viewer, whether or not anybody reads.
PublishNeverWaits == \A p \in Publishers : pub[p] = "publish" ~> pub[p] # "publish"

\* A viewer that went away is forgotten, so the hub does not grow with them.
GoneViewerForgotten == \A v \in Viewers : viewer[v].at = "gone" ~> viewer[v].at # "gone"

\* Neither side of the hub holds the other up or is kept for ever (live.py:39-60,
\* stream.py:26-46).
FeedNeverStuck == PublishNeverWaits /\ GoneViewerForgotten

=============================================================================
