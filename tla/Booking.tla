------------------------------ MODULE Booking ------------------------------
(***************************************************************************)
(* book_appointment under run_tool: attempts with a time budget, the       *)
(* per-key lock and result cache in front of the provider, and the one     *)
(* POST per attempt (apps/api/tools/registry.py, apps/api/tools/booking.py *)
(* and apps/api/tools/calcom.py).                                          *)
(*                                                                         *)
(* A dispatch is one run_tool of the tool; a key is a (call_id,            *)
(* slot_start) pair. The bridge awaits its dispatches one at a time, the   *)
(* guard promises to cope with concurrent ones, so any may overlap here.   *)
(*                                                                         *)
(* External: the provider acts on every POST that reached it, also when    *)
(* nobody waits for the answer any more, and does not look at the key.     *)
(***************************************************************************)
EXTENDS Integers, FiniteSets, SequencesExt

CONSTANTS
  Dispatches,
  Keys,
  KeyOf,          \* dispatch -> key
  MaxAttempts     \* time budgets run_tool gives a `degrade` tool

ASSUME BookingAssumption ==
  /\ KeyOf \in [Dispatches -> Keys]
  /\ MaxAttempts \in Nat \ {0}

VARIABLES
  at,         \* where each dispatch is
  attempts,   \* attempts it has started
  result,     \* what the model is told
  line,       \* key -> dispatches at its lock, the holder first
  results,    \* keys whose booking is cached
  requests,   \* external: POSTs on the wire or answered
  bookings    \* external: key -> appointments the provider has made

bookVars == <<at, attempts, result, line, results, requests, bookings>>

\* The POST of the attempt under way, in one of its states.
Request(d, state) == [dispatch |-> d, attempt |-> attempts[d], state |-> state]
Holds(d) == line[KeyOf[d]] # <<>> /\ Head(line[KeyOf[d]]) = d

BookInit ==
  /\ at = [d \in Dispatches |-> "new"]
  /\ attempts = [d \in Dispatches |-> 0]
  /\ result = [d \in Dispatches |-> "none"]
  /\ line = [k \in Keys |-> <<>>]
  /\ results = {}
  /\ requests = {}
  /\ bookings = [k \in Keys |-> 0]

-----------------------------------------------------------------------------
(* The lock. asyncio.Lock is fair; leaving it is the end of `async with`,  *)
(* and a waiter that is cancelled takes its future out of the deque.       *)

Waits(d) == line' = [line EXCEPT ![KeyOf[d]] = Append(@, d)]

Place(d) == {i \in DOMAIN line[KeyOf[d]] : line[KeyOf[d]][i] = d}

Leaves(d) == \E i \in Place(d) : line' = [line EXCEPT ![KeyOf[d]] = RemoveAt(@, i)]

Requeues(d) == \E i \in Place(d) : line' = [line EXCEPT ![KeyOf[d]] = Append(RemoveAt(@, i), d)]

-----------------------------------------------------------------------------
(* run_tool *)

Ends(d, status) ==
  /\ at' = [at EXCEPT ![d] = "done"]
  /\ result' = [result EXCEPT ![d] = status]

Dispatch(d) ==
  /\ at[d] = "new"
  /\ at' = [at EXCEPT ![d] = "waiting"]
  /\ attempts' = [attempts EXCEPT ![d] = 1]
  /\ Waits(d)
  /\ UNCHANGED <<result, results, requests, bookings>>

\* The next budget, if one is left, starts at once.
AttemptFails(d) ==
  /\ \/ /\ attempts[d] < MaxAttempts
        /\ attempts' = [attempts EXCEPT ![d] = @ + 1]
        /\ at' = [at EXCEPT ![d] = "waiting"]
        /\ Requeues(d)
        /\ UNCHANGED result
     \/ /\ attempts[d] = MaxAttempts
        /\ Ends(d, "unavailable")
        /\ Leaves(d)
        /\ UNCHANGED attempts
  /\ UNCHANGED <<results, bookings>>

\* Mutant: the budget covers the lock and not the request.
TimesOutAtLock(d) ==
  /\ at[d] = "waiting"
  /\ AttemptFails(d)
  /\ UNCHANGED requests

\* wait_for cancels the handler at the lock or at the POST.
TimesOut(d) ==
  /\ at[d] \in {"waiting", "posting"}
  /\ AttemptFails(d)
  /\ UNCHANGED requests

\* The call ended and its pump was cancelled.
PumpCancelled(d) ==
  /\ at[d] \in {"waiting", "posting"}
  /\ at' = [at EXCEPT ![d] = "cancelled"]
  /\ Leaves(d)
  /\ UNCHANGED <<attempts, result, results, requests, bookings>>

-----------------------------------------------------------------------------
(* book_appointment *)

\* "booking_idempotent_hit"
CachedResult(d) ==
  /\ at[d] = "waiting"
  /\ Holds(d)
  /\ KeyOf[d] \in results
  /\ Ends(d, "ok")
  /\ Leaves(d)
  /\ UNCHANGED <<attempts, results, requests, bookings>>

\* Mutants: the result is cached before the provider answered, and the POST is
\* sent without the lock.
CreateBookingCached(d) ==
  /\ at[d] = "waiting"
  /\ Holds(d)
  /\ KeyOf[d] \notin results
  /\ at' = [at EXCEPT ![d] = "posting"]
  /\ requests' = requests \cup {Request(d, "sent")}
  /\ results' = results \cup {KeyOf[d]}
  /\ UNCHANGED <<attempts, result, line, bookings>>

CreateBookingUnlocked(d) ==
  /\ at[d] = "waiting"
  /\ KeyOf[d] \notin results
  /\ at' = [at EXCEPT ![d] = "posting"]
  /\ requests' = requests \cup {Request(d, "sent")}
  /\ UNCHANGED <<attempts, result, line, results, bookings>>

CreateBooking(d) ==
  /\ at[d] = "waiting"
  /\ Holds(d)
  /\ KeyOf[d] \notin results
  /\ at' = [at EXCEPT ![d] = "posting"]
  /\ requests' = requests \cup {Request(d, "sent")}
  /\ UNCHANGED <<attempts, result, line, results, bookings>>

AnswerIs(d, state) ==
  /\ at[d] = "posting"
  /\ Request(d, state) \in requests

\* Mutant: the result is not cached.
BookedUncached(d) ==
  /\ AnswerIs(d, "accepted")
  /\ Ends(d, "ok")
  /\ Leaves(d)
  /\ UNCHANGED <<attempts, results, requests, bookings>>

Booked(d) ==
  /\ AnswerIs(d, "accepted")
  /\ results' = results \cup {KeyOf[d]}
  /\ Ends(d, "ok")
  /\ Leaves(d)
  /\ UNCHANGED <<attempts, requests, bookings>>

\* A status of 400 or more raises, and so does a connection that breaks.
Raises(d) ==
  /\ \/ AnswerIs(d, "refused")
     \/ AnswerIs(d, "lost")
  /\ AttemptFails(d)
  /\ UNCHANGED requests

-----------------------------------------------------------------------------
(* External: the provider and the network *)

Becomes(r, state) == requests' = (requests \ {r}) \cup {[r EXCEPT !.state = state]}

\* Waiting or not, a request that was sent is acted on.
ProviderBooks(r) ==
  /\ r.state = "sent"
  /\ bookings' = [bookings EXCEPT ![KeyOf[r.dispatch]] = @ + 1]
  /\ \E state \in {"accepted", "lost"} : Becomes(r, state)
  /\ UNCHANGED <<at, attempts, result, line, results>>

ProviderRefuses(r) ==
  /\ r.state = "sent"
  /\ \E state \in {"refused", "lost"} : Becomes(r, state)
  /\ UNCHANGED <<at, attempts, result, line, results, bookings>>

-----------------------------------------------------------------------------

DispatchStep(d) ==
  \/ TimesOut(d)
  \/ CachedResult(d)
  \/ CreateBooking(d)
  \/ Booked(d)
  \/ Raises(d)

BookNext ==
  \/ \E d \in Dispatches : Dispatch(d) \/ DispatchStep(d) \/ PumpCancelled(d)
  \/ \E r \in requests : ProviderBooks(r) \/ ProviderRefuses(r)

\* The event loop runs a task that can run, and its timers fire.
BookSpec ==
  /\ BookInit
  /\ [][BookNext]_bookVars
  /\ \A d \in Dispatches : WF_bookVars(DispatchStep(d))

-----------------------------------------------------------------------------
(* Properties *)

BookTypeOK ==
  /\ at \in [Dispatches -> {"new", "waiting", "posting", "done", "cancelled"}]
  /\ attempts \in [Dispatches -> 0..MaxAttempts]
  /\ result \in [Dispatches -> {"none", "ok", "unavailable"}]
  /\ \A k \in Keys : ToSet(line[k]) \subseteq Dispatches
  /\ results \subseteq Keys
  /\ requests \subseteq [dispatch : Dispatches, attempt : 1..MaxAttempts,
                         state : {"sent", "accepted", "refused", "lost"}]
  /\ bookings \in [Keys -> Nat]

\* "Degraded means a callback promise. It never means telling the caller they
\* are booked" (booking.py:9-10): whoever is told "ok", from the provider's
\* answer or from the cache, has an appointment at the provider.
OkMeansBooked ==
  \A d \in Dispatches : result[d] = "ok" => bookings[KeyOf[d]] > 0

\* The POSTs of a key that nobody is waiting for and that are not known to
\* have been refused.
Unanswered(k) ==
  {r \in requests : /\ KeyOf[r.dispatch] = k
                    /\ r.state # "refused"
                    /\ ~(at[r.dispatch] = "posting" /\ r.attempt = attempts[r.dispatch])
                    /\ ~(r.state = "accepted" /\ result[r.dispatch] = "ok"
                           /\ r.attempt = attempts[r.dispatch])}

\* "the in-process lock plus a completed-keys cache means two concurrent
\* dispatches of the same booking collapse into one Cal.com write"
\* (booking.py:5-7): beyond one appointment, a key has at most as many as it
\* has POSTs whose answer nobody received.
ExtraBookingsWereUnanswered ==
  \A k \in Keys : bookings[k] <= 1 + Cardinality(Unanswered(k))

\* At most one POST of a key is awaited at any time, and none is sent once a
\* result is cached (booking.py:99-115).
OneWriterPerKey ==
  \A d, e \in Dispatches :
    /\ at[d] = "posting" => KeyOf[d] \notin results
    /\ at[d] = "posting" /\ at[e] = "posting" /\ d # e => KeyOf[d] # KeyOf[e]

\* The caller is never left hanging: with two bounded budgets every dispatch
\* answers, however long the lock or the provider takes (registry.py:159-178).
EveryDispatchAnswers ==
  \A d \in Dispatches : at[d] = "waiting" ~> at[d] \in {"done", "cancelled"}

\* "Two things make double-booking impossible under retry" (booking.py:3).
NoDoubleBooking == \A k \in Keys : bookings[k] <= 1

\* The in-process side: types, and the lock that serialises a key (booking.py:99-115).
LocksOK == BookTypeOK /\ OneWriterPerKey

=============================================================================
