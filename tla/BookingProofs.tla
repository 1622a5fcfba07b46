---------------------------- MODULE BookingProofs ----------------------------
(***************************************************************************)
(* For any number of dispatches, keys and attempts: nobody is told "ok"    *)
(* without an appointment at the provider; the lock admits one writer per  *)
(* key; and beyond one appointment a key has only those whose answer was   *)
(* not received.                                                           *)
(***************************************************************************)
EXTENDS Booking, FiniteSetTheorems, TLAPS

RequestStates == {"sent", "accepted", "refused", "lost"}
Requests == [dispatch : Dispatches, attempt : Int, state : RequestStates]

\* "ok" comes from an accepted request or from the cache, the cache from an
\* accepted request, and a request is accepted only together with an
\* appointment; appointments are never taken back.
BookedInv ==
  /\ attempts \in [Dispatches -> Int]
  /\ result \in [Dispatches -> {"none", "ok", "unavailable"}]
  /\ bookings \in [Keys -> Nat]
  /\ requests \subseteq Requests
  /\ \A r \in requests : r.state = "accepted" => bookings[KeyOf[r.dispatch]] > 0
  /\ \A k \in results \cap Keys : bookings[k] > 0
  /\ OkMeansBooked

\* Before the first dispatch nothing was requested, cached or told
\* (booking.py:31-43).
LEMMA BookedInitInv == BookInit => BookedInv
  BY BookingAssumption DEF BookInit, BookedInv, OkMeansBooked

\* A failed attempt, and a cancelled one, tell nobody "ok" (registry.py:159-188).
LEMMA FailureInv ==
  ASSUME BookedInv, NEW d \in Dispatches,
         \/ AttemptFails(d) /\ UNCHANGED requests
         \/ PumpCancelled(d) \/ Dispatch(d)
  PROVE  BookedInv'
<1>1. /\ UNCHANGED <<results, requests, bookings>>
      /\ attempts' \in [Dispatches -> Int]
      /\ result' = result \/ result' = [result EXCEPT ![d] = "unavailable"]
  BY DEF AttemptFails, PumpCancelled, Dispatch, Ends, BookedInv
<1>. QED BY <1>1 DEF BookedInv, OkMeansBooked

\* Sending a POST tells nobody anything (calcom.py:128-160).
LEMMA CreateBookingInv ==
  ASSUME BookedInv, NEW d \in Dispatches, CreateBooking(d)
  PROVE  BookedInv'
<1>1. Request(d, "sent") \in Requests /\ Request(d, "sent").state = "sent"
  BY DEF Request, Requests, RequestStates, BookedInv
<1>. QED BY <1>1 DEF CreateBooking, BookedInv, OkMeansBooked

\* "ok" from the cache or from the provider's answer (booking.py:99-115).
LEMMA OkInv ==
  ASSUME BookedInv, NEW d \in Dispatches, CachedResult(d) \/ Booked(d)
  PROVE  BookedInv'
<1>1. KeyOf[d] \in Keys
  BY BookingAssumption
<1>2. bookings[KeyOf[d]] > 0
  <2>1. CASE CachedResult(d)
    BY <1>1, <2>1 DEF CachedResult, BookedInv
  <2>2. CASE Booked(d)
    <3>1. Request(d, "accepted") \in requests
      BY <2>2 DEF Booked, AnswerIs
    <3>. QED BY <3>1 DEF Request, BookedInv
  <2>. QED BY <2>1, <2>2
<1>3. /\ result' = [result EXCEPT ![d] = "ok"] /\ UNCHANGED <<attempts, requests, bookings>>
      /\ results' \subseteq results \cup {KeyOf[d]}
  BY DEF CachedResult, Booked, Ends
<1>. QED BY <1>1, <1>2, <1>3 DEF BookedInv, OkMeansBooked

\* The provider's decision on a request (calcom.py:95-97).
LEMMA ProviderInv ==
  ASSUME BookedInv, NEW r \in requests, ProviderBooks(r) \/ ProviderRefuses(r)
  PROVE  BookedInv'
<1>1. r \in Requests /\ KeyOf[r.dispatch] \in Keys
  BY BookingAssumption DEF BookedInv, Requests
<1>2. PICK state \in RequestStates :
        /\ requests' = (requests \ {r}) \cup {[r EXCEPT !.state = state]}
        /\ state = "accepted" => ProviderBooks(r)
  BY DEF ProviderBooks, ProviderRefuses, Becomes, RequestStates
<1>3. /\ [r EXCEPT !.state = state] \in Requests
      /\ [r EXCEPT !.state = state].state = state
      /\ [r EXCEPT !.state = state].dispatch = r.dispatch
  BY <1>1 DEF Requests
<1>4. /\ UNCHANGED <<attempts, result, results>>
      /\ bookings' \in [Keys -> Nat]
      /\ \A k \in Keys : bookings[k] > 0 => bookings'[k] > 0
      /\ ProviderBooks(r) => bookings'[KeyOf[r.dispatch]] > 0
  BY <1>1 DEF ProviderBooks, ProviderRefuses, BookedInv
<1>5. \A q \in requests' : q.state = "accepted" => bookings'[KeyOf[q.dispatch]] > 0
  <2>. SUFFICES ASSUME NEW q \in requests', q.state = "accepted"
                PROVE  bookings'[KeyOf[q.dispatch]] > 0
    OBVIOUS
  <2>1. CASE q \in requests
    <3>1. KeyOf[q.dispatch] \in Keys /\ bookings[KeyOf[q.dispatch]] > 0
      BY <2>1, BookingAssumption DEF BookedInv, Requests
    <3>. QED BY <1>4, <3>1
  <2>2. CASE q = [r EXCEPT !.state = state]
    BY <1>2, <1>3, <1>4, <2>2
  <2>. QED BY <1>2, <2>1, <2>2
<1>6. requests' \subseteq Requests
  BY <1>2, <1>3 DEF BookedInv
<1>7. OkMeansBooked'
  BY <1>4, BookingAssumption DEF BookedInv, OkMeansBooked
<1>. QED BY <1>4, <1>5, <1>6, <1>7 DEF BookedInv

\* Every step keeps the invariant.
LEMMA BookedStepInv == BookedInv /\ [BookNext]_bookVars => BookedInv'
<1>. SUFFICES ASSUME BookedInv, [BookNext]_bookVars PROVE BookedInv'
  OBVIOUS
<1>1. ASSUME NEW d \in Dispatches, Dispatch(d) \/ PumpCancelled(d) \/ TimesOut(d) \/ Raises(d)
      PROVE  BookedInv'
  BY <1>1, FailureInv DEF TimesOut, Raises
<1>2. ASSUME NEW d \in Dispatches, CreateBooking(d)
      PROVE  BookedInv'
  BY <1>2, CreateBookingInv
<1>3. ASSUME NEW d \in Dispatches, CachedResult(d) \/ Booked(d)
      PROVE  BookedInv'
  BY <1>3, OkInv
<1>4. ASSUME NEW r \in requests, ProviderBooks(r) \/ ProviderRefuses(r)
      PROVE  BookedInv'
  BY <1>4, ProviderInv
<1>5. CASE UNCHANGED bookVars
  BY <1>5 DEF bookVars, BookedInv, OkMeansBooked
<1>. QED BY <1>1, <1>2, <1>3, <1>4, <1>5 DEF BookNext, DispatchStep

\* Whatever times out, is lost, retried or cancelled: a caller who is told "ok"
\* has an appointment (booking.py:9-10).
THEOREM OkIsBooked == BookSpec => []OkMeansBooked
<1>1. BookedInv => OkMeansBooked
  BY DEF BookedInv
<1>. QED BY <1>1, BookedInitInv, BookedStepInv, PTL DEF BookSpec

-----------------------------------------------------------------------------
(* The lock *)

Places == {"new", "waiting", "posting", "done", "cancelled"}
Busy == {"waiting", "posting"}
Posts == [dispatch : Dispatches, attempt : 1..MaxAttempts, state : RequestStates]
InLine(d, k) == \E i \in DOMAIN line[k] : line[k][i] = d

\* A line holds dispatches of its key that are under way, each once, and whoever
\* posts is at its head and not yet answered.
LineInv ==
  /\ line \in [Keys -> Seq(Dispatches)]
  /\ \A k \in Keys : \A i, j \in DOMAIN line[k] : line[k][i] = line[k][j] => i = j
  /\ \A k \in Keys, d \in Dispatches : InLine(d, k) => at[d] \in Busy /\ KeyOf[d] = k
  /\ \A d \in Dispatches : at[d] = "posting" => Holds(d) /\ KeyOf[d] \notin results

LockInv ==
  /\ at \in [Dispatches -> Places]
  /\ attempts \in [Dispatches -> 0..MaxAttempts]
  /\ result \in [Dispatches -> {"none", "ok", "unavailable"}]
  /\ results \subseteq Keys
  /\ requests \subseteq Posts
  /\ bookings \in [Keys -> Nat]
  /\ \A d \in Dispatches : at[d] \in Busy => attempts[d] >= 1
  /\ LineInv

\* How a lock operation of `d` changes the line of its key: nobody else joins,
\* and whoever else holds the lock keeps it.
Moves(d) ==
  /\ line' \in [Keys -> Seq(Dispatches)]
  /\ \A k \in Keys : k # KeyOf[d] => line'[k] = line[k]
  /\ \A i, j \in DOMAIN line'[KeyOf[d]] : line'[KeyOf[d]][i] = line'[KeyOf[d]][j] => i = j
  /\ \A e \in Dispatches : e # d /\ InLine(e, KeyOf[d])' => InLine(e, KeyOf[d])
  /\ \A e \in Dispatches : e # d /\ KeyOf[e] = KeyOf[d] /\ Holds(e) => Holds(e)'

\* What is left when one waiter is taken out of the deque.
LEMMA Removed ==
  ASSUME NEW S, NEW s \in Seq(S), NEW i \in DOMAIN s
  PROVE  /\ RemoveAt(s, i) \in Seq(S)
         /\ Len(RemoveAt(s, i)) = Len(s) - 1
         /\ \A j \in 1..(Len(s) - 1) : j < i => RemoveAt(s, i)[j] = s[j]
         /\ \A j \in 1..(Len(s) - 1) : j >= i => RemoveAt(s, i)[j] = s[j + 1]
<1>. DEFINE a == SubSeq(s, 1, i - 1)
            b == SubSeq(s, i + 1, Len(s))
<1>1. i \in 1..Len(s) /\ Len(s) \in Nat
  OBVIOUS
<1>2. a \in Seq(S) /\ Len(a) = i - 1 /\ \A j \in 1..(i - 1) : a[j] = s[j]
  BY <1>1
<1>3. b \in Seq(S) /\ Len(b) = Len(s) - i /\ \A j \in 1..(Len(s) - i) : b[j] = s[i + j]
  BY <1>1
<1>. HIDE DEF a, b
<1>4. a \o b \in Seq(S) /\ Len(a \o b) = Len(s) - 1
  BY <1>1, <1>2, <1>3
<1>5. ASSUME NEW j \in 1..(Len(s) - 1)
      PROVE  (a \o b)[j] = IF j <= Len(a) THEN a[j] ELSE b[j - Len(a)]
  BY <1>1, <1>2, <1>3
<1>6. \A j \in 1..(Len(s) - 1) : j < i => (a \o b)[j] = s[j]
  BY <1>1, <1>2, <1>5
<1>7. ASSUME NEW j \in 1..(Len(s) - 1), j >= i
      PROVE  (a \o b)[j] = s[j + 1]
  <2>1. j - (i - 1) \in 1..(Len(s) - i) /\ i + (j - (i - 1)) = j + 1
    BY <1>1, <1>7
  <2>2. ~(j <= Len(a)) /\ j - Len(a) = j - (i - 1)
    BY <1>1, <1>2, <1>7
  <2>3. (a \o b)[j] = b[j - (i - 1)]
    BY <1>5, <2>2
  <2>4. b[j - (i - 1)] = s[i + (j - (i - 1))]
    BY <1>3, <2>1
  <2>. QED BY <2>1, <2>3, <2>4
<1>. QED BY <1>4, <1>6, <1>7 DEF RemoveAt, a, b

\* Entering the line, leaving it and going to its end are moves of one
\* dispatch; who leaves is in it no more (booking.py:64-65 and 99).
LEMMA WaitsMoves ==
  ASSUME LineInv, NEW d \in Dispatches, Waits(d), ~InLine(d, KeyOf[d])
  PROVE  Moves(d)
<1>. DEFINE k == KeyOf[d]
            s == line[k]
            t == Append(s, d)
<1>1. k \in Keys /\ s \in Seq(Dispatches) /\ line' = [line EXCEPT ![k] = t]
  BY BookingAssumption DEF LineInv, Waits
<1>2. /\ t \in Seq(Dispatches) /\ Len(t) = Len(s) + 1 /\ t[Len(s) + 1] = d
      /\ \A i \in 1..Len(s) : t[i] = s[i]
      /\ Len(s) \in Nat /\ DOMAIN s = 1..Len(s) /\ DOMAIN t = 1..(Len(s) + 1)
  BY <1>1
<1>3. /\ \A i \in 1..Len(s) : s[i] # d
      /\ \A i, j \in 1..Len(s) : s[i] = s[j] => i = j
  BY <1>1, <1>2 DEF InLine, LineInv
<1>4. \A e \in Dispatches : KeyOf[e] = k => (Holds(e) <=> 1 <= Len(s) /\ s[1] = e)
  BY <1>1, <1>2 DEF Holds
<1>5. \A e \in Dispatches : KeyOf[e] = k => (Holds(e)' <=> t[1] = e)
  BY <1>1, <1>2 DEF Holds, LineInv
<1>6. line' \in [Keys -> Seq(Dispatches)] /\ line'[k] = t /\ \A q \in Keys : q # k => line'[q] = line[q]
  BY <1>1, <1>2 DEF LineInv
<1>. HIDE DEF t, s
<1>7. \A i, j \in DOMAIN t : t[i] = t[j] => i = j
  BY <1>2, <1>3
<1>8. \A e \in Dispatches : e # d /\ InLine(e, k)' => InLine(e, k)
  BY <1>2, <1>6 DEF InLine, s
<1>9. \A e \in Dispatches : KeyOf[e] = k /\ Holds(e) => Holds(e)'
  BY <1>2, <1>4, <1>5
<1>. QED BY <1>6, <1>7, <1>8, <1>9 DEF Moves

LEMMA LeavesMoves ==
  ASSUME LineInv, NEW d \in Dispatches, Leaves(d)
  PROVE  Moves(d) /\ ~InLine(d, KeyOf[d])'
<1>. DEFINE k == KeyOf[d]
            s == line[k]
<1>1. PICK n \in DOMAIN s : s[n] = d /\ line' = [line EXCEPT ![k] = RemoveAt(s, n)]
  BY DEF Leaves, Place
<1>. DEFINE t == RemoveAt(s, n)
<1>2. k \in Keys /\ s \in Seq(Dispatches) /\ Len(s) \in Nat /\ DOMAIN s = 1..Len(s) /\ n \in 1..Len(s)
  BY BookingAssumption, <1>1 DEF LineInv
<1>3. /\ t \in Seq(Dispatches) /\ Len(t) = Len(s) - 1
      /\ \A j \in 1..(Len(s) - 1) : j < n => t[j] = s[j]
      /\ \A j \in 1..(Len(s) - 1) : j >= n => t[j] = s[j + 1]
  BY <1>2, Removed
<1>4. \A i, j \in 1..Len(s) : s[i] = s[j] => i = j
  BY <1>2 DEF LineInv
<1>5. \A e \in Dispatches : KeyOf[e] = k => (Holds(e) <=> 1 <= Len(s) /\ s[1] = e)
  BY <1>2 DEF Holds
<1>6. line' \in [Keys -> Seq(Dispatches)] /\ line'[k] = t /\ \A q \in Keys : q # k => line'[q] = line[q]
  BY <1>1, <1>2, <1>3 DEF LineInv
<1>7. \A e \in Dispatches : KeyOf[e] = k => (Holds(e)' <=> 1 <= Len(t) /\ t[1] = e)
  BY <1>3, <1>6 DEF Holds
<1>8. /\ DOMAIN t = 1..(Len(s) - 1)
      /\ \A e : InLine(e, k)' <=> \E j \in DOMAIN t : t[j] = e
      /\ \A e : InLine(e, k) <=> \E i \in 1..Len(s) : s[i] = e
  BY <1>2, <1>3, <1>6 DEF InLine
<1>. HIDE DEF t, s
<1>9. \A j \in DOMAIN t : \E i \in 1..Len(s) : i # n /\ t[j] = s[i] /\ i = IF j < n THEN j ELSE j + 1
  <2>. TAKE j \in DOMAIN t
  <2>1. CASE j < n
    BY <1>2, <1>3, <1>8, <2>1
  <2>2. CASE j >= n
    BY <1>2, <1>3, <1>8, <2>2
  <2>. QED BY <1>2, <1>8, <2>1, <2>2
<1>10. \A i, j \in DOMAIN t : t[i] = t[j] => i = j
  BY <1>2, <1>4, <1>8, <1>9
<1>11. /\ \A e \in Dispatches : InLine(e, k)' => InLine(e, k)
       /\ ~InLine(d, k)'
  BY <1>1, <1>2, <1>4, <1>8, <1>9
<1>12. \A e \in Dispatches : e # d /\ KeyOf[e] = k /\ Holds(e) => Holds(e)'
  BY <1>1, <1>2, <1>3, <1>5, <1>7 DEF s
<1>. QED BY <1>6, <1>10, <1>11, <1>12 DEF Moves

LEMMA RequeuesMoves ==
  ASSUME LineInv, NEW d \in Dispatches, Requeues(d)
  PROVE  Moves(d)
<1>. DEFINE k == KeyOf[d]
            s == line[k]
<1>1. PICK n \in DOMAIN s : s[n] = d /\ line' = [line EXCEPT ![k] = Append(RemoveAt(s, n), d)]
  BY DEF Requeues, Place
<1>. DEFINE t == Append(RemoveAt(s, n), d)
<1>2. k \in Keys /\ s \in Seq(Dispatches) /\ Len(s) \in Nat /\ DOMAIN s = 1..Len(s) /\ n \in 1..Len(s)
  BY BookingAssumption, <1>1 DEF LineInv
<1>3. /\ RemoveAt(s, n) \in Seq(Dispatches) /\ Len(RemoveAt(s, n)) = Len(s) - 1
      /\ \A j \in 1..(Len(s) - 1) : j < n => RemoveAt(s, n)[j] = s[j]
      /\ \A j \in 1..(Len(s) - 1) : j >= n => RemoveAt(s, n)[j] = s[j + 1]
  BY <1>2, Removed
<1>4. /\ t \in Seq(Dispatches) /\ Len(t) = Len(s) /\ DOMAIN t = 1..Len(s) /\ t[Len(s)] = d
      /\ \A j \in 1..(Len(s) - 1) : t[j] = RemoveAt(s, n)[j]
  BY <1>2, <1>3
<1>5. \A i, j \in 1..Len(s) : s[i] = s[j] => i = j
  BY <1>2 DEF LineInv
<1>6. \A e \in Dispatches : KeyOf[e] = k => (Holds(e) <=> 1 <= Len(s) /\ s[1] = e)
  BY <1>2 DEF Holds
<1>7. line' \in [Keys -> Seq(Dispatches)] /\ line'[k] = t /\ \A q \in Keys : q # k => line'[q] = line[q]
  BY <1>1, <1>2, <1>4 DEF LineInv
<1>8. \A e \in Dispatches : KeyOf[e] = k => (Holds(e)' <=> t[1] = e)
  <2>1. Len(t) >= 1
    BY <1>2, <1>4
  <2>. QED BY <2>1, <1>2, <1>7 DEF Holds
<1>9. /\ \A e : InLine(e, k)' <=> \E j \in DOMAIN t : t[j] = e
      /\ \A e : InLine(e, k) <=> \E i \in 1..Len(s) : s[i] = e
  BY <1>2, <1>7 DEF InLine
<1>. HIDE DEF t
<1>10. \A j \in DOMAIN t : \E i \in 1..Len(s) :
         t[j] = s[i] /\ i = IF j = Len(s) THEN n ELSE IF j < n THEN j ELSE j + 1
  <2>. TAKE j \in DOMAIN t
  <2>1. CASE j = Len(s)
    BY <1>1, <1>2, <1>4, <2>1
  <2>2. CASE j # Len(s) /\ j < n
    BY <1>2, <1>3, <1>4, <2>2
  <2>3. CASE j # Len(s) /\ j >= n
    BY <1>2, <1>3, <1>4, <2>3
  <2>. QED BY <1>2, <1>4, <2>1, <2>2, <2>3
<1>. HIDE DEF s
<1>11. \A i, j \in DOMAIN t : t[i] = t[j] => i = j
  BY <1>2, <1>4, <1>5, <1>10
<1>12. \A e \in Dispatches : e # d /\ InLine(e, k)' => InLine(e, k)
  BY <1>9, <1>10
<1>13. \A e \in Dispatches : e # d /\ KeyOf[e] = k /\ Holds(e) => Holds(e)'
  BY <1>1, <1>2, <1>3, <1>4, <1>6, <1>8
<1>. QED BY <1>7, <1>11, <1>12, <1>13 DEF Moves

\* A dispatch that moves in the line of its key and does not post keeps the
\* lock in order, if it is not in line once it is no longer under way.
LEMMA MovesLine ==
  ASSUME LineInv, NEW d \in Dispatches, Moves(d), NEW place \in Places,
         at \in [Dispatches -> Places], at' = [at EXCEPT ![d] = place],
         place # "posting",
         place \in Busy \/ ~InLine(d, KeyOf[d])',
         results' = results \/ (results' = results \cup {KeyOf[d]} /\ at[d] = "posting")
  PROVE  LineInv'
<1>1. KeyOf \in [Dispatches -> Keys] /\ \A e \in Dispatches : at'[e] = IF e = d THEN place ELSE at[e]
  BY BookingAssumption
<1>2. \A k \in Keys : k # KeyOf[d] => line'[k] = line[k]
  BY DEF Moves
<1>3. (\A k \in Keys : \A i, j \in DOMAIN line[k] : line[k][i] = line[k][j] => i = j)'
  BY <1>1, <1>2 DEF Moves, LineInv
<1>4. \A k \in Keys, e \in Dispatches : e # d /\ InLine(e, k)' => InLine(e, k)
  BY <1>2 DEF Moves, InLine
<1>5. \A k \in Keys : InLine(d, k)' => k = KeyOf[d]
  BY <1>2 DEF LineInv, InLine
<1>6. (\A k \in Keys, e \in Dispatches : InLine(e, k) => at[e] \in Busy /\ KeyOf[e] = k)'
  BY <1>1, <1>4, <1>5 DEF LineInv
<1>7. ASSUME NEW e \in Dispatches, at'[e] = "posting"
      PROVE  Holds(e)' /\ KeyOf[e] \notin results'
  <2>1. e # d /\ at[e] = "posting" /\ Holds(e) /\ KeyOf[e] \notin results
    BY <1>1, <1>7 DEF LineInv
  <2>2. Holds(e)'
    <3>1. CASE KeyOf[e] = KeyOf[d]
      BY <2>1, <3>1 DEF Moves
    <3>2. CASE KeyOf[e] # KeyOf[d]
      BY <1>1, <1>2, <2>1, <3>2 DEF Holds
    <3>. QED BY <3>1, <3>2
  <2>3. KeyOf[e] = KeyOf[d] => at[d] # "posting"
    BY <2>1 DEF LineInv, Holds
  <2>. QED BY <2>1, <2>2, <2>3
<1>. QED BY <1>3, <1>6, <1>7 DEF LineInv, Moves

\* Nobody is in line before the first dispatch.
LEMMA LockInit == BookInit => LockInv
  BY BookingAssumption DEF BookInit, LockInv, LineInv, InLine, Places, Busy, Holds

\* The steps by which a dispatch enters the line, moves in it or leaves it
\* (booking.py:99-115, registry.py:159-188).
LEMMA MoveLock ==
  ASSUME LockInv, NEW d \in Dispatches,
         \/ Dispatch(d) \/ PumpCancelled(d) \/ CachedResult(d) \/ Booked(d)
         \/ at[d] \in Busy /\ AttemptFails(d) /\ UNCHANGED requests
  PROVE  LockInv'
<1>. USE DEF LockInv
<1>1. CASE Dispatch(d)
  <2>1. ~InLine(d, KeyOf[d])
    BY <1>1, BookingAssumption DEF Dispatch, LineInv, Busy
  <2>2. LineInv'
    BY <1>1, <2>1, WaitsMoves, MovesLine DEF Dispatch, Places, Busy
  <2>. QED BY <1>1, <2>2, BookingAssumption DEF Dispatch, Places, Busy
<1>2. CASE PumpCancelled(d)
  <2>1. LineInv'
    BY <1>2, LeavesMoves, MovesLine DEF PumpCancelled, Places
  <2>. QED BY <1>2, <2>1 DEF PumpCancelled, Places, Busy
<1>3. CASE CachedResult(d)
  <2>1. LineInv'
    BY <1>3, LeavesMoves, MovesLine DEF CachedResult, Ends, Places
  <2>. QED BY <1>3, <2>1 DEF CachedResult, Ends, Places, Busy
<1>4. CASE Booked(d)
  <2>1. LineInv'
    BY <1>4, LeavesMoves, MovesLine DEF Booked, AnswerIs, Ends, Places
  <2>. QED BY <1>4, <2>1, BookingAssumption DEF Booked, Ends, Places, Busy
<1>5. CASE at[d] \in Busy /\ AttemptFails(d) /\ UNCHANGED requests
  <2>1. LineInv'
    BY <1>5, LeavesMoves, RequeuesMoves, MovesLine DEF AttemptFails, Ends, Places, Busy
  <2>2. attempts' \in [Dispatches -> 0..MaxAttempts] /\ \A e \in Dispatches : attempts'[e] >= attempts[e]
    BY <1>5, BookingAssumption DEF AttemptFails
  <2>3. /\ at' \in [Dispatches -> Places] /\ UNCHANGED <<results, requests, bookings>>
        /\ result' \in [Dispatches -> {"none", "ok", "unavailable"}]
        /\ \A e \in Dispatches : e # d => at'[e] = at[e]
    BY <1>5 DEF AttemptFails, Ends, Places
  <2>4. \A e \in Dispatches : at'[e] \in Busy => attempts'[e] >= 1
    BY <1>5, <2>2, <2>3
  <2>. QED BY <2>1, <2>2, <2>3, <2>4
<1>. QED BY <1>1, <1>2, <1>3, <1>4, <1>5

\* The holder sends the one POST of its attempt (booking.py:104-112).
LEMMA CreateLock ==
  ASSUME LockInv, NEW d \in Dispatches, CreateBooking(d)
  PROVE  LockInv'
<1>. USE DEF LockInv
<1>1. Request(d, "sent") \in Posts
  BY DEF CreateBooking, Request, Posts, RequestStates, Busy
<1>2. \A e \in Dispatches : Holds(e)' <=> Holds(e)
  BY DEF CreateBooking, Holds
<1>3. \A e \in Dispatches, k \in Keys : InLine(e, k)' <=> InLine(e, k)
  BY DEF CreateBooking, InLine
<1>4. LineInv'
  BY <1>2, <1>3 DEF CreateBooking, LineInv, Busy
<1>. QED BY <1>1, <1>4 DEF CreateBooking, Places, Busy

\* The provider touches its own records only.
LEMMA ProviderLock ==
  ASSUME LockInv, NEW r \in requests, ProviderBooks(r) \/ ProviderRefuses(r)
  PROVE  LockInv'
<1>. USE DEF LockInv
<1>1. PICK state \in RequestStates : requests' = (requests \ {r}) \cup {[r EXCEPT !.state = state]}
  BY DEF ProviderBooks, ProviderRefuses, Becomes, RequestStates
<1>2. r \in Posts /\ [r EXCEPT !.state = state] \in Posts /\ KeyOf[r.dispatch] \in Keys
  BY BookingAssumption DEF Posts
<1>3. UNCHANGED <<at, attempts, result, line, results>> /\ bookings' \in [Keys -> Nat]
  BY <1>2 DEF ProviderBooks, ProviderRefuses
<1>4. LineInv'
  BY <1>3 DEF LineInv, InLine, Holds
<1>. QED BY <1>1, <1>2, <1>3, <1>4

\* Every step keeps the lock in order.
LEMMA LockStep == LockInv /\ [BookNext]_bookVars => LockInv'
<1>. SUFFICES ASSUME LockInv, [BookNext]_bookVars PROVE LockInv'
  OBVIOUS
<1>1. ASSUME NEW d \in Dispatches, Dispatch(d) \/ PumpCancelled(d) \/ CachedResult(d) \/ Booked(d)
      PROVE  LockInv'
  BY <1>1, MoveLock
<1>2. ASSUME NEW d \in Dispatches, TimesOut(d) \/ Raises(d)
      PROVE  LockInv'
  BY <1>2, MoveLock DEF TimesOut, Raises, AnswerIs, Busy
<1>3. ASSUME NEW d \in Dispatches, CreateBooking(d)
      PROVE  LockInv'
  BY <1>3, CreateLock
<1>4. ASSUME NEW r \in requests, ProviderBooks(r) \/ ProviderRefuses(r)
      PROVE  LockInv'
  BY <1>4, ProviderLock
<1>5. CASE UNCHANGED bookVars
  BY <1>5 DEF bookVars, LockInv, LineInv, InLine, Holds
<1>. QED BY <1>1, <1>2, <1>3, <1>4, <1>5 DEF BookNext, DispatchStep

\* Whatever times out, is cancelled or queues again, no two dispatches of a key
\* wait for the provider at once, and none does after the key's result is
\* cached (booking.py:99-115).
THEOREM OneWriter == BookSpec => []LocksOK
<1>1. LockInv => BookTypeOK
  <2>. SUFFICES ASSUME LockInv PROVE BookTypeOK
    OBVIOUS
  <2>1. ASSUME NEW k \in Keys PROVE ToSet(line[k]) \subseteq Dispatches
    BY DEF LockInv, LineInv, ToSet
  <2>. QED BY <2>1 DEF LockInv, BookTypeOK, Places, Posts, RequestStates
<1>2. LockInv => OneWriterPerKey
  BY DEF LockInv, LineInv, OneWriterPerKey, Holds
<1>. QED BY <1>1, <1>2, LockInit, LockStep, PTL DEF BookSpec, LocksOK

-----------------------------------------------------------------------------
(* Appointments and the POSTs that account for them *)

Acted(k) == {r \in requests : KeyOf[r.dispatch] = k /\ r.state \in {"accepted", "lost"}}

\* The POST a dispatch waits for, or the one whose answer it was told.
Settled(r) ==
  /\ r.attempt = attempts[r.dispatch]
  /\ at[r.dispatch] = "posting" \/ result[r.dispatch] = "ok"

\* Where the dispatch of a POST is, and that the POST is the only one of its
\* attempt.
PostInv ==
  /\ \A d \in Dispatches : at[d] = "new" => attempts[d] = 0
  /\ \A d \in Dispatches : result[d] = "ok" => at[d] = "done" /\ KeyOf[d] \in results
  /\ \A r \in requests :
       r.attempt <= attempts[r.dispatch]
         /\ (at[r.dispatch] = "waiting" => r.attempt < attempts[r.dispatch])
  /\ \A r, q \in requests : r.dispatch = q.dispatch /\ r.attempt = q.attempt => r = q

OneSettled ==
  \A r, q \in requests :
    Settled(r) /\ Settled(q) /\ KeyOf[r.dispatch] = KeyOf[q.dispatch] => r = q

\* At most one POST of a key is settled, and every appointment has its POST.
CountInv ==
  /\ LockInv
  /\ PostInv
  /\ OneSettled
  /\ IsFiniteSet(requests)
  /\ \A k \in Keys : bookings[k] <= Cardinality(Acted(k))

\* No POST, no appointment.
LEMMA CountInit == BookInit => CountInv
<1>. SUFFICES ASSUME BookInit PROVE CountInv
  OBVIOUS
<1>1. \A k \in Keys : Acted(k) = {}
  BY DEF BookInit, Acted
<1>2. Cardinality({}) = 0 /\ IsFiniteSet({})
  BY FS_EmptySet
<1>3. PostInv /\ OneSettled /\ IsFiniteSet(requests)
  BY <1>2 DEF BookInit, PostInv, OneSettled
<1>4. \A k \in Keys : bookings[k] = 0
  BY DEF BookInit
<1>5. \A k \in Keys : bookings[k] <= Cardinality(Acted(k))
  BY <1>1, <1>2, <1>4
<1>. QED BY <1>3, <1>5, LockInit DEF CountInv

\* A dispatch that starts, fails, is cancelled or is answered settles no other
\* POST than the one it sent (registry.py:159-188, booking.py:99-115).
LEMMA MoveCount ==
  ASSUME CountInv, NEW d \in Dispatches,
         \/ Dispatch(d) \/ PumpCancelled(d) \/ CachedResult(d) \/ Booked(d)
         \/ at[d] \in Busy /\ AttemptFails(d) /\ UNCHANGED requests
  PROVE  CountInv'
<1>. USE DEF CountInv
<1>1. UNCHANGED <<requests, bookings>>
  BY DEF Dispatch, PumpCancelled, CachedResult, Booked, AttemptFails
<1>2. \A k : Acted(k)' = Acted(k)
  BY <1>1 DEF Acted
<1>3. requests \subseteq Posts /\ \A r \in requests : r.dispatch \in Dispatches /\ r.attempt \in 1..MaxAttempts
  BY DEF LockInv, Posts
<1>4. /\ at \in [Dispatches -> Places] /\ attempts \in [Dispatches -> 0..MaxAttempts]
      /\ result \in [Dispatches -> {"none", "ok", "unavailable"}]
      /\ \A e \in Dispatches : e # d => at'[e] = at[e] /\ attempts'[e] = attempts[e] /\ result'[e] = result[e]
      /\ results \subseteq results'
  BY DEF LockInv, Dispatch, PumpCancelled, CachedResult, Booked, AttemptFails, Ends
<1>5. /\ at[d] \in {"new", "waiting", "posting"}
      /\ at'[d] \in {"waiting", "done", "cancelled"}
      /\ at'[d] = "waiting" => attempts'[d] = attempts[d] + 1
      /\ attempts'[d] = attempts[d] \/ attempts'[d] = attempts[d] + 1
      /\ result'[d] = "ok" => at'[d] = "done" /\ KeyOf[d] \in results' /\ at[d] \in {"waiting", "posting"}
                              /\ attempts'[d] = attempts[d] /\ (at[d] = "posting" => KeyOf[d] \notin results)
  <2>1. CASE Dispatch(d)
    BY <1>4, <2>1 DEF Dispatch, PostInv, LockInv
  <2>2. CASE PumpCancelled(d)
    BY <1>4, <2>2 DEF PumpCancelled, PostInv, LockInv
  <2>3. CASE CachedResult(d)
    BY <1>4, <2>3 DEF CachedResult, Ends, PostInv, LockInv
  <2>4. CASE Booked(d)
    BY <1>4, <2>4 DEF Booked, AnswerIs, Ends, PostInv, LockInv, LineInv
  <2>5. CASE at[d] \in Busy /\ AttemptFails(d)
    BY <1>4, <2>5 DEF AttemptFails, Ends, PostInv, LockInv, Busy
  <2>. QED BY <2>1, <2>2, <2>3, <2>4, <2>5
<1>6. PostInv'
  <2>1. (\A e \in Dispatches : at[e] = "new" => attempts[e] = 0)'
    BY <1>4, <1>5 DEF PostInv
  <2>2. (\A e \in Dispatches : result[e] = "ok" => at[e] = "done" /\ KeyOf[e] \in results)'
    BY <1>4, <1>5 DEF PostInv
  <2>3. \A r \in requests : r.attempt <= attempts'[r.dispatch]
                             /\ (at'[r.dispatch] = "waiting" => r.attempt < attempts'[r.dispatch])
    BY <1>3, <1>4, <1>5 DEF PostInv
  <2>. QED BY <1>1, <2>1, <2>2, <2>3 DEF PostInv
<1>7. \A r \in requests : Settled(r)' => Settled(r)
  <2>. SUFFICES ASSUME NEW r \in requests, Settled(r)' PROVE Settled(r)
    OBVIOUS
  <2>1. CASE r.dispatch # d
    BY <1>3, <1>4, <2>1 DEF Settled
  <2>2. CASE r.dispatch = d
    <3>1. result'[d] = "ok" /\ r.attempt = attempts[d]
      BY <1>5, <2>2 DEF Settled
    <3>2. at[d] = "posting"
      BY <1>3, <1>4, <1>5, <2>2, <3>1 DEF PostInv
    <3>. QED BY <2>2, <3>1, <3>2 DEF Settled
  <2>. QED BY <2>1, <2>2
<1>8. OneSettled'
  BY <1>1, <1>7 DEF OneSettled
<1>. QED BY <1>1, <1>2, <1>6, <1>8, MoveLock

\* A POST is sent by the holder, once per attempt, when no other POST of the
\* key is settled (booking.py:104-112).
LEMMA CreateCount ==
  ASSUME CountInv, NEW d \in Dispatches, CreateBooking(d)
  PROVE  CountInv'
<1>. DEFINE new == Request(d, "sent")
<1>1. /\ requests' = requests \cup {new} /\ at[d] = "waiting" /\ at' = [at EXCEPT ![d] = "posting"]
      /\ UNCHANGED <<attempts, result, results, bookings>>
      /\ KeyOf[d] \notin results /\ Holds(d)
  BY DEF CreateBooking
<1>2. /\ new.dispatch = d /\ new.attempt = attempts[d] /\ new.state = "sent"
      /\ new \in Posts
  BY DEF CreateBooking, Request, Posts, RequestStates, CountInv, LockInv, Busy
<1>. HIDE DEF new
<1>3. /\ \A r \in requests : r.dispatch \in Dispatches /\ r.attempt \in 1..MaxAttempts
      /\ at \in [Dispatches -> Places] /\ attempts \in [Dispatches -> 0..MaxAttempts]
      /\ \A e \in Dispatches : at'[e] = IF e = d THEN "posting" ELSE at[e]
  BY <1>1 DEF CountInv, LockInv, Posts
<1>4. \A r \in requests : r.dispatch = d => r.attempt < attempts[d]
  BY <1>1 DEF CountInv, PostInv
<1>5. PostInv'
  <2>1. (\A e \in Dispatches : at[e] = "new" => attempts[e] = 0)'
    BY <1>1, <1>3 DEF CountInv, PostInv
  <2>2. (\A e \in Dispatches : result[e] = "ok" => at[e] = "done" /\ KeyOf[e] \in results)'
    BY <1>1, <1>3 DEF CountInv, PostInv
  <2>3. ASSUME NEW r \in requests'
        PROVE  r.attempt <= attempts'[r.dispatch]
                 /\ (at'[r.dispatch] = "waiting" => r.attempt < attempts'[r.dispatch])
    <3>1. CASE r \in requests
      BY <1>1, <1>3, <3>1 DEF CountInv, PostInv
    <3>2. CASE r = new
      BY <1>1, <1>2, <1>3, <3>2
    <3>. QED BY <1>1, <3>1, <3>2
  <2>4. (\A r, q \in requests : r.dispatch = q.dispatch /\ r.attempt = q.attempt => r = q)'
    BY <1>1, <1>2, <1>3, <1>4 DEF CountInv, PostInv
  <2>. QED BY <2>1, <2>2, <2>3, <2>4 DEF PostInv
<1>6. ASSUME NEW r \in requests, Settled(r)'
      PROVE  Settled(r) /\ KeyOf[r.dispatch] # KeyOf[d]
  <2>1. r.dispatch # d
    BY <1>1, <1>3, <1>4, <1>6 DEF Settled
  <2>2. Settled(r)
    BY <1>1, <1>3, <1>6, <2>1 DEF Settled
  <2>3. at[r.dispatch] = "posting" => KeyOf[r.dispatch] # KeyOf[d]
    BY <1>1, <1>3, <2>1 DEF CountInv, LockInv, LineInv, Holds
  <2>4. result[r.dispatch] = "ok" => KeyOf[r.dispatch] # KeyOf[d]
    BY <1>1, <1>3 DEF CountInv, PostInv
  <2>. QED BY <2>2, <2>3, <2>4 DEF Settled
<1>7. OneSettled'
  BY <1>1, <1>2, <1>6 DEF OneSettled, CountInv
<1>8. IsFiniteSet(requests')
  BY <1>1, FS_AddElement DEF CountInv
<1>9. \A k : Acted(k)' = Acted(k)
  BY <1>1, <1>2 DEF Acted
<1>. QED BY <1>1, <1>5, <1>7, <1>8, <1>9, CreateLock DEF CountInv

\* The provider's answer changes the state of one POST; an appointment comes
\* with a POST that was not acted on before (calcom.py:95-97).
LEMMA ProviderCount ==
  ASSUME CountInv, NEW r \in requests, ProviderBooks(r) \/ ProviderRefuses(r)
  PROVE  CountInv'
<1>1. PICK state \in {"accepted", "refused", "lost"} :
        /\ requests' = (requests \ {r}) \cup {[r EXCEPT !.state = state]}
        /\ ProviderBooks(r) => state \in {"accepted", "lost"}
  BY DEF ProviderBooks, ProviderRefuses, Becomes
<1>. DEFINE new == [r EXCEPT !.state = state]
            k == KeyOf[r.dispatch]
<1>2. /\ r \in Posts /\ r.state = "sent" /\ k \in Keys
      /\ new.dispatch = r.dispatch /\ new.attempt = r.attempt /\ new.state = state
  BY BookingAssumption DEF ProviderBooks, ProviderRefuses, CountInv, LockInv, Posts
<1>3. /\ UNCHANGED <<at, attempts, result, line, results>>
      /\ \/ UNCHANGED bookings
         \/ ProviderBooks(r) /\ bookings' = [bookings EXCEPT ![k] = @ + 1]
  BY DEF ProviderBooks, ProviderRefuses
<1>. HIDE DEF new
<1>4. requests' = (requests \ {r}) \cup {new}
  BY <1>1 DEF new
<1>5. \A q \in requests : q.dispatch = r.dispatch /\ q.attempt = r.attempt => q = r
  BY DEF CountInv, PostInv
<1>6. new \notin requests
  BY <1>1, <1>2, <1>5
<1>7. PostInv'
  <2>1. \A q \in requests' : q.attempt <= attempts[q.dispatch]
                             /\ (at[q.dispatch] = "waiting" => q.attempt < attempts[q.dispatch])
    BY <1>2, <1>4 DEF CountInv, PostInv
  <2>2. \A p, q \in requests' : p.dispatch = q.dispatch /\ p.attempt = q.attempt => p = q
    BY <1>2, <1>4, <1>5 DEF CountInv, PostInv
  <2>. QED BY <1>3, <2>1, <2>2 DEF CountInv, PostInv
<1>8. OneSettled'
  <2>1. \A q : Settled(q)' <=> Settled(q)
    BY <1>3 DEF Settled
  <2>2. Settled(new) <=> Settled(r)
    BY <1>2 DEF Settled
  <2>3. \A p, q \in requests' :
          Settled(p) /\ Settled(q) /\ KeyOf[p.dispatch] = KeyOf[q.dispatch] => p = q
    <3>. SUFFICES ASSUME NEW p \in requests', NEW q \in requests', p # q,
                         Settled(p), Settled(q), KeyOf[p.dispatch] = KeyOf[q.dispatch]
                  PROVE  FALSE
      OBVIOUS
    <3>1. CASE p \in requests \ {r} /\ q \in requests \ {r}
      BY <3>1 DEF CountInv, OneSettled
    <3>2. CASE p = new /\ q \in requests \ {r}
      BY <1>2, <2>2, <3>2 DEF CountInv, OneSettled
    <3>3. CASE q = new /\ p \in requests \ {r}
      BY <1>2, <2>2, <3>3 DEF CountInv, OneSettled
    <3>. QED BY <1>4, <3>1, <3>2, <3>3
  <2>. QED BY <2>1, <2>3 DEF OneSettled
<1>9. IsFiniteSet(requests')
  <2>1. IsFiniteSet(requests \ {r})
    BY FS_Subset DEF CountInv
  <2>. QED BY <1>4, <2>1, FS_AddElement
<1>10. ASSUME NEW q \in Keys
       PROVE  bookings'[q] <= Cardinality(Acted(q)')
  <2>1. IsFiniteSet(Acted(q)) /\ Cardinality(Acted(q)) \in Nat /\ bookings[q] \in Nat
    <3>1. Acted(q) \subseteq requests
      BY DEF Acted
    <3>. QED BY <3>1, FS_Subset, FS_CardinalityType DEF CountInv, LockInv
  <2>2. bookings[q] <= Cardinality(Acted(q))
    BY DEF CountInv
  <2>3. CASE q = k /\ state \in {"accepted", "lost"}
    <3>1. Acted(q)' = Acted(q) \cup {new} /\ new \notin Acted(q)
      BY <1>2, <1>4, <1>6, <2>3 DEF Acted
    <3>2. Cardinality(Acted(q)') = Cardinality(Acted(q)) + 1
      BY <2>1, <3>1, FS_AddElement
    <3>3. bookings'[q] \in {bookings[q], bookings[q] + 1}
      BY <1>2, <1>3, <2>3 DEF CountInv, LockInv
    <3>. QED BY <2>1, <2>2, <3>2, <3>3
  <2>4. CASE ~(q = k /\ state \in {"accepted", "lost"})
    <3>1. Acted(q)' = Acted(q)
      BY <1>1, <1>2, <1>4, <2>4 DEF Acted
    <3>2. bookings'[q] = bookings[q]
      BY <1>1, <1>2, <1>3, <2>4 DEF CountInv, LockInv
    <3>. QED BY <2>2, <3>1, <3>2
  <2>. QED BY <2>3, <2>4
<1>. QED BY <1>7, <1>8, <1>9, <1>10, ProviderLock DEF CountInv

\* Every step keeps the appointments accounted for.
LEMMA CountStep == CountInv /\ [BookNext]_bookVars => CountInv'
<1>. SUFFICES ASSUME CountInv, [BookNext]_bookVars PROVE CountInv'
  OBVIOUS
<1>1. ASSUME NEW d \in Dispatches, Dispatch(d) \/ PumpCancelled(d) \/ CachedResult(d) \/ Booked(d)
      PROVE  CountInv'
  BY <1>1, MoveCount
<1>2. ASSUME NEW d \in Dispatches, TimesOut(d) \/ Raises(d)
      PROVE  CountInv'
  BY <1>2, MoveCount DEF TimesOut, Raises, AnswerIs, Busy
<1>3. ASSUME NEW d \in Dispatches, CreateBooking(d)
      PROVE  CountInv'
  BY <1>3, CreateCount
<1>4. ASSUME NEW r \in requests, ProviderBooks(r) \/ ProviderRefuses(r)
      PROVE  CountInv'
  BY <1>4, ProviderCount
<1>5. CASE UNCHANGED bookVars
  <2>1. LockInv'
    BY <1>5, LockStep DEF CountInv
  <2>2. PostInv' /\ OneSettled'
    BY <1>5 DEF bookVars, CountInv, PostInv, OneSettled, Settled
  <2>3. \A k : Acted(k)' = Acted(k)
    BY <1>5 DEF bookVars, Acted
  <2>4. UNCHANGED <<requests, bookings>>
    BY <1>5 DEF bookVars
  <2>. QED BY <2>1, <2>2, <2>3, <2>4 DEF CountInv
<1>. QED BY <1>1, <1>2, <1>3, <1>4, <1>5 DEF BookNext, DispatchStep

\* Of the POSTs of a key that were acted on, all but one went unanswered.
LEMMA AllButOneUnanswered ==
  ASSUME CountInv, NEW k \in Keys
  PROVE  bookings[k] <= 1 + Cardinality(Unanswered(k))
<1>1. Acted(k) \subseteq requests /\ Unanswered(k) \subseteq requests
  BY DEF Acted, Unanswered
<1>2. /\ IsFiniteSet(Unanswered(k)) /\ Cardinality(Unanswered(k)) \in Nat
      /\ Cardinality(Acted(k)) \in Nat /\ bookings[k] \in Nat
      /\ bookings[k] <= Cardinality(Acted(k))
  BY <1>1, FS_Subset, FS_CardinalityType DEF CountInv, LockInv
<1>3. \A r \in Acted(k) \ Unanswered(k) : Settled(r)
  BY DEF Acted, Unanswered, Settled
<1>4. \A r, q \in Acted(k) \ Unanswered(k) : r = q
  BY <1>1, <1>3 DEF CountInv, OneSettled, Acted
<1>5. PICK x : Acted(k) \subseteq Unanswered(k) \cup {x}
  <2>1. CASE Acted(k) \ Unanswered(k) = {}
    BY <2>1
  <2>2. CASE Acted(k) \ Unanswered(k) # {}
    BY <1>4, <2>2
  <2>. QED BY <2>1, <2>2
<1>6. /\ IsFiniteSet(Unanswered(k) \cup {x})
      /\ Cardinality(Unanswered(k) \cup {x}) <= Cardinality(Unanswered(k)) + 1
      /\ Cardinality(Unanswered(k) \cup {x}) \in Nat
  <2>1. /\ IsFiniteSet(Unanswered(k) \cup {x})
        /\ Cardinality(Unanswered(k) \cup {x}) =
             IF x \in Unanswered(k) THEN Cardinality(Unanswered(k)) ELSE Cardinality(Unanswered(k)) + 1
    BY <1>2, FS_AddElement
  <2>. QED BY <1>2, <2>1
<1>7. Cardinality(Acted(k)) <= Cardinality(Unanswered(k) \cup {x})
  BY <1>5, <1>6, FS_Subset
<1>. QED BY <1>2, <1>6, <1>7

\* "Two concurrent dispatches of the same booking collapse into one Cal.com
\* write" (booking.py:5-7): for any number of them, the appointments beyond
\* the first are those of POSTs whose answer nobody received.
THEOREM ExtrasWereUnanswered == BookSpec => []ExtraBookingsWereUnanswered
<1>1. CountInv => ExtraBookingsWereUnanswered
  BY AllButOneUnanswered DEF ExtraBookingsWereUnanswered
<1>. QED BY <1>1, CountInit, CountStep, PTL DEF BookSpec

=============================================================================
