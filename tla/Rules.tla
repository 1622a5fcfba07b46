-------------------------------- MODULE Rules -------------------------------
(***************************************************************************)
(* What a client's configuration allows at a given time: opening hours and *)
(* emergency dispatch (apps/api/domain/hours.py), qualification            *)
(* (domain/qualification.py), the service area (tools/service_area.py) and *)
(* the slots offered (tools/availability.py, tools/calcom.py).             *)
(*                                                                         *)
(* Time is local to the business and counted in slots of a day. All days   *)
(* have the same length: changes of the clock are left out. A window lies  *)
(* within one day, but may be any two times of day: the schema compares    *)
(* neither their order nor whether they differ.                            *)
(***************************************************************************)
EXTENDS Integers, FiniteSetsExt, SequencesExt

CONSTANTS
  SlotsPerDay, HorizonDays,
  Windows,           \* what a day's hours may be
  Postcodes,         \* of the service area
  MaxLookups         \* bound on check_service_area

ASSUME RuleAssumption ==
  /\ SlotsPerDay \in Nat \ {0}
  /\ HorizonDays \in Nat /\ HorizonDays >= 7
  /\ \A w \in Windows : /\ w.closed \in BOOLEAN
                        /\ w.start \in 0..SlotsPerDay - 1 /\ w.end \in 0..SlotsPerDay - 1
  /\ MaxLookups \in Nat

VARIABLES
  hours,    \* hours.regular
  policy,   \* hours.emergency_dispatch
  fee,      \* an emergency_fee_usd is configured
  now,      \* the time of the week
  area,     \* state.in_service_area
  stated,   \* history: the postcode stated last, by any argument
  lookups   \* bound

ruleVars == <<hours, policy, fee, now, area, stated, lookups>>

ClosedDay == [closed |-> TRUE, start |-> 0, end |-> 0]
Window(start, end) == [closed |-> FALSE, start |-> start, end |-> end]
Fields == {"mon_fri", "sat", "sun"}
Policies == {"always", "never", "after_hours_only"}

RuleInit ==
  /\ hours \in [Fields -> Windows]
  /\ policy \in Policies /\ fee \in BOOLEAN
  /\ now = 0
  /\ area = "unknown" /\ stated = "none" /\ lookups = 0

----------------------------------------------------------------------------
(* Hours.                                                                    *)

DayField(t) ==
  LET weekday == (t \div SlotsPerDay) % 7
  IN IF weekday < 5 THEN "mon_fri" ELSE IF weekday = 5 THEN "sat" ELSE "sun"

WindowFor(t) == hours[DayField(t)]

WindowContains(w, t) == w.start <= t % SlotsPerDay /\ t % SlotsPerDay < w.end

IsOpen(t) == ~WindowFor(t).closed /\ WindowContains(WindowFor(t), t)

DispatchDecision(t, emergency) ==
  IF IsOpen(t) THEN "open"
  ELSE IF ~emergency \/ policy = "never" THEN "closed" ELSE "emergency_only"

Candidate(t, offset) ==
  (t \div SlotsPerDay + offset) * SlotsPerDay + WindowFor(t + offset * SlotsPerDay).start

\* Mutant: the opening of today counts although it is past.
YieldsAnyTime(t, offset) == ~WindowFor(t + offset * SlotsPerDay).closed

\* The day at this offset settles the search.
Yields(t, offset) ==
  /\ ~WindowFor(t + offset * SlotsPerDay).closed
  /\ (offset = 0 /\ IsOpen(t)) \/ Candidate(t, offset) >= t

Never == -1

NextOpen(t) ==
  LET days == {offset \in 0..HorizonDays : Yields(t, offset)}
  IN IF days = {} THEN Never ELSE IF IsOpen(t) THEN t ELSE Candidate(t, Min(days))

\* No function of the repository calls it.
AppliesEmergencyFee(t, emergency) == emergency /\ fee /\ ~IsOpen(t)

----------------------------------------------------------------------------
(* Qualification and service area.                                           *)

OutOfArea == {"capture_and_refer", "decline", "escalate"}

Qualify(t, escalates, inArea, emergency, outOfArea) ==
  IF escalates THEN "escalate"
  ELSE IF inArea = "out" THEN outOfArea
  ELSE IF inArea = "unknown" THEN "callback"
  ELSE CASE DispatchDecision(t, emergency) = "open" -> "book"
         [] DispatchDecision(t, emergency) = "emergency_only" -> "book_emergency"
         [] OTHER -> "callback"

\* What an argument may hold: a postcode, or no five digits.
Arguments == {"60601", "90210", "none"}

ExtractPostcode(postcode, address) == IF postcode /= "none" THEN postcode ELSE address

\* not_found, which leaves the state alone, when the caller has not said enough.
CheckServiceArea(postcode, address) ==
  LET resolved == ExtractPostcode(postcode, address)
  IN IF resolved = "none" THEN UNCHANGED <<area, stated>>
     ELSE /\ area' = IF resolved \in Postcodes THEN "in" ELSE "out"
          /\ stated' = resolved

LookUp ==
  /\ lookups < MaxLookups /\ lookups' = lookups + 1
  /\ \E postcode, address \in Arguments : CheckServiceArea(postcode, address)
  /\ UNCHANGED <<hours, policy, fee, now>>

----------------------------------------------------------------------------
(* Slots.                                                                    *)

MaxSlotsSpoken == 3
SearchHorizon(urgency) ==
  CASE urgency = "emergency" -> SlotsPerDay \div 2
    [] urgency = "flexible" -> 7 * SlotsPerDay
    [] OTHER -> 2 * SlotsPerDay

\* The response holds the slots by date or flat, in any order.
ParseSlots(response) ==
  LET places == DOMAIN response
      order == CHOOSE p \in Injection(places, places) :
                 \A i, j \in places : i < j => response[p[i]] <= response[p[j]]
  IN [i \in places |-> response[order[i]]]

CheckAvailability(response) ==
  LET slots == ParseSlots(response)
  IN SubSeq(slots, 1, IF Len(slots) < MaxSlotsSpoken THEN Len(slots) ELSE MaxSlotsSpoken)

----------------------------------------------------------------------------
TimePasses ==
  /\ now' = (now + 1) % (7 * SlotsPerDay)
  /\ UNCHANGED <<hours, policy, fee, area, stated, lookups>>

RuleNext == TimePasses \/ LookUp

RuleSpec == RuleInit /\ [][RuleNext]_ruleVars

----------------------------------------------------------------------------
(* Properties.                                                               *)

RuleTypeOK ==
  /\ hours \in [Fields -> Windows] /\ policy \in Policies /\ fee \in BOOLEAN
  /\ now \in 0..7 * SlotsPerDay - 1
  /\ area \in {"unknown", "in", "out"} /\ stated \in Arguments
  /\ lookups \in 0..MaxLookups

Proper == \A f \in Fields : hours[f].closed \/ hours[f].start < hours[f].end

\* next_open names the first open time at or after now, and none exactly if
\* there is none, for hours whose windows open before they close.
NextOpenIsFirst ==
  Proper =>
    LET open == {t \in now..now + 7 * SlotsPerDay : IsOpen(t)}
    IN NextOpen(now) = IF open = {} THEN Never ELSE Min(open)

\* A caller in the area who is called back because the business is closed can
\* be booked at the time next_open names (qualify, is_open and next_open agree
\* on the opening minute).
CallbackCanBeBooked ==
  Proper /\ Qualify(now, FALSE, "in", FALSE, "decline") = "callback" /\ NextOpen(now) /= Never =>
    Qualify(NextOpen(now), FALSE, "in", FALSE, "decline") = "book"

\* For whoever is booked the fee applies exactly if they are booked as an
\* emergency and the client has configured a fee (dispatch_decision and
\* applies_emergency_fee, which ask the hours separately, agree).
FeeMatchesBooking ==
  \A emergency \in BOOLEAN :
    LET verdict == Qualify(now, FALSE, "in", emergency, "decline")
    IN verdict \in {"book", "book_emergency"} =>
         (AppliesEmergencyFee(now, emergency) <=> verdict = "book_emergency" /\ fee)

\* A caller is out of the area only by a postcode they stated, and by the last
\* one they did: lookups that found none in between change nothing.
AreaAsStated ==
  /\ area = "unknown" <=> stated = "none"
  /\ area = "out" => stated \notin Postcodes
  /\ \A outOfArea \in OutOfArea \ {"escalate"} :
       Qualify(now, FALSE, area, FALSE, outOfArea) = outOfArea => stated \notin Postcodes \union {"none"}

\* What a provider may answer to a search from time t on.
Responses(t, urgency) ==
  {r \in {<<t + 3, t + 1, t + 2, t>>, <<t + 2, t, t + 1>>, <<t + 1>>, <<>>} :
     \A i \in DOMAIN r : r[i] < t + SearchHorizon(urgency)}

\* The caller is offered the earliest free slots, in order, whatever the order
\* of the response (_parse_slots sorts, check_availability takes the first).
OffersAreEarliest ==
  \A urgency \in {"emergency", "soon", "flexible"} : \A r \in Responses(now, urgency) :
    LET offered == CheckAvailability(r)
    IN /\ Len(offered) = Min({MaxSlotsSpoken, Len(r)})
       /\ \A i \in DOMAIN offered : \A s \in ToSet(r) \ ToSet(offered) : offered[i] < s
       /\ \A i, j \in DOMAIN offered : i < j => offered[i] < offered[j]

\* Every rule of the configuration, against its reference definition
\* (hours.py, qualification.py, service_area.py, availability.py).
RulesOK ==
  /\ RuleTypeOK
  /\ NextOpenIsFirst /\ CallbackCanBeBooked /\ FeeMatchesBooking
  /\ AreaAsStated /\ OffersAreEarliest

============================================================================
