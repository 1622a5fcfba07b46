---------------------------- MODULE MCBooking ------------------------------
(* Instances of Booking for TLC: two dispatches of the same booking. *)
EXTENDS Booking

CONSTANTS d1, d2, k1

MCDispatches == {d1, d2}
MCKeys == {k1}
MCKeyOf == [d \in MCDispatches |-> k1]
============================================================================
