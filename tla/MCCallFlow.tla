---------------------------- MODULE MCCallFlow -----------------------------
(* Instances of CallFlow for TLC. *)
EXTENDS CallFlow
============================================================================
