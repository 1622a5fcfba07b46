---------------------------- MODULE MCTurnLog ------------------------------
(* Instances of TurnLog for TLC. *)
EXTENDS TurnLog, TLC

MCSymmetry == Permutations(Items)
============================================================================
