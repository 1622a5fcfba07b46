---------------------------- MODULE MCAudioPath ----------------------------
(* Instances of AudioPath for TLC. *)
EXTENDS AudioPath, TLC

MCMarkNames == 1..MaxFrames
MCItemSymmetry == Permutations(ItemIds)
============================================================================
