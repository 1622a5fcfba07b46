----------------------------- MODULE MCPostCall ----------------------------
(* PostCall for TLC: two calls of one number. *)
EXTENDS PostCall
============================================================================
