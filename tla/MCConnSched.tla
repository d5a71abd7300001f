---------------------------- MODULE MCConnSched ----------------------------
(* Model-checking instance of ConnSched. *)
EXTENDS ConnSched, TLC
=============================================================================
