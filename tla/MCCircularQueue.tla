-------------------------- MODULE MCCircularQueue --------------------------
(* Model-checking instance of CircularQueue. *)
EXTENDS CircularQueue
=============================================================================
