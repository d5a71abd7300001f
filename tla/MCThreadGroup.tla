--------------------------- MODULE MCThreadGroup ---------------------------
(* ThreadGroup for TLC. *)
EXTENDS ThreadGroup, TLC

\* SQL threads are created and woken in no order the model fixes.
ThreadSymmetry == Permutations(SqlThread)
=============================================================================
