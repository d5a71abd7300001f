---------------------------- MODULE MCCoroMutex ----------------------------
(* Model-checking instance of CoroMutex. *)
EXTENDS CoroMutex, TLC

\* Coroutines and threads are interchangeable; for runs without liveness.
MutexSymmetry == Permutations(Coro) \cup Permutations(Thread)
=============================================================================
