----------------------------- MODULE CoroMutex -----------------------------
(***************************************************************************)
(* Mutexes that coroutines hold across a yield (mysys/my_pthread.c, and    *)
(* CoroutineYield() and ResumeCoroutine() of sql/threadpool_common.cc).    *)
(*                                                                         *)
(* A mutex is a pthread mutex and a list node.  A coroutine that locks it  *)
(* puts the node into its list; when it yields it unlocks the pthread      *)
(* mutexes of its list but keeps the nodes, and locks them again before it *)
(* continues on whichever thread resumes it.  A native thread, outside any *)
(* coroutine, uses the pthread mutex alone.                                *)
(***************************************************************************)
EXTENDS Integers, Sequences

CONSTANTS
  Coro,      \* coroutines
  Thread,    \* threads that run coroutines
  Native,    \* threads outside the pool
  Nobody,    \* no owner
  Mutex,     \* mutexes, numbered in the order in which callers nest them
  MaxOps     \* bound: calls per coroutine

ASSUME MutexAssumption ==
  /\ Nobody \notin Thread \cup Native
  /\ Thread \cap Native = {}
  /\ Mutex \subseteq Nat /\ Mutex # {}
  /\ MaxOps \in Nat

VARIABLES
  m_mutex,     \* owner of each pthread mutex
  acquired,    \* acquired_mutexes of each coroutine, the last acquired first
  host,        \* thread the coroutine runs on
  pc, at,      \* step of a coroutine; step at which it is resumed
  arg,         \* mutex of the call in progress
  queue,       \* coroutines to be resumed
  ops

vars == << m_mutex, acquired, host, pc, at, arg, queue, ops >>

Listed(m) == \E c \in Coro : \E i \in 1 .. Len(acquired[c]) : acquired[c][i] = m

Init ==
  /\ m_mutex = [m \in Mutex |-> Nobody]
  /\ acquired = [c \in Coro |-> << >>]
  /\ host = [c \in Coro |-> Nobody]
  /\ pc = [c \in Coro |-> "asleep"]
  /\ at = [c \in Coro |-> "run"]
  /\ arg = [c \in Coro |-> CHOOSE m \in Mutex : TRUE]
  /\ queue = << >>
  /\ ops = [c \in Coro |-> 0]

Goto(c, l) == pc' = [pc EXCEPT ![c] = l]
Take(m, o) == m_mutex[m] = Nobody /\ m_mutex' = [m_mutex EXCEPT ![m] = o]
Free(m) == m_mutex' = [m_mutex EXCEPT ![m] = Nobody]

\* list_delete() of the k-th node
Without(s, k) == [i \in 1 .. Len(s) - 1 |-> IF i < k THEN s[i] ELSE s[i + 1]]

Call(c) ==
  /\ pc[c] = "run" /\ ops[c] < MaxOps
  /\ ops' = [ops EXCEPT ![c] = @ + 1]

-----------------------------------------------------------------------------
(* Resuming and yielding.                                                  *)

\* A new command, or resume_func_() called by the transaction service.
Wake(c) ==
  /\ pc[c] = "asleep"
  /\ queue' = Append(queue, c)
  /\ Goto(c, "queued")
  /\ UNCHANGED << m_mutex, acquired, host, at, arg, ops >>

Resume(t) ==
  /\ queue # << >>
  /\ \A c \in Coro : host[c] # t
  /\ host' = [host EXCEPT ![Head(queue)] = t]
  /\ Goto(Head(queue), "relock")
  /\ queue' = Tail(queue)
  /\ UNCHANGED << m_mutex, acquired, at, arg, ops >>

\* Mutant: a resumed coroutine continues without its mutexes.
Mut_Relock(c) ==
  /\ pc[c] = "relock"
  /\ Goto(c, at[c])
  /\ UNCHANGED << m_mutex, acquired, host, at, arg, queue, ops >>

\* The mutexes are locked again in the order in which they were acquired.
Relock(c) ==
  /\ pc[c] = "relock"
  /\ \/ \E i \in 1 .. Len(acquired[c]) :
          /\ \A j \in i + 1 .. Len(acquired[c]) : m_mutex[acquired[c][j]] = host[c]
          /\ Take(acquired[c][i], host[c])
          /\ UNCHANGED pc
     \/ /\ \A i \in 1 .. Len(acquired[c]) : m_mutex[acquired[c][i]] = host[c]
        /\ Goto(c, at[c])
        /\ UNCHANGED m_mutex
  /\ UNCHANGED << acquired, host, at, arg, queue, ops >>

\* CoroutineYield(): every listed mutex, and those of also, are unlocked.
YieldAt(c, l, also) ==
  /\ m_mutex' = [m \in Mutex |->
       IF m \in also \/ \E i \in 1 .. Len(acquired[c]) : acquired[c][i] = m
       THEN Nobody ELSE m_mutex[m]]
  /\ host' = [host EXCEPT ![c] = Nobody]
  /\ at' = [at EXCEPT ![c] = l]

Yield(c) ==
  /\ Call(c)
  /\ YieldAt(c, "run", {})
  /\ Goto(c, "asleep")
  /\ UNCHANGED << acquired, arg, queue >>

-----------------------------------------------------------------------------
(* mysql_coro_mutex_lock(), trylock() and unlock().                        *)

\* Callers nest mutexes in one order and lock none twice.
Lock(c) ==
  /\ Call(c)
  /\ \E m \in Mutex :
       /\ \A i \in 1 .. Len(acquired[c]) : acquired[c][i] < m
       /\ arg' = [arg EXCEPT ![c] = m]
  /\ Goto(c, "lock")
  /\ UNCHANGED << m_mutex, acquired, host, at, queue >>

Acquire(c) ==
  /\ pc[c] = "lock"
  /\ Take(arg[c], host[c])
  /\ Goto(c, "check")
  /\ UNCHANGED << acquired, host, at, arg, queue, ops >>

\* Mutant: a coroutine that finds the mutex busy keeps the pthread mutex.
Mut_CheckKeep(c) ==
  /\ pc[c] = "check"
  /\ \/ /\ Listed(arg[c])
        /\ YieldAt(c, "lock", {})
        /\ queue' = Append(queue, c)
        /\ Goto(c, "queued")
        /\ UNCHANGED acquired
     \/ /\ ~Listed(arg[c])
        /\ acquired' = [acquired EXCEPT ![c] = << arg[c] >> \o @]
        /\ Goto(c, "run")
        /\ UNCHANGED << m_mutex, host, at, queue >>
  /\ UNCHANGED << arg, ops >>

\* The node shows whether a yielded coroutine holds the mutex.  If so the
\* coroutine enqueues itself for a retry and yields.
Check(c) ==
  /\ pc[c] = "check"
  /\ \/ /\ Listed(arg[c])
        /\ YieldAt(c, "lock", {arg[c]})
        /\ queue' = Append(queue, c)
        /\ Goto(c, "queued")
        /\ UNCHANGED acquired
     \/ /\ ~Listed(arg[c])
        /\ acquired' = [acquired EXCEPT ![c] = << arg[c] >> \o @]
        /\ Goto(c, "run")
        /\ UNCHANGED << m_mutex, host, at, queue >>
  /\ UNCHANGED << arg, ops >>

\* The pthread mutex is free: trylock() succeeds unless the node is listed,
\* in which case it frees the mutex again.  Otherwise nothing happens.
TryLock(c) ==
  /\ Call(c)
  /\ \E m \in Mutex :
       /\ \A i \in 1 .. Len(acquired[c]) : acquired[c][i] # m
       /\ m_mutex[m] = Nobody /\ ~Listed(m)
       /\ Take(m, host[c])
       /\ acquired' = [acquired EXCEPT ![c] = << m >> \o @]
  /\ UNCHANGED << host, pc, at, arg, queue >>

Unlock(c) ==
  /\ pc[c] = "run"
  /\ \E k \in 1 .. Len(acquired[c]) :
       /\ acquired' = [acquired EXCEPT ![c] = Without(@, k)]
       /\ Free(acquired[c][k])
  /\ UNCHANGED << host, pc, at, arg, queue, ops >>

-----------------------------------------------------------------------------
(* mysql_coro_cond_wait() and timedwait() on the last acquired mutex.      *)

\* The wait locks its mutex again, so callers wait on the innermost one.
\* CoroFnWaitBegin on the external worker yields once.
BeginWait(c) ==
  /\ Call(c) /\ acquired[c] # << >>
  /\ \A i \in 1 .. Len(acquired[c]) : acquired[c][i] <= acquired[c][1]
  /\ arg' = [arg EXCEPT ![c] = acquired[c][1]]
  /\ \/ Goto(c, "wait") /\ UNCHANGED << m_mutex, host, at, queue >>
     \/ /\ YieldAt(c, "wait", {})
        /\ queue' = Append(queue, c)
        /\ Goto(c, "queued")
  /\ UNCHANGED acquired

CondWait(c) ==
  /\ pc[c] = "wait"
  /\ acquired' = [acquired EXCEPT ![c] = Tail(@)]
  /\ Free(arg[c])
  /\ Goto(c, "waiting")
  /\ UNCHANGED << host, at, arg, queue, ops >>

\* Signalled or timed out: the condition variable locks the pthread mutex.
CondWake(c) ==
  /\ pc[c] = "waiting"
  /\ Take(arg[c], host[c])
  /\ Goto(c, "recheck")
  /\ UNCHANGED << acquired, host, at, arg, queue, ops >>

\* Mutant: the mutex is listed again although another coroutine holds it.
Mut_Recheck(c) ==
  /\ pc[c] = "recheck"
  /\ acquired' = [acquired EXCEPT ![c] = << arg[c] >> \o @]
  /\ Goto(c, "run")
  /\ UNCHANGED << m_mutex, host, at, arg, queue, ops >>

\* While a yielded coroutine holds the mutex, unlock and lock it again.
Recheck(c) ==
  /\ pc[c] = "recheck"
  /\ \/ /\ Listed(arg[c])
        /\ Free(arg[c])
        /\ Goto(c, "waiting")
        /\ UNCHANGED acquired
     \/ /\ ~Listed(arg[c])
        /\ acquired' = [acquired EXCEPT ![c] = << arg[c] >> \o @]
        /\ Goto(c, "run")
        /\ UNCHANGED m_mutex
  /\ UNCHANGED << host, at, arg, queue, ops >>

Finish(c) ==
  /\ pc[c] = "run" /\ acquired[c] = << >>
  /\ host' = [host EXCEPT ![c] = Nobody]
  /\ Goto(c, "done")
  /\ UNCHANGED << m_mutex, acquired, at, arg, queue, ops >>

-----------------------------------------------------------------------------
\* Outside a coroutine tls_mutex_head is NULL and the node is not looked at.
NativeLock(n) ==
  /\ \A m \in Mutex : m_mutex[m] # n
  /\ \E m \in Mutex : Take(m, n)
  /\ UNCHANGED << acquired, host, pc, at, arg, queue, ops >>

NativeUnlock(n) ==
  /\ \E m \in Mutex : m_mutex[m] = n /\ Free(m)
  /\ UNCHANGED << acquired, host, pc, at, arg, queue, ops >>

Blocking(c) == Relock(c) \/ Acquire(c) \/ CondWake(c)

Step(c) == Wake(c) \/ Check(c) \/ CondWait(c) \/ Recheck(c) \/ Unlock(c) \/ Finish(c)

Choice(c) == Yield(c) \/ Lock(c) \/ TryLock(c) \/ BeginWait(c)

Next ==
  \/ \E c \in Coro : Blocking(c) \/ Step(c) \/ Choice(c)
  \/ \E t \in Thread : Resume(t)
  \/ \E n \in Native : NativeLock(n) \/ NativeUnlock(n)

Spec == Init /\ [][Next]_vars

\* Threads run, holders unlock, and a thread blocked on a pthread mutex that
\* is unlocked again and again gets it.
Fairness ==
  /\ \A c \in Coro : SF_vars(Blocking(c)) /\ WF_vars(Step(c))
  /\ \A t \in Thread : WF_vars(Resume(t))
  /\ \A n \in Native : WF_vars(NativeUnlock(n))

FairSpec == Spec /\ Fairness

-----------------------------------------------------------------------------
(* Properties.                                                             *)

Labels == {"asleep", "queued", "relock", "run", "lock", "check", "wait", "waiting", "recheck", "done"}

\* Types of the variables.
TypeOK ==
  /\ m_mutex \in [Mutex -> Thread \cup Native \cup {Nobody}]
  /\ acquired \in [Coro -> Seq(Mutex)]
  /\ host \in [Coro -> Thread \cup {Nobody}]
  /\ pc \in [Coro -> Labels]
  /\ at \in [Coro -> {"run", "lock", "wait"}]
  /\ arg \in [Coro -> Mutex]
  /\ queue \in Seq(Coro)
  /\ ops \in [Coro -> Nat]

\* A mutex is in the list of one coroutine at most, and once: a coroutine
\* that yielded inside a critical section keeps other coroutines out of it.
CoroutineExclusion ==
  \A c, d \in Coro :
    \A i \in 1 .. Len(acquired[c]), j \in 1 .. Len(acquired[d]) :
      acquired[c][i] = acquired[d][j] => c = d /\ i = j

\* The thread that runs a coroutine owns the pthread mutexes of its list:
\* every mutex is unlocked by the pthread that locked it, although the
\* coroutine moves between threads.
RunnerOwnsMutexes ==
  \A c \in Coro :
    pc[c] \in {"run", "lock", "check", "wait", "waiting", "recheck"} =>
      \A i \in 1 .. Len(acquired[c]) : m_mutex[acquired[c][i]] = host[c]

\* A coroutine that is not on a thread leaves no pthread mutex locked, so
\* no thread blocks on it: a mutex locked by a pool thread is in use there.
NoOrphanedMutex ==
  \A m \in Mutex : m_mutex[m] \in Thread =>
    \E c \in Coro :
      /\ host[c] = m_mutex[m]
      /\ \/ \E i \in 1 .. Len(acquired[c]) : acquired[c][i] = m
         \/ pc[c] \in {"check", "recheck"} /\ arg[c] = m

\* Neither a yield inside a critical section nor the busy retry blocks the
\* others: every coroutine finishes.
EveryoneFinishes == <>(\A c \in Coro : pc[c] = "done")
=============================================================================
