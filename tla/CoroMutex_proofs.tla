-------------------------- MODULE CoroMutex_proofs --------------------------
(***************************************************************************)
(* Exclusion and ownership of mutexes held across yields, for any number   *)
(* of coroutines, threads, native threads and mutexes.                     *)
(***************************************************************************)
EXTENDS CoroMutex, TLAPS

Runs == {"run", "lock", "check", "wait", "waiting", "recheck"}
Hosted == Runs \cup {"relock"}

\* What a coroutine may rely on: it is on a thread while it runs, its list
\* has no repetition, its thread owns the mutexes of the list and the mutex it
\* is about to list, which is not listed yet, and it waits on the mutex
\* it acquired last.
Own(c) ==
  /\ pc[c] \in Hosted => host[c] \in Thread
  /\ pc[c] \notin Hosted => host[c] = Nobody
  /\ \A i, j \in 1 .. Len(acquired[c]) : acquired[c][i] = acquired[c][j] => i = j
  /\ pc[c] \in Runs => \A i \in 1 .. Len(acquired[c]) : m_mutex[acquired[c][i]] = host[c]
  /\ pc[c] \in {"check", "recheck"} => m_mutex[arg[c]] = host[c]
  /\ pc[c] = "wait" \/ (pc[c] \in {"queued", "relock"} /\ at[c] = "wait") =>
       acquired[c] # << >> /\ arg[c] = acquired[c][1]
  /\ pc[c] \in {"lock", "check", "waiting", "recheck"} \/ (pc[c] \in {"queued", "relock"} /\ at[c] = "lock") =>
       \A i \in 1 .. Len(acquired[c]) : acquired[c][i] # arg[c]
  /\ pc[c] = "asleep" => at[c] = "run"

\* Two coroutines share neither a listed mutex nor a thread.
Apart(c, d) ==
  /\ \A i \in 1 .. Len(acquired[c]), j \in 1 .. Len(acquired[d]) : acquired[c][i] # acquired[d][j]
  /\ host[c] \in Thread => host[c] # host[d]

\* A coroutine is queued once, and only while it is on no thread.
QueueOK ==
  /\ \A i \in 1 .. Len(queue) : pc[queue[i]] = "queued"
  /\ \A i, j \in 1 .. Len(queue) : queue[i] = queue[j] => i = j

Inv ==
  /\ TypeOK
  /\ \A c \in Coro : Own(c)
  /\ \A c, d \in Coro : c # d => Apart(c, d)
  /\ QueueOK
  /\ NoOrphanedMutex

-----------------------------------------------------------------------------
(* Lists.                                                                  *)

\* list_add(): the new node is the first.
LEMMA PrependLemma ==
  ASSUME NEW S, NEW s \in Seq(S), NEW m \in S
  PROVE  /\ << m >> \o s \in Seq(S)
         /\ Len(<< m >> \o s) = Len(s) + 1
         /\ (<< m >> \o s)[1] = m
         /\ \A i \in 2 .. Len(s) + 1 : (<< m >> \o s)[i] = s[i - 1]
OBVIOUS

\* list_delete(): the others keep their order.
LEMMA WithoutLemma ==
  ASSUME NEW S, NEW s \in Seq(S), NEW k \in 1 .. Len(s)
  PROVE  /\ Without(s, k) \in Seq(S)
         /\ Len(Without(s, k)) = Len(s) - 1
         /\ \A i \in 1 .. Len(s) - 1 : Without(s, k)[i] = IF i < k THEN s[i] ELSE s[i + 1]
<1>1. Len(s) - 1 \in Nat
  OBVIOUS
<1>2. \A i \in 1 .. Len(s) - 1 : (IF i < k THEN s[i] ELSE s[i + 1]) \in S
  OBVIOUS
<1> QED BY <1>1, <1>2 DEF Without

\* The nodes of a list are mutexes.
LEMMA ListedMutex ==
  ASSUME TypeOK, NEW c \in Coro, NEW i \in 1 .. Len(acquired[c])
  PROVE  acquired[c][i] \in Mutex
BY DEF TypeOK

\* The rest of a list.
LEMMA TailLemma ==
  ASSUME NEW S, NEW s \in Seq(S), s # << >>
  PROVE  /\ Tail(s) \in Seq(S)
         /\ Len(Tail(s)) = Len(s) - 1
         /\ \A i \in 1 .. Len(s) - 1 : Tail(s)[i] = s[i + 1]
OBVIOUS

-----------------------------------------------------------------------------
\* A step of c that changes no mutex but free ones and those of its thread,
\* and lists none of the others' mutexes.
KeepsOthers(c) ==
  /\ host'[c] \in {host[c], Nobody}
  /\ \A d \in Coro \ {c} :
       /\ acquired'[d] = acquired[d] /\ pc'[d] = pc[d] /\ host'[d] = host[d]
       /\ arg'[d] = arg[d] /\ at'[d] = at[d]
       /\ \A i \in 1 .. Len(acquired'[c]), j \in 1 .. Len(acquired[d]) :
            acquired'[c][i] # acquired[d][j]
  /\ \A m \in Mutex :
       m_mutex'[m] = m_mutex[m] \/ m_mutex[m] = Nobody
         \/ (m_mutex[m] = host[c] /\ host[c] \in Thread)

\* A coroutine has listed m or is about to.
InUse(c, m) ==
  \/ \E i \in 1 .. Len(acquired[c]) : acquired[c][i] = m
  \/ pc[c] \in {"check", "recheck"} /\ arg[c] = m

\* A mutex locked by a pool thread is in use by c, or it was and is locked
\* by the thread of another coroutine.
KeepsUse(c) ==
  \A m \in Mutex : m_mutex'[m] \in Thread =>
    \/ m_mutex'[m] = host'[c] /\ InUse(c, m)'
    \/ m_mutex'[m] = m_mutex[m] /\ m_mutex[m] # host[c]

\* A mutex locked by the thread of a coroutine is in use by that coroutine.
LEMMA UsedByRunner ==
  ASSUME Inv, NEW c \in Coro, host[c] \in Thread, NEW m \in Mutex, m_mutex[m] = host[c]
  PROVE  InUse(c, m)
<1>1. PICK d \in Coro : host[d] = m_mutex[m] /\ InUse(d, m)
  BY Zenon DEF Inv, NoOrphanedMutex, InUse
<1>2. d = c
  BY <1>1, Zenon DEF Inv, Apart
<1> QED BY <1>1, <1>2, Zenon

\* A coroutine on no thread has no mutex in use.
LEMMA UseIdle ==
  ASSUME NEW c \in Coro, host[c] = Nobody, m_mutex' = m_mutex
  PROVE  KeepsUse(c)
BY MutexAssumption, Zenon DEF KeepsUse

\* A coroutine leaves its thread and no mutex in use.
LEMMA UseFreed ==
  ASSUME Inv, NEW c \in Coro, host[c] \in Thread,
         \A m \in Mutex : m_mutex'[m] \in {m_mutex[m], Nobody},
         \A m \in Mutex : InUse(c, m) => m_mutex'[m] = Nobody
  PROVE  KeepsUse(c)
<1> SUFFICES ASSUME NEW m \in Mutex, m_mutex'[m] \in Thread
             PROVE  m_mutex'[m] = m_mutex[m] /\ m_mutex[m] # host[c]
  BY Zenon DEF KeepsUse
<1>1. m_mutex'[m] # Nobody
  BY MutexAssumption, Zenon
<1> QED BY <1>1, UsedByRunner, Zenon

\* A coroutine locks a mutex only to use it, and unlocks one in use.
LEMMA UseKept ==
  ASSUME Inv, NEW c \in Coro, host[c] \in Thread, host'[c] = host[c],
         \A m \in Mutex : m_mutex'[m] \in {m_mutex[m], Nobody} \/ (m_mutex'[m] = host[c] /\ InUse(c, m)'),
         \A m \in Mutex : InUse(c, m) => InUse(c, m)' \/ m_mutex'[m] = Nobody
  PROVE  KeepsUse(c)
<1> SUFFICES ASSUME NEW m \in Mutex, m_mutex'[m] \in Thread,
                    ~(m_mutex'[m] = m_mutex[m] /\ m_mutex[m] # host[c])
             PROVE  m_mutex'[m] = host[c] /\ InUse(c, m)'
  BY Zenon DEF KeepsUse
<1>1. m_mutex'[m] # Nobody
  BY MutexAssumption, Zenon
<1>2. CASE m_mutex'[m] = m_mutex[m] /\ m_mutex[m] = host[c]
  <2>1. InUse(c, m)
    BY <1>2, UsedByRunner, Zenon
  <2> QED BY <1>1, <1>2, <2>1, Zenon
<1>3. CASE m_mutex'[m] # m_mutex[m]
  BY <1>1, <1>3, Zenon
<1> QED BY <1>2, <1>3, Zenon

\* Such a step leaves what the others rely on as it was.
LEMMA OthersUndisturbed ==
  ASSUME Inv, TypeOK', NEW c \in Coro, Own(c)', QueueOK',
         KeepsOthers(c), KeepsUse(c)
  PROVE  Inv'
<1> USE DEF KeepsOthers
<1>1. ASSUME NEW d \in Coro \ {c} PROVE Own(d)'
  <2>1. Own(d) /\ Apart(d, c)
    BY Zenon DEF Inv
  <2>2. ASSUME pc[d] \in Hosted, NEW m \in Mutex, m_mutex[m] = host[d] PROVE m_mutex'[m] = host[d]
    BY <2>1, <2>2, MutexAssumption DEF Own, Apart
  <2>3. \A i \in 1 .. Len(acquired[d]) : acquired[d][i] \in Mutex
    BY DEF Inv, TypeOK
  <2>4. arg[d] \in Mutex
    BY Zenon DEF Inv, TypeOK
  <2>5. pc[d] \in Runs => \A i \in 1 .. Len(acquired[d]) : m_mutex'[acquired[d][i]] = host[d]
    BY <2>1, <2>2, <2>3, Zenon DEF Own, Hosted
  <2>6. pc[d] \in {"check", "recheck"} => m_mutex'[arg[d]] = host[d]
    BY <2>1, <2>2, <2>4, Zenon DEF Own, Hosted, Runs
  <2> QED BY <2>1, <2>5, <2>6 DEF Own
<1>2. ASSUME NEW d \in Coro, NEW e \in Coro, d # e PROVE Apart(d, e)'
  <2>0. Apart(d, e) /\ Apart(e, d)
    BY <1>2, Zenon DEF Inv
  <2>1. CASE d = c
    BY <2>0, <2>1, <1>2, MutexAssumption DEF Apart
  <2>2. CASE e = c
    BY <2>0, <2>2, <1>2, MutexAssumption DEF Apart
  <2>3. CASE d # c /\ e # c
    BY <2>0, <2>3 DEF Apart
  <2> QED BY <2>1, <2>2, <2>3, Zenon
<1>3. NoOrphanedMutex'
  <2> SUFFICES ASSUME NEW m \in Mutex, m_mutex'[m] \in Thread
               PROVE  \E d \in Coro : host'[d] = m_mutex'[m] /\ InUse(d, m)'
    BY Zenon DEF NoOrphanedMutex, InUse
  <2>1. CASE m_mutex'[m] = host'[c] /\ InUse(c, m)'
    BY <2>1, Zenon
  <2>2. CASE m_mutex'[m] = m_mutex[m] /\ m_mutex[m] # host[c]
    <3>1. PICK d \in Coro : host[d] = m_mutex[m] /\ InUse(d, m)
      BY <2>2, Zenon DEF Inv, NoOrphanedMutex, InUse
    <3>2. d # c /\ host'[d] = m_mutex'[m]
      BY <2>2, <3>1, Zenon
    <3>3. InUse(d, m)'
      BY <3>1, <3>2, Zenon DEF InUse
    <3> QED BY <3>2, <3>3, Zenon
  <2> QED BY <2>1, <2>2, Zenon DEF KeepsUse
<1> QED BY <1>1, <1>2, <1>3, Zenon DEF Inv

-----------------------------------------------------------------------------
(* The queue.                                                              *)

\* A coroutine that is not queued moves on without touching the queue.
LEMMA QueueSame ==
  ASSUME Inv, NEW c \in Coro, pc[c] # "queued", queue' = queue,
         \A d \in Coro \ {c} : pc'[d] = pc[d]
  PROVE  QueueOK'
<1>1. \A i \in 1 .. Len(queue) : queue[i] \in Coro
  BY DEF Inv, TypeOK
<1> QED BY <1>1, Zenon DEF Inv, QueueOK

\* A coroutine that is not queued enqueues itself.
LEMMA QueueAppend ==
  ASSUME Inv, NEW c \in Coro, pc[c] # "queued", queue' = Append(queue, c),
         pc'[c] = "queued", \A d \in Coro \ {c} : pc'[d] = pc[d]
  PROVE  QueueOK'
<1>1. queue \in Seq(Coro)
  BY Zenon DEF Inv, TypeOK
<1>2. /\ Len(queue') = Len(queue) + 1
      /\ \A i \in 1 .. Len(queue) : queue'[i] = queue[i] /\ queue[i] \in Coro
      /\ queue'[Len(queue) + 1] = c
  BY <1>1
<1>3. \A i \in 1 .. Len(queue) : pc[queue[i]] = "queued" /\ queue[i] # c
  BY Zenon DEF Inv, QueueOK
<1>4. \A i, j \in 1 .. Len(queue) : queue[i] = queue[j] => i = j
  BY Zenon DEF Inv, QueueOK
<1>5. \A i \in 1 .. Len(queue') : i \in 1 .. Len(queue) \/ i = Len(queue) + 1
  BY <1>1, <1>2
<1>6. \A i \in 1 .. Len(queue') : pc'[queue'[i]] = "queued"
  BY <1>2, <1>3, <1>5
<1>7. \A i, j \in 1 .. Len(queue') : queue'[i] = queue'[j] => i = j
  BY <1>2, <1>3, <1>4, <1>5
<1> QED BY <1>6, <1>7, Zenon DEF QueueOK

-----------------------------------------------------------------------------
(* One lemma for each action.                                              *)

\* A new or resumed coroutine enters the queue.
LEMMA WakeStep ==
  ASSUME Inv, NEW c \in Coro, Wake(c) PROVE Inv'
<1>t. TypeOK /\ Own(c)
  BY Zenon DEF Inv
<1>1. TypeOK'
  BY <1>t DEF TypeOK, Labels, Wake, Goto
<1>2. pc[c] = "asleep" /\ pc'[c] = "queued" /\ at[c] = "run"
  BY <1>t, Zenon DEF TypeOK, Wake, Goto, Own
<1>3. Own(c)'
  BY <1>t, <1>2, Zenon DEF Own, Hosted, Runs, Wake
<1>4. \A d \in Coro \ {c} : pc'[d] = pc[d]
  BY <1>t, Zenon DEF TypeOK, Wake, Goto
<1>5. QueueOK'
  BY <1>2, <1>4, QueueAppend, Zenon DEF Wake
<1>6. \A d \in Coro \ {c} : Apart(c, d)
  BY Zenon DEF Inv
<1>o. KeepsOthers(c)
  BY <1>4, <1>6, ZenonT(40) DEF Wake, Apart, KeepsOthers
<1>u. KeepsUse(c)
  BY <1>t, <1>2, UseIdle, Zenon DEF Own, Hosted, Runs, Wake
<1> QED BY <1>1, <1>3, <1>5, <1>o, <1>u, OthersUndisturbed, Zenon

\* A call that only moves on to its first step.
LEMMA LockStep ==
  ASSUME Inv, NEW c \in Coro, Lock(c) PROVE Inv'
<1>t. TypeOK /\ Own(c)
  BY Zenon DEF Inv
<1>0. PICK m \in Mutex : /\ \A i \in 1 .. Len(acquired[c]) : acquired[c][i] < m
                         /\ arg' = [arg EXCEPT ![c] = m]
  BY Zenon DEF Lock
<1>1. TypeOK'
  BY <1>t, <1>0 DEF TypeOK, Labels, Lock, Call, Goto
<1>2. pc[c] = "run" /\ pc'[c] = "lock"
  BY <1>t, Zenon DEF TypeOK, Lock, Call, Goto
<1>a. \A i \in 1 .. Len(acquired[c]) : acquired[c][i] # arg'[c]
  <2>1. arg'[c] = m /\ m \in Nat
    BY <1>t, <1>0, MutexAssumption, Zenon DEF TypeOK
  <2> QED BY <2>1, <1>0
<1>3. Own(c)'
  BY <1>t, <1>2, <1>a, Zenon DEF Own, Hosted, Runs, Lock
<1>4. \A d \in Coro \ {c} : pc'[d] = pc[d] /\ arg'[d] = arg[d]
  BY <1>t, <1>0, Zenon DEF TypeOK, Lock, Goto
<1>5. QueueOK'
  BY <1>2, <1>4, QueueSame, Zenon DEF Lock
<1>6. \A d \in Coro \ {c} : Apart(c, d)
  BY Zenon DEF Inv
<1>o. KeepsOthers(c)
  BY <1>4, <1>6 DEF Lock, Apart, KeepsOthers
<1>u. KeepsUse(c)
  <2>1. host[c] \in Thread /\ UNCHANGED << m_mutex, host, acquired >>
    BY <1>t, <1>2, Zenon DEF Own, Hosted, Runs, Lock
  <2>2. \A m1 \in Mutex : InUse(c, m1) => InUse(c, m1)'
    BY <1>2, <2>1, Zenon DEF InUse
  <2> QED BY <2>1, <2>2, UseKept, Zenon
<1> QED BY <1>1, <1>3, <1>5, <1>o, <1>u, OthersUndisturbed, Zenon

\* pthread_mutex_lock() of lock().
LEMMA AcquireStep ==
  ASSUME Inv, NEW c \in Coro, Acquire(c) PROVE Inv'
<1>t. TypeOK /\ Own(c)
  BY Zenon DEF Inv
<1>1. TypeOK'
  BY <1>t, Zenon DEF TypeOK, Labels, Acquire, Take, Goto
<1>2. pc[c] = "lock" /\ pc'[c] = "check" /\ m_mutex[arg[c]] = Nobody /\ m_mutex'[arg[c]] = host[c]
  BY <1>t, Zenon DEF TypeOK, Acquire, Take, Goto
<1>3. \A m \in Mutex : m_mutex'[m] = m_mutex[m] \/ m_mutex[m] = Nobody
  BY <1>t, Zenon DEF TypeOK, Acquire, Take
<1>4. host[c] \in Thread /\ \A i \in 1 .. Len(acquired[c]) : m_mutex[acquired[c][i]] = host[c]
  BY <1>t, <1>2, Zenon DEF Own, Hosted, Runs
<1>5. \A i \in 1 .. Len(acquired[c]) : m_mutex'[acquired[c][i]] = host[c]
  BY <1>t, <1>3, <1>4, ListedMutex, MutexAssumption, Zenon
<1>6. Own(c)'
  BY <1>t, <1>2, <1>5, Zenon DEF Own, Hosted, Runs, Acquire
<1>7. \A d \in Coro \ {c} : pc'[d] = pc[d]
  BY <1>t, Zenon DEF TypeOK, Acquire, Goto
<1>8. QueueOK'
  BY <1>2, <1>7, QueueSame, Zenon DEF Acquire
<1>9. \A d \in Coro \ {c} : Apart(c, d)
  BY Zenon DEF Inv
<1>o. KeepsOthers(c)
  BY <1>3, <1>7, <1>9, ZenonT(40) DEF Acquire, Apart, KeepsOthers
<1>u. KeepsUse(c)
  <2>1. UNCHANGED << host, acquired, arg >> /\ arg[c] \in Mutex
    BY <1>t, Zenon DEF Acquire, TypeOK
  <2>2. \A m \in Mutex : m_mutex'[m] = m_mutex[m] \/ m = arg[c]
    BY <1>t, Zenon DEF Acquire, Take, TypeOK
  <2>3. InUse(c, arg[c])' /\ \A m \in Mutex : InUse(c, m) => InUse(c, m)'
    BY <1>2, <2>1, Zenon DEF InUse
  <2> QED BY <1>2, <1>4, <2>1, <2>2, <2>3, UseKept, Zenon
<1> QED BY <1>1, <1>6, <1>8, <1>o, <1>u, OthersUndisturbed, Zenon

\* The condition variable locks the mutex again.
LEMMA CondWakeStep ==
  ASSUME Inv, NEW c \in Coro, CondWake(c) PROVE Inv'
<1>t. TypeOK /\ Own(c)
  BY Zenon DEF Inv
<1>1. TypeOK'
  BY <1>t, Zenon DEF TypeOK, Labels, CondWake, Take, Goto
<1>2. pc[c] = "waiting" /\ pc'[c] = "recheck" /\ m_mutex[arg[c]] = Nobody /\ m_mutex'[arg[c]] = host[c]
  BY <1>t, Zenon DEF TypeOK, CondWake, Take, Goto
<1>3. \A m \in Mutex : m_mutex'[m] = m_mutex[m] \/ m_mutex[m] = Nobody
  BY <1>t, Zenon DEF TypeOK, CondWake, Take
<1>4. host[c] \in Thread /\ \A i \in 1 .. Len(acquired[c]) : m_mutex[acquired[c][i]] = host[c]
  BY <1>t, <1>2, Zenon DEF Own, Hosted, Runs
<1>5. \A i \in 1 .. Len(acquired[c]) : m_mutex'[acquired[c][i]] = host[c]
  BY <1>t, <1>3, <1>4, ListedMutex, MutexAssumption, Zenon
<1>6. Own(c)'
  BY <1>t, <1>2, <1>5, Zenon DEF Own, Hosted, Runs, CondWake
<1>7. \A d \in Coro \ {c} : pc'[d] = pc[d]
  BY <1>t, Zenon DEF TypeOK, CondWake, Goto
<1>8. QueueOK'
  BY <1>2, <1>7, QueueSame, Zenon DEF CondWake
<1>9. \A d \in Coro \ {c} : Apart(c, d)
  BY Zenon DEF Inv
<1>o. KeepsOthers(c)
  BY <1>3, <1>7, <1>9, ZenonT(40) DEF CondWake, Apart, KeepsOthers
<1>u. KeepsUse(c)
  <2>1. UNCHANGED << host, acquired, arg >> /\ arg[c] \in Mutex
    BY <1>t, Zenon DEF CondWake, TypeOK
  <2>2. \A m \in Mutex : m_mutex'[m] = m_mutex[m] \/ m = arg[c]
    BY <1>t, Zenon DEF CondWake, Take, TypeOK
  <2>3. InUse(c, arg[c])' /\ \A m \in Mutex : InUse(c, m) => InUse(c, m)'
    BY <1>2, <2>1, Zenon DEF InUse
  <2> QED BY <1>2, <1>4, <2>1, <2>2, <2>3, UseKept, Zenon
<1> QED BY <1>1, <1>6, <1>8, <1>o, <1>u, OthersUndisturbed, Zenon

\* A coroutine without mutexes ends.
LEMMA FinishStep ==
  ASSUME Inv, NEW c \in Coro, Finish(c) PROVE Inv'
<1>t. TypeOK /\ Own(c)
  BY Zenon DEF Inv
<1>1. TypeOK'
  BY <1>t, Zenon DEF TypeOK, Labels, Finish, Goto
<1>2. pc[c] = "run" /\ pc'[c] = "done" /\ host'[c] = Nobody
  BY <1>t, Zenon DEF TypeOK, Finish, Goto
<1>3. Own(c)'
  BY <1>t, <1>2, Zenon DEF Own, Hosted, Runs, Finish
<1>4. \A d \in Coro \ {c} : pc'[d] = pc[d] /\ host'[d] = host[d]
  BY <1>t, Zenon DEF TypeOK, Finish, Goto
<1>5. QueueOK'
  BY <1>2, <1>4, QueueSame, Zenon DEF Finish
<1>6. \A d \in Coro \ {c} : Apart(c, d)
  BY Zenon DEF Inv
<1>o. KeepsOthers(c)
  BY <1>2, <1>4, <1>6 DEF Finish, Apart, KeepsOthers
<1>u. KeepsUse(c)
  <2>1. host[c] \in Thread /\ m_mutex' = m_mutex /\ acquired[c] = << >>
    BY <1>t, <1>2, Zenon DEF Own, Hosted, Runs, Finish
  <2>2. \A m \in Mutex : ~InUse(c, m)
    BY <1>2, <2>1 DEF InUse
  <2> QED BY <2>1, <2>2, UseFreed, Zenon
<1> QED BY <1>1, <1>3, <1>5, <1>o, <1>u, OthersUndisturbed, Zenon

\* A yielding coroutine frees the mutexes of its list and of also, all of
\* which its thread owns, and no others.
LEMMA YieldFrees ==
  ASSUME Inv, NEW c \in Coro, NEW l, NEW also, YieldAt(c, l, also), pc[c] \in Runs,
         \A m \in also : m_mutex[m] = host[c]
  PROVE  /\ \A m \in Mutex : m_mutex'[m] = m_mutex[m] \/ (m_mutex[m] = host[c] /\ host[c] \in Thread)
         /\ m_mutex' \in [Mutex -> Thread \cup Native \cup {Nobody}]
         /\ host'[c] = Nobody /\ at'[c] = l
         /\ \A d \in Coro \ {c} : host'[d] = host[d] /\ at'[d] = at[d]
<1>t. TypeOK /\ Own(c)
  BY Zenon DEF Inv
<1>1. host[c] \in Thread /\ \A i \in 1 .. Len(acquired[c]) : m_mutex[acquired[c][i]] = host[c]
  BY <1>t, Zenon DEF Own, Hosted
<1>2. \A m \in Mutex : m_mutex'[m] = m_mutex[m] \/ (m_mutex[m] = host[c] /\ host[c] \in Thread)
  BY <1>1, Zenon DEF YieldAt
<1>3. m_mutex' \in [Mutex -> Thread \cup Native \cup {Nobody}]
  BY <1>t, Zenon DEF YieldAt, TypeOK
<1>4. /\ host'[c] = Nobody /\ at'[c] = l
      /\ \A d \in Coro \ {c} : host'[d] = host[d] /\ at'[d] = at[d]
  BY <1>t, Zenon DEF YieldAt, TypeOK
<1> QED BY <1>2, <1>3, <1>4, Zenon

\* A yield to the transaction service.
LEMMA YieldStep ==
  ASSUME Inv, NEW c \in Coro, Yield(c) PROVE Inv'
<1>t. TypeOK /\ Own(c)
  BY Zenon DEF Inv
<1>2. pc[c] = "run" /\ pc'[c] = "asleep"
  BY <1>t, Zenon DEF TypeOK, Yield, Call, Goto
<1>3. /\ \A m \in Mutex : m_mutex'[m] = m_mutex[m] \/ (m_mutex[m] = host[c] /\ host[c] \in Thread)
      /\ m_mutex' \in [Mutex -> Thread \cup Native \cup {Nobody}]
      /\ host'[c] = Nobody /\ at'[c] = "run"
      /\ \A d \in Coro \ {c} : host'[d] = host[d] /\ at'[d] = at[d]
  BY <1>2, YieldFrees DEF Yield, Runs
<1>1. TypeOK'
  BY <1>t, <1>3 DEF TypeOK, Labels, Yield, Call, YieldAt, Goto
<1>4. Own(c)'
  BY <1>t, <1>2, <1>3, Zenon DEF Own, Hosted, Runs, Yield
<1>5. \A d \in Coro \ {c} : pc'[d] = pc[d]
  BY <1>t, Zenon DEF TypeOK, Yield, Goto
<1>6. QueueOK'
  BY <1>2, <1>5, QueueSame, Zenon DEF Yield
<1>7. \A d \in Coro \ {c} : Apart(c, d)
  BY Zenon DEF Inv
<1>o. KeepsOthers(c)
  BY <1>3, <1>5, <1>7 DEF Yield, Apart, KeepsOthers
<1>u. KeepsUse(c)
  <2>1. \A m \in Mutex : InUse(c, m) => \E i \in 1 .. Len(acquired[c]) : acquired[c][i] = m
    BY <1>2, Zenon DEF InUse
  <2>2. \A m \in Mutex : InUse(c, m) => m_mutex'[m] = Nobody
    BY <2>1, Zenon DEF Yield, YieldAt
  <2>3. host[c] \in Thread /\ \A m \in Mutex : m_mutex'[m] \in {m_mutex[m], Nobody}
    BY <1>t, <1>2, Zenon DEF Own, Hosted, Runs, Yield, YieldAt
  <2> QED BY <2>2, <2>3, UseFreed, Zenon
<1> QED BY <1>1, <1>4, <1>6, <1>o, <1>u, OthersUndisturbed, Zenon

\* A list with a mutex in front that nobody lists has no repetition and
\* shares nothing with the lists of others.
LEMMA ListNew ==
  ASSUME Inv, NEW c \in Coro, NEW m \in Mutex, ~Listed(m),
         acquired' = [acquired EXCEPT ![c] = << m >> \o @]
  PROVE  /\ acquired' \in [Coro -> Seq(Mutex)]
         /\ \A d \in Coro \ {c} : acquired'[d] = acquired[d]
         /\ \A i, j \in 1 .. Len(acquired'[c]) : acquired'[c][i] = acquired'[c][j] => i = j
         /\ \A i \in 1 .. Len(acquired'[c]) :
              acquired'[c][i] = m \/ \E j \in 1 .. Len(acquired[c]) : acquired'[c][i] = acquired[c][j]
         /\ \E i \in 1 .. Len(acquired'[c]) : acquired'[c][i] = m
         /\ \A j \in 1 .. Len(acquired[c]) : \E i \in 1 .. Len(acquired'[c]) : acquired'[c][i] = acquired[c][j]
         /\ \A d \in Coro \ {c} :
              \A i \in 1 .. Len(acquired'[c]), j \in 1 .. Len(acquired[d]) :
                acquired'[c][i] # acquired[d][j]
<1> DEFINE s == acquired[c]
           t == << m >> \o s
<1>1. TypeOK /\ Own(c) /\ s \in Seq(Mutex)
  BY Zenon DEF Inv, TypeOK
<1>2. /\ t \in Seq(Mutex) /\ Len(t) = Len(s) + 1 /\ t[1] = m
      /\ \A i \in 2 .. Len(s) + 1 : t[i] = s[i - 1]
  BY <1>1, PrependLemma
<1>3. acquired'[c] = t /\ acquired' \in [Coro -> Seq(Mutex)] /\ \A d \in Coro \ {c} : acquired'[d] = acquired[d]
  BY <1>1, <1>2, Zenon DEF TypeOK
<1>4. \A i \in 1 .. Len(s) : s[i] # m
  BY Zenon DEF Listed
<1>5. \A i, j \in 1 .. Len(s) : s[i] = s[j] => i = j
  BY <1>1, Zenon DEF Own
<1> HIDE DEF s, t
<1>6. Len(s) \in Nat
  BY <1>1
<1>0. \A i \in 1 .. Len(t) : i # 1 => i - 1 \in 1 .. Len(s) /\ t[i] = s[i - 1]
  BY <1>2, <1>6
<1>7. ASSUME NEW i \in 1 .. Len(t), NEW j \in 1 .. Len(t), t[i] = t[j] PROVE i = j
  <2>1. CASE i = 1 \/ j = 1
    BY <2>1, <1>7, <1>0, <1>2, <1>4, Zenon
  <2>2. CASE i # 1 /\ j # 1
    <3>1. i - 1 = j - 1
      BY <2>2, <1>7, <1>0, <1>5, Zenon
    <3> QED BY <3>1
  <2> QED BY <2>1, <2>2, Zenon
<1>8. \A i \in 1 .. Len(t) : t[i] = m \/ \E j \in 1 .. Len(s) : t[i] = s[j]
  <2> TAKE i \in 1 .. Len(t)
  <2>1. CASE i = 1
    BY <2>1, <1>2, Zenon
  <2>2. CASE i # 1
    BY <2>2, <1>0, Zenon
  <2> QED BY <2>1, <2>2, Zenon
<1>9. ASSUME NEW d \in Coro \ {c}, NEW i \in 1 .. Len(t), NEW j \in 1 .. Len(acquired[d])
      PROVE  t[i] # acquired[d][j]
  <2>1. acquired[d][j] # m
    BY Zenon DEF Listed
  <2>2. \A k \in 1 .. Len(s) : s[k] # acquired[d][j]
    BY Zenon DEF s, Inv, Apart
  <2> QED BY <2>1, <2>2, <1>8, Zenon
<1>10. 1 \in 1 .. Len(t) /\ t[1] = m
  BY <1>2, <1>6
<1>11. ASSUME NEW j \in 1 .. Len(s) PROVE j + 1 \in 1 .. Len(t) /\ t[j + 1] = s[j]
  <2>1. j + 1 \in 2 .. Len(s) + 1 /\ j + 1 \in 1 .. Len(t) /\ (j + 1) - 1 = j
    BY <1>2, <1>6
  <2>2. t[j + 1] = s[(j + 1) - 1]
    BY <1>2, <2>1, Zenon
  <2> QED BY <2>1, <2>2, Zenon
<1>12. \A j \in 1 .. Len(s) : \E i \in 1 .. Len(t) : t[i] = s[j]
  BY <1>11, Zenon
<1> QED BY <1>3, <1>7, <1>8, <1>9, <1>10, <1>12, SMTT(60) DEF s

\* A list without one of its nodes.
LEMMA ListLess ==
  ASSUME Inv, NEW c \in Coro, NEW t \in Seq(Mutex), NEW k \in 1 .. Len(acquired[c]),
         Len(t) = Len(acquired[c]) - 1,
         \A i \in 1 .. Len(acquired[c]) - 1 : t[i] = IF i < k THEN acquired[c][i] ELSE acquired[c][i + 1],
         acquired' = [acquired EXCEPT ![c] = t]
  PROVE  /\ acquired' \in [Coro -> Seq(Mutex)]
         /\ \A d \in Coro \ {c} : acquired'[d] = acquired[d]
         /\ \A i, j \in 1 .. Len(acquired'[c]) : acquired'[c][i] = acquired'[c][j] => i = j
         /\ \A i \in 1 .. Len(acquired'[c]) :
              \E j \in 1 .. Len(acquired[c]) : j # k /\ acquired'[c][i] = acquired[c][j]
         /\ \A i \in 1 .. Len(acquired'[c]) : acquired'[c][i] # acquired[c][k]
         /\ \A j \in 1 .. Len(acquired[c]) :
              j # k => \E i \in 1 .. Len(acquired'[c]) : acquired'[c][i] = acquired[c][j]
         /\ \A d \in Coro \ {c} :
              \A i \in 1 .. Len(acquired'[c]), j \in 1 .. Len(acquired[d]) :
                acquired'[c][i] # acquired[d][j]
<1> DEFINE s == acquired[c]
           from == [i \in 1 .. Len(t) |-> IF i < k THEN i ELSE i + 1]
<1>1. TypeOK /\ Own(c) /\ s \in Seq(Mutex) /\ Len(s) \in Nat
  BY DEF Inv, TypeOK
<1>3. acquired'[c] = t /\ acquired' \in [Coro -> Seq(Mutex)] /\ \A d \in Coro \ {c} : acquired'[d] = acquired[d]
  BY <1>1, Zenon DEF TypeOK
<1>5. \A i, j \in 1 .. Len(s) : s[i] = s[j] => i = j
  BY <1>1, Zenon DEF Own
<1>6. \A d \in Coro \ {c} : \A i \in 1 .. Len(s), j \in 1 .. Len(acquired[d]) : s[i] # acquired[d][j]
  BY Zenon DEF Inv, Apart
<1>7. \A i \in 1 .. Len(t) : from[i] \in 1 .. Len(s) /\ from[i] # k /\ t[i] = s[from[i]]
  BY <1>1
<1>8. \A i, j \in 1 .. Len(t) : from[i] = from[j] => i = j
  BY <1>1
<1> HIDE DEF s, from
<1>k. k \in 1 .. Len(s)
  BY Zenon DEF s
<1>9. ASSUME NEW i \in 1 .. Len(t), NEW j \in 1 .. Len(t), t[i] = t[j] PROVE i = j
  <2>1. /\ from[i] \in 1 .. Len(s) /\ t[i] = s[from[i]]
        /\ from[j] \in 1 .. Len(s) /\ t[j] = s[from[j]]
    BY <1>7, Zenon
  <2>2. s[from[i]] = s[from[j]]
    BY <2>1, <1>9, Zenon
  <2>3. from[i] = from[j]
    BY <2>1, <2>2, <1>5, Zenon
  <2> QED BY <2>3, <1>8, Zenon
<1>10. ASSUME NEW i \in 1 .. Len(t)
       PROVE  (\E j \in 1 .. Len(s) : j # k /\ t[i] = s[j]) /\ t[i] # s[k]
  <2>1. from[i] \in 1 .. Len(s) /\ from[i] # k /\ t[i] = s[from[i]]
    BY <1>7, Zenon
  <2>2. s[from[i]] # s[k]
    BY <2>1, <1>k, <1>5, Zenon
  <2> QED BY <2>1, <2>2, Zenon
<1>11. ASSUME NEW d \in Coro \ {c}, NEW i \in 1 .. Len(t), NEW j \in 1 .. Len(acquired[d])
       PROVE  t[i] # acquired[d][j]
  <2>1. from[i] \in 1 .. Len(s) /\ t[i] = s[from[i]]
    BY <1>7, Zenon
  <2> QED BY <2>1, <1>6
<1>12. \A i \in 1 .. Len(t) : (\E j \in 1 .. Len(acquired[c]) : j # k /\ t[i] = acquired[c][j]) /\ t[i] # acquired[c][k]
  BY <1>10, Zenon DEF s
<1>13. \A i, j \in 1 .. Len(acquired'[c]) : acquired'[c][i] = acquired'[c][j] => i = j
  BY <1>3, <1>9, ZenonT(40)
<1>14. \A i \in 1 .. Len(acquired'[c]) :
         (\E j \in 1 .. Len(acquired[c]) : j # k /\ acquired'[c][i] = acquired[c][j])
           /\ acquired'[c][i] # acquired[c][k]
  BY <1>3, <1>12, Zenon
<1>15. \A d \in Coro \ {c} :
         \A i \in 1 .. Len(acquired'[c]), j \in 1 .. Len(acquired[d]) :
           acquired'[c][i] # acquired[d][j]
  BY <1>3, <1>11
<1>16. ASSUME NEW j \in 1 .. Len(s), j # k PROVE \E i \in 1 .. Len(t) : from[i] = j
  <2>1. CASE j < k
    <3>1. j \in 1 .. Len(t) /\ from[j] = j
      BY <1>1, <1>k, <2>1 DEF from, s
    <3> QED BY <3>1, Zenon
  <2>2. CASE j > k
    <3>1. j - 1 \in 1 .. Len(t) /\ from[j - 1] = j
      BY <1>1, <1>k, <2>2 DEF from, s
    <3> QED BY <3>1, Zenon
  <2> QED BY <1>1, <1>k, <1>16, <2>1, <2>2
<1>17. ASSUME NEW j \in 1 .. Len(s), j # k PROVE \E i \in 1 .. Len(t) : t[i] = s[j]
  <2>1. PICK i \in 1 .. Len(t) : from[i] = j
    BY <1>16, <1>17, Zenon
  <2> QED BY <1>7, <2>1, Zenon
<1>18. \A j \in 1 .. Len(acquired[c]) :
         j # k => \E i \in 1 .. Len(acquired'[c]) : acquired'[c][i] = acquired[c][j]
  BY <1>3, <1>17, Zenon DEF s
<1> QED BY <1>3, <1>13, <1>14, <1>15, <1>18, Zenon

\* unlock() of a listed mutex.
LEMMA UnlockStep ==
  ASSUME Inv, NEW c \in Coro, Unlock(c) PROVE Inv'
<1>t. TypeOK /\ Own(c)
  BY Zenon DEF Inv
<1>0. PICK k \in 1 .. Len(acquired[c]) :
        acquired' = [acquired EXCEPT ![c] = Without(@, k)] /\ Free(acquired[c][k])
  BY Zenon DEF Unlock
<1>2. pc[c] = "run" /\ host[c] \in Thread /\ \A i \in 1 .. Len(acquired[c]) : m_mutex[acquired[c][i]] = host[c]
  BY <1>t, Zenon DEF Unlock, Own, Hosted, Runs
<1>3. /\ Without(acquired[c], k) \in Seq(Mutex)
      /\ Len(Without(acquired[c], k)) = Len(acquired[c]) - 1
      /\ \A i \in 1 .. Len(acquired[c]) - 1 :
           Without(acquired[c], k)[i] = IF i < k THEN acquired[c][i] ELSE acquired[c][i + 1]
  BY <1>t, WithoutLemma DEF TypeOK
<1>4. /\ acquired' \in [Coro -> Seq(Mutex)]
      /\ \A d \in Coro \ {c} : acquired'[d] = acquired[d]
      /\ \A i, j \in 1 .. Len(acquired'[c]) : acquired'[c][i] = acquired'[c][j] => i = j
      /\ \A i \in 1 .. Len(acquired'[c]) :
           \E j \in 1 .. Len(acquired[c]) : j # k /\ acquired'[c][i] = acquired[c][j]
      /\ \A i \in 1 .. Len(acquired'[c]) : acquired'[c][i] # acquired[c][k]
      /\ \A j \in 1 .. Len(acquired[c]) :
           j # k => \E i \in 1 .. Len(acquired'[c]) : acquired'[c][i] = acquired[c][j]
      /\ \A d \in Coro \ {c} :
           \A i \in 1 .. Len(acquired'[c]), j \in 1 .. Len(acquired[d]) :
             acquired'[c][i] # acquired[d][j]
  BY <1>0, <1>3, ListLess, Zenon
<1>5. acquired[c][k] \in Mutex /\ \A i \in 1 .. Len(acquired'[c]) : acquired'[c][i] \in Mutex
  BY <1>t, <1>4, ListedMutex, ZenonT(40)
<1>6. \A m \in Mutex : m_mutex'[m] = IF m = acquired[c][k] THEN Nobody ELSE m_mutex[m]
  BY <1>t, <1>0, Zenon DEF Free, TypeOK
<1>1. TypeOK'
  BY <1>t, <1>0, <1>4, Zenon DEF TypeOK, Unlock, Free
<1>7. ASSUME NEW i \in 1 .. Len(acquired'[c]) PROVE m_mutex'[acquired'[c][i]] = host[c]
  <2>1. PICK j \in 1 .. Len(acquired[c]) : acquired'[c][i] = acquired[c][j]
    BY <1>4, Zenon
  <2>2. m_mutex[acquired'[c][i]] = host[c]
    BY <1>2, <2>1, Zenon
  <2>3. acquired'[c][i] # acquired[c][k]
    BY <1>4, Zenon
  <2> QED BY <1>5, <1>6, <2>2, <2>3, Zenon
<1>8. Own(c)'
  BY <1>t, <1>2, <1>4, <1>7, Zenon DEF Own, Hosted, Runs, Unlock
<1>9. QueueOK'
  BY <1>2, QueueSame, Zenon DEF Unlock
<1>10. \A m \in Mutex : m_mutex'[m] = m_mutex[m] \/ (m_mutex[m] = host[c] /\ host[c] \in Thread)
  BY <1>2, <1>6, Zenon
<1>11. UNCHANGED << host, pc, at, arg >>
  BY Zenon DEF Unlock
<1>12. \A d \in Coro \ {c} :
         /\ acquired'[d] = acquired[d]
         /\ \A i \in 1 .. Len(acquired'[c]), j \in 1 .. Len(acquired[d]) :
              acquired'[c][i] # acquired[d][j]
  BY <1>4, Zenon
<1>o. KeepsOthers(c)
  BY <1>10, <1>11, <1>12, Zenon DEF KeepsOthers
<1>u. KeepsUse(c)
  <2>1. ASSUME NEW m \in Mutex, InUse(c, m) PROVE InUse(c, m)' \/ m_mutex'[m] = Nobody
    <3>1. PICK j \in 1 .. Len(acquired[c]) : acquired[c][j] = m
      BY <1>2, <2>1, Zenon DEF InUse
    <3>2. CASE j = k
      BY <1>6, <3>1, <3>2, Zenon
    <3>3. CASE j # k
      <4>1. \E i \in 1 .. Len(acquired'[c]) : acquired'[c][i] = acquired[c][j]
        BY <1>4, <3>3, Zenon
      <4> QED BY <3>1, <4>1, Zenon DEF InUse
    <3> QED BY <3>2, <3>3, Zenon
  <2>2. host' = host /\ \A m \in Mutex : m_mutex'[m] \in {m_mutex[m], Nobody}
    BY <1>6, Zenon DEF Unlock
  <2> QED BY <1>2, <2>1, <2>2, UseKept, Zenon
<1> QED BY <1>1, <1>8, <1>9, <1>o, <1>u, OthersUndisturbed, Zenon

\* A condition wait frees its mutex and takes it off the list.
LEMMA CondWaitStep ==
  ASSUME Inv, NEW c \in Coro, CondWait(c) PROVE Inv'
<1>t. TypeOK /\ Own(c)
  BY Zenon DEF Inv
<1>2. pc[c] = "wait" /\ pc'[c] = "waiting" /\ acquired[c] # << >> /\ arg[c] = acquired[c][1]
  BY <1>t, Zenon DEF TypeOK, CondWait, Goto, Own
<1>0. host[c] \in Thread /\ \A i \in 1 .. Len(acquired[c]) : m_mutex[acquired[c][i]] = host[c]
  BY <1>t, <1>2, Zenon DEF Own, Hosted, Runs
<1>3. /\ 1 \in 1 .. Len(acquired[c])
      /\ Tail(acquired[c]) \in Seq(Mutex)
      /\ Len(Tail(acquired[c])) = Len(acquired[c]) - 1
      /\ \A i \in 1 .. Len(acquired[c]) - 1 :
           Tail(acquired[c])[i] = IF i < 1 THEN acquired[c][i] ELSE acquired[c][i + 1]
  BY <1>t, <1>2, TailLemma DEF TypeOK
<1>4. /\ acquired' \in [Coro -> Seq(Mutex)]
      /\ \A d \in Coro \ {c} : acquired'[d] = acquired[d]
      /\ \A i, j \in 1 .. Len(acquired'[c]) : acquired'[c][i] = acquired'[c][j] => i = j
      /\ \A i \in 1 .. Len(acquired'[c]) :
           \E j \in 1 .. Len(acquired[c]) : j # 1 /\ acquired'[c][i] = acquired[c][j]
      /\ \A i \in 1 .. Len(acquired'[c]) : acquired'[c][i] # acquired[c][1]
      /\ \A j \in 1 .. Len(acquired[c]) :
           j # 1 => \E i \in 1 .. Len(acquired'[c]) : acquired'[c][i] = acquired[c][j]
      /\ \A d \in Coro \ {c} :
           \A i \in 1 .. Len(acquired'[c]), j \in 1 .. Len(acquired[d]) :
             acquired'[c][i] # acquired[d][j]
  BY <1>3, ListLess, Zenon DEF CondWait
<1>5. arg[c] \in Mutex /\ \A i \in 1 .. Len(acquired'[c]) : acquired'[c][i] \in Mutex
  BY <1>t, <1>4, ListedMutex DEF TypeOK
<1>6. \A m \in Mutex : m_mutex'[m] = IF m = arg[c] THEN Nobody ELSE m_mutex[m]
  BY <1>t, Zenon DEF CondWait, Free, TypeOK
<1>1. TypeOK'
  BY <1>t, <1>4, Zenon DEF TypeOK, CondWait, Free, Goto, Labels
<1>7. ASSUME NEW i \in 1 .. Len(acquired'[c]) PROVE m_mutex'[acquired'[c][i]] = host[c]
  <2>1. PICK j \in 1 .. Len(acquired[c]) : acquired'[c][i] = acquired[c][j]
    BY <1>4, Zenon
  <2>2. m_mutex[acquired'[c][i]] = host[c]
    BY <1>0, <2>1, Zenon
  <2>3. acquired'[c][i] # arg[c]
    BY <1>2, <1>4, Zenon
  <2> QED BY <1>5, <1>6, <2>2, <2>3, Zenon
<1>8. Own(c)'
  BY <1>0, <1>2, <1>4, <1>7 DEF Own, Hosted, Runs, CondWait
<1>9. \A d \in Coro \ {c} : pc'[d] = pc[d]
  BY <1>t, Zenon DEF TypeOK, CondWait, Goto
<1>10. QueueOK'
  BY <1>2, <1>9, QueueSame, Zenon DEF CondWait
<1>11. \A m \in Mutex : m_mutex'[m] = m_mutex[m] \/ (m_mutex[m] = host[c] /\ host[c] \in Thread)
  BY <1>0, <1>2, <1>3, <1>6, Zenon
<1>o. KeepsOthers(c)
  BY <1>4, <1>9, <1>11, Zenon DEF CondWait, KeepsOthers
<1>u. KeepsUse(c)
  <2>1. ASSUME NEW m \in Mutex, InUse(c, m) PROVE InUse(c, m)' \/ m_mutex'[m] = Nobody
    <3>1. PICK j \in 1 .. Len(acquired[c]) : acquired[c][j] = m
      BY <1>2, <2>1, Zenon DEF InUse
    <3>2. CASE j = 1
      BY <1>2, <1>6, <3>1, <3>2, Zenon
    <3>3. CASE j # 1
      <4>1. \E i \in 1 .. Len(acquired'[c]) : acquired'[c][i] = acquired[c][j]
        BY <1>3, <1>4, <3>3, Zenon
      <4> QED BY <3>1, <4>1, Zenon DEF InUse
    <3> QED BY <3>2, <3>3, Zenon
  <2>2. host' = host /\ \A m \in Mutex : m_mutex'[m] \in {m_mutex[m], Nobody}
    BY <1>6, Zenon DEF CondWait
  <2> QED BY <1>0, <2>1, <2>2, UseKept, Zenon
<1> QED BY <1>1, <1>8, <1>10, <1>o, <1>u, OthersUndisturbed, Zenon

\* lock() looks at the node: it retries later, or lists the mutex.
LEMMA CheckStep ==
  ASSUME Inv, NEW c \in Coro, Check(c) PROVE Inv'
<1>t. TypeOK /\ Own(c) /\ arg[c] \in Mutex
  BY Zenon DEF Inv, TypeOK
<1>0. pc[c] = "check" /\ host[c] \in Thread /\ m_mutex[arg[c]] = host[c]
      /\ \A i \in 1 .. Len(acquired[c]) : m_mutex[acquired[c][i]] = host[c]
  BY <1>t, Zenon DEF Check, Own, Hosted, Runs
<1>b. /\ \A i \in 1 .. Len(acquired[c]) : acquired[c][i] # arg[c]
      /\ \A i, j \in 1 .. Len(acquired[c]) : acquired[c][i] = acquired[c][j] => i = j
  BY <1>t, <1>0, Zenon DEF Own
<1>a. \A d \in Coro \ {c} : Apart(c, d) /\ pc'[d] = pc[d]
  BY <1>t, Zenon DEF Inv, Check, Goto, TypeOK
<1>1. CASE Listed(arg[c])
  <2>0. /\ YieldAt(c, "lock", {arg[c]}) /\ queue' = Append(queue, c)
        /\ pc' = [pc EXCEPT ![c] = "queued"] /\ UNCHANGED << acquired, arg, ops >>
    BY <1>1, Zenon DEF Check, Goto
  <2>1. /\ \A m \in Mutex : m_mutex'[m] = m_mutex[m] \/ (m_mutex[m] = host[c] /\ host[c] \in Thread)
        /\ m_mutex' \in [Mutex -> Thread \cup Native \cup {Nobody}]
        /\ host'[c] = Nobody /\ at'[c] = "lock"
        /\ \A d \in Coro \ {c} : host'[d] = host[d] /\ at'[d] = at[d]
    BY <1>0, <2>0, YieldFrees DEF Runs
  <2>2. TypeOK'
    BY <1>t, <2>0, <2>1 DEF TypeOK, Labels, YieldAt
  <2>3. pc'[c] = "queued"
    BY <1>t, <2>0, Zenon DEF TypeOK
  <2>4. Own(c)'
    BY <1>b, <2>0, <2>1, <2>3, Zenon DEF Own, Hosted, Runs
  <2>5. QueueOK'
    BY <1>0, <1>a, <2>0, <2>3, QueueAppend, Zenon
  <2>7. \A d \in Coro \ {c} :
          \A i \in 1 .. Len(acquired'[c]), j \in 1 .. Len(acquired[d]) : acquired'[c][i] # acquired[d][j]
    BY <1>a, <2>0, ZenonT(40) DEF Apart
  <2>8. acquired' = acquired /\ arg' = arg
    BY <2>0, Zenon
  <2>o. KeepsOthers(c)
    BY <1>a, <2>1, <2>7, <2>8, Zenon DEF KeepsOthers
  <2>u. KeepsUse(c)
    <3>1. \A m \in Mutex : InUse(c, m) => m_mutex'[m] = Nobody
      BY <2>0, Zenon DEF InUse, YieldAt
    <3>2. \A m \in Mutex : m_mutex'[m] \in {m_mutex[m], Nobody}
      BY <2>0, Zenon DEF YieldAt
    <3> QED BY <1>0, <3>1, <3>2, UseFreed, Zenon
  <2> QED BY <2>2, <2>4, <2>5, <2>o, <2>u, OthersUndisturbed, Zenon
<1>2. CASE ~Listed(arg[c])
  <2>0. /\ acquired' = [acquired EXCEPT ![c] = << arg[c] >> \o @]
        /\ pc' = [pc EXCEPT ![c] = "run"] /\ UNCHANGED << m_mutex, host, at, queue, arg, ops >>
    BY <1>2, Zenon DEF Check, Goto
  <2>1. /\ acquired' \in [Coro -> Seq(Mutex)]
        /\ \A d \in Coro \ {c} : acquired'[d] = acquired[d]
        /\ \A i, j \in 1 .. Len(acquired'[c]) : acquired'[c][i] = acquired'[c][j] => i = j
        /\ \A i \in 1 .. Len(acquired'[c]) :
             acquired'[c][i] = arg[c] \/ \E j \in 1 .. Len(acquired[c]) : acquired'[c][i] = acquired[c][j]
        /\ \E i \in 1 .. Len(acquired'[c]) : acquired'[c][i] = arg[c]
        /\ \A j \in 1 .. Len(acquired[c]) : \E i \in 1 .. Len(acquired'[c]) : acquired'[c][i] = acquired[c][j]
        /\ \A d \in Coro \ {c} :
             \A i \in 1 .. Len(acquired'[c]), j \in 1 .. Len(acquired[d]) :
               acquired'[c][i] # acquired[d][j]
    BY <1>t, <1>2, <2>0, ListNew, Zenon
  <2>2. TypeOK'
    BY <1>t, <2>0, <2>1, Zenon DEF TypeOK, Labels
  <2>3. pc'[c] = "run"
    BY <1>t, <2>0, Zenon DEF TypeOK
  <2>4. ASSUME NEW i \in 1 .. Len(acquired'[c]) PROVE m_mutex[acquired'[c][i]] = host[c]
    <3>1. acquired'[c][i] = arg[c] \/ \E j \in 1 .. Len(acquired[c]) : acquired'[c][i] = acquired[c][j]
      BY <2>1, Zenon
    <3> QED BY <1>0, <3>1, Zenon
  <2>5. Own(c)'
    BY <1>0, <2>0, <2>1, <2>3, <2>4, Zenon DEF Own, Hosted, Runs
  <2>6. QueueOK'
    BY <1>0, <1>a, <2>0, QueueSame, Zenon
  <2>7. \A d \in Coro \ {c} :
           /\ acquired'[d] = acquired[d] /\ pc'[d] = pc[d] /\ host'[d] = host[d]
           /\ arg'[d] = arg[d] /\ at'[d] = at[d]
           /\ \A i \in 1 .. Len(acquired'[c]), j \in 1 .. Len(acquired[d]) :
                acquired'[c][i] # acquired[d][j]
    BY <1>a, <2>0, <2>1, Zenon
  <2>8. host'[c] = host[c] /\ \A m \in Mutex : m_mutex'[m] = m_mutex[m]
    BY <2>0, Zenon
  <2>o. KeepsOthers(c)
    BY <2>7, <2>8, Zenon DEF KeepsOthers
  <2>u. KeepsUse(c)
    <3>1. InUse(c, arg[c])'
      BY <2>0, <2>1, Zenon DEF InUse
    <3>2. ASSUME NEW m \in Mutex, InUse(c, m) PROVE InUse(c, m)'
      <4>1. m = arg[c] \/ \E i \in 1 .. Len(acquired[c]) : acquired[c][i] = m
        BY <3>2, Zenon DEF InUse
      <4>2. ASSUME NEW i \in 1 .. Len(acquired[c]), acquired[c][i] = m PROVE InUse(c, m)'
        <5>1. PICK k \in 1 .. Len(acquired'[c]) : acquired'[c][k] = acquired[c][i]
          BY <2>1, Zenon
        <5> QED BY <4>2, <5>1, Zenon DEF InUse
      <4> QED BY <2>0, <3>1, <4>1, <4>2, Zenon
    <3> QED BY <1>0, <2>0, <3>2, UseKept, Zenon
  <2> QED BY <2>2, <2>5, <2>6, <2>o, <2>u, OthersUndisturbed, Zenon
<1> QED BY <1>1, <1>2, Zenon

\* After a condition wait the node is looked at again.
LEMMA RecheckStep ==
  ASSUME Inv, NEW c \in Coro, Recheck(c) PROVE Inv'
<1>t. TypeOK /\ Own(c) /\ arg[c] \in Mutex
  BY Zenon DEF Inv, TypeOK
<1>0. pc[c] = "recheck" /\ host[c] \in Thread /\ m_mutex[arg[c]] = host[c]
      /\ \A i \in 1 .. Len(acquired[c]) : m_mutex[acquired[c][i]] = host[c]
  BY <1>t, Zenon DEF Recheck, Own, Hosted, Runs
<1>b. /\ \A i \in 1 .. Len(acquired[c]) : acquired[c][i] # arg[c]
      /\ \A i, j \in 1 .. Len(acquired[c]) : acquired[c][i] = acquired[c][j] => i = j
  BY <1>t, <1>0, Zenon DEF Own
<1>a. \A d \in Coro \ {c} : Apart(c, d) /\ pc'[d] = pc[d]
  BY <1>t, Zenon DEF Inv, Recheck, Goto, TypeOK
<1>1. CASE Listed(arg[c])
  <2>0. /\ m_mutex' = [m_mutex EXCEPT ![arg[c]] = Nobody]
        /\ pc' = [pc EXCEPT ![c] = "waiting"] /\ UNCHANGED << acquired, host, at, arg, queue, ops >>
    BY <1>1, Zenon DEF Recheck, Goto, Free
  <2>1. \A m \in Mutex : m_mutex'[m] = m_mutex[m] \/ (m_mutex[m] = host[c] /\ host[c] \in Thread)
    BY <1>t, <1>0, <2>0, Zenon DEF TypeOK
  <2>2. TypeOK'
    BY <1>t, <2>0, Zenon DEF TypeOK, Labels
  <2>3. pc'[c] = "waiting"
    BY <1>t, <2>0, Zenon DEF TypeOK
  <2>5. \A i \in 1 .. Len(acquired[c]) : m_mutex'[acquired[c][i]] = host[c]
    BY <1>t, <1>0, <1>b, <2>0, ListedMutex, Zenon DEF TypeOK
  <2>6. Own(c)'
    BY <1>0, <1>b, <2>0, <2>3, <2>5, Zenon DEF Own, Hosted, Runs
  <2>7. QueueOK'
    BY <1>0, <1>a, <2>0, QueueSame, Zenon
  <2>o. KeepsOthers(c)
    BY <1>a, <2>0, <2>1, ZenonT(40) DEF Apart, KeepsOthers
  <2>u. KeepsUse(c)
    <3>1. \A m \in Mutex : m_mutex'[m] = IF m = arg[c] THEN Nobody ELSE m_mutex[m]
      BY <1>t, <2>0, Zenon DEF TypeOK
    <3>2. \A m \in Mutex : InUse(c, m) => InUse(c, m)' \/ m = arg[c]
      BY <2>0, Zenon DEF InUse
    <3> QED BY <1>0, <2>0, <3>1, <3>2, UseKept, Zenon
  <2> QED BY <2>2, <2>6, <2>7, <2>o, <2>u, OthersUndisturbed, Zenon
<1>2. CASE ~Listed(arg[c])
  <2>0. /\ acquired' = [acquired EXCEPT ![c] = << arg[c] >> \o @]
        /\ pc' = [pc EXCEPT ![c] = "run"] /\ UNCHANGED << m_mutex, host, at, queue, arg, ops >>
    BY <1>2, Zenon DEF Recheck, Goto
  <2>1. /\ acquired' \in [Coro -> Seq(Mutex)]
        /\ \A d \in Coro \ {c} : acquired'[d] = acquired[d]
        /\ \A i, j \in 1 .. Len(acquired'[c]) : acquired'[c][i] = acquired'[c][j] => i = j
        /\ \A i \in 1 .. Len(acquired'[c]) :
             acquired'[c][i] = arg[c] \/ \E j \in 1 .. Len(acquired[c]) : acquired'[c][i] = acquired[c][j]
        /\ \E i \in 1 .. Len(acquired'[c]) : acquired'[c][i] = arg[c]
        /\ \A j \in 1 .. Len(acquired[c]) : \E i \in 1 .. Len(acquired'[c]) : acquired'[c][i] = acquired[c][j]
        /\ \A d \in Coro \ {c} :
             \A i \in 1 .. Len(acquired'[c]), j \in 1 .. Len(acquired[d]) :
               acquired'[c][i] # acquired[d][j]
    BY <1>t, <1>2, <2>0, ListNew, Zenon
  <2>2. TypeOK'
    BY <1>t, <2>0, <2>1, Zenon DEF TypeOK, Labels
  <2>3. pc'[c] = "run"
    BY <1>t, <2>0, Zenon DEF TypeOK
  <2>4. ASSUME NEW i \in 1 .. Len(acquired'[c]) PROVE m_mutex[acquired'[c][i]] = host[c]
    <3>1. acquired'[c][i] = arg[c] \/ \E j \in 1 .. Len(acquired[c]) : acquired'[c][i] = acquired[c][j]
      BY <2>1, Zenon
    <3> QED BY <1>0, <3>1, Zenon
  <2>5. Own(c)'
    BY <1>0, <2>0, <2>1, <2>3, <2>4, Zenon DEF Own, Hosted, Runs
  <2>6. QueueOK'
    BY <1>0, <1>a, <2>0, QueueSame, Zenon
  <2>7. \A d \in Coro \ {c} :
           /\ acquired'[d] = acquired[d] /\ pc'[d] = pc[d] /\ host'[d] = host[d]
           /\ arg'[d] = arg[d] /\ at'[d] = at[d]
           /\ \A i \in 1 .. Len(acquired'[c]), j \in 1 .. Len(acquired[d]) :
                acquired'[c][i] # acquired[d][j]
    BY <1>a, <2>0, <2>1, Zenon
  <2>8. host'[c] = host[c] /\ \A m \in Mutex : m_mutex'[m] = m_mutex[m]
    BY <2>0, Zenon
  <2>o. KeepsOthers(c)
    BY <2>7, <2>8, Zenon DEF KeepsOthers
  <2>u. KeepsUse(c)
    <3>1. InUse(c, arg[c])'
      BY <2>0, <2>1, Zenon DEF InUse
    <3>2. ASSUME NEW m \in Mutex, InUse(c, m) PROVE InUse(c, m)'
      <4>1. m = arg[c] \/ \E i \in 1 .. Len(acquired[c]) : acquired[c][i] = m
        BY <3>2, Zenon DEF InUse
      <4>2. ASSUME NEW i \in 1 .. Len(acquired[c]), acquired[c][i] = m PROVE InUse(c, m)'
        <5>1. PICK k \in 1 .. Len(acquired'[c]) : acquired'[c][k] = acquired[c][i]
          BY <2>1, Zenon
        <5> QED BY <4>2, <5>1, Zenon DEF InUse
      <4> QED BY <2>0, <3>1, <4>1, <4>2, Zenon
    <3> QED BY <1>0, <2>0, <3>2, UseKept, Zenon
  <2> QED BY <2>2, <2>5, <2>6, <2>o, <2>u, OthersUndisturbed, Zenon
<1> QED BY <1>1, <1>2, Zenon

\* trylock() of a free mutex that nobody lists.
LEMMA TryLockStep ==
  ASSUME Inv, NEW c \in Coro, TryLock(c) PROVE Inv'
<1>t. TypeOK /\ Own(c)
  BY Zenon DEF Inv
<1>0. PICK m \in Mutex : /\ ~Listed(m) /\ Take(m, host[c])
                         /\ acquired' = [acquired EXCEPT ![c] = << m >> \o @]
  BY Zenon DEF TryLock
<1>2. pc[c] = "run" /\ host[c] \in Thread /\ \A i \in 1 .. Len(acquired[c]) : m_mutex[acquired[c][i]] = host[c]
  BY <1>t, Zenon DEF TryLock, Call, Own, Hosted, Runs
<1>3. /\ acquired' \in [Coro -> Seq(Mutex)]
      /\ \A d \in Coro \ {c} : acquired'[d] = acquired[d]
      /\ \A i, j \in 1 .. Len(acquired'[c]) : acquired'[c][i] = acquired'[c][j] => i = j
      /\ \A i \in 1 .. Len(acquired'[c]) :
           acquired'[c][i] = m \/ \E j \in 1 .. Len(acquired[c]) : acquired'[c][i] = acquired[c][j]
      /\ \E i \in 1 .. Len(acquired'[c]) : acquired'[c][i] = m
      /\ \A j \in 1 .. Len(acquired[c]) : \E i \in 1 .. Len(acquired'[c]) : acquired'[c][i] = acquired[c][j]
      /\ \A d \in Coro \ {c} :
           \A i \in 1 .. Len(acquired'[c]), j \in 1 .. Len(acquired[d]) :
             acquired'[c][i] # acquired[d][j]
  BY <1>0, ListNew, Zenon
<1>4. m_mutex[m] = Nobody /\ \A n \in Mutex : m_mutex'[n] = IF n = m THEN host[c] ELSE m_mutex[n]
  BY <1>t, <1>0, Zenon DEF Take, TypeOK
<1>1. TypeOK'
  BY <1>t, <1>0, <1>2, <1>3, SMTT(60) DEF TypeOK, TryLock, Call, Take
<1>5. \A i \in 1 .. Len(acquired[c]) : acquired[c][i] \in Mutex
  BY <1>t, ListedMutex, Zenon
<1>6. \A i \in 1 .. Len(acquired'[c]) : m_mutex'[acquired'[c][i]] = host[c]
  BY <1>2, <1>3, <1>4, <1>5
<1>7. Own(c)'
  BY <1>2, <1>3, <1>6, Zenon DEF Own, Hosted, Runs, TryLock
<1>8. QueueOK'
  BY <1>2, QueueSame, Zenon DEF TryLock
<1>9. \A d \in Coro \ {c} :
        /\ acquired'[d] = acquired[d] /\ pc'[d] = pc[d] /\ host'[d] = host[d]
        /\ arg'[d] = arg[d] /\ at'[d] = at[d]
        /\ \A i \in 1 .. Len(acquired'[c]), j \in 1 .. Len(acquired[d]) :
             acquired'[c][i] # acquired[d][j]
  BY <1>3, Zenon DEF TryLock
<1>10. host'[c] = host[c] /\ \A n \in Mutex : m_mutex'[n] = m_mutex[n] \/ m_mutex[n] = Nobody
  BY <1>4, Zenon DEF TryLock
<1>o. KeepsOthers(c)
  BY <1>9, <1>10, Zenon DEF KeepsOthers
<1>u. KeepsUse(c)
  <2>1. ASSUME NEW n \in Mutex, InUse(c, n) PROVE InUse(c, n)'
    <3>1. PICK j \in 1 .. Len(acquired[c]) : acquired[c][j] = n
      BY <1>2, <2>1, Zenon DEF InUse
    <3>2. PICK i \in 1 .. Len(acquired'[c]) : acquired'[c][i] = acquired[c][j]
      BY <1>3, Zenon
    <3> QED BY <3>1, <3>2, Zenon DEF InUse
  <2>2. InUse(c, m)'
    BY <1>3, Zenon DEF InUse
  <2> QED BY <1>2, <1>4, <1>10, <2>1, <2>2, UseKept, Zenon
<1> QED BY <1>1, <1>7, <1>8, <1>o, <1>u, OthersUndisturbed, Zenon

\* A condition wait begins at once or after one yield.
LEMMA BeginWaitStep ==
  ASSUME Inv, NEW c \in Coro, BeginWait(c) PROVE Inv'
<1>t. TypeOK /\ Own(c)
  BY Zenon DEF Inv
<1>0. /\ pc[c] = "run" /\ host[c] \in Thread /\ acquired[c] # << >>
      /\ \A i \in 1 .. Len(acquired[c]) : m_mutex[acquired[c][i]] = host[c]
      /\ \A i, j \in 1 .. Len(acquired[c]) : acquired[c][i] = acquired[c][j] => i = j
      /\ acquired' = acquired
  BY <1>t, Zenon DEF BeginWait, Call, Own, Hosted, Runs
<1>1. 1 \in 1 .. Len(acquired[c]) /\ acquired[c][1] \in Mutex
  BY <1>t, <1>0 DEF TypeOK
<1>2. /\ arg' \in [Coro -> Mutex] /\ arg'[c] = acquired[c][1]
      /\ \A d \in Coro \ {c} : arg'[d] = arg[d]
  BY <1>t, <1>1, Zenon DEF BeginWait, TypeOK
<1>3. ops' \in [Coro -> Nat]
  BY <1>t DEF BeginWait, Call, TypeOK
<1>a. \A d \in Coro \ {c} : Apart(c, d) /\ pc'[d] = pc[d]
  BY <1>t, Zenon DEF Inv, BeginWait, Goto, TypeOK
<1>4. CASE Goto(c, "wait") /\ UNCHANGED << m_mutex, host, at, queue >>
  <2>1. pc'[c] = "wait" /\ pc' \in [Coro -> Labels]
    BY <1>t, <1>4, Zenon DEF Goto, TypeOK, Labels
  <2>2. TypeOK'
    BY <1>t, <1>0, <1>2, <1>3, <1>4, <2>1, Zenon DEF TypeOK
  <2>3. Own(c)'
    BY <1>0, <1>2, <1>4, <2>1, Zenon DEF Own, Hosted, Runs
  <2>4. QueueOK'
    BY <1>0, <1>4, <1>a, QueueSame, Zenon
  <2>o. KeepsOthers(c)
    BY <1>0, <1>2, <1>4, <1>a DEF Apart, KeepsOthers
  <2>u. KeepsUse(c)
    <3>1. \A m \in Mutex : InUse(c, m) => InUse(c, m)'
      BY <1>0, Zenon DEF InUse
    <3> QED BY <1>0, <1>4, <3>1, UseKept, Zenon
  <2> QED BY <2>2, <2>3, <2>4, <2>o, <2>u, OthersUndisturbed, Zenon
<1>5. CASE YieldAt(c, "wait", {}) /\ queue' = Append(queue, c) /\ Goto(c, "queued")
  <2>0. /\ YieldAt(c, "wait", {}) /\ pc[c] \in Runs
        /\ \A m \in {} : m_mutex[m] = host[c]
    BY <1>0, <1>5, Zenon DEF Runs
  <2>1. /\ \A m \in Mutex : m_mutex'[m] = m_mutex[m] \/ (m_mutex[m] = host[c] /\ host[c] \in Thread)
        /\ m_mutex' \in [Mutex -> Thread \cup Native \cup {Nobody}]
        /\ host'[c] = Nobody /\ at'[c] = "wait"
        /\ \A d \in Coro \ {c} : host'[d] = host[d] /\ at'[d] = at[d]
    BY <2>0, YieldFrees
  <2>2. pc'[c] = "queued" /\ pc' \in [Coro -> Labels]
    BY <1>t, <1>5, Zenon DEF Goto, TypeOK, Labels
  <2>6. /\ queue' \in Seq(Coro)
        /\ host' \in [Coro -> Thread \cup {Nobody}] /\ at' \in [Coro -> {"run", "lock", "wait"}]
    BY <1>t, <1>5 DEF TypeOK, YieldAt
  <2>3. TypeOK'
    BY <1>t, <1>0, <1>2, <1>3, <2>1, <2>2, <2>6, Zenon DEF TypeOK
  <2>4. Own(c)'
    BY <1>0, <1>2, <2>1, <2>2, Zenon DEF Own, Hosted, Runs
  <2>5. QueueOK'
    BY <1>0, <1>5, <1>a, <2>2, QueueAppend, Zenon
  <2>7. \A d \in Coro \ {c} :
          \A i \in 1 .. Len(acquired'[c]), j \in 1 .. Len(acquired[d]) : acquired'[c][i] # acquired[d][j]
    BY <1>a, <1>0 DEF Apart
  <2>8. acquired' = acquired
    BY <1>0, Zenon
  <2>o. KeepsOthers(c)
    BY <1>2, <1>a, <2>1, <2>7, <2>8, Zenon DEF KeepsOthers
  <2>u. KeepsUse(c)
    <3>1. \A m \in Mutex : InUse(c, m) => m_mutex'[m] = Nobody
      BY <1>0, <1>5, Zenon DEF InUse, YieldAt
    <3>2. \A m \in Mutex : m_mutex'[m] \in {m_mutex[m], Nobody}
      BY <1>5, Zenon DEF YieldAt
    <3> QED BY <1>0, <3>1, <3>2, UseFreed, Zenon
  <2> QED BY <2>3, <2>4, <2>5, <2>o, <2>u, OthersUndisturbed, Zenon
<1> QED BY <1>4, <1>5, Zenon DEF BeginWait

\* A resumed coroutine locks its mutexes again, one by one, and goes on.
LEMMA RelockStep ==
  ASSUME Inv, NEW c \in Coro, Relock(c) PROVE Inv'
<1>t. TypeOK /\ Own(c)
  BY Zenon DEF Inv
<1>r. pc[c] = "relock" /\ UNCHANGED << acquired, host, at, arg, queue, ops >>
  BY Zenon DEF Relock
<1>0. pc[c] = "relock" /\ host[c] \in Thread /\ UNCHANGED << acquired, host, at, arg, queue, ops >>
  BY <1>t, <1>r, Zenon DEF Own, Hosted
<1>b. \A d \in Coro \ {c} : pc'[d] = pc[d]
  BY <1>t, Zenon DEF Relock, Goto, TypeOK
<1>a. \A d \in Coro \ {c} : Apart(c, d) /\ pc'[d] = pc[d]
  BY <1>b, Zenon DEF Inv
<1>1. QueueOK'
  BY <1>0, <1>a, QueueSame, Zenon
<1>2. CASE UNCHANGED pc /\ \E i \in 1 .. Len(acquired[c]) : Take(acquired[c][i], host[c])
  <2>1. PICK i \in 1 .. Len(acquired[c]) : Take(acquired[c][i], host[c])
    BY <1>2, Zenon
  <2>2. acquired[c][i] \in Mutex
    BY <1>t, ListedMutex, Zenon
  <2>3. \A m \in Mutex : m_mutex'[m] = m_mutex[m] \/ m_mutex[m] = Nobody
    BY <1>t, <2>1, <2>2, Zenon DEF Take, TypeOK
  <2>4. TypeOK'
    BY <1>t, <1>0, <1>2, <2>1, <2>2, Zenon DEF TypeOK, Take
  <2>5. Own(c)'
    BY <1>t, <1>0, <1>2, Zenon DEF Own, Hosted, Runs
  <2>o. KeepsOthers(c)
    BY <1>0, <1>a, <2>3, ZenonT(40) DEF Apart, KeepsOthers
  <2>u. KeepsUse(c)
    <3>1. \A m \in Mutex : m_mutex'[m] = IF m = acquired[c][i] THEN host[c] ELSE m_mutex[m]
      BY <1>t, <2>1, Zenon DEF Take, TypeOK
    <3>2. InUse(c, acquired[c][i])' /\ \A m \in Mutex : InUse(c, m) => InUse(c, m)'
      BY <1>0, <1>2, Zenon DEF InUse
    <3> QED BY <1>0, <3>1, <3>2, UseKept, Zenon
  <2> QED BY <2>4, <2>5, <1>1, <2>o, <2>u, OthersUndisturbed, Zenon
<1>3. CASE /\ \A i \in 1 .. Len(acquired[c]) : m_mutex[acquired[c][i]] = host[c]
           /\ Goto(c, at[c]) /\ UNCHANGED m_mutex
  <2>1. pc'[c] = at[c] /\ at[c] \in {"run", "lock", "wait"}
    BY <1>t, <1>3, Zenon DEF TypeOK, Goto
  <2>2. TypeOK'
    BY <1>t, <1>0, <1>3, <2>1, Zenon DEF TypeOK, Goto, Labels
  <2>3. /\ at[c] = "wait" => acquired[c] # << >> /\ arg[c] = acquired[c][1]
        /\ at[c] = "lock" => \A i \in 1 .. Len(acquired[c]) : acquired[c][i] # arg[c]
        /\ \A i, j \in 1 .. Len(acquired[c]) : acquired[c][i] = acquired[c][j] => i = j
    BY <1>t, <1>0, Zenon DEF Own
  <2>4. Own(c)'
    BY <1>0, <1>3, <2>1, <2>3, Zenon DEF Own, Hosted, Runs
  <2>o. KeepsOthers(c)
    BY <1>0, <1>3, <1>a, ZenonT(40) DEF Apart, KeepsOthers
  <2>u. KeepsUse(c)
    <3>1. \A m \in Mutex : InUse(c, m) => InUse(c, m)'
      BY <1>0, Zenon DEF InUse
    <3> QED BY <1>0, <1>3, <3>1, UseKept, Zenon
  <2> QED BY <2>2, <2>4, <1>1, <2>o, <2>u, OthersUndisturbed, Zenon
<1> QED BY <1>2, <1>3, Zenon DEF Relock

\* A free thread takes the first coroutine of the queue.
LEMMA ResumeStep ==
  ASSUME Inv, NEW t \in Thread, Resume(t) PROVE Inv'
<1>t. TypeOK /\ QueueOK /\ queue \in Seq(Coro) /\ queue # << >>
  BY Zenon DEF Inv, TypeOK, Resume
<1>h. PICK c \in Coro : c = Head(queue)
  BY <1>t
<1>0. 1 \in 1 .. Len(queue) /\ c = queue[1] /\ c \in Coro
  BY <1>t, <1>h
<1>1. pc[c] = "queued" /\ Own(c)
  BY <1>t, <1>0, Zenon DEF QueueOK, Inv
<1>q. /\ Tail(queue) \in Seq(Coro) /\ Len(Tail(queue)) = Len(queue) - 1
      /\ \A i \in 1 .. Len(queue) - 1 : Tail(queue)[i] = queue[i + 1]
  BY <1>t, TailLemma, Zenon
<1>2. /\ host' = [host EXCEPT ![c] = t] /\ pc' = [pc EXCEPT ![c] = "relock"]
      /\ queue' = Tail(queue) /\ UNCHANGED << m_mutex, acquired, at, arg, ops >>
  BY <1>h, Zenon DEF Resume, Goto
<1>f. \A d \in Coro : host[d] # t
  BY Zenon DEF Resume
<1>3. /\ host'[c] = t /\ pc'[c] = "relock"
      /\ \A d \in Coro \ {c} : host'[d] = host[d] /\ pc'[d] = pc[d]
  BY <1>t, <1>0, <1>2, Zenon DEF TypeOK
<1>4. TypeOK'
  BY <1>t, <1>0, <1>2, <1>q, Zenon DEF TypeOK, Labels
<1>5. Own(c)'
  BY <1>1, <1>2, <1>3, Zenon DEF Own, Hosted, Runs
<1>6. ASSUME NEW d \in Coro PROVE Own(d)'
  <2>1. CASE d = c
    BY <1>5, <2>1, Zenon
  <2>2. CASE d # c
    <3>1. Own(d)
      BY Zenon DEF Inv
    <3> QED BY <1>2, <1>3, <2>2, <3>1, ZenonT(40) DEF Own
  <2> QED BY <2>1, <2>2, Zenon
<1>7. ASSUME NEW d \in Coro, NEW e \in Coro, d # e PROVE Apart(d, e)'
  <2>0. Apart(d, e)
    BY <1>7, Zenon DEF Inv
  <2>1. host'[d] \in Thread => host'[d] # host'[e]
    BY <1>3, <1>7, <1>f, <2>0, Zenon DEF Apart
  <2> QED BY <1>2, <2>0, <2>1, Zenon DEF Apart
<1>8. QueueOK'
  <2>1. \A i \in 1 .. Len(queue') : /\ i + 1 \in 1 .. Len(queue) /\ i + 1 # 1
                                    /\ queue'[i] = queue[i + 1] /\ queue[i + 1] \in Coro
    BY <1>t, <1>2, <1>q
  <2>2. \A i \in 1 .. Len(queue') : queue[i + 1] # c
    BY <1>t, <1>0, <2>1, Zenon DEF QueueOK
  <2>3. \A i \in 1 .. Len(queue') : pc'[queue'[i]] = "queued"
    BY <1>t, <1>3, <2>1, <2>2 DEF QueueOK
  <2>4. ASSUME NEW i \in 1 .. Len(queue'), NEW j \in 1 .. Len(queue'), queue'[i] = queue'[j]
        PROVE  i = j
    <3>1. i + 1 = j + 1
      BY <1>t, <2>1, <2>4 DEF QueueOK
    <3> QED BY <3>1
  <2> QED BY <2>3, <2>4, Zenon DEF QueueOK
<1>9. NoOrphanedMutex'
  <2> SUFFICES ASSUME NEW m \in Mutex, m_mutex'[m] \in Thread
               PROVE  \E d \in Coro : host'[d] = m_mutex'[m] /\ InUse(d, m)'
    BY Zenon DEF NoOrphanedMutex, InUse
  <2>1. PICK d \in Coro : host[d] = m_mutex[m] /\ InUse(d, m)
    BY <1>2, Zenon DEF Inv, NoOrphanedMutex, InUse
  <2>2. d # c
    BY <1>1, <1>2, <2>1, MutexAssumption, Zenon DEF Own, Hosted, Runs
  <2> QED BY <1>2, <1>3, <2>1, <2>2, Zenon DEF InUse
<1> QED BY <1>4, <1>6, <1>7, <1>8, <1>9, Zenon DEF Inv

\* A thread outside the pool locks a free mutex or unlocks its own.
LEMMA NativeStep ==
  ASSUME Inv, NEW n \in Native, NativeLock(n) \/ NativeUnlock(n) PROVE Inv'
<1>t. TypeOK
  BY Zenon DEF Inv
<1>1. PICK m \in Mutex : \/ m_mutex[m] = Nobody /\ m_mutex' = [m_mutex EXCEPT ![m] = n]
                         \/ m_mutex[m] = n /\ m_mutex' = [m_mutex EXCEPT ![m] = Nobody]
  BY Zenon DEF NativeLock, NativeUnlock, Take, Free
<1>2. UNCHANGED << acquired, host, pc, at, arg, queue, ops >>
  BY Zenon DEF NativeLock, NativeUnlock
<1>3. TypeOK'
  <2>1. m_mutex' \in [Mutex -> Thread \cup Native \cup {Nobody}]
    BY <1>t, <1>1, Zenon DEF TypeOK
  <2> QED BY <1>t, <1>2, <2>1, Zenon DEF TypeOK
<1>4. \A k \in Mutex : m_mutex[k] \in Thread => m_mutex'[k] = m_mutex[k]
  BY <1>t, <1>1, MutexAssumption, Zenon DEF TypeOK
<1>5. ASSUME NEW d \in Coro PROVE Own(d)'
  <2>1. Own(d) /\ arg[d] \in Mutex /\ \A i \in 1 .. Len(acquired[d]) : acquired[d][i] \in Mutex
    BY <1>t DEF Inv, TypeOK
  <2>2. pc[d] \in Runs => \A i \in 1 .. Len(acquired[d]) : m_mutex'[acquired[d][i]] = host[d]
    BY <1>4, <2>1, Zenon DEF Own, Hosted
  <2>3. pc[d] \in {"check", "recheck"} => m_mutex'[arg[d]] = host[d]
    BY <1>4, <2>1, Zenon DEF Own, Hosted, Runs
  <2> QED BY <1>2, <2>1, <2>2, <2>3, Zenon DEF Own
<1>6. (\A c, d \in Coro : c # d => Apart(c, d))' /\ QueueOK'
  BY <1>2 DEF Inv, Apart, QueueOK
<1>7. \A k \in Mutex : m_mutex'[k] \in Thread => m_mutex'[k] = m_mutex[k]
  BY <1>t, <1>1, MutexAssumption, Zenon DEF TypeOK
<1>8. NoOrphanedMutex'
  BY <1>2, <1>7 DEF Inv, NoOrphanedMutex
<1> QED BY <1>3, <1>5, <1>6, <1>8, Zenon DEF Inv

-----------------------------------------------------------------------------
(* The invariant.                                                          *)

LEMMA InitInv == Init => Inv
<1> SUFFICES ASSUME Init PROVE Inv
  BY Zenon
<1>1. TypeOK
  <2>1. (CHOOSE m \in Mutex : TRUE) \in Mutex
    BY MutexAssumption, Zenon
  <2> QED BY <2>1 DEF Init, TypeOK, Labels
<1>2. ASSUME NEW c \in Coro PROVE Own(c)
  <2>1. /\ pc[c] = "asleep" /\ host[c] = Nobody /\ at[c] = "run" /\ acquired[c] = << >>
        /\ \A i \in 1 .. Len(acquired[c]) : FALSE
    BY DEF Init
  <2> QED BY <2>1, Zenon DEF Own, Hosted, Runs
<1>3. \A c, d \in Coro : Apart(c, d)
  BY MutexAssumption DEF Init, Apart
<1>4. QueueOK
  BY DEF Init, QueueOK
<1>5. NoOrphanedMutex
  BY MutexAssumption, Zenon DEF Init, NoOrphanedMutex
<1> QED BY <1>1, <1>2, <1>3, <1>4, <1>5, Zenon DEF Inv

LEMMA NextInv == Inv /\ [Next]_vars => Inv'
<1> SUFFICES ASSUME Inv, [Next]_vars PROVE Inv'
  BY Zenon
<1>1. CASE \E c \in Coro : Blocking(c)
  BY <1>1, RelockStep, AcquireStep, CondWakeStep, Zenon DEF Blocking
<1>2. CASE \E c \in Coro : Step(c)
  BY <1>2, WakeStep, CheckStep, CondWaitStep, RecheckStep, UnlockStep, FinishStep, Zenon DEF Step
<1>3. CASE \E c \in Coro : Choice(c)
  BY <1>3, YieldStep, LockStep, TryLockStep, BeginWaitStep, Zenon DEF Choice
<1>4. CASE \E t \in Thread : Resume(t)
  BY <1>4, ResumeStep, Zenon
<1>5. CASE \E n \in Native : NativeLock(n) \/ NativeUnlock(n)
  BY <1>5, NativeStep, Zenon
<1>6. CASE UNCHANGED vars
  BY <1>6 DEF vars, Inv, TypeOK, Own, Apart, QueueOK, NoOrphanedMutex
<1> QED BY <1>1, <1>2, <1>3, <1>4, <1>5, <1>6, Zenon DEF Next

\* The invariant holds in every reachable state.
THEOREM Invariance == Spec => []Inv
BY InitInv, NextInv, PTL DEF Spec

\* Two coroutines never hold a mutex at the same time, however often the
\* holder yields and wherever it is resumed (mysql_coro_mutex_lock()).
THEOREM Exclusion == Spec => []CoroutineExclusion
<1>1. Inv => CoroutineExclusion
  <2> SUFFICES ASSUME Inv, NEW c \in Coro, NEW d \in Coro,
                      NEW i \in 1 .. Len(acquired[c]), NEW j \in 1 .. Len(acquired[d]),
                      acquired[c][i] = acquired[d][j]
               PROVE  c = d /\ i = j
    BY Zenon DEF CoroutineExclusion
  <2>1. c = d
    BY Zenon DEF Inv, Apart
  <2>2. Own(c)
    BY Zenon DEF Inv
  <2> QED BY <2>1, <2>2, Zenon DEF Own
<1> QED BY <1>1, Invariance, PTL

\* A coroutine runs only on the thread that owns the mutexes of its list
\* (ResumeCoroutine() locks them again before the coroutine continues).
THEOREM Ownership == Spec => []RunnerOwnsMutexes
<1>1. Inv => RunnerOwnsMutexes
  BY Zenon DEF Inv, Own, Runs, RunnerOwnsMutexes
<1> QED BY <1>1, Invariance, PTL

\* A coroutine that yields leaves none of its mutexes locked, and no thread
\* keeps one for a coroutine it does not run (CoroutineYield() unlocks them).
THEOREM NoOrphans == Spec => []NoOrphanedMutex
<1>1. Inv => NoOrphanedMutex
  BY Zenon DEF Inv
<1> QED BY <1>1, Invariance, PTL

\* The variables keep their types.
THEOREM Types == Spec => []TypeOK
<1>1. Inv => TypeOK
  BY Zenon DEF Inv
<1> QED BY <1>1, Invariance, PTL
=============================================================================
