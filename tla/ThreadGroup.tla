---------------------------- MODULE ThreadGroup ----------------------------
(***************************************************************************)
(* When the threads of one thread group sleep and who wakes them           *)
(* (sql/threadpool_generic.cc, CoroutineResume() of                        *)
(* sql/threadpool_common.cc), with the Eloq module enabled.                *)
(*                                                                         *)
(* The external worker, a thread of the transaction service, runs the      *)
(* commands of the request and resume queues while it is active.  SQL      *)
(* threads run the commands that block: they alone serve sql_native_queue_ *)
(* and may sleep inside a wait section.  One SQL thread may be the         *)
(* listener, which polls the sockets when no worker is active.             *)
(*                                                                         *)
(* Connections are counted, not named: which one travels where is the      *)
(* subject of ConnSched.  The group mutex is held over several steps where *)
(* other threads change the lock-free queues and counters meanwhile.       *)
(***************************************************************************)
EXTENDS Integers, Sequences, FiniteSets

CONSTANTS
  SqlThread,          \* bound: SQL threads the group ever has at once
  Ext,                \* the external worker
  Tx,                 \* a thread calling resume_func_()
  Acceptor,           \* the thread calling TP_pool_generic::add()
  Timer,              \* the stall checker
  Nobody,             \* no thread
  Connections,        \* connections of the group
  ThreadLimit,        \* 1 + threadpool_oversubscribe
  MaxCommands,        \* bound: commands sent
  MaxYields,          \* bound: yields to the transaction service
  MaxWaits,           \* bound: wait sections entered on SQL threads
  MaxHandovers,       \* bound: wait sections entered on the external worker
  MaxIdleTimeouts     \* bound: expiries of threadpool_idle_timeout

ASSUME GroupAssumption ==
  /\ IsFiniteSet(SqlThread)
  /\ {Ext, Tx, Acceptor, Timer, Nobody} \cap SqlThread = {}
  /\ Ext \notin {Tx, Acceptor, Timer, Nobody} /\ Tx \notin {Acceptor, Timer, Nobody}
  /\ Acceptor \notin {Timer, Nobody} /\ Timer # Nobody
  /\ Connections \in Nat /\ ThreadLimit \in Nat \ {0}
  /\ MaxCommands \in Nat /\ MaxYields \in Nat /\ MaxWaits \in Nat
  /\ MaxHandovers \in Nat /\ MaxIdleTimeouts \in Nat

Worker == SqlThread \cup {Ext}
Actor == Worker \cup {Tx, Acceptor, Timer}

VARIABLES
  mutex,                \* owner of thread_group->mutex
  listener,
  active_thread_count,
  waiting_threads,      \* a sleeping thread that is not in it was woken
  ext_worker_active,
  stalled,
  queue_event_count,    \* whether it is positive
  req_queue, resume_queue, sql_native_queue,   \* lengths
  coro_cnt,
  pc,
  batch,                \* local_conns of a worker: how many, already started
  outside, idle, ready, tx,   \* connections: not added, idle, signalled, yielded
  notified,             \* NotifyWorker() was called since the worker woke
  sent, yields, waits, handovers, timeouts

groupVars == << mutex, listener, active_thread_count, waiting_threads >>
flagVars == << ext_worker_active, stalled, queue_event_count, notified >>
queueVars == << req_queue, resume_queue, sql_native_queue >>
connVars == << outside, idle, ready, tx >>
boundVars == << sent, yields, waits, handovers, timeouts >>
vars == << groupVars, flagVars, queueVars, coro_cnt, pc, batch, connVars, boundVars >>

NoBatch == [n |-> 0, started |-> FALSE]

Init ==
  /\ mutex = Nobody
  /\ listener = Nobody
  /\ active_thread_count = 0
  /\ waiting_threads = << >>
  /\ ext_worker_active = FALSE
  /\ stalled = FALSE
  /\ queue_event_count = FALSE
  /\ req_queue = 0
  /\ resume_queue = 0
  /\ sql_native_queue = 0
  /\ coro_cnt = 0
  /\ pc = [a \in Actor |-> IF a \in SqlThread THEN "none" ELSE "asleep"]
  /\ batch = [w \in Worker |-> NoBatch]
  /\ outside = Connections
  /\ idle = 0
  /\ ready = 0
  /\ tx = 0
  /\ notified = FALSE
  /\ sent = 0
  /\ yields = 0
  /\ waits = 0
  /\ handovers = 0
  /\ timeouts = 0

Goto(a, l) == pc' = [pc EXCEPT ![a] = l]

HasActiveWorker == active_thread_count > 0 \/ ext_worker_active

thread_count == Cardinality({t \in SqlThread : pc[t] # "none"})

too_many_threads == active_thread_count >= ThreadLimit /\ ~stalled

\* EloqModule::NotifyWorker(), called if p holds.
NotifyIf(p) == notified' = (notified \/ p)

\* wake_thread(), create_worker(): a thread is taken off the waiting list, or
\* a new one starts.  The caller a goes on at l.
WakeThread(a, l) ==
  /\ waiting_threads # << >>
  /\ waiting_threads' = Tail(waiting_threads)
  /\ Goto(a, l)

CreateWorker(a, l) ==
  /\ waiting_threads = << >>
  /\ \/ \E t \in SqlThread : pc[t] = "none" /\ pc' = [pc EXCEPT ![a] = l, ![t] = "new"]
     \/ (\A t \in SqlThread : pc[t] # "none") /\ Goto(a, l)
  /\ UNCHANGED waiting_threads

\* wake_or_create_thread() with force_create
WakeOrCreateThread(a, l) == WakeThread(a, l) \/ CreateWorker(a, l)

\* wake_or_create_thread() of the stall checker: it may create no thread.
WakeOrThrottle(a, l) ==
  \/ WakeThread(a, l)
  \/ thread_count <= Connections /\ CreateWorker(a, l)
  \/ /\ waiting_threads = << >>
     /\ thread_count > Connections \/ active_thread_count # 0
     /\ Goto(a, l)
     /\ UNCHANGED waiting_threads

-----------------------------------------------------------------------------
(* Arrival of work from outside the group.                                 *)

\* lockfree_queue_put(): the connection is enqueued, then the group is woken.
AddConnection ==
  /\ pc[Acceptor] = "asleep" /\ outside > 0
  /\ outside' = outside - 1
  /\ req_queue' = req_queue + 1
  /\ Goto(Acceptor, "check")
  /\ UNCHANGED << groupVars, flagVars, resume_queue, sql_native_queue, coro_cnt, batch,
                  idle, ready, tx, boundVars >>

AddConnectionCheck ==
  /\ pc[Acceptor] = "check"
  /\ NotifyIf(~HasActiveWorker)
  /\ Goto(Acceptor, "asleep")
  /\ UNCHANGED << groupVars, ext_worker_active, stalled, queue_event_count, queueVars, coro_cnt,
                  batch, connVars, boundVars >>

ClientSend ==
  /\ idle > 0 /\ sent < MaxCommands
  /\ sent' = sent + 1
  /\ idle' = idle - 1
  /\ ready' = ready + 1
  /\ UNCHANGED << groupVars, flagVars, queueVars, coro_cnt, pc, batch, outside, tx,
                  yields, waits, handovers, timeouts >>

\* CoroutineResume() of a coroutine outside a wait section.
CoroutineResume ==
  /\ pc[Tx] = "asleep" /\ tx > 0
  /\ tx' = tx - 1
  /\ resume_queue' = resume_queue + 1
  /\ Goto(Tx, "check")
  /\ UNCHANGED << groupVars, flagVars, req_queue, sql_native_queue, coro_cnt, batch,
                  outside, idle, ready, boundVars >>

\* Mutant: an active SQL thread is taken for somebody who serves the queue.
Mut_CoroutineResumeCheck ==
  /\ pc[Tx] = "check"
  /\ NotifyIf(~HasActiveWorker)
  /\ Goto(Tx, "asleep")
  /\ UNCHANGED << groupVars, ext_worker_active, stalled, queue_event_count, queueVars, coro_cnt,
                  batch, connVars, boundVars >>

CoroutineResumeCheck ==
  /\ pc[Tx] = "check"
  /\ NotifyIf(~ext_worker_active)
  /\ Goto(Tx, "asleep")
  /\ UNCHANGED << groupVars, ext_worker_active, stalled, queue_event_count, queueVars, coro_cnt,
                  batch, connVars, boundVars >>

\* Mutant: the stall checker only resets the counter.
Mut_CheckStall ==
  /\ pc[Timer] = "asleep"
  /\ queue_event_count' = FALSE
  /\ UNCHANGED << groupVars, ext_worker_active, stalled, notified, queueVars, coro_cnt, pc, batch,
                  connVars, boundVars >>

\* lockfree_check_stall(): the test, and the wakeup under the mutex.
CheckStall ==
  /\ pc[Timer] = "asleep"
  /\ IF req_queue > 0 /\ ~queue_event_count
     THEN stalled' = TRUE /\ Goto(Timer, "stall") /\ UNCHANGED queue_event_count
     ELSE queue_event_count' = FALSE /\ UNCHANGED << stalled, pc >>
  /\ UNCHANGED << groupVars, ext_worker_active, notified, queueVars, coro_cnt, batch, connVars, boundVars >>

ResolveStall ==
  /\ pc[Timer] = "stall" /\ mutex = Nobody
  /\ WakeOrThrottle(Timer, "asleep")
  /\ queue_event_count' = FALSE
  /\ UNCHANGED << mutex, listener, active_thread_count, ext_worker_active, stalled, notified,
                  queueVars, coro_cnt, batch, connVars, boundVars >>

-----------------------------------------------------------------------------
(* get_event_bulk(): a SQL thread looks for work, with the mutex held.     *)

\* worker_main() up to its loop
StartWorker(t) ==
  /\ pc[t] = "new"
  /\ active_thread_count' = active_thread_count + 1
  /\ Goto(t, "loop")
  /\ UNCHANGED << mutex, listener, waiting_threads, flagVars, queueVars, coro_cnt, batch,
                  connVars, boundVars >>

\* One round of the loop of get_event_bulk() begins.
Top(t) ==
  /\ (pc[t] = "loop" /\ mutex = Nobody) \/ pc[t] = "top"
  /\ mutex' = t
  /\ Goto(t, IF too_many_threads THEN "rest" ELSE "native")
  /\ queue_event_count' = (queue_event_count \/ ~too_many_threads)
  /\ UNCHANGED << listener, active_thread_count, waiting_threads, ext_worker_active, stalled, notified,
                  queueVars, coro_cnt, batch, connVars, boundVars >>

\* get_event_bulk() returns n connections.
Leave(t, n, s) ==
  /\ batch' = [batch EXCEPT ![t] = [n |-> n, started |-> s]]
  /\ stalled' = FALSE
  /\ mutex' = Nobody

TakeNative(t) ==
  /\ pc[t] = "native"
  /\ IF sql_native_queue > 0
     THEN /\ sql_native_queue' = sql_native_queue - 1
          /\ Leave(t, 0, FALSE)
          /\ Goto(t, "blocking")
     ELSE /\ Goto(t, "shared")
          /\ UNCHANGED << sql_native_queue, batch, stalled, mutex >>
  /\ UNCHANGED << listener, active_thread_count, waiting_threads, ext_worker_active,
                  queue_event_count, notified, req_queue, resume_queue, coro_cnt, connVars, boundVars >>

TakeBatch(t) ==
  /\ pc[t] = "shared"
  /\ \/ /\ resume_queue > 0
        /\ resume_queue' = 0
        /\ Leave(t, resume_queue, TRUE)
        /\ Goto(t, "batch")
        /\ UNCHANGED req_queue
     \/ /\ resume_queue = 0 /\ req_queue > 0
        /\ req_queue' = 0
        /\ Leave(t, req_queue, FALSE)
        /\ Goto(t, "batch")
        /\ UNCHANGED resume_queue
     \/ /\ resume_queue = 0 /\ req_queue = 0
        /\ Goto(t, "rest")
        /\ UNCHANGED << resume_queue, req_queue, batch, stalled, mutex >>
  /\ UNCHANGED << listener, active_thread_count, waiting_threads, ext_worker_active,
                  queue_event_count, notified, sql_native_queue, coro_cnt, connVars, boundVars >>

BecomeListener(t) ==
  /\ pc[t] = "rest" /\ listener = Nobody
  /\ listener' = t
  /\ active_thread_count' = active_thread_count - 1
  /\ mutex' = Nobody
  /\ Goto(t, "listen")
  /\ UNCHANGED << waiting_threads, flagVars, queueVars, coro_cnt, batch, connVars, boundVars >>

\* Joining the waiting list and releasing the mutex is one step.
Sleep(t) ==
  /\ waiting_threads' = << t >> \o waiting_threads
  /\ mutex' = Nobody
  /\ Goto(t, "sleep")

Retire(t) ==
  /\ pc[t] = "rest" /\ listener # Nobody
  /\ active_thread_count' = active_thread_count - 1
  /\ IF active_thread_count = 1
     THEN Goto(t, "recheck") /\ UNCHANGED << waiting_threads, mutex >>
     ELSE Sleep(t)
  /\ UNCHANGED << listener, flagVars, queueVars, coro_cnt, batch, connVars, boundVars >>

\* The last active thread looks once more at the queue that only SQL threads
\* serve, and makes sure that the external worker is up.
Recheck(t) ==
  /\ pc[t] = "recheck"
  /\ IF sql_native_queue > 0
     THEN /\ active_thread_count' = active_thread_count + 1
          /\ Goto(t, "top")
          /\ UNCHANGED << waiting_threads, mutex, notified >>
     ELSE /\ NotifyIf(TRUE)
          /\ Sleep(t)
          /\ UNCHANGED active_thread_count
  /\ UNCHANGED << listener, ext_worker_active, stalled, queue_event_count, queueVars, coro_cnt,
                  batch, connVars, boundVars >>

Waiting(t) == \E i \in 1 .. Len(waiting_threads) : waiting_threads[i] = t

\* waiting_threads.remove(), by a thread that was not woken
Unlist(t) ==
  \/ ~Waiting(t) /\ UNCHANGED waiting_threads
  \/ \E i \in 1 .. Len(waiting_threads) :
       /\ waiting_threads[i] = t
       /\ waiting_threads' = SubSeq(waiting_threads, 1, i - 1)
                              \o SubSeq(waiting_threads, i + 1, Len(waiting_threads))

\* mysql_cond_timedwait() returns to a thread that was woken ...
Wake(t) ==
  /\ pc[t] = "sleep" /\ ~Waiting(t) /\ mutex = Nobody
  /\ mutex' = t
  /\ active_thread_count' = active_thread_count + 1
  /\ Goto(t, "top")
  /\ UNCHANGED << listener, waiting_threads, flagVars, queueVars, coro_cnt, batch, connVars, boundVars >>

\* ... or reports a timeout, to a thread that may have been woken as well.
\* The thread leaves when another is active or nothing waits for it.
IdleTimeout(t) ==
  /\ pc[t] = "sleep" /\ mutex = Nobody /\ timeouts < MaxIdleTimeouts
  /\ timeouts' = timeouts + 1
  /\ mutex' = t
  /\ active_thread_count' = active_thread_count + 1
  /\ Unlist(t)
  /\ Goto(t, IF ext_worker_active /\ sql_native_queue > 0 THEN "gone"
             ELSE IF active_thread_count > 0 \/ sql_native_queue = 0 THEN "expired"
             ELSE "top")
  /\ UNCHANGED << listener, flagVars, queueVars, coro_cnt, batch, connVars,
                  sent, yields, waits, handovers >>

\* Mutant: the thread leaves without being subtracted.
Mut_Expire(t) ==
  /\ pc[t] = "expired"
  /\ Goto(t, "gone")
  /\ UNCHANGED << groupVars, flagVars, queueVars, coro_cnt, batch, connVars, boundVars >>

Expire(t) ==
  /\ pc[t] = "expired"
  /\ active_thread_count' = active_thread_count - 1
  /\ Goto(t, IF active_thread_count = 1 THEN "lastgone" ELSE "gone")
  /\ UNCHANGED << mutex, listener, waiting_threads, flagVars, queueVars, coro_cnt, batch,
                  connVars, boundVars >>

\* The last thread also notifies the listener, which ends its timed wait early.
ExpireLast(t) ==
  /\ pc[t] = "lastgone"
  /\ IF sql_native_queue > 0
     THEN /\ active_thread_count' = active_thread_count + 1
          /\ Goto(t, "top")
     ELSE /\ Goto(t, "gone")
          /\ UNCHANGED active_thread_count
  /\ UNCHANGED << mutex, listener, waiting_threads, flagVars, queueVars, coro_cnt, batch,
                  connVars, boundVars >>

\* get_event_bulk() returns nothing and worker_main() ends.
Exit(t) ==
  /\ pc[t] = "gone"
  /\ Leave(t, 0, FALSE)
  /\ Goto(t, "none")
  /\ UNCHANGED << listener, active_thread_count, waiting_threads, ext_worker_active,
                  queue_event_count, notified, queueVars, coro_cnt, connVars, boundVars >>

-----------------------------------------------------------------------------
(* lockfree_listener()                                                     *)

\* The listener looks again whenever it is notified, and every five seconds.
Listen(t) ==
  /\ pc[t] = "listen" /\ ~HasActiveWorker
  /\ Goto(t, "epoll")
  /\ UNCHANGED << groupVars, flagVars, queueVars, coro_cnt, batch, connVars, boundVars >>

\* io_poll_wait() and lockfree_queue_put_bulk()
ListenerPoll(t) ==
  /\ pc[t] = "epoll" /\ ready > 0
  /\ req_queue' = req_queue + ready
  /\ ready' = 0
  /\ Goto(t, "put")
  /\ UNCHANGED << groupVars, flagVars, resume_queue, sql_native_queue, coro_cnt, batch,
                  outside, idle, tx, boundVars >>

ListenerCheck(t) ==
  /\ pc[t] = "put"
  /\ NotifyIf(~HasActiveWorker)
  /\ Goto(t, "listen")
  /\ UNCHANGED << groupVars, ext_worker_active, stalled, queue_event_count, queueVars, coro_cnt,
                  batch, connVars, boundVars >>

-----------------------------------------------------------------------------
(* Workers, SQL threads and the external one alike, run their batch.       *)

\* Mutant: commands that start are not counted.
Mut_RunNext(w) ==
  /\ pc[w] = "batch" /\ batch[w].n > 0
  /\ batch' = [batch EXCEPT ![w].n = @ - 1]
  /\ Goto(w, "run")
  /\ UNCHANGED << groupVars, flagVars, queueVars, coro_cnt, connVars, boundVars >>

\* PrepareCoroutine() counts a command that starts.
RunNext(w) ==
  /\ pc[w] = "batch" /\ batch[w].n > 0
  /\ batch' = [batch EXCEPT ![w].n = @ - 1]
  /\ coro_cnt' = IF batch[w].started THEN coro_cnt ELSE coro_cnt + 1
  /\ Goto(w, "run")
  /\ UNCHANGED << groupVars, flagVars, queueVars, connVars, boundVars >>

\* FinishCoroutine() and start_io()
Finish(w) ==
  /\ pc[w] = "run"
  /\ coro_cnt' = coro_cnt - 1
  /\ idle' = idle + 1
  /\ Goto(w, "batch")
  /\ UNCHANGED << groupVars, flagVars, queueVars, batch, outside, ready, tx, boundVars >>

Yield(w) ==
  /\ pc[w] = "run" /\ yields < MaxYields
  /\ yields' = yields + 1
  /\ tx' = tx + 1
  /\ Goto(w, "batch")
  /\ UNCHANGED << groupVars, flagVars, queueVars, coro_cnt, batch, outside, idle, ready,
                  sent, waits, handovers, timeouts >>

\* The end of a round: the sockets are polled without waiting.
WorkerPoll(w) ==
  /\ pc[w] = "batch" /\ batch[w].n = 0
  /\ req_queue' = req_queue + ready
  /\ ready' = 0
  /\ batch' = [batch EXCEPT ![w] = NoBatch]
  /\ Goto(w, IF w = Ext THEN "again" ELSE "loop")
  /\ UNCHANGED << groupVars, flagVars, resume_queue, sql_native_queue, coro_cnt,
                  outside, idle, tx, boundVars >>

-----------------------------------------------------------------------------
(* wait_begin() and wait_end()                                             *)

\* A SQL thread gives the rest of its batch back.  If it was the last active
\* one, somebody must serve the queues while it waits.
WaitBegin(t) ==
  /\ t \in SqlThread /\ pc[t] = "run" /\ mutex = Nobody /\ waits < MaxWaits
  /\ waits' = waits + 1
  /\ active_thread_count' = active_thread_count - 1
  /\ IF batch[t].started
     THEN resume_queue' = resume_queue + batch[t].n /\ UNCHANGED req_queue
     ELSE req_queue' = req_queue + batch[t].n /\ UNCHANGED resume_queue
  /\ batch' = [batch EXCEPT ![t].n = 0]
  /\ IF active_thread_count = 1
        /\ (sql_native_queue > 0 \/ listener = Nobody \/ coro_cnt > 0)
     THEN WakeOrCreateThread(t, "wait")
     ELSE Goto(t, "wait") /\ UNCHANGED waiting_threads
  /\ UNCHANGED << mutex, listener, flagVars, sql_native_queue, coro_cnt, connVars,
                  sent, yields, handovers, timeouts >>

\* Mutant: the thread that waited is not counted again.
Mut_WaitEnd(t) ==
  /\ pc[t] = "wait" /\ mutex = Nobody
  /\ Goto(t, "run")
  /\ UNCHANGED << groupVars, flagVars, queueVars, coro_cnt, batch, connVars, boundVars >>

WaitEnd(t) ==
  /\ pc[t] = "wait" /\ mutex = Nobody
  /\ active_thread_count' = active_thread_count + 1
  /\ Goto(t, "run")
  /\ UNCHANGED << mutex, listener, waiting_threads, flagVars, queueVars, coro_cnt, batch,
                  connVars, boundVars >>

\* The external worker may not wait: it makes sure that a SQL thread is up ...
HandOver ==
  /\ pc[Ext] = "run" /\ mutex = Nobody /\ handovers < MaxHandovers
  /\ handovers' = handovers + 1
  /\ mutex' = Ext
  /\ IF active_thread_count = 0
     THEN WakeOrCreateThread(Ext, "enqueue")
     ELSE Goto(Ext, "enqueue") /\ UNCHANGED waiting_threads
  /\ UNCHANGED << listener, active_thread_count, flagVars, queueVars, coro_cnt, batch, connVars,
                  sent, yields, waits, timeouts >>

\* ... and only then passes the command on and yields.
HandOverEnqueue ==
  /\ pc[Ext] = "enqueue"
  /\ sql_native_queue' = sql_native_queue + 1
  /\ mutex' = Nobody
  /\ Goto(Ext, "batch")
  /\ UNCHANGED << listener, active_thread_count, waiting_threads, flagVars, req_queue, resume_queue,
                  coro_cnt, batch, connVars, boundVars >>

\* The command goes on in wait_begin() on a SQL thread, which will block.
Continue(t) ==
  /\ pc[t] = "blocking"
  /\ active_thread_count' = active_thread_count - 1
  /\ Goto(t, IF active_thread_count = 1 THEN "look" ELSE "wait")
  /\ UNCHANGED << mutex, listener, waiting_threads, flagVars, queueVars, coro_cnt, batch,
                  connVars, boundVars >>

ContinueLook(t) ==
  /\ pc[t] = "look"
  /\ Goto(t, IF sql_native_queue > 0 THEN "relay" ELSE "wait")
  /\ UNCHANGED << groupVars, flagVars, queueVars, coro_cnt, batch, connVars, boundVars >>

ContinueWake(t) ==
  /\ pc[t] = "relay" /\ mutex = Nobody
  /\ IF sql_native_queue > 0
     THEN WakeOrCreateThread(t, "wait")
     ELSE Goto(t, "wait") /\ UNCHANGED waiting_threads
  /\ UNCHANGED << mutex, listener, active_thread_count, flagVars, queueVars, coro_cnt, batch,
                  connVars, boundVars >>

-----------------------------------------------------------------------------
(* MariaModule, called by the external worker.                             *)

HasTask == req_queue > 0 \/ resume_queue > 0 \/ coro_cnt > 0

\* The worker wakes when it is notified, or does not sleep with tasks left.
ExtThdStart ==
  /\ (pc[Ext] = "asleep" /\ notified) \/ (pc[Ext] = "settle" /\ HasTask)
  /\ notified' = FALSE
  /\ ext_worker_active' = TRUE
  /\ Goto(Ext, "process")
  /\ UNCHANGED << groupVars, stalled, queue_event_count, queueVars, coro_cnt, batch,
                  connVars, boundVars >>

Process ==
  /\ pc[Ext] = "process"
  /\ queue_event_count' = TRUE
  /\ IF resume_queue > 0
     THEN /\ batch' = [batch EXCEPT ![Ext] = [n |-> resume_queue, started |-> TRUE]]
          /\ resume_queue' = 0 /\ UNCHANGED req_queue
     ELSE /\ batch' = [batch EXCEPT ![Ext] = [n |-> req_queue, started |-> FALSE]]
          /\ req_queue' = 0 /\ UNCHANGED resume_queue
  /\ Goto(Ext, "batch")
  /\ UNCHANGED << groupVars, ext_worker_active, stalled, notified, sql_native_queue,
                  coro_cnt, connVars, boundVars >>

\* The worker goes on while the module has tasks.
ExtAgain ==
  /\ pc[Ext] = "again"
  /\ Goto(Ext, IF HasTask THEN "process" ELSE "end")
  /\ UNCHANGED << groupVars, flagVars, queueVars, coro_cnt, batch, connVars, boundVars >>

ExtThdEnd ==
  /\ pc[Ext] = "end"
  /\ ext_worker_active' = FALSE
  /\ Goto(Ext, "handback")
  /\ UNCHANGED << groupVars, stalled, queue_event_count, notified, queueVars, coro_cnt, batch,
                  connVars, boundVars >>

\* The sockets are left to the listener, which is notified, or to a thread that becomes one.
ExtThdEndWake ==
  /\ pc[Ext] = "handback" /\ mutex = Nobody
  /\ IF listener # Nobody
     THEN Goto(Ext, "settle") /\ UNCHANGED waiting_threads
     ELSE WakeOrCreateThread(Ext, "settle")
  /\ UNCHANGED << mutex, listener, active_thread_count, flagVars, queueVars, coro_cnt, batch,
                  connVars, boundVars >>

ExtSleep ==
  /\ pc[Ext] = "settle" /\ ~HasTask
  /\ Goto(Ext, "asleep")
  /\ UNCHANGED << groupVars, flagVars, queueVars, coro_cnt, batch, connVars, boundVars >>

-----------------------------------------------------------------------------
RunBatch(w) == RunNext(w) \/ Finish(w) \/ WorkerPoll(w)

GetEvent(t) ==
  \/ StartWorker(t) \/ Top(t) \/ TakeNative(t) \/ TakeBatch(t)
  \/ BecomeListener(t) \/ Retire(t) \/ Recheck(t) \/ Wake(t)
  \/ Expire(t) \/ ExpireLast(t) \/ Exit(t)

Listening(t) == Listen(t) \/ ListenerPoll(t) \/ ListenerCheck(t)

Blocking(t) == Continue(t) \/ ContinueLook(t) \/ ContinueWake(t) \/ WaitEnd(t)

SqlStep(t) == GetEvent(t) \/ Listening(t) \/ RunBatch(t) \/ Blocking(t)

ExtStep ==
  \/ RunBatch(Ext) \/ HandOverEnqueue
  \/ ExtThdStart \/ Process \/ ExtAgain \/ ExtThdEnd \/ ExtThdEndWake \/ ExtSleep

AcceptorStep == AddConnection \/ AddConnectionCheck
TxStep == CoroutineResume \/ CoroutineResumeCheck
TimerStep == CheckStall \/ ResolveStall

\* What a client, a command or the clock may but need not do.
Choice ==
  \/ ClientSend \/ HandOver \/ \E w \in Worker : Yield(w)
  \/ \E t \in SqlThread : WaitBegin(t) \/ IdleTimeout(t)

Next ==
  \/ Choice \/ ExtStep \/ AcceptorStep \/ TxStep \/ TimerStep
  \/ \E t \in SqlThread : SqlStep(t)

Spec == Init /\ [][Next]_vars

\* Every thread runs; waits end; the transaction service resumes what yielded.
Fairness ==
  /\ WF_vars(ExtStep) /\ WF_vars(AcceptorStep) /\ WF_vars(TxStep) /\ WF_vars(TimerStep)
  /\ \A t \in SqlThread : WF_vars(SqlStep(t))

FairSpec == Spec /\ Fairness

-----------------------------------------------------------------------------
SqlState == {"none", "new", "loop", "top", "native", "shared", "rest", "recheck", "sleep",
             "expired", "lastgone", "gone", "listen", "epoll", "put",
             "batch", "run", "wait", "blocking", "look", "relay"}
ExtState == {"asleep", "process", "batch", "run", "enqueue", "again", "end", "handback", "settle"}

\* Every variable keeps its type.
TypeOK ==
  /\ mutex \in Worker \cup {Nobody}
  /\ listener \in SqlThread \cup {Nobody}
  /\ active_thread_count \in Int
  /\ waiting_threads \in Seq(SqlThread)
  /\ ext_worker_active \in BOOLEAN /\ stalled \in BOOLEAN /\ notified \in BOOLEAN
  /\ queue_event_count \in BOOLEAN
  /\ req_queue \in Nat /\ resume_queue \in Nat /\ sql_native_queue \in Nat
  /\ coro_cnt \in Nat
  /\ pc \in [Actor -> SqlState \cup ExtState \cup {"check", "stall"}]
  /\ \A t \in SqlThread : pc[t] \in SqlState
  /\ pc[Ext] \in ExtState
  /\ batch \in [Worker -> [n : Nat, started : BOOLEAN]]
  /\ outside \in Nat /\ idle \in Nat /\ ready \in Nat /\ tx \in Nat
  /\ sent \in Nat /\ yields \in Nat /\ waits \in Nat /\ handovers \in Nat
  /\ timeouts \in Nat

Uncounted == {"none", "new", "recheck", "sleep", "lastgone", "gone", "listen", "epoll", "put",
              "wait", "look", "relay"}

\* active_thread_count, on which every decision to wake a thread rests, is the
\* number of SQL threads that run: those that exist, do not sleep, do not wait
\* inside a command and are not the listener.
ActiveCountExact == active_thread_count = Cardinality({t \in SqlThread : pc[t] \notin Uncounted})

Awake(t) ==
  \/ pc[t] \notin {"none", "sleep", "listen", "epoll", "put", "wait", "gone"}
  \/ pc[t] = "sleep" /\ ~Waiting(t)

\* Somebody is up, or is being woken, who serves requests and resumed commands.
ServerUp ==
  \/ pc[Ext] # "asleep" \/ notified
  \/ \E a \in Actor : pc[a] \in {"check", "put", "stall"}
  \/ \E t \in SqlThread : Awake(t)

\* A resumed command is never left in resume_queue_ while everybody sleeps:
\* the stall checker, which looks at requests alone, would not find it.
ResumedCommandHasThread == resume_queue > 0 => ServerUp

\* Every command is answered: the group always comes to a state where all its
\* connections are idle.
EveryCommandAnswered == []<>(idle = Connections)

=============================================================================
