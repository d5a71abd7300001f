----------------------------- MODULE ConnSched -----------------------------
(***************************************************************************)
(* Scheduling of client connections on the coroutine thread pool           *)
(* (sql/threadpool_common.cc, sql/threadpool_generic.cc, do_command() of   *)
(* sql/sql_parse.cc), in the default build with coroutines and the Eloq    *)
(* module enabled.                                                         *)
(*                                                                         *)
(* One thread group.  Its SQL threads run worker_main(), the external      *)
(* worker (a transaction-service thread) runs MariaModule::Process(), a    *)
(* listener only polls the sockets.  A connection travels between the      *)
(* three queues of the group, the local batch of a thread, a running       *)
(* coroutine, the transaction service (which resumes a yielded coroutine)  *)
(* and the kernel (which signals data on an idle connection).  When a      *)
(* thread sleeps or wakes is the subject of ThreadGroup: here a thread may *)
(* look into the queues at any time.                                       *)
(*                                                                         *)
(* Connections are plain (no TLS, no compression), so has_unread_data() is *)
(* false and a command coroutine executes one packet.                      *)
(***************************************************************************)
EXTENDS Integers

CONSTANTS
  Conn,            \* TP_connection_generic objects
  SqlThread,       \* worker_main() threads
  ExtThread,       \* external workers calling Process()
  Listener,        \* threads inside lockfree_listener()
  NoConn,          \* a thread that processes no connection
  MaxOutstanding,  \* packets (or a close) a client sends ahead of replies
  MaxRequests,     \* bound: packets per connection
  MaxYields,       \* bound: yields and waits per connection
  Killable,        \* connections that another session may KILL
  MaxTimeouts      \* bound: decisions of the timer per connection

ASSUME SchedAssumption ==
  /\ NoConn \notin Conn
  /\ SqlThread \cap ExtThread = {}
  /\ (SqlThread \cup ExtThread) \cap Listener = {}
  /\ MaxOutstanding \in Nat /\ MaxRequests \in Nat
  /\ MaxYields \in Nat /\ MaxTimeouts \in Nat
  /\ Killable \subseteq Conn

Worker == SqlThread \cup ExtThread
Thread == Worker \cup Listener

VARIABLES
  state,            \* TP_STATE, "none" before and "deleted" after its life
  killed,           \* thd->killed >= KILL_CONNECTION
  bound,            \* bound_to_poll_descriptor
  epoll_events,     \* epoll_events_
  events_snapshot,  \* events_snapshot_
  being_processed,  \* being_processed_
  coro_status,      \* THD::coro_status_
  coro_ret,         \* THD::coro_ret_
  need_sql_thd,     \* need_sql_thd_
  at,               \* where the coroutine continues when it is resumed
  in_error,         \* tp_callback() runs c past its error label
  tx_pending,       \* the transaction service owes a resume_func_() call
  req_queue, resume_queue, sql_native_queue,   \* how often each holds c
  pc, cur, batch, polled,   \* per thread: step, connection, local_conns, ev[]
  unread, hup, watched, ready,   \* socket: packets, EOF, in epoll, edge seen
  sent, replied,    \* client: packets sent, packets answered
  yields, timeouts, timer   \* bounds, and the timer thread's pending write

connVars == << state, killed, bound, epoll_events, events_snapshot, being_processed >>
coroVars == << coro_status, coro_ret, need_sql_thd, at, in_error, tx_pending >>
queueVars == << req_queue, resume_queue, sql_native_queue >>
threadVars == << pc, cur, batch, polled >>
sockVars == << unread, hup, watched, ready >>
clientVars == << sent, replied >>
boundVars == << yields, timeouts, timer >>
vars == << connVars, coroVars, queueVars, threadVars, sockVars, clientVars, boundVars >>

Empty == [c \in Conn |-> 0]

Init ==
  /\ state = [c \in Conn |-> "none"]
  /\ killed = [c \in Conn |-> FALSE]
  /\ bound = [c \in Conn |-> FALSE]
  /\ epoll_events = Empty
  /\ events_snapshot = Empty
  /\ being_processed = [c \in Conn |-> FALSE]
  /\ coro_status = [c \in Conn |-> "empty"]
  /\ coro_ret = [c \in Conn |-> "success"]
  /\ need_sql_thd = [c \in Conn |-> FALSE]
  /\ at = [c \in Conn |-> "login"]
  /\ in_error = [c \in Conn |-> FALSE]
  /\ tx_pending = [c \in Conn |-> FALSE]
  /\ req_queue = Empty
  /\ resume_queue = Empty
  /\ sql_native_queue = Empty
  /\ pc = [t \in Thread |-> IF t \in Worker THEN "loop" ELSE "poll"]
  /\ cur = [t \in Thread |-> NoConn]
  /\ batch = [t \in Thread |-> Empty]
  /\ polled = [t \in Thread |-> {}]
  /\ unread = Empty
  /\ hup = [c \in Conn |-> FALSE]
  /\ watched = [c \in Conn |-> FALSE]
  /\ ready = [c \in Conn |-> FALSE]
  /\ sent = Empty
  /\ replied = Empty
  /\ yields = Empty
  /\ timeouts = Empty
  /\ timer = [c \in Conn |-> "none"]

Add(q, c) == [q EXCEPT ![c] = @ + 1]
Goto(t, l) == pc' = [pc EXCEPT ![t] = l]

-----------------------------------------------------------------------------
(* Clients, the kernel and the timer.                                      *)

\* TP_pool_generic::add(), lockfree_queue_put()
AddConnection(c) ==
  /\ state[c] = "none"
  /\ state' = [state EXCEPT ![c] = "new"]
  /\ epoll_events' = [epoll_events EXCEPT ![c] = 1]
  /\ events_snapshot' = [events_snapshot EXCEPT ![c] = 1]
  /\ req_queue' = Add(req_queue, c)
  /\ UNCHANGED << killed, bound, being_processed, coroVars, resume_queue,
                  sql_native_queue, threadVars, sockVars, clientVars, boundVars >>

\* An edge-triggered event is raised by every arrival on a watched socket.
Signal(c) == ready' = [ready EXCEPT ![c] = watched[c] \/ @]

Connected(c) == state[c] \notin {"none", "new", "connecting", "deleted"}

ClientSend(c) ==
  /\ Connected(c) /\ ~hup[c]
  /\ sent[c] < MaxRequests
  /\ sent[c] - replied[c] < MaxOutstanding
  /\ sent' = [sent EXCEPT ![c] = @ + 1]
  /\ unread' = [unread EXCEPT ![c] = @ + 1]
  /\ Signal(c)
  /\ UNCHANGED << connVars, coroVars, queueVars, threadVars, hup, watched, replied, boundVars >>

ClientClose(c) ==
  /\ Connected(c) /\ ~hup[c]
  /\ sent[c] - replied[c] < MaxOutstanding
  /\ hup' = [hup EXCEPT ![c] = TRUE]
  /\ Signal(c)
  /\ UNCHANGED << connVars, coroVars, queueVars, threadVars, unread, watched, clientVars, boundVars >>

\* KILL CONNECTION of another session: set_killed(), then vio_shutdown().
Kill(c) ==
  /\ Connected(c) /\ ~killed[c] /\ c \in Killable
  /\ killed' = [killed EXCEPT ![c] = TRUE]
  /\ hup' = [hup EXCEPT ![c] = TRUE]
  /\ Signal(c)
  /\ UNCHANGED << state, bound, epoll_events, events_snapshot, being_processed, coroVars,
                  queueVars, threadVars, unread, watched, clientVars, boundVars >>

\* timeout_check() and tp_timeout_handler() up to the decision: the timer
\* reads the state without a lock that tp_callback() would take.
TimeoutCheck(c) ==
  /\ state[c] = "idle" /\ timer[c] = "none"
  /\ timeouts[c] < MaxTimeouts
  /\ timeouts' = [timeouts EXCEPT ![c] = @ + 1]
  /\ timer' = [timer EXCEPT ![c] = IF unread[c] > 0 THEN "pending" ELSE "kill"]
  /\ UNCHANGED << connVars, coroVars, queueVars, threadVars, sockVars, clientVars, yields >>

TimeoutPending(c) ==
  /\ timer[c] = "pending"
  /\ timer' = [timer EXCEPT ![c] = "none"]
  /\ state' = [state EXCEPT ![c] = "pending"]
  /\ UNCHANGED << killed, bound, epoll_events, events_snapshot, being_processed, coroVars,
                  queueVars, threadVars, sockVars, clientVars, yields, timeouts >>

TimeoutKill(c) ==
  /\ timer[c] = "kill"
  /\ timer' = [timer EXCEPT ![c] = "none"]
  /\ killed' = [killed EXCEPT ![c] = TRUE]
  /\ hup' = [hup EXCEPT ![c] = TRUE]
  /\ Signal(c)
  /\ UNCHANGED << state, bound, epoll_events, events_snapshot, being_processed, coroVars,
                  queueVars, threadVars, unread, watched, clientVars, yields, timeouts >>

-----------------------------------------------------------------------------
(* worker_main(), get_event_bulk() and Process(): taking connections.      *)

TakeFrom(t, c) ==
  /\ batch' = [batch EXCEPT ![t] = [Empty EXCEPT ![c] = 1]]
  /\ Goto(t, "batch")
  /\ UNCHANGED << connVars, coroVars, cur, polled, sockVars, clientVars, boundVars >>

TakeAll(t, q) ==
  /\ batch' = [batch EXCEPT ![t] = q]
  /\ Goto(t, "batch")
  /\ UNCHANGED << connVars, coroVars, cur, polled, sockVars, clientVars, boundVars >>

\* SQL threads serve the connections that only they may run first.
GetNative(t) ==
  /\ pc[t] = "loop" /\ t \in SqlThread
  /\ \E c \in Conn :
       /\ sql_native_queue[c] > 0
       /\ sql_native_queue' = [sql_native_queue EXCEPT ![c] = @ - 1]
       /\ TakeFrom(t, c)
  /\ UNCHANGED << req_queue, resume_queue >>

NoNative(t) == t \in SqlThread => sql_native_queue = Empty

GetResumed(t) ==
  /\ pc[t] = "loop" /\ NoNative(t)
  /\ resume_queue # Empty
  /\ TakeAll(t, resume_queue)
  /\ resume_queue' = Empty
  /\ UNCHANGED << req_queue, sql_native_queue >>

GetRequests(t) ==
  /\ pc[t] = "loop" /\ NoNative(t)
  /\ resume_queue = Empty /\ req_queue # Empty
  /\ TakeAll(t, req_queue)
  /\ req_queue' = Empty
  /\ UNCHANGED << resume_queue, sql_native_queue >>

\* Process() polls the sockets even when it finds no connection.
GetNothing(t) ==
  /\ pc[t] = "loop" /\ t \in ExtThread
  /\ resume_queue = Empty /\ req_queue = Empty
  /\ Goto(t, "poll")
  /\ UNCHANGED << connVars, coroVars, queueVars, cur, batch, polled, sockVars, clientVars, boundVars >>

\* The previous execution of c has not returned yet: try again later.
Skip(t, c) ==
  /\ pc[t] = "batch" /\ batch[t][c] > 0
  /\ being_processed[c]
  /\ batch' = [batch EXCEPT ![t][c] = @ - 1]
  /\ IF t \in SqlThread /\ need_sql_thd[c]
     THEN sql_native_queue' = Add(sql_native_queue, c) /\ UNCHANGED resume_queue
     ELSE resume_queue' = Add(resume_queue, c) /\ UNCHANGED sql_native_queue
  /\ UNCHANGED << connVars, coroVars, req_queue, pc, cur, polled, sockVars, clientVars, boundVars >>

\* Mutant: the guard on being_processed_ is missing.
Mut_Pick(t, c) ==
  /\ pc[t] = "batch" /\ batch[t][c] > 0
  /\ batch' = [batch EXCEPT ![t][c] = @ - 1]
  /\ cur' = [cur EXCEPT ![t] = c]
  /\ Goto(t, "enter")
  /\ UNCHANGED << connVars, coroVars, queueVars, polled, sockVars, clientVars, boundVars >>

Pick(t, c) ==
  /\ pc[t] = "batch" /\ batch[t][c] > 0
  /\ ~being_processed[c]
  /\ batch' = [batch EXCEPT ![t][c] = @ - 1]
  /\ cur' = [cur EXCEPT ![t] = c]
  /\ Goto(t, "enter")
  /\ UNCHANGED << connVars, coroVars, queueVars, polled, sockVars, clientVars, boundVars >>

EndOfBatch(t) ==
  /\ pc[t] = "batch" /\ batch[t] = Empty
  /\ Goto(t, "poll")
  /\ UNCHANGED << connVars, coroVars, queueVars, cur, batch, polled, sockVars, clientVars, boundVars >>

\* io_poll_wait(): takes the edges seen so far.  A worker does not wait.
Poll(t) ==
  /\ pc[t] = "poll"
  /\ t \in Listener => \E c \in Conn : ready[c]
  /\ polled' = [polled EXCEPT ![t] = {c \in Conn : ready[c]}]
  /\ ready' = [c \in Conn |-> FALSE]
  /\ Goto(t, IF \E c \in Conn : ready[c] THEN "apply" ELSE "loop")
  /\ UNCHANGED << connVars, coroVars, queueVars, cur, batch, unread, hup, watched, clientVars, boundVars >>

\* Mutant: the event of a connection in process is enqueued as well.
Mut_ApplyEvent(t, c) ==
  /\ pc[t] = "apply" /\ c \in polled[t]
  /\ polled' = [polled EXCEPT ![t] = @ \ {c}]
  /\ Goto(t, IF polled[t] # {c} THEN "apply" ELSE IF t \in Worker THEN "loop" ELSE "poll")
  /\ epoll_events' = Add(epoll_events, c)
  /\ req_queue' = Add(req_queue, c)
  /\ UNCHANGED << state, killed, bound, events_snapshot, being_processed, coroVars, resume_queue,
                  sql_native_queue, cur, batch, sockVars, clientVars, boundVars >>

\* lockfree_queue_put_bulk(), one event.  The event of a connection that was
\* deleted since the poll is dropped here (the code touches freed memory).
ApplyEvent(t, c) ==
  /\ pc[t] = "apply" /\ c \in polled[t]
  /\ polled' = [polled EXCEPT ![t] = @ \ {c}]
  /\ Goto(t, IF polled[t] # {c} THEN "apply" ELSE IF t \in Worker THEN "loop" ELSE "poll")
  /\ IF state[c] = "deleted"
     THEN UNCHANGED << epoll_events, req_queue >>
     ELSE /\ epoll_events' = Add(epoll_events, c)
          /\ req_queue' = IF epoll_events[c] > 0 THEN req_queue ELSE Add(req_queue, c)
  /\ UNCHANGED << state, killed, bound, events_snapshot, being_processed, coroVars, resume_queue,
                  sql_native_queue, cur, batch, sockVars, clientVars, boundVars >>

-----------------------------------------------------------------------------
(* tp_callback() up to the coroutine.                                      *)

\* Mutant: the resumed coroutine starts its command again.
Mut_ResumeAt(c) == IF need_sql_thd[c] THEN "wait" ELSE IF at[c] = "replied" THEN "exec" ELSE at[c]

ResumeAt(c) == IF need_sql_thd[c] THEN "wait" ELSE at[c]

\* PrepareConnection() fails: no THD, the connection object goes away.
LoginImpossible(t, c) ==
  /\ pc[t] = "enter" /\ state[c] = "new"
  /\ being_processed' = [being_processed EXCEPT ![c] = TRUE]
  /\ state' = [state EXCEPT ![c] = "deleted"]
  /\ cur' = [cur EXCEPT ![t] = NoConn]
  /\ Goto(t, "batch")
  /\ UNCHANGED << killed, bound, epoll_events, events_snapshot, coroVars, queueVars, batch,
                  polled, sockVars, clientVars, boundVars >>

StartLogin(t, c) ==
  /\ pc[t] = "enter" /\ state[c] = "new"
  /\ being_processed' = [being_processed EXCEPT ![c] = TRUE]
  /\ state' = [state EXCEPT ![c] = "connecting"]
  /\ coro_status' = [coro_status EXCEPT ![c] = "ongoing"]
  /\ Goto(t, "login")
  /\ UNCHANGED << killed, bound, epoll_events, events_snapshot, coro_ret, need_sql_thd, at, in_error,
                  tx_pending, queueVars, cur, batch, polled, sockVars, clientVars, boundVars >>

\* A login or a close that had yielded goes on.
ResumeLoginOrClose(t, c) ==
  /\ pc[t] = "enter" /\ state[c] \in {"connecting", "closing"}
  /\ being_processed' = [being_processed EXCEPT ![c] = TRUE]
  /\ in_error' = [in_error EXCEPT ![c] = state[c] = "closing"]
  /\ Goto(t, ResumeAt(c))
  /\ UNCHANGED << state, killed, bound, epoll_events, events_snapshot, coro_status, coro_ret,
                  need_sql_thd, at, tx_pending, queueVars, cur, batch, polled, sockVars, clientVars, boundVars >>

Commandable(c) == state[c] \in {"idle", "pending", "running"}

\* The error label, and the close coroutine up to end_io().
BeginClose(t, c, ret) ==
  /\ state' = [state EXCEPT ![c] = "closing"]
  /\ coro_status' = [coro_status EXCEPT ![c] = "ongoing"]
  /\ coro_ret' = [coro_ret EXCEPT ![c] = ret]
  /\ watched' = [watched EXCEPT ![c] = FALSE]
  /\ ready' = [ready EXCEPT ![c] = FALSE]
  /\ in_error' = [in_error EXCEPT ![c] = TRUE]
  /\ Goto(t, "close")
  /\ UNCHANGED << need_sql_thd, at, tx_pending, queueVars, cur, batch, polled, unread, hup >>

KilledWhileIdle(t, c) ==
  /\ pc[t] = "enter" /\ Commandable(c)
  /\ killed[c] /\ coro_status[c] = "empty"
  /\ being_processed' = [being_processed EXCEPT ![c] = TRUE]
  /\ BeginClose(t, c, coro_ret[c])
  /\ UNCHANGED << killed, bound, epoll_events, events_snapshot, clientVars, boundVars >>

StartCommand(t, c) ==
  /\ pc[t] = "enter" /\ Commandable(c)
  /\ ~killed[c] /\ coro_status[c] = "empty"
  /\ being_processed' = [being_processed EXCEPT ![c] = TRUE]
  /\ state' = [state EXCEPT ![c] = "running"]
  /\ coro_status' = [coro_status EXCEPT ![c] = "ongoing"]
  /\ Goto(t, "read")
  /\ UNCHANGED << killed, bound, epoll_events, events_snapshot, coro_ret, need_sql_thd, at, in_error,
                  tx_pending, queueVars, cur, batch, polled, sockVars, clientVars, boundVars >>

ResumeCommand(t, c) ==
  /\ pc[t] = "enter" /\ Commandable(c)
  /\ coro_status[c] = "ongoing"
  /\ being_processed' = [being_processed EXCEPT ![c] = TRUE]
  /\ state' = [state EXCEPT ![c] = "running"]
  /\ in_error' = [in_error EXCEPT ![c] = FALSE]
  /\ Goto(t, ResumeAt(c))
  /\ UNCHANGED << killed, bound, epoll_events, events_snapshot, coro_status, coro_ret,
                  need_sql_thd, at, tx_pending, queueVars, cur, batch, polled, sockVars, clientVars, boundVars >>

-----------------------------------------------------------------------------
(* The coroutines: do_command(), login and close, and how they yield.      *)

ReadPacket(t, c) ==
  /\ pc[t] = "read" /\ unread[c] > 0
  /\ unread' = [unread EXCEPT ![c] = @ - 1]
  /\ Goto(t, "snapshot")
  /\ UNCHANGED << connVars, coroVars, queueVars, cur, batch, polled, hup, watched, ready,
                  clientVars, boundVars >>

ReadError(t, c) ==
  /\ pc[t] = "read" /\ unread[c] = 0 /\ hup[c]
  /\ Goto(t, "broken")
  /\ UNCHANGED << connVars, coroVars, queueVars, cur, batch, polled, sockVars, clientVars, boundVars >>

\* events_snapshot_ is read after the packet, whether or not the read failed.
TakeSnapshot(t, c) ==
  /\ pc[t] \in {"snapshot", "broken"}
  /\ events_snapshot' = [events_snapshot EXCEPT ![c] = epoll_events[c]]
  /\ Goto(t, IF pc[t] = "snapshot" THEN "exec" ELSE "quit")
  /\ UNCHANGED << state, killed, bound, epoll_events, being_processed, coroVars, queueVars, cur,
                  batch, polled, sockVars, clientVars, boundVars >>

\* The answer is in the socket; its coroutine may still yield (io_uring).
Reply(t, c) ==
  /\ pc[t] = "exec"
  /\ replied' = [replied EXCEPT ![c] = @ + 1]
  /\ Goto(t, "replied")
  /\ UNCHANGED << connVars, coroVars, queueVars, cur, batch, polled, sockVars, sent, boundVars >>

\* COM_QUIT, a broken read or a fatal error: DISPATCH_COMMAND_CLOSE_CONNECTION.
Quit(t, c) ==
  /\ pc[t] \in {"exec", "quit"}
  /\ BeginClose(t, c, "close")
  /\ UNCHANGED << killed, bound, epoll_events, events_snapshot, being_processed, clientVars, boundVars >>

\* thd_is_connection_alive() fails after the command.
FinishDead(t, c) ==
  /\ pc[t] = "replied" /\ (killed[c] \/ hup[c])
  /\ BeginClose(t, c, "close")
  /\ UNCHANGED << killed, bound, epoll_events, events_snapshot, being_processed, clientVars, boundVars >>

FinishCommand(t, c) ==
  /\ pc[t] = "replied" /\ ~killed[c]
  /\ coro_status' = [coro_status EXCEPT ![c] = "empty"]
  /\ coro_ret' = [coro_ret EXCEPT ![c] = "success"]
  /\ Goto(t, "idle")
  /\ UNCHANGED << connVars, need_sql_thd, at, in_error, tx_pending, queueVars, cur, batch, polled, sockVars,
                  clientVars, boundVars >>

LoginDone(t, c) ==
  /\ pc[t] = "login"
  /\ coro_status' = [coro_status EXCEPT ![c] = "empty"]
  /\ Goto(t, "idle")
  /\ UNCHANGED << connVars, coro_ret, need_sql_thd, at, in_error, tx_pending, queueVars, cur, batch, polled,
                  sockVars, clientVars, boundVars >>

LoginFailed(t, c) ==
  /\ pc[t] = "login"
  /\ BeginClose(t, c, coro_ret[c])
  /\ UNCHANGED << killed, bound, epoll_events, events_snapshot, being_processed, clientVars, boundVars >>

\* The close coroutine ends.  tp_callback() deletes the connection if it came
\* through its error label; the timer thread holds the THD list meanwhile.
CloseDone(t, c) ==
  /\ pc[t] = "close" /\ timer[c] = "none"
  /\ coro_status' = [coro_status EXCEPT ![c] = "empty"]
  /\ \/ /\ in_error[c]
        /\ state' = [state EXCEPT ![c] = "deleted"]
        /\ cur' = [cur EXCEPT ![t] = NoConn]
        /\ Goto(t, "batch")
     \/ /\ ~in_error[c]
        /\ Goto(t, IF coro_ret[c] = "success" THEN "idle" ELSE "quit")
        /\ UNCHANGED << state, cur >>
  /\ UNCHANGED << killed, bound, epoll_events, events_snapshot, being_processed, coro_ret,
                  need_sql_thd, at, in_error, tx_pending, queueVars, batch, polled, sockVars, clientVars, boundVars >>

CanYield(t, c, l) ==
  /\ pc[t] \in l /\ yields[c] < MaxYields
  /\ yields' = [yields EXCEPT ![c] = @ + 1]
  /\ UNCHANGED << connVars, coro_status, coro_ret, in_error, polled, sockVars, clientVars, timeouts, timer >>

\* Wait for the transaction service or for an io_uring completion.
YieldToTx(t, c) ==
  /\ CanYield(t, c, {"login", "exec", "replied", "close"})
  /\ tx_pending' = [tx_pending EXCEPT ![c] = TRUE]
  /\ at' = [at EXCEPT ![c] = pc[t]]
  /\ Goto(t, "yield")
  /\ UNCHANGED << need_sql_thd, queueVars, cur, batch >>

\* A coroutine mutex is taken: CoroutineLongResume(), then yield.
YieldToQueue(t, c) ==
  /\ CanYield(t, c, {"login", "exec", "close", "wait"})
  /\ IF need_sql_thd[c]
     THEN sql_native_queue' = Add(sql_native_queue, c) /\ UNCHANGED req_queue
     ELSE req_queue' = Add(req_queue, c) /\ UNCHANGED sql_native_queue
  /\ at' = IF pc[t] = "wait" THEN at ELSE [at EXCEPT ![c] = pc[t]]
  /\ Goto(t, "yield")
  /\ UNCHANGED << need_sql_thd, tx_pending, resume_queue, cur, batch >>

Ongoing(c) == state[c] = "new" \/ coro_status[c] = "ongoing"

\* wait_begin() on a SQL thread hands the rest of its batch back; where to is
\* decided by the first connection of the rest.
WaitBegin(t, c) ==
  /\ t \in SqlThread
  /\ CanYield(t, c, {"login", "exec", "close"})
  /\ need_sql_thd' = [need_sql_thd EXCEPT ![c] = TRUE]
  /\ at' = [at EXCEPT ![c] = pc[t]]
  /\ LET Plus(q) == [d \in Conn |-> q[d] + batch[t][d]] IN
     \/ batch[t] = Empty /\ UNCHANGED << req_queue, resume_queue >>
     \/ \E first \in Conn :
          /\ batch[t][first] > 0
          /\ IF Ongoing(first)
             THEN resume_queue' = Plus(resume_queue) /\ UNCHANGED req_queue
             ELSE req_queue' = Plus(req_queue) /\ UNCHANGED resume_queue
  /\ batch' = [batch EXCEPT ![t] = Empty]
  /\ Goto(t, "wait")
  /\ UNCHANGED << tx_pending, sql_native_queue, cur >>

\* Mutant: the coroutine goes to the queue every thread serves.
Mut_WaitBeginExt(t, c) ==
  /\ t \in ExtThread
  /\ CanYield(t, c, {"login", "exec", "close"})
  /\ need_sql_thd' = [need_sql_thd EXCEPT ![c] = TRUE]
  /\ at' = [at EXCEPT ![c] = pc[t]]
  /\ resume_queue' = Add(resume_queue, c)
  /\ Goto(t, "yield")
  /\ UNCHANGED << tx_pending, req_queue, sql_native_queue, cur, batch >>

\* wait_begin() on the external worker: only a SQL thread may block.
WaitBeginExt(t, c) ==
  /\ t \in ExtThread
  /\ CanYield(t, c, {"login", "exec", "close"})
  /\ need_sql_thd' = [need_sql_thd EXCEPT ![c] = TRUE]
  /\ at' = [at EXCEPT ![c] = pc[t]]
  /\ sql_native_queue' = Add(sql_native_queue, c)
  /\ Goto(t, "yield")
  /\ UNCHANGED << tx_pending, req_queue, resume_queue, cur, batch >>

WaitEnd(t, c) ==
  /\ pc[t] = "wait"
  /\ need_sql_thd' = [need_sql_thd EXCEPT ![c] = FALSE]
  /\ Goto(t, at[c])
  /\ UNCHANGED << connVars, coro_status, coro_ret, at, in_error, tx_pending, queueVars, cur, batch, polled,
                  sockVars, clientVars, boundVars >>

\* Mutant: a resumption is dropped while the coroutine is still yielding.
Mut_Resume(c) ==
  /\ tx_pending[c]
  /\ tx_pending' = [tx_pending EXCEPT ![c] = FALSE]
  /\ resume_queue' = IF being_processed[c] THEN resume_queue ELSE Add(resume_queue, c)
  /\ UNCHANGED << connVars, coro_status, coro_ret, need_sql_thd, at, in_error, req_queue,
                  sql_native_queue, threadVars, sockVars, clientVars, boundVars >>

\* resume_func_() called by the transaction service: CoroutineResume().
Resume(c) ==
  /\ tx_pending[c]
  /\ tx_pending' = [tx_pending EXCEPT ![c] = FALSE]
  /\ IF need_sql_thd[c]
     THEN sql_native_queue' = Add(sql_native_queue, c) /\ UNCHANGED resume_queue
     ELSE resume_queue' = Add(resume_queue, c) /\ UNCHANGED sql_native_queue
  /\ UNCHANGED << connVars, coro_status, coro_ret, need_sql_thd, at, in_error, req_queue, threadVars,
                  sockVars, clientVars, boundVars >>

-----------------------------------------------------------------------------
(* tp_callback() after the coroutine.                                      *)

SetIdle(t, c) ==
  /\ pc[t] = "idle"
  /\ state' = [state EXCEPT ![c] = "idle"]
  /\ Goto(t, "start_io")
  /\ UNCHANGED << killed, bound, epoll_events, events_snapshot, being_processed, coroVars,
                  queueVars, cur, batch, polled, sockVars, clientVars, boundVars >>

\* start_io() of a fresh connection: EPOLL_CTL_ADD reports waiting data.
Bind(t, c) ==
  /\ pc[t] = "start_io" /\ ~bound[c]
  /\ bound' = [bound EXCEPT ![c] = TRUE]
  /\ epoll_events' = [epoll_events EXCEPT ![c] = 0]
  /\ events_snapshot' = [events_snapshot EXCEPT ![c] = 0]
  /\ \/ /\ watched' = [watched EXCEPT ![c] = TRUE]
        /\ ready' = [ready EXCEPT ![c] = unread[c] > 0 \/ hup[c]]
        /\ Goto(t, "release")
        /\ UNCHANGED << state, coroVars, queueVars, cur, batch, polled, unread, hup >>
     \/ BeginClose(t, c, coro_ret[c])
  /\ UNCHANGED << killed, being_processed, clientVars, boundVars >>

\* Mutant: the counter is cleared whether or not new events were counted.
Mut_StartIO(t, c) ==
  /\ pc[t] = "start_io" /\ bound[c]
  /\ epoll_events' = [epoll_events EXCEPT ![c] = 0]
  /\ Goto(t, "release")
  /\ UNCHANGED << state, killed, bound, events_snapshot, being_processed, coroVars, queueVars, cur,
                  batch, polled, sockVars, clientVars, boundVars >>

\* Mutant: the connection is always enqueued again.
Mut_StartIOAgain(t, c) ==
  /\ pc[t] = "start_io" /\ bound[c]
  /\ Goto(t, "recount")
  /\ UNCHANGED << connVars, coroVars, queueVars, cur, batch, polled, sockVars, clientVars, boundVars >>

\* compare_exchange_strong(events_snapshot_, 0)
StartIO(t, c) ==
  /\ pc[t] = "start_io" /\ bound[c]
  /\ IF epoll_events[c] = events_snapshot[c]
     THEN /\ epoll_events' = [epoll_events EXCEPT ![c] = 0]
          /\ Goto(t, "release")
     ELSE /\ Goto(t, "recount")
          /\ UNCHANGED epoll_events
  /\ UNCHANGED << state, killed, bound, events_snapshot, being_processed, coroVars, queueVars, cur,
                  batch, polled, sockVars, clientVars, boundVars >>

Recount(t, c) ==
  /\ pc[t] = "recount"
  /\ events_snapshot' = [events_snapshot EXCEPT ![c] = 1]
  /\ epoll_events' = [epoll_events EXCEPT ![c] = 1]
  /\ Goto(t, "requeue")
  /\ UNCHANGED << state, killed, bound, being_processed, coroVars, queueVars, cur, batch, polled,
                  sockVars, clientVars, boundVars >>

Requeue(t, c) ==
  /\ pc[t] = "requeue"
  /\ req_queue' = Add(req_queue, c)
  /\ Goto(t, "release")
  /\ UNCHANGED << connVars, coroVars, resume_queue, sql_native_queue, cur, batch, polled, sockVars,
                  clientVars, boundVars >>

\* being_processed_.store(false) after start_io() or after a yield.
Release(t, c) ==
  /\ pc[t] \in {"release", "yield"}
  /\ being_processed' = [being_processed EXCEPT ![c] = FALSE]
  /\ cur' = [cur EXCEPT ![t] = NoConn]
  /\ Goto(t, "batch")
  /\ UNCHANGED << state, killed, bound, epoll_events, events_snapshot, coroVars, queueVars, batch,
                  polled, sockVars, clientVars, boundVars >>

-----------------------------------------------------------------------------
Enter(t, c) ==
  \/ LoginImpossible(t, c) \/ StartLogin(t, c) \/ ResumeLoginOrClose(t, c)
  \/ KilledWhileIdle(t, c) \/ StartCommand(t, c) \/ ResumeCommand(t, c)

Execute(t, c) ==
  \/ ReadPacket(t, c) \/ ReadError(t, c) \/ TakeSnapshot(t, c) \/ Reply(t, c)
  \/ Quit(t, c) \/ FinishDead(t, c) \/ FinishCommand(t, c)
  \/ LoginDone(t, c) \/ LoginFailed(t, c) \/ CloseDone(t, c) \/ WaitEnd(t, c)

Yield(t, c) ==
  YieldToTx(t, c) \/ YieldToQueue(t, c) \/ WaitBegin(t, c) \/ WaitBeginExt(t, c)

Leave(t, c) ==
  \/ SetIdle(t, c) \/ Bind(t, c) \/ StartIO(t, c) \/ Recount(t, c) \/ Requeue(t, c)
  \/ Release(t, c)

Process(t) == \E c \in Conn : cur[t] = c /\ (Enter(t, c) \/ Execute(t, c) \/ Yield(t, c) \/ Leave(t, c))

Dispatch(t) ==
  \/ GetNative(t) \/ GetResumed(t) \/ GetRequests(t) \/ GetNothing(t)
  \/ \E c \in Conn : Skip(t, c) \/ Pick(t, c)
  \/ EndOfBatch(t)
  \/ Poll(t)
  \/ \E c \in Conn : ApplyEvent(t, c)

Environment(c) ==
  \/ AddConnection(c) \/ ClientSend(c) \/ ClientClose(c) \/ Kill(c)
  \/ TimeoutCheck(c) \/ TimeoutPending(c) \/ TimeoutKill(c)

Next ==
  \/ \E t \in Thread : Process(t) \/ Dispatch(t)
  \/ \E c \in Conn : Environment(c) \/ Resume(c)

Spec == Init /\ [][Next]_vars

\* Threads are scheduled, waits end (locks time out), and the transaction
\* service answers every request it accepted.
Fairness ==
  /\ \A t \in Thread : WF_vars(Process(t)) /\ WF_vars(Dispatch(t))
  /\ \A c \in Conn : WF_vars(Resume(c))

FairSpec == Spec /\ Fairness

-----------------------------------------------------------------------------
(* Properties.                                                             *)

Labels == {"loop", "batch", "enter", "login", "read", "snapshot", "broken", "exec", "quit",
           "replied", "close", "wait", "yield", "idle", "start_io", "recount", "requeue",
           "release", "poll", "apply"}

\* The types of the variables, in the groups the proofs cite.
ConnTypes ==
  /\ state \in [Conn -> {"none", "new", "connecting", "running", "idle", "pending", "closing", "deleted"}]
  /\ killed \in [Conn -> BOOLEAN] /\ bound \in [Conn -> BOOLEAN] /\ being_processed \in [Conn -> BOOLEAN]
  /\ epoll_events \in [Conn -> Nat] /\ events_snapshot \in [Conn -> Nat]

CoroTypes ==
  /\ coro_status \in [Conn -> {"empty", "ongoing"}]
  /\ coro_ret \in [Conn -> {"success", "close"}]
  /\ at \in [Conn -> {"login", "exec", "replied", "close"}]
  /\ need_sql_thd \in [Conn -> BOOLEAN] /\ in_error \in [Conn -> BOOLEAN] /\ tx_pending \in [Conn -> BOOLEAN]

QueueTypes ==
  req_queue \in [Conn -> Nat] /\ resume_queue \in [Conn -> Nat] /\ sql_native_queue \in [Conn -> Nat]

ThreadTypes ==
  /\ pc \in [Thread -> Labels]
  /\ cur \in [Thread -> Conn \cup {NoConn}]
  /\ batch \in [Thread -> [Conn -> Nat]]
  /\ polled \in [Thread -> SUBSET Conn]

SockTypes ==
  /\ unread \in [Conn -> Nat]
  /\ hup \in [Conn -> BOOLEAN] /\ watched \in [Conn -> BOOLEAN] /\ ready \in [Conn -> BOOLEAN]

ClientTypes == sent \in [Conn -> Nat] /\ replied \in [Conn -> Nat]

BoundTypes ==
  /\ yields \in [Conn -> Nat] /\ timeouts \in [Conn -> Nat]
  /\ timer \in [Conn -> {"none", "pending", "kill"}]

\* The variables of connections, coroutines, threads and sockets keep their
\* types; the counters never fall below zero.
TypeOK ==
  /\ ConnTypes /\ CoroTypes /\ QueueTypes /\ ThreadTypes
  /\ SockTypes /\ ClientTypes /\ BoundTypes

Alive(c) == state[c] \notin {"none", "deleted"}

Parked(c) == watched[c] /\ epoll_events[c] = 0

\* The places from which c can be continued: an entry of a queue or of a
\* batch, a thread that has not handed c on yet, a resume_func_() call owed
\* by the transaction service, or the kernel while c is idle.
Continuations(c) ==
  {<< "req", i >> : i \in 1 .. req_queue[c]}
  \cup {<< "resume", i >> : i \in 1 .. resume_queue[c]}
  \cup {<< "native", i >> : i \in 1 .. sql_native_queue[c]}
  \cup (UNION {{<< "batch", t, i >> : i \in 1 .. batch[t][c]} : t \in Thread})
  \cup {<< "thread", t >> : t \in {u \in Thread : cur[u] = c /\ pc[u] \notin {"release", "yield"}}}
  \cup (IF tx_pending[c] THEN {<< "tx" >>} ELSE {})
  \cup (IF Parked(c) THEN {<< "kernel" >>} ELSE {})

\* A live connection is in exactly one of these places: it is never
\* forgotten and never scheduled twice.
OneContinuation == \A c \in Conn : Alive(c) => \E k \in Continuations(c) : Continuations(c) = {k}

\* An event of c may still be applied, and would enqueue c.
CanSignal(c) ==
  /\ state[c] # "deleted" /\ epoll_events[c] = 0
  /\ watched[c] \/ ready[c] \/ \E t \in Thread : c \in polled[t]

\* c has no continuation but the one of kind k, of thread h if k is a thread's.
OnlyAt(c, k, h) ==
  /\ req_queue[c] \in {0, 1} /\ (req_queue[c] = 1 => k = "req")
  /\ resume_queue[c] \in {0, 1} /\ (resume_queue[c] = 1 => k = "resume")
  /\ sql_native_queue[c] \in {0, 1} /\ (sql_native_queue[c] = 1 => k = "native")
  /\ \A t \in Thread : batch[t][c] \in {0, 1} /\ (batch[t][c] = 1 => k = "batch" /\ h = t)
  /\ \A t \in Thread : cur[t] = c /\ pc[t] \notin {"release", "yield"} => k = "thread" /\ h = t
  /\ tx_pending[c] => k = "tx"
  /\ CanSignal(c) => k = "kernel"
  /\ ~Alive(c) => k = "nowhere"

Kinds == {"req", "resume", "native", "batch", "thread", "tx", "kernel", "nowhere"}

\* However the timer interferes, a connection is never scheduled twice: two
\* queue entries, a queue entry and a thread, or a resumption and an event
\* that would enqueue it never exist together, and nothing is left of a
\* deleted connection but events that are dropped.
AtMostOneContinuation ==
  \A c \in Conn : \E k \in Kinds, h \in Thread \cup {NoConn} : OnlyAt(c, k, h)

\* No coroutine is on two threads, not even while one of them is still
\* returning from it.
OneThreadPerConnection ==
  \A t, u \in Thread : cur[t] # NoConn /\ cur[t] = cur[u] => t = u

\* An idle connection with data or an EOF in its socket has an event under
\* way: no request waits for the client to send another one.
NoRequestForgotten ==
  \A c \in Conn :
    Alive(c) /\ Parked(c) /\ (unread[c] > 0 \/ hup[c])
      => ready[c] \/ \E t \in Thread : c \in polled[t]

\* do_command() finds a packet or an EOF: no pool thread blocks on a socket.
ReadNeverBlocks == \A t \in Thread : pc[t] = "read" => unread[cur[t]] > 0 \/ hup[cur[t]]

\* assert(GetIsSqlThd()) in wait_begin() and wait_end(), and
\* assert(!conn->need_sql_thd_) in Process(): a coroutine about to block is
\* only reachable by SQL threads.
BlocksOnSqlThreads ==
  /\ \A t \in Thread : pc[t] = "wait" => t \in SqlThread
  /\ \A c \in Conn : Alive(c) /\ need_sql_thd[c] =>
       req_queue[c] = 0 /\ resume_queue[c] = 0 /\ \A t \in ExtThread : batch[t][c] = 0

-----------------------------------------------------------------------------
(* Refinement of Session.                                                  *)

Stages == {"login", "read", "snapshot", "broken", "exec", "quit", "replied", "close"}

\* The stage of the coroutine: on its thread, or where it yielded.
Stage(c) ==
  LET running == {t \in Thread : cur[t] = c /\ pc[t] \in Stages}
  IN  IF running = {} THEN at[c] ELSE pc[CHOOSE t \in running : TRUE]

StatusOfStage ==
  [login |-> "login", read |-> "ready", broken |-> "ready", quit |-> "ready", snapshot |-> "command",
   exec |-> "command", replied |-> "answered", close |-> "closing"]

Status(c) ==
  IF state[c] = "none" THEN "absent"
  ELSE IF state[c] = "deleted" THEN "gone"
  ELSE IF state[c] = "new" THEN "login"
  ELSE IF coro_status[c] = "empty" THEN "ready"
  ELSE StatusOfStage[Stage(c)]

S == INSTANCE Session WITH
       status <- [c \in Conn |-> Status(c)],
       taken <- [c \in Conn |-> sent[c] - unread[c]],
       answered <- replied

\* A connection behaves as one sequential session although its coroutines
\* are resumed by whichever thread finds them.
ImplementsSession == S!Spec

\* Every packet is answered, unless its connection goes away.
EveryPacketAnswered ==
  \A c \in Conn : (sent[c] > replied[c]) ~> (sent[c] = replied[c] \/ state[c] = "deleted")

\* A connection whose client is gone, or that was killed, is removed.
DeadConnectionRemoved == \A c \in Conn : (hup[c] \/ killed[c]) ~> (state[c] = "deleted")
=============================================================================
