-------------------------- MODULE ConnSched_proofs --------------------------
(***************************************************************************)
(* Proofs about ConnSched, for any number of connections and threads and   *)
(* without bound on requests, yields and kills: a connection is never      *)
(* scheduled twice, never held by two threads and never forgotten, and     *)
(* only SQL threads run a coroutine that blocks (tp_callback(),            *)
(* start_io(), wait_begin() and CoroutineResume() of                       *)
(* sql/threadpool_common.cc and sql/threadpool_generic.cc).                *)
(***************************************************************************)
EXTENDS ConnSched, TLAPS

-----------------------------------------------------------------------------
(* The inductive invariant, and the steps that keep every connection in    *)
(* its place: most of tp_callback() and the coroutines work on a connection*)
(* that stays on its thread.                                               *)

\* Steps of tp_callback() and of the coroutines between Enter and the return
\* from tp_callback().
BusyLabels == {"login", "read", "snapshot", "broken", "exec", "quit", "replied", "close", "wait",
               "idle", "start_io", "recount", "requeue"}

\* No event of a connection exists before start_io() has bound it.
UnboundSilent ==
  \A c \in Conn : ~bound[c] => ~watched[c] /\ ~ready[c] /\ \A t \in Thread : c \notin polled[t]

\* The timer only decides about connections that have logged in and exist.
TimerOfLive == \A c \in Conn : timer[c] # "none" => state[c] \notin {"none", "new", "deleted"}

\* being_processed_ is set from Enter until Release.
HeldIsProcessed == \A t \in Thread : cur[t] # NoConn /\ pc[t] # "enter" => being_processed[cur[t]]

\* A thread holds no connection that was deleted.
HeldIsAlive == \A t \in Thread : cur[t] # NoConn => Alive(cur[t])

Bookkeeping == TypeOK /\ UnboundSilent /\ TimerOfLive

Placed == AtMostOneContinuation /\ OneThreadPerConnection /\ HeldIsProcessed /\ HeldIsAlive

\* The inductive invariant.
IInv == Bookkeeping /\ Placed

\* A step that moves no connection to another place.
Quiet ==
  /\ UNCHANGED << queueVars, cur, batch, tx_pending >>
  /\ \A u \in Thread :
       \/ pc'[u] = pc[u]
       \/ pc[u] \notin {"enter", "release", "yield"} /\ pc'[u] \notin {"enter", "release", "yield"}
       \/ pc[u] = "enter" /\ pc'[u] \in BusyLabels /\ being_processed'[cur[u]]
  /\ \A d \in Conn : being_processed[d] => being_processed'[d]
  /\ \A d \in Conn : (Alive(d)' <=> Alive(d)) /\ (CanSignal(d)' => CanSignal(d))

\* A step of thread t inside tp_callback() or a coroutine of c, c staying on t.
WorksOn(t, c) ==
  /\ cur[t] = c /\ pc[t] \in BusyLabels \cup {"enter"}
  /\ \E l \in BusyLabels : Goto(t, l)
  /\ \/ being_processed' = [being_processed EXCEPT ![c] = TRUE]
     \/ pc[t] # "enter" /\ UNCHANGED being_processed
  /\ \/ UNCHANGED state
     \/ \E s \in {"connecting", "running", "idle", "closing"} : state' = [state EXCEPT ![c] = s]
  /\ UNCHANGED epoll_events \/ epoll_events' = [epoll_events EXCEPT ![c] = 1]
  /\ UNCHANGED watched \/ watched' = [watched EXCEPT ![c] = FALSE]
  /\ UNCHANGED ready \/ ready' = [ready EXCEPT ![c] = FALSE]
  /\ UNCHANGED << queueVars, cur, batch, polled, tx_pending, bound, timer >>

\* What a step does at most to a connection that it does not move.
Untouched(d) ==
  /\ req_queue'[d] \in {0, req_queue[d]}
  /\ resume_queue'[d] \in {0, resume_queue[d]}
  /\ sql_native_queue'[d] \in {0, sql_native_queue[d]}
  /\ \A u \in Thread : batch'[u][d] \in {0, batch[u][d]}
  /\ \A u \in Thread : cur'[u] = d /\ pc'[u] \notin {"release", "yield"}
                         => cur[u] = d /\ pc[u] \notin {"release", "yield"}
  /\ tx_pending'[d] => tx_pending[d]
  /\ CanSignal(d)' => CanSignal(d)
  /\ Alive(d) => Alive(d)'

\* A connection on a thread is nowhere else, and on no other thread.
LEMMA OnThread ==
  ASSUME Placed, NEW t \in Thread, NEW c \in Conn, cur[t] = c, pc[t] \notin {"release", "yield"}
  PROVE  /\ req_queue[c] = 0 /\ resume_queue[c] = 0 /\ sql_native_queue[c] = 0
         /\ \A u \in Thread : batch[u][c] = 0
         /\ \A u \in Thread : cur[u] = c => u = t
         /\ ~tx_pending[c] /\ ~CanSignal(c) /\ Alive(c)
<1>1. PICK k \in Kinds, h \in Thread \cup {NoConn} : OnlyAt(c, k, h)
  BY Zenon DEF Placed, AtMostOneContinuation
<1>2. k = "thread" /\ h = t
  BY <1>1, Zenon DEF OnlyAt
<1>3. \A u \in Thread : cur[u] = c => u = t
  BY SchedAssumption, Zenon DEF Placed, OneThreadPerConnection
<1> QED  BY <1>1, <1>2, <1>3, Zenon DEF OnlyAt

\* No thread lets go of its connection, and none begins to process one.
Holding ==
  /\ UNCHANGED cur
  /\ \A u \in Thread : pc'[u] # "enter" => pc[u] # "enter" \/ cur[u] = NoConn
  /\ \A d \in Conn : being_processed[d] => being_processed'[d]
  /\ \A d \in Conn : Alive(d) => Alive(d)'

\* Thread t lets go of c; what else the step changes is about c.
LetsGo(t, c) ==
  /\ cur[t] = c /\ cur' = [cur EXCEPT ![t] = NoConn]
  /\ \A u \in Thread \ {t} : pc'[u] = pc[u]
  /\ \A d \in Conn \ {c} : being_processed'[d] = being_processed[d] /\ state'[d] = state[d]

-----------------------------------------------------------------------------
(* The steps that move a connection from one place to another: each takes  *)
(* it away from where it was before it appears elsewhere.                  *)

\* Thread t leaves c to somebody else but holds it until Release.
HandsOn(t, c) ==
  /\ cur[t] = c /\ pc[t] \in BusyLabels
  /\ \E l \in {"release", "yield"} : Goto(t, l)
  /\ UNCHANGED << state, being_processed, cur, batch >>

-----------------------------------------------------------------------------
(* Counting.                                                               *)

\* What the proofs use of a count that is zero or one.
LEMMA ZeroOne ==
  0 # 1 /\ 0 + 0 = 0 /\ 0 + 1 = 1 /\ 1 - 1 = 0 /\ 1 > 0 /\ ~(0 > 0) /\ 0 \in Nat /\ 1 \in Nat
  OBVIOUS

\* What the proofs use of any count, of queue entries or events.
LEMMA Positive ==
  \A n \in Nat : /\ (n > 0 => n # 0) /\ (n # 0 => n > 0)
                 /\ n + 1 \in Nat /\ n + 1 # 0 /\ n + 1 > 0
                 /\ (n > 0 => n - 1 \in Nat)
  OBVIOUS

\* What the proofs use of two counts.
LEMMA Compared ==
  \A m, n \in Nat : /\ ~(m > m) /\ (m >= n /\ m # n => m > n)
                    /\ (m >= n => m + 1 >= n /\ m + 1 > n)
  OBVIOUS

\* What the proofs use of two queues that are joined.
LEMMA Summed ==
  \A m, n \in Nat : /\ m + n \in Nat /\ (m > 0 => m + n > 0)
                    /\ (n > 0 => m + n > 0)
  OBVIOUS

-----------------------------------------------------------------------------
(* Types, one lemma per group of actions.                                  *)

\* The initial state has the declared types.
LEMMA InitTypeOK == Init => TypeOK
  BY SchedAssumption DEF Init, TypeOK, Labels, Empty, Worker, Thread, ConnTypes, CoroTypes, QueueTypes,
     ThreadTypes, SockTypes, ClientTypes, BoundTypes

\* Every step keeps the types.
LEMMA NextTypeOK == TypeOK /\ [Next]_vars => TypeOK'
\* One more entry in a queue.
<1>AddType.
  ASSUME NEW q \in [Conn -> Nat], NEW c \in Conn
  PROVE  Add(q, c) \in [Conn -> Nat]
  BY <1>AddType, ZeroOne, Positive, Zenon DEF Add
\* Clients, the timer and the transaction service keep the types.
<1>EnvironmentTypeOK.
  ASSUME TypeOK, NEW c \in Conn, Environment(c) \/ Resume(c)
  PROVE  TypeOK'
  <2> USE <1>EnvironmentTypeOK
  <2> USE DEF connVars, coroVars, queueVars, threadVars, sockVars, clientVars, boundVars
  <2>1. CASE AddConnection(c)
    BY <2>1, ZeroOne, Positive, Zenon DEF AddConnection, TypeOK, Add, ConnTypes, CoroTypes, QueueTypes,
       ThreadTypes, SockTypes, ClientTypes, BoundTypes
  <2>2. CASE ClientSend(c)
    BY <2>2, ZeroOne, Positive, Zenon DEF ClientSend, Signal, TypeOK, ConnTypes, CoroTypes, QueueTypes,
       ThreadTypes, SockTypes, ClientTypes, BoundTypes
  <2>3. CASE ClientClose(c)
    BY <2>3, Zenon DEF ClientClose, Signal, TypeOK, ConnTypes, CoroTypes, QueueTypes, ThreadTypes,
       SockTypes, ClientTypes, BoundTypes
  <2>4. CASE Kill(c)
    BY <2>4, Zenon DEF Kill, Signal, TypeOK, ConnTypes, CoroTypes, QueueTypes, ThreadTypes, SockTypes,
       ClientTypes, BoundTypes
  <2>5. CASE TimeoutCheck(c)
    BY <2>5, ZeroOne, Positive, Zenon DEF TimeoutCheck, TypeOK, ConnTypes, CoroTypes, QueueTypes,
       ThreadTypes, SockTypes, ClientTypes, BoundTypes
  <2>6. CASE TimeoutPending(c)
    BY <2>6, Zenon DEF TimeoutPending, TypeOK, ConnTypes, CoroTypes, QueueTypes, ThreadTypes, SockTypes,
       ClientTypes, BoundTypes
  <2>7. CASE TimeoutKill(c)
    BY <2>7, Zenon DEF TimeoutKill, Signal, TypeOK, ConnTypes, CoroTypes, QueueTypes, ThreadTypes,
       SockTypes, ClientTypes, BoundTypes
  <2>8. CASE Resume(c)
    <3>1. tx_pending' \in [Conn -> BOOLEAN]
      BY <2>8, Zenon DEF Resume, TypeOK, CoroTypes
    <3>2. sql_native_queue' \in [Conn -> Nat]
      <4>1. sql_native_queue' = Add(sql_native_queue, c) \/ sql_native_queue' = sql_native_queue
        BY <2>8, Zenon DEF Resume
      <4>2. Add(sql_native_queue, c) \in [Conn -> Nat]
        BY <1>AddType, Zenon DEF TypeOK, QueueTypes
      <4> QED  BY <4>1, <4>2, Zenon DEF TypeOK, QueueTypes
    <3>3. resume_queue' \in [Conn -> Nat]
      BY <2>8, ZeroOne, Positive, ZenonT(40) DEF Resume, TypeOK, Add, QueueTypes
    <3>4. UNCHANGED << coro_status, coro_ret, need_sql_thd, at, in_error, req_queue, connVars, threadVars, sockVars, clientVars, boundVars >>
      BY <2>8, Zenon DEF Resume
    <3> QED  BY <3>1, <3>2, <3>3, <3>4, Zenon DEF TypeOK, ConnTypes, CoroTypes, QueueTypes, ThreadTypes,
                SockTypes, ClientTypes, BoundTypes
  <2> QED  BY <2>1, <2>2, <2>3, <2>4, <2>5, <2>6, <2>7, <2>8, Zenon DEF Environment
\* tp_callback() up to the coroutine keeps the types.
<1>EnterTypeOK.
  ASSUME TypeOK, NEW t \in Thread, NEW c \in Conn, Enter(t, c)
  PROVE  TypeOK'
  <2> USE <1>EnterTypeOK
  <2> USE DEF connVars, coroVars, queueVars, threadVars, sockVars, clientVars, boundVars
  <2>1. CASE LoginImpossible(t, c)
    BY <2>1, Zenon DEF LoginImpossible, TypeOK, Goto, Labels, ConnTypes, CoroTypes, QueueTypes, ThreadTypes,
       SockTypes, ClientTypes, BoundTypes
  <2>2. CASE StartLogin(t, c)
    BY <2>2, Zenon DEF StartLogin, TypeOK, Goto, Labels, ConnTypes, CoroTypes, QueueTypes, ThreadTypes,
       SockTypes, ClientTypes, BoundTypes
  <2>3. CASE ResumeLoginOrClose(t, c)
    BY <2>3, Zenon DEF ResumeLoginOrClose, ResumeAt, TypeOK, Goto, Labels, ConnTypes, CoroTypes, QueueTypes,
       ThreadTypes, SockTypes, ClientTypes, BoundTypes
  <2>4. CASE KilledWhileIdle(t, c)
    BY <2>4, Zenon DEF KilledWhileIdle, BeginClose, TypeOK, Goto, Labels, ConnTypes, CoroTypes, QueueTypes,
       ThreadTypes, SockTypes, ClientTypes, BoundTypes
  <2>5. CASE StartCommand(t, c)
    BY <2>5, Zenon DEF StartCommand, TypeOK, Goto, Labels, ConnTypes, CoroTypes, QueueTypes, ThreadTypes,
       SockTypes, ClientTypes, BoundTypes
  <2>6. CASE ResumeCommand(t, c)
    BY <2>6, Zenon DEF ResumeCommand, ResumeAt, TypeOK, Goto, Labels, ConnTypes, CoroTypes, QueueTypes,
       ThreadTypes, SockTypes, ClientTypes, BoundTypes
  <2> QED  BY <2>1, <2>2, <2>3, <2>4, <2>5, <2>6, Zenon DEF Enter
\* The coroutines keep the types.
<1>ExecuteTypeOK.
  ASSUME TypeOK, NEW t \in Thread, NEW c \in Conn, Execute(t, c)
  PROVE  TypeOK'
  <2> USE <1>ExecuteTypeOK
  <2> USE DEF connVars, coroVars, queueVars, threadVars, sockVars, clientVars, boundVars
  <2>1. CASE ReadPacket(t, c)
    BY <2>1, ZeroOne, Positive, Zenon DEF ReadPacket, TypeOK, Goto, Labels, ConnTypes, CoroTypes,
       QueueTypes, ThreadTypes, SockTypes, ClientTypes, BoundTypes
  <2>2. CASE ReadError(t, c)
    BY <2>2, Zenon DEF ReadError, TypeOK, Goto, Labels, ConnTypes, CoroTypes, QueueTypes, ThreadTypes,
       SockTypes, ClientTypes, BoundTypes
  <2>3. CASE TakeSnapshot(t, c)
    BY <2>3, Zenon DEF TakeSnapshot, TypeOK, Goto, Labels, ConnTypes, CoroTypes, QueueTypes, ThreadTypes,
       SockTypes, ClientTypes, BoundTypes
  <2>4. CASE Reply(t, c)
    BY <2>4, ZeroOne, Positive, Zenon DEF Reply, TypeOK, Goto, Labels, ConnTypes, CoroTypes, QueueTypes,
       ThreadTypes, SockTypes, ClientTypes, BoundTypes
  <2>5. CASE Quit(t, c)
    BY <2>5, Zenon DEF Quit, BeginClose, TypeOK, Goto, Labels, ConnTypes, CoroTypes, QueueTypes,
       ThreadTypes, SockTypes, ClientTypes, BoundTypes
  <2>6. CASE FinishDead(t, c)
    BY <2>6, Zenon DEF FinishDead, BeginClose, TypeOK, Goto, Labels, ConnTypes, CoroTypes, QueueTypes,
       ThreadTypes, SockTypes, ClientTypes, BoundTypes
  <2>7. CASE FinishCommand(t, c)
    BY <2>7, Zenon DEF FinishCommand, TypeOK, Goto, Labels, ConnTypes, CoroTypes, QueueTypes, ThreadTypes,
       SockTypes, ClientTypes, BoundTypes
  <2>8. CASE LoginDone(t, c)
    BY <2>8, Zenon DEF LoginDone, TypeOK, Goto, Labels, ConnTypes, CoroTypes, QueueTypes, ThreadTypes,
       SockTypes, ClientTypes, BoundTypes
  <2>9. CASE LoginFailed(t, c)
    BY <2>9, Zenon DEF LoginFailed, BeginClose, TypeOK, Goto, Labels, ConnTypes, CoroTypes, QueueTypes,
       ThreadTypes, SockTypes, ClientTypes, BoundTypes
  <2>10. CASE CloseDone(t, c)
    <3>1. coro_status' \in [Conn -> {"empty", "ongoing"}]
      BY <2>10, Zenon DEF CloseDone, TypeOK, CoroTypes
    <3>2. state' \in [Conn -> {"none", "new", "connecting", "running", "idle", "pending", "closing", "deleted"}]
      BY <2>10, Zenon DEF CloseDone, TypeOK, ConnTypes
    <3>3. cur' \in [Thread -> Conn \cup {NoConn}]
      BY <2>10, Zenon DEF CloseDone, TypeOK, ThreadTypes
    <3>4. pc' \in [Thread -> Labels]
      <4>1. \E l \in Labels : Goto(t, l)
        BY <2>10, Zenon DEF CloseDone, TypeOK, Labels, ThreadTypes
      <4> QED  BY <4>1, Zenon DEF TypeOK, Goto, ThreadTypes
    <3>5. UNCHANGED << killed, bound, epoll_events, events_snapshot, being_processed, coro_ret, need_sql_thd, at, in_error, tx_pending, batch, polled, queueVars, sockVars, clientVars, boundVars >>
      BY <2>10, Zenon DEF CloseDone
    <3> QED  BY <3>1, <3>2, <3>3, <3>4, <3>5, Zenon DEF TypeOK, ConnTypes, CoroTypes, QueueTypes,
                ThreadTypes, SockTypes, ClientTypes, BoundTypes
  <2>11. CASE WaitEnd(t, c)
    BY <2>11, Zenon DEF WaitEnd, TypeOK, Goto, Labels, ConnTypes, CoroTypes, QueueTypes, ThreadTypes,
       SockTypes, ClientTypes, BoundTypes
  <2> QED  BY <2>1, <2>2, <2>3, <2>4, <2>5, <2>6, <2>7, <2>8, <2>9, <2>10, <2>11, Zenon DEF Execute
\* Yields and wait sections keep the types.
<1>YieldTypeOK.
  ASSUME TypeOK, NEW t \in Thread, NEW c \in Conn, Yield(t, c)
  PROVE  TypeOK'
  <2> USE <1>YieldTypeOK
  <2> USE DEF connVars, coroVars, queueVars, threadVars, sockVars, clientVars, boundVars
  <2>1. CASE YieldToTx(t, c)
    BY <2>1, ZeroOne, Positive, Zenon DEF YieldToTx, CanYield, TypeOK, Goto, Labels, ConnTypes, CoroTypes,
       QueueTypes, ThreadTypes, SockTypes, ClientTypes, BoundTypes
  <2>2. CASE YieldToQueue(t, c)
    <3>1. sql_native_queue' \in [Conn -> Nat]
      <4>1. sql_native_queue' = Add(sql_native_queue, c) \/ sql_native_queue' = sql_native_queue
        BY <2>2, Zenon DEF YieldToQueue
      <4>2. Add(sql_native_queue, c) \in [Conn -> Nat]
        BY <1>AddType, Zenon DEF TypeOK, QueueTypes
      <4> QED  BY <4>1, <4>2, Zenon DEF TypeOK, QueueTypes
    <3>2. req_queue' \in [Conn -> Nat]
      BY <2>2, ZeroOne, Positive, Zenon DEF YieldToQueue, CanYield, TypeOK, Add, QueueTypes
    <3>3. at' \in [Conn -> {"login", "exec", "replied", "close"}]
      BY <2>2, Zenon DEF YieldToQueue, CanYield, TypeOK, CoroTypes
    <3>4. pc' \in [Thread -> Labels]
      BY <2>2, Zenon DEF YieldToQueue, CanYield, TypeOK, Goto, Labels, ThreadTypes
    <3>5. yields' \in [Conn -> Nat]
      BY <2>2, ZeroOne, Positive, Zenon DEF YieldToQueue, CanYield, TypeOK, BoundTypes
    <3>6. UNCHANGED << coro_status, coro_ret, need_sql_thd, in_error, tx_pending, resume_queue, cur, batch, polled, timeouts, timer, connVars, sockVars, clientVars >>
      BY <2>2, Zenon DEF YieldToQueue, CanYield
    <3> QED  BY <3>1, <3>2, <3>3, <3>4, <3>5, <3>6, Zenon DEF TypeOK, ConnTypes, CoroTypes, QueueTypes,
                ThreadTypes, SockTypes, ClientTypes, BoundTypes
  <2>3. CASE WaitBegin(t, c)
    BY <2>3 DEF WaitBegin, CanYield, TypeOK, Goto, Empty, Labels, ConnTypes, CoroTypes, QueueTypes,
       ThreadTypes, SockTypes, ClientTypes, BoundTypes
  <2>4. CASE WaitBeginExt(t, c)
    BY <2>4, ZeroOne, Positive, Zenon DEF WaitBeginExt, CanYield, TypeOK, Goto, Add, Labels, ConnTypes,
       CoroTypes, QueueTypes, ThreadTypes, SockTypes, ClientTypes, BoundTypes
  <2> QED  BY <2>1, <2>2, <2>3, <2>4, Zenon DEF Yield
\* tp_callback() after the coroutine keeps the types.
<1>LeaveTypeOK.
  ASSUME TypeOK, NEW t \in Thread, NEW c \in Conn, Leave(t, c)
  PROVE  TypeOK'
  <2> USE <1>LeaveTypeOK
  <2> USE DEF connVars, coroVars, queueVars, threadVars, sockVars, clientVars, boundVars
  <2>1. CASE SetIdle(t, c)
    BY <2>1, Zenon DEF SetIdle, TypeOK, Goto, Labels, ConnTypes, CoroTypes, QueueTypes, ThreadTypes,
       SockTypes, ClientTypes, BoundTypes
  <2>2. CASE Bind(t, c)
    <3>1. bound' \in [Conn -> BOOLEAN]
      BY <2>2, Zenon DEF Bind, BeginClose, TypeOK, ConnTypes
    <3>2. epoll_events' \in [Conn -> Nat]
      BY <2>2, Zenon DEF Bind, BeginClose, TypeOK, Add, ConnTypes
    <3>3. events_snapshot' \in [Conn -> Nat]
      BY <2>2, Zenon DEF Bind, BeginClose, TypeOK, ConnTypes
    <3>4. state' \in [Conn -> {"none", "new", "connecting", "running", "idle", "pending", "closing", "deleted"}]
      BY <2>2, Zenon DEF Bind, BeginClose, TypeOK, ConnTypes
    <3>5. coro_status' \in [Conn -> {"empty", "ongoing"}]
      <4>1. coro_status' = coro_status \/ coro_status' = [coro_status EXCEPT ![c] = "ongoing"]
        BY <2>2, Zenon DEF Bind, BeginClose, coroVars
      <4> QED  BY <4>1, Zenon DEF TypeOK, CoroTypes
    <3>6. coro_ret' \in [Conn -> {"success", "close"}]
      <4>1. coro_ret' = coro_ret \/ coro_ret' = [coro_ret EXCEPT ![c] = coro_ret[c]]
        BY <2>2, Zenon DEF Bind, BeginClose, coroVars
      <4> QED  BY <4>1, ZenonT(40) DEF TypeOK, CoroTypes
    <3>7. watched' \in [Conn -> BOOLEAN]
      BY <2>2, Zenon DEF Bind, BeginClose, TypeOK, SockTypes
    <3>8. ready' \in [Conn -> BOOLEAN]
      BY <2>2, Zenon DEF Bind, BeginClose, TypeOK, SockTypes
    <3>9. in_error' \in [Conn -> BOOLEAN]
      <4>1. in_error' = in_error \/ in_error' = [in_error EXCEPT ![c] = TRUE]
        BY <2>2, Zenon DEF Bind, BeginClose, coroVars
      <4> QED  BY <4>1, Zenon DEF TypeOK, CoroTypes
    <3>10. pc' \in [Thread -> Labels]
      <4>1. \E l \in Labels : Goto(t, l)
        BY <2>2, Zenon DEF Bind, BeginClose, TypeOK, Labels, ThreadTypes
      <4> QED  BY <4>1, Zenon DEF TypeOK, Goto, ThreadTypes
    <3>11. UNCHANGED << killed, being_processed, need_sql_thd, at, tx_pending, cur, batch, polled, unread, hup, queueVars, clientVars, boundVars >>
      BY <2>2, Zenon DEF Bind, BeginClose
    <3> QED  BY <3>1, <3>2, <3>3, <3>4, <3>5, <3>6, <3>7, <3>8, <3>9, <3>10, <3>11, Zenon DEF TypeOK,
                ConnTypes, CoroTypes, QueueTypes, ThreadTypes, SockTypes, ClientTypes, BoundTypes
  <2>3. CASE StartIO(t, c)
    <3>1. epoll_events' \in [Conn -> Nat]
      <4>1. epoll_events' = epoll_events \/ epoll_events' = [epoll_events EXCEPT ![c] = 0]
        BY <2>3, Zenon DEF StartIO
      <4>2. [epoll_events EXCEPT ![c] = 0] \in [Conn -> Nat]
        BY Zenon DEF TypeOK, ConnTypes
      <4> QED  BY <4>1, <4>2, Zenon DEF TypeOK, ConnTypes
    <3>2. pc' \in [Thread -> Labels]
      <4>1. \E l \in Labels : Goto(t, l)
        BY <2>3, Zenon DEF StartIO, TypeOK, Labels, ThreadTypes
      <4> QED  BY <4>1, Zenon DEF TypeOK, Goto, ThreadTypes
    <3>3. UNCHANGED << state, killed, bound, events_snapshot, being_processed, cur, batch, polled, coroVars, queueVars, sockVars, clientVars, boundVars >>
      BY <2>3, Zenon DEF StartIO
    <3> QED  BY <3>1, <3>2, <3>3, Zenon DEF TypeOK, ConnTypes, CoroTypes, QueueTypes, ThreadTypes,
                SockTypes, ClientTypes, BoundTypes
  <2>4. CASE Recount(t, c)
    BY <2>4, Zenon DEF Recount, TypeOK, Goto, Labels, ConnTypes, CoroTypes, QueueTypes, ThreadTypes,
       SockTypes, ClientTypes, BoundTypes
  <2>5. CASE Requeue(t, c)
    BY <2>5, ZeroOne, Positive, Zenon DEF Requeue, TypeOK, Goto, Add, Labels, ConnTypes, CoroTypes,
       QueueTypes, ThreadTypes, SockTypes, ClientTypes, BoundTypes
  <2>6. CASE Release(t, c)
    BY <2>6, Zenon DEF Release, TypeOK, Goto, Labels, ConnTypes, CoroTypes, QueueTypes, ThreadTypes,
       SockTypes, ClientTypes, BoundTypes
  <2> QED  BY <2>1, <2>2, <2>3, <2>4, <2>5, <2>6, Zenon DEF Leave
\* Taking connections from the queues and events from the kernel keeps the types.
<1>DispatchTypeOK.
  ASSUME TypeOK, NEW t \in Thread, Dispatch(t)
  PROVE  TypeOK'
  <2> USE <1>DispatchTypeOK
  <2> USE DEF connVars, coroVars, queueVars, threadVars, sockVars, clientVars, boundVars
  <2>1. CASE GetNative(t)
    BY <2>1 DEF GetNative, TakeFrom, TypeOK, Goto, Empty, Labels, ConnTypes, CoroTypes, QueueTypes,
       ThreadTypes, SockTypes, ClientTypes, BoundTypes
  <2>2. CASE GetResumed(t)
    BY <2>2, Zenon DEF GetResumed, TakeAll, TypeOK, Goto, Empty, Labels, ConnTypes, CoroTypes, QueueTypes,
       ThreadTypes, SockTypes, ClientTypes, BoundTypes
  <2>3. CASE GetRequests(t)
    BY <2>3, Zenon DEF GetRequests, TakeAll, TypeOK, Goto, Empty, Labels, ConnTypes, CoroTypes, QueueTypes,
       ThreadTypes, SockTypes, ClientTypes, BoundTypes
  <2>4. CASE GetNothing(t)
    BY <2>4, Zenon DEF GetNothing, TypeOK, Goto, Empty, Labels, ConnTypes, CoroTypes, QueueTypes,
       ThreadTypes, SockTypes, ClientTypes, BoundTypes
  <2>5. CASE EndOfBatch(t)
    BY <2>5, Zenon DEF EndOfBatch, TypeOK, Goto, Empty, Labels, ConnTypes, CoroTypes, QueueTypes,
       ThreadTypes, SockTypes, ClientTypes, BoundTypes
  <2>6. CASE Poll(t)
    BY <2>6, Zenon DEF Poll, TypeOK, Goto, Labels, ConnTypes, CoroTypes, QueueTypes, ThreadTypes, SockTypes,
       ClientTypes, BoundTypes
  <2>7. ASSUME NEW c \in Conn, Skip(t, c)  PROVE TypeOK'
    <3>1. batch' \in [Thread -> [Conn -> Nat]]
      BY <2>7, ZeroOne, Positive, Zenon DEF Skip, TypeOK, ThreadTypes
    <3>2. sql_native_queue' \in [Conn -> Nat]
      <4>1. sql_native_queue' = Add(sql_native_queue, c) \/ sql_native_queue' = sql_native_queue
        BY <2>7, Zenon DEF Skip
      <4>2. Add(sql_native_queue, c) \in [Conn -> Nat]
        BY <1>AddType, Zenon DEF TypeOK, QueueTypes
      <4> QED  BY <4>1, <4>2, Zenon DEF TypeOK, QueueTypes
    <3>3. resume_queue' \in [Conn -> Nat]
      <4>1. resume_queue' = Add(resume_queue, c) \/ resume_queue' = resume_queue
        BY <2>7, Zenon DEF Skip
      <4>2. Add(resume_queue, c) \in [Conn -> Nat]
        BY <1>AddType, Zenon DEF TypeOK, QueueTypes
      <4> QED  BY <4>1, <4>2, Zenon DEF TypeOK, QueueTypes
    <3>4. UNCHANGED << req_queue, pc, cur, polled, connVars, coroVars, sockVars, clientVars, boundVars >>
      BY <2>7, Zenon DEF Skip
    <3> QED  BY <3>1, <3>2, <3>3, <3>4, Zenon DEF TypeOK, ConnTypes, CoroTypes, QueueTypes, ThreadTypes,
                SockTypes, ClientTypes, BoundTypes
  <2>8. ASSUME NEW c \in Conn, Pick(t, c)  PROVE TypeOK'
    BY <2>8 DEF Pick, TypeOK, Goto, Labels, Worker, Thread, ConnTypes, CoroTypes, QueueTypes, ThreadTypes,
       SockTypes, ClientTypes, BoundTypes
  <2>9. ASSUME NEW c \in Conn, ApplyEvent(t, c)  PROVE TypeOK'
    <3>1. polled' \in [Thread -> SUBSET Conn]
      BY <2>9, Zenon DEF ApplyEvent, TypeOK, ThreadTypes
    <3>2. pc' \in [Thread -> Labels]
      BY <2>9, Zenon DEF ApplyEvent, TypeOK, Goto, Labels, Worker, Thread, ThreadTypes
    <3>3. epoll_events' \in [Conn -> Nat]
      <4>1. epoll_events' = Add(epoll_events, c) \/ epoll_events' = epoll_events
        BY <2>9, Zenon DEF ApplyEvent
      <4>2. Add(epoll_events, c) \in [Conn -> Nat]
        BY <1>AddType, Zenon DEF TypeOK, ConnTypes
      <4> QED  BY <4>1, <4>2, Zenon DEF TypeOK, ConnTypes
    <3>4. req_queue' \in [Conn -> Nat]
      BY <2>9 DEF ApplyEvent, TypeOK, Add, QueueTypes
    <3>5. UNCHANGED << state, killed, bound, events_snapshot, being_processed, resume_queue, sql_native_queue, cur, batch, coroVars, sockVars, clientVars, boundVars >>
      BY <2>9, Zenon DEF ApplyEvent
    <3> QED  BY <3>1, <3>2, <3>3, <3>4, <3>5, Zenon DEF TypeOK, ConnTypes, CoroTypes, QueueTypes,
                ThreadTypes, SockTypes, ClientTypes, BoundTypes
  <2> QED  BY <2>1, <2>2, <2>3, <2>4, <2>5, <2>6, <2>7, <2>8, <2>9, Zenon DEF Dispatch
<1> SUFFICES ASSUME TypeOK, [Next]_vars  PROVE TypeOK'
  BY Zenon
<1>1. ASSUME NEW t \in Thread, Process(t)  PROVE TypeOK'
  BY <1>1, <1>EnterTypeOK, <1>ExecuteTypeOK, <1>YieldTypeOK, <1>LeaveTypeOK, Zenon DEF Process
<1>2. ASSUME NEW t \in Thread, Dispatch(t)  PROVE TypeOK'
  BY <1>2, <1>DispatchTypeOK, Zenon
<1>3. ASSUME NEW c \in Conn, Environment(c) \/ Resume(c)  PROVE TypeOK'
  BY <1>3, <1>EnvironmentTypeOK, Zenon
<1>4. CASE UNCHANGED vars
  BY <1>4, Zenon DEF vars, connVars, coroVars, queueVars, threadVars, sockVars, clientVars, boundVars,
     TypeOK, ConnTypes, CoroTypes, QueueTypes, ThreadTypes, SockTypes, ClientTypes, BoundTypes
<1> QED  BY <1>1, <1>2, <1>3, <1>4, Zenon DEF Next

\* Type correctness: whatever the number of threads and connections, the
\* counters of a connection stay natural numbers and the steps, states and
\* queues of the scheduler stay within their declared ranges.
THEOREM TypeCorrect == Spec => []TypeOK
<1>1. Init => TypeOK
  BY InitTypeOK, Zenon
<1>2. TypeOK /\ [Next]_vars => TypeOK'
  BY NextTypeOK, Zenon
<1> QED  BY <1>1, <1>2, PTL DEF Spec

-----------------------------------------------------------------------------
(* At most one continuation: the invariant holds.                          *)

\* The invariant holds at first: every connection is nowhere.
LEMMA InitInvariant == Init => IInv
<1> SUFFICES ASSUME Init  PROVE IInv
  BY Zenon
<1>1. Bookkeeping
  BY InitTypeOK, Zenon DEF Init, Bookkeeping, UnboundSilent, TimerOfLive
<1>2. ASSUME NEW c \in Conn  PROVE OnlyAt(c, "nowhere", NoConn)
  <2>1. ~CanSignal(c)
    BY Zenon DEF Init, CanSignal
  <2>2. \A t \in Thread : batch[t][c] = 0 /\ cur[t] # c
    BY SchedAssumption, Zenon DEF Init, Empty
  <2>3. req_queue[c] = 0 /\ resume_queue[c] = 0 /\ sql_native_queue[c] = 0 /\ ~tx_pending[c]
    BY Zenon DEF Init, Empty
  <2> QED  BY <2>1, <2>2, <2>3, ZeroOne, Positive, Zenon DEF OnlyAt
<1>3. AtMostOneContinuation
  BY <1>2, Zenon DEF AtMostOneContinuation, Kinds
<1> QED  BY <1>1, <1>3, Zenon DEF Init, IInv, Placed, OneThreadPerConnection, HeldIsProcessed, HeldIsAlive

\* The invariant is inductive.
LEMMA NextInvariant == IInv /\ [Next]_vars => IInv'
\* A quiet step keeps every connection in its place.
<1>QuietKeepsPlaces.
  ASSUME TypeOK, Placed, Quiet
  PROVE  Placed'
  <2> USE <1>QuietKeepsPlaces
  <2>1. AtMostOneContinuation'
    <3> SUFFICES ASSUME NEW d \in Conn
                 PROVE  \E k \in Kinds, h \in Thread \cup {NoConn} : OnlyAt(d, k, h)'
      BY Zenon DEF AtMostOneContinuation
    <3>1. PICK k \in Kinds, h \in Thread \cup {NoConn} : OnlyAt(d, k, h)
      BY Zenon DEF Placed, AtMostOneContinuation
    <3>2. \A u \in Thread : cur'[u] = d /\ pc'[u] \notin {"release", "yield"}
            => cur[u] = d /\ pc[u] \notin {"release", "yield"}
      BY Zenon DEF Quiet
    <3>3. OnlyAt(d, k, h)'
      BY <3>1, <3>2, Zenon DEF Quiet, OnlyAt, queueVars
    <3> QED  BY <3>3, Zenon
  <2>2. OneThreadPerConnection'
    BY Zenon DEF Placed, Quiet, OneThreadPerConnection
  <2>3. HeldIsProcessed'
    <3> SUFFICES ASSUME NEW t \in Thread, cur'[t] # NoConn, pc'[t] # "enter"
                 PROVE  being_processed'[cur'[t]]
      BY Zenon DEF HeldIsProcessed
    <3>1. cur'[t] = cur[t] /\ cur[t] \in Conn
      BY Zenon DEF TypeOK, Quiet, ThreadTypes
    <3>2. CASE pc[t] # "enter"
      BY <3>1, <3>2, Zenon DEF Placed, HeldIsProcessed, Quiet
    <3> QED  BY <3>1, <3>2, Zenon DEF Quiet
  <2>4. HeldIsAlive'
    <3>1. ASSUME NEW u \in Thread, cur[u] # NoConn  PROVE Alive(cur[u])'
      <4>1. cur[u] \in Conn /\ Alive(cur[u])
        BY <3>1, Zenon DEF Placed, HeldIsAlive, TypeOK, ThreadTypes
      <4> QED  BY <4>1, Zenon DEF Quiet
    <3> QED  BY <3>1, Zenon DEF HeldIsAlive, Quiet
  <2> QED  BY <2>1, <2>2, <2>3, <2>4, Zenon DEF Placed
\* A step that touches neither the sockets nor the timer keeps the books.
<1>SameBooks.
  ASSUME Bookkeeping, UNCHANGED << bound, watched, ready, polled, timer, state >>
  PROVE  UnboundSilent' /\ TimerOfLive'
  BY <1>SameBooks, Zenon DEF Bookkeeping, UnboundSilent, TimerOfLive
\* Work on a connection raises no event.
<1>WorkSilences.
  ASSUME TypeOK, NEW t \in Thread, NEW c \in Conn, WorksOn(t, c), NEW d \in Conn
  PROVE  (watched'[d] => watched[d]) /\ (ready'[d] => ready[d])
  <2> USE <1>WorkSilences
  <2>1. watched'[d] => watched[d]
    <3>1. CASE watched' = watched
      BY <3>1, Zenon
    <3>2. CASE watched' = [watched EXCEPT ![c] = FALSE]
      BY <3>2, Zenon DEF TypeOK, SockTypes
    <3> QED  BY <3>1, <3>2, Zenon DEF WorksOn
  <2>2. ready'[d] => ready[d]
    <3>1. CASE ready' = ready
      BY <3>1, Zenon
    <3>2. CASE ready' = [ready EXCEPT ![c] = FALSE]
      BY <3>2, Zenon DEF TypeOK, SockTypes
    <3> QED  BY <3>1, <3>2, Zenon DEF WorksOn
  <2> QED  BY <2>1, <2>2, Zenon
\* Work on a connection is a quiet step.
<1>WorkIsQuiet.
  ASSUME TypeOK, Placed, NEW t \in Thread, NEW c \in Conn, WorksOn(t, c)
  PROVE  Quiet
  <2> USE <1>WorkIsQuiet
  <2>1. \A u \in Thread :
          \/ pc'[u] = pc[u]
          \/ pc[u] \notin {"enter", "release", "yield"} /\ pc'[u] \notin {"enter", "release", "yield"}
          \/ pc[u] = "enter" /\ pc'[u] \in BusyLabels /\ being_processed'[cur[u]]
    <3>1. PICK l \in BusyLabels : pc' = [pc EXCEPT ![t] = l]
      BY Zenon DEF WorksOn, Goto
    <3>2. pc'[t] = l /\ \A u \in Thread \ {t} : pc'[u] = pc[u]
      BY <3>1, Zenon DEF TypeOK, ThreadTypes
    <3>3. pc[t] = "enter" => being_processed'[c]
      BY Zenon DEF WorksOn, TypeOK, ConnTypes
    <3> QED  BY <3>2, <3>3, Zenon DEF WorksOn, BusyLabels
  <2>2. \A d \in Conn : being_processed[d] => being_processed'[d]
    BY Zenon DEF WorksOn, TypeOK, ConnTypes
  <2>3. ASSUME NEW d \in Conn  PROVE Alive(d)' <=> Alive(d)
    <3>1. Alive(c)
      BY SchedAssumption, Zenon DEF WorksOn, Placed, HeldIsAlive
    <3>2. CASE UNCHANGED state
      BY <3>2, Zenon DEF Alive
    <3>3. ASSUME NEW s \in {"connecting", "running", "idle", "closing"}, state' = [state EXCEPT ![c] = s]
          PROVE  Alive(d)' <=> Alive(d)
      BY <3>1, <3>3, Zenon DEF Alive, TypeOK, ConnTypes
    <3> QED  BY <3>2, <3>3, Zenon DEF WorksOn
  <2>4. ASSUME NEW d \in Conn, CanSignal(d)'  PROVE CanSignal(d)
    <3>1. state'[d] # "deleted" => state[d] # "deleted"
      <4>1. Alive(c)
        BY SchedAssumption, Zenon DEF WorksOn, Placed, HeldIsAlive
      <4> QED  BY <4>1, Zenon DEF WorksOn, Alive, TypeOK, ConnTypes
    <3>2. epoll_events'[d] = 0 => epoll_events[d] = 0
      BY ZeroOne, Positive, Zenon DEF WorksOn, TypeOK, ConnTypes
    <3>3. (watched'[d] => watched[d]) /\ (ready'[d] => ready[d]) /\ polled' = polled
      BY <1>WorkSilences, Zenon DEF WorksOn
    <3> QED  BY <2>4, <3>1, <3>2, <3>3, Zenon DEF CanSignal
  <2> QED  BY <2>1, <2>2, <2>3, <2>4, Zenon DEF Quiet, WorksOn
\* The inductive invariant is preserved by work on a connection.
<1>WorkKeepsInvariant.
  ASSUME IInv, TypeOK', NEW t \in Thread, NEW c \in Conn, WorksOn(t, c)
  PROVE  IInv'
  <2> USE <1>WorkKeepsInvariant
  \* Work on a connection binds no socket and is no decision of the timer.
  <2>WorkKeepsBooks.
    ASSUME Bookkeeping, WorksOn(t, c)
    PROVE  UnboundSilent' /\ TimerOfLive'
    <3> USE <2>WorkKeepsBooks
    <3>1. UnboundSilent'
      <4>1. \A d \in Conn : (watched'[d] => watched[d]) /\ (ready'[d] => ready[d])
        BY <1>WorkSilences, Zenon DEF Bookkeeping
      <4> QED  BY <4>1, Zenon DEF WorksOn, Bookkeeping, UnboundSilent
    <3>2. TimerOfLive'
      <4>1. \A d \in Conn : state'[d] = state[d] \/ state'[d] \in {"connecting", "running", "idle", "closing"}
        BY Zenon DEF WorksOn, Bookkeeping, TypeOK, ConnTypes
      <4> QED  BY <4>1, Zenon DEF WorksOn, Bookkeeping, TimerOfLive
    <3> QED  BY <3>1, <3>2, Zenon
  <2>1. Placed'
    BY <1>WorkIsQuiet, <1>QuietKeepsPlaces, Zenon DEF IInv, Bookkeeping
  <2>2. UnboundSilent' /\ TimerOfLive'
    BY <2>WorkKeepsBooks, Zenon DEF IInv
  <2> QED  BY <2>1, <2>2, Zenon DEF IInv, Bookkeeping
\* Which steps are work on a connection.
<1>StepsThatWork.
  ASSUME TypeOK, NEW t \in Thread, NEW c \in Conn, cur[t] = c,
         \/ StartLogin(t, c) \/ ResumeLoginOrClose(t, c) \/ KilledWhileIdle(t, c) \/ StartCommand(t, c)
         \/ ResumeCommand(t, c) \/ ReadPacket(t, c) \/ ReadError(t, c) \/ TakeSnapshot(t, c)
         \/ Reply(t, c) \/ Quit(t, c) \/ FinishDead(t, c) \/ FinishCommand(t, c)
         \/ LoginDone(t, c) \/ LoginFailed(t, c) \/ WaitEnd(t, c) \/ SetIdle(t, c)
         \/ Recount(t, c)
  PROVE  WorksOn(t, c)
  <2> USE <1>StepsThatWork
  <2> USE DEF WorksOn, BusyLabels, connVars, coroVars, threadVars, sockVars, boundVars
  <2>1. CASE StartLogin(t, c)
    BY <2>1, Zenon DEF StartLogin
  <2>2. CASE ResumeLoginOrClose(t, c)
    BY <2>2, ZenonT(40) DEF ResumeLoginOrClose, ResumeAt, TypeOK, ConnTypes, CoroTypes, QueueTypes, ThreadTypes,
       SockTypes, BoundTypes
  <2>3. CASE KilledWhileIdle(t, c)
    BY <2>3, Zenon DEF KilledWhileIdle, BeginClose, Commandable
  <2>4. CASE StartCommand(t, c)
    BY <2>4, Zenon DEF StartCommand, Commandable
  <2>5. CASE ResumeCommand(t, c)
    BY <2>5, ZenonT(40) DEF ResumeCommand, ResumeAt, Commandable, TypeOK, ConnTypes, CoroTypes, QueueTypes,
       ThreadTypes, SockTypes, BoundTypes
  <2>6. CASE ReadPacket(t, c)
    BY <2>6, Zenon DEF ReadPacket
  <2>7. CASE ReadError(t, c)
    BY <2>7, Zenon DEF ReadError
  <2>8. CASE TakeSnapshot(t, c)
    BY <2>8, Zenon DEF TakeSnapshot
  <2>9. CASE Reply(t, c)
    BY <2>9, Zenon DEF Reply
  <2>10. CASE Quit(t, c)
    BY <2>10, Zenon DEF Quit, BeginClose
  <2>11. CASE FinishDead(t, c)
    BY <2>11, Zenon DEF FinishDead, BeginClose
  <2>12. CASE FinishCommand(t, c)
    BY <2>12, Zenon DEF FinishCommand
  <2>13. CASE LoginDone(t, c)
    BY <2>13, Zenon DEF LoginDone
  <2>14. CASE LoginFailed(t, c)
    BY <2>14, Zenon DEF LoginFailed, BeginClose
  <2>15. CASE WaitEnd(t, c)
    BY <2>15, ZenonT(40) DEF WaitEnd, TypeOK, ConnTypes, CoroTypes, QueueTypes, ThreadTypes, SockTypes,
       BoundTypes
  <2>16. CASE SetIdle(t, c)
    BY <2>16, Zenon DEF SetIdle
  <2>17. CASE Recount(t, c)
    BY <2>17, Zenon DEF Recount
  <2> QED  BY <2>1, <2>2, <2>3, <2>4, <2>5, <2>6, <2>7, <2>8, <2>9, <2>10, <2>11, <2>12, <2>13, <2>14,
              <2>15, <2>16, <2>17, Zenon
\* If c gets a single place and no other connection moves, all have one.
<1>OneMoves.
  ASSUME AtMostOneContinuation, NEW c \in Conn, \A d \in Conn \ {c} : Untouched(d),
         \E k \in Kinds, h \in Thread \cup {NoConn} : OnlyAt(c, k, h)'
  PROVE  AtMostOneContinuation'
  <2> USE <1>OneMoves
  <2> SUFFICES ASSUME NEW d \in Conn, d # c
               PROVE  \E k \in Kinds, h \in Thread \cup {NoConn} : OnlyAt(d, k, h)'
    BY Zenon DEF AtMostOneContinuation
  <2>1. PICK k \in Kinds, h \in Thread \cup {NoConn} : OnlyAt(d, k, h)
    BY Zenon DEF AtMostOneContinuation
  <2>2. Untouched(d)
    BY Zenon
  <2>3. OnlyAt(d, k, h)'
    BY <2>1, <2>2 DEF OnlyAt, Untouched
  <2> QED  BY <2>3, Zenon
\* The same if no connection moves.
<1>NoneMoves.
  ASSUME AtMostOneContinuation, \A d \in Conn : Untouched(d)
  PROVE  AtMostOneContinuation'
  <2> USE <1>NoneMoves
  <2> SUFFICES ASSUME NEW d \in Conn
               PROVE  \E k \in Kinds, h \in Thread \cup {NoConn} : OnlyAt(d, k, h)'
    BY Zenon DEF AtMostOneContinuation
  <2>1. PICK k \in Kinds, h \in Thread \cup {NoConn} : OnlyAt(d, k, h)
    BY Zenon DEF AtMostOneContinuation
  <2>2. Untouched(d)
    BY Zenon
  <2>3. OnlyAt(d, k, h)'
    BY <2>1, <2>2 DEF OnlyAt, Untouched
  <2> QED  BY <2>3, Zenon
\* While nobody lets go, threads keep their own live connections.
<1>HoldingKeeps.
  ASSUME TypeOK, Placed, Holding
  PROVE  OneThreadPerConnection' /\ HeldIsProcessed' /\ HeldIsAlive'
  <2> USE <1>HoldingKeeps
  <2>1. OneThreadPerConnection'
    BY Zenon DEF Placed, Holding, OneThreadPerConnection
  <2>2. HeldIsProcessed'
    BY ZenonT(40) DEF TypeOK, Placed, Holding, HeldIsProcessed, ConnTypes, CoroTypes, QueueTypes, ThreadTypes,
       SockTypes, ClientTypes, BoundTypes
  <2>3. HeldIsAlive'
    BY Zenon DEF TypeOK, Placed, Holding, HeldIsAlive, ConnTypes, CoroTypes, QueueTypes, ThreadTypes,
       SockTypes, ClientTypes, BoundTypes
  <2> QED  BY <2>1, <2>2, <2>3, Zenon
\* Letting go of c says nothing about the connections of other threads.
<1>LettingGoKeeps.
  ASSUME TypeOK, Placed, NEW t \in Thread, NEW c \in Conn, LetsGo(t, c)
  PROVE  OneThreadPerConnection' /\ HeldIsProcessed' /\ HeldIsAlive'
  <2> USE <1>LettingGoKeeps
  <2>1. ASSUME NEW u \in Thread, cur'[u] # NoConn
        PROVE  u # t /\ cur'[u] = cur[u] /\ cur[u] \in Conn \ {c}
    BY <2>1, SchedAssumption, Zenon DEF TypeOK, Placed, OneThreadPerConnection, LetsGo, ThreadTypes
  <2>2. OneThreadPerConnection'
    BY <2>1, Zenon DEF Placed, OneThreadPerConnection
  <2>3. HeldIsProcessed'
    BY <2>1, Zenon DEF Placed, HeldIsProcessed, LetsGo
  <2>4. HeldIsAlive'
    BY <2>1, ZenonT(40) DEF Placed, HeldIsAlive, LetsGo, Alive
  <2> QED  BY <2>2, <2>3, <2>4, Zenon
\* A thread that hands c on holds it.
<1>HandsOver.
  ASSUME NEW t \in Thread, NEW c \in Conn, HandsOn(t, c)
  PROVE  cur[t] = c /\ pc[t] \notin {"release", "yield"}
  BY <1>HandsOver, Zenon DEF HandsOn, BusyLabels
\* What HandsOn leaves to show: where c goes.
<1>HandingOn.
  ASSUME TypeOK, Placed, NEW t \in Thread, NEW c \in Conn, HandsOn(t, c)
  PROVE  /\ Holding
         /\ \A u \in Thread : ~(cur'[u] = c /\ pc'[u] \notin {"release", "yield"})
         /\ \A d \in Conn \ {c} :
              \A u \in Thread : cur'[u] = d /\ pc'[u] \notin {"release", "yield"}
                                  => cur[u] = d /\ pc[u] \notin {"release", "yield"}
  <2> USE <1>HandingOn
  <2>1. PICK l \in {"release", "yield"} : pc' = [pc EXCEPT ![t] = l]
    BY Zenon DEF HandsOn, Goto
  <2>2. pc'[t] = l /\ \A u \in Thread \ {t} : pc'[u] = pc[u]
    BY <2>1, Zenon DEF TypeOK, ThreadTypes
  <2>3. \A u \in Thread : cur[u] = c => u = t
    BY OnThread, <1>HandsOver, Zenon
  <2>4. Holding
    BY <2>2, Zenon DEF HandsOn, Holding, Alive, BusyLabels
  <2> QED  BY <2>2, <2>3, <2>4, Zenon DEF HandsOn
\* What thread t hands on is in the one place k where the step puts it.
<1>HandedTo.
  ASSUME TypeOK, Placed, NEW t \in Thread, NEW c \in Conn, HandsOn(t, c), NEW k, k # "nowhere",
         req_queue'[c] = req_queue[c] \/ (req_queue'[c] = 1 /\ k = "req"),
         resume_queue'[c] = resume_queue[c],
         sql_native_queue'[c] = sql_native_queue[c] \/ (sql_native_queue'[c] = 1 /\ k = "native"),
         tx_pending'[c] => tx_pending[c] \/ k = "tx",
         CanSignal(c)' => CanSignal(c) \/ k = "kernel"
  PROVE  OnlyAt(c, k, NoConn)'
  <2> USE <1>HandedTo
  <2>3. cur[t] = c /\ pc[t] \notin {"release", "yield"}
    BY <1>HandsOver, Zenon
  <2>1. /\ req_queue[c] = 0 /\ resume_queue[c] = 0 /\ sql_native_queue[c] = 0
        /\ \A u \in Thread : batch[u][c] = 0
        /\ ~tx_pending[c] /\ ~CanSignal(c) /\ Alive(c)
    BY <2>3, OnThread, Zenon
  <2>2. \A u \in Thread : ~(cur'[u] = c /\ pc'[u] \notin {"release", "yield"})
    BY <1>HandingOn, ZenonT(40)
  <2>4. Alive(c)' /\ batch' = batch
    BY <2>1, Zenon DEF HandsOn, Alive
  <2> QED  BY <2>1, <2>2, <2>4, ZeroOne, Zenon DEF OnlyAt
\* The other connections stay where they are.
<1>OthersStay.
  ASSUME TypeOK, Placed, NEW t \in Thread, NEW c \in Conn, HandsOn(t, c),
         \A d \in Conn \ {c} : /\ req_queue'[d] = req_queue[d] /\ resume_queue'[d] = resume_queue[d]
                               /\ sql_native_queue'[d] = sql_native_queue[d]
                               /\ tx_pending'[d] = tx_pending[d] /\ (CanSignal(d)' => CanSignal(d))
  PROVE  \A d \in Conn \ {c} : Untouched(d)
  <2> USE <1>OthersStay
  <2> SUFFICES ASSUME NEW d \in Conn \ {c}  PROVE Untouched(d)
    BY Zenon
  <2>1. \A u \in Thread : cur'[u] = d /\ pc'[u] \notin {"release", "yield"}
                            => cur[u] = d /\ pc[u] \notin {"release", "yield"}
    BY <1>HandingOn, Zenon
  <2>2. batch' = batch /\ (Alive(d) => Alive(d)')
    BY Zenon DEF HandsOn, Alive
  <2> QED  BY <2>1, <2>2, Zenon DEF Untouched
\* Deleting a connection leaves nothing of it behind.
<1>DeleteKeeps.
  ASSUME TypeOK, Placed, NEW t \in Thread, NEW c \in Conn, LetsGo(t, c),
         pc[t] \notin {"release", "yield"},
         UNCHANGED << queueVars, batch, tx_pending, epoll_events, watched, ready, polled >>,
         state' = [state EXCEPT ![c] = "deleted"]
  PROVE  Placed'
  <2> USE <1>DeleteKeeps
  <2>1. ASSUME NEW u \in Thread, cur'[u] # NoConn
        PROVE  u # t /\ cur'[u] = cur[u] /\ pc'[u] = pc[u] /\ cur[u] # c
    BY <2>1, SchedAssumption, Zenon DEF TypeOK, Placed, OneThreadPerConnection, LetsGo, ThreadTypes
  <2>2. OnlyAt(c, "nowhere", NoConn)'
    <3>1. ~CanSignal(c)'
      BY Zenon DEF CanSignal, TypeOK, ConnTypes, CoroTypes, ThreadTypes, SockTypes
    <3>2. \A u \in Thread : cur'[u] # c
      BY <2>1, SchedAssumption, Zenon
    <3>3. /\ req_queue'[c] = 0 /\ resume_queue'[c] = 0 /\ sql_native_queue'[c] = 0
          /\ ~tx_pending'[c] /\ \A u \in Thread : batch'[u][c] = 0
      BY OnThread, Zenon DEF LetsGo, queueVars
    <3> QED  BY <3>1, <3>2, <3>3, ZeroOne, Positive, Zenon DEF OnlyAt
  <2>3. ASSUME NEW d \in Conn \ {c}  PROVE Untouched(d)
    <3>1. (CanSignal(d)' => CanSignal(d)) /\ (Alive(d) => Alive(d)')
      BY Zenon DEF CanSignal, Alive, TypeOK, ConnTypes
    <3>2. \A u \in Thread : cur'[u] = d => cur[u] = d /\ pc'[u] = pc[u]
      BY <2>1, SchedAssumption, Zenon
    <3> QED  BY <3>1, <3>2, Zenon DEF Untouched, queueVars
  <2>4. AtMostOneContinuation'
    BY <2>2, <2>3, <1>OneMoves, Zenon DEF Placed, Kinds
  <2> QED  BY <2>4, <1>LettingGoKeeps, Zenon DEF Placed
\* Clients, the timer and resumptions keep the invariant.
<1>EnvironmentInvariant.
  ASSUME IInv, NEW c \in Conn, Environment(c) \/ Resume(c)
  PROVE  IInv'
  <2> USE <1>EnvironmentInvariant
  \* add() puts a connection that was nowhere into a queue.
  <2>AddConnectionKeeps.
    ASSUME TypeOK, Placed, AddConnection(c)
    PROVE  Placed'
    <3> USE <2>AddConnectionKeeps
    <3>1. /\ UNCHANGED << resume_queue, sql_native_queue, tx_pending, pc, cur, batch, polled, watched,
                          ready, being_processed >>
          /\ req_queue' = Add(req_queue, c)
          /\ state[c] = "none" /\ state' = [state EXCEPT ![c] = "new"]
          /\ epoll_events' = [epoll_events EXCEPT ![c] = 1]
      BY Zenon DEF AddConnection, coroVars, threadVars, sockVars
    <3>2. PICK k \in Kinds, h \in Thread \cup {NoConn} : OnlyAt(c, k, h)
      BY Zenon DEF Placed, AtMostOneContinuation
    <3>3. k = "nowhere"
      BY <3>1, <3>2, Zenon DEF OnlyAt, Alive
    <3>4. OnlyAt(c, "req", NoConn)'
      <4>1. req_queue[c] = 0
        BY <3>2, <3>3, Zenon DEF OnlyAt
      <4>2. req_queue'[c] = 1
        BY <3>1, <4>1, ZeroOne, Positive, Zenon DEF Add, TypeOK, QueueTypes
      <4>3. ~CanSignal(c)' /\ Alive(c)'
        BY <3>1, ZeroOne, Positive, Zenon DEF CanSignal, Alive, TypeOK, ConnTypes, CoroTypes, ThreadTypes,
           SockTypes
      <4> QED  BY <3>1, <3>2, <3>3, <4>2, <4>3, Zenon DEF OnlyAt
    <3>5. \A d \in Conn \ {c} : Untouched(d)
      BY <3>1, ZenonT(40) DEF Untouched, CanSignal, Alive, Add, TypeOK, ConnTypes, CoroTypes, QueueTypes,
         ThreadTypes, SockTypes, ClientTypes, BoundTypes
    <3>6. AtMostOneContinuation'
      BY <3>4, <3>5, <1>OneMoves, Zenon DEF Placed, Kinds
    <3>7. Holding
      BY <3>1, Zenon DEF Holding, Alive, TypeOK, ConnTypes, CoroTypes, ThreadTypes, SockTypes
    <3> QED  BY <3>6, <3>7, <1>HoldingKeeps, Zenon DEF Placed
  \* CoroutineResume() turns the resumption that is owed into a queue entry.
  <2>ResumeKeeps.
    ASSUME TypeOK, Placed, Resume(c)
    PROVE  Placed'
    <3> USE <2>ResumeKeeps
    <3>1. /\ UNCHANGED << req_queue, pc, cur, batch, polled, watched, ready, being_processed, state, epoll_events >>
          /\ tx_pending[c] /\ tx_pending' = [tx_pending EXCEPT ![c] = FALSE]
          /\ \/ sql_native_queue' = Add(sql_native_queue, c) /\ UNCHANGED resume_queue
             \/ resume_queue' = Add(resume_queue, c) /\ UNCHANGED sql_native_queue
      BY Zenon DEF Resume, connVars, threadVars, sockVars
    <3>2. PICK k \in Kinds, h \in Thread \cup {NoConn} : OnlyAt(c, k, h)
      BY Zenon DEF Placed, AtMostOneContinuation
    <3>3. k = "tx"
      BY <3>1, <3>2, Zenon DEF OnlyAt
    <3>4. ~CanSignal(c)' /\ Alive(c)' /\ ~tx_pending'[c]
      BY <3>1, <3>2, <3>3, Zenon DEF OnlyAt, CanSignal, Alive, TypeOK, ConnTypes, CoroTypes, ThreadTypes,
         SockTypes
    <3>5. sql_native_queue[c] = 0 /\ resume_queue[c] = 0
      BY <3>2, <3>3, Zenon DEF OnlyAt
    <3>6. ASSUME sql_native_queue' = Add(sql_native_queue, c), UNCHANGED resume_queue
          PROVE  OnlyAt(c, "native", NoConn)'
      <4>1. sql_native_queue'[c] = 1
        BY <3>5, <3>6, ZeroOne, Positive, Zenon DEF Add, TypeOK, QueueTypes
      <4> QED  BY <3>1, <3>2, <3>3, <3>4, <3>6, <4>1, Zenon DEF OnlyAt
    <3>7. ASSUME resume_queue' = Add(resume_queue, c), UNCHANGED sql_native_queue
          PROVE  OnlyAt(c, "resume", NoConn)'
      <4>1. resume_queue'[c] = 1
        BY <3>5, <3>7, ZeroOne, Positive, Zenon DEF Add, TypeOK, QueueTypes
      <4> QED  BY <3>1, <3>2, <3>3, <3>4, <3>7, <4>1, Zenon DEF OnlyAt
    <3>8. ASSUME NEW d \in Conn \ {c}  PROVE Untouched(d)
      <4>1. /\ sql_native_queue'[d] = sql_native_queue[d] /\ resume_queue'[d] = resume_queue[d]
            /\ tx_pending'[d] = tx_pending[d]
        BY <3>1, ZenonT(40) DEF Add, TypeOK, CoroTypes, QueueTypes
      <4>2. (CanSignal(d)' => CanSignal(d)) /\ (Alive(d) => Alive(d)')
        BY <3>1, Zenon DEF CanSignal, Alive
      <4> QED  BY <3>1, <4>1, <4>2, Zenon DEF Untouched
    <3>9. AtMostOneContinuation'
      BY <3>1, <3>6, <3>7, <3>8, <1>OneMoves, Zenon DEF Placed, Kinds
    <3>10. Holding
      BY <3>1, Zenon DEF Holding, Alive
    <3> QED  BY <3>9, <3>10, <1>HoldingKeeps, Zenon DEF Placed
  \* Only watched sockets raise events.
  <2>SignalOfWatched.
    ASSUME TypeOK, UNCHANGED ready \/ Signal(c), NEW d \in Conn, ready'[d]
    PROVE  watched[d] \/ ready[d]
    <3> USE <2>SignalOfWatched
    <3>1. CASE ready' = ready
      BY <3>1, Zenon
    <3>2. CASE Signal(c) /\ d = c
      <4>1. ready'[c] = (watched[c] \/ ready[c])
        BY <3>2, Zenon DEF Signal, TypeOK, SockTypes
      <4> QED  BY <3>2, <4>1, Zenon
    <3>3. CASE Signal(c) /\ d # c
      BY <3>3, Zenon DEF Signal, TypeOK, SockTypes
    <3> QED  BY <3>1, <3>2, <3>3, Zenon
  \* Clients and the timer, the empty look into the queues, the end of a batch
  \* and the poll move nothing.
  <2>EnvironmentIsQuiet.
    ASSUME Bookkeeping, Placed, \/ ClientSend(c) \/ ClientClose(c) \/ Kill(c)
           \/ TimeoutCheck(c) \/ TimeoutPending(c) \/ TimeoutKill(c)
    PROVE  Quiet
    <3> USE <2>EnvironmentIsQuiet
    <3>1. UNCHANGED << queueVars, pc, cur, batch, polled, tx_pending, being_processed, epoll_events, watched >>
      BY Zenon DEF ClientSend, ClientClose, Kill, TimeoutCheck, TimeoutPending, TimeoutKill, connVars,
         coroVars, threadVars, sockVars
    <3>2. \A d \in Conn : Alive(d)' <=> Alive(d)
      <4>1. CASE UNCHANGED state
        BY <4>1, Zenon DEF Alive
      <4>2. CASE TimeoutPending(c)
        BY <4>2, Zenon DEF TimeoutPending, Alive, Bookkeeping, TimerOfLive, TypeOK, ConnTypes
      <4> QED  BY <4>1, <4>2, Zenon DEF ClientSend, ClientClose, Kill, TimeoutCheck, TimeoutKill, connVars
    <3>3. \A d \in Conn : ready'[d] => watched[d] \/ ready[d]
      <4>1. UNCHANGED ready \/ Signal(c)
        BY Zenon DEF ClientSend, ClientClose, Kill, TimeoutCheck, TimeoutPending, TimeoutKill, sockVars
      <4> QED  BY <4>1, <2>SignalOfWatched, Zenon DEF Bookkeeping
    <3>4. \A d \in Conn : state'[d] # "deleted" => state[d] # "deleted"
      <4>1. CASE UNCHANGED state
        BY <4>1, Zenon
      <4>2. CASE TimeoutPending(c)
        BY <4>2, Zenon DEF TimeoutPending, Bookkeeping, TimerOfLive, TypeOK, ConnTypes
      <4> QED  BY <4>1, <4>2, Zenon DEF ClientSend, ClientClose, Kill, TimeoutCheck, TimeoutKill, connVars
    <3>5. \A d \in Conn : CanSignal(d)' => CanSignal(d)
      BY <3>1, <3>3, <3>4, Zenon DEF CanSignal
    <3> QED  BY <3>1, <3>2, <3>5, Zenon DEF Quiet
  \* Clients, the timer and resumptions keep the books.
  <2>EnvironmentKeepsBooks.
    ASSUME Bookkeeping, Environment(c) \/ Resume(c)
    PROVE  UnboundSilent' /\ TimerOfLive'
    <3> USE <2>EnvironmentKeepsBooks
    <3>1. UnboundSilent'
      <4>1. UNCHANGED << bound, watched, polled >>
        BY Zenon DEF Environment, AddConnection, ClientSend, ClientClose, Kill, TimeoutCheck,
           TimeoutPending, TimeoutKill, Resume, connVars, threadVars, sockVars
      <4>2. UNCHANGED ready \/ Signal(c)
        BY Zenon DEF Environment, AddConnection, ClientSend, ClientClose, Kill, TimeoutCheck,
           TimeoutPending, TimeoutKill, Resume, sockVars
      <4>3. \A d \in Conn : ready'[d] => watched[d] \/ ready[d]
        BY <4>2, <2>SignalOfWatched, Zenon DEF Bookkeeping
      <4> QED  BY <4>1, <4>3, Zenon DEF Bookkeeping, UnboundSilent
    <3>2. TimerOfLive'
      <4>1. CASE UNCHANGED << state, timer >>
        BY <4>1, Zenon DEF Bookkeeping, TimerOfLive
      <4>2. CASE AddConnection(c)
        BY <4>2, Zenon DEF AddConnection, boundVars, Bookkeeping, TimerOfLive, TypeOK, ConnTypes, BoundTypes
      <4>3. CASE TimeoutCheck(c)
        BY <4>3, Zenon DEF TimeoutCheck, connVars, Bookkeeping, TimerOfLive, TypeOK, ConnTypes, BoundTypes
      <4>4. CASE TimeoutPending(c)
        BY <4>4, Zenon DEF TimeoutPending, Bookkeeping, TimerOfLive, TypeOK, ConnTypes, BoundTypes
      <4>5. CASE TimeoutKill(c)
        BY <4>5, Zenon DEF TimeoutKill, Bookkeeping, TimerOfLive, TypeOK, ConnTypes, BoundTypes
      <4> QED  BY <4>1, <4>2, <4>3, <4>4, <4>5, Zenon DEF Environment, ClientSend, ClientClose, Kill,
                  Resume, connVars, boundVars
    <3> QED  BY <3>1, <3>2, Zenon
  <2>1. Bookkeeping'
    <3>1. TypeOK'
      BY NextTypeOK, Zenon DEF Next, IInv, Bookkeeping
    <3> QED  BY <3>1, <2>EnvironmentKeepsBooks, Zenon DEF IInv, Bookkeeping
  <2>2. Placed'
    BY <2>EnvironmentIsQuiet, <1>QuietKeepsPlaces, <2>AddConnectionKeeps, <2>ResumeKeeps, Zenon DEF
       Environment, IInv, Bookkeeping
  <2> QED  BY <2>1, <2>2, Zenon DEF IInv
\* Dispatching keeps the invariant.
<1>DispatchInvariant.
  ASSUME IInv, NEW t \in Thread, Dispatch(t)
  PROVE  IInv'
  <2> USE <1>DispatchInvariant
  \* A SQL thread takes one connection from sql_native_queue.
  <2>GetNativeKeeps.
    ASSUME TypeOK, Placed, GetNative(t)
    PROVE  Placed'
    <3> USE <2>GetNativeKeeps
    <3>1. PICK c \in Conn : /\ sql_native_queue[c] > 0
                            /\ sql_native_queue' = [sql_native_queue EXCEPT ![c] = @ - 1]
                            /\ TakeFrom(t, c)
      BY Zenon DEF GetNative
    <3>2. /\ UNCHANGED << req_queue, resume_queue, tx_pending, cur, polled, watched, ready, being_processed,
                          state, epoll_events >>
          /\ batch' = [batch EXCEPT ![t] = [Empty EXCEPT ![c] = 1]]
          /\ pc[t] = "loop" /\ pc' = [pc EXCEPT ![t] = "batch"]
      BY <3>1, Zenon DEF GetNative, TakeFrom, Goto, connVars, coroVars, sockVars
    <3>3. \A u \in Thread : pc'[u] = pc[u] \/ (pc[u] = "loop" /\ pc'[u] = "batch")
      BY <3>2, Zenon DEF TypeOK, ThreadTypes
    <3>4. PICK k \in Kinds, h \in Thread \cup {NoConn} : OnlyAt(c, k, h)
      BY Zenon DEF Placed, AtMostOneContinuation
    <3>5. sql_native_queue[c] = 1 /\ k = "native"
      BY <3>1, <3>4, ZeroOne, Positive, Zenon DEF OnlyAt
    <3>6. OnlyAt(c, "batch", t)'
      <4>1. sql_native_queue'[c] = 0
        BY <3>1, <3>5, ZeroOne, Positive, Zenon DEF TypeOK, QueueTypes
      <4>2. batch'[t][c] = 1 /\ \A u \in Thread \ {t} : batch'[u][c] = batch[u][c]
        BY <3>2, Zenon DEF TypeOK, Empty, ConnTypes, CoroTypes, QueueTypes, ThreadTypes, SockTypes,
           ClientTypes, BoundTypes
      <4>3. ~CanSignal(c)' /\ Alive(c)'
        BY <3>2, <3>4, <3>5, Zenon DEF OnlyAt, CanSignal, Alive
      <4> QED  BY <3>2, <3>3, <3>4, <3>5, <4>1, <4>2, <4>3, Zenon DEF OnlyAt
    <3>7. ASSUME NEW d \in Conn \ {c}  PROVE Untouched(d)
      <4>1. sql_native_queue'[d] = sql_native_queue[d]
        BY <3>1, Zenon DEF TypeOK, QueueTypes
      <4>2. \A u \in Thread : batch'[u][d] \in {0, batch[u][d]}
        BY <3>2, Zenon DEF TypeOK, Empty, ConnTypes, CoroTypes, QueueTypes, ThreadTypes, SockTypes,
           ClientTypes, BoundTypes
      <4> QED  BY <3>2, <3>3, <4>1, <4>2, Zenon DEF Untouched, CanSignal, Alive
    <3>8. AtMostOneContinuation'
      BY <3>6, <3>7, <1>OneMoves, Zenon DEF Placed, Kinds
    <3>9. Holding
      BY <3>2, <3>3, Zenon DEF Holding, Alive
    <3> QED  BY <3>8, <3>9, <1>HoldingKeeps, Zenon DEF Placed
  \* A worker takes all of a queue: each connection in it moves to its batch.
  <2>TakeAllKeeps.
    ASSUME TypeOK, Placed, NEW q \in {req_queue, resume_queue},
           pc[t] = "loop", TakeAll(t, q), UNCHANGED sql_native_queue,
           \/ q = req_queue /\ req_queue' = Empty /\ UNCHANGED resume_queue
           \/ q = resume_queue /\ resume_queue' = Empty /\ UNCHANGED req_queue
    PROVE  Placed'
    <3> USE <2>TakeAllKeeps
    <3>1. /\ UNCHANGED << tx_pending, cur, polled, watched, ready, being_processed, state, epoll_events >>
          /\ batch' = [batch EXCEPT ![t] = q] /\ pc' = [pc EXCEPT ![t] = "batch"]
      BY Zenon DEF TakeAll, Goto, connVars, coroVars, sockVars
    <3>2. \A u \in Thread : pc'[u] = pc[u] \/ (pc[u] = "loop" /\ pc'[u] = "batch")
      BY <3>1, Zenon DEF TypeOK, ThreadTypes
    <3>3. ASSUME NEW d \in Conn
          PROVE  \E k \in Kinds, h \in Thread \cup {NoConn} : OnlyAt(d, k, h)'
      <4>1. PICK k \in Kinds, h \in Thread \cup {NoConn} : OnlyAt(d, k, h)
        BY Zenon DEF Placed, AtMostOneContinuation
      <4>2. batch'[t][d] = q[d] /\ \A u \in Thread \ {t} : batch'[u][d] = batch[u][d]
        BY <3>1, Zenon DEF TypeOK, ConnTypes, CoroTypes, QueueTypes, ThreadTypes, SockTypes, ClientTypes,
           BoundTypes
      <4>3. (CanSignal(d)' <=> CanSignal(d)) /\ (Alive(d)' <=> Alive(d))
        BY <3>1, Zenon DEF CanSignal, Alive
      <4>4. req_queue'[d] \in {0, req_queue[d]} /\ resume_queue'[d] \in {0, resume_queue[d]}
        BY Zenon DEF Empty
      <4>5. CASE q[d] = 0
        <5>1. OnlyAt(d, k, h)'
          BY <3>1, <3>2, <4>1, <4>2, <4>3, <4>4, <4>5, Zenon DEF OnlyAt
        <5> QED  BY <5>1, Zenon
      <4>6. CASE q[d] # 0
        <5>1. q[d] = 1 /\ k \in {"req", "resume"}
          BY <4>1, <4>6, Zenon DEF OnlyAt
        <5>2. req_queue'[d] = 0 /\ resume_queue'[d] = 0
          BY <4>1, <4>6, Zenon DEF OnlyAt, Empty
        <5>3. OnlyAt(d, "batch", t)'
          BY <3>1, <3>2, <4>1, <4>2, <4>3, <5>1, <5>2, Zenon DEF OnlyAt
        <5> QED  BY <5>3, Zenon DEF Kinds
      <4> QED  BY <4>5, <4>6, Zenon DEF TypeOK, ConnTypes, CoroTypes, ThreadTypes, SockTypes
    <3>4. AtMostOneContinuation'
      BY <3>3, Zenon DEF AtMostOneContinuation
    <3>5. Holding
      BY <3>1, <3>2, Zenon DEF Holding, Alive
    <3> QED  BY <3>4, <3>5, <1>HoldingKeeps, Zenon DEF Placed
  \* A connection still being processed goes back to a queue.
  <2>SkipKeeps.
    ASSUME TypeOK, Placed, NEW c \in Conn, Skip(t, c)
    PROVE  Placed'
    <3> USE <2>SkipKeeps
    <3>1. /\ UNCHANGED << req_queue, tx_pending, pc, cur, polled, watched, ready, being_processed, state,
                          epoll_events >>
          /\ batch[t][c] > 0 /\ batch' = [batch EXCEPT ![t][c] = @ - 1]
          /\ \/ sql_native_queue' = Add(sql_native_queue, c) /\ UNCHANGED resume_queue
             \/ resume_queue' = Add(resume_queue, c) /\ UNCHANGED sql_native_queue
      BY Zenon DEF Skip, connVars, coroVars, sockVars
    <3>2. PICK k \in Kinds, h \in Thread \cup {NoConn} : OnlyAt(c, k, h)
      BY Zenon DEF Placed, AtMostOneContinuation
    <3>3. batch[t][c] = 1 /\ k = "batch" /\ h = t
      BY <3>1, <3>2, ZeroOne, Positive, Zenon DEF OnlyAt
    <3>4. /\ \A d \in Conn \ {c}, u \in Thread : batch'[u][d] = batch[u][d]
          /\ batch'[t][c] = 0 /\ \A u \in Thread \ {t} : batch'[u][c] = batch[u][c]
      BY <3>1, <3>3 DEF TypeOK, ConnTypes, CoroTypes, QueueTypes, ThreadTypes, SockTypes, ClientTypes,
         BoundTypes
    <3>5. ~CanSignal(c)' /\ Alive(c)'
      BY <3>1, <3>2, <3>3, Zenon DEF OnlyAt, CanSignal, Alive
    <3>6. sql_native_queue[c] = 0 /\ resume_queue[c] = 0
      BY <3>2, <3>3, Zenon DEF OnlyAt
    <3>7. ASSUME sql_native_queue' = Add(sql_native_queue, c), UNCHANGED resume_queue
          PROVE  OnlyAt(c, "native", NoConn)'
      <4>1. sql_native_queue'[c] = 1
        BY <3>6, <3>7, ZeroOne, Positive, Zenon DEF Add, TypeOK, QueueTypes
      <4> QED  BY <3>1, <3>2, <3>3, <3>4, <3>5, <3>7, <4>1, Zenon DEF OnlyAt
    <3>8. ASSUME resume_queue' = Add(resume_queue, c), UNCHANGED sql_native_queue
          PROVE  OnlyAt(c, "resume", NoConn)'
      <4>1. resume_queue'[c] = 1
        BY <3>6, <3>8, ZeroOne, Positive, Zenon DEF Add, TypeOK, QueueTypes
      <4> QED  BY <3>1, <3>2, <3>3, <3>4, <3>5, <3>8, <4>1, Zenon DEF OnlyAt
    <3>9. ASSUME NEW d \in Conn \ {c}  PROVE Untouched(d)
      <4>1. sql_native_queue'[d] = sql_native_queue[d] /\ resume_queue'[d] = resume_queue[d]
        BY <3>1, Zenon DEF Add, TypeOK, QueueTypes
      <4> QED  BY <3>1, <3>4, <4>1, Zenon DEF Untouched, CanSignal, Alive
    <3>10. AtMostOneContinuation'
      BY <3>1, <3>7, <3>8, <3>9, <1>OneMoves, Zenon DEF Placed, Kinds
    <3>11. Holding
      BY <3>1, Zenon DEF Holding, Alive
    <3> QED  BY <3>10, <3>11, <1>HoldingKeeps, Zenon DEF Placed
  \* A thread begins with c.  Nobody else holds it: a thread past Enter would
  \* have set being_processed_, a thread at Enter would be a second place.
  <2>PickKeeps.
    ASSUME TypeOK, Placed, NEW c \in Conn, Pick(t, c)
    PROVE  Placed'
    <3> USE <2>PickKeeps
    <3>1. /\ UNCHANGED << queueVars, tx_pending, polled, watched, ready, being_processed, state, epoll_events >>
          /\ batch[t][c] > 0 /\ batch' = [batch EXCEPT ![t][c] = @ - 1] /\ ~being_processed[c]
          /\ cur' = [cur EXCEPT ![t] = c] /\ pc' = [pc EXCEPT ![t] = "enter"]
      BY Zenon DEF Pick, Goto, connVars, coroVars, sockVars
    <3>2. PICK k \in Kinds, h \in Thread \cup {NoConn} : OnlyAt(c, k, h)
      BY Zenon DEF Placed, AtMostOneContinuation
    <3>3. batch[t][c] = 1 /\ k = "batch" /\ h = t
      BY <3>1, <3>2, ZeroOne, Positive, Zenon DEF OnlyAt
    <3>4. /\ \A d \in Conn \ {c}, u \in Thread : batch'[u][d] = batch[u][d]
          /\ batch'[t][c] = 0 /\ \A u \in Thread \ {t} : batch'[u][c] = batch[u][c]
      BY <3>1, <3>3 DEF TypeOK, ConnTypes, CoroTypes, QueueTypes, ThreadTypes, SockTypes, ClientTypes,
         BoundTypes
    <3>5. /\ cur'[t] = c /\ pc'[t] = "enter"
          /\ \A u \in Thread \ {t} : cur'[u] = cur[u] /\ pc'[u] = pc[u]
      BY <3>1, Zenon DEF TypeOK, ThreadTypes
    <3>6. \A u \in Thread : cur[u] # c
      <4> SUFFICES ASSUME NEW u \in Thread, cur[u] = c  PROVE FALSE
        BY Zenon
      <4>1. pc[u] = "enter"
        BY <3>1, SchedAssumption, Zenon DEF Placed, HeldIsProcessed
      <4> QED  BY <3>2, <3>3, <4>1, Zenon DEF OnlyAt
    <3>7. ~CanSignal(c)' /\ Alive(c)' /\ Alive(c)
      BY <3>1, <3>2, <3>3, Zenon DEF OnlyAt, CanSignal, Alive
    <3>8. OnlyAt(c, "thread", t)'
      BY <3>1, <3>2, <3>3, <3>4, <3>5, <3>6, <3>7, ZenonT(40) DEF OnlyAt, queueVars
    <3>9. \A d \in Conn \ {c} : Untouched(d)
      BY <3>1, <3>4, <3>5, ZenonT(40) DEF Untouched, CanSignal, Alive, queueVars
    <3>10. AtMostOneContinuation'
      BY <3>8, <3>9, <1>OneMoves, Zenon DEF Placed, Kinds
    <3>11. OneThreadPerConnection'
      BY <3>5, <3>6, ZenonT(40) DEF Placed, OneThreadPerConnection
    <3>12. HeldIsProcessed'
      BY <3>1, <3>5, Zenon DEF Placed, HeldIsProcessed
    <3>13. HeldIsAlive'
      BY <3>1, <3>5, <3>7, Zenon DEF Placed, HeldIsAlive, Alive
    <3> QED  BY <3>10, <3>11, <3>12, <3>13, Zenon DEF Placed
  \* An event enqueues a connection only if the kernel was its place.
  <2>ApplyEventKeeps.
    ASSUME TypeOK, Placed, NEW c \in Conn, ApplyEvent(t, c)
    PROVE  Placed'
    <3> USE <2>ApplyEventKeeps
    <3>1. /\ UNCHANGED << resume_queue, sql_native_queue, tx_pending, cur, batch, watched, ready,
                          being_processed, state >>
          /\ c \in polled[t] /\ polled' = [polled EXCEPT ![t] = @ \ {c}]
          /\ pc[t] = "apply" /\ \E l \in {"apply", "loop", "poll"} : pc' = [pc EXCEPT ![t] = l]
          /\ \/ UNCHANGED << epoll_events, req_queue >>
             \/ epoll_events' = Add(epoll_events, c) /\ UNCHANGED req_queue
             \/ /\ epoll_events' = Add(epoll_events, c) /\ req_queue' = Add(req_queue, c)
                /\ ~(epoll_events[c] > 0) /\ state[c] # "deleted"
      BY Zenon DEF ApplyEvent, Goto, coroVars, sockVars
    <3>2. \A u \in Thread : pc'[u] = pc[u] \/ (pc[u] = "apply" /\ pc'[u] \in {"apply", "loop", "poll"})
      BY <3>1, Zenon DEF TypeOK, ThreadTypes
    <3>3. \A d \in Conn, u \in Thread : d \in polled'[u] => d \in polled[u]
      BY <3>1, ZenonT(40) DEF TypeOK, ConnTypes, CoroTypes, QueueTypes, ThreadTypes, SockTypes, ClientTypes,
         BoundTypes
    <3>4. \A d \in Conn : epoll_events'[d] = 0 => epoll_events[d] = 0
      BY <3>1, ZeroOne, Positive, ZenonT(40) DEF TypeOK, Add, ConnTypes
    <3>5. \A d \in Conn : (CanSignal(d)' => CanSignal(d)) /\ (Alive(d)' <=> Alive(d))
      BY <3>1, <3>3, <3>4, Zenon DEF CanSignal, Alive
    <3>6. Holding
      BY <3>1, <3>2, <3>5, Zenon DEF Holding
    <3>7. ASSUME NEW d \in Conn, req_queue'[d] = req_queue[d]  PROVE Untouched(d)
      BY <3>1, <3>2, <3>5, <3>7, Zenon DEF Untouched
    <3>8. CASE UNCHANGED req_queue
      <4>1. AtMostOneContinuation'
        BY <3>7, <3>8, <1>NoneMoves, Zenon DEF Placed
      <4> QED  BY <3>6, <4>1, <1>HoldingKeeps, Zenon DEF Placed
    <3>9. CASE /\ epoll_events' = Add(epoll_events, c) /\ req_queue' = Add(req_queue, c)
               /\ ~(epoll_events[c] > 0) /\ state[c] # "deleted"
      <4>1. PICK k \in Kinds, h \in Thread \cup {NoConn} : OnlyAt(c, k, h)
        BY Zenon DEF Placed, AtMostOneContinuation
      <4>2. CanSignal(c)
        BY <3>1, <3>9, ZeroOne, Positive, Zenon DEF CanSignal, TypeOK, ConnTypes, CoroTypes, QueueTypes,
           ThreadTypes, SockTypes, ClientTypes, BoundTypes
      <4>3. k = "kernel" /\ req_queue[c] = 0
        BY <4>1, <4>2, Zenon DEF OnlyAt
      <4>4. req_queue'[c] = 1
        BY <3>9, <4>3, ZeroOne, Positive, Zenon DEF Add, TypeOK, QueueTypes
      <4>5. epoll_events'[c] # 0
        BY <3>9, ZeroOne, Positive, Zenon DEF Add, TypeOK, ConnTypes
      <4>6. ~CanSignal(c)'
        BY <4>5, Zenon DEF CanSignal
      <4>7. OnlyAt(c, "req", NoConn)'
        BY <3>1, <3>2, <3>5, <4>1, <4>3, <4>4, <4>6, Zenon DEF OnlyAt
      <4>8. \A d \in Conn \ {c} : req_queue'[d] = req_queue[d]
        BY <3>9, Zenon DEF Add, TypeOK, QueueTypes
      <4>9. AtMostOneContinuation'
        BY <3>7, <4>7, <4>8, <1>OneMoves, Zenon DEF Placed, Kinds
      <4> QED  BY <3>6, <4>9, <1>HoldingKeeps, Zenon DEF Placed
    <3> QED  BY <3>1, <3>8, <3>9, Zenon
  \* A look that finds nothing, the end of a batch and a poll move nothing.
  <2>DispatchIsQuiet.
    ASSUME TypeOK, GetNothing(t) \/ EndOfBatch(t) \/ Poll(t)
    PROVE  Quiet
    <3> USE <2>DispatchIsQuiet
    <3>1. UNCHANGED << queueVars, cur, batch, tx_pending, being_processed, state, epoll_events, watched >>
      BY Zenon DEF GetNothing, EndOfBatch, Poll, connVars, coroVars, sockVars
    <3>2. \A u \in Thread : pc'[u] = pc[u] \/ (/\ pc[u] \in {"loop", "batch", "poll"}
                                               /\ pc'[u] \in {"loop", "poll", "apply"})
      BY Zenon DEF GetNothing, EndOfBatch, Poll, Goto, TypeOK, ThreadTypes
    <3>3. \A d \in Conn : CanSignal(d)' => CanSignal(d)
      <4>1. CASE UNCHANGED << ready, polled >>
        BY <3>1, <4>1, Zenon DEF CanSignal
      <4>2. CASE Poll(t)
        <5>1. \A d \in Conn, u \in Thread : d \in polled'[u] => d \in polled[u] \/ ready[d]
          BY <4>2, Zenon DEF Poll, TypeOK, ThreadTypes
        <5>2. \A d \in Conn : ~ready'[d]
          BY <4>2, Zenon DEF Poll
        <5> QED  BY <3>1, <5>1, <5>2, Zenon DEF CanSignal
      <4> QED  BY <4>1, <4>2, Zenon DEF GetNothing, EndOfBatch, sockVars
    <3> QED  BY <3>1, <3>2, <3>3, Zenon DEF Quiet, Alive
  \* Dispatching keeps the books.
  <2>DispatchKeepsBooks.
    ASSUME Bookkeeping, Dispatch(t)
    PROVE  UnboundSilent' /\ TimerOfLive'
    <3> USE <2>DispatchKeepsBooks
    <3>1. CASE GetNative(t)
      BY <3>1, <1>SameBooks, Zenon DEF GetNative, TakeFrom, connVars, sockVars, boundVars
    <3>2. CASE GetResumed(t)
      BY <3>2, <1>SameBooks, Zenon DEF GetResumed, TakeAll, connVars, sockVars, boundVars
    <3>3. CASE GetRequests(t)
      BY <3>3, <1>SameBooks, Zenon DEF GetRequests, TakeAll, connVars, sockVars, boundVars
    <3>4. CASE GetNothing(t)
      BY <3>4, <1>SameBooks, Zenon DEF GetNothing, connVars, sockVars, boundVars
    <3>5. ASSUME NEW c \in Conn, Skip(t, c)  PROVE UnboundSilent' /\ TimerOfLive'
      BY <3>5, <1>SameBooks, Zenon DEF Skip, connVars, sockVars, boundVars
    <3>6. ASSUME NEW c \in Conn, Pick(t, c)  PROVE UnboundSilent' /\ TimerOfLive'
      BY <3>6, <1>SameBooks, Zenon DEF Pick, connVars, sockVars, boundVars
    <3>7. CASE EndOfBatch(t)
      BY <3>7, <1>SameBooks, Zenon DEF EndOfBatch, connVars, sockVars, boundVars
    <3>8. CASE Poll(t)
      <4>1. \A d \in Conn : ~ready'[d] /\ \A u \in Thread : d \in polled'[u] => d \in polled[u] \/ ready[d]
        BY <3>8, Zenon DEF Poll, Bookkeeping, TypeOK, ThreadTypes, SockTypes
      <4> QED  BY <3>8, <4>1, Zenon DEF Poll, connVars, boundVars, Bookkeeping, UnboundSilent, TimerOfLive
    <3>9. ASSUME NEW c \in Conn, ApplyEvent(t, c)  PROVE UnboundSilent' /\ TimerOfLive'
      <4>1. \A d \in Conn, u \in Thread : d \in polled'[u] => d \in polled[u]
        BY <3>9, Zenon DEF ApplyEvent, Bookkeeping, TypeOK, ThreadTypes
      <4> QED  BY <3>9, <4>1, Zenon DEF ApplyEvent, sockVars, boundVars, Bookkeeping, UnboundSilent,
                  TimerOfLive
    <3> QED  BY <3>1, <3>2, <3>3, <3>4, <3>5, <3>6, <3>7, <3>8, <3>9, Zenon DEF Dispatch
  <2>1. Bookkeeping'
    <3>1. TypeOK'
      BY NextTypeOK, Zenon DEF Next, IInv, Bookkeeping
    <3> QED  BY <3>1, <2>DispatchKeepsBooks, Zenon DEF IInv, Bookkeeping
  <2>2. CASE GetResumed(t)
    BY <2>1, <2>2, <2>TakeAllKeeps, Zenon DEF GetResumed, IInv, Bookkeeping
  <2>3. CASE GetRequests(t)
    BY <2>1, <2>3, <2>TakeAllKeeps, Zenon DEF GetRequests, IInv, Bookkeeping
  <2>4. CASE GetNothing(t) \/ EndOfBatch(t) \/ Poll(t)
    BY <2>1, <2>4, <2>DispatchIsQuiet, <1>QuietKeepsPlaces, Zenon DEF IInv, Bookkeeping
  <2> QED  BY <2>1, <2>2, <2>3, <2>4, <2>GetNativeKeeps, <2>SkipKeeps, <2>PickKeeps, <2>ApplyEventKeeps,
              Zenon DEF Dispatch, IInv, Bookkeeping
\* tp_callback() up to the coroutine keeps the invariant.
<1>EnterInvariant.
  ASSUME IInv, NEW t \in Thread, NEW c \in Conn, cur[t] = c, Enter(t, c)
  PROVE  IInv'
  <2> USE <1>EnterInvariant
  \* A connection whose THD cannot be created is deleted.
  <2>LoginImpossibleKeeps.
    ASSUME TypeOK, Placed, cur[t] = c, LoginImpossible(t, c)
    PROVE  Placed'
    <3> USE <2>LoginImpossibleKeeps
    <3>1. LetsGo(t, c)
      BY Zenon DEF LoginImpossible, LetsGo, Goto, TypeOK, ConnTypes, ThreadTypes
    <3> QED  BY <3>1, <1>DeleteKeeps, Zenon DEF LoginImpossible, coroVars, sockVars
  <2>1. TypeOK'
    BY NextTypeOK, Zenon DEF Next, Process, IInv, Bookkeeping
  <2>2. CASE LoginImpossible(t, c)
    <3>1. UnboundSilent' /\ TimerOfLive'
      BY <2>2, Zenon DEF LoginImpossible, sockVars, boundVars, IInv, Bookkeeping, UnboundSilent,
         TimerOfLive, TypeOK, ConnTypes, CoroTypes, QueueTypes, ThreadTypes, SockTypes, ClientTypes,
         BoundTypes
    <3> QED  BY <2>1, <2>2, <3>1, <2>LoginImpossibleKeeps, Zenon DEF IInv, Bookkeeping
  <2>3. CASE WorksOn(t, c)
    BY <2>1, <2>3, <1>WorkKeepsInvariant, Zenon
  <2> QED  BY <2>2, <2>3, <1>StepsThatWork, Zenon DEF Enter, IInv, Bookkeeping
\* The coroutines keep the invariant.
<1>ExecuteInvariant.
  ASSUME IInv, NEW t \in Thread, NEW c \in Conn, cur[t] = c, Execute(t, c)
  PROVE  IInv'
  <2> USE <1>ExecuteInvariant
  \* The end of the close coroutine deletes c, or goes on with it.
  <2>CloseDoneKeeps.
    ASSUME TypeOK, Placed, cur[t] = c, CloseDone(t, c)
    PROVE  Placed'
    <3> USE <2>CloseDoneKeeps
    <3>1. CASE in_error[c]
      <4>1. LetsGo(t, c)
        BY <3>1, Zenon DEF CloseDone, LetsGo, Goto, TypeOK, ConnTypes, ThreadTypes
      <4> QED  BY <3>1, <4>1, <1>DeleteKeeps, Zenon DEF CloseDone, sockVars
    <3>2. CASE ~in_error[c]
      <4>1. WorksOn(t, c)
        BY <3>2, Zenon DEF CloseDone, WorksOn, BusyLabels, sockVars, boundVars
      <4> QED  BY <4>1, <1>WorkIsQuiet, <1>QuietKeepsPlaces, Zenon
    <3> QED  BY <3>1, <3>2, Zenon
  <2>1. TypeOK'
    BY NextTypeOK, Zenon DEF Next, Process, IInv, Bookkeeping
  <2>2. CASE CloseDone(t, c)
    <3>1. UnboundSilent'
      BY <2>2, Zenon DEF CloseDone, sockVars, IInv, Bookkeeping, UnboundSilent
    <3>2. TimerOfLive'
      BY <2>2, Zenon DEF CloseDone, boundVars, IInv, Bookkeeping, TimerOfLive, TypeOK, ConnTypes, BoundTypes
    <3> QED  BY <2>1, <2>2, <3>1, <3>2, <2>CloseDoneKeeps, Zenon DEF IInv, Bookkeeping
  <2>3. CASE WorksOn(t, c)
    BY <2>1, <2>3, <1>WorkKeepsInvariant, Zenon
  <2> QED  BY <2>2, <2>3, <1>StepsThatWork, Zenon DEF Execute, IInv, Bookkeeping
\* Yields and wait sections keep the invariant.
<1>YieldInvariant.
  ASSUME IInv, NEW t \in Thread, NEW c \in Conn, cur[t] = c, Yield(t, c)
  PROVE  IInv'
  <2> USE <1>YieldInvariant
  \* A yield to the transaction service leaves c to resume_func_().
  <2>YieldToTxKeeps.
    ASSUME TypeOK, Placed, cur[t] = c, YieldToTx(t, c)
    PROVE  Placed'
    <3> USE <2>YieldToTxKeeps
    <3>1. HandsOn(t, c)
      BY Zenon DEF YieldToTx, CanYield, HandsOn, BusyLabels, connVars
    <3>2. /\ UNCHANGED << req_queue, resume_queue, sql_native_queue, state, epoll_events, watched, ready, polled, batch >>
          /\ tx_pending' = [tx_pending EXCEPT ![c] = TRUE]
      BY Zenon DEF YieldToTx, CanYield, queueVars, connVars, sockVars
    <3>3. OnlyAt(c, "tx", NoConn)'
      <4>1. CanSignal(c)' => CanSignal(c)
        BY <3>2, Zenon DEF CanSignal
      <4> QED  BY <3>1, <3>2, <4>1, <1>HandedTo, Zenon
    <3>4. \A d \in Conn \ {c} : Untouched(d)
      <4>1. \A d \in Conn \ {c} : tx_pending'[d] = tx_pending[d] /\ (CanSignal(d)' => CanSignal(d))
        BY <3>2, Zenon DEF CanSignal, TypeOK, CoroTypes
      <4> QED  BY <3>1, <3>2, <4>1, <1>OthersStay, Zenon
    <3>5. AtMostOneContinuation'
      BY <3>3, <3>4, <1>OneMoves, Zenon DEF Placed, Kinds
    <3> QED  BY <3>1, <3>5, <1>HandingOn, <1>HoldingKeeps, Zenon DEF Placed
  \* CoroutineLongResume() leaves c in a queue.
  <2>YieldToQueueKeeps.
    ASSUME TypeOK, Placed, cur[t] = c, YieldToQueue(t, c)
    PROVE  Placed'
    <3> USE <2>YieldToQueueKeeps
    <3>1. HandsOn(t, c)
      BY Zenon DEF YieldToQueue, CanYield, HandsOn, BusyLabels, connVars
    <3>2. /\ UNCHANGED << resume_queue, tx_pending, state, epoll_events, watched, ready, polled, batch >>
          /\ \/ sql_native_queue' = Add(sql_native_queue, c) /\ UNCHANGED req_queue
             \/ req_queue' = Add(req_queue, c) /\ UNCHANGED sql_native_queue
      BY Zenon DEF YieldToQueue, CanYield, connVars, sockVars
    <3>3. ASSUME sql_native_queue' = Add(sql_native_queue, c), UNCHANGED req_queue
          PROVE  OnlyAt(c, "native", NoConn)'
      <4>1. sql_native_queue[c] = 0
        BY <3>1, OnThread, <1>HandsOver, Zenon
      <4>2. sql_native_queue'[c] = 1
        BY <4>1, <3>3, ZeroOne, Positive, Zenon DEF Add, TypeOK, QueueTypes
      <4>3. CanSignal(c)' => CanSignal(c)
        BY <3>2, Zenon DEF CanSignal
      <4> QED  BY <3>1, <3>2, <3>3, <4>2, <4>3, <1>HandedTo, Zenon
    <3>4. ASSUME req_queue' = Add(req_queue, c), UNCHANGED sql_native_queue
          PROVE  OnlyAt(c, "req", NoConn)'
      <4>1. req_queue[c] = 0
        BY <3>1, OnThread, <1>HandsOver, Zenon
      <4>2. req_queue'[c] = 1
        BY <4>1, <3>4, ZeroOne, Positive, Zenon DEF Add, TypeOK, QueueTypes
      <4>3. CanSignal(c)' => CanSignal(c)
        BY <3>2, Zenon DEF CanSignal
      <4> QED  BY <3>1, <3>2, <3>4, <4>2, <4>3, <1>HandedTo, Zenon
    <3>5. \A d \in Conn \ {c} : Untouched(d)
      <4>1. \A d \in Conn \ {c} : /\ req_queue'[d] = req_queue[d] /\ sql_native_queue'[d] = sql_native_queue[d]
                                  /\ (CanSignal(d)' => CanSignal(d))
        BY <3>2, Zenon DEF Add, CanSignal, TypeOK, QueueTypes
      <4> QED  BY <3>1, <3>2, <4>1, <1>OthersStay, Zenon
    <3>6. AtMostOneContinuation'
      BY <3>2, <3>3, <3>4, <3>5, <1>OneMoves, Zenon DEF Placed, Kinds
    <3> QED  BY <3>1, <3>6, <1>HandingOn, <1>HoldingKeeps, Zenon DEF Placed
  \* wait_begin() on the external worker leaves c in sql_native_queue.
  <2>WaitBeginExtKeeps.
    ASSUME TypeOK, Placed, cur[t] = c, WaitBeginExt(t, c)
    PROVE  Placed'
    <3> USE <2>WaitBeginExtKeeps
    <3>1. HandsOn(t, c)
      BY Zenon DEF WaitBeginExt, CanYield, HandsOn, BusyLabels, connVars
    <3>2. /\ UNCHANGED << req_queue, resume_queue, tx_pending, state, epoll_events, watched, ready, polled, batch >>
          /\ sql_native_queue' = Add(sql_native_queue, c)
      BY Zenon DEF WaitBeginExt, CanYield, connVars, sockVars
    <3>3. OnlyAt(c, "native", NoConn)'
      <4>1. sql_native_queue[c] = 0
        BY <3>1, OnThread, <1>HandsOver, Zenon
      <4>2. sql_native_queue'[c] = 1
        BY <4>1, <3>2, ZeroOne, Positive, Zenon DEF Add, TypeOK, QueueTypes
      <4>3. CanSignal(c)' => CanSignal(c)
        BY <3>2, Zenon DEF CanSignal
      <4> QED  BY <3>1, <3>2, <4>2, <4>3, <1>HandedTo, Zenon
    <3>4. \A d \in Conn \ {c} : Untouched(d)
      <4>1. \A d \in Conn \ {c} : /\ req_queue'[d] = req_queue[d] /\ sql_native_queue'[d] = sql_native_queue[d]
                                  /\ (CanSignal(d)' => CanSignal(d))
        BY <3>2, Zenon DEF Add, CanSignal, TypeOK, QueueTypes
      <4> QED  BY <3>1, <3>2, <4>1, <1>OthersStay, Zenon
    <3>5. AtMostOneContinuation'
      BY <3>3, <3>4, <1>OneMoves, Zenon DEF Placed, Kinds
    <3> QED  BY <3>1, <3>5, <1>HandingOn, <1>HoldingKeeps, Zenon DEF Placed
  \* wait_begin() keeps c on t and gives the rest of its batch to a queue.
  <2>WaitBeginKeeps.
    ASSUME TypeOK, Placed, cur[t] = c, WaitBegin(t, c)
    PROVE  Placed'
    <3> USE <2>WaitBeginKeeps
    <3>1. /\ UNCHANGED << sql_native_queue, tx_pending, cur, state, being_processed, epoll_events,
                          watched, ready, polled >>
          /\ batch' = [batch EXCEPT ![t] = Empty]
          /\ pc[t] \in {"login", "exec", "close"} /\ pc' = [pc EXCEPT ![t] = "wait"]
      BY Zenon DEF WaitBegin, CanYield, Goto, connVars, sockVars
    <3>2. \A u \in Thread : pc'[u] = pc[u] \/ (pc[u] \in {"login", "exec", "close"} /\ pc'[u] = "wait")
      BY <3>1, Zenon DEF TypeOK, ThreadTypes
    <3>3. Holding
      BY <3>1, <3>2, Zenon DEF Holding, Alive
    <3>4. \A d \in Conn : batch'[t][d] = 0 /\ \A u \in Thread \ {t} : batch'[u][d] = batch[u][d]
      BY <3>1, Zenon DEF TypeOK, Empty, ConnTypes, CoroTypes, QueueTypes, ThreadTypes, SockTypes,
         ClientTypes, BoundTypes
    <3>5. \A d \in Conn : \/ req_queue'[d] = req_queue[d] /\ resume_queue'[d] = resume_queue[d]
                          \/ req_queue'[d] = req_queue[d] /\ resume_queue'[d] = resume_queue[d] + batch[t][d]
                          \/ req_queue'[d] = req_queue[d] + batch[t][d] /\ resume_queue'[d] = resume_queue[d]
      BY Zenon DEF WaitBegin, TypeOK, QueueTypes
    <3>6. ASSUME NEW d \in Conn
          PROVE  \E k \in Kinds, h \in Thread \cup {NoConn} : OnlyAt(d, k, h)'
      <4>1. PICK k \in Kinds, h \in Thread \cup {NoConn} : OnlyAt(d, k, h)
        BY Zenon DEF Placed, AtMostOneContinuation
      <4>2. (CanSignal(d)' <=> CanSignal(d)) /\ (Alive(d)' <=> Alive(d))
        BY <3>1, Zenon DEF CanSignal, Alive
      <4>3. CASE batch[t][d] = 0
        <5>1. req_queue'[d] = req_queue[d] /\ resume_queue'[d] = resume_queue[d]
          <6>1. req_queue[d] \in Nat /\ resume_queue[d] \in Nat
            BY Zenon DEF TypeOK, QueueTypes
          <6>2. req_queue[d] + 0 = req_queue[d] /\ resume_queue[d] + 0 = resume_queue[d]
            BY <6>1
          <6> QED  BY <3>5, <4>3, <6>2, Zenon
        <5>2. OnlyAt(d, k, h)'
          BY <3>1, <3>2, <3>4, <4>1, <4>2, <4>3, <5>1 DEF OnlyAt
        <5> QED  BY <5>2, Zenon
      <4>4. CASE batch[t][d] # 0
        <5>1. batch[t][d] = 1 /\ k = "batch" /\ h = t
          BY <4>1, <4>4, Zenon DEF OnlyAt
        <5>2. req_queue[d] = 0 /\ resume_queue[d] = 0 /\ sql_native_queue[d] = 0
          BY <4>1, <5>1, Zenon DEF OnlyAt
        <5>3. \/ req_queue'[d] = 0 /\ resume_queue'[d] = 0
              \/ req_queue'[d] = 0 /\ resume_queue'[d] = 1
              \/ req_queue'[d] = 1 /\ resume_queue'[d] = 0
          BY <3>5, <5>1, <5>2, ZeroOne, Positive, Zenon
        <5>4. \A u \in Thread : batch'[u][d] = 0
          BY <3>4, <4>1, <5>1, Zenon DEF OnlyAt
        <5>5. \A u \in Thread : ~(cur'[u] = d /\ pc'[u] \notin {"release", "yield"})
          BY <3>1, <3>2, <4>1, <5>1, Zenon DEF OnlyAt
        <5>6. ~tx_pending'[d] /\ ~CanSignal(d)' /\ Alive(d)'
          BY <3>1, <4>1, <4>2, <5>1, Zenon DEF OnlyAt
        <5>7. OnlyAt(d, "req", NoConn)' \/ OnlyAt(d, "resume", NoConn)'
          BY <3>1, <5>2, <5>3, <5>4, <5>5, <5>6, ZeroOne, Positive, Zenon DEF OnlyAt
        <5> QED  BY <5>7, Zenon DEF Kinds
      <4> QED  BY <4>3, <4>4, Zenon
    <3>7. AtMostOneContinuation'
      BY <3>6, Zenon DEF AtMostOneContinuation
    <3> QED  BY <3>3, <3>7, <1>HoldingKeeps, Zenon DEF Placed
  <2>1. TypeOK'
    BY NextTypeOK, Zenon DEF Next, Process, IInv, Bookkeeping
  <2>2. UNCHANGED << bound, watched, ready, polled, timer, state >>
    BY Zenon DEF Yield, YieldToTx, YieldToQueue, WaitBegin, WaitBeginExt, CanYield, connVars, sockVars
  <2>3. UnboundSilent' /\ TimerOfLive'
    BY <2>2, <1>SameBooks, Zenon DEF IInv
  <2>4. Placed'
    BY <2>YieldToTxKeeps, <2>YieldToQueueKeeps, <2>WaitBeginKeeps, <2>WaitBeginExtKeeps, Zenon DEF Yield,
       IInv, Bookkeeping
  <2> QED  BY <2>1, <2>3, <2>4, Zenon DEF IInv, Bookkeeping
\* tp_callback() after the coroutine keeps the invariant.
<1>LeaveInvariant.
  ASSUME IInv, NEW t \in Thread, NEW c \in Conn, cur[t] = c, Leave(t, c)
  PROVE  IInv'
  <2> USE <1>LeaveInvariant
  \* start_io() that saw new events leaves c in req_queue.
  <2>RequeueKeeps.
    ASSUME TypeOK, Placed, cur[t] = c, Requeue(t, c)
    PROVE  Placed'
    <3> USE <2>RequeueKeeps
    <3>1. HandsOn(t, c)
      BY Zenon DEF Requeue, HandsOn, BusyLabels, connVars
    <3>2. /\ UNCHANGED << resume_queue, sql_native_queue, tx_pending, state, epoll_events, watched, ready, polled, batch >>
          /\ req_queue' = Add(req_queue, c)
      BY Zenon DEF Requeue, connVars, coroVars, sockVars
    <3>3. OnlyAt(c, "req", NoConn)'
      <4>1. req_queue[c] = 0
        BY <3>1, OnThread, <1>HandsOver, Zenon
      <4>2. req_queue'[c] = 1
        BY <4>1, <3>2, ZeroOne, Positive, Zenon DEF Add, TypeOK, QueueTypes
      <4>3. CanSignal(c)' => CanSignal(c)
        BY <3>2, Zenon DEF CanSignal
      <4> QED  BY <3>1, <3>2, <4>2, <4>3, <1>HandedTo, Zenon
    <3>4. \A d \in Conn \ {c} : Untouched(d)
      <4>1. \A d \in Conn \ {c} : /\ req_queue'[d] = req_queue[d] /\ sql_native_queue'[d] = sql_native_queue[d]
                                  /\ (CanSignal(d)' => CanSignal(d))
        BY <3>2, Zenon DEF Add, CanSignal, TypeOK, QueueTypes
      <4> QED  BY <3>1, <3>2, <4>1, <1>OthersStay, Zenon
    <3>5. AtMostOneContinuation'
      BY <3>3, <3>4, <1>OneMoves, Zenon DEF Placed, Kinds
    <3> QED  BY <3>1, <3>5, <1>HandingOn, <1>HoldingKeeps, Zenon DEF Placed
  \* start_io() leaves c to the kernel, or goes on with it.
  <2>StartIOKeeps.
    ASSUME TypeOK, Placed, cur[t] = c, StartIO(t, c)
    PROVE  Placed'
    <3> USE <2>StartIOKeeps
    <3>1. CASE epoll_events[c] # events_snapshot[c]
      <4>1. WorksOn(t, c)
        BY <3>1, Zenon DEF StartIO, WorksOn, BusyLabels, coroVars, queueVars, sockVars, boundVars
      <4> QED  BY <4>1, <1>WorkIsQuiet, <1>QuietKeepsPlaces, Zenon
    <3>2. CASE epoll_events[c] = events_snapshot[c]
      <4>1. HandsOn(t, c)
        BY <3>2, Zenon DEF StartIO, HandsOn, BusyLabels
      <4>2. /\ UNCHANGED << queueVars, tx_pending, state, watched, ready, polled, batch >>
            /\ epoll_events' = [epoll_events EXCEPT ![c] = 0]
        BY <3>2, Zenon DEF StartIO, coroVars, sockVars
      <4>3. OnlyAt(c, "kernel", NoConn)'
        BY <4>1, <4>2, <1>HandedTo, Zenon DEF queueVars
      <4>4. \A d \in Conn \ {c} : Untouched(d)
        <5>1. \A d \in Conn \ {c} : CanSignal(d)' => CanSignal(d)
          BY <4>2, Zenon DEF CanSignal, TypeOK, ConnTypes
        <5> QED  BY <4>1, <4>2, <5>1, <1>OthersStay, Zenon DEF queueVars
      <4>5. AtMostOneContinuation'
        BY <4>3, <4>4, <1>OneMoves, Zenon DEF Placed, Kinds
      <4> QED  BY <4>1, <4>5, <1>HandingOn, <1>HoldingKeeps, Zenon DEF Placed
    <3> QED  BY <3>1, <3>2, Zenon
  \* The first start_io() leaves c to the kernel; if epoll_ctl() fails, there
  \* is no event of c and t closes it.
  <2>BindKeeps.
    ASSUME TypeOK, UnboundSilent, Placed, cur[t] = c, Bind(t, c)
    PROVE  Placed'
    <3> USE <2>BindKeeps
    <3>1. /\ epoll_events' = [epoll_events EXCEPT ![c] = 0]
          /\ UNCHANGED << queueVars, cur, batch, tx_pending, polled, being_processed >>
      BY Zenon DEF Bind, BeginClose, coroVars
    <3>2. CASE HandsOn(t, c) /\ watched' = [watched EXCEPT ![c] = TRUE]
                             /\ \E b \in BOOLEAN : ready' = [ready EXCEPT ![c] = b]
      <4>1. OnlyAt(c, "kernel", NoConn)'
        BY <3>1, <3>2, <1>HandedTo, Zenon DEF queueVars
      <4>2. ASSUME NEW d \in Conn, d # c, CanSignal(d)'  PROVE CanSignal(d)
        <5>1. /\ state' = state /\ epoll_events'[d] = epoll_events[d] /\ polled' = polled
              /\ watched'[d] = watched[d] /\ ready'[d] = ready[d]
          BY <3>1, <3>2, <4>2, Zenon DEF HandsOn, TypeOK, ConnTypes, SockTypes
        <5> QED  BY <4>2, <5>1, Zenon DEF CanSignal
      <4>3. \A d \in Conn \ {c} : Untouched(d)
        BY <3>1, <3>2, <4>2, <1>HandingOn, Zenon DEF Untouched, HandsOn, Alive, TypeOK, queueVars,
           ConnTypes, CoroTypes, ThreadTypes, SockTypes
      <4>4. AtMostOneContinuation'
        BY <4>1, <4>3, <1>OneMoves, Zenon DEF Placed, Kinds
      <4> QED  BY <3>2, <4>4, <1>HandingOn, <1>HoldingKeeps, Zenon DEF Placed
    <3>3. CASE BeginClose(t, c, coro_ret[c])
      <4>1. \A d \in Conn : CanSignal(d)' => CanSignal(d)
        <5>1. ~CanSignal(c)'
          BY <3>3, Zenon DEF Bind, BeginClose, CanSignal, UnboundSilent, TypeOK, ConnTypes, CoroTypes,
             ThreadTypes, SockTypes
        <5>2. \A d \in Conn \ {c} : CanSignal(d)' => CanSignal(d)
          BY <3>1, <3>3, Zenon DEF BeginClose, CanSignal, TypeOK, ConnTypes, CoroTypes, ThreadTypes,
             SockTypes
        <5> QED  BY <5>1, <5>2, Zenon
      <4>2. \A d \in Conn : Alive(d)' <=> Alive(d)
        BY <3>3, OnThread, Zenon DEF Bind, BeginClose, Alive, TypeOK, ConnTypes
      <4>3. \A u \in Thread : pc'[u] = pc[u] \/ (pc[u] = "start_io" /\ pc'[u] = "close")
        BY <3>3, Zenon DEF Bind, BeginClose, Goto, TypeOK, ThreadTypes
      <4>4. Quiet
        BY <3>1, <4>1, <4>2, <4>3, Zenon DEF Quiet
      <4> QED  BY <4>4, <1>QuietKeepsPlaces, Zenon
    <3>4. \/ /\ HandsOn(t, c)
             /\ watched' = [watched EXCEPT ![c] = TRUE]
             /\ \E b \in BOOLEAN : ready' = [ready EXCEPT ![c] = b]
          \/ BeginClose(t, c, coro_ret[c])
      BY Zenon DEF Bind, HandsOn, BusyLabels, TypeOK, ConnTypes, CoroTypes, ThreadTypes, SockTypes
    <3> QED  BY <3>2, <3>3, <3>4, Zenon
  \* being_processed_ is cleared by the only thread that holds c.
  <2>ReleaseKeeps.
    ASSUME TypeOK, Placed, cur[t] = c, Release(t, c)
    PROVE  Placed'
    <3> USE <2>ReleaseKeeps
    <3>1. LetsGo(t, c)
      BY Zenon DEF Release, LetsGo, Goto, TypeOK, ConnTypes, ThreadTypes
    <3>2. \A u \in Thread : cur'[u] # NoConn => u # t /\ cur'[u] = cur[u] /\ pc'[u] = pc[u]
      BY <3>1, SchedAssumption, Zenon DEF TypeOK, LetsGo, ThreadTypes
    <3>3. UNCHANGED << queueVars, batch, tx_pending, state, epoll_events, watched, ready, polled >>
      BY Zenon DEF Release, coroVars, sockVars
    <3>4. ASSUME NEW d \in Conn  PROVE Untouched(d)
      <4>1. (CanSignal(d)' => CanSignal(d)) /\ (Alive(d) => Alive(d)')
        BY <3>3, Zenon DEF CanSignal, Alive
      <4>2. \A u \in Thread : cur'[u] = d => cur[u] = d /\ pc'[u] = pc[u]
        BY <3>2, SchedAssumption, Zenon
      <4> QED  BY <3>3, <4>1, <4>2, Zenon DEF Untouched, queueVars
    <3>5. AtMostOneContinuation'
      BY <3>4, <1>NoneMoves, Zenon DEF Placed
    <3> QED  BY <3>1, <3>5, <1>LettingGoKeeps, Zenon DEF Placed
  <2>1. TypeOK'
    BY NextTypeOK, Zenon DEF Next, Process, IInv, Bookkeeping
  <2>2. CASE Bind(t, c)
    <3>1. UnboundSilent'
      <4>1. \A d \in Conn \ {c} : watched'[d] = watched[d] /\ ready'[d] = ready[d] /\ bound'[d] = bound[d]
        BY <2>2, Zenon DEF Bind, BeginClose, IInv, Bookkeeping, TypeOK, ConnTypes, SockTypes
      <4>2. bound'[c] /\ UNCHANGED polled
        BY <2>2, Zenon DEF Bind, BeginClose, IInv, Bookkeeping, TypeOK, ConnTypes
      <4> QED  BY <4>1, <4>2, Zenon DEF IInv, Bookkeeping, UnboundSilent
    <3>2. TimerOfLive'
      <4>1. \A d \in Conn : state'[d] = state[d] \/ state'[d] = "closing"
        BY <2>2, Zenon DEF Bind, BeginClose, IInv, Bookkeeping, TypeOK, ConnTypes
      <4> QED  BY <2>2, <4>1, Zenon DEF Bind, boundVars, IInv, Bookkeeping, TimerOfLive
    <3> QED  BY <2>1, <2>2, <3>1, <3>2, <2>BindKeeps, Zenon DEF IInv, Bookkeeping
  <2>3. CASE StartIO(t, c) \/ Requeue(t, c) \/ Release(t, c)
    <3>1. UnboundSilent' /\ TimerOfLive'
      BY <2>3, <1>SameBooks, Zenon DEF StartIO, Requeue, Release, connVars, sockVars, boundVars, IInv
    <3> QED  BY <2>1, <2>3, <3>1, <2>StartIOKeeps, <2>RequeueKeeps, <2>ReleaseKeeps, Zenon DEF IInv,
                Bookkeeping
  <2>4. CASE WorksOn(t, c)
    BY <2>1, <2>4, <1>WorkKeepsInvariant, Zenon
  <2> QED  BY <2>2, <2>3, <2>4, <1>StepsThatWork, Zenon DEF Leave, IInv, Bookkeeping
<1> SUFFICES ASSUME IInv, [Next]_vars  PROVE IInv'
  BY Zenon
<1>1. ASSUME NEW t \in Thread, Process(t)  PROVE IInv'
  BY <1>1, <1>EnterInvariant, <1>ExecuteInvariant, <1>YieldInvariant, <1>LeaveInvariant, Zenon DEF Process
<1>2. ASSUME NEW t \in Thread, Dispatch(t)  PROVE IInv'
  BY <1>2, <1>DispatchInvariant, Zenon
<1>3. ASSUME NEW c \in Conn, Environment(c) \/ Resume(c)  PROVE IInv'
  BY <1>3, <1>EnvironmentInvariant, Zenon
<1>4. CASE UNCHANGED vars
  <2> USE <1>4 DEF vars, connVars, coroVars, queueVars, threadVars, sockVars, boundVars
  <2>1. Quiet
    BY Zenon DEF Quiet, Alive, CanSignal
  <2>2. TypeOK'
    BY NextTypeOK, Zenon DEF IInv, Bookkeeping
  <2>3. UnboundSilent' /\ TimerOfLive'
    BY <1>SameBooks, Zenon DEF IInv
  <2> QED  BY <2>1, <2>2, <2>3, <1>QuietKeepsPlaces, Zenon DEF IInv, Bookkeeping
<1> QED  BY <1>1, <1>2, <1>3, <1>4, Zenon DEF Next

\* Whatever clients, KILL, the timer and the transaction service do, and on
\* however many threads, a connection is never scheduled twice.
THEOREM NeverScheduledTwice == Spec => []AtMostOneContinuation
<1>1. Init => IInv
  BY InitInvariant, Zenon
<1>2. IInv /\ [Next]_vars => IInv'
  BY NextInvariant, Zenon
<1>3. IInv => AtMostOneContinuation
  BY Zenon DEF IInv, Placed
<1> QED  BY <1>1, <1>2, <1>3, PTL DEF Spec

\* No two threads ever run the coroutine of one connection, not even while
\* the first is still returning from it: being_processed_ and the single
\* continuation together exclude it.
THEOREM NeverOnTwoThreads == Spec => []OneThreadPerConnection
<1>1. Init => IInv
  BY InitInvariant, Zenon
<1>2. IInv /\ [Next]_vars => IInv'
  BY NextInvariant, Zenon
<1>3. IInv => OneThreadPerConnection
  BY Zenon DEF IInv, Placed
<1> QED  BY <1>1, <1>2, <1>3, PTL DEF Spec

-----------------------------------------------------------------------------
(* Threads in their loop, and coroutines on SQL threads.                   *)

\* A thread that processes no connection is at one of these labels.
Free == {"loop", "batch", "poll", "apply"}

\* A listener only polls; a thread asks for a batch when it has none, and for
\* events when it has none.
ThreadsInLoop ==
  \A t \in Thread :
    /\ cur[t] = NoConn <=> pc[t] \in Free
    /\ t \in Listener => pc[t] \in {"poll", "apply"}
    /\ pc[t] \in {"loop", "poll", "apply"} => \A c \in Conn : batch[t][c] = 0
    /\ pc[t] # "apply" => polled[t] = {}

\* Thread t holds c, at label l.
Holds(t, c, l) == cur[t] = c /\ pc[t] = l

\* The coroutine of c is at stage l, on a thread or where it yielded.
Suspended(c) ==
  coro_status[c] = "ongoing" /\ \A t \in Thread : cur[t] = c => pc[t] \in {"enter", "wait", "yield"}

In(c, l) == (\E t \in Thread : Holds(t, c, l)) \/ (Suspended(c) /\ at[c] = l)

\* The coroutine exists while its thread runs it, waits in it or leaves it by
\* a yield, and the states of a login and of a close tell its stage.
Running(c) ==
  /\ \A t \in Thread : cur[t] = c =>
       /\ pc[t] \in {"login", "read", "snapshot", "broken", "exec", "replied", "close", "wait", "yield"}
            => coro_status[c] = "ongoing"
       /\ pc[t] # "enter" => state[c] # "new"
  /\ state[c] = "connecting" => In(c, "login") \/ In(c, "idle")
  /\ state[c] = "closing" => In(c, "close") /\ in_error[c]

\* A connection that must run on a SQL thread is out of the reach of others.
Native(c) ==
  /\ \A t \in Thread : cur[t] = c =>
       /\ pc[t] \notin {"enter", "wait", "yield"} => ~need_sql_thd[c]
       /\ pc[t] = "enter" /\ need_sql_thd[c] => t \in SqlThread
       /\ pc[t] = "wait" => t \in SqlThread
  /\ CanSignal(c) => ~need_sql_thd[c]
  /\ need_sql_thd[c] =>
       /\ coro_status[c] = "ongoing" /\ state[c] \notin {"none", "new"}
       /\ req_queue[c] = 0 /\ resume_queue[c] = 0
       /\ \A t \in Thread : batch[t][c] > 0 =>
            t \in SqlThread /\ cur[t] = NoConn /\ \A d \in Conn \ {c} : batch[t][d] = 0

\* Labels at which the coroutine of a command runs.
CommandStages == {"read", "snapshot", "broken", "exec", "quit", "replied"}

\* The places of Continuations(c).
Somewhere(c) ==
  \/ req_queue[c] > 0 \/ resume_queue[c] > 0 \/ sql_native_queue[c] > 0
  \/ \E t \in Thread : batch[t][c] > 0
  \/ \E t \in Thread : cur[t] = c /\ pc[t] \notin {"release", "yield"}
  \/ tx_pending[c]
  \/ Parked(c)

\* If no connection times out, its state tells the stage of its coroutine,
\* its socket is watched until it closes, and it is somewhere.
Staged(c) ==
  /\ timer[c] = "none"
  /\ \A t \in Thread : cur[t] = c =>
       /\ pc[t] \in Stages \cup {"wait", "yield"} => coro_status[c] = "ongoing"
       /\ pc[t] \in {"idle", "start_io", "recount", "requeue", "release"} => coro_status[c] = "empty"
       /\ pc[t] = "idle" => state[c] \in {"connecting", "running"}
       /\ pc[t] \in {"start_io", "recount", "requeue", "release"} => state[c] = "idle"
  /\ In(c, "login") => state[c] = "connecting"
  /\ (\E l \in CommandStages : In(c, l)) => state[c] = "running"
  /\ In(c, "close") => state[c] = "closing" /\ in_error[c]
  /\ coro_status[c] = "ongoing" => state[c] \in {"connecting", "running", "closing"}
  /\ coro_status[c] = "empty" => state[c] \in {"none", "new", "idle", "deleted"} \/ In(c, "idle")
  /\ bound[c] /\ state[c] \notin {"closing", "deleted"} => watched[c]
  /\ Alive(c) => Somewhere(c)

-----------------------------------------------------------------------------
(* What a step leaves alone.                                               *)

SameConn(d) ==
  /\ state'[d] = state[d] /\ killed'[d] = killed[d] /\ bound'[d] = bound[d]
  /\ epoll_events'[d] = epoll_events[d] /\ events_snapshot'[d] = events_snapshot[d]
  /\ coro_status'[d] = coro_status[d] /\ need_sql_thd'[d] = need_sql_thd[d]
  /\ at'[d] = at[d] /\ in_error'[d] = in_error[d]
  /\ unread'[d] = unread[d] /\ hup'[d] = hup[d] /\ watched'[d] = watched[d]
  /\ sent'[d] = sent[d] /\ replied'[d] = replied[d] /\ timer'[d] = timer[d]

SameEvents(d) == ready'[d] = ready[d] /\ \A u \in Thread : d \in polled'[u] <=> d \in polled[u]

SameHeld(d) ==
  \A u \in Thread : (cur'[u] = d <=> cur[u] = d) /\ (cur[u] = d => pc'[u] = pc[u])

SamePlaces(d) ==
  /\ req_queue'[d] = req_queue[d] /\ resume_queue'[d] = resume_queue[d]
  /\ sql_native_queue'[d] = sql_native_queue[d] /\ tx_pending'[d] = tx_pending[d]
  /\ \A u \in Thread : batch'[u][d] = batch[u][d]

\* Thread t works on its connection c and keeps it, or lets it go.
Turn(t, c) ==
  /\ \A u \in Thread \ {t} : pc'[u] = pc[u] /\ cur'[u] = cur[u] /\ batch'[u] = batch[u]
  /\ UNCHANGED polled
  /\ \/ cur'[t] = c /\ pc'[t] \notin Free
     \/ cur'[t] = NoConn /\ pc'[t] = "batch"

\* tp_callback() up to the coroutine touches no other connection.
LEMMA EnterOthers ==
  ASSUME TypeOK, NEW t \in Thread, NEW c \in Conn, cur[t] = c, Enter(t, c)
  PROVE  Turn(t, c) /\ batch' = batch
         /\ \A d \in Conn \ {c} : SameConn(d) /\ SameEvents(d) /\ SamePlaces(d)
<1> USE DEF Turn, SameConn, SameEvents, SamePlaces, Free, connVars, coroVars, queueVars, sockVars,
            clientVars, boundVars, Goto
<1>1. CASE LoginImpossible(t, c)
  BY <1>1, ZenonT(40) DEF LoginImpossible, TypeOK, ConnTypes, CoroTypes, ThreadTypes, SockTypes
<1>2. CASE StartLogin(t, c)
  BY <1>2, ZenonT(40) DEF StartLogin, TypeOK, ConnTypes, CoroTypes, ThreadTypes, SockTypes
<1>3. CASE ResumeLoginOrClose(t, c)
  BY <1>3, ZenonT(40) DEF ResumeLoginOrClose, ResumeAt, TypeOK, ConnTypes, CoroTypes, ThreadTypes, SockTypes
<1>4. CASE KilledWhileIdle(t, c)
  <2>1. Turn(t, c) /\ batch' = batch
    BY <1>4, Zenon DEF KilledWhileIdle, BeginClose, TypeOK, ThreadTypes
  <2>2. ASSUME NEW d \in Conn, d # c  PROVE SameConn(d) /\ SameEvents(d) /\ SamePlaces(d)
    BY <1>4, <2>2, Zenon DEF KilledWhileIdle, BeginClose, TypeOK, ConnTypes, CoroTypes, SockTypes
  <2> QED  BY <2>1, <2>2, Zenon
<1>5. CASE StartCommand(t, c)
  BY <1>5, ZenonT(40) DEF StartCommand, TypeOK, ConnTypes, CoroTypes, ThreadTypes, SockTypes
<1>6. CASE ResumeCommand(t, c)
  BY <1>6, ZenonT(40) DEF ResumeCommand, ResumeAt, TypeOK, ConnTypes, CoroTypes, ThreadTypes, SockTypes
<1> QED  BY <1>1, <1>2, <1>3, <1>4, <1>5, <1>6, Zenon DEF Enter

\* The coroutines touch no other connection.
LEMMA ExecuteOthers ==
  ASSUME TypeOK, NEW t \in Thread, NEW c \in Conn, cur[t] = c, Execute(t, c)
  PROVE  Turn(t, c) /\ batch' = batch
         /\ \A d \in Conn \ {c} : SameConn(d) /\ SameEvents(d) /\ SamePlaces(d)
<1> USE DEF Turn, SameConn, SameEvents, SamePlaces, Free, connVars, coroVars, queueVars, sockVars,
            clientVars, boundVars, Goto
<1>1. CASE ReadPacket(t, c)
  BY <1>1, ZenonT(40) DEF ReadPacket, TypeOK, ConnTypes, CoroTypes, ThreadTypes, SockTypes
<1>2. CASE ReadError(t, c)
  BY <1>2, Zenon DEF ReadError, TypeOK, ConnTypes, CoroTypes, ThreadTypes, SockTypes
<1>3. CASE TakeSnapshot(t, c)
  BY <1>3, ZenonT(40) DEF TakeSnapshot, TypeOK, ConnTypes, CoroTypes, ThreadTypes, SockTypes
<1>4. CASE Reply(t, c)
  BY <1>4, ZenonT(40) DEF Reply, TypeOK, ConnTypes, CoroTypes, ThreadTypes, SockTypes, ClientTypes
<1>5. CASE Quit(t, c)
  <2>1. Turn(t, c) /\ batch' = batch
    BY <1>5, Zenon DEF Quit, BeginClose, TypeOK, ThreadTypes
  <2>2. ASSUME NEW d \in Conn, d # c  PROVE SameConn(d) /\ SameEvents(d) /\ SamePlaces(d)
    BY <1>5, <2>2, Zenon DEF Quit, BeginClose, TypeOK, ConnTypes, CoroTypes, SockTypes
  <2> QED  BY <2>1, <2>2, Zenon
<1>6. CASE FinishDead(t, c)
  <2>1. Turn(t, c) /\ batch' = batch
    BY <1>6, Zenon DEF FinishDead, BeginClose, TypeOK, ThreadTypes
  <2>2. ASSUME NEW d \in Conn, d # c  PROVE SameConn(d) /\ SameEvents(d) /\ SamePlaces(d)
    BY <1>6, <2>2, Zenon DEF FinishDead, BeginClose, TypeOK, ConnTypes, CoroTypes, SockTypes
  <2> QED  BY <2>1, <2>2, Zenon
<1>7. CASE FinishCommand(t, c)
  BY <1>7, ZenonT(40) DEF FinishCommand, TypeOK, ConnTypes, CoroTypes, ThreadTypes, SockTypes
<1>8. CASE LoginDone(t, c)
  BY <1>8, ZenonT(40) DEF LoginDone, TypeOK, ConnTypes, CoroTypes, ThreadTypes, SockTypes
<1>9. CASE LoginFailed(t, c)
  <2>1. Turn(t, c) /\ batch' = batch
    BY <1>9, Zenon DEF LoginFailed, BeginClose, TypeOK, ThreadTypes
  <2>2. ASSUME NEW d \in Conn, d # c  PROVE SameConn(d) /\ SameEvents(d) /\ SamePlaces(d)
    BY <1>9, <2>2, Zenon DEF LoginFailed, BeginClose, TypeOK, ConnTypes, CoroTypes, SockTypes
  <2> QED  BY <2>1, <2>2, Zenon
<1>10. CASE CloseDone(t, c)
  <2>1. Turn(t, c) /\ batch' = batch
    BY <1>10, Zenon DEF CloseDone, TypeOK, ThreadTypes
  <2>2. ASSUME NEW d \in Conn, d # c  PROVE SameConn(d) /\ SameEvents(d) /\ SamePlaces(d)
    BY <1>10, <2>2, Zenon DEF CloseDone, TypeOK, ConnTypes, CoroTypes, SockTypes
  <2> QED  BY <2>1, <2>2, Zenon
<1>11. CASE WaitEnd(t, c)
  BY <1>11, ZenonT(40) DEF WaitEnd, TypeOK, ConnTypes, CoroTypes, ThreadTypes, SockTypes
<1> QED  BY <1>1, <1>2, <1>3, <1>4, <1>5, <1>6, <1>7, <1>8, <1>9, <1>10, <1>11, Zenon DEF Execute

\* A yield touches no other connection; a wait section gives the batch back.
LEMMA YieldOthers ==
  ASSUME TypeOK, NEW t \in Thread, NEW c \in Conn, cur[t] = c, Yield(t, c)
  PROVE  /\ Turn(t, c)
         /\ \A d \in Conn \ {c} : SameConn(d) /\ SameEvents(d)
         /\ WaitBegin(t, c) \/ (batch' = batch /\ \A d \in Conn \ {c} : SamePlaces(d))
<1> USE DEF Turn, SameConn, SameEvents, SamePlaces, Free, connVars, coroVars, queueVars, sockVars,
            clientVars, boundVars, Goto, CanYield
<1>1. CASE YieldToTx(t, c)
  BY <1>1, ZenonT(40) DEF YieldToTx, TypeOK, ConnTypes, CoroTypes, ThreadTypes, SockTypes
<1>2. CASE YieldToQueue(t, c)
  BY <1>2, ZenonT(40) DEF YieldToQueue, Add, TypeOK, ConnTypes, CoroTypes, QueueTypes, ThreadTypes, SockTypes
<1>3. CASE WaitBegin(t, c)
  BY <1>3, ZenonT(40) DEF WaitBegin, TypeOK, ConnTypes, CoroTypes, QueueTypes, ThreadTypes, SockTypes
<1>4. CASE WaitBeginExt(t, c)
  BY <1>4, ZenonT(40) DEF WaitBeginExt, Add, TypeOK, ConnTypes, CoroTypes, QueueTypes, ThreadTypes, SockTypes
<1> QED  BY <1>1, <1>2, <1>3, <1>4, Zenon DEF Yield

\* tp_callback() after the coroutine touches no other connection.
LEMMA LeaveOthers ==
  ASSUME TypeOK, NEW t \in Thread, NEW c \in Conn, cur[t] = c, Leave(t, c)
  PROVE  Turn(t, c) /\ batch' = batch
         /\ \A d \in Conn \ {c} : SameConn(d) /\ SameEvents(d) /\ SamePlaces(d)
<1> USE DEF Turn, SameConn, SameEvents, SamePlaces, Free, connVars, coroVars, queueVars, sockVars,
            clientVars, boundVars, Goto
<1>1. CASE SetIdle(t, c)
  BY <1>1, ZenonT(40) DEF SetIdle, TypeOK, ConnTypes, CoroTypes, ThreadTypes, SockTypes
<1>2. CASE Bind(t, c)
  <2>1. Turn(t, c) /\ batch' = batch
    BY <1>2, Zenon DEF Bind, BeginClose, TypeOK, ThreadTypes
  <2>2. ASSUME NEW d \in Conn, d # c  PROVE SameConn(d) /\ SameEvents(d) /\ SamePlaces(d)
    <3>1. SameConn(d)
      <4>1. CASE BeginClose(t, c, coro_ret[c])
        BY <1>2, <2>2, <4>1, Zenon DEF Bind, BeginClose, TypeOK, ConnTypes, CoroTypes, SockTypes
      <4>2. CASE UNCHANGED << state, coroVars >>
        BY <1>2, <2>2, <4>2, ZenonT(40) DEF Bind, BeginClose, TypeOK, ConnTypes, SockTypes
      <4> QED  BY <1>2, <4>1, <4>2, Zenon DEF Bind
    <3>2. SameEvents(d)
      BY <1>2, <2>2, Zenon DEF Bind, BeginClose, TypeOK, ConnTypes, SockTypes
    <3>3. SamePlaces(d)
      BY <1>2, Zenon DEF Bind, BeginClose
    <3> QED  BY <3>1, <3>2, <3>3, Zenon
  <2> QED  BY <2>1, <2>2, Zenon
<1>3. CASE StartIO(t, c)
  BY <1>3, ZeroOne, Positive, ZenonT(40) DEF StartIO, TypeOK, ConnTypes, CoroTypes, ThreadTypes, SockTypes
<1>4. CASE Recount(t, c)
  BY <1>4, ZenonT(40) DEF Recount, TypeOK, ConnTypes, CoroTypes, ThreadTypes, SockTypes
<1>5. CASE Requeue(t, c)
  BY <1>5, ZenonT(40) DEF Requeue, Add, TypeOK, ConnTypes, CoroTypes, QueueTypes, ThreadTypes, SockTypes
<1>6. CASE Release(t, c)
  BY <1>6, Zenon DEF Release, TypeOK, ConnTypes, CoroTypes, ThreadTypes, SockTypes
<1> QED  BY <1>1, <1>2, <1>3, <1>4, <1>5, <1>6, Zenon DEF Leave

\* A thread's turn leaves alone who holds the other connections.
LEMMA TurnHeld ==
  ASSUME NEW t \in Thread, NEW c \in Conn, cur[t] = c, Turn(t, c)
  PROVE  \A d \in Conn \ {c} : SameHeld(d)
  BY SchedAssumption, Zenon DEF Turn, SameHeld

\* The stage of a connection on a thread.
LEMMA StageOf ==
  OneThreadPerConnection =>
    \A t \in Thread, c \in Conn : cur[t] = c =>
      \A l \in Labels :
        In(c, l) <=> \/ pc[t] = l
                     \/ /\ coro_status[c] = "ongoing" /\ at[c] = l
                        /\ pc[t] \in {"enter", "wait", "yield"}
<1> SUFFICES ASSUME OneThreadPerConnection, NEW t \in Thread, NEW c \in Conn, cur[t] = c
             PROVE  \A l \in Labels :
                      In(c, l) <=> \/ pc[t] = l
                                   \/ /\ coro_status[c] = "ongoing" /\ at[c] = l
                                      /\ pc[t] \in {"enter", "wait", "yield"}
  BY Zenon
<1>1. \A u \in Thread : cur[u] = c => u = t
  BY SchedAssumption, Zenon DEF OneThreadPerConnection
<1> QED  BY <1>1, Zenon DEF In, Holds, Suspended

\* The stage of a connection that no thread holds.
LEMMA StageOff ==
  \A c \in Conn : (\A t \in Thread : cur[t] # c) =>
    \A l \in Labels : In(c, l) <=> coro_status[c] = "ongoing" /\ at[c] = l
  BY Zenon DEF In, Holds, Suspended

\* After a turn of its thread no other thread holds c.
LEMMA OnlyHere ==
  ASSUME OneThreadPerConnection, NEW t \in Thread, NEW c \in Conn, cur[t] = c, Turn(t, c)
  PROVE  \A u \in Thread : cur'[u] = c => u = t
  BY SchedAssumption, Zenon DEF OneThreadPerConnection, Turn

\* The stage of c before a turn of its thread.
LEMMA StageBefore ==
  ASSUME OneThreadPerConnection, NEW t \in Thread, NEW c \in Conn, cur[t] = c
  PROVE  \A l \in Labels : In(c, l) <=> \/ pc[t] = l
                                        \/ /\ coro_status[c] = "ongoing" /\ at[c] = l
                                           /\ pc[t] \in {"enter", "wait", "yield"}
  BY StageOf, ZenonT(40)

\* The stage of c after a turn in which its thread keeps it.
LEMMA StageAfter ==
  ASSUME OneThreadPerConnection, NEW t \in Thread, NEW c \in Conn, cur[t] = c, Turn(t, c), cur'[t] = c
  PROVE  \A l \in Labels : In(c, l)' <=> \/ pc'[t] = l
                                         \/ /\ coro_status'[c] = "ongoing" /\ at'[c] = l
                                            /\ pc'[t] \in {"enter", "wait", "yield"}
  BY OnlyHere, Zenon DEF In, Holds, Suspended

\* The stage of c after a turn in which its thread lets it go.
LEMMA StageReleased ==
  ASSUME OneThreadPerConnection, NEW t \in Thread, NEW c \in Conn, cur[t] = c, Turn(t, c), cur'[t] = NoConn
  PROVE  \A l \in Labels : In(c, l)' <=> coro_status'[c] = "ongoing" /\ at'[c] = l
<1>1. \A u \in Thread : cur'[u] # c
  BY OnlyHere, SchedAssumption, Zenon
<1> QED  BY <1>1, Zenon DEF In, Holds, Suspended

-----------------------------------------------------------------------------
(* Connections that only SQL threads may run.                              *)

\* What a step of thread t with cur[t] # NoConn may do with the places of d.
GivesBack(t, d) ==
  /\ req_queue'[d] \in {req_queue[d], req_queue[d] + batch[t][d]}
  /\ resume_queue'[d] \in {resume_queue[d], resume_queue[d] + batch[t][d]}
  /\ batch'[t][d] \in {0, batch[t][d]}

\* wait_begin() passes connections from the batch to a queue.
LEMMA WaitBeginGivesBack ==
  ASSUME TypeOK, NEW t \in Thread, NEW c \in Conn, WaitBegin(t, c), NEW d \in Conn
  PROVE  GivesBack(t, d) /\ sql_native_queue'[d] = sql_native_queue[d] /\ tx_pending'[d] = tx_pending[d]
         /\ batch' = [batch EXCEPT ![t] = Empty]
<1>1. batch'[t][d] = 0
  BY Zenon DEF WaitBegin, Empty, TypeOK, ThreadTypes
<1>2. req_queue'[d] \in {req_queue[d], req_queue[d] + batch[t][d]}
  BY Zenon DEF WaitBegin
<1>3. resume_queue'[d] \in {resume_queue[d], resume_queue[d] + batch[t][d]}
  BY Zenon DEF WaitBegin
<1> QED  BY <1>1, <1>2, <1>3, Zenon DEF WaitBegin, GivesBack

-----------------------------------------------------------------------------
(* Running and Native while connections are dispatched and clients act.    *)

\* Connections are held as before, and those that change stay at their stage.
SameStage(d) ==
  /\ SameHeld(d) /\ coro_status'[d] = coro_status[d] /\ at'[d] = at[d]
  /\ in_error'[d] = in_error[d] /\ need_sql_thd'[d] = need_sql_thd[d]

\* Such a connection stays at its stage.
LEMMA SameStageStays ==
  ASSUME NEW d \in Conn, SameStage(d)
  PROVE  \A l \in Labels : In(d, l)' <=> In(d, l)
<1>1. \A l \in Labels : (\E u \in Thread : Holds(u, d, l))' <=> \E u \in Thread : Holds(u, d, l)
  BY Zenon DEF SameStage, SameHeld, Holds
<1>2. Suspended(d)' <=> Suspended(d)
  BY Zenon DEF SameStage, SameHeld, Suspended
<1> QED  BY <1>1, <1>2, Zenon DEF In, SameStage

\* What a client, KILL, the timer or the transaction service does at most.
LEMMA EnvironmentSteps ==
  ASSUME TypeOK, Bookkeeping, HeldIsAlive, NEW c \in Conn, Environment(c) \/ Resume(c)
  PROVE  /\ UNCHANGED << pc, cur, batch, polled, at, coro_status, in_error, need_sql_thd, bound, watched,
                         replied, being_processed >>
         /\ \A d \in Conn : /\ SameStage(d)
                            /\ \/ state'[d] \in {state[d], "pending"}
                               \/ state[d] = "none" /\ state'[d] = "new" /\ \A u \in Thread : cur[u] # d
         /\ \A d \in Conn \ {c} : SameConn(d) /\ SameEvents(d) /\ SamePlaces(d)
<1> USE DEF connVars, coroVars, queueVars, threadVars, sockVars, clientVars, boundVars, SameConn, SameEvents,
            SamePlaces
<1>1. UNCHANGED << pc, cur, batch, polled, at, coro_status, in_error, need_sql_thd, bound, watched, replied,
                   being_processed >>
  BY Zenon DEF Environment, AddConnection, ClientSend, ClientClose, Kill, TimeoutCheck, TimeoutPending, TimeoutKill,
         Resume
<1>2. \A d \in Conn : SameStage(d)
  BY <1>1, Zenon DEF SameStage, SameHeld
<1>3. \A d \in Conn : \/ state'[d] \in {state[d], "pending"}
                      \/ state[d] = "none" /\ state'[d] = "new" /\ \A u \in Thread : cur[u] # d
  <2>1. CASE AddConnection(c)
    <3>1. \A u \in Thread : cur[u] # c
      BY <2>1, SchedAssumption, Zenon DEF AddConnection, HeldIsAlive, Alive
    <3> QED  BY <2>1, <3>1, Zenon DEF AddConnection, TypeOK, ConnTypes
  <2>2. CASE TimeoutPending(c)
    BY <2>2, Zenon DEF TimeoutPending, TypeOK, ConnTypes
  <2> QED  BY <2>1, <2>2, Zenon DEF Environment, ClientSend, ClientClose, Kill, TimeoutCheck, TimeoutKill, Resume
<1>4. ASSUME NEW d \in Conn, d # c
      PROVE  SameConn(d) /\ SameEvents(d) /\ SamePlaces(d)
  <2>1. CASE AddConnection(c)
    BY <1>4, <2>1, Zenon DEF AddConnection, Add, TypeOK, ConnTypes, QueueTypes
  <2>2. CASE ClientSend(c)
    BY <1>4, <2>2, Zenon DEF ClientSend, Signal, TypeOK, SockTypes, ClientTypes
  <2>3. CASE ClientClose(c)
    BY <1>4, <2>3, Zenon DEF ClientClose, Signal, TypeOK, SockTypes
  <2>4. CASE Kill(c)
    BY <1>4, <2>4, Zenon DEF Kill, Signal, TypeOK, ConnTypes, SockTypes
  <2>5. CASE TimeoutCheck(c)
    BY <1>4, <2>5, Zenon DEF TimeoutCheck, TypeOK, BoundTypes
  <2>6. CASE TimeoutPending(c)
    BY <1>4, <2>6, Zenon DEF TimeoutPending, TypeOK, ConnTypes, BoundTypes
  <2>7. CASE TimeoutKill(c)
    BY <1>4, <2>7, Zenon DEF TimeoutKill, Signal, TypeOK, ConnTypes, SockTypes, BoundTypes
  <2>8. CASE Resume(c)
    BY <1>4, <2>8, Zenon DEF Resume, Add, TypeOK, CoroTypes, QueueTypes
  <2> QED  BY <2>1, <2>2, <2>3, <2>4, <2>5, <2>6, <2>7, <2>8, Zenon DEF Environment
<1> QED  BY <1>1, <1>2, <1>3, <1>4, Zenon

\* Dispatching changes nothing of the connections but their places, the
\* events under way and the count of events.
Dispatched(t) ==
  /\ UNCHANGED << state, killed, bound, events_snapshot, being_processed, coroVars, unread, hup, watched,
                  clientVars, boundVars >>
  /\ \A u \in Thread \ {t} : pc'[u] = pc[u] /\ cur'[u] = cur[u] /\ batch'[u] = batch[u]
  /\ cur[t] = NoConn /\ pc[t] \in Free

\* Taking work from a queue, picking from a batch, polling and counting
\* events are such steps.
LEMMA DispatchSteps ==
  ASSUME TypeOK, ThreadsInLoop, NEW t \in Thread, Dispatch(t)
  PROVE  Dispatched(t)
<1> USE DEF Dispatched, Free, connVars, sockVars, Goto
<1>1. pc[t] \in Free
  BY Zenon DEF Dispatch, GetNative, GetResumed, GetRequests, GetNothing, Skip, Pick, EndOfBatch, Poll,
     ApplyEvent
<1>2. cur[t] = NoConn
  BY <1>1, Zenon DEF ThreadsInLoop
<1>3. CASE GetNative(t)
  BY <1>1, <1>2, <1>3, Zenon DEF GetNative, TakeFrom, TypeOK, ThreadTypes
<1>4. CASE GetResumed(t)
  BY <1>1, <1>2, <1>4, Zenon DEF GetResumed, TakeAll, TypeOK, ThreadTypes
<1>5. CASE GetRequests(t)
  BY <1>1, <1>2, <1>5, Zenon DEF GetRequests, TakeAll, TypeOK, ThreadTypes
<1>6. CASE GetNothing(t) \/ EndOfBatch(t)
  BY <1>1, <1>2, <1>6, Zenon DEF GetNothing, EndOfBatch, TypeOK, ThreadTypes
<1>7. ASSUME NEW c \in Conn, Skip(t, c) \/ Pick(t, c)  PROVE Dispatched(t)
  BY <1>1, <1>2, <1>7, Zenon DEF Skip, Pick, TypeOK, ThreadTypes
<1>8. CASE Poll(t)
  BY <1>1, <1>2, <1>8, Zenon DEF Poll, TypeOK, ThreadTypes
<1>9. ASSUME NEW c \in Conn, ApplyEvent(t, c)  PROVE Dispatched(t)
  BY <1>1, <1>2, <1>9, Zenon DEF ApplyEvent, TypeOK, ThreadTypes
<1> QED  BY <1>3, <1>4, <1>5, <1>6, <1>7, <1>8, <1>9, Zenon DEF Dispatch

\* A thread that picks a connection holds it; otherwise it holds none.
LEMMA DispatchHolds ==
  ASSUME TypeOK, Placed, ThreadsInLoop, NEW t \in Thread, Dispatch(t), NEW d \in Conn
  PROVE  \/ SameHeld(d)
         \/ Pick(t, d) /\ cur'[t] = d /\ pc'[t] = "enter" /\ \A u \in Thread : cur[u] # d
\* Nobody holds a connection that a thread picks from its batch.
<1>PickFree.
  ASSUME TypeOK, Placed, NEW c \in Conn, Pick(t, c)
  PROVE  \A u \in Thread : cur[u] # c
  <2> USE <1>PickFree
  <2>1. batch[t][c] > 0 /\ ~being_processed[c]
    BY Zenon DEF Pick
  <2> SUFFICES ASSUME NEW u \in Thread, cur[u] = c  PROVE FALSE
    BY Zenon
  <2>2. CASE pc[u] = "enter"
    BY <2>1, <2>2, OnThread, ZeroOne, Positive, Zenon
  <2>3. CASE pc[u] # "enter"
    BY <2>1, <2>3, SchedAssumption, Zenon DEF Placed, HeldIsProcessed
  <2> QED  BY <2>2, <2>3, Zenon
<1>1. Dispatched(t)
  BY DispatchSteps, Zenon
<1>2. ASSUME NEW c \in Conn, Pick(t, c)
      PROVE  \/ SameHeld(d)
             \/ Pick(t, d) /\ cur'[t] = d /\ pc'[t] = "enter" /\ \A u \in Thread : cur[u] # d
  <2>1. cur'[t] = c /\ pc'[t] = "enter" /\ \A u \in Thread : cur[u] # c
    BY <1>2, <1>PickFree, Zenon DEF Pick, Goto, TypeOK, ThreadTypes
  <2>2. CASE d = c
    BY <1>2, <2>1, <2>2, Zenon
  <2>3. CASE d # c
    BY <1>1, <2>1, <2>3, SchedAssumption, Zenon DEF Dispatched, SameHeld
  <2> QED  BY <2>2, <2>3, Zenon
<1>3. CASE cur' = cur
  BY <1>1, <1>3, SchedAssumption, Zenon DEF Dispatched, SameHeld
<1>4. cur' = cur \/ \E c \in Conn : Pick(t, c)
  BY Zenon DEF Dispatch, GetNative, GetResumed, GetRequests, GetNothing, TakeFrom, TakeAll, Skip,
     EndOfBatch, Poll, ApplyEvent
<1> QED  BY <1>2, <1>3, <1>4, Zenon

\* The first part of the inductive invariant.
LoopInv == IInv /\ ThreadsInLoop /\ \A c \in Conn : Running(c) /\ Native(c)

\* It holds initially.
LEMMA InitLoop == Init => LoopInv
<1> SUFFICES ASSUME Init  PROVE LoopInv
  BY Zenon
<1>1. IInv
  BY InitInvariant, Zenon
<1>2. ThreadsInLoop
  BY SchedAssumption, Zenon DEF Init, ThreadsInLoop, Free, Empty, Thread, Worker
<1>3. ASSUME NEW c \in Conn  PROVE Running(c) /\ Native(c)
  <2>1. \A t \in Thread : cur[t] # c
    BY SchedAssumption, Zenon DEF Init
  <2>2. state[c] = "none" /\ ~need_sql_thd[c]
    BY Zenon DEF Init
  <2> QED  BY <2>1, <2>2, Zenon DEF Running, Native
<1> QED  BY <1>1, <1>2, <1>3, Zenon DEF LoopInv

\* It is inductive.
LEMMA NextLoop == LoopInv /\ [Next]_vars => LoopInv'
\* The threads stay in their loops while they take batches and events.
<1>DispatchInLoop.
  ASSUME TypeOK, ThreadsInLoop, NEW t \in Thread, Dispatch(t)
  PROVE  ThreadsInLoop'
  <2> USE <1>DispatchInLoop
  <2> USE SchedAssumption DEF Free, Goto
  <2>Moved.
    ASSUME \A u \in Thread \ {t} : pc'[u] = pc[u] /\ cur'[u] = cur[u] /\ batch'[u] = batch[u] /\ polled'[u] = polled[u],
           cur'[t] = NoConn <=> pc'[t] \in Free,
           pc'[t] # "apply" => polled'[t] = {},
           t \in Listener => pc'[t] \in {"poll", "apply"},
           pc'[t] \in {"loop", "poll", "apply"} => \A c \in Conn : batch'[t][c] = 0
    PROVE  ThreadsInLoop'
    <3>1. ASSUME NEW u \in Thread
          PROVE  /\ cur'[u] = NoConn <=> pc'[u] \in Free
                 /\ u \in Listener => pc'[u] \in {"poll", "apply"}
                 /\ pc'[u] \in {"loop", "poll", "apply"} => \A c \in Conn : batch'[u][c] = 0
                 /\ pc'[u] # "apply" => polled'[u] = {}
      <4>1. CASE u = t
        BY <2>Moved, <4>1, Zenon
      <4>2. CASE u # t
        <5>1. pc'[u] = pc[u] /\ cur'[u] = cur[u] /\ batch'[u] = batch[u] /\ polled'[u] = polled[u]
          BY <2>Moved, <4>2, Zenon
        <5>2. /\ cur[u] = NoConn <=> pc[u] \in Free
              /\ u \in Listener => pc[u] \in {"poll", "apply"}
              /\ pc[u] \in {"loop", "poll", "apply"} => \A c \in Conn : batch[u][c] = 0
              /\ pc[u] # "apply" => polled[u] = {}
          BY Zenon DEF ThreadsInLoop
        <5> HIDE DEF Free
        <5> QED  BY <5>1, <5>2, Zenon
      <4> QED  BY <4>1, <4>2, Zenon
    <3> QED  BY <3>1, Zenon DEF ThreadsInLoop
  <2>1. CASE GetNative(t) \/ GetResumed(t) \/ GetRequests(t)
    <3>1. /\ pc[t] = "loop" /\ Goto(t, "batch") /\ UNCHANGED << cur, polled >>
          /\ \A u \in Thread \ {t} : batch'[u] = batch[u]
      BY <2>1, Zenon DEF GetNative, GetResumed, GetRequests, TakeFrom, TakeAll, TypeOK, ThreadTypes
    <3>2. t \notin Listener /\ cur[t] = NoConn /\ polled[t] = {}
      BY <3>1, Zenon DEF ThreadsInLoop
    <3>3. pc'[t] = "batch" /\ \A u \in Thread \ {t} : pc'[u] = pc[u]
      BY <3>1, Zenon DEF TypeOK, ThreadTypes
    <3> QED  BY <3>1, <3>2, <3>3, <2>Moved, Zenon
  <2>2. CASE GetNothing(t) \/ EndOfBatch(t)
    <3>1. /\ pc[t] \in {"loop", "batch"} /\ Goto(t, "poll") /\ UNCHANGED << cur, polled, batch >>
          /\ pc[t] = "loop" \/ \A c \in Conn : batch[t][c] = 0
      BY <2>2, Zenon DEF GetNothing, EndOfBatch, Empty
    <3>2. cur[t] = NoConn /\ polled[t] = {} /\ \A c \in Conn : batch[t][c] = 0
      BY <3>1, Zenon DEF ThreadsInLoop
    <3>3. pc'[t] = "poll" /\ \A u \in Thread \ {t} : pc'[u] = pc[u]
      BY <3>1, Zenon DEF TypeOK, ThreadTypes
    <3> QED  BY <3>1, <3>2, <3>3, <2>Moved, Zenon
  <2>3. ASSUME NEW c \in Conn, Skip(t, c)  PROVE ThreadsInLoop'
    <3>1. /\ pc[t] = "batch" /\ UNCHANGED << pc, cur, polled >>
          /\ \A u \in Thread \ {t} : batch'[u] = batch[u]
      BY <2>3, Zenon DEF Skip, TypeOK, ThreadTypes
    <3>2. t \notin Listener /\ cur[t] = NoConn /\ polled[t] = {}
      BY <3>1, Zenon DEF ThreadsInLoop
    <3> QED  BY <3>1, <3>2, <2>Moved, Zenon
  <2>4. ASSUME NEW c \in Conn, Pick(t, c)  PROVE ThreadsInLoop'
    <3>1. /\ pc[t] = "batch" /\ Goto(t, "enter") /\ cur' = [cur EXCEPT ![t] = c]
          /\ UNCHANGED polled /\ \A u \in Thread \ {t} : batch'[u] = batch[u]
      BY <2>4, Zenon DEF Pick, TypeOK, ThreadTypes
    <3>2. t \notin Listener /\ polled[t] = {}
      BY <3>1, Zenon DEF ThreadsInLoop
    <3>3. pc'[t] = "enter" /\ cur'[t] = c /\ \A u \in Thread \ {t} : pc'[u] = pc[u] /\ cur'[u] = cur[u]
      BY <3>1, Zenon DEF TypeOK, ThreadTypes
    <3> QED  BY <3>1, <3>2, <3>3, <2>Moved, Zenon
  <2>5. CASE Poll(t)
    <3>1. pc[t] = "poll" /\ UNCHANGED << cur, batch >>
      BY <2>5, Zenon DEF Poll
    <3>2. /\ \A u \in Thread \ {t} : pc'[u] = pc[u] /\ polled'[u] = polled[u]
          /\ pc'[t] = IF \E c \in Conn : ready[c] THEN "apply" ELSE "loop"
          /\ polled'[t] = {c \in Conn : ready[c]}
      BY <2>5, Zenon DEF Poll, TypeOK, ThreadTypes
    <3>3. t \in Listener => pc'[t] = "apply"
      BY <2>5, <3>2, Zenon DEF Poll
    <3>4. pc'[t] # "apply" => polled'[t] = {}
      BY <3>2, Zenon
    <3> QED  BY <3>1, <3>2, <3>3, <3>4, Zenon DEF ThreadsInLoop
  <2>6. ASSUME NEW c \in Conn, ApplyEvent(t, c)  PROVE ThreadsInLoop'
    <3>1. pc[t] = "apply" /\ UNCHANGED << cur, batch >> /\ c \in polled[t]
      BY <2>6, Zenon DEF ApplyEvent
    <3>2. /\ \A u \in Thread \ {t} : pc'[u] = pc[u] /\ polled'[u] = polled[u]
          /\ pc'[t] = IF polled[t] # {c} THEN "apply" ELSE IF t \in Worker THEN "loop" ELSE "poll"
          /\ polled'[t] = polled[t] \ {c}
      BY <2>6, Zenon DEF ApplyEvent, TypeOK, ThreadTypes
    <3>3. pc'[t] # "apply" => polled'[t] = {}
      BY <3>2, Zenon
    <3>4. t \in Listener => t \notin Worker
      BY Zenon DEF Worker
    <3> QED  BY <3>1, <3>2, <3>3, <3>4 DEF ThreadsInLoop
  <2> QED  BY <2>1, <2>2, <2>3, <2>4, <2>5, <2>6, Zenon DEF Dispatch
\* A step outside tp_callback() enters no login and no close.
<1>SameStageRunning.
  ASSUME NEW d \in Conn, Running(d), SameStage(d),
         \/ state'[d] \in {state[d], "pending"}
         \/ state[d] = "none" /\ state'[d] = "new" /\ \A u \in Thread : cur[u] # d
  PROVE  Running(d)'
  <2> USE <1>SameStageRunning
  <2>1. (In(d, "login")' <=> In(d, "login")) /\ (In(d, "idle")' <=> In(d, "idle")) /\ (In(d, "close")' <=> In(d, "close"))
    BY SameStageStays, Zenon DEF Labels
  <2> QED  BY <2>1, Zenon DEF Running, SameStage, SameHeld
\* Coroutines keep running while connections are dispatched.
<1>DispatchRunning.
  ASSUME TypeOK, Placed, ThreadsInLoop, NEW t \in Thread, Dispatch(t), NEW d \in Conn, Running(d)
  PROVE  Running(d)'
  <2> USE <1>DispatchRunning
  \* Dispatching moves no coroutine to another stage.
  <2>DispatchStages.
    ASSUME TypeOK, Placed, ThreadsInLoop, Dispatch(t)
    PROVE  \A l \in Labels \ {"enter"} : In(d, l)' <=> In(d, l)
    <3> USE <2>DispatchStages
    <3>1. UNCHANGED << coro_status, at, in_error, need_sql_thd >>
      BY DispatchSteps, Zenon DEF Dispatched, coroVars
    <3>2. CASE SameHeld(d)
      BY <3>1, <3>2, SameStageStays, Zenon DEF SameStage
    <3>3. CASE Pick(t, d) /\ cur'[t] = d /\ pc'[t] = "enter" /\ \A u \in Thread : cur[u] # d
      <4>1. \A u \in Thread : cur'[u] = d => pc'[u] = "enter"
        BY <3>3, DispatchSteps, Zenon DEF Dispatched
      <4>2. \A l \in Labels \ {"enter"} : In(d, l)' <=> coro_status'[d] = "ongoing" /\ at'[d] = l
        BY <4>1, Zenon DEF In, Holds, Suspended
      <4>3. \A l \in Labels : In(d, l) <=> coro_status[d] = "ongoing" /\ at[d] = l
        BY <3>3, StageOff, Zenon
      <4> QED  BY <3>1, <4>2, <4>3, Zenon
    <3> QED  BY <3>2, <3>3, DispatchHolds, Zenon
  <2>1. UNCHANGED << coro_status, at, in_error, need_sql_thd, state >>
    BY DispatchSteps, Zenon DEF Dispatched, coroVars
  <2>2. (In(d, "login")' <=> In(d, "login")) /\ (In(d, "idle")' <=> In(d, "idle")) /\ (In(d, "close")' <=> In(d, "close"))
    BY <2>DispatchStages, Zenon DEF Labels
  <2>3. CASE SameHeld(d)
    BY <2>1, <2>2, <2>3, Zenon DEF Running, SameHeld
  <2>4. CASE Pick(t, d) /\ cur'[t] = d /\ pc'[t] = "enter" /\ \A u \in Thread : cur[u] # d
    <3>1. \A u \in Thread : cur'[u] = d => pc'[u] = "enter"
      BY <2>4, DispatchSteps, Zenon DEF Dispatched
    <3> QED  BY <2>1, <2>2, <3>1, Zenon DEF Running
  <2> QED  BY <2>3, <2>4, DispatchHolds, Zenon
\* Only SQL threads get hold of connections that need one.
<1>DispatchNative.
  ASSUME TypeOK, Placed, ThreadsInLoop, NEW t \in Thread, Dispatch(t), \A e \in Conn : Native(e), NEW d \in Conn
  PROVE  Native(d)'
  <2> USE <1>DispatchNative
  <2> USE DEF coroVars, Goto
  <2>1. /\ UNCHANGED << state, coro_status, need_sql_thd >>
        /\ \A u \in Thread \ {t} : pc'[u] = pc[u] /\ cur'[u] = cur[u] /\ batch'[u] = batch[u]
        /\ cur[t] = NoConn
    BY DispatchSteps, Zenon DEF Dispatched
  <2>2. CASE ~need_sql_thd[d]
    <3>1. \A u \in Thread : cur'[u] = d => pc'[u] # "wait" \/ u \in SqlThread
      <4>1. CASE SameHeld(d)
        BY <4>1, Zenon DEF SameHeld, Native
      <4>2. CASE Pick(t, d) /\ cur'[t] = d /\ pc'[t] = "enter" /\ \A u \in Thread : cur[u] # d
        BY <2>1, <4>2, Zenon
      <4> QED  BY <4>1, <4>2, DispatchHolds, Zenon
    <3> QED  BY <2>1, <2>2, <3>1, Zenon DEF Native
  <2>3. CASE need_sql_thd[d]
    <3>1. /\ coro_status[d] = "ongoing" /\ state[d] \notin {"none", "new"}
          /\ req_queue[d] = 0 /\ resume_queue[d] = 0 /\ ~CanSignal(d)
          /\ \A u \in Thread : batch[u][d] > 0 =>
              u \in SqlThread /\ cur[u] = NoConn /\ \A e \in Conn \ {d} : batch[u][e] = 0
          /\ \A u \in Thread : cur[u] = d => pc[u] \in {"enter", "wait", "yield"}
          /\ \A u \in Thread : cur[u] = d /\ pc[u] \in {"enter", "wait"} => u \in SqlThread
      BY <2>3, Zenon DEF Native
    <3>2. ASSUME req_queue'[d] = 0, resume_queue'[d] = 0, ~CanSignal(d)',
                 batch'[t][d] > 0 => t \in SqlThread /\ cur'[t] = NoConn /\ \A e \in Conn \ {d} : batch'[t][e] = 0,
                 Pick(t, d) => t \in SqlThread
          PROVE  Native(d)'
      <4>1. \A u \in Thread : batch'[u][d] > 0 =>
              u \in SqlThread /\ cur'[u] = NoConn /\ \A e \in Conn \ {d} : batch'[u][e] = 0
        BY <2>1, <3>1, <3>2
      <4>2. \A u \in Thread : cur'[u] = d => /\ pc'[u] \in {"enter", "wait", "yield"}
                                             /\ pc'[u] \in {"enter", "wait"} => u \in SqlThread
        <5>1. CASE SameHeld(d)
          BY <3>1, <5>1, Zenon DEF SameHeld
        <5>2. CASE Pick(t, d) /\ cur'[t] = d /\ pc'[t] = "enter" /\ \A u \in Thread : cur[u] # d
          BY <2>1, <3>2, <5>2, Zenon
        <5> QED  BY <5>1, <5>2, DispatchHolds, Zenon
      <4> QED  BY <2>1, <2>3, <3>1, <3>2, <4>1, <4>2, Zenon DEF Native
    <3>3. CASE GetNative(t)
      <4>1. PICK c \in Conn : batch' = [batch EXCEPT ![t] = [Empty EXCEPT ![c] = 1]]
        BY <3>3, Zenon DEF GetNative, TakeFrom
      <4>2. \A e \in Conn : batch'[t][e] = IF e = c THEN 1 ELSE 0
        BY <4>1, Zenon DEF Empty, TypeOK, ThreadTypes
      <4>3. ~CanSignal(d)' /\ t \in SqlThread /\ cur' = cur /\ UNCHANGED << req_queue, resume_queue >> /\ ~Pick(t, d)
        BY <3>1, <3>3, Zenon DEF GetNative, TakeFrom, CanSignal, connVars, sockVars, Pick
      <4> QED  BY <2>1, <3>1, <3>2, <4>2, <4>3
    <3>4. CASE GetResumed(t)
      <4>1. /\ batch'[t][d] = 0 /\ ~CanSignal(d)' /\ UNCHANGED req_queue /\ resume_queue'[d] = 0 /\ ~Pick(t, d)
        BY <3>1, <3>4, Zenon DEF GetResumed, TakeAll, CanSignal, connVars, sockVars, Pick, Empty, TypeOK,
           ConnTypes, CoroTypes, QueueTypes, ThreadTypes, SockTypes
      <4> QED  BY <3>1, <3>2, <4>1, ZeroOne, Positive, Zenon
    <3>5. CASE GetRequests(t)
      <4>1. /\ batch'[t][d] = 0 /\ ~CanSignal(d)' /\ UNCHANGED resume_queue /\ req_queue'[d] = 0 /\ ~Pick(t, d)
        BY <3>1, <3>5, Zenon DEF GetRequests, TakeAll, CanSignal, connVars, sockVars, Pick, Empty, TypeOK,
           ConnTypes, CoroTypes, QueueTypes, ThreadTypes, SockTypes
      <4> QED  BY <3>1, <3>2, <4>1, ZeroOne, Positive, Zenon
    <3>6. CASE GetNothing(t) \/ EndOfBatch(t)
      <4>1. /\ batch' = batch /\ cur' = cur /\ ~CanSignal(d)' /\ UNCHANGED << req_queue, resume_queue >> /\ ~Pick(t, d)
        BY <3>1, <3>6, ZenonT(40) DEF GetNothing, EndOfBatch, CanSignal, connVars, queueVars, sockVars, Pick,
           TypeOK, ConnTypes, CoroTypes, ThreadTypes, SockTypes
      <4> QED  BY <3>1, <3>2, <4>1, Zenon
    <3>7. ASSUME NEW c \in Conn, Skip(t, c)  PROVE Native(d)'
      <4>1. /\ cur' = cur /\ ~CanSignal(d)' /\ UNCHANGED req_queue /\ ~Pick(t, d)
            /\ \A e \in Conn : batch'[t][e] = IF e = c THEN batch[t][e] - 1 ELSE batch[t][e]
        <5>1. pc' = pc /\ pc[t] = "batch"
          BY <3>7, Zenon DEF Skip
        <5>2. ~Pick(t, d)
          BY <5>1, Zenon DEF Pick, TypeOK, ThreadTypes
        <5> QED  BY <3>1, <3>7, <5>2, ZenonT(40) DEF Skip, CanSignal, connVars, sockVars, TypeOK, ConnTypes,
                    CoroTypes, QueueTypes, ThreadTypes, SockTypes
      <4>2. resume_queue'[d] = 0
        <5>1. CASE d = c
          BY <2>3, <3>1, <3>7, <5>1, Zenon DEF Skip
        <5>2. CASE d # c
          BY <3>1, <3>7, <5>2, Zenon DEF Skip, Add, TypeOK, QueueTypes
        <5> QED  BY <5>1, <5>2, Zenon
      <4>3. \A e \in Conn : batch[t][e] \in Nat
        BY Zenon DEF TypeOK, ThreadTypes
      <4>4. batch[t][c] > 0
        BY <3>7, Zenon DEF Skip
      <4>5. \A e \in Conn : batch[t][e] = 0 => batch'[t][e] = 0
        BY <4>1, <4>4, ZeroOne, Positive, Zenon
      <4>6. batch'[t][d] > 0 => batch[t][d] > 0
        BY <4>1, <4>3, <4>4, Zenon
      <4> QED  BY <3>1, <3>2, <4>1, <4>2, <4>5, <4>6, Zenon
    <3>8. ASSUME NEW c \in Conn, Pick(t, c)  PROVE Native(d)'
      <4>1. /\ ~CanSignal(d)' /\ UNCHANGED << req_queue, resume_queue >> /\ batch[t][c] > 0
            /\ cur'[t] = c
            /\ \A e \in Conn : batch'[t][e] = IF e = c THEN batch[t][e] - 1 ELSE batch[t][e]
        BY <3>1, <3>8, ZenonT(40) DEF Pick, CanSignal, connVars, queueVars, sockVars, TypeOK, ConnTypes,
           CoroTypes, ThreadTypes, SockTypes
      <4>2. Pick(t, d) => t \in SqlThread
        BY <3>1, Zenon DEF Pick
      <4>3. ~(batch'[t][d] > 0)
        <5>1. CASE d = c
          <6>1. PICK k \in Kinds, h \in Thread \cup {NoConn} : OnlyAt(c, k, h)
            BY Zenon DEF Placed, AtMostOneContinuation
          <6>2. batch[t][c] = 1
            BY <4>1, <6>1, ZeroOne, Positive, Zenon DEF OnlyAt
          <6> QED  BY <4>1, <5>1, <6>2
        <5>2. CASE d # c
          <6>1. batch[t][c] # 0
            BY <4>1, ZeroOne, Positive, Zenon
          <6> QED  BY <3>1, <4>1, <5>2, <6>1, Zenon
        <5> QED  BY <5>1, <5>2, Zenon
      <4> QED  BY <3>1, <3>2, <4>1, <4>2, <4>3, Zenon
    <3>9. CASE Poll(t)
      <4>1. /\ batch' = batch /\ cur' = cur /\ UNCHANGED << req_queue, resume_queue >> /\ ~Pick(t, d)
        BY <3>9, Zenon DEF Poll, queueVars, Pick
      <4>2. ~CanSignal(d)'
        BY <3>1, <3>9, ZenonT(40) DEF Poll, CanSignal, connVars, TypeOK, ConnTypes, CoroTypes, ThreadTypes,
           SockTypes
      <4> QED  BY <3>1, <3>2, <4>1, <4>2, Zenon
    <3>10. ASSUME NEW c \in Conn, ApplyEvent(t, c)  PROVE Native(d)'
      <4>1. /\ batch' = batch /\ cur' = cur /\ UNCHANGED resume_queue /\ ~Pick(t, d)
        BY <3>10, Zenon DEF ApplyEvent, Pick
      <4>2. ~CanSignal(d)'
        BY <3>1, <3>10 DEF ApplyEvent, CanSignal, Add, connVars, sockVars, TypeOK, ConnTypes, CoroTypes,
           QueueTypes, ThreadTypes, SockTypes
      <4>3. req_queue'[d] = 0
        BY <3>1, <3>10, ZeroOne, Positive, ZenonT(40) DEF ApplyEvent, CanSignal, Add, TypeOK, ConnTypes, QueueTypes
      <4> QED  BY <3>1, <3>2, <4>1, <4>2, <4>3, Zenon
    <3> QED  BY <3>3, <3>4, <3>5, <3>6, <3>7, <3>8, <3>9, <3>10, Zenon DEF Dispatch
  <2> QED  BY <2>2, <2>3, Zenon
\* Clients, KILL, the timer and the transaction service respect it, too.
<1>EnvironmentNative.
  ASSUME TypeOK, Bookkeeping, Placed, NEW c \in Conn, Environment(c) \/ Resume(c), NEW d \in Conn, Native(d)
  PROVE  Native(d)'
  <2> USE <1>EnvironmentNative
  <2> USE DEF connVars, coroVars, queueVars, sockVars
  <2>1. /\ UNCHANGED << pc, cur, batch, polled, coro_status, need_sql_thd, watched >>
        /\ \/ state'[d] \in {state[d], "pending"}
           \/ state[d] = "none" /\ state'[d] = "new" /\ \A u \in Thread : cur[u] # d
        /\ d # c => SameConn(d) /\ SameEvents(d) /\ SamePlaces(d)
    BY EnvironmentSteps, Zenon DEF Placed
  <2>2. CASE ~need_sql_thd[d]
    BY <2>1, <2>2, Zenon DEF Native
  <2>3. CASE need_sql_thd[d]
    <3>1. state[d] # "none"
      BY <2>3, Zenon DEF Native
    <3>2. req_queue'[d] = 0 /\ resume_queue'[d] = 0
      <4>1. CASE d # c
        BY <2>1, <2>3, <4>1, Zenon DEF Native, SamePlaces
      <4>2. CASE d = c
        <5>1. UNCHANGED req_queue
          BY <3>1, <4>2, Zenon DEF Environment, AddConnection, ClientSend, ClientClose, Kill, TimeoutCheck,
             TimeoutPending, TimeoutKill, Resume
        <5>2. resume_queue'[d] = resume_queue[d]
          BY <2>3, <4>2, Zenon DEF Environment, AddConnection, ClientSend, ClientClose, Kill, TimeoutCheck,
             TimeoutPending, TimeoutKill, Resume
        <5> QED  BY <2>3, <5>1, <5>2, Zenon DEF Native
      <4> QED  BY <4>1, <4>2, Zenon
    <3>3. ~CanSignal(d)'
      <4>1. CASE d # c
        BY <2>1, <2>3, <4>1, Zenon DEF Native, CanSignal, SameConn, SameEvents
      <4>2. CASE d = c
        <5>1. UNCHANGED epoll_events
          BY <3>1, <4>2, Zenon DEF Environment, AddConnection, ClientSend, ClientClose, Kill, TimeoutCheck,
             TimeoutPending, TimeoutKill, Resume
        <5>2. ready'[d] => ready[d] \/ watched[d]
          BY <4>2, Zenon DEF Environment, AddConnection, ClientSend, ClientClose, Kill, TimeoutCheck,
             TimeoutPending, TimeoutKill, Resume, Signal, TypeOK, SockTypes
        <5>3. state'[d] # "deleted" => state[d] # "deleted"
          <6>1. TimeoutPending(c) => state[c] # "deleted"
            BY Zenon DEF TimeoutPending, Bookkeeping, TimerOfLive
          <6>2. CASE TimeoutPending(c)
            BY <4>2, <6>1, <6>2, Zenon
          <6>3. CASE ~TimeoutPending(c)
            BY <3>1, <4>2, <6>3, Zenon DEF Environment, AddConnection, ClientSend, ClientClose, Kill, TimeoutCheck,
             TimeoutPending, TimeoutKill, Resume
          <6> QED  BY <6>2, <6>3, Zenon
        <5> QED  BY <2>1, <2>3, <5>1, <5>2, <5>3, Zenon DEF Native, CanSignal
      <4> QED  BY <4>1, <4>2, Zenon
    <3> QED  BY <2>1, <2>3, <3>1, <3>2, <3>3, Zenon DEF Native
  <2> QED  BY <2>2, <2>3, Zenon
\* A thread at work on a connection preserves it.
<1>ProcessLoop.
  ASSUME LoopInv, NEW t \in Thread, Process(t)
  PROVE  ThreadsInLoop' /\ \A c \in Conn : Running(c)' /\ Native(c)'
  <2> USE <1>ProcessLoop
  \* A thread's turn keeps the threads in their loops.
  <2>TurnInLoop.
    ASSUME TypeOK, ThreadsInLoop, NEW c \in Conn, cur[t] = c, Turn(t, c),
           batch' = batch \/ batch' = [batch EXCEPT ![t] = Empty]
    PROVE  ThreadsInLoop'
    <3> USE <2>TurnInLoop
    <3>1. pc[t] \notin Free /\ t \notin Listener /\ polled[t] = {}
      BY SchedAssumption, Zenon DEF ThreadsInLoop, Free
    <3>2. \A u \in Thread \ {t} : batch'[u] = batch[u] /\ pc'[u] = pc[u] /\ cur'[u] = cur[u]
      BY Zenon DEF Turn
    <3>3. /\ cur'[t] = NoConn <=> pc'[t] \in Free
          /\ pc'[t] \notin {"loop", "poll", "apply"}
      BY SchedAssumption, Zenon DEF Turn, Free
    <3> QED  BY <3>1, <3>2, <3>3 DEF ThreadsInLoop, Turn
  \* A connection that a step does not touch.
  <2>RunningOthers.
    ASSUME NEW d \in Conn, Running(d), SameConn(d), SameHeld(d)
    PROVE  Running(d)'
    <3> USE <2>RunningOthers
    \* A connection that a step does not touch stays at its stage.
    <3>StageStays.
      ASSUME SameConn(d), SameHeld(d)
      PROVE  \A l \in Labels : In(d, l)' <=> In(d, l)
      <4> USE <3>StageStays
      <4>1. \A l \in Labels : (\E u \in Thread : Holds(u, d, l))' <=> \E u \in Thread : Holds(u, d, l)
        BY Zenon DEF SameHeld, Holds
      <4>2. Suspended(d)' <=> Suspended(d)
        BY Zenon DEF SameHeld, SameConn, Suspended
      <4> QED  BY <4>1, <4>2, Zenon DEF In, SameConn
    <3>1. \A l \in Labels : In(d, l)' <=> In(d, l)
      BY <3>StageStays, Zenon
    <3>2. (In(d, "login")' <=> In(d, "login")) /\ (In(d, "idle")' <=> In(d, "idle")) /\ (In(d, "close")' <=> In(d, "close"))
      BY <3>1, Zenon DEF Labels
    <3> QED  BY <3>2, Zenon DEF Running, SameConn, SameHeld
  \* The close coroutine begins.
  <2>BeginCloseRunning.
    ASSUME TypeOK, Placed, NEW c \in Conn, cur[t] = c, Turn(t, c),
           NEW ret, BeginClose(t, c, ret)
    PROVE  Running(c)'
    <3> USE <2>BeginCloseRunning
    <3>1. state'[c] = "closing" /\ coro_status'[c] = "ongoing" /\ pc'[t] = "close" /\ cur'[t] = c /\ in_error'[c]
      BY Zenon DEF BeginClose, Goto, TypeOK, ConnTypes, CoroTypes, ThreadTypes
    <3>2. In(c, "close")' /\ \A u \in Thread : cur'[u] = c => u = t
      <4>1. \A l \in Labels : pc'[t] = l => In(c, l)'
        BY <3>1, StageAfter, Zenon DEF Placed
      <4>2. "close" \in Labels
        BY Zenon DEF Labels
      <4> QED  BY <3>1, <4>1, <4>2, OnlyHere, Zenon DEF Placed
    <3> QED  BY <3>1, <3>2, Zenon DEF Running
  \* tp_callback() up to the coroutine.
  <2>EnterRunning.
    ASSUME TypeOK, Placed, NEW c \in Conn, cur[t] = c, Enter(t, c), Running(c)
    PROVE  Running(c)'
    <3> USE <2>EnterRunning
    <3>1. Turn(t, c)
      BY EnterOthers, Zenon
    <3>2. \A u \in Thread : cur'[u] = c => u = t
      BY <3>1, OnlyHere, Zenon DEF Placed
    <3>3. cur'[t] = c => \A l \in Labels :
                  In(c, l)' <=> \/ pc'[t] = l
                                \/ /\ coro_status'[c] = "ongoing" /\ at'[c] = l
                                   /\ pc'[t] \in {"enter", "wait", "yield"}
      BY <3>1, StageAfter, ZenonT(40) DEF Placed
    <3>4. pc[t] = "enter" => /\ In(c, "login") <=> coro_status[c] = "ongoing" /\ at[c] = "login"
                             /\ In(c, "close") <=> coro_status[c] = "ongoing" /\ at[c] = "close"
                             /\ ~In(c, "idle")
      <4>1. at[c] \in {"login", "exec", "replied", "close"}
        BY Zenon DEF TypeOK, CoroTypes
      <4> QED  BY <4>1, StageBefore, ZenonT(40) DEF Placed, Labels
    <3>5. CASE LoginImpossible(t, c)
      BY <3>2, <3>5, SchedAssumption, ZenonT(40) DEF LoginImpossible, Running, TypeOK, ConnTypes, CoroTypes,
         ThreadTypes, SockTypes
    <3>6. CASE StartLogin(t, c)
      <4>1. state'[c] = "connecting" /\ coro_status'[c] = "ongoing" /\ pc'[t] = "login" /\ cur'[t] = c
        BY <3>6, Zenon DEF StartLogin, Goto, TypeOK, ConnTypes, CoroTypes, ThreadTypes
      <4>2. In(c, "login")'
        BY <3>3, <4>1, Zenon DEF Labels
      <4> QED  BY <3>2, <4>1, <4>2, Zenon DEF Running
    <3>7. CASE ResumeLoginOrClose(t, c)
      <4>1. /\ pc[t] = "enter" /\ state'[c] = state[c] /\ state[c] \in {"connecting", "closing"} /\ cur'[t] = c
            /\ coro_status'[c] = coro_status[c] /\ at'[c] = at[c] /\ pc'[t] \in {"wait", at[c]}
            /\ in_error'[c] = (state[c] = "closing")
        BY <3>7, Zenon DEF ResumeLoginOrClose, ResumeAt, Goto, TypeOK, ConnTypes, CoroTypes, ThreadTypes
      <4>2. coro_status[c] = "ongoing" /\ at[c] = IF state[c] = "connecting" THEN "login" ELSE "close"
        BY <3>4, <4>1, Zenon DEF Running
      <4>3. In(c, at[c])'
        BY <3>3, <4>1, <4>2, ZenonT(40) DEF Labels
      <4> QED  BY <3>2, <4>1, <4>2, <4>3, Zenon DEF Running
    <3>8. CASE KilledWhileIdle(t, c)
      <4>1. state'[c] = "closing" /\ coro_status'[c] = "ongoing" /\ pc'[t] = "close" /\ cur'[t] = c /\ in_error'[c]
        BY <3>8, Zenon DEF KilledWhileIdle, BeginClose, Goto, TypeOK, ConnTypes, CoroTypes, ThreadTypes
      <4>2. In(c, "close")'
        BY <3>3, <4>1, Zenon DEF Labels
      <4> QED  BY <3>2, <4>1, <4>2, Zenon DEF Running
    <3>9. CASE StartCommand(t, c)
      BY <3>2, <3>9, Zenon DEF StartCommand, Goto, Running, TypeOK, ConnTypes, CoroTypes, ThreadTypes,
         SockTypes
    <3>10. CASE ResumeCommand(t, c)
      BY <3>2, <3>10, Zenon DEF ResumeCommand, Goto, Running, TypeOK, ConnTypes, CoroTypes, ThreadTypes,
         SockTypes
    <3> QED  BY <3>5, <3>6, <3>7, <3>8, <3>9, <3>10, Zenon DEF Enter
  \* The coroutines.
  <2>ExecuteRunning.
    ASSUME TypeOK, Placed, NEW c \in Conn, cur[t] = c, Execute(t, c), Running(c)
    PROVE  Running(c)'
    <3> USE <2>ExecuteRunning
    <3>1. Turn(t, c)
      BY ExecuteOthers, Zenon
    <3>2. \A u \in Thread : cur'[u] = c => u = t
      BY <3>1, OnlyHere, Zenon DEF Placed
    <3>3. cur'[t] = c => \A l \in Labels :
                  In(c, l)' <=> \/ pc'[t] = l
                                \/ /\ coro_status'[c] = "ongoing" /\ at'[c] = l
                                   /\ pc'[t] \in {"enter", "wait", "yield"}
      BY <3>1, StageAfter, Zenon DEF Placed
    <3>4. pc[t] \notin {"enter", "wait", "yield"} =>
            /\ In(c, "login") <=> pc[t] = "login"
            /\ In(c, "close") <=> pc[t] = "close"
            /\ In(c, "idle") <=> pc[t] = "idle"
      BY <3>1, StageBefore, Zenon DEF Placed, Labels
    <3>5. CASE Quit(t, c) \/ FinishDead(t, c) \/ LoginFailed(t, c)
      BY <3>1, <3>5, <2>BeginCloseRunning, Zenon DEF Quit, FinishDead, LoginFailed
    <3>6. CASE ReadPacket(t, c) \/ ReadError(t, c) \/ TakeSnapshot(t, c) \/ Reply(t, c) \/ FinishCommand(t, c)
      <4>1. /\ pc[t] \in {"read", "snapshot", "broken", "exec", "replied"} /\ cur'[t] = c
            /\ pc'[t] \in {"broken", "snapshot", "exec", "quit", "replied", "idle"}
            /\ state'[c] = state[c]
            /\ pc'[t] # "idle" => coro_status'[c] = coro_status[c]
        <5>1. cur \in [Thread -> Conn \cup {NoConn}] /\ pc \in [Thread -> Labels] /\ state' = state /\ cur' = cur
          BY <3>6, Zenon DEF ReadPacket, ReadError, TakeSnapshot, Reply, FinishCommand, connVars, TypeOK,
             ThreadTypes
        <5>2. /\ pc[t] \in {"read", "snapshot", "broken", "exec", "replied"}
              /\ pc'[t] \in {"broken", "snapshot", "exec", "quit", "replied", "idle"}
          BY <3>6, <5>1, Zenon DEF ReadPacket, ReadError, TakeSnapshot, Reply, FinishCommand, Goto
        <5>3. pc'[t] # "idle" => coro_status' = coro_status
          BY <3>6, <5>1, Zenon DEF ReadPacket, ReadError, TakeSnapshot, Reply, FinishCommand, coroVars, Goto
        <5> QED  BY <5>1, <5>2, <5>3, Zenon
      <4>2. state[c] \notin {"new", "connecting", "closing"} /\ coro_status[c] = "ongoing"
        BY <3>4, <4>1, Zenon DEF Running
      <4> QED  BY <3>2, <4>1, <4>2, Zenon DEF Running
    <3>7. CASE LoginDone(t, c)
      <4>1. pc[t] = "login" /\ cur'[t] = c /\ pc'[t] = "idle" /\ state'[c] = state[c]
        BY <3>7, Zenon DEF LoginDone, connVars, Goto, TypeOK, ConnTypes, ThreadTypes
      <4>2. state[c] \notin {"new", "closing"} /\ In(c, "idle")'
        BY <3>3, <3>4, <4>1, Zenon DEF Running, Labels
      <4> QED  BY <3>2, <4>1, <4>2, Zenon DEF Running
    <3>8. CASE CloseDone(t, c)
      <4>1. pc[t] = "close" /\ state[c] # "connecting" /\ state[c] # "new"
        BY <3>4, <3>8, Zenon DEF CloseDone, Running
      <4>2. CASE in_error[c]
        <5>1. cur'[t] = NoConn /\ state'[c] = "deleted"
          BY <3>8, <4>2, Zenon DEF CloseDone, TypeOK, ConnTypes, ThreadTypes
        <5>2. cur'[t] # c
          BY <5>1, SchedAssumption, Zenon
        <5>3. \A u \in Thread : cur'[u] # c
          BY <3>2, <5>2, Zenon
        <5>4. state'[c] # "connecting" /\ state'[c] # "closing"
          BY <5>1, Zenon
        <5> QED  BY <5>3, <5>4, Zenon DEF Running
      <4>3. CASE ~in_error[c]
        <5>1. /\ state[c] # "closing" /\ state'[c] = state[c] /\ pc'[t] \in {"idle", "quit"}
          BY <3>8, <4>3, Zenon DEF CloseDone, Running, Goto, TypeOK, ConnTypes, ThreadTypes
        <5> QED  BY <3>2, <4>1, <5>1, Zenon DEF Running
      <4> QED  BY <4>2, <4>3, Zenon
    <3>9. CASE WaitEnd(t, c)
      <4>1. /\ pc[t] = "wait" /\ cur'[t] = c /\ pc'[t] = at[c] /\ at'[c] = at[c] /\ in_error'[c] = in_error[c]
            /\ state'[c] = state[c] /\ coro_status'[c] = coro_status[c]
            /\ at[c] \in {"login", "exec", "replied", "close"}
        BY <3>9, Zenon DEF WaitEnd, connVars, Goto, TypeOK, ConnTypes, CoroTypes, ThreadTypes
      <4>2. coro_status[c] = "ongoing" /\ state[c] # "new"
        BY <4>1, Zenon DEF Running
      <4>3. /\ In(c, "login") => In(c, "login")'
            /\ In(c, "close") => In(c, "close")'
            /\ ~In(c, "idle")
        <5>1. \A l \in Labels : In(c, l) => pc[t] = l \/ at[c] = l
          BY <3>1, StageBefore, Zenon DEF Placed
        <5>2. \A l \in Labels : pc'[t] = l => In(c, l)'
          BY <3>1, <4>1, StageAfter, Zenon DEF Placed
        <5>3. {"login", "close", "idle"} \subseteq Labels
          BY Zenon DEF Labels
        <5> QED  BY <4>1, <5>1, <5>2, <5>3, Zenon
      <4> QED  BY <3>2, <4>1, <4>2, <4>3, Zenon DEF Running
    <3> QED  BY <3>5, <3>6, <3>7, <3>8, <3>9, Zenon DEF Execute
  \* Yields and wait sections.
  <2>YieldRunning.
    ASSUME TypeOK, Placed, NEW c \in Conn, cur[t] = c, Yield(t, c), Running(c)
    PROVE  Running(c)'
    <3> USE <2>YieldRunning
    <3>1. Turn(t, c)
      BY YieldOthers, Zenon
    <3>2. /\ pc[t] \in {"login", "exec", "replied", "close", "wait"} /\ pc'[t] \in {"wait", "yield"}
          /\ cur'[t] = c /\ at'[c] = IF pc[t] = "wait" THEN at[c] ELSE pc[t]
          /\ state'[c] = state[c] /\ coro_status'[c] = coro_status[c] /\ in_error'[c] = in_error[c]
      BY ZenonT(40) DEF Yield, YieldToTx, YieldToQueue, WaitBegin, WaitBeginExt, CanYield, Goto, connVars,
         TypeOK, ConnTypes, CoroTypes, ThreadTypes
    <3>3. coro_status[c] = "ongoing" /\ state[c] # "new"
      BY <3>2, Zenon DEF Running
    <3>4. /\ In(c, "login") => In(c, "login")'
          /\ In(c, "close") => In(c, "close")'
          /\ ~In(c, "idle")
      <4>1. at[c] \in {"login", "exec", "replied", "close"}
        BY Zenon DEF TypeOK, CoroTypes
      <4>2. \A l \in Labels : In(c, l) <=> \/ pc[t] = l
                                           \/ /\ coro_status[c] = "ongoing" /\ at[c] = l
                                              /\ pc[t] \in {"enter", "wait", "yield"}
        BY <3>1, StageBefore, ZenonT(40) DEF Placed
      <4>3. \A l \in Labels : In(c, l)' <=> \/ pc'[t] = l
                                            \/ /\ coro_status'[c] = "ongoing" /\ at'[c] = l
                                               /\ pc'[t] \in {"enter", "wait", "yield"}
        BY <3>1, <3>2, StageAfter, Zenon DEF Placed
      <4> QED  BY <3>2, <3>3, <4>1, <4>2, <4>3, ZenonT(40) DEF Labels
    <3>5. \A u \in Thread : cur'[u] = c => u = t
      BY <3>1, OnlyHere, Zenon DEF Placed
    <3> QED  BY <3>2, <3>3, <3>4, <3>5, Zenon DEF Running
  \* tp_callback() after the coroutine.
  <2>LeaveRunning.
    ASSUME TypeOK, Placed, NEW c \in Conn, cur[t] = c, Leave(t, c), Running(c)
    PROVE  Running(c)'
    <3> USE <2>LeaveRunning
    <3>1. Turn(t, c)
      BY LeaveOthers, Zenon
    <3>2. \A u \in Thread : cur'[u] = c => u = t
      BY <3>1, OnlyHere, Zenon DEF Placed
    <3>3. pc[t] \notin {"enter", "wait", "yield"} =>
            /\ In(c, "login") <=> pc[t] = "login"
            /\ In(c, "close") <=> pc[t] = "close"
            /\ In(c, "idle") <=> pc[t] = "idle"
      BY <3>1, StageBefore, Zenon DEF Placed, Labels
    <3>4. CASE SetIdle(t, c)
      BY <3>2, <3>4, Zenon DEF SetIdle, Running, Goto, TypeOK, ConnTypes, CoroTypes, ThreadTypes, SockTypes
    <3>5. ASSUME pc[t] \in {"start_io", "recount", "requeue", "release"}, state'[c] = state[c],
                 pc'[t] \in {"recount", "requeue", "release", "batch"}
          PROVE  Running(c)'
      BY <3>2, <3>3, <3>5, Zenon DEF Running
    <3>6. CASE StartIO(t, c) \/ Recount(t, c) \/ Requeue(t, c)
      BY <3>5, <3>6, ZenonT(40) DEF StartIO, Recount, Requeue, connVars, Goto, TypeOK, ConnTypes, CoroTypes,
         QueueTypes, ThreadTypes, SockTypes
    <3>7. CASE Bind(t, c)
      <4>1. CASE BeginClose(t, c, coro_ret[c])
        BY <3>1, <4>1, <2>BeginCloseRunning, Zenon
      <4>2. CASE ~BeginClose(t, c, coro_ret[c])
        BY <3>5, <3>7, <4>2, ZenonT(40) DEF Bind, Goto, TypeOK, ConnTypes, CoroTypes, ThreadTypes, SockTypes
      <4> QED  BY <4>1, <4>2, Zenon
    <3>8. CASE Release(t, c)
      <4>1. CASE pc[t] = "release"
        BY <3>5, <3>8, <4>1, Zenon DEF Release, Goto, TypeOK, ConnTypes, CoroTypes, ThreadTypes, SockTypes
      <4>2. CASE pc[t] = "yield"
        <5>1. /\ cur'[t] = NoConn /\ state'[c] = state[c] /\ coro_status'[c] = coro_status[c]
              /\ at'[c] = at[c] /\ in_error'[c] = in_error[c]
          BY <3>8, Zenon DEF Release, coroVars, TypeOK, ConnTypes, CoroTypes, ThreadTypes
        <5>2. coro_status[c] = "ongoing"
          BY <4>2, Zenon DEF Running
        <5>3. /\ In(c, "login") => In(c, "login")'
              /\ In(c, "close") => In(c, "close")'
              /\ ~In(c, "idle")
          <6>1. \A l \in Labels : In(c, l) => pc[t] = l \/ at[c] = l
            BY <3>1, StageBefore, Zenon DEF Placed
          <6>2. \A l \in Labels : coro_status'[c] = "ongoing" /\ at'[c] = l => In(c, l)'
            BY <3>1, <5>1, StageReleased, Zenon DEF Placed
          <6>3. {"login", "close", "idle"} \subseteq Labels /\ at[c] \in {"login", "exec", "replied", "close"}
            BY Zenon DEF Labels, TypeOK, CoroTypes
          <6> QED  BY <4>2, <5>1, <5>2, <6>1, <6>2, <6>3, Zenon
        <5>4. \A u \in Thread : cur'[u] # c
          BY <3>2, <5>1, SchedAssumption, Zenon
        <5> QED  BY <5>1, <5>3, <5>4, Zenon DEF Running
      <4> QED  BY <3>8, <4>1, <4>2, Zenon DEF Release
    <3> QED  BY <3>4, <3>6, <3>7, <3>8, Zenon DEF Leave
  \* A turn of a thread leaves the other connections where SQL threads find them.
  <2>NativeOthers.
    ASSUME TypeOK, NEW c \in Conn, cur[t] = c, Turn(t, c),
           NEW d \in Conn \ {c}, Native(d), SameConn(d), SameEvents(d), SameHeld(d), GivesBack(t, d)
    PROVE  Native(d)'
    <3> USE <2>NativeOthers
    <3>1. CanSignal(d)' <=> CanSignal(d)
      BY Zenon DEF CanSignal, SameConn, SameEvents
    <3>2. ASSUME need_sql_thd[d]
          PROVE  /\ req_queue'[d] = 0 /\ resume_queue'[d] = 0 /\ batch[t][d] = 0
                 /\ \A u \in Thread : batch'[u][d] > 0 =>
                      u \in SqlThread /\ cur'[u] = NoConn /\ \A e \in Conn \ {d} : batch'[u][e] = 0
      <4>1. batch[t][d] = 0
        <5>1. batch[t][d] \in Nat
          BY Zenon DEF TypeOK, ThreadTypes
        <5>2. ~(batch[t][d] > 0)
          BY <3>2, SchedAssumption, Zenon DEF Native
        <5> QED  BY <5>1, <5>2, Positive, Zenon
      <4>2. req_queue'[d] = 0 /\ resume_queue'[d] = 0 /\ batch'[t][d] = 0
        BY <3>2, <4>1, ZeroOne, Zenon DEF Native, GivesBack
      <4>3. ASSUME NEW u \in Thread, batch'[u][d] > 0
            PROVE  u \in SqlThread /\ cur'[u] = NoConn /\ \A e \in Conn \ {d} : batch'[u][e] = 0
        <5>1. u # t
          BY <4>2, <4>3, ZeroOne, Zenon
        <5>2. batch'[u] = batch[u] /\ cur'[u] = cur[u]
          BY <5>1, Zenon DEF Turn
        <5> QED  BY <3>2, <4>3, <5>2, Zenon DEF Native
      <4> QED  BY <4>1, <4>2, <4>3, Zenon
    <3> QED  BY <3>1, <3>2, Zenon DEF Native, SameConn, SameHeld
  \* A connection that need not run on a SQL thread.
  <2>NotNative.
    ASSUME OneThreadPerConnection, NEW c \in Conn, cur[t] = c, Turn(t, c),
           ~need_sql_thd'[c], pc'[t] = "wait" => t \in SqlThread
    PROVE  Native(c)'
    <3> USE <2>NotNative
    <3>1. \A u \in Thread : cur'[u] = c => u = t
      BY SchedAssumption, Zenon DEF OneThreadPerConnection, Turn
    <3> QED  BY <3>1, Zenon DEF Native
  \* tp_callback() up to the coroutine.
  <2>EnterNative.
    ASSUME TypeOK, Placed, NEW c \in Conn, cur[t] = c, Enter(t, c), Native(c)
    PROVE  Native(c)'
    <3> USE <2>EnterNative
    <3>1. Turn(t, c)
      BY EnterOthers, Zenon
    <3>2. pc[t] = "enter"
      BY Zenon DEF Enter, LoginImpossible, StartLogin, ResumeLoginOrClose, KilledWhileIdle, StartCommand,
         ResumeCommand
    <3>3. need_sql_thd' = need_sql_thd
      BY Zenon DEF Enter, LoginImpossible, StartLogin, ResumeLoginOrClose, KilledWhileIdle, StartCommand,
         ResumeCommand, BeginClose, coroVars
    <3>4. CASE ~need_sql_thd[c]
      <4>1. pc'[t] # "wait"
        <5>1. CASE ResumeLoginOrClose(t, c) \/ ResumeCommand(t, c)
          <6>1. pc'[t] = at[c]
            BY <3>4, <5>1, Zenon DEF ResumeLoginOrClose, ResumeCommand, ResumeAt, Goto, TypeOK, ThreadTypes
          <6> QED  BY <6>1, Zenon DEF TypeOK, CoroTypes
        <5>2. CASE LoginImpossible(t, c) \/ StartLogin(t, c) \/ StartCommand(t, c)
          BY <5>2, Zenon DEF LoginImpossible, StartLogin, StartCommand, Goto, TypeOK, ThreadTypes
        <5>3. CASE KilledWhileIdle(t, c)
          BY <5>3, Zenon DEF KilledWhileIdle, BeginClose, Goto, TypeOK, ThreadTypes
        <5> QED  BY <5>1, <5>2, <5>3, Zenon DEF Enter
      <4> QED  BY <3>1, <3>3, <3>4, <4>1, <2>NotNative, Zenon DEF Placed
    <3>5. CASE need_sql_thd[c]
      <4>1. t \in SqlThread /\ coro_status[c] = "ongoing" /\ state[c] \notin {"none", "new"}
        BY <3>2, <3>5, Zenon DEF Native
      <4>2. ResumeLoginOrClose(t, c) \/ ResumeCommand(t, c)
        BY <4>1, Zenon DEF Enter, LoginImpossible, StartLogin, KilledWhileIdle, StartCommand
      <4>3. /\ pc'[t] = "wait" /\ cur' = cur
            /\ state'[c] \in {state[c], "running"} /\ coro_status' = coro_status
            /\ UNCHANGED << queueVars, batch, epoll_events, watched, ready, polled >>
        <5>1. CASE ResumeLoginOrClose(t, c)
          BY <5>1, <3>5, Zenon DEF ResumeLoginOrClose, ResumeAt, Goto, TypeOK, sockVars, ConnTypes, ThreadTypes
        <5>2. CASE ResumeCommand(t, c)
          BY <5>2, <3>5, Zenon DEF ResumeCommand, ResumeAt, Goto, TypeOK, sockVars, ConnTypes, ThreadTypes
        <5> QED  BY <4>2, <5>1, <5>2, Zenon
      <4>4. /\ req_queue[c] = 0 /\ resume_queue[c] = 0 /\ \A u \in Thread : batch[u][c] = 0
            /\ \A u \in Thread : cur[u] = c => u = t
            /\ ~CanSignal(c) /\ Alive(c)
        BY <3>2, OnThread, Zenon
      <4>5. ~CanSignal(c)'
        BY <4>3, <4>4, Zenon DEF CanSignal, Alive
      <4> QED  BY <4>1, <4>3, <4>4, <4>5, <3>2, ZeroOne, Positive, Zenon DEF Native, queueVars
    <3> QED  BY <3>4, <3>5, Zenon
  \* The coroutines.
  <2>ExecuteNative.
    ASSUME TypeOK, Placed, NEW c \in Conn, cur[t] = c, Execute(t, c), Native(c)
    PROVE  Native(c)'
    <3> USE <2>ExecuteNative
    <3>1. Turn(t, c)
      BY ExecuteOthers, Zenon
    <3>2. ~need_sql_thd'[c]
      <4>1. CASE WaitEnd(t, c)
        BY <4>1, Zenon DEF WaitEnd, TypeOK, CoroTypes
      <4>2. CASE ~WaitEnd(t, c)
        <5>1. pc[t] \notin {"enter", "wait", "yield"} /\ need_sql_thd' = need_sql_thd
          BY <4>2, Zenon DEF Execute, ReadPacket, ReadError, TakeSnapshot, Reply, Quit, FinishDead,
             FinishCommand, LoginDone, LoginFailed, CloseDone, BeginClose, coroVars
        <5> QED  BY <5>1, Zenon DEF Native
      <4> QED  BY <4>1, <4>2, Zenon
    <3>3. pc'[t] # "wait"
      <4>1. CASE WaitEnd(t, c)
        BY <4>1, Zenon DEF WaitEnd, Goto, TypeOK, CoroTypes, ThreadTypes
      <4>2. CASE CloseDone(t, c)
        BY <4>2, Zenon DEF CloseDone, Goto, TypeOK, ThreadTypes
      <4> QED  BY <4>1, <4>2, Zenon DEF Execute, ReadPacket, ReadError, TakeSnapshot, Reply, Quit,
                  FinishDead, FinishCommand, LoginDone, LoginFailed, BeginClose, Goto, TypeOK, ThreadTypes
    <3> QED  BY <3>1, <3>2, <3>3, <2>NotNative, Zenon DEF Placed
  \* Yields and wait sections.
  <2>YieldNative.
    ASSUME TypeOK, Placed, NEW c \in Conn, cur[t] = c, Yield(t, c), Native(c), Running(c)
    PROVE  Native(c)'
    <3> USE <2>YieldNative
    <3>1. Turn(t, c)
      BY YieldOthers, Zenon
    <3>2. /\ pc[t] \in {"login", "exec", "replied", "close", "wait"} /\ pc'[t] \in {"wait", "yield"}
          /\ pc'[t] = "wait" => t \in SqlThread
          /\ cur' = cur /\ UNCHANGED << state, coro_status, epoll_events, watched, ready, polled >>
      BY Zenon DEF Yield, YieldToTx, YieldToQueue, WaitBegin, WaitBeginExt, CanYield, Goto, connVars,
         sockVars, TypeOK, ThreadTypes
    <3>3. /\ req_queue[c] = 0 /\ resume_queue[c] = 0 /\ \A u \in Thread : batch[u][c] = 0
          /\ \A u \in Thread : cur[u] = c => u = t
          /\ ~CanSignal(c) /\ Alive(c)
      BY <3>2, OnThread, Zenon
    <3>4. coro_status[c] = "ongoing" /\ state[c] \notin {"none", "new"}
      BY <3>2, <3>3, Zenon DEF Running, Alive
    <3>5. CASE ~need_sql_thd'[c]
      BY <3>1, <3>2, <3>5, <2>NotNative, Zenon DEF Placed
    <3>6. CASE need_sql_thd'[c]
      <4>1. req_queue'[c] = 0 /\ resume_queue'[c] = 0
        <5>1. CASE YieldToTx(t, c)
          BY <3>3, <5>1, Zenon DEF YieldToTx, queueVars
        <5>2. CASE YieldToQueue(t, c)
          BY <3>3, <3>6, <5>2, ZenonT(40) DEF YieldToQueue
        <5>3. CASE WaitBegin(t, c)
          <6>1. GivesBack(t, c)
            BY <5>3, WaitBeginGivesBack, Zenon
          <6> QED  BY <3>3, <6>1 DEF GivesBack
        <5>4. CASE WaitBeginExt(t, c)
          BY <3>3, <5>4, Zenon DEF WaitBeginExt
        <5> QED  BY <5>1, <5>2, <5>3, <5>4, Zenon DEF Yield
      <4>2. \A u \in Thread : batch'[u][c] = 0
        <5>1. CASE WaitBegin(t, c)
          <6>1. batch' = [batch EXCEPT ![t] = Empty]
            BY <5>1, WaitBeginGivesBack, Zenon
          <6> QED  BY <3>3, <6>1, Zenon DEF Empty, TypeOK, ConnTypes, CoroTypes, QueueTypes, ThreadTypes,
                      SockTypes, ClientTypes, BoundTypes
        <5> QED  BY <3>3, <5>1, YieldOthers, Zenon
      <4>3. ~CanSignal(c)'
        BY <3>2, <3>3, Zenon DEF CanSignal
      <4> QED  BY <3>2, <3>3, <3>4, <4>1, <4>2, <4>3, ZeroOne, Positive, Zenon DEF Native
    <3> QED  BY <3>5, <3>6, Zenon
  \* tp_callback() after the coroutine.
  <2>LeaveNative.
    ASSUME TypeOK, Placed, NEW c \in Conn, cur[t] = c, Leave(t, c), Native(c)
    PROVE  Native(c)'
    <3> USE <2>LeaveNative
    <3>1. Turn(t, c)
      BY LeaveOthers, Zenon
    <3>2. need_sql_thd' = need_sql_thd
      BY Zenon DEF Leave, SetIdle, Bind, StartIO, Recount, Requeue, Release, BeginClose, coroVars
    <3>3. pc'[t] # "wait"
      BY Zenon DEF Leave, SetIdle, Bind, StartIO, Recount, Requeue, Release, BeginClose, Goto, TypeOK,
         ThreadTypes
    <3>4. CASE ~need_sql_thd[c]
      BY <3>1, <3>2, <3>3, <3>4, <2>NotNative, Zenon DEF Placed
    <3>5. CASE need_sql_thd[c]
      <4>1. Release(t, c) /\ pc[t] = "yield"
        BY <3>5, Zenon DEF Leave, SetIdle, Bind, StartIO, Recount, Requeue, Release, Native
      <4>2. /\ UNCHANGED << state, coro_status, epoll_events, watched, ready, polled, req_queue, resume_queue, batch >>
            /\ cur'[t] = NoConn /\ \A u \in Thread \ {t} : cur'[u] = cur[u] /\ pc'[u] = pc[u]
        BY <4>1, Zenon DEF Release, connVars, coroVars, queueVars, sockVars, Goto, TypeOK, ThreadTypes
      <4>3. \A u \in Thread : cur'[u] # c
        <5>1. \A u \in Thread : cur'[u] = c => u = t
          BY <3>1, OnlyHere, Zenon DEF Placed
        <5> QED  BY <4>2, <5>1, SchedAssumption, Zenon
      <4>4. CanSignal(c)' <=> CanSignal(c)
        BY <4>2, Zenon DEF CanSignal
      <4>5. \A u \in Thread : batch[u][c] > 0 => cur'[u] = NoConn
        BY <3>5, <4>2, Zenon DEF Native
      <4> QED  BY <3>2, <3>5, <4>2, <4>3, <4>4, <4>5, Zenon DEF Native
    <3> QED  BY <3>4, <3>5, Zenon
  <2>1. PICK c \in Conn : cur[t] = c /\ (Enter(t, c) \/ Execute(t, c) \/ Yield(t, c) \/ Leave(t, c))
    BY Zenon DEF Process
  <2>2. TypeOK /\ Placed /\ Running(c) /\ Native(c)
    BY Zenon DEF LoopInv, IInv, Bookkeeping
  <2>3. Turn(t, c) /\ \A d \in Conn \ {c} : SameConn(d) /\ SameEvents(d)
    BY <2>1, <2>2, EnterOthers, ExecuteOthers, YieldOthers, LeaveOthers, Zenon
  <2>4. /\ batch' = batch \/ batch' = [batch EXCEPT ![t] = Empty]
        /\ \A d \in Conn \ {c} : GivesBack(t, d)
    <3>1. CASE WaitBegin(t, c)
      BY <2>2, <3>1, WaitBeginGivesBack, Zenon
    <3>2. ASSUME batch' = batch, \A d \in Conn \ {c} : SamePlaces(d)  PROVE \A d \in Conn \ {c} : GivesBack(t, d)
      BY <3>2, Zenon DEF GivesBack, SamePlaces
    <3> QED  BY <2>1, <2>2, <3>1, <3>2, EnterOthers, ExecuteOthers, YieldOthers, LeaveOthers, Zenon
  <2>5. ThreadsInLoop'
    BY <2>1, <2>2, <2>3, <2>4, <2>TurnInLoop, Zenon DEF LoopInv
  <2>6. ASSUME NEW d \in Conn \ {c}  PROVE Running(d)' /\ Native(d)'
    <3>1. SameHeld(d) /\ SameConn(d) /\ SameEvents(d) /\ GivesBack(t, d)
      BY <2>1, <2>3, <2>4, TurnHeld, Zenon
    <3>2. Running(d) /\ Native(d)
      BY Zenon DEF LoopInv
    <3> QED  BY <2>1, <2>2, <2>3, <3>1, <3>2, <2>RunningOthers, <2>NativeOthers, Zenon
  <2>7. Running(c)' /\ Native(c)'
    BY <2>1, <2>2, <2>EnterRunning, <2>ExecuteRunning, <2>YieldRunning, <2>LeaveRunning, <2>EnterNative,
       <2>ExecuteNative, <2>YieldNative, <2>LeaveNative, Zenon
  <2> QED  BY <2>5, <2>6, <2>7, Zenon
<1> SUFFICES ASSUME LoopInv, [Next]_vars  PROVE LoopInv'
  BY Zenon
<1>1. IInv' /\ TypeOK /\ Bookkeeping /\ Placed /\ HeldIsAlive
  BY NextInvariant, Zenon DEF LoopInv, IInv, Bookkeeping, Placed
<1>2. ASSUME NEW t \in Thread, Process(t)  PROVE LoopInv'
  BY <1>1, <1>2, <1>ProcessLoop, Zenon DEF LoopInv
<1>3. ASSUME NEW t \in Thread, Dispatch(t)  PROVE LoopInv'
  BY <1>1, <1>3, <1>DispatchInLoop, <1>DispatchRunning, <1>DispatchNative, Zenon DEF LoopInv
<1>4. ASSUME NEW c \in Conn, Environment(c) \/ Resume(c)  PROVE LoopInv'
  <2>1. UNCHANGED << pc, cur, batch, polled >>
    BY <1>1, <1>4, EnvironmentSteps, Zenon
  <2>2. ThreadsInLoop'
    BY <2>1, Zenon DEF LoopInv, ThreadsInLoop
  <2>3. \A d \in Conn : Running(d)'
    BY <1>1, <1>4, EnvironmentSteps, <1>SameStageRunning, Zenon DEF LoopInv
  <2>4. \A d \in Conn : Native(d)'
    BY <1>1, <1>4, <1>EnvironmentNative, Zenon DEF LoopInv
  <2> QED  BY <1>1, <2>2, <2>3, <2>4, Zenon DEF LoopInv
<1>5. CASE UNCHANGED vars
  <2>1. UNCHANGED << state, need_sql_thd, coro_status, at, in_error, pc, cur, batch, polled, req_queue, resume_queue,
                     epoll_events, watched, ready >>
    BY <1>5, Zenon DEF vars, connVars, coroVars, queueVars, threadVars, sockVars
  <2>2. ThreadsInLoop'
    BY <2>1, Zenon DEF LoopInv, ThreadsInLoop
  <2>3. ASSUME NEW d \in Conn  PROVE Running(d)' /\ Native(d)'
    <3>1. SameStage(d)
      BY <2>1, Zenon DEF SameStage, SameHeld
    <3>2. Running(d)'
      BY <2>1, <3>1, <1>SameStageRunning, Zenon DEF LoopInv
    <3>3. CanSignal(d)' <=> CanSignal(d)
      BY <2>1, Zenon DEF CanSignal
    <3>4. Native(d)'
      BY <2>1, <3>3, Zenon DEF LoopInv, Native
    <3> QED  BY <3>2, <3>4, Zenon
  <2> QED  BY <1>1, <2>2, <2>3, Zenon DEF LoopInv
<1> QED  BY <1>2, <1>3, <1>4, <1>5, Zenon DEF Next

\* assert(GetIsSqlThd()) in wait_begin() and wait_end() and
\* assert(!conn->need_sql_thd_) in Process() hold for any number of
\* connections and threads, with yields, kills and timeouts: a coroutine that
\* is about to block is only reachable by SQL threads.
THEOREM OnlySqlThreadsBlock == Spec => []BlocksOnSqlThreads
<1>1. LoopInv => BlocksOnSqlThreads
  <2> SUFFICES ASSUME LoopInv  PROVE BlocksOnSqlThreads
    BY Zenon
  <2>1. ASSUME NEW t \in Thread, pc[t] = "wait"  PROVE t \in SqlThread
    <3>1. cur[t] \in Conn
      BY <2>1, Zenon DEF LoopInv, ThreadsInLoop, Free, IInv, Bookkeeping, TypeOK, ThreadTypes
    <3> QED  BY <2>1, <3>1, Zenon DEF LoopInv, Native
  <2>2. ASSUME NEW c \in Conn, need_sql_thd[c]
        PROVE  req_queue[c] = 0 /\ resume_queue[c] = 0 /\ \A t \in ExtThread : batch[t][c] = 0
    <3>1. req_queue[c] = 0 /\ resume_queue[c] = 0
      BY <2>2, Zenon DEF LoopInv, Native
    <3>2. ASSUME NEW t \in ExtThread  PROVE batch[t][c] = 0
      <4>1. t \in Thread /\ t \notin SqlThread
        BY SchedAssumption, Zenon DEF Thread, Worker
      <4>2. batch[t][c] \in Nat
        BY <4>1, Zenon DEF LoopInv, IInv, Bookkeeping, TypeOK, ThreadTypes
      <4>3. ~(batch[t][c] > 0)
        BY <2>2, <4>1, Zenon DEF LoopInv, Native
      <4> QED  BY <4>2, <4>3, ZeroOne, Positive, Zenon
    <3> QED  BY <3>1, <3>2, Zenon
  <2> QED  BY <2>1, <2>2, Zenon DEF BlocksOnSqlThreads
<1> QED  BY <1>1, InitLoop, NextLoop, PTL DEF Spec

-----------------------------------------------------------------------------
(* Without timeouts, the state of a connection tells its stage.            *)

\* The stage of c, which thread t holds.
At(t, c) == IF pc[t] \in {"enter", "wait", "yield"} /\ coro_status[c] = "ongoing" THEN at[c] ELSE pc[t]

\* Staged, of a connection that thread t holds.
StagedOn(t, c) ==
  /\ timer[c] = "none"
  /\ pc[t] \in Stages \cup {"wait", "yield"} => coro_status[c] = "ongoing"
  /\ pc[t] \in {"idle", "start_io", "recount", "requeue", "release"} => coro_status[c] = "empty"
  /\ pc[t] = "idle" => state[c] \in {"connecting", "running"}
  /\ pc[t] \in {"start_io", "recount", "requeue", "release"} => state[c] = "idle"
  /\ At(t, c) = "login" => state[c] = "connecting"
  /\ At(t, c) \in CommandStages => state[c] = "running"
  /\ At(t, c) = "close" => state[c] = "closing" /\ in_error[c]
  /\ coro_status[c] = "ongoing" => state[c] \in {"connecting", "running", "closing"}
  /\ coro_status[c] = "empty" => state[c] \in {"none", "new", "idle", "deleted"} \/ pc[t] = "idle"
  /\ bound[c] /\ state[c] \notin {"closing", "deleted"} => watched[c]
  /\ Alive(c) => Somewhere(c)

\* Staged, of a connection that no thread holds.
StagedOff(c) ==
  /\ timer[c] = "none"
  /\ coro_status[c] = "ongoing" =>
       \/ at[c] = "login" /\ state[c] = "connecting"
       \/ at[c] \in {"exec", "replied"} /\ state[c] = "running"
       \/ at[c] = "close" /\ state[c] = "closing" /\ in_error[c]
  /\ coro_status[c] = "empty" => state[c] \in {"none", "new", "idle", "deleted"}
  /\ bound[c] /\ state[c] \notin {"closing", "deleted"} => watched[c]
  /\ Alive(c) => Somewhere(c)

\* The stage of a connection on a thread.
LEMMA StageAt ==
  ASSUME TypeOK, OneThreadPerConnection, NEW t \in Thread, NEW c \in Conn, cur[t] = c
  PROVE  \A l \in Stages \cup {"idle", "start_io", "recount", "requeue"} : In(c, l) <=> At(t, c) = l
<1>1. \A l \in Labels : In(c, l) <=> \/ pc[t] = l
                                     \/ /\ coro_status[c] = "ongoing" /\ at[c] = l
                                        /\ pc[t] \in {"enter", "wait", "yield"}
  BY StageOf, Zenon
<1>2. at[c] \in {"login", "exec", "replied", "close"}
  BY Zenon DEF TypeOK, CoroTypes
<1> SUFFICES ASSUME NEW l \in Stages \cup {"idle", "start_io", "recount", "requeue"}
             PROVE  In(c, l) <=> At(t, c) = l
  BY Zenon
<1>3. l \in Labels /\ l \notin {"enter", "wait", "yield"}
  BY Zenon DEF Labels, Stages
<1>4. In(c, l) <=> \/ pc[t] = l
                   \/ /\ coro_status[c] = "ongoing" /\ at[c] = l
                      /\ pc[t] \in {"enter", "wait", "yield"}
  BY <1>1, <1>3, Zenon
<1> QED  BY <1>2, <1>3, <1>4, Zenon DEF At

\* The two forms of Staged.
LEMMA StagedForms ==
  TypeOK /\ OneThreadPerConnection =>
    \A c \in Conn :
      /\ \A t \in Thread : cur[t] = c => (Staged(c) <=> StagedOn(t, c))
      /\ (\A t \in Thread : cur[t] # c) => (Staged(c) <=> StagedOff(c))
<1> SUFFICES ASSUME TypeOK, OneThreadPerConnection, NEW c \in Conn
             PROVE  /\ \A t \in Thread : cur[t] = c => (Staged(c) <=> StagedOn(t, c))
                    /\ (\A t \in Thread : cur[t] # c) => (Staged(c) <=> StagedOff(c))
  BY Zenon
<1>1. ASSUME NEW t \in Thread, cur[t] = c  PROVE Staged(c) <=> StagedOn(t, c)
  <2>1. \A l \in Stages \cup {"idle", "start_io", "recount", "requeue"} : In(c, l) <=> At(t, c) = l
    BY <1>1, StageAt, Zenon
  <2>2. /\ In(c, "login") <=> At(t, c) = "login"
        /\ In(c, "close") <=> At(t, c) = "close"
        /\ In(c, "idle") <=> At(t, c) = "idle"
        /\ (\E l \in CommandStages : In(c, l)) <=> At(t, c) \in CommandStages
    BY <2>1, Zenon DEF Stages, CommandStages
  <2>3. At(t, c) = "idle" <=> pc[t] = "idle"
    BY Zenon DEF At, TypeOK, CoroTypes, ThreadTypes
  <2>4. \A u \in Thread : cur[u] = c <=> u = t
    BY <1>1, SchedAssumption, Zenon DEF OneThreadPerConnection
  <2> HIDE DEF At
  <2> QED  BY <1>1, <2>2, <2>3, <2>4, Zenon DEF Staged, StagedOn
<1>2. ASSUME \A t \in Thread : cur[t] # c  PROVE Staged(c) <=> StagedOff(c)
  <2>1. \A l \in Labels : In(c, l) <=> coro_status[c] = "ongoing" /\ at[c] = l
    BY <1>2, StageOff, Zenon
  <2>2. at[c] \in {"login", "exec", "replied", "close"}
    BY Zenon DEF TypeOK, CoroTypes
  <2>3. /\ In(c, "login") <=> coro_status[c] = "ongoing" /\ at[c] = "login"
        /\ In(c, "close") <=> coro_status[c] = "ongoing" /\ at[c] = "close"
        /\ ~In(c, "idle")
        /\ (\E l \in CommandStages : In(c, l)) <=> coro_status[c] = "ongoing" /\ at[c] \in {"exec", "replied"}
    BY <2>1, <2>2, Zenon DEF Labels, CommandStages
  <2>4. coro_status[c] \in {"empty", "ongoing"}
    BY Zenon DEF TypeOK, CoroTypes
  <2> QED  BY <1>2, <2>2, <2>3, <2>4, Zenon DEF Staged, StagedOff
<1> QED  BY <1>1, <1>2, Zenon

\* The same in the next state.
LEMMA StagedFormsNext ==
  (TypeOK /\ OneThreadPerConnection =>
    \A c \in Conn :
      /\ \A t \in Thread : cur[t] = c => (Staged(c) <=> StagedOn(t, c))
      /\ (\A t \in Thread : cur[t] # c) => (Staged(c) <=> StagedOff(c)))'
BY StagedForms, PTL

\* A yield keeps the stage, as the place where the coroutine continues.
LEMMA YieldSteps ==
  ASSUME TypeOK, NEW t \in Thread, NEW c \in Conn, Yield(t, c)
  PROVE  /\ UNCHANGED << state, bound, watched, coro_status, in_error, timer, cur >>
         /\ pc'[t] \in {"wait", "yield"} /\ pc[t] \in {"login", "exec", "replied", "close", "wait"}
         /\ at'[c] = IF pc[t] = "wait" THEN at[c] ELSE pc[t]
<1> USE DEF CanYield, Goto, connVars, sockVars
<1>1. CASE YieldToTx(t, c)
  BY <1>1, Zenon DEF YieldToTx, TypeOK, CoroTypes, ThreadTypes
<1>2. CASE YieldToQueue(t, c)
  BY <1>2, Zenon DEF YieldToQueue, TypeOK, CoroTypes, ThreadTypes
<1>3. CASE WaitBegin(t, c)
  BY <1>3, Zenon DEF WaitBegin, TypeOK, CoroTypes, ThreadTypes
<1>4. CASE WaitBeginExt(t, c)
  BY <1>4, Zenon DEF WaitBeginExt, TypeOK, CoroTypes, ThreadTypes
<1> QED  BY <1>1, <1>2, <1>3, <1>4, Zenon DEF Yield

\* The invariant of a pool without timeouts.
StageInv == LoopInv /\ \A c \in Conn : Staged(c)

\* It holds initially.
LEMMA InitStages == Init => StageInv
<1> SUFFICES ASSUME Init  PROVE StageInv
  BY Zenon
<1>1. LoopInv /\ TypeOK /\ OneThreadPerConnection
  BY InitLoop, Zenon DEF LoopInv, IInv, Bookkeeping, Placed
<1>2. ASSUME NEW c \in Conn  PROVE Staged(c)
  <2>1. \A t \in Thread : cur[t] # c
    BY SchedAssumption, Zenon DEF Init
  <2>2. StagedOff(c)
    BY Zenon DEF Init, StagedOff, Alive
  <2> QED  BY <1>1, <2>1, <2>2, StagedForms, Zenon
<1> QED  BY <1>1, <1>2, Zenon DEF StageInv

\* It is inductive.
LEMMA NextStages == MaxTimeouts = 0 /\ StageInv /\ [Next]_vars => StageInv'
\* A connection is somewhere while a thread holds it and has not handed it on.
<1>HeldSomewhere.
  ASSUME NEW t \in Thread, NEW c \in Conn, cur'[t] = c, pc'[t] \notin {"release", "yield"}
  PROVE  Somewhere(c)'
  BY <1>HeldSomewhere, Zenon DEF Somewhere
\* Then its stage settles the rest.
<1>StagedHeld.
  ASSUME TypeOK', OneThreadPerConnection', NEW t \in Thread, NEW c \in Conn,
         cur'[t] = c, pc'[t] \notin {"release", "yield"}, Somewhere(c)' => StagedOn(t, c)'
  PROVE  Staged(c)'
  BY <1>StagedHeld, <1>HeldSomewhere, StagedFormsNext, Zenon
\* A connection that keeps its state and its place.
<1>StagedKept.
  ASSUME NEW d \in Conn, Staged(d), SameStage(d), state'[d] = state[d], timer'[d] = timer[d],
         bound'[d] = bound[d], watched'[d] = watched[d], Alive(d) /\ Somewhere(d) => Somewhere(d)'
  PROVE  Staged(d)'
  <2> USE <1>StagedKept
  <2>1. \A l \in Labels : In(d, l)' <=> In(d, l)
    BY SameStageStays, Zenon
  <2>2. /\ In(d, "login")' <=> In(d, "login")
        /\ In(d, "close")' <=> In(d, "close")
        /\ In(d, "idle")' <=> In(d, "idle")
        /\ (\E l \in CommandStages : In(d, l))' <=> \E l \in CommandStages : In(d, l)
    BY <2>1, Zenon DEF Labels, CommandStages
  <2>3. Alive(d)' <=> Alive(d)
    BY Zenon DEF Alive
  <2> QED  BY <2>2, <2>3, ZenonT(40) DEF Staged, SameStage, SameHeld
\* A thread at work on a connection.
<1>ProcessStaged.
  ASSUME LoopInv, IInv', NEW t \in Thread, Process(t), \A e \in Conn : Staged(e), NEW d \in Conn
  PROVE  Staged(d)'
  <2> USE <1>ProcessStaged
  \* The error label.
  <2>BeginCloseStaged.
    ASSUME TypeOK, TypeOK', OneThreadPerConnection', NEW c \in Conn, cur[t] = c, StagedOn(t, c),
           NEW ret, BeginClose(t, c, ret), timer'[c] = timer[c]
    PROVE  Staged(c)'
    <3> USE <2>BeginCloseStaged
    <3>1. /\ state'[c] = "closing" /\ coro_status'[c] = "ongoing" /\ pc'[t] = "close" /\ cur'[t] = c
          /\ in_error'[c]
      BY DEF BeginClose, Goto, TypeOK, ConnTypes, CoroTypes, ThreadTypes
    <3>2. Somewhere(c)' => StagedOn(t, c)'
      BY <3>1, Zenon DEF StagedOn, At, Stages, CommandStages
    <3> QED  BY <3>1, <3>2, <1>StagedHeld, ZenonT(40)
  \* tp_callback() up to the coroutine.
  <2>EnterStaged.
    ASSUME TypeOK, TypeOK', OneThreadPerConnection, OneThreadPerConnection', NEW c \in Conn,
           cur[t] = c, Enter(t, c), Running(c), Staged(c)
    PROVE  Staged(c)'
    <3> USE <2>EnterStaged
    <3>1. Turn(t, c) /\ (\A u \in Thread : cur'[u] = c => u = t)
      BY EnterOthers, OnlyHere, Zenon
    <3>2. StagedOn(t, c)
      BY StagedForms, Zenon
    <3>3. /\ state[c] = "connecting" => At(t, c) = "login" \/ At(t, c) = "idle"
          /\ state[c] = "closing" => At(t, c) = "close"
      <4>1. /\ In(c, "login") <=> At(t, c) = "login"
            /\ In(c, "close") <=> At(t, c) = "close"
            /\ In(c, "idle") <=> At(t, c) = "idle"
        BY StageAt, Zenon DEF Stages
      <4> QED  BY <4>1, Zenon DEF Running
    <3>4. /\ at[c] \in {"login", "exec", "replied", "close"} /\ coro_status[c] \in {"empty", "ongoing"}
          /\ pc[t] = "enter"
      BY Zenon DEF TypeOK, Enter, LoginImpossible, StartLogin, ResumeLoginOrClose, KilledWhileIdle,
         StartCommand, ResumeCommand, CoroTypes, ThreadTypes
    <3> USE DEF Goto, coroVars, sockVars, boundVars, connVars
    <3>6. CASE LoginImpossible(t, c)
      <4>1. \A u \in Thread : cur'[u] # c
        BY <3>1, <3>6, SchedAssumption, Zenon DEF LoginImpossible, TypeOK, ThreadTypes
      <4>2. StagedOff(c)'
        <5>1. /\ state'[c] = "deleted" /\ coro_status'[c] = coro_status[c] /\ timer'[c] = timer[c]
              /\ state[c] = "new"
          BY <3>6, Zenon DEF LoginImpossible, TypeOK, ConnTypes, CoroTypes
        <5>2. coro_status[c] = "empty" /\ timer[c] = "none"
          BY <3>2, <3>4, <5>1, Zenon DEF StagedOn
        <5> QED  BY <5>1, <5>2, Zenon DEF StagedOff, Alive
      <4> QED  BY <4>1, <4>2, StagedFormsNext, Zenon
    <3>7. CASE StartLogin(t, c)
      <4>1. /\ state'[c] = "connecting" /\ coro_status'[c] = "ongoing" /\ pc'[t] = "login" /\ cur'[t] = c
            /\ timer'[c] = timer[c] /\ watched'[c] = watched[c] /\ bound'[c] = bound[c] /\ state[c] = "new"
        BY <3>7 DEF StartLogin, TypeOK, ConnTypes, CoroTypes, ThreadTypes, SockTypes
      <4>2. Somewhere(c)' => StagedOn(t, c)'
        BY <3>2, <4>1, Zenon DEF StagedOn, At, Stages, CommandStages
      <4> QED  BY <1>StagedHeld, <4>1, <4>2, ZenonT(40)
    <3>8. CASE ResumeLoginOrClose(t, c)
      <4>1. /\ state'[c] = state[c] /\ coro_status'[c] = coro_status[c] /\ at'[c] = at[c] /\ cur'[t] = c
            /\ pc'[t] = (IF need_sql_thd[c] THEN "wait" ELSE at[c])
            /\ in_error'[c] = (state[c] = "closing")
            /\ timer'[c] = timer[c] /\ watched'[c] = watched[c] /\ bound'[c] = bound[c]
            /\ state[c] \in {"connecting", "closing"}
        BY <3>8, ZenonT(40) DEF ResumeLoginOrClose, ResumeAt, TypeOK, ConnTypes, CoroTypes, ThreadTypes,
           SockTypes
      <4>2. coro_status[c] = "ongoing"
        BY <3>2, <3>4, <4>1, Zenon DEF StagedOn
      <4>3. \/ state[c] = "connecting" /\ at[c] = "login"
            \/ state[c] = "closing" /\ at[c] = "close"
        BY <3>3, <3>4, <4>1, <4>2, Zenon DEF At
      <4>4. Somewhere(c)' => StagedOn(t, c)'
        BY <3>2, <4>1, <4>2, <4>3, Zenon DEF StagedOn, At, Stages, CommandStages
      <4>5. pc'[t] \notin {"release", "yield"}
        BY <3>4, <4>1, Zenon
      <4> QED  BY <1>StagedHeld, <4>1, <4>4, <4>5, Zenon
    <3>9. CASE KilledWhileIdle(t, c)
      BY <3>2, <3>9, <2>BeginCloseStaged, Zenon DEF KilledWhileIdle
    <3>10. CASE StartCommand(t, c)
      <4>1. /\ state'[c] = "running" /\ coro_status'[c] = "ongoing" /\ pc'[t] = "read" /\ cur'[t] = c
            /\ timer'[c] = timer[c] /\ watched'[c] = watched[c] /\ bound'[c] = bound[c]
            /\ state[c] \in {"idle", "pending", "running"}
        BY <3>10 DEF StartCommand, Commandable, TypeOK, ConnTypes, CoroTypes, ThreadTypes, SockTypes
      <4>2. Somewhere(c)' => StagedOn(t, c)'
        BY <3>2, <4>1, Zenon DEF StagedOn, At, Stages, CommandStages
      <4> QED  BY <1>StagedHeld, <4>1, <4>2, Zenon
    <3>11. CASE ResumeCommand(t, c)
      <4>1. /\ state'[c] = "running" /\ coro_status'[c] = "ongoing" /\ at'[c] = at[c] /\ cur'[t] = c
            /\ pc'[t] = (IF need_sql_thd[c] THEN "wait" ELSE at[c])
            /\ timer'[c] = timer[c] /\ watched'[c] = watched[c] /\ bound'[c] = bound[c]
            /\ state[c] \in {"idle", "pending", "running"} /\ coro_status[c] = "ongoing"
        BY <3>11 DEF ResumeCommand, ResumeAt, Commandable, TypeOK, ConnTypes, CoroTypes, ThreadTypes,
           SockTypes
      <4>2. at[c] \in {"exec", "replied"} /\ state[c] = "running"
        BY <3>2, <3>4, <4>1, Zenon DEF StagedOn, At
      <4>3. Somewhere(c)' => StagedOn(t, c)'
        BY <3>2, <4>1, <4>2, Zenon DEF StagedOn, At, Stages, CommandStages
      <4>4. pc'[t] \notin {"release", "yield"}
        BY <4>2, <4>1, Zenon
      <4> QED  BY <1>StagedHeld, <4>1, <4>3, <4>4, ZenonT(40)
    <3> QED  BY <3>6, <3>7, <3>8, <3>9, <3>10, <3>11, Zenon DEF Enter
  \* The coroutines.
  <2>ExecuteStaged.
    ASSUME TypeOK, TypeOK', OneThreadPerConnection, OneThreadPerConnection', NEW c \in Conn,
           cur[t] = c, Execute(t, c), Staged(c)
    PROVE  Staged(c)'
    <3> USE <2>ExecuteStaged
    <3>1. Turn(t, c) /\ (\A u \in Thread : cur'[u] = c => u = t)
      BY ExecuteOthers, OnlyHere, Zenon
    <3>2. StagedOn(t, c)
      BY StagedForms, Zenon
    <3>3. at[c] \in {"login", "exec", "replied", "close"}
      BY Zenon DEF TypeOK, CoroTypes
    <3> USE DEF Goto, coroVars, sockVars, boundVars, connVars
    <3>4. ASSUME UNCHANGED << state, bound, watched, coro_status, in_error, timer >>, cur'[t] = c,
                 pc[t] \in CommandStages, pc'[t] \in CommandStages
          PROVE  Staged(c)'
      <4>1. Somewhere(c)' => StagedOn(t, c)'
        BY <3>2, <3>4, Zenon DEF StagedOn, At, Stages, CommandStages
      <4> QED  BY <3>4, <4>1, <1>StagedHeld, Zenon DEF CommandStages
    <3>5. CASE ReadPacket(t, c) \/ ReadError(t, c) \/ TakeSnapshot(t, c) \/ Reply(t, c)
      <4>1. /\ UNCHANGED << state, bound, watched, coro_status, in_error, timer >> /\ cur'[t] = c
            /\ pc[t] \in CommandStages /\ pc'[t] \in CommandStages
        BY <3>5, Zenon DEF ReadPacket, ReadError, TakeSnapshot, Reply, CommandStages, TypeOK, ThreadTypes
      <4> QED  BY <3>4, <4>1, Zenon
    <3>6. CASE Quit(t, c) \/ FinishDead(t, c) \/ LoginFailed(t, c)
      <4>1. \E ret \in {"close", coro_ret[c]} : BeginClose(t, c, ret)
        BY <3>6, Zenon DEF Quit, FinishDead, LoginFailed
      <4>2. timer'[c] = timer[c]
        BY <3>6, Zenon DEF Quit, FinishDead, LoginFailed
      <4> QED  BY <3>2, <4>1, <4>2, <2>BeginCloseStaged, Zenon
    <3>7. CASE FinishCommand(t, c) \/ LoginDone(t, c)
      <4>1. /\ coro_status'[c] = "empty" /\ pc'[t] = "idle" /\ cur'[t] = c
            /\ state'[c] = state[c] /\ watched'[c] = watched[c] /\ bound'[c] = bound[c] /\ timer'[c] = timer[c]
            /\ pc[t] \in {"replied", "login"}
        BY <3>7 DEF FinishCommand, LoginDone, TypeOK, ConnTypes, CoroTypes, ThreadTypes, SockTypes
      <4>2. Somewhere(c)' => StagedOn(t, c)'
        BY <3>2, <4>1, Zenon DEF StagedOn, At, Stages, CommandStages
      <4> QED  BY <4>1, <4>2, <1>StagedHeld, ZenonT(40)
    <3>8. CASE CloseDone(t, c)
      <4>1. in_error[c]
        BY <3>2, <3>8, ZenonT(40) DEF CloseDone, StagedOn, At
      <4>2. /\ state'[c] = "deleted" /\ coro_status'[c] = "empty" /\ timer'[c] = timer[c] /\ cur'[t] = NoConn
        BY <3>8, <4>1 DEF CloseDone, TypeOK, ConnTypes, CoroTypes, ThreadTypes
      <4>3. \A u \in Thread : cur'[u] # c
        BY <3>1, <4>2, SchedAssumption, Zenon
      <4>4. StagedOff(c)'
        BY <3>2, <4>2, Zenon DEF StagedOff, StagedOn, Alive
      <4> QED  BY <4>3, <4>4, StagedFormsNext, Zenon
    <3>9. CASE WaitEnd(t, c)
      <4>1. /\ UNCHANGED << state, bound, watched, coro_status, in_error, timer, at >> /\ cur'[t] = c
            /\ pc[t] = "wait" /\ pc'[t] = at[c]
        BY <3>9, Zenon DEF WaitEnd, TypeOK, ThreadTypes
      <4>2. Somewhere(c)' => StagedOn(t, c)'
        BY <3>2, <3>3, <4>1, Zenon DEF StagedOn, At, Stages, CommandStages
      <4>3. pc'[t] \notin {"release", "yield"}
        BY <3>3, <4>1, Zenon
      <4> QED  BY <4>1, <4>2, <4>3, <1>StagedHeld, Zenon
    <3> QED  BY <3>5, <3>6, <3>7, <3>8, <3>9, Zenon DEF Execute
  \* A yield.
  <2>YieldStaged.
    ASSUME TypeOK, TypeOK', OneThreadPerConnection, OneThreadPerConnection', NEW c \in Conn,
           cur[t] = c, Yield(t, c), Staged(c)
    PROVE  Staged(c)'
    <3> USE <2>YieldStaged
    <3>1. StagedOn(t, c)
      BY StagedForms, Zenon
    <3>2. at[c] \in {"login", "exec", "replied", "close"}
      BY Zenon DEF TypeOK, CoroTypes
    <3>3. /\ UNCHANGED << state, bound, watched, coro_status, in_error, timer, cur >>
          /\ pc'[t] \in {"wait", "yield"} /\ pc[t] \in {"login", "exec", "replied", "close", "wait"}
          /\ at'[c] = IF pc[t] = "wait" THEN at[c] ELSE pc[t]
      BY YieldSteps, Zenon
    <3> USE DEF CanYield, Goto, connVars, sockVars
    <3>4. Somewhere(c)'
      <4>1. CASE YieldToTx(t, c)
        BY <4>1, Zenon DEF YieldToTx, Somewhere, TypeOK, ConnTypes, CoroTypes, ThreadTypes, SockTypes
      <4>2. CASE YieldToQueue(t, c)
        <5>1. req_queue[c] \in Nat /\ sql_native_queue[c] \in Nat
          BY Zenon DEF TypeOK, QueueTypes
        <5>2. req_queue'[c] = req_queue[c] + 1 \/ sql_native_queue'[c] = sql_native_queue[c] + 1
          BY <4>2, ZenonT(40) DEF YieldToQueue, Add, TypeOK, QueueTypes
        <5> QED  BY <5>1, <5>2, ZeroOne, Positive, Zenon DEF Somewhere
      <4>3. CASE WaitBegin(t, c)
        <5>1. cur'[t] = c /\ pc'[t] = "wait"
          BY <3>3, <4>3, Zenon DEF WaitBegin, TypeOK, ThreadTypes
        <5> QED  BY <5>1, <1>HeldSomewhere, Zenon
      <4>4. CASE WaitBeginExt(t, c)
        <5>1. sql_native_queue[c] \in Nat
          BY Zenon DEF TypeOK, QueueTypes
        <5>2. sql_native_queue'[c] = sql_native_queue[c] + 1
          BY <4>4, ZenonT(40) DEF WaitBeginExt, Add, TypeOK, QueueTypes
        <5> QED  BY <5>1, <5>2, ZeroOne, Positive, Zenon DEF Somewhere
      <4> QED  BY <4>1, <4>2, <4>3, <4>4, Zenon DEF Yield
    <3>5. StagedOn(t, c)'
      BY <3>1, <3>2, <3>3, <3>4 DEF StagedOn, At, Stages, CommandStages
    <3> QED  BY <3>3, <3>5, StagedFormsNext, Zenon
  \* tp_callback() after the coroutine.
  <2>LeaveStaged.
    ASSUME TypeOK, TypeOK', OneThreadPerConnection, OneThreadPerConnection', NEW c \in Conn,
           cur[t] = c, Leave(t, c), Staged(c)
    PROVE  Staged(c)'
    <3> USE <2>LeaveStaged
    <3>1. Turn(t, c) /\ (\A u \in Thread : cur'[u] = c => u = t)
      BY LeaveOthers, OnlyHere, Zenon
    <3>2. StagedOn(t, c)
      BY StagedForms, Zenon
    <3>3. at[c] \in {"login", "exec", "replied", "close"} /\ coro_status[c] \in {"empty", "ongoing"}
      BY Zenon DEF TypeOK, CoroTypes
    <3> USE DEF Goto, coroVars, sockVars, boundVars, connVars
    <3>4. CASE SetIdle(t, c)
      <4>1. /\ UNCHANGED << bound, watched, coro_status, in_error, timer, at >> /\ cur'[t] = c
            /\ pc[t] = "idle" /\ pc'[t] = "start_io" /\ state'[c] = "idle"
        BY <3>4, Zenon DEF SetIdle, TypeOK, ConnTypes, ThreadTypes
      <4>2. watched[c] \/ ~bound[c]
        BY <3>2, <4>1, Zenon DEF StagedOn
      <4>3. Somewhere(c)' => StagedOn(t, c)'
        BY <3>2, <4>1, <4>2, Zenon DEF StagedOn, At, Stages, CommandStages
      <4> QED  BY <4>1, <4>3, <1>StagedHeld, Zenon
    <3>5. ASSUME UNCHANGED << state, coro_status, in_error, timer, at >>, cur'[t] = c,
                 pc[t] \in {"start_io", "recount", "requeue"}, pc'[t] \in {"recount", "requeue", "release"},
                 Somewhere(c)', bound'[c] => watched'[c]
          PROVE  Staged(c)'
      <4>1. StagedOn(t, c)'
        BY <3>2, <3>5, Zenon DEF StagedOn, At, Stages, CommandStages
      <4> QED  BY <3>5, <4>1, StagedFormsNext, Zenon
    <3>6. pc[t] \in {"start_io", "recount", "requeue"} => state[c] = "idle" /\ (bound[c] => watched[c])
      BY <3>2, Zenon DEF StagedOn
    <3>7. CASE Bind(t, c)
      <4>1. CASE BeginClose(t, c, coro_ret[c])
        <5>1. timer'[c] = timer[c]
          BY <3>7, Zenon DEF Bind
        <5> QED  BY <3>2, <4>1, <5>1, <2>BeginCloseStaged, Zenon
      <4>2. CASE ~BeginClose(t, c, coro_ret[c])
        <5>1. /\ UNCHANGED << state, coro_status, in_error, timer, at >> /\ cur'[t] = c /\ pc[t] = "start_io"
              /\ pc'[t] = "release" /\ watched'[c] /\ epoll_events'[c] = 0
          BY <3>7, <4>2 DEF Bind, TypeOK, ConnTypes, ThreadTypes, SockTypes
        <5>2. Somewhere(c)'
          BY <5>1, Zenon DEF Somewhere, Parked
        <5> QED  BY <3>5, <5>1, <5>2, ZenonT(40)
      <4> QED  BY <4>1, <4>2, Zenon
    <3>8. CASE StartIO(t, c)
      <4>1. /\ UNCHANGED << state, coro_status, in_error, timer, at, bound, watched >> /\ cur'[t] = c
            /\ pc[t] = "start_io" /\ bound[c]
            /\ \/ pc'[t] = "release" /\ epoll_events'[c] = 0
               \/ pc'[t] = "recount"
        BY <3>8, ZenonT(40) DEF StartIO, TypeOK, ConnTypes, ThreadTypes
      <4>2. watched[c]
        BY <3>6, <4>1, Zenon
      <4>3. Somewhere(c)'
        BY <4>1, <4>2, <1>HeldSomewhere, Zenon DEF Somewhere, Parked
      <4> QED  BY <3>5, <4>1, <4>2, <4>3, Zenon
    <3>9. CASE Recount(t, c)
      <4>1. /\ UNCHANGED << state, coro_status, in_error, timer, at, bound, watched >> /\ cur'[t] = c
            /\ pc[t] = "recount" /\ pc'[t] = "requeue"
        BY <3>9, Zenon DEF Recount, TypeOK, ThreadTypes
      <4> QED  BY <3>5, <3>6, <4>1, <1>HeldSomewhere, Zenon
    <3>10. CASE Requeue(t, c)
      <4>1. /\ UNCHANGED << state, coro_status, in_error, timer, at, bound, watched >> /\ cur'[t] = c
            /\ pc[t] = "requeue" /\ pc'[t] = "release"
        BY <3>10, Zenon DEF Requeue, TypeOK, ThreadTypes
      <4>2. req_queue'[c] = req_queue[c] + 1 /\ req_queue[c] \in Nat
        BY <3>10, Zenon DEF Requeue, Add, TypeOK, QueueTypes
      <4>3. req_queue'[c] > 0
        BY <4>2, ZeroOne, Positive, Zenon
      <4>4. Somewhere(c)'
        BY <4>3, Zenon DEF Somewhere
      <4> QED  BY <3>5, <3>6, <4>1, <4>4, Zenon
    <3>11. CASE Release(t, c)
      <4>1. /\ UNCHANGED << state, coro_status, in_error, timer, at, bound, watched, epoll_events, queueVars, batch,
                            tx_pending >>
            /\ cur'[t] = NoConn /\ pc[t] \in {"release", "yield"}
        BY <3>11, Zenon DEF Release, TypeOK, ThreadTypes
      <4>2. \A u \in Thread : cur'[u] # c
        BY <3>1, <4>1, SchedAssumption, Zenon
      <4>3. \A u \in Thread : cur[u] = c => u = t
        BY SchedAssumption, Zenon DEF OneThreadPerConnection
      <4>4. Somewhere(c) => Somewhere(c)'
        BY <4>1, <4>3, Zenon DEF Somewhere, Parked, queueVars
      <4>5. Alive(c)' <=> Alive(c)
        BY <4>1, Zenon DEF Alive
      <4>6. StagedOff(c)'
        BY <3>2, <3>3, <4>1, <4>4, <4>5, Zenon DEF StagedOff, StagedOn, At, Stages, CommandStages
      <4> QED  BY <4>2, <4>6, StagedFormsNext, Zenon
    <3> QED  BY <3>4, <3>7, <3>8, <3>9, <3>10, <3>11, Zenon DEF Leave
  \* A turn of a thread moves another connection at most from its batch to a
  \* queue.
  <2>TurnStaged.
    ASSUME TypeOK, TypeOK', NEW c \in Conn, Turn(t, c), Staged(d),
           SameConn(d), SameHeld(d), sql_native_queue'[d] = sql_native_queue[d], tx_pending'[d] = tx_pending[d],
           GivesBack(t, d), batch'[t][d] = batch[t][d] \/ req_queue'[d] # req_queue[d] \/ resume_queue'[d] # resume_queue[d]
                            \/ batch[t][d] = 0
    PROVE  Staged(d)'
    <3> USE <2>TurnStaged
    <3>1. SameStage(d)
      BY Zenon DEF SameStage, SameConn
    <3>2. ASSUME Somewhere(d)  PROVE Somewhere(d)'
      <4>1. /\ req_queue[d] \in Nat /\ resume_queue[d] \in Nat /\ batch[t][d] \in Nat
            /\ req_queue'[d] \in Nat /\ resume_queue'[d] \in Nat
        BY Zenon DEF TypeOK, QueueTypes, ThreadTypes
      <4>2. req_queue[d] > 0 \/ resume_queue[d] > 0 => req_queue'[d] > 0 \/ resume_queue'[d] > 0
        BY <4>1, Summed, Zenon DEF GivesBack
      <4>3. CASE \E u \in Thread : batch[u][d] > 0
        <5>1. PICK u \in Thread : batch[u][d] > 0
          BY <4>3, Zenon
        <5>2. CASE u = t
          <6>1. batch'[t][d] = batch[t][d] \/ req_queue'[d] > 0 \/ resume_queue'[d] > 0
            BY <4>1, <5>1, <5>2, Summed, ZeroOne, Zenon DEF GivesBack
          <6> QED  BY <5>1, <5>2, <6>1, ZenonT(40) DEF Somewhere
        <5>3. CASE u # t
          BY <5>1, <5>3, Zenon DEF Somewhere, Turn
        <5> QED  BY <5>2, <5>3, Zenon
      <4>4. CASE \E u \in Thread : cur[u] = d /\ pc[u] \notin {"release", "yield"}
        BY <4>4, Zenon DEF Somewhere, SameHeld
      <4>5. Parked(d)' <=> Parked(d)
        BY Zenon DEF Parked, SameConn
      <4> QED  BY <3>2, <4>2, <4>3, <4>4, <4>5, Zenon DEF Somewhere
    <3> QED  BY <3>1, <3>2, <1>StagedKept, Zenon DEF SameConn
  <2>1. PICK c \in Conn : cur[t] = c /\ (Enter(t, c) \/ Execute(t, c) \/ Yield(t, c) \/ Leave(t, c))
    BY Zenon DEF Process
  <2>2. TypeOK /\ Placed /\ Running(c) /\ Staged(c) /\ OneThreadPerConnection
    BY Zenon DEF LoopInv, IInv, Bookkeeping, Placed
  <2>3. TypeOK' /\ OneThreadPerConnection'
    BY Zenon DEF IInv, Bookkeeping, Placed
  <2>4. CASE d = c
    BY <2>1, <2>2, <2>3, <2>4, <2>EnterStaged, <2>ExecuteStaged, <2>YieldStaged, <2>LeaveStaged, Zenon
  <2>5. CASE d # c
    <3>1. Turn(t, c) /\ SameConn(d)
      BY <2>1, <2>2, <2>5, EnterOthers, ExecuteOthers, YieldOthers, LeaveOthers, Zenon
    <3>2. SameHeld(d)
      BY <2>1, <2>5, <3>1, TurnHeld, Zenon
    <3>3. CASE WaitBegin(t, c)
      <4>1. GivesBack(t, d) /\ sql_native_queue'[d] = sql_native_queue[d] /\ tx_pending'[d] = tx_pending[d]
        BY <2>2, <3>3, WaitBeginGivesBack, Zenon
      <4>2. req_queue'[d] # req_queue[d] \/ resume_queue'[d] # resume_queue[d] \/ batch[t][d] = 0
        <5>1. batch[t] = Empty \/ resume_queue' = [e \in Conn |-> resume_queue[e] + batch[t][e]]
              \/ req_queue' = [e \in Conn |-> req_queue[e] + batch[t][e]]
          BY <3>3, Zenon DEF WaitBegin
        <5>2. batch[t][d] = 0 \/ resume_queue'[d] = resume_queue[d] + batch[t][d]
              \/ req_queue'[d] = req_queue[d] + batch[t][d]
          BY <5>1, Zenon DEF Empty
        <5>3. req_queue[d] \in Nat /\ resume_queue[d] \in Nat /\ batch[t][d] \in Nat
          BY <2>2, Zenon DEF TypeOK, QueueTypes, ThreadTypes
        <5> QED  BY <5>2, <5>3
      <4> QED  BY <2>2, <2>3, <3>1, <3>2, <4>1, <4>2, <2>TurnStaged, Zenon
    <3>4. CASE ~WaitBegin(t, c)
      <4>1. SamePlaces(d)
        BY <2>1, <2>2, <2>5, <3>4, EnterOthers, ExecuteOthers, YieldOthers, LeaveOthers, Zenon
      <4>2. GivesBack(t, d)
        BY <4>1, Zenon DEF GivesBack, SamePlaces
      <4> QED  BY <2>2, <2>3, <3>1, <3>2, <4>1, <4>2, <2>TurnStaged, Zenon DEF SamePlaces
    <3> QED  BY <3>3, <3>4, Zenon
  <2> QED  BY <2>4, <2>5, Zenon
\* A thread that takes, skips or picks connections, or applies events.
<1>DispatchStaged.
  ASSUME LoopInv, IInv', NEW t \in Thread, Dispatch(t), NEW d \in Conn, Staged(d)
  PROVE  Staged(d)'
  <2> USE <1>DispatchStaged
  <2>1. TypeOK /\ Placed /\ ThreadsInLoop /\ OneThreadPerConnection
    BY Zenon DEF LoopInv, IInv, Bookkeeping, Placed
  <2>2. TypeOK' /\ OneThreadPerConnection'
    BY Zenon DEF IInv, Bookkeeping, Placed
  <2>3. Dispatched(t)
    BY <2>1, DispatchSteps, Zenon
  <2>4. /\ state'[d] = state[d] /\ timer'[d] = timer[d] /\ bound'[d] = bound[d] /\ watched'[d] = watched[d]
        /\ coro_status'[d] = coro_status[d] /\ at'[d] = at[d] /\ in_error'[d] = in_error[d]
        /\ need_sql_thd'[d] = need_sql_thd[d] /\ tx_pending'[d] = tx_pending[d]
        /\ \A u \in Thread \ {t} : pc'[u] = pc[u] /\ cur'[u] = cur[u] /\ batch'[u] = batch[u]
    BY <2>3, Zenon DEF Dispatched, coroVars, boundVars
  <2>5. CASE Pick(t, d) /\ cur'[t] = d /\ pc'[t] = "enter" /\ \A u \in Thread : cur[u] # d
    <3>1. StagedOff(d)
      BY <2>1, <2>5, StagedForms, Zenon
    <3>2. at[d] \in {"login", "exec", "replied", "close"} /\ coro_status[d] \in {"empty", "ongoing"}
      BY <2>1, Zenon DEF TypeOK, CoroTypes
    <3>3. Somewhere(d)' => StagedOn(t, d)'
      BY <2>4, <2>5, <3>1, <3>2, Zenon DEF StagedOff, StagedOn, At, Stages, CommandStages
    <3> QED  BY <2>2, <2>5, <3>3, <1>StagedHeld, Zenon
  <2>6. CASE SameHeld(d)
    <3>1. SameStage(d)
      BY <2>4, <2>6, Zenon DEF SameStage
    <3>2. ASSUME Alive(d), Somewhere(d)  PROVE Somewhere(d)'
      <4> USE DEF Goto
      <4>1. ASSUME req_queue[d] > 0 => req_queue'[d] > 0 \/ batch'[t][d] > 0,
                   resume_queue[d] > 0 => resume_queue'[d] > 0 \/ batch'[t][d] > 0,
                   sql_native_queue[d] > 0 => sql_native_queue'[d] > 0 \/ batch'[t][d] > 0,
                   batch[t][d] > 0 => batch'[t][d] > 0 \/ resume_queue'[d] > 0 \/ sql_native_queue'[d] > 0,
                   Parked(d) => Parked(d)' \/ req_queue'[d] > 0
            PROVE  Somewhere(d)'
        BY <2>4, <2>6, <3>2, <4>1, Zenon DEF Somewhere, SameHeld
      <4>2. /\ req_queue[d] \in Nat /\ resume_queue[d] \in Nat /\ sql_native_queue[d] \in Nat /\ batch[t][d] \in Nat
            /\ epoll_events[d] \in Nat
        BY <2>1, Zenon DEF TypeOK, ConnTypes, QueueTypes, ThreadTypes
      <4>3. pc[t] = "loop" => batch[t][d] = 0
        BY <2>1, Zenon DEF ThreadsInLoop
      <4>4. CASE GetNative(t)
        <5>1. PICK e \in Conn : /\ sql_native_queue' = [sql_native_queue EXCEPT ![e] = @ - 1]
                                /\ batch' = [batch EXCEPT ![t] = [Empty EXCEPT ![e] = 1]]
          BY <4>4, Zenon DEF GetNative, TakeFrom
        <5>2. /\ d = e => batch'[t][d] = 1
              /\ d # e => sql_native_queue'[d] = sql_native_queue[d]
          BY <2>1, <5>1, Zenon DEF Empty, TypeOK, QueueTypes, ThreadTypes
        <5>3. UNCHANGED << req_queue, resume_queue, epoll_events, watched >> /\ pc[t] = "loop"
          BY <4>4, Zenon DEF GetNative, TakeFrom, connVars, sockVars
        <5>4. ~(batch[t][d] > 0) /\ (Parked(d) => Parked(d)')
          BY <4>3, <5>3, ZeroOne, Positive, Zenon DEF Parked
        <5> QED  BY <4>1, <5>2, <5>3, <5>4, ZeroOne, Positive, Zenon
      <4>5. CASE GetResumed(t)
        <5>1. /\ batch'[t] = resume_queue /\ UNCHANGED << req_queue, sql_native_queue, epoll_events, watched >>
              /\ pc[t] = "loop"
          BY <2>1, <4>5, Zenon DEF GetResumed, TakeAll, connVars, sockVars, TypeOK, ThreadTypes
        <5>2. ~(batch[t][d] > 0) /\ (Parked(d) => Parked(d)')
          BY <4>3, <5>1, ZeroOne, Positive, Zenon DEF Parked
        <5> QED  BY <4>1, <5>1, <5>2, Zenon
      <4>6. CASE GetRequests(t)
        <5>1. /\ batch'[t] = req_queue /\ UNCHANGED << resume_queue, sql_native_queue, epoll_events, watched >>
              /\ pc[t] = "loop"
          BY <2>1, <4>6, Zenon DEF GetRequests, TakeAll, connVars, sockVars, TypeOK, ThreadTypes
        <5>2. ~(batch[t][d] > 0) /\ (Parked(d) => Parked(d)')
          BY <4>3, <5>1, ZeroOne, Positive, Zenon DEF Parked
        <5> QED  BY <4>1, <5>1, <5>2, Zenon
      <4>7. CASE GetNothing(t) \/ EndOfBatch(t) \/ Poll(t)
        <5>1. UNCHANGED << req_queue, resume_queue, sql_native_queue, batch, epoll_events, watched >>
          BY <4>7, Zenon DEF GetNothing, EndOfBatch, Poll, queueVars, connVars, sockVars
        <5>2. Parked(d) => Parked(d)'
          BY <5>1, Zenon DEF Parked
        <5> QED  BY <4>1, <5>1, <5>2, Zenon
      <4>8. ASSUME NEW e \in Conn, Skip(t, e)  PROVE Somewhere(d)'
        <5>1. UNCHANGED << req_queue, epoll_events, watched >>
          BY <4>8, Zenon DEF Skip, connVars, sockVars
        <5>2. Parked(d) => Parked(d)'
          BY <5>1, Zenon DEF Parked
        <5>3. /\ resume_queue'[d] = resume_queue[d] \/ resume_queue'[d] = resume_queue[d] + 1
              /\ sql_native_queue'[d] = sql_native_queue[d] \/ sql_native_queue'[d] = sql_native_queue[d] + 1
              /\ d = e => resume_queue'[d] = resume_queue[d] + 1 \/ sql_native_queue'[d] = sql_native_queue[d] + 1
              /\ d # e => batch'[t][d] = batch[t][d]
          BY <2>1, <4>8, Zenon DEF Skip, Add, TypeOK, QueueTypes, ThreadTypes
        <5> QED  BY <4>1, <4>2, <5>1, <5>2, <5>3, ZeroOne, Positive, Zenon
      <4>9. ASSUME NEW e \in Conn, Pick(t, e)  PROVE Somewhere(d)'
        <5>1. UNCHANGED << req_queue, resume_queue, sql_native_queue, epoll_events, watched >>
              /\ cur'[t] = e /\ pc'[t] = "enter"
              /\ (d # e => batch'[t][d] = batch[t][d])
          BY <2>1, <4>9, Zenon DEF Pick, connVars, sockVars, queueVars, TypeOK, ThreadTypes
        <5>2. Parked(d) => Parked(d)'
          BY <5>1, Zenon DEF Parked
        <5>3. CASE d = e
          BY <5>1, <5>3, <1>HeldSomewhere, Zenon
        <5>4. CASE d # e
          BY <4>1, <5>1, <5>2, <5>4, Zenon
        <5> QED  BY <5>3, <5>4, Zenon
      <4>10. ASSUME NEW e \in Conn, ApplyEvent(t, e)  PROVE Somewhere(d)'
        <5>1. UNCHANGED << resume_queue, sql_native_queue, batch, watched >>
          BY <4>10, Zenon DEF ApplyEvent, sockVars
        <5>2. CASE d # e
          <6>1. epoll_events'[d] = epoll_events[d] /\ req_queue'[d] = req_queue[d]
            BY <2>1, <4>10, <5>2, Zenon DEF ApplyEvent, Add, TypeOK, ConnTypes, QueueTypes
          <6>2. Parked(d) => Parked(d)'
            BY <5>1, <6>1, Zenon DEF Parked
          <6> QED  BY <4>1, <5>1, <6>1, <6>2, Zenon
        <5>3. CASE d = e
          <6>1. /\ req_queue'[d] = req_queue[d] \/ req_queue'[d] = req_queue[d] + 1
                /\ epoll_events[d] = 0 => req_queue'[d] = req_queue[d] + 1
            BY <2>1, <3>2, <4>10, <5>3, ZeroOne, Positive, Zenon DEF ApplyEvent, Add, Alive, TypeOK,
               QueueTypes
          <6>2. Parked(d) => req_queue'[d] > 0
            BY <4>2, <6>1, ZeroOne, Positive, Zenon DEF Parked
          <6>3. req_queue[d] > 0 => req_queue'[d] > 0
            BY <4>2, <6>1, ZeroOne, Positive, Zenon
          <6> QED  BY <4>1, <5>1, <6>2, <6>3, Zenon
        <5> QED  BY <5>2, <5>3, Zenon
      <4> QED  BY <4>4, <4>5, <4>6, <4>7, <4>8, <4>9, <4>10, Zenon DEF Dispatch
    <3> QED  BY <2>4, <3>1, <3>2, <1>StagedKept, Zenon
  <2> QED  BY <2>1, <2>5, <2>6, DispatchHolds, Zenon
\* Clients, KILL and the transaction service, without timeouts.
<1>EnvironmentStaged.
  ASSUME MaxTimeouts = 0, IInv, NEW c \in Conn, Environment(c) \/ Resume(c), NEW d \in Conn, Staged(d)
  PROVE  Staged(d)'
  <2> USE <1>EnvironmentStaged
  <2>1. TypeOK /\ Bookkeeping /\ Placed /\ HeldIsAlive
    BY Zenon DEF IInv, Bookkeeping, Placed
  <2>2. /\ UNCHANGED << cur, pc, batch, bound, watched >> /\ SameStage(d)
        /\ d # c => SameConn(d) /\ SamePlaces(d)
        /\ state'[d] = "new" => \A u \in Thread : cur[u] # d \/ state[d] = "new"
    BY <2>1, EnvironmentSteps, Zenon
  <2>3. CASE d # c
    <3>1. Somewhere(d) => Somewhere(d)'
      BY <2>2, <2>3, Zenon DEF Somewhere, Parked, SameConn, SamePlaces, SameStage, SameHeld
    <3> QED  BY <2>2, <2>3, <3>1, <1>StagedKept, Zenon DEF SameConn
  <2>4. CASE d = c
    <3> USE DEF connVars, coroVars, queueVars, threadVars, sockVars, clientVars, boundVars
    <3>1. CASE AddConnection(c)
      <4>1. state[c] = "none" /\ state'[c] = "new" /\ req_queue'[c] = req_queue[c] + 1 /\ req_queue[c] \in Nat
            /\ UNCHANGED << coro_status, at, in_error, timer, bound, watched, cur, pc >>
        BY <2>1, <3>1, Zenon DEF AddConnection, Add, TypeOK, ConnTypes, QueueTypes
      <4>2. req_queue'[c] > 0
        BY <4>1, ZeroOne, Positive, Zenon
      <4>3. Somewhere(c)'
        BY <4>2, Zenon DEF Somewhere
      <4>4. \A u \in Thread : cur[u] # c
        BY <2>1, <4>1, SchedAssumption, Zenon DEF HeldIsAlive, Alive
      <4>5. ~In(c, "login") /\ ~In(c, "close") /\ (\A l \in CommandStages : ~In(c, l))
        BY <2>4, <4>1, Zenon DEF Staged
      <4>6. \A l \in Labels : In(c, l)' <=> In(c, l)
        BY <2>2, <2>4, SameStageStays, Zenon
      <4>7. ~In(c, "login")' /\ ~In(c, "close")' /\ (\A l \in CommandStages : ~In(c, l)')
        BY <4>5, <4>6, Zenon DEF Labels, CommandStages
      <4> QED  BY <2>4, <4>1, <4>3, <4>4, <4>7, Zenon DEF Staged
    <3>2. CASE ClientSend(c) \/ ClientClose(c) \/ Kill(c)
      <4>1. UNCHANGED << state, timer, queueVars, tx_pending, epoll_events >>
        BY <3>2, Zenon DEF ClientSend, ClientClose, Kill
      <4>2. Somewhere(c) => Somewhere(c)'
        BY <2>2, <4>1, Zenon DEF Somewhere, Parked
      <4> QED  BY <2>2, <2>4, <4>1, <4>2, <1>StagedKept, Zenon
    <3>3. ~TimeoutCheck(c)
      BY <2>1 DEF TimeoutCheck, TypeOK, ConnTypes, CoroTypes, QueueTypes, ThreadTypes, SockTypes,
         ClientTypes, BoundTypes
    <3>4. ~TimeoutPending(c) /\ ~TimeoutKill(c)
      BY <2>4, Zenon DEF Staged, TimeoutPending, TimeoutKill
    <3>5. CASE Resume(c)
      <4>1. UNCHANGED << state, timer >>
        BY <3>5, Zenon DEF Resume
      <4>2. resume_queue[c] \in Nat /\ sql_native_queue[c] \in Nat
        BY <2>1, Zenon DEF TypeOK, QueueTypes
      <4>3. resume_queue'[c] = resume_queue[c] + 1 \/ sql_native_queue'[c] = sql_native_queue[c] + 1
        BY <2>1, <3>5, Zenon DEF Resume, Add, TypeOK, QueueTypes
      <4>4. resume_queue'[c] > 0 \/ sql_native_queue'[c] > 0
        BY <4>2, <4>3, ZeroOne, Positive, Zenon
      <4>5. Somewhere(c)'
        BY <4>4, Zenon DEF Somewhere
      <4> QED  BY <2>2, <2>4, <4>1, <4>5, <1>StagedKept, Zenon
    <3> QED  BY <3>1, <3>2, <3>3, <3>4, <3>5, Zenon DEF Environment
  <2> QED  BY <2>3, <2>4, Zenon
<1> SUFFICES ASSUME MaxTimeouts = 0, StageInv, [Next]_vars  PROVE StageInv'
  BY Zenon
<1>1. LoopInv /\ LoopInv' /\ IInv /\ IInv' /\ \A c \in Conn : Staged(c)
  BY NextLoop, Zenon DEF StageInv, LoopInv
<1>2. CASE UNCHANGED vars
  <2>1. UNCHANGED << state, timer, bound, watched, epoll_events, coro_status, at, in_error, need_sql_thd, pc, cur,
                     req_queue, resume_queue, sql_native_queue, batch, tx_pending >>
    BY <1>2, Zenon DEF vars, connVars, coroVars, queueVars, threadVars, sockVars, boundVars
  <2>2. ASSUME NEW c \in Conn  PROVE Staged(c)'
    <3>1. SameStage(c) /\ (Somewhere(c) => Somewhere(c)')
      BY <2>1, Zenon DEF SameStage, SameHeld, Somewhere, Parked
    <3> QED  BY <1>1, <2>1, <3>1, <1>StagedKept, Zenon
  <2> QED  BY <1>1, <2>2, Zenon DEF StageInv
<1>3. CASE Next
  <2>1. ASSUME NEW c \in Conn  PROVE Staged(c)'
    BY <1>1, <1>3, <1>ProcessStaged, <1>DispatchStaged, <1>EnvironmentStaged, Zenon DEF Next
  <2> QED  BY <1>1, <2>1, Zenon DEF StageInv
<1> QED  BY <1>2, <1>3, Zenon

-----------------------------------------------------------------------------
(* A live connection is in exactly one place.                              *)

\* As long as no connection times out, a live connection is in exactly one
\* place: one entry of one queue or batch, one thread that has not handed it
\* on, one resume_func_() call owed by the transaction service, or the kernel.
\* tp_callback(), start_io() and CoroutineResume() neither forget a connection
\* nor enqueue it twice, for any number of connections and threads.
THEOREM NeverForgotten == MaxTimeouts = 0 /\ Spec => []OneContinuation
\* Counting the places of a connection.
<1>PlacesCounted. StageInv => OneContinuation
  <2> SUFFICES ASSUME StageInv, NEW c \in Conn, Alive(c)  PROVE \E k \in Continuations(c) : Continuations(c) = {k}
    BY Zenon DEF OneContinuation
  <2>1. PICK k \in Kinds, h \in Thread \cup {NoConn} : OnlyAt(c, k, h)
    BY Zenon DEF StageInv, LoopInv, IInv, Placed, AtMostOneContinuation
  <2>2. Somewhere(c)
    BY Zenon DEF StageInv, Staged
  <2>3. Parked(c) => CanSignal(c)
    BY Zenon DEF Parked, CanSignal, Alive
  <2> DEFINE R == {<< "req", i >> : i \in 1 .. req_queue[c]}
             Q == {<< "resume", i >> : i \in 1 .. resume_queue[c]}
             N == {<< "native", i >> : i \in 1 .. sql_native_queue[c]}
             B == UNION {{<< "batch", t, i >> : i \in 1 .. batch[t][c]} : t \in Thread}
             T == {<< "thread", t >> : t \in {u \in Thread : cur[u] = c /\ pc[u] \notin {"release", "yield"}}}
             X == IF tx_pending[c] THEN {<< "tx" >>} ELSE {}
             K == IF Parked(c) THEN {<< "kernel" >>} ELSE {}
  <2>4. Continuations(c) = R \cup Q \cup N \cup B \cup T \cup X \cup K
    BY Zenon DEF Continuations
  <2>5. R = IF k = "req" THEN {<< "req", 1 >>} ELSE {}
    <3>1. req_queue[c] \in {0, 1} /\ (req_queue[c] = 1 => k = "req")
      BY <2>1, Zenon DEF OnlyAt
    <3>2. k = "req" => req_queue[c] = 1
      BY <2>1, <2>2, <2>3, ZeroOne, Positive, Zenon DEF OnlyAt, Somewhere
    <3> QED  BY <3>1, <3>2
  <2>6. Q = IF k = "resume" THEN {<< "resume", 1 >>} ELSE {}
    <3>1. resume_queue[c] \in {0, 1} /\ (resume_queue[c] = 1 => k = "resume")
      BY <2>1, Zenon DEF OnlyAt
    <3>2. k = "resume" => resume_queue[c] = 1
      BY <2>1, <2>2, <2>3, ZeroOne, Positive, Zenon DEF OnlyAt, Somewhere
    <3> QED  BY <3>1, <3>2
  <2>7. N = IF k = "native" THEN {<< "native", 1 >>} ELSE {}
    <3>1. sql_native_queue[c] \in {0, 1} /\ (sql_native_queue[c] = 1 => k = "native")
      BY <2>1, Zenon DEF OnlyAt
    <3>2. k = "native" => sql_native_queue[c] = 1
      BY <2>1, <2>2, <2>3, ZeroOne, Positive, Zenon DEF OnlyAt, Somewhere
    <3> QED  BY <3>1, <3>2
  <2>8. B = IF k = "batch" THEN {<< "batch", h, 1 >>} ELSE {}
    <3>1. \A t \in Thread : batch[t][c] \in {0, 1} /\ (batch[t][c] = 1 => k = "batch" /\ h = t)
      BY <2>1, Zenon DEF OnlyAt
    <3>2. k = "batch" => h \in Thread /\ batch[h][c] = 1
      <4>1. k = "batch" => \E t \in Thread : batch[t][c] > 0
        BY <2>1, <2>2, <2>3, ZeroOne, Positive, ZenonT(40) DEF OnlyAt, Somewhere
      <4> QED  BY <3>1, <4>1, ZeroOne, Positive, Zenon
    <3>3. CASE k # "batch"
      <4>1. \A t \in Thread : batch[t][c] = 0
        BY <3>1, <3>3, Zenon
      <4> QED  BY <3>3, <4>1
    <3>4. CASE k = "batch"
      <4>1. \A t \in Thread : batch[t][c] = IF t = h THEN 1 ELSE 0
        BY <3>1, <3>2, <3>4, Zenon
      <4>2. \A x : x \in B <=> \E t \in Thread : \E i \in 1 .. batch[t][c] : x = << "batch", t, i >>
        OBVIOUS
      <4>3. \A x : x \in B <=> x = << "batch", h, 1 >>
        BY <3>2, <3>4, <4>1, <4>2
      <4> HIDE DEF B
      <4> QED  BY <3>4, <4>3, Zenon
    <3> QED  BY <3>3, <3>4, Zenon
  <2>9. T = IF k = "thread" THEN {<< "thread", h >>} ELSE {}
    <3>1. \A t \in Thread : cur[t] = c /\ pc[t] \notin {"release", "yield"} => k = "thread" /\ h = t
      BY <2>1, Zenon DEF OnlyAt
    <3>2. k = "thread" => \E t \in Thread : cur[t] = c /\ pc[t] \notin {"release", "yield"}
      BY <2>1, <2>2, <2>3, ZeroOne, Positive, Zenon DEF OnlyAt, Somewhere
    <3>3. {u \in Thread : cur[u] = c /\ pc[u] \notin {"release", "yield"}} = IF k = "thread" THEN {h} ELSE {}
      BY <3>1, <3>2, Zenon
    <3> QED  BY <3>3, Zenon
  <2>10. X = IF k = "tx" THEN {<< "tx" >>} ELSE {}
    BY <2>1, <2>2, <2>3, ZeroOne, Positive, Zenon DEF OnlyAt, Somewhere
  <2>11. K = IF k = "kernel" THEN {<< "kernel" >>} ELSE {}
    BY <2>1, <2>2, <2>3, ZeroOne, Positive, Zenon DEF OnlyAt, Somewhere
  <2>12. k # "nowhere"
    BY <2>1, <2>2, <2>3, ZeroOne, Positive, Zenon DEF OnlyAt, Somewhere
  <2> HIDE DEF R, Q, N, B, T, X, K
  <2>13. \E x : Continuations(c) = {x}
    <3>1. CASE k = "req"
      <4>1. R = {<< "req", 1 >>} /\ Q = {} /\ N = {} /\ B = {} /\ T = {} /\ X = {} /\ K = {}
        BY <2>5, <2>6, <2>7, <2>8, <2>9, <2>10, <2>11, <3>1, Zenon
      <4> QED  BY <2>4, <4>1, ZenonT(40)
    <3>2. CASE k = "resume"
      <4>1. Q = {<< "resume", 1 >>} /\ R = {} /\ N = {} /\ B = {} /\ T = {} /\ X = {} /\ K = {}
        BY <2>5, <2>6, <2>7, <2>8, <2>9, <2>10, <2>11, <3>2, Zenon
      <4> QED  BY <2>4, <4>1, ZenonT(40)
    <3>3. CASE k = "native"
      <4>1. N = {<< "native", 1 >>} /\ R = {} /\ Q = {} /\ B = {} /\ T = {} /\ X = {} /\ K = {}
        BY <2>5, <2>6, <2>7, <2>8, <2>9, <2>10, <2>11, <3>3, Zenon
      <4> QED  BY <2>4, <4>1, ZenonT(40)
    <3>4. CASE k = "batch"
      <4>1. B = {<< "batch", h, 1 >>} /\ R = {} /\ Q = {} /\ N = {} /\ T = {} /\ X = {} /\ K = {}
        BY <2>5, <2>6, <2>7, <2>8, <2>9, <2>10, <2>11, <3>4, Zenon
      <4>2. Continuations(c) = B
        BY <2>4, <4>1, Zenon
      <4> QED  BY <4>1, <4>2, Zenon
    <3>5. CASE k = "thread"
      <4>1. T = {<< "thread", h >>} /\ R = {} /\ Q = {} /\ N = {} /\ B = {} /\ X = {} /\ K = {}
        BY <2>5, <2>6, <2>7, <2>8, <2>9, <2>10, <2>11, <3>5, Zenon
      <4> QED  BY <2>4, <4>1, Zenon
    <3>6. CASE k = "tx"
      <4>1. X = {<< "tx" >>} /\ R = {} /\ Q = {} /\ N = {} /\ B = {} /\ T = {} /\ K = {}
        BY <2>5, <2>6, <2>7, <2>8, <2>9, <2>10, <2>11, <3>6, Zenon
      <4> QED  BY <2>4, <4>1, Zenon
    <3>7. CASE k = "kernel"
      <4>1. K = {<< "kernel" >>} /\ R = {} /\ Q = {} /\ N = {} /\ B = {} /\ T = {} /\ X = {}
        BY <2>5, <2>6, <2>7, <2>8, <2>9, <2>10, <2>11, <3>7, Zenon
      <4> QED  BY <2>4, <4>1, Zenon
    <3> QED  BY <2>12, <3>1, <3>2, <3>3, <3>4, <3>5, <3>6, <3>7, Zenon DEF Kinds
  <2> QED  BY <2>13, Zenon
<1> SUFFICES ASSUME MaxTimeouts = 0  PROVE Spec => []OneContinuation
  BY Zenon
<1>1. StageInv /\ [Next]_vars => StageInv'
  BY NextStages, Zenon
<1> QED  BY <1>1, InitStages, <1>PlacesCounted, PTL DEF Spec
=============================================================================
