------------------------ MODULE ConnProtocol_proofs ------------------------
(***************************************************************************)
(* Proofs about ConnSched, for any number of connections and threads:      *)
(* that it implements Session, what a connection owes to its socket at     *)
(* each stage of its coroutine, and from it that no packet is forgotten    *)
(* and that no read blocks (do_command(), start_io() and the poll loops    *)
(* of sql/threadpool_common.cc and sql/threadpool_generic.cc).             *)
(***************************************************************************)
EXTENDS ConnSched_proofs

-----------------------------------------------------------------------------
(* The inductive invariants.                                               *)

\* An event of c has not been counted yet.
Coming(c) == ready[c] \/ \E t \in Thread : c \in polled[t]

\* do_command() would find something to read.
Readable(c) == unread[c] > 0 \/ hup[c]

\* A client that waits for its reply has at most one packet on the way, and
\* closes its side between two commands.
ClientWaits(c) ==
  /\ unread[c] <= sent[c] - replied[c] /\ sent[c] - replied[c] <= 1
  /\ hup[c] /\ ~killed[c] => sent[c] = replied[c]
  /\ In(c, "snapshot") \/ In(c, "exec") => unread[c] = 0 /\ sent[c] = replied[c] + 1
  /\ In(c, "snapshot") => (hup[c] => killed[c])

\* What arrived on a watched socket since events_snapshot_ was taken is under
\* way or was counted.
Counted(c) == watched[c] /\ Readable(c) => Coming(c) \/ epoll_events[c] > events_snapshot[c]

\* What c owes to its socket at each stage.
Watching(c) ==
  /\ state[c] \in {"none", "new", "connecting"} =>
       ~bound[c] /\ ~hup[c] /\ ~killed[c] /\ sent[c] = 0 /\ timer[c] = "none"
  /\ state[c] \in {"none", "new", "deleted"} => coro_status[c] = "empty"
  /\ (\E l \in {"idle", "start_io", "recount", "requeue", "release"} : In(c, l)) => coro_status[c] = "empty"
  /\ In(c, "login") => ~bound[c]
  /\ In(c, "close") => ~watched[c]
  /\ In(c, "exec") \/ In(c, "replied") \/ In(c, "idle") \/ In(c, "start_io") =>
       (watched[c] => epoll_events[c] >= events_snapshot[c])
  /\ In(c, "exec") \/ In(c, "replied") => killed[c] \/ Counted(c)
  /\ In(c, "idle") \/ In(c, "start_io") => Counted(c)
  /\ Alive(c) /\ Parked(c) /\ Readable(c) => Coming(c)

\* c is in a queue or in a batch, or its thread is about to run or to enqueue
\* it, and it will start a command.
Called(c) ==
  /\ state[c] = "idle" /\ coro_status[c] = "empty"
  /\ \/ req_queue[c] > 0 \/ resume_queue[c] > 0 \/ sql_native_queue[c] > 0
     \/ \E t \in Thread : batch[t][c] > 0
     \/ \E t \in Thread : cur[t] = c /\ pc[t] \in {"enter", "recount", "requeue"}

\* No two events of c are under way.
OneEvent(c) ==
  /\ ready[c] => \A t \in Thread : c \notin polled[t]
  /\ \A t, u \in Thread : c \in polled[t] /\ c \in polled[u] => t = u

\* The packet in the socket has been announced, and nothing else has.
Expected(c) == unread[c] > 0 /\ ~Coming(c)

\* Until its socket is closed, a packet is announced once: by an event under
\* way, by the counter, or by a start of its command.
Announced(c) ==
  /\ tx_pending[c] => coro_status[c] = "ongoing"
  /\ ~hup[c] =>
       /\ OneEvent(c)
       /\ Coming(c) => unread[c] > 0
       /\ In(c, "read") \/ Called(c) => Expected(c)
       /\ In(c, "exec") \/ In(c, "replied") \/ In(c, "idle") \/ In(c, "start_io") =>
            (bound[c] /\ epoll_events[c] > events_snapshot[c] => Expected(c))

-----------------------------------------------------------------------------
(* A connection is one session.                                            *)

\* The status of a connection whose coroutine is at stage l.
StatusAt(c, l) ==
  IF state[c] = "none" THEN "absent"
  ELSE IF state[c] = "deleted" THEN "gone"
  ELSE IF state[c] = "new" THEN "login"
  ELSE IF coro_status[c] = "empty" THEN "ready"
  ELSE StatusOfStage[l]

\* The status of a connection is that of its stage.
LEMMA Statuses ==
  StageInv =>
    \A c \in Conn :
      /\ \A t \in Thread : cur[t] = c => Status(c) = StatusAt(c, At(t, c))
      /\ (\A t \in Thread : cur[t] # c) => Status(c) = StatusAt(c, at[c])
<1> SUFFICES ASSUME StageInv, NEW c \in Conn
             PROVE  /\ \A t \in Thread : cur[t] = c => Status(c) = StatusAt(c, At(t, c))
                    /\ (\A t \in Thread : cur[t] # c) => Status(c) = StatusAt(c, at[c])
  BY Zenon
<1> TypeOK /\ OneThreadPerConnection /\ ThreadsInLoop /\ Staged(c)
  BY Zenon DEF StageInv, LoopInv, IInv, Bookkeeping, Placed
<1> DEFINE running == {t \in Thread : cur[t] = c /\ pc[t] \in Stages}
<1>1. Stage(c) = IF running = {} THEN at[c] ELSE pc[CHOOSE t \in running : TRUE]
  BY Zenon DEF Stage
<1>2. coro_status[c] \in {"empty", "ongoing"}
  BY Zenon DEF TypeOK, CoroTypes
<1>3. ASSUME NEW t \in Thread, cur[t] = c  PROVE Status(c) = StatusAt(c, At(t, c))
  <2>1. StagedOn(t, c)
    BY <1>3, StagedForms, Zenon
  <2>2. \A u \in Thread : cur[u] = c <=> u = t
    BY <1>3, SchedAssumption, Zenon DEF OneThreadPerConnection
  <2>3. coro_status[c] = "ongoing" => pc[t] \in Stages \cup {"enter", "wait", "yield"}
    <3>1. cur[t] # NoConn /\ pc[t] \in Labels
      BY <1>3, SchedAssumption, Zenon DEF TypeOK, ThreadTypes
    <3>2. pc[t] \notin {"loop", "batch", "poll", "apply"}
      BY <1>3, <3>1, Zenon DEF ThreadsInLoop, Free
    <3> QED  BY <2>1, <3>1, <3>2, Zenon DEF StagedOn, Labels, Stages
  <2>4. CASE pc[t] \in Stages
    <3>1. running = {t}
      BY <2>2, <2>4, Zenon
    <3>2. (CHOOSE u \in running : TRUE) = t
      BY <3>1, Zenon
    <3>3. Stage(c) = pc[t]
      BY <1>1, <3>1, <3>2, Zenon
    <3>4. At(t, c) = pc[t]
      BY <2>4, Zenon DEF At, Stages
    <3> QED  BY <3>3, <3>4, Zenon DEF Status, StatusAt
  <2>5. CASE pc[t] \notin Stages
    <3>1. running = {}
      BY <2>2, <2>5, Zenon
    <3>2. Stage(c) = at[c]
      BY <1>1, <3>1, Zenon
    <3>3. coro_status[c] = "ongoing" => At(t, c) = at[c]
      BY <2>3, <2>5, Zenon DEF At
    <3> QED  BY <1>2, <3>2, <3>3, Zenon DEF Status, StatusAt
  <2> QED  BY <2>4, <2>5, Zenon
<1>4. ASSUME \A t \in Thread : cur[t] # c  PROVE Status(c) = StatusAt(c, at[c])
  <2>1. running = {}
    BY <1>4, Zenon
  <2> QED  BY <1>1, <2>1, Zenon DEF Status, StatusAt
<1> QED  BY <1>3, <1>4, Zenon

\* The same in the next state.
LEMMA StatusesNext ==
  (StageInv =>
    \A c \in Conn :
      /\ \A t \in Thread : cur[t] = c => Status(c) = StatusAt(c, At(t, c))
      /\ (\A t \in Thread : cur[t] # c) => Status(c) = StatusAt(c, at[c]))'
BY Statuses, PTL

\* How the session of c may move.
Moves(c) ==
  LET from == Status(c)
      to == Status(c)'
      reads == (sent'[c] - unread'[c]) - (sent[c] - unread[c])
      answers == replied'[c] - replied[c]
  IN  \/ to = from /\ reads = 0 /\ answers = 0
      \/ from = "absent" /\ to = "login" /\ reads = 0 /\ answers = 0
      \/ from = "login" /\ to = "ready" /\ reads = 0 /\ answers = 0
      \/ from = "ready" /\ to = "command" /\ reads = 1 /\ answers = 0
      \/ from = "command" /\ to = "answered" /\ reads = 0 /\ answers = 1
      \/ from = "answered" /\ to = "ready" /\ reads = 0 /\ answers = 0
      \/ from \in {"login", "ready", "command", "answered"} /\ to = "closing" /\ reads = 0 /\ answers = 0
      \/ from \in {"login", "closing"} /\ to = "gone" /\ reads = 0 /\ answers = 0

Rests(d) == Status(d)' = Status(d) /\ sent'[d] - unread'[d] = sent[d] - unread[d] /\ replied'[d] = replied[d]

\* The status of a connection, by its label.
LEMMA StatusByLabel ==
  StageInv =>
    \A c \in Conn :
      /\ state[c] = "deleted" => Status(c) = "gone"
      /\ state[c] = "new" => Status(c) = "login"
      /\ state[c] \notin {"none", "new", "deleted"} /\ coro_status[c] = "empty" => Status(c) = "ready"
      /\ state[c] \notin {"none", "new", "deleted"} /\ coro_status[c] = "ongoing" =>
           /\ \A t \in Thread : cur[t] = c =>
                /\ pc[t] \in Stages => Status(c) = StatusOfStage[pc[t]]
                /\ pc[t] \in {"enter", "wait", "yield"} => Status(c) = StatusOfStage[at[c]]
           /\ (\A t \in Thread : cur[t] # c) => Status(c) = StatusOfStage[at[c]]
<1> SUFFICES ASSUME StageInv, NEW c \in Conn
             PROVE  /\ state[c] = "deleted" => Status(c) = "gone"
                    /\ state[c] = "new" => Status(c) = "login"
                    /\ state[c] \notin {"none", "new", "deleted"} =>
                         /\ coro_status[c] = "empty" => Status(c) = "ready"
                         /\ coro_status[c] = "ongoing" =>
                              /\ \A t \in Thread : cur[t] = c =>
                                   /\ pc[t] \in Stages => Status(c) = StatusOfStage[pc[t]]
                                   /\ pc[t] \in {"enter", "wait", "yield"} => Status(c) = StatusOfStage[at[c]]
                              /\ (\A t \in Thread : cur[t] # c) => Status(c) = StatusOfStage[at[c]]
  BY Zenon
<1>1. /\ state[c] = "deleted" => Status(c) = "gone"
      /\ state[c] = "new" => Status(c) = "login"
      /\ state[c] \notin {"none", "new", "deleted"} /\ coro_status[c] = "empty" => Status(c) = "ready"
  BY Zenon DEF Status
<1>2. ASSUME state[c] \notin {"none", "new", "deleted"}, coro_status[c] = "ongoing"
      PROVE  \A l : StatusAt(c, l) = StatusOfStage[l]
  BY <1>2, Zenon DEF StatusAt
<1>3. ASSUME state[c] \notin {"none", "new", "deleted"}, coro_status[c] = "ongoing", NEW t \in Thread, cur[t] = c
      PROVE  /\ pc[t] \in Stages => Status(c) = StatusOfStage[pc[t]]
             /\ pc[t] \in {"enter", "wait", "yield"} => Status(c) = StatusOfStage[at[c]]
  <2>1. Status(c) = StatusOfStage[At(t, c)]
    BY <1>2, <1>3, Statuses, Zenon
  <2>2. /\ pc[t] \in Stages => At(t, c) = pc[t]
        /\ pc[t] \in {"enter", "wait", "yield"} => At(t, c) = at[c]
    BY <1>3, Zenon DEF At, Stages
  <2> QED  BY <2>1, <2>2, Zenon
<1> QED  BY <1>1, <1>2, <1>3, Statuses, Zenon

\* The same in the next state.
LEMMA StatusByLabelNext ==
  (StageInv =>
    \A c \in Conn :
      /\ state[c] = "deleted" => Status(c) = "gone"
      /\ state[c] = "new" => Status(c) = "login"
      /\ state[c] \notin {"none", "new", "deleted"} /\ coro_status[c] = "empty" => Status(c) = "ready"
      /\ state[c] \notin {"none", "new", "deleted"} /\ coro_status[c] = "ongoing" =>
           /\ \A t \in Thread : cur[t] = c =>
                /\ pc[t] \in Stages => Status(c) = StatusOfStage[pc[t]]
                /\ pc[t] \in {"enter", "wait", "yield"} => Status(c) = StatusOfStage[at[c]]
           /\ (\A t \in Thread : cur[t] # c) => Status(c) = StatusOfStage[at[c]])'
BY StatusByLabel, PTL

\* Every step of the pool is a step of Session, or leaves it unchanged.
LEMMA StepIsSession ==
  ASSUME StageInv, StageInv', [Next]_vars
  PROVE  [S!Next]_(S!vars)
\* The status of a connection that keeps its stage.
<1>SameStatus.
  ASSUME StageInv, StageInv', NEW d \in Conn, SameStage(d), state'[d] = state[d]
  PROVE  Status(d)' = Status(d)
  <2> USE <1>SameStatus
  <2>1. CASE \E u \in Thread : cur[u] = d
    <3>1. PICK u \in Thread : cur[u] = d
      BY <2>1, Zenon
    <3>2. cur'[u] = d /\ pc'[u] = pc[u] /\ coro_status'[d] = coro_status[d] /\ at'[d] = at[d]
      BY <3>1, Zenon DEF SameStage, SameHeld
    <3>3. Status(d) = StatusAt(d, At(u, d)) /\ Status(d)' = StatusAt(d, At(u, d))'
      BY <3>1, <3>2, Statuses, StatusesNext, Zenon
    <3>4. At(u, d)' = At(u, d)
      BY <3>2, Zenon DEF At
    <3> QED  BY <3>2, <3>3, <3>4, Zenon DEF StatusAt
  <2>2. CASE \A u \in Thread : cur[u] # d
    <3>1. (\A u \in Thread : cur'[u] # d) /\ coro_status'[d] = coro_status[d] /\ at'[d] = at[d]
      BY <2>2, Zenon DEF SameStage, SameHeld
    <3>2. Status(d) = StatusAt(d, at[d]) /\ Status(d)' = StatusAt(d, at[d])'
      BY <2>2, <3>1, Statuses, StatusesNext, Zenon
    <3> QED  BY <3>1, <3>2 DEF StatusAt
  <2> QED  BY <2>1, <2>2, Zenon
\* Such a move is a step of Session.
<1>MovesAreSteps.
  ASSUME TypeOK, TypeOK', NEW c \in Conn, Moves(c), \A d \in Conn \ {c} : Rests(d)
  PROVE  [S!Next]_(S!vars)
  <2> USE <1>MovesAreSteps
  <2> DEFINE status == [d \in Conn |-> Status(d)]
             taken == [d \in Conn |-> sent[d] - unread[d]]
             statusN == [d \in Conn |-> Status(d)']
             takenN == [d \in Conn |-> sent'[d] - unread'[d]]
  <2>1. /\ replied \in [Conn -> Nat] /\ replied' \in [Conn -> Nat]
        /\ \A d \in Conn : /\ sent[d] - unread[d] \in Int /\ sent'[d] - unread'[d] \in Int
                           /\ replied[d] \in Nat /\ replied'[d] \in Nat
    BY DEF TypeOK, SockTypes, ClientTypes
  <2>2. statusN = [status EXCEPT ![c] = Status(c)']
    BY Zenon DEF Rests
  <2>3. ASSUME sent'[c] - unread'[c] = sent[c] - unread[c]  PROVE takenN = taken
    BY <2>3, Zenon DEF Rests
  <2>4. ASSUME replied'[c] = replied[c]  PROVE replied' = replied
    BY <2>1, <2>4 DEF Rests
  <2>5. ASSUME Status(c)' = Status(c)  PROVE statusN = status
    BY <2>5, Zenon DEF Rests
  <2>6. ASSUME sent'[c] - unread'[c] = sent[c] - unread[c] + 1  PROVE takenN = [taken EXCEPT ![c] = @ + 1]
    BY <2>6, Zenon DEF Rests
  <2>7. ASSUME replied'[c] = replied[c] + 1  PROVE replied' = [replied EXCEPT ![c] = @ + 1]
    BY <2>1, <2>7, Zenon DEF Rests
  <2>8. status[c] = Status(c)
    BY Zenon
  <2>9. /\ (sent'[c] - unread'[c]) - (sent[c] - unread[c]) = 0 => takenN = taken
        /\ (sent'[c] - unread'[c]) - (sent[c] - unread[c]) = 1 => takenN = [taken EXCEPT ![c] = @ + 1]
        /\ replied'[c] - replied[c] = 0 => replied' = replied
        /\ replied'[c] - replied[c] = 1 => replied' = [replied EXCEPT ![c] = @ + 1]
    <3>1. ASSUME (sent'[c] - unread'[c]) - (sent[c] - unread[c]) = 0  PROVE takenN = taken
      BY <2>1, <2>3, <3>1
    <3>2. ASSUME (sent'[c] - unread'[c]) - (sent[c] - unread[c]) = 1  PROVE takenN = [taken EXCEPT ![c] = @ + 1]
      BY <2>1, <2>6, <3>2
    <3>3. ASSUME replied'[c] - replied[c] = 0  PROVE replied' = replied
      BY <2>1, <2>4, <3>3
    <3>4. ASSUME replied'[c] - replied[c] = 1  PROVE replied' = [replied EXCEPT ![c] = @ + 1]
      BY <2>1, <2>7, <3>4
    <3> QED  BY <3>1, <3>2, <3>3, <3>4, Zenon
  <2> HIDE DEF status, taken, statusN, takenN
  <2> DEFINE Move(from, to) == status[c] \in from /\ statusN = [status EXCEPT ![c] = to]
             Quiet2 == takenN = taken /\ replied' = replied
  <2>10. \/ statusN = status /\ Quiet2
         \/ Move({"absent"}, "login") /\ Quiet2
         \/ Move({"login"}, "ready") /\ Quiet2
         \/ Move({"ready"}, "command") /\ takenN = [taken EXCEPT ![c] = @ + 1] /\ replied' = replied
         \/ Move({"command"}, "answered") /\ replied' = [replied EXCEPT ![c] = @ + 1] /\ takenN = taken
         \/ Move({"answered"}, "ready") /\ Quiet2
         \/ Move({"login", "ready", "command", "answered"}, "closing") /\ Quiet2
         \/ Move({"login", "closing"}, "gone") /\ Quiet2
    BY <2>2, <2>5, <2>8, <2>9, Zenon DEF Moves
  <2> QED
    BY <2>10, Zenon DEF status, taken, statusN, takenN, S!Next, S!vars, S!Connect, S!Accept, S!TakePacket,
       S!Answer, S!Done, S!Close, S!Vanish, S!Move
\* What tp_callback() and the coroutines do is a move of the session.
<1>ProcessMoves.
  ASSUME StageInv, StageInv', NEW t \in Thread, NEW c \in Conn, cur[t] = c,
         Enter(t, c) \/ Execute(t, c) \/ Yield(t, c) \/ Leave(t, c)
  PROVE  Moves(c)
  <2> USE <1>ProcessMoves
  <2>1. TypeOK /\ TypeOK' /\ OneThreadPerConnection /\ OneThreadPerConnection' /\ Running(c)
    BY Zenon DEF StageInv, LoopInv, IInv, Bookkeeping, Placed
  <2>2. /\ StagedOn(t, c)
        /\ state[c] = "new" => Status(c) = "login"
        /\ state[c] \notin {"none", "new", "deleted"} /\ coro_status[c] = "empty" => Status(c) = "ready"
        /\ state[c] \notin {"none", "new", "deleted"} /\ coro_status[c] = "ongoing" =>
             /\ pc[t] \in Stages => Status(c) = StatusOfStage[pc[t]]
             /\ pc[t] \in {"enter", "wait", "yield"} => Status(c) = StatusOfStage[at[c]]
    BY <2>1, StagedForms, StatusByLabel, Zenon DEF StageInv
  <2>3. /\ state'[c] = "deleted" => Status(c)' = "gone"
        /\ state'[c] \notin {"none", "new", "deleted"} /\ coro_status'[c] = "empty" => Status(c)' = "ready"
        /\ state'[c] \notin {"none", "new", "deleted"} /\ coro_status'[c] = "ongoing" /\ cur'[t] = c =>
             /\ pc'[t] \in Stages => Status(c)' = StatusOfStage[pc'[t]]
             /\ pc'[t] \in {"enter", "wait", "yield"} => Status(c)' = StatusOfStage[at'[c]]
    BY StatusByLabelNext, Zenon
  <2>4. ASSUME state'[c] \notin {"none", "new", "deleted"}, coro_status'[c] = "ongoing", cur'[t] = NoConn
        PROVE  Status(c)' = StatusOfStage[at'[c]]
    <3>1. Turn(t, c)
      BY <2>1, EnterOthers, ExecuteOthers, YieldOthers, LeaveOthers, Zenon
    <3>2. \A u \in Thread : cur'[u] # c
      BY <2>1, <2>4, <3>1, OnlyHere, SchedAssumption, Zenon
    <3> QED  BY <2>4, <3>2, StatusByLabelNext, Zenon
  <2>5. /\ at[c] \in {"login", "exec", "replied", "close"} /\ coro_status[c] \in {"empty", "ongoing"}
        /\ sent[c] \in Nat /\ unread[c] \in Nat /\ replied[c] \in Nat
    BY <2>1, Zenon DEF TypeOK, CoroTypes, SockTypes, ClientTypes
  <2>0. /\ StatusOfStage["login"] = "login" /\ StatusOfStage["read"] = "ready" /\ StatusOfStage["broken"] = "ready"
        /\ StatusOfStage["quit"] = "ready" /\ StatusOfStage["snapshot"] = "command" /\ StatusOfStage["exec"] = "command"
        /\ StatusOfStage["replied"] = "answered" /\ StatusOfStage["close"] = "closing"
    BY Zenon DEF StatusOfStage
  <2> USE DEF Goto, coroVars, sockVars, boundVars, connVars, clientVars
  <2>6. ASSUME UNCHANGED << sent, unread, replied >>,
               \/ Status(c)' = Status(c)
               \/ Status(c) = "login" /\ Status(c)' = "ready"
               \/ Status(c) = "answered" /\ Status(c)' = "ready"
               \/ Status(c) \in {"login", "ready", "command", "answered"} /\ Status(c)' = "closing"
               \/ Status(c) \in {"login", "closing"} /\ Status(c)' = "gone"
        PROVE  Moves(c)
    <3>1. (sent'[c] - unread'[c]) - (sent[c] - unread[c]) = 0 /\ replied'[c] - replied[c] = 0
      BY <2>5, <2>6
    <3> QED  BY <2>6, <3>1, Zenon DEF Moves
  <2>7. ASSUME UNCHANGED << sent, unread, replied >>, NEW ret, BeginClose(t, c, ret), pc[t] # "close",
               state[c] # "closing", Alive(c)
        PROVE  Moves(c)
    <3>1. cur'[t] = c /\ pc'[t] = "close" /\ state'[c] = "closing" /\ coro_status'[c] = "ongoing"
      <4>1. cur'[t] = c /\ pc'[t] = "close"
        BY <2>1, <2>7, Zenon DEF BeginClose, TypeOK, ThreadTypes
      <4>2. state'[c] = "closing"
        BY <2>1, <2>7, Zenon DEF BeginClose, TypeOK, ConnTypes
      <4>3. coro_status'[c] = "ongoing"
        BY <2>1, <2>7, Zenon DEF BeginClose, TypeOK, CoroTypes
      <4> QED  BY <4>1, <4>2, <4>3, Zenon
    <3>2. Status(c)' = "closing"
      BY <2>3, <2>0, <3>1, Zenon DEF Stages
    <3>3. coro_status[c] = "ongoing" => \/ pc[t] \in Stages \ {"close"}
                                        \/ pc[t] \in {"enter", "wait", "yield"} /\ at[c] # "close"
      <4>1. cur[t] # NoConn /\ pc[t] \in Labels
        BY <2>1, SchedAssumption, Zenon DEF TypeOK, ThreadTypes
      <4>2. pc[t] \notin Free
        BY <4>1, Zenon DEF StageInv, LoopInv, ThreadsInLoop
      <4> QED  BY <2>2, <2>5, <2>7, <4>1, <4>2, Zenon DEF StagedOn, At, Labels, Stages, Free
    <3>4. state[c] # "none" /\ state[c] # "deleted"
      BY <2>7, Zenon DEF Alive
    <3>5. Status(c) \in {"login", "ready", "command", "answered"}
      <4>1. CASE state[c] = "new" \/ coro_status[c] = "empty"
        BY <2>2, <3>4, <4>1, Zenon
      <4>2. CASE state[c] # "new" /\ coro_status[c] = "ongoing" /\ pc[t] \in Stages \ {"close"}
        BY <2>2, <2>0, <3>4, <4>2, ZenonT(40) DEF Stages
      <4>3. CASE state[c] # "new" /\ coro_status[c] = "ongoing" /\ pc[t] \notin Stages
        BY <2>2, <2>5, <2>0, <3>3, <3>4, <4>3, ZenonT(40)
      <4> QED  BY <2>5, <3>3, <4>1, <4>2, <4>3, Zenon
    <3> QED  BY <2>6, <2>7, <3>2, <3>5, Zenon
  <2>8. Alive(c)
    BY <2>1, SchedAssumption, Zenon DEF StageInv, LoopInv, IInv, Placed, HeldIsAlive
  <2>9. CASE Enter(t, c)
    <3>1. UNCHANGED << sent, unread, replied >>
      BY <2>9, Zenon DEF Enter, LoginImpossible, StartLogin, ResumeLoginOrClose, KilledWhileIdle,
         StartCommand, ResumeCommand, BeginClose
    <3>2. CASE LoginImpossible(t, c)
      <4>1. state[c] = "new" /\ state'[c] = "deleted" /\ cur'[t] = NoConn
        BY <2>1, <3>2, Zenon DEF LoginImpossible, TypeOK, ConnTypes, ThreadTypes
      <4> QED  BY <2>2, <2>3, <2>6, <3>1, <4>1, Zenon
    <3>3. CASE StartLogin(t, c)
      <4>1. state[c] = "new" /\ state'[c] = "connecting" /\ cur'[t] = c /\ pc'[t] = "login" /\ coro_status'[c] = "ongoing"
        <5>1. state[c] = "new" /\ cur'[t] = c /\ pc'[t] = "login"
          BY <2>1, <3>3, Zenon DEF StartLogin, TypeOK, ThreadTypes
        <5>2. state'[c] = "connecting"
          BY <2>1, <3>3, Zenon DEF StartLogin, TypeOK, ConnTypes
        <5>3. coro_status'[c] = "ongoing"
          BY <2>1, <3>3, Zenon DEF StartLogin, TypeOK, CoroTypes
        <5> QED  BY <5>1, <5>2, <5>3, Zenon
      <4>2. Status(c)' = Status(c)
        BY <2>2, <2>3, <2>0, <4>1, ZenonT(40) DEF Stages
      <4> QED  BY <2>6, <3>1, <4>2, Zenon
    <3>4. CASE ResumeLoginOrClose(t, c) \/ ResumeCommand(t, c)
      <4>1. /\ state[c] \notin {"none", "new", "deleted"} /\ state'[c] \notin {"none", "new", "deleted"} /\ cur'[t] = c
            /\ coro_status'[c] = coro_status[c] /\ at'[c] = at[c] /\ pc[t] = "enter" /\ pc'[t] \in {"wait", at[c]}
        <5>1. /\ cur' = cur /\ coro_status' = coro_status /\ at' = at /\ pc[t] = "enter"
              /\ pc' = [pc EXCEPT ![t] = ResumeAt(c)]
              /\ \/ state[c] \in {"connecting", "closing"} /\ state' = state
                 \/ Commandable(c) /\ state' = [state EXCEPT ![c] = "running"]
          BY <3>4, Zenon DEF ResumeLoginOrClose, ResumeCommand
        <5>2. state[c] \notin {"none", "new", "deleted"} /\ state'[c] \notin {"none", "new", "deleted"}
          BY <2>1, <5>1, Zenon DEF Commandable, TypeOK, ConnTypes
        <5>3. pc'[t] \in {"wait", at[c]}
          BY <2>1, <5>1, Zenon DEF ResumeAt, TypeOK, ThreadTypes
        <5> QED  BY <2>1, <5>1, <5>2, <5>3, Zenon
      <4>2. coro_status[c] = "ongoing"
        BY <2>2, <2>5, <3>4, <4>1, Zenon DEF StagedOn, ResumeLoginOrClose, ResumeCommand
      <4>3. at[c] \in Stages
        BY <2>5, Zenon DEF Stages
      <4>4. Status(c)' = Status(c)
        BY <2>2, <2>3, <4>1, <4>2, <4>3, Zenon
      <4> QED  BY <2>6, <3>1, <4>4, Zenon
    <3>5. CASE KilledWhileIdle(t, c)
      BY <2>7, <2>8, <3>1, <3>5, ZenonT(40) DEF KilledWhileIdle, Commandable
    <3>6. CASE StartCommand(t, c)
      <4>1. /\ state[c] \notin {"none", "new", "deleted"} /\ state'[c] = "running" /\ cur'[t] = c
            /\ coro_status'[c] = "ongoing" /\ coro_status[c] = "empty" /\ pc'[t] = "read"
        <5>1. state[c] \notin {"none", "new", "deleted"} /\ coro_status[c] = "empty" /\ cur'[t] = c /\ pc'[t] = "read"
          BY <2>1, <3>6, Zenon DEF StartCommand, Commandable, TypeOK, ThreadTypes
        <5>2. state'[c] = "running"
          BY <2>1, <3>6, Zenon DEF StartCommand, TypeOK, ConnTypes
        <5>3. coro_status'[c] = "ongoing"
          BY <2>1, <3>6, Zenon DEF StartCommand, TypeOK, CoroTypes
        <5> QED  BY <5>1, <5>2, <5>3, Zenon
      <4>2. Status(c)' = Status(c)
        BY <2>2, <2>3, <2>0, <4>1, Zenon DEF Stages
      <4> QED  BY <2>6, <3>1, <4>2, Zenon
    <3> QED  BY <2>9, <3>2, <3>3, <3>4, <3>5, <3>6, Zenon DEF Enter
  <2>10. CASE Yield(t, c)
    <3>1. /\ UNCHANGED << sent, unread, replied, state, coro_status, cur >>
          /\ pc'[t] \in {"wait", "yield"} /\ pc[t] \in {"login", "exec", "replied", "close", "wait"}
          /\ at'[c] = IF pc[t] = "wait" THEN at[c] ELSE pc[t]
      <4>1. UNCHANGED << sent, unread, replied, state, coro_status, cur >>
        BY <2>10, Zenon DEF Yield, YieldToTx, YieldToQueue, WaitBegin, WaitBeginExt, CanYield
      <4> QED  BY <2>1, <2>10, <4>1, YieldSteps, Zenon
    <3>2. coro_status[c] = "ongoing"
      BY <2>2, <3>1, Zenon DEF StagedOn, Stages
    <3>3. Status(c)' = Status(c)
      <4>1. state[c] \notin {"none", "new", "deleted"}
        BY <2>2, <3>2, Zenon DEF StagedOn
      <4>2. Status(c)' = StatusOfStage[at'[c]]
        BY <2>3, <3>1, <3>2, <4>1, Zenon
      <4>3. Status(c) = StatusOfStage[at'[c]]
        BY <2>2, <3>1, <3>2, <4>1, Zenon DEF Stages
      <4> QED  BY <4>2, <4>3, Zenon
    <3> QED  BY <2>6, <3>1, <3>3, Zenon
  <2>11. CASE Leave(t, c)
    <3>1. UNCHANGED << sent, unread, replied >>
      BY <2>11, Zenon DEF Leave, SetIdle, Bind, StartIO, Recount, Requeue, Release, BeginClose
    <3>2. CASE SetIdle(t, c) \/ StartIO(t, c) \/ Recount(t, c) \/ Requeue(t, c)
      <4>1. /\ cur'[t] = c /\ pc[t] \in {"idle", "start_io", "recount", "requeue"}
            /\ coro_status'[c] = coro_status[c] /\ state'[c] \in {state[c], "idle"}
        BY <2>1, <3>2, ZenonT(40) DEF SetIdle, StartIO, Recount, Requeue, TypeOK, ConnTypes, CoroTypes
      <4>2. coro_status[c] = "empty" /\ state[c] \in {"connecting", "running", "idle"}
        BY <2>2, <4>1, Zenon DEF StagedOn
      <4>3. Status(c)' = Status(c)
        BY <2>2, <2>3, <4>1, <4>2, Zenon
      <4> QED  BY <2>6, <3>1, <4>3, Zenon
    <3>3. CASE Bind(t, c)
      <4>1. coro_status[c] = "empty" /\ state[c] = "idle"
        BY <2>2, <3>3, Zenon DEF Bind, StagedOn
      <4>2. CASE BeginClose(t, c, coro_ret[c])
        BY <2>7, <2>8, <3>1, <3>3, <4>1, <4>2, ZenonT(40) DEF Bind
      <4>3. CASE ~BeginClose(t, c, coro_ret[c])
        <5>1. cur'[t] = c /\ coro_status'[c] = coro_status[c] /\ state'[c] = state[c]
          BY <3>3, <4>3, Zenon DEF Bind
        <5>2. Status(c)' = Status(c)
          BY <2>2, <2>3, <4>1, <5>1, ZenonT(40)
        <5> QED  BY <2>6, <3>1, <5>2, Zenon
      <4> QED  BY <4>2, <4>3, Zenon
    <3>4. CASE Release(t, c)
      <4>1. /\ cur'[t] = NoConn /\ pc[t] \in {"release", "yield"} /\ coro_status'[c] = coro_status[c]
            /\ state'[c] = state[c] /\ at'[c] = at[c]
        BY <2>1, <3>4, Zenon DEF Release, TypeOK, ConnTypes, CoroTypes, ThreadTypes
      <4>2. pc[t] = "release" => coro_status[c] = "empty"
        BY <2>2, Zenon DEF StagedOn
      <4>3. Status(c)' = Status(c)
        BY <2>2, <2>3, <2>4, <2>5, <2>8, <4>1, <4>2, ZenonT(40) DEF StagedOn, Alive
      <4> QED  BY <2>6, <3>1, <4>3, Zenon
    <3> QED  BY <2>11, <3>2, <3>3, <3>4, Zenon DEF Leave
  <2>12. CASE Execute(t, c)
    <3>1. CASE ReadPacket(t, c)
      <4>1. /\ cur'[t] = c /\ pc[t] = "read" /\ pc'[t] = "snapshot" /\ UNCHANGED << state, coro_status, sent, replied >>
            /\ unread'[c] = unread[c] - 1
        BY <2>1, <3>1, Zenon DEF ReadPacket, TypeOK, ThreadTypes, SockTypes
      <4>2. coro_status[c] = "ongoing" /\ state[c] = "running"
        BY <2>2, <4>1, Zenon DEF StagedOn, At, Stages, CommandStages
      <4>3. Status(c) = "ready" /\ Status(c)' = "command"
        BY <2>2, <2>3, <2>0, <4>1, <4>2, Zenon DEF Stages
      <4>4. (sent'[c] - unread'[c]) - (sent[c] - unread[c]) = 1 /\ replied'[c] - replied[c] = 0
        BY <2>5, <4>1
      <4> QED  BY <4>3, <4>4, Zenon DEF Moves
    <3>2. CASE ReadError(t, c) \/ TakeSnapshot(t, c)
      <4>1. /\ cur'[t] = c /\ UNCHANGED << state, coro_status, sent, unread, replied >>
            /\ \/ pc[t] = "read" /\ pc'[t] = "broken"
               \/ pc[t] = "snapshot" /\ pc'[t] = "exec"
               \/ pc[t] = "broken" /\ pc'[t] = "quit"
        BY <2>1, <3>2, Zenon DEF ReadError, TakeSnapshot, TypeOK, ThreadTypes
      <4>2. coro_status[c] = "ongoing" /\ state[c] = "running"
        BY <2>2, <4>1, Zenon DEF StagedOn, At, Stages, CommandStages
      <4>3. Status(c)' = Status(c)
        BY <2>2, <2>3, <2>0, <4>1, <4>2, ZenonT(40) DEF Stages
      <4> QED  BY <2>6, <4>1, <4>3, Zenon
    <3>3. CASE Reply(t, c)
      <4>1. /\ cur'[t] = c /\ pc[t] = "exec" /\ pc'[t] = "replied" /\ UNCHANGED << state, coro_status, sent, unread >>
            /\ replied'[c] = replied[c] + 1
        BY <2>1, <3>3, Zenon DEF Reply, TypeOK, ThreadTypes, ClientTypes
      <4>2. coro_status[c] = "ongoing" /\ state[c] = "running"
        BY <2>2, <4>1, Zenon DEF StagedOn, At, Stages, CommandStages
      <4>3. Status(c) = "command" /\ Status(c)' = "answered"
        BY <2>2, <2>3, <2>0, <4>1, <4>2, Zenon DEF Stages
      <4>4. (sent'[c] - unread'[c]) - (sent[c] - unread[c]) = 0 /\ replied'[c] - replied[c] = 1
        BY <2>5, <4>1
      <4> QED  BY <4>3, <4>4, Zenon DEF Moves
    <3>4. CASE Quit(t, c) \/ FinishDead(t, c) \/ LoginFailed(t, c)
      <4>1. \E ret \in {"close", coro_ret[c]} : BeginClose(t, c, ret)
        BY <3>4, Zenon DEF Quit, FinishDead, LoginFailed
      <4>2. UNCHANGED << sent, unread, replied >> /\ pc[t] \in {"exec", "quit", "replied", "login"}
        BY <3>4, Zenon DEF Quit, FinishDead, LoginFailed, BeginClose
      <4>3. state[c] # "closing"
        BY <2>2, <4>2, Zenon DEF StagedOn, At, CommandStages
      <4> QED  BY <2>7, <2>8, <4>1, <4>2, <4>3, Zenon
    <3>5. CASE FinishCommand(t, c) \/ LoginDone(t, c)
      <4>1. /\ cur'[t] = c /\ UNCHANGED << state, sent, unread, replied >> /\ pc[t] \in {"replied", "login"}
            /\ coro_status'[c] = "empty"
        BY <2>1, <3>5, Zenon DEF FinishCommand, LoginDone, TypeOK, CoroTypes
      <4>2. coro_status[c] = "ongoing" /\ state[c] \in {"running", "connecting"}
        BY <2>2, <4>1, Zenon DEF StagedOn, At, Stages, CommandStages
      <4>3. Status(c) \in {"login", "answered"} /\ Status(c)' = "ready"
        BY <2>2, <2>3, <2>0, <4>1, <4>2, Zenon DEF Stages
      <4> QED  BY <2>6, <4>1, <4>3, Zenon
    <3>6. CASE CloseDone(t, c)
      <4>1. UNCHANGED << sent, unread, replied >> /\ pc[t] = "close"
        BY <3>6, Zenon DEF CloseDone
      <4>2. in_error[c] /\ state[c] = "closing" /\ coro_status[c] = "ongoing"
        BY <2>2, <4>1, Zenon DEF StagedOn, At, Stages
      <4>3. cur'[t] = NoConn /\ state'[c] = "deleted"
        BY <2>1, <3>6, <4>2, Zenon DEF CloseDone, TypeOK, ConnTypes, ThreadTypes
      <4>4. Status(c) = "closing" /\ Status(c)' = "gone"
        BY <2>2, <2>3, <2>0, <4>1, <4>2, <4>3, Zenon DEF Stages
      <4> QED  BY <2>6, <4>1, <4>4, Zenon
    <3>7. CASE WaitEnd(t, c)
      <4>1. /\ UNCHANGED << sent, unread, replied, state, coro_status, at >> /\ pc[t] = "wait" /\ pc'[t] = at[c]
            /\ cur'[t] = c
        BY <2>1, <3>7, Zenon DEF WaitEnd, TypeOK, ThreadTypes
      <4>2. coro_status[c] = "ongoing"
        BY <2>2, <4>1, Zenon DEF StagedOn
      <4>3. at[c] \in Stages /\ state[c] \notin {"none", "new", "deleted"}
        BY <2>2, <2>5, <4>2, Zenon DEF Stages, StagedOn
      <4>4. Status(c)' = Status(c)
        BY <2>2, <2>3, <4>1, <4>2, <4>3, Zenon
      <4> QED  BY <2>6, <4>1, <4>4, Zenon
    <3> QED  BY <2>12, <3>1, <3>2, <3>3, <3>4, <3>5, <3>6, <3>7, Zenon DEF Execute
  <2> QED  BY <2>9, <2>10, <2>11, <2>12, Zenon
<1>1. TypeOK /\ TypeOK' /\ OneThreadPerConnection /\ Placed /\ Bookkeeping /\ HeldIsAlive /\ ThreadsInLoop
  BY Zenon DEF StageInv, LoopInv, IInv, Bookkeeping, Placed
<1>2. ASSUME NEW d \in Conn, SameStage(d), state'[d] = state[d], sent'[d] - unread'[d] = sent[d] - unread[d],
             replied'[d] = replied[d]
      PROVE  Rests(d)
  BY <1>2, <1>SameStatus, Zenon DEF Rests
<1>3. ASSUME NEW d \in Conn, Rests(d)  PROVE Moves(d)
  <2>1. sent[d] \in Nat /\ unread[d] \in Nat /\ replied[d] \in Nat
    BY <1>1, Zenon DEF TypeOK, SockTypes, ClientTypes
  <2>2. (sent[d] - unread[d]) - (sent[d] - unread[d]) = 0 /\ replied[d] - replied[d] = 0
    BY <2>1
  <2>3. (sent'[d] - unread'[d]) - (sent[d] - unread[d]) = 0 /\ replied'[d] - replied[d] = 0
    BY <1>3, <2>2, Zenon DEF Rests
  <2> QED  BY <1>3, <2>3, Zenon DEF Moves, Rests
<1>4. ASSUME NEW t \in Thread, Process(t)  PROVE [S!Next]_(S!vars)
  <2>1. PICK c \in Conn : cur[t] = c /\ (Enter(t, c) \/ Execute(t, c) \/ Yield(t, c) \/ Leave(t, c))
    BY <1>4, Zenon DEF Process
  <2>2. Moves(c)
    BY <2>1, <1>ProcessMoves, Zenon
  <2>3. Turn(t, c) /\ \A d \in Conn \ {c} : SameConn(d)
    BY <1>1, <2>1, EnterOthers, ExecuteOthers, YieldOthers, LeaveOthers, Zenon
  <2>4. ASSUME NEW d \in Conn \ {c}  PROVE Rests(d)
    <3>1. SameStage(d) /\ state'[d] = state[d] /\ sent'[d] = sent[d] /\ unread'[d] = unread[d] /\ replied'[d] = replied[d]
      BY <2>1, <2>3, TurnHeld, Zenon DEF SameConn, SameStage
    <3> QED  BY <1>2, <3>1, Zenon
  <2> QED  BY <1>1, <2>2, <2>4, <1>MovesAreSteps, Zenon
<1>5. ASSUME NEW c \in Conn, Environment(c) \/ Resume(c)  PROVE [S!Next]_(S!vars)
  <2>1. (\A d \in Conn : SameStage(d)) /\ \A d \in Conn \ {c} : SameConn(d)
    BY <1>1, <1>5, EnvironmentSteps, Zenon
  <2>2. ASSUME NEW d \in Conn \ {c}  PROVE Rests(d)
    <3>1. state'[d] = state[d] /\ sent'[d] = sent[d] /\ unread'[d] = unread[d] /\ replied'[d] = replied[d]
      BY <2>1, Zenon DEF SameConn
    <3> QED  BY <1>2, <2>1, <3>1, Zenon
  <2>3. sent[c] \in Nat /\ unread[c] \in Nat /\ replied[c] \in Nat
    BY <1>1, Zenon DEF TypeOK, SockTypes, ClientTypes
  <2> USE DEF connVars, coroVars, queueVars, threadVars, sockVars, clientVars, boundVars
  <2>4. CASE AddConnection(c)
    <3>1. state[c] = "none" /\ state'[c] = "new" /\ UNCHANGED << sent, unread, replied >>
      BY <1>1, <2>4, Zenon DEF AddConnection, TypeOK, ConnTypes
    <3>2. Status(c) = "absent" /\ Status(c)' = "login"
      BY <3>1, Zenon DEF Status
    <3>3. (sent'[c] - unread'[c]) - (sent[c] - unread[c]) = 0 /\ replied'[c] - replied[c] = 0
      BY <2>3, <3>1
    <3>4. Moves(c)
      BY <3>2, <3>3, Zenon DEF Moves
    <3> QED  BY <1>1, <2>2, <3>4, <1>MovesAreSteps, Zenon
  <2>5. CASE ~AddConnection(c)
    <3>1. ~TimeoutPending(c)
      BY Zenon DEF TimeoutPending, StageInv, Staged
    <3>2. UNCHANGED << state, replied >>
      BY <1>5, <2>5, <3>1, Zenon DEF Environment, ClientSend, ClientClose, Kill, TimeoutCheck, TimeoutKill,
         Resume
    <3>3. sent'[c] - unread'[c] = sent[c] - unread[c]
      <4>1. CASE ClientSend(c)
        <5>1. sent'[c] = sent[c] + 1 /\ unread'[c] = unread[c] + 1
          BY <1>1, <4>1, Zenon DEF ClientSend, TypeOK, SockTypes, ClientTypes
        <5> QED  BY <2>3, <5>1
      <4>2. CASE ~ClientSend(c)
        <5>1. UNCHANGED << sent, unread >>
          BY <1>5, <2>5, <3>1, <4>2, Zenon DEF Environment, ClientClose, Kill, TimeoutCheck, TimeoutKill,
             Resume
        <5> QED  BY <5>1, Zenon
      <4> QED  BY <4>1, <4>2, Zenon
    <3>4. Rests(c)
      BY <1>2, <2>1, <3>2, <3>3, Zenon
    <3> QED  BY <1>1, <1>3, <2>2, <3>4, <1>MovesAreSteps, Zenon
  <2> QED  BY <2>4, <2>5, Zenon
<1>6. ASSUME UNCHANGED << state, sent, unread, replied >>, \A d \in Conn : Status(d)' = Status(d)
      PROVE  [S!Next]_(S!vars)
  BY <1>6, Zenon DEF S!vars
<1>7. ASSUME NEW t \in Thread, Dispatch(t)  PROVE [S!Next]_(S!vars)
  <2>1. Dispatched(t)
    BY <1>1, <1>7, DispatchSteps, Zenon
  <2>2. UNCHANGED << state, coro_status, at, in_error, need_sql_thd, sent, unread, replied >>
    BY <2>1, Zenon DEF Dispatched, coroVars, clientVars
  <2>3. ASSUME NEW d \in Conn  PROVE Status(d)' = Status(d)
    <3>1. CASE SameHeld(d)
      BY <2>2, <3>1, <1>SameStatus, Zenon DEF SameStage
    <3>2. CASE Pick(t, d) /\ cur'[t] = d /\ pc'[t] = "enter" /\ \A u \in Thread : cur[u] # d
      <4>1. Status(d) = StatusAt(d, at[d])
        BY <3>2, Statuses, Zenon
      <4>2. Status(d)' = StatusAt(d, At(t, d))'
        BY <3>2, StatusesNext, Zenon
      <4>3. coro_status[d] = "ongoing" => At(t, d)' = at[d]
        BY <2>2, <3>2, Zenon DEF At
      <4>4. coro_status[d] \in {"empty", "ongoing"}
        BY <1>1, Zenon DEF TypeOK, CoroTypes
      <4> QED  BY <2>2, <4>1, <4>2, <4>3, <4>4 DEF StatusAt
    <3> QED  BY <1>1, <1>7, <3>1, <3>2, DispatchHolds, Zenon
  <2> QED  BY <1>6, <2>2, <2>3, Zenon
<1>8. CASE UNCHANGED vars
  <2>1. UNCHANGED << state, coro_status, at, in_error, need_sql_thd, sent, unread, replied, cur, pc >>
    BY <1>8, Zenon DEF vars, connVars, coroVars, threadVars, sockVars, clientVars
  <2>2. ASSUME NEW d \in Conn  PROVE Status(d)' = Status(d)
    BY <2>1, <1>SameStatus, Zenon DEF SameStage, SameHeld
  <2> QED  BY <1>6, <2>1, <2>2, Zenon
<1> QED  BY <1>4, <1>5, <1>7, <1>8, Zenon DEF Next

\* As long as no connection times out, the pool of any size implements
\* Session: the coroutines of a connection may yield anywhere and continue on
\* any thread, and still there is one login, then one command at a time that
\* takes one packet and answers it at most once, then one close.
THEOREM IsSession == MaxTimeouts = 0 /\ Spec => ImplementsSession
<1> SUFFICES ASSUME MaxTimeouts = 0  PROVE Spec => ImplementsSession
  BY Zenon
<1>1. StageInv /\ [Next]_vars => StageInv'
  BY NextStages, Zenon
<1>2. Init => S!Init
  BY DEF Init, S!Init, Status, Empty
<1>3. StageInv /\ StageInv' /\ [Next]_vars => [S!Next]_(S!vars)
  BY StepIsSession, Zenon
<1> QED  BY <1>1, <1>2, <1>3, InitStages, PTL DEF Spec, ImplementsSession, S!Spec

-----------------------------------------------------------------------------
(* What a connection owes to its socket.                                   *)

\* ClientWaits and Watching, of a connection at stage l.
Owes(c, l) ==
  /\ unread[c] <= sent[c] - replied[c] /\ sent[c] - replied[c] <= 1
  /\ hup[c] /\ ~killed[c] => sent[c] = replied[c]
  /\ l \in {"snapshot", "exec"} => unread[c] = 0 /\ sent[c] = replied[c] + 1
  /\ l = "snapshot" => (hup[c] => killed[c])
  /\ state[c] \in {"none", "new", "connecting"} =>
       ~bound[c] /\ ~hup[c] /\ ~killed[c] /\ sent[c] = 0 /\ timer[c] = "none"
  /\ state[c] \in {"none", "new", "deleted"} => coro_status[c] = "empty"
  /\ l \in {"idle", "start_io", "recount", "requeue", "release"} => coro_status[c] = "empty"
  /\ l = "login" => ~bound[c]
  /\ l = "close" => ~watched[c]
  /\ l \in {"exec", "replied", "idle", "start_io"} => (watched[c] => epoll_events[c] >= events_snapshot[c])
  /\ l \in {"exec", "replied"} => killed[c] \/ Counted(c)
  /\ l \in {"idle", "start_io"} => Counted(c)
  /\ Alive(c) /\ Parked(c) /\ Readable(c) => Coming(c)

\* The stage of a connection that no thread holds.
Rest(c) == IF coro_status[c] = "ongoing" THEN at[c] ELSE "enter"

\* The two forms of ClientWaits and Watching.
LEMMA OwesForms ==
  TypeOK /\ OneThreadPerConnection =>
    \A c \in Conn :
      /\ \A t \in Thread : cur[t] = c => (ClientWaits(c) /\ Watching(c) <=> Owes(c, At(t, c)))
      /\ (\A t \in Thread : cur[t] # c) => (ClientWaits(c) /\ Watching(c) <=> Owes(c, Rest(c)))
<1> SUFFICES ASSUME TypeOK, OneThreadPerConnection, NEW c \in Conn
             PROVE  /\ \A t \in Thread : cur[t] = c => (ClientWaits(c) /\ Watching(c) <=> Owes(c, At(t, c)))
                    /\ (\A t \in Thread : cur[t] # c) => (ClientWaits(c) /\ Watching(c) <=> Owes(c, Rest(c)))
  BY Zenon
<1> DEFINE Late == {"idle", "start_io", "recount", "requeue", "release"}
<1>1. at[c] \in {"login", "exec", "replied", "close"}
  BY Zenon DEF TypeOK, CoroTypes
<1>2. ASSUME NEW l, \A m \in {"login", "snapshot", "exec", "replied", "close"} \cup Late : In(c, m) <=> l = m
      PROVE  ClientWaits(c) /\ Watching(c) <=> Owes(c, l)
  <2>1. /\ In(c, "login") <=> l = "login"
        /\ In(c, "snapshot") <=> l = "snapshot"
        /\ In(c, "exec") <=> l = "exec"
        /\ In(c, "replied") <=> l = "replied"
        /\ In(c, "close") <=> l = "close"
        /\ In(c, "idle") <=> l = "idle"
        /\ In(c, "start_io") <=> l = "start_io"
        /\ (\E m \in Late : In(c, m)) <=> l \in Late
    BY <1>2, Zenon
  <2> QED  BY <2>1, Zenon DEF ClientWaits, Watching, Owes
<1>3. ASSUME NEW t \in Thread, cur[t] = c  PROVE ClientWaits(c) /\ Watching(c) <=> Owes(c, At(t, c))
  <2>1. \A l \in Labels : In(c, l) <=> \/ pc[t] = l
                                       \/ /\ coro_status[c] = "ongoing" /\ at[c] = l
                                          /\ pc[t] \in {"enter", "wait", "yield"}
    BY <1>3, StageOf, ZenonT(40)
  <2>2. ASSUME NEW m \in {"login", "snapshot", "exec", "replied", "close"} \cup Late  PROVE In(c, m) <=> At(t, c) = m
    <3>1. m \in Labels /\ m \notin {"enter", "wait", "yield"}
      BY Zenon DEF Labels
    <3>2. In(c, m) <=> \/ pc[t] = m
                       \/ /\ coro_status[c] = "ongoing" /\ at[c] = m
                          /\ pc[t] \in {"enter", "wait", "yield"}
      BY <2>1, <3>1, Zenon
    <3> QED  BY <1>1, <3>1, <3>2, Zenon DEF At
  <2> QED  BY <1>2, <2>2, Zenon
<1>4. ASSUME \A t \in Thread : cur[t] # c  PROVE ClientWaits(c) /\ Watching(c) <=> Owes(c, Rest(c))
  <2>1. \A l \in Labels : In(c, l) <=> coro_status[c] = "ongoing" /\ at[c] = l
    BY <1>4, StageOff, Zenon
  <2>2. ASSUME NEW m \in {"login", "snapshot", "exec", "replied", "close"} \cup Late  PROVE In(c, m) <=> Rest(c) = m
    <3>1. m \in Labels /\ m # "enter"
      BY Zenon DEF Labels
    <3> QED  BY <2>1, <3>1, Zenon DEF Rest
  <2> QED  BY <1>2, <2>2, Zenon
<1> QED  BY <1>3, <1>4, Zenon

\* The same in the next state.
LEMMA OwesFormsNext ==
  (TypeOK /\ OneThreadPerConnection =>
    \A c \in Conn :
      /\ \A t \in Thread : cur[t] = c => (ClientWaits(c) /\ Watching(c) <=> Owes(c, At(t, c)))
      /\ (\A t \in Thread : cur[t] # c) => (ClientWaits(c) /\ Watching(c) <=> Owes(c, Rest(c))))'
BY OwesForms, PTL

\* A step that leaves the socket of c and its stage alone.
SameSocket(c) ==
  /\ unread'[c] = unread[c] /\ hup'[c] = hup[c] /\ watched'[c] = watched[c] /\ (Coming(c)' <=> Coming(c))
  /\ sent'[c] = sent[c] /\ replied'[c] = replied[c] /\ killed'[c] = killed[c] /\ bound'[c] = bound[c]
  /\ epoll_events'[c] = epoll_events[c] /\ events_snapshot'[c] = events_snapshot[c] /\ timer'[c] = timer[c]

\* The invariant of a pool whose clients wait for their replies.
OwesInv == LoopInv /\ \A c \in Conn : ClientWaits(c) /\ Watching(c)

\* A client that may have one packet on the way, and may send, waits for no reply.
LEMMA NothingOwed ==
  ASSUME NEW s \in Nat, NEW r \in Nat, NEW u \in Nat, NEW m \in Nat, u <= s - r, s - r < m, m <= 1
  PROVE  s = r /\ u = 0
OBVIOUS

\* The invariant holds initially.
LEMMA InitOwes == Init => OwesInv
<1> SUFFICES ASSUME Init  PROVE OwesInv
  BY Zenon
<1>1. LoopInv /\ TypeOK /\ OneThreadPerConnection
  BY InitLoop, Zenon DEF LoopInv, IInv, Bookkeeping, Placed
<1>2. ASSUME NEW c \in Conn  PROVE ClientWaits(c) /\ Watching(c)
  <2>1. \A t \in Thread : cur[t] # c
    BY SchedAssumption, Zenon DEF Init
  <2>2. /\ unread[c] = 0 /\ sent[c] = 0 /\ replied[c] = 0 /\ state[c] = "none" /\ coro_status[c] = "empty"
        /\ ~bound[c] /\ ~hup[c] /\ ~killed[c] /\ timer[c] = "none"
    BY Zenon DEF Init, Empty
  <2>3. Rest(c) = "enter"
    BY <2>2, Zenon DEF Rest
  <2>4. unread[c] <= sent[c] - replied[c] /\ sent[c] - replied[c] <= 1
    BY <2>2
  <2>5. Owes(c, Rest(c))
    BY <2>2, <2>3, <2>4, Zenon DEF Owes, Alive
  <2> QED  BY <1>1, <2>1, <2>5, OwesForms, Zenon
<1> QED  BY <1>1, <1>2, Zenon DEF OwesInv

\* It is inductive.
LEMMA NextOwes == MaxOutstanding <= 1 /\ OwesInv /\ [Next]_vars => OwesInv'
\* What c owes then stays the same, if its state stays or is one of a
\* connection that has logged in.
<1>OwesSame.
  ASSUME NEW c \in Conn, NEW l, Owes(c, l), SameSocket(c), coro_status'[c] = coro_status[c],
         state'[c] = state[c] \/ (Alive(c) /\ state'[c] \notin {"none", "new", "connecting", "deleted"})
  PROVE  Owes(c, l)'
  BY <1>OwesSame, ZenonT(40) DEF Owes, SameSocket, Counted, Readable, Parked, Alive
\* The error label: the close coroutine takes c from the poll descriptor.
<1>BeginCloseOwes.
  ASSUME TypeOK, NEW t \in Thread, NEW c \in Conn, cur[t] = c, NEW l, Owes(c, l), NEW ret, BeginClose(t, c, ret),
         killed'[c] = killed[c], sent'[c] = sent[c], replied'[c] = replied[c]
  PROVE  cur'[t] = c /\ Owes(c, At(t, c))'
  <2> USE <1>BeginCloseOwes
  <2>1. /\ state'[c] = "closing" /\ pc'[t] = "close" /\ cur'[t] = c /\ ~watched'[c]
        /\ unread'[c] = unread[c] /\ hup'[c] = hup[c]
    BY Zenon DEF BeginClose, Goto, TypeOK, ConnTypes, ThreadTypes, SockTypes
  <2>2. At(t, c)' = "close"
    BY <2>1, Zenon DEF At
  <2> QED  BY <2>1, <2>2, Zenon DEF Owes, Counted, Readable, Parked
\* A connection that keeps its stage and its socket.
<1>OwesKept.
  ASSUME OwesInv, TypeOK', OneThreadPerConnection', NEW d \in Conn, SameStage(d), SameSocket(d),
         state'[d] = state[d] \/ (Alive(d) /\ state'[d] \notin {"none", "new", "connecting", "deleted"})
  PROVE  (ClientWaits(d) /\ Watching(d))'
  <2> USE <1>OwesKept
  <2>1. TypeOK /\ OneThreadPerConnection /\ ClientWaits(d) /\ Watching(d)
    BY Zenon DEF OwesInv, LoopInv, IInv, Bookkeeping, Placed
  <2>2. coro_status'[d] = coro_status[d] /\ at'[d] = at[d]
    BY Zenon DEF SameStage
  <2>3. CASE \E u \in Thread : cur[u] = d
    <3>1. PICK u \in Thread : cur[u] = d
      BY <2>3, Zenon
    <3>2. cur'[u] = d /\ pc'[u] = pc[u]
      BY <3>1, Zenon DEF SameStage, SameHeld
    <3>3. At(u, d)' = At(u, d) /\ Owes(d, At(u, d))
      BY <2>1, <2>2, <3>1, <3>2, OwesForms, Zenon DEF At
    <3>4. Owes(d, At(u, d))'
      BY <2>2, <3>3, <1>OwesSame, Zenon
    <3> QED  BY <3>2, <3>4, OwesFormsNext, Zenon
  <2>4. CASE \A u \in Thread : cur[u] # d
    <3>1. \A u \in Thread : cur'[u] # d
      BY <2>4, Zenon DEF SameStage, SameHeld
    <3>2. Rest(d)' = Rest(d) /\ Owes(d, Rest(d))
      BY <2>1, <2>2, <2>4, OwesForms, Zenon DEF Rest
    <3>3. Owes(d, Rest(d))'
      BY <2>2, <3>2, <1>OwesSame, Zenon
    <3> QED  BY <3>1, <3>3, OwesFormsNext, Zenon
  <2> QED  BY <2>3, <2>4, Zenon
\* A thread at work on a connection.
<1>ProcessOwes.
  ASSUME OwesInv, IInv', NEW t \in Thread, Process(t), NEW d \in Conn
  PROVE  (ClientWaits(d) /\ Watching(d))'
  <2> USE <1>ProcessOwes
  \* tp_callback() up to the coroutine.
  <2>EnterOwes.
    ASSUME TypeOK, Placed, NEW c \in Conn, cur[t] = c, Enter(t, c), Running(c), Owes(c, At(t, c))
    PROVE  (cur'[t] = c => Owes(c, At(t, c))') /\ (cur'[t] = NoConn => Owes(c, Rest(c))')
    <3> USE <2>EnterOwes
    <3> USE DEF Goto, coroVars, sockVars, boundVars, connVars, clientVars
    <3>1. /\ at[c] \in {"login", "exec", "replied", "close"} /\ coro_status[c] \in {"empty", "ongoing"}
          /\ pc[t] = "enter" /\ c # NoConn
      BY SchedAssumption, Zenon DEF TypeOK, Enter, LoginImpossible, StartLogin, ResumeLoginOrClose,
         KilledWhileIdle, StartCommand, ResumeCommand, CoroTypes, ThreadTypes
    <3>2. CASE LoginImpossible(t, c)
      <4>1. SameSocket(c) /\ state[c] = "new" /\ state'[c] = "deleted" /\ UNCHANGED coro_status /\ cur'[t] = NoConn
        BY <3>2, Zenon DEF LoginImpossible, SameSocket, Coming, TypeOK, ConnTypes, CoroTypes, ThreadTypes,
           SockTypes
      <4>2. coro_status[c] = "empty"
        BY <4>1, Zenon DEF Owes
      <4>3. Rest(c)' = "enter"
        BY <4>1, <4>2, Zenon DEF Rest
      <4>4. Owes(c, Rest(c))'
        BY <4>1, <4>2, <4>3, Zenon DEF Owes, SameSocket, Alive
      <4> QED  BY <3>1, <4>1, <4>4, Zenon
    <3>3. CASE StartLogin(t, c)
      <4>1. /\ SameSocket(c) /\ state[c] = "new" /\ state'[c] = "connecting" /\ cur'[t] = c /\ pc'[t] = "login"
            /\ coro_status'[c] = "ongoing"
        BY <3>3, Zenon DEF StartLogin, SameSocket, Coming, TypeOK, ConnTypes, CoroTypes, ThreadTypes,
           SockTypes
      <4>2. At(t, c)' = "login"
        BY <4>1, Zenon DEF At
      <4>3. Owes(c, At(t, c))'
        BY <4>1, <4>2, Zenon DEF Owes, SameSocket, Alive, Parked, Readable
      <4> QED  BY <3>1, <4>1, <4>3, Zenon
    <3>4. CASE ResumeLoginOrClose(t, c) \/ ResumeCommand(t, c)
      <4>1. /\ SameSocket(c) /\ cur'[t] = c /\ at'[c] = at[c] /\ coro_status'[c] = coro_status[c]
            /\ pc'[t] \in {"wait", at[c]} /\ state[c] \in {"connecting", "closing", "idle", "pending", "running"}
            /\ state'[c] = state[c] \/ state'[c] = "running"
        BY <3>4 DEF ResumeLoginOrClose, ResumeCommand, ResumeAt, Commandable, SameSocket, Coming, TypeOK,
           ConnTypes, CoroTypes, ThreadTypes, SockTypes
      <4>2. coro_status[c] = "ongoing"
        <5>1. CASE ResumeCommand(t, c)
          BY <5>1, Zenon DEF ResumeCommand
        <5>2. CASE ResumeLoginOrClose(t, c)
          <6>1. state[c] \in {"connecting", "closing"}
            BY <5>2, Zenon DEF ResumeLoginOrClose
          <6>2. In(c, "login") \/ In(c, "idle") \/ In(c, "close")
            BY <6>1, Zenon DEF Running
          <6>3. \A l \in Labels : In(c, l) <=> \/ pc[t] = l
                                               \/ /\ coro_status[c] = "ongoing" /\ at[c] = l
                                                  /\ pc[t] \in {"enter", "wait", "yield"}
            BY StageOf, ZenonT(40) DEF Placed
          <6> QED  BY <3>1, <6>2, <6>3, Zenon DEF Labels
        <5> QED  BY <3>4, <5>1, <5>2, Zenon
      <4>3. At(t, c)' = At(t, c)
        BY <3>1, <4>1, <4>2, Zenon DEF At
      <4>4. Alive(c)
        BY <4>1, Zenon DEF Alive
      <4> QED  BY <3>1, <4>1, <4>3, <4>4, <1>OwesSame, ZenonT(40)
    <3>5. CASE KilledWhileIdle(t, c)
      BY <3>1, <3>5, <1>BeginCloseOwes, Zenon DEF KilledWhileIdle
    <3>6. CASE StartCommand(t, c)
      <4>1. /\ SameSocket(c) /\ cur'[t] = c /\ pc'[t] = "read" /\ state'[c] = "running" /\ state[c] \in {"idle", "pending", "running"}
        BY <3>6, Zenon DEF StartCommand, Commandable, SameSocket, Coming, TypeOK, ConnTypes, CoroTypes,
           ThreadTypes, SockTypes
      <4>2. At(t, c)' = "read"
        BY <4>1, Zenon DEF At
      <4>3. Owes(c, At(t, c))'
        BY <4>1, <4>2, Zenon DEF Owes, SameSocket, Alive, Parked, Readable
      <4> QED  BY <3>1, <4>1, <4>3, Zenon
    <3> QED  BY <3>2, <3>3, <3>4, <3>5, <3>6, Zenon DEF Enter
  \* The coroutines.
  <2>ExecuteOwes.
    ASSUME TypeOK, Placed, UnboundSilent, NEW c \in Conn, cur[t] = c, Execute(t, c), Running(c),
           Owes(c, At(t, c))
    PROVE  (cur'[t] = c => Owes(c, At(t, c))') /\ (cur'[t] = NoConn => Owes(c, Rest(c))')
    <3> USE <2>ExecuteOwes
    <3> USE DEF Goto, coroVars, sockVars, boundVars, connVars, clientVars
    <3>1. /\ at[c] \in {"login", "exec", "replied", "close"} /\ coro_status[c] \in {"empty", "ongoing"}
          /\ sent[c] \in Nat /\ replied[c] \in Nat /\ unread[c] \in Nat /\ epoll_events[c] \in Nat
          /\ events_snapshot[c] \in Nat /\ c # NoConn
      BY SchedAssumption, Zenon DEF TypeOK, ConnTypes, CoroTypes, SockTypes, ClientTypes
    <3>2. Alive(c)
      BY <3>1, Zenon DEF Placed, HeldIsAlive
    <3>3. CASE ReadPacket(t, c)
      <4>1. /\ cur'[t] = c /\ pc[t] = "read" /\ pc'[t] = "snapshot" /\ unread[c] > 0 /\ unread'[c] = unread[c] - 1
            /\ UNCHANGED << state, coro_status, hup, watched, ready, polled, sent, replied, killed, bound, epoll_events,
                            events_snapshot, timer >>
        BY <3>3, Zenon DEF ReadPacket, TypeOK, ThreadTypes, SockTypes
      <4>2. At(t, c)' = "snapshot" /\ (Coming(c)' <=> Coming(c))
        BY <4>1, Zenon DEF At, Coming
      <4>3. /\ unread[c] <= sent[c] - replied[c] /\ sent[c] - replied[c] <= 1
            /\ hup[c] /\ ~killed[c] => sent[c] = replied[c]
        BY Zenon DEF Owes
      <4>4. sent[c] = replied[c] + 1 /\ unread'[c] = 0
        BY <3>1, <4>1, <4>3, SMTT(60)
      <4>5. hup[c] => killed[c]
        BY <3>1, <4>3, <4>4, SMTT(60)
      <4>6. unread'[c] <= sent'[c] - replied'[c] /\ sent'[c] - replied'[c] <= 1
        BY <3>1, <4>1, <4>4, SMTT(60)
      <4>7. Owes(c, At(t, c))'
        BY <4>1, <4>2, <4>4, <4>5, <4>6, Zenon DEF Owes, Alive, Parked, Readable
      <4> QED  BY <3>1, <4>1, <4>7, Zenon
    <3>4. CASE ReadError(t, c)
      <4>1. /\ cur'[t] = c /\ pc'[t] = "broken" /\ SameSocket(c) /\ UNCHANGED << state, coro_status >>
        BY <3>4, Zenon DEF ReadError, SameSocket, Coming, TypeOK, ConnTypes, CoroTypes, ThreadTypes,
           SockTypes
      <4>2. At(t, c)' = "broken"
        BY <4>1, Zenon DEF At
      <4>3. Owes(c, At(t, c))'
        BY <4>1, <4>2, Zenon DEF Owes, SameSocket, Alive, Parked, Readable
      <4> QED  BY <3>1, <4>1, <4>3, Zenon
    <3>5. CASE TakeSnapshot(t, c)
      <4>1. /\ cur'[t] = c /\ pc[t] \in {"snapshot", "broken"} /\ pc'[t] = (IF pc[t] = "snapshot" THEN "exec" ELSE "quit")
            /\ events_snapshot'[c] = epoll_events[c] /\ epoll_events'[c] = epoll_events[c]
            /\ UNCHANGED << state, coro_status, unread, hup, watched, ready, polled, sent, replied, killed, bound,
                            epoll_events, timer >>
        BY <3>5, Zenon DEF TakeSnapshot, TypeOK, ConnTypes, ThreadTypes
      <4>2. At(t, c)' = pc'[t] /\ At(t, c) = pc[t] /\ (Coming(c)' <=> Coming(c))
        BY <4>1, Zenon DEF At, Coming
      <4>3. Owes(c, At(t, c))'
        <5>1. CASE pc[t] = "broken"
          BY <3>1, <4>1, <4>2, <5>1, Zenon DEF Owes, Alive, Parked, Readable
        <5>2. CASE pc[t] = "snapshot"
          <6>1. unread[c] = 0 /\ sent[c] = replied[c] + 1 /\ (hup[c] => killed[c])
            BY <4>2, <5>2, Zenon DEF Owes
          <6>2. (killed[c] \/ Counted(c))'
            BY <3>1, <4>1, <6>1, ZeroOne, Positive, Zenon DEF Counted, Readable
          <6>3. epoll_events'[c] >= events_snapshot'[c]
            <7>1. epoll_events'[c] = events_snapshot'[c] /\ epoll_events'[c] \in Nat
              BY <3>1, <4>1, Zenon
            <7> QED  BY <7>1
          <6> QED  BY <4>1, <4>2, <5>2, <6>1, <6>2, <6>3, ZenonT(40) DEF Owes, Alive, Parked, Readable
        <5> QED  BY <4>1, <5>1, <5>2, Zenon
      <4> QED  BY <3>1, <4>1, <4>3, Zenon
    <3>6. CASE Reply(t, c)
      <4>1. /\ cur'[t] = c /\ pc[t] = "exec" /\ pc'[t] = "replied" /\ replied'[c] = replied[c] + 1
            /\ UNCHANGED << state, coro_status, unread, hup, watched, ready, polled, sent, killed, bound,
                            epoll_events, events_snapshot, timer >>
        BY <3>6, Zenon DEF Reply, TypeOK, ThreadTypes, ClientTypes
      <4>2. At(t, c)' = "replied" /\ At(t, c) = "exec" /\ (Coming(c)' <=> Coming(c))
        BY <4>1, Zenon DEF At, Coming
      <4>3. unread[c] = 0 /\ sent[c] = replied[c] + 1
        BY <4>2, Zenon DEF Owes
      <4>4. sent'[c] = replied'[c] /\ unread'[c] <= sent'[c] - replied'[c] /\ sent'[c] - replied'[c] <= 1
        <5>1. sent'[c] = replied'[c] /\ replied'[c] \in Nat /\ unread'[c] = 0
          BY <3>1, <4>1, <4>3, Zenon
        <5> QED  BY <5>1
      <4>5. Owes(c, At(t, c))'
        BY <4>1, <4>2, <4>4, Zenon DEF Owes, Alive, Parked, Readable, Counted
      <4> QED  BY <3>1, <4>1, <4>5, Zenon
    <3>7. CASE Quit(t, c) \/ FinishDead(t, c) \/ LoginFailed(t, c)
      <4>1. \E ret \in {"close", coro_ret[c]} : BeginClose(t, c, ret)
        BY <3>7, Zenon DEF Quit, FinishDead, LoginFailed
      <4>2. killed'[c] = killed[c] /\ sent'[c] = sent[c] /\ replied'[c] = replied[c]
        BY <3>7, Zenon DEF Quit, FinishDead, LoginFailed
      <4> QED  BY <3>1, <4>1, <4>2, <1>BeginCloseOwes, Zenon
    <3>8. CASE FinishCommand(t, c) \/ LoginDone(t, c)
      <4>1. /\ cur'[t] = c /\ pc'[t] = "idle" /\ SameSocket(c) /\ UNCHANGED state /\ coro_status'[c] = "empty"
            /\ pc[t] \in {"replied", "login"} /\ (pc[t] = "replied" => ~killed[c])
        BY <3>8 DEF FinishCommand, LoginDone, SameSocket, Coming, TypeOK, ConnTypes, CoroTypes, ThreadTypes,
           SockTypes
      <4>2. At(t, c)' = "idle" /\ At(t, c) = pc[t]
        BY <4>1, Zenon DEF At
      <4>3. ~bound[c] => ~watched[c]
        BY Zenon DEF UnboundSilent
      <4>4. Owes(c, At(t, c))'
        BY <4>1, <4>2, <4>3, Zenon DEF Owes, SameSocket, Alive, Parked, Readable, Counted
      <4> QED  BY <3>1, <4>1, <4>4, ZenonT(40)
    <3>9. CASE CloseDone(t, c)
      <4>1. /\ SameSocket(c) /\ coro_status'[c] = "empty" /\ pc[t] = "close"
            /\ \/ cur'[t] = NoConn /\ state'[c] = "deleted"
               \/ cur'[t] = c /\ pc'[t] \in {"idle", "quit"} /\ state'[c] = state[c]
        BY <3>9 DEF CloseDone, SameSocket, Coming, TypeOK, ConnTypes, CoroTypes, ThreadTypes, SockTypes
      <4>2. At(t, c) = "close"
        BY <4>1, Zenon DEF At
      <4>3. ~watched[c]
        BY <4>2, Zenon DEF Owes
      <4>4. CASE cur'[t] = NoConn /\ state'[c] = "deleted"
        <5>1. Rest(c)' = "enter"
          BY <4>1, Zenon DEF Rest
        <5>2. Owes(c, Rest(c))'
          BY <4>1, <4>3, <4>4, <5>1, Zenon DEF Owes, SameSocket, Alive
        <5> QED  BY <3>1, <4>4, <5>2, Zenon
      <4>5. CASE cur'[t] = c /\ pc'[t] \in {"idle", "quit"} /\ state'[c] = state[c]
        <5>1. At(t, c)' = pc'[t]
          BY <4>5, Zenon DEF At
        <5>2. Owes(c, At(t, c))'
          BY <4>1, <4>3, <4>5, <5>1, Zenon DEF Owes, SameSocket, Alive, Parked, Counted
        <5> QED  BY <3>1, <4>5, <5>2, Zenon
      <4> QED  BY <4>1, <4>4, <4>5, ZenonT(40)
    <3>10. CASE WaitEnd(t, c)
      <4>1. /\ cur'[t] = c /\ pc[t] = "wait" /\ pc'[t] = at[c] /\ SameSocket(c) /\ UNCHANGED << state, coro_status, at >>
        BY <3>10, Zenon DEF WaitEnd, SameSocket, Coming, TypeOK, ConnTypes, CoroTypes, ThreadTypes,
           SockTypes
      <4>2. coro_status[c] = "ongoing"
        BY <4>1, Zenon DEF Running
      <4>3. At(t, c)' = At(t, c)
        BY <3>1, <4>1, <4>2, Zenon DEF At
      <4> QED  BY <3>1, <4>1, <4>3, <1>OwesSame, Zenon
    <3> QED  BY <3>3, <3>4, <3>5, <3>6, <3>7, <3>8, <3>9, <3>10, ZenonT(40) DEF Execute
  \* A yield.
  <2>YieldOwes.
    ASSUME TypeOK, NEW c \in Conn, cur[t] = c, Yield(t, c), Running(c), Owes(c, At(t, c))
    PROVE  cur'[t] = c /\ Owes(c, At(t, c))'
    <3> USE <2>YieldOwes
    <3>1. /\ UNCHANGED << state, coro_status, cur >>
          /\ pc'[t] \in {"wait", "yield"} /\ pc[t] \in {"login", "exec", "replied", "close", "wait"}
          /\ at'[c] = IF pc[t] = "wait" THEN at[c] ELSE pc[t]
      BY YieldSteps, Zenon
    <3>2. SameSocket(c)
      <4>1. /\ UNCHANGED << unread, hup, watched, ready, polled, sent, replied, killed, bound, epoll_events,
                            events_snapshot, timer >>
        BY Zenon DEF Yield, YieldToTx, YieldToQueue, WaitBegin, WaitBeginExt, CanYield, connVars, sockVars, clientVars
      <4> QED  BY <4>1, Zenon DEF SameSocket, Coming
    <3>3. coro_status[c] = "ongoing"
      BY <3>1, Zenon DEF Running
    <3>4. At(t, c)' = At(t, c)
      BY <3>1, <3>3, Zenon DEF At
    <3> QED  BY <3>1, <3>2, <3>4, <1>OwesSame, Zenon
  \* tp_callback() after the coroutine.
  <2>LeaveOwes.
    ASSUME TypeOK, Placed, NEW c \in Conn, cur[t] = c, Leave(t, c), Running(c), Owes(c, At(t, c))
    PROVE  (cur'[t] = c => Owes(c, At(t, c))') /\ (cur'[t] = NoConn => Owes(c, Rest(c))')
    <3> USE <2>LeaveOwes
    <3> USE DEF Goto, coroVars, sockVars, boundVars, connVars, clientVars
    <3>1. /\ at[c] \in {"login", "exec", "replied", "close"} /\ coro_status[c] \in {"empty", "ongoing"}
          /\ epoll_events[c] \in Nat /\ events_snapshot[c] \in Nat /\ c # NoConn
      BY SchedAssumption, Zenon DEF TypeOK, ConnTypes, CoroTypes
    <3>2. pc[t] \notin {"release", "yield"} => ~CanSignal(c) /\ Alive(c)
      BY OnThread, Zenon
    <3>3. pc[t] \notin {"release", "yield"} => ~Parked(c)
      BY <3>2, Zenon DEF CanSignal, Parked, Alive
    <3>4. CASE SetIdle(t, c)
      <4>1. /\ cur'[t] = c /\ pc[t] = "idle" /\ pc'[t] = "start_io" /\ SameSocket(c) /\ state'[c] = "idle" /\ UNCHANGED coro_status
        BY <3>4, Zenon DEF SetIdle, SameSocket, Coming, TypeOK, ConnTypes, CoroTypes, ThreadTypes, SockTypes
      <4>2. At(t, c)' = "start_io" /\ At(t, c) = "idle" /\ Alive(c)
        BY <3>2, <4>1, Zenon DEF At
      <4>3. Owes(c, At(t, c))'
        BY <4>1, <4>2, Zenon DEF Owes, SameSocket, Alive, Parked, Readable, Counted
      <4> QED  BY <3>1, <4>1, <4>3, Zenon
    <3>5. CASE Bind(t, c)
      <4>1. pc[t] = "start_io" /\ UNCHANGED << killed, sent, replied, timer >>
        BY <3>5, Zenon DEF Bind
      <4>2. CASE BeginClose(t, c, coro_ret[c])
        BY <3>1, <4>1, <4>2, <1>BeginCloseOwes, Zenon
      <4>3. CASE ~BeginClose(t, c, coro_ret[c])
        <5>1. /\ cur'[t] = c /\ pc'[t] = "release" /\ UNCHANGED << state, coro_status, unread, hup >>
              /\ ready'[c] = (unread[c] > 0 \/ hup[c])
          BY <3>5, <4>3, Zenon DEF Bind, TypeOK, ThreadTypes, SockTypes
        <5>2. At(t, c)' = "release" /\ At(t, c) = "start_io"
          BY <4>1, <5>1, Zenon DEF At
        <5>3. state[c] \notin {"none", "new", "connecting", "deleted"}
          <6>1. state[c] \notin {"none", "new", "deleted"}
            BY <3>2, <4>1, Zenon DEF Running, Alive
          <6>2. ~In(c, "login") /\ ~In(c, "idle")
            <7>1. \A l \in Labels : In(c, l) <=> \/ pc[t] = l
                                                 \/ /\ coro_status[c] = "ongoing" /\ at[c] = l
                                                    /\ pc[t] \in {"enter", "wait", "yield"}
              BY StageOf, Zenon DEF Placed
            <7> QED  BY <4>1, <7>1, Zenon DEF Labels
          <6> QED  BY <6>1, <6>2, Zenon DEF Running
        <5>4. Readable(c)' => Coming(c)'
          BY <5>1, Zenon DEF Readable, Coming
        <5>5. Owes(c, At(t, c))'
          BY <4>1, <5>1, <5>2, <5>3, <5>4, Zenon DEF Owes
        <5> QED  BY <3>1, <5>1, <5>5, Zenon
      <4> QED  BY <4>2, <4>3, Zenon
    <3>6. CASE StartIO(t, c)
      <4>1. /\ cur'[t] = c /\ pc[t] = "start_io"
            /\ UNCHANGED << state, coro_status, unread, hup, watched, ready, polled, sent, replied, killed, bound,
                            events_snapshot, timer >>
            /\ \/ pc'[t] = "release" /\ epoll_events[c] = events_snapshot[c]
               \/ pc'[t] = "recount" /\ epoll_events'[c] = epoll_events[c]
        BY <3>6, Zenon DEF StartIO, TypeOK, ConnTypes, ThreadTypes
      <4>2. At(t, c)' = pc'[t] /\ At(t, c) = "start_io" /\ (Coming(c)' <=> Coming(c)) /\ (Readable(c)' <=> Readable(c))
        BY <4>1, Zenon DEF At, Coming, Readable
      <4>3. pc'[t] = "release" => (watched[c] /\ Readable(c) => Coming(c))
        <5>1. Counted(c)
          BY <4>2, Zenon DEF Owes
        <5>2. epoll_events[c] = events_snapshot[c] => ~(epoll_events[c] > events_snapshot[c])
          BY <3>1
        <5>3. pc'[t] = "release" => epoll_events[c] = events_snapshot[c]
          BY <4>1, Zenon
        <5> QED  BY <5>1, <5>2, <5>3, Zenon DEF Counted
      <4>4. Parked(c)' /\ Readable(c)' => Coming(c)'
        BY <3>3, <4>1, <4>2, <4>3, Zenon DEF Parked
      <4>5. Owes(c, At(t, c))'
        BY <4>1, <4>2, <4>4, Zenon DEF Owes
      <4> QED  BY <3>1, <4>1, <4>5, Zenon
    <3>7. CASE Recount(t, c)
      <4>1. /\ cur'[t] = c /\ pc[t] = "recount" /\ pc'[t] = "requeue" /\ epoll_events'[c] = 1
            /\ UNCHANGED << state, coro_status, unread, hup, watched, sent, replied, killed, bound, timer >>
        BY <3>7, Zenon DEF Recount, TypeOK, ConnTypes, ThreadTypes
      <4>2. At(t, c)' = "requeue" /\ At(t, c) = "recount"
        BY <4>1, Zenon DEF At
      <4>3. ~Parked(c)' /\ (Alive(c)' <=> Alive(c)) /\ (Readable(c)' <=> Readable(c))
        BY <4>1, ZeroOne, Positive, Zenon DEF Parked, Alive, Readable
      <4>4. Owes(c, At(t, c))'
        BY <4>1, <4>2, <4>3, Zenon DEF Owes
      <4> QED  BY <3>1, <4>1, <4>4, Zenon
    <3>8. CASE Requeue(t, c)
      <4>1. /\ cur'[t] = c /\ pc[t] = "requeue" /\ pc'[t] = "release" /\ SameSocket(c) /\ UNCHANGED << state, coro_status >>
        BY <3>8, Zenon DEF Requeue, SameSocket, Coming, TypeOK, ConnTypes, CoroTypes, QueueTypes,
           ThreadTypes, SockTypes
      <4>2. At(t, c)' = "release" /\ At(t, c) = "requeue"
        BY <4>1, Zenon DEF At
      <4>3. Owes(c, At(t, c))'
        BY <3>3, <4>1, <4>2, Zenon DEF Owes, Parked, SameSocket
      <4> QED  BY <3>1, <4>1, <4>3, Zenon
    <3>9. CASE Release(t, c)
      <4>1. /\ cur'[t] = NoConn /\ pc[t] \in {"release", "yield"} /\ SameSocket(c) /\ UNCHANGED << state, coro_status, at >>
        BY <3>9, Zenon DEF Release, SameSocket, Coming, TypeOK, ConnTypes, CoroTypes, ThreadTypes, SockTypes
      <4>2. CASE pc[t] = "yield"
        <5>1. coro_status[c] = "ongoing"
          BY <4>2, Zenon DEF Running
        <5>2. Rest(c)' = At(t, c)
          BY <4>1, <4>2, <5>1, Zenon DEF Rest, At
        <5> QED  BY <3>1, <4>1, <5>2, <1>OwesSame, Zenon
      <4>3. CASE pc[t] = "release"
        <5>1. At(t, c) = "release"
          BY <4>3, Zenon DEF At
        <5>2. coro_status[c] = "empty"
          BY <5>1, Zenon DEF Owes
        <5>3. Rest(c)' = "enter"
          BY <4>1, <5>2, Zenon DEF Rest
        <5>4. Owes(c, "enter")
          BY <5>1, Zenon DEF Owes
        <5> QED  BY <3>1, <4>1, <5>3, <5>4, <1>OwesSame, Zenon
      <4> QED  BY <4>1, <4>2, <4>3, Zenon
    <3> QED  BY <3>4, <3>5, <3>6, <3>7, <3>8, <3>9, ZenonT(40) DEF Leave
  <2>1. PICK c \in Conn : cur[t] = c /\ (Enter(t, c) \/ Execute(t, c) \/ Yield(t, c) \/ Leave(t, c))
    BY Zenon DEF Process
  <2>2. TypeOK /\ Placed /\ Running(c) /\ OneThreadPerConnection /\ UnboundSilent /\ TypeOK' /\ OneThreadPerConnection'
    BY Zenon DEF OwesInv, LoopInv, IInv, Bookkeeping, Placed
  <2>3. Turn(t, c) /\ \A e \in Conn \ {c} : SameConn(e) /\ SameEvents(e)
    BY <2>1, <2>2, EnterOthers, ExecuteOthers, YieldOthers, LeaveOthers, Zenon
  <2>4. CASE d = c
    <3>1. Owes(c, At(t, c))
      BY <2>1, <2>2, OwesForms, Zenon DEF OwesInv
    <3>2. (cur'[t] = c => Owes(c, At(t, c))') /\ (cur'[t] = NoConn => Owes(c, Rest(c))')
      BY <2>1, <2>2, <3>1, <2>EnterOwes, <2>ExecuteOwes, <2>YieldOwes, <2>LeaveOwes, SchedAssumption, ZenonT(40)
    <3>3. CASE cur'[t] = c
      BY <2>2, <2>4, <3>2, <3>3, OwesFormsNext, Zenon
    <3>4. CASE cur'[t] = NoConn
      <4>1. \A u \in Thread : cur'[u] # c
        BY <2>1, <2>2, <2>3, <3>4, OnlyHere, SchedAssumption, Zenon
      <4> QED  BY <2>2, <2>4, <3>2, <3>4, <4>1, OwesFormsNext, Zenon
    <3> QED  BY <2>3, <3>3, <3>4, Zenon DEF Turn
  <2>5. CASE d # c
    <3>1. SameConn(d) /\ SameEvents(d) /\ SameHeld(d)
      BY <2>1, <2>3, <2>5, TurnHeld, Zenon
    <3>2. SameStage(d) /\ SameSocket(d) /\ state'[d] = state[d]
      BY <3>1, Zenon DEF SameConn, SameEvents, SameStage, SameSocket, Coming
    <3> QED  BY <2>2, <3>2, <1>OwesKept, Zenon
  <2> QED  BY <2>4, <2>5, Zenon
\* A thread that takes, skips or picks connections, or applies events: an
\* event that is applied is counted.
<1>DispatchOwes.
  ASSUME OwesInv, IInv', NEW t \in Thread, Dispatch(t), NEW d \in Conn
  PROVE  (ClientWaits(d) /\ Watching(d))'
  <2> USE <1>DispatchOwes
  <2>1. TypeOK /\ Placed /\ ThreadsInLoop /\ OneThreadPerConnection /\ HeldIsAlive /\ TypeOK' /\ OneThreadPerConnection'
    BY Zenon DEF OwesInv, LoopInv, IInv, Bookkeeping, Placed
  <2>2. Dispatched(t)
    BY <2>1, DispatchSteps, Zenon
  <2>3. /\ UNCHANGED << state, killed, bound, events_snapshot, coro_status, at, in_error, need_sql_thd, unread, hup,
                        watched, sent, replied, timer >>
        /\ \A u \in Thread \ {t} : pc'[u] = pc[u] /\ cur'[u] = cur[u]
    BY <2>2, Zenon DEF Dispatched, coroVars, clientVars, boundVars
  <2>4. CASE ~(\E c \in Conn : ApplyEvent(t, c))
    <3>1. UNCHANGED epoll_events
      BY <2>4, Zenon DEF Dispatch, GetNative, GetResumed, GetRequests, GetNothing, TakeFrom, TakeAll, Skip, Pick,
         EndOfBatch, Poll, connVars
    <3>2. Coming(d)' <=> Coming(d)
      <4>1. CASE Poll(t)
        <5>1. /\ polled' = [polled EXCEPT ![t] = {c \in Conn : ready[c]}] /\ ready' = [c \in Conn |-> FALSE]
              /\ polled[t] = {}
          BY <2>1, <4>1, Zenon DEF Poll, ThreadsInLoop
        <5>2. d \in polled'[t] <=> ready[d]
          BY <2>1, <5>1, Zenon DEF TypeOK, ThreadTypes, SockTypes
        <5>3. \A u \in Thread \ {t} : polled'[u] = polled[u]
          BY <2>1, <5>1 DEF TypeOK
        <5> QED  BY <5>1, <5>2, <5>3, Zenon DEF Coming
      <4>2. CASE ~Poll(t)
        <5>1. UNCHANGED << ready, polled >>
          BY <2>4, <4>2, Zenon DEF Dispatch, GetNative, GetResumed, GetRequests, GetNothing, TakeFrom, TakeAll, Skip,
             Pick, EndOfBatch, sockVars
        <5> QED  BY <5>1, Zenon DEF Coming
      <4> QED  BY <4>1, <4>2, Zenon
    <3>3. SameSocket(d)
      BY <2>3, <3>1, <3>2, Zenon DEF SameSocket
    <3>4. CASE SameHeld(d)
      BY <2>1, <2>3, <3>3, <3>4, <1>OwesKept, Zenon DEF SameStage
    <3>5. CASE Pick(t, d) /\ cur'[t] = d /\ pc'[t] = "enter" /\ \A u \in Thread : cur[u] # d
      <4>1. Owes(d, Rest(d))
        BY <2>1, <3>5, OwesForms, Zenon DEF OwesInv
      <4>2. At(t, d)' = Rest(d)
        BY <2>3, <3>5, Zenon DEF At, Rest
      <4>3. Owes(d, At(t, d))'
        BY <2>3, <3>3, <4>1, <4>2, <1>OwesSame, Zenon
      <4> QED  BY <2>1, <3>5, <4>3, OwesFormsNext, Zenon
    <3> QED  BY <2>1, <3>4, <3>5, DispatchHolds, Zenon
  <2>5. ASSUME NEW c \in Conn, ApplyEvent(t, c)  PROVE (ClientWaits(d) /\ Watching(d))'
    <3>1. /\ polled' = [polled EXCEPT ![t] = @ \ {c}] /\ UNCHANGED << ready, cur >>
          /\ pc'[t] \in Free /\ cur[t] = NoConn
      BY <2>1, <2>2, <2>5, Zenon DEF ApplyEvent, sockVars, Goto, TypeOK, Free, Dispatched, ThreadTypes
    <3>2. SameStage(d)
      BY <2>3, <3>1, SchedAssumption, Zenon DEF SameStage, SameHeld
    <3>3. CASE d # c
      <4>1. epoll_events'[d] = epoll_events[d]
        BY <2>1, <2>5, <3>3, ZenonT(40) DEF ApplyEvent, Add, TypeOK, ConnTypes
      <4>2. Coming(d)' <=> Coming(d)
        BY <2>1, <3>1, <3>3, SMTT(60) DEF Coming, TypeOK, ConnTypes, CoroTypes, ThreadTypes, SockTypes
      <4> QED  BY <2>1, <2>3, <3>2, <4>1, <4>2, <1>OwesKept, Zenon DEF SameSocket
    <3>4. CASE d = c /\ state[d] = "deleted"
      <4>1. epoll_events'[d] = epoll_events[d] /\ \A u \in Thread : cur[u] # d
        BY <2>1, <2>5, <3>4, SchedAssumption, Zenon DEF ApplyEvent, HeldIsAlive, Alive
      <4>2. Owes(d, Rest(d)) /\ \A u \in Thread : cur'[u] # d
        BY <2>1, <3>1, <4>1, OwesForms, Zenon DEF OwesInv
      <4>3. coro_status[d] = "empty"
        BY <3>4, <4>2, Zenon DEF Owes
      <4>4. Rest(d) = "enter" /\ Rest(d)' = "enter"
        BY <2>3, <4>3, Zenon DEF Rest
      <4>5. Owes(d, Rest(d))'
        BY <2>3, <3>4, <4>2, <4>4, Zenon DEF Owes, Alive
      <4> QED  BY <2>1, <4>2, <4>5, OwesFormsNext, Zenon
    <3>5. CASE d = c /\ state[d] # "deleted"
      <4>1. epoll_events'[d] = epoll_events[d] + 1 /\ epoll_events[d] \in Nat /\ events_snapshot[d] \in Nat
        BY <2>1, <2>5, <3>5, Zenon DEF ApplyEvent, Add, TypeOK, ConnTypes
      <4>2. /\ epoll_events[d] >= events_snapshot[d] => epoll_events'[d] >= events_snapshot[d] /\ epoll_events'[d] > events_snapshot[d]
            /\ epoll_events'[d] # 0
        BY <4>1
      <4>3. ASSUME NEW l, Owes(d, l)  PROVE Owes(d, l)'
        <5>1. ~Parked(d)'
          BY <4>2, Zenon DEF Parked
        <5>2. ASSUME watched[d] => epoll_events[d] >= events_snapshot[d]  PROVE Counted(d)'
          BY <2>3, <4>2, <5>2, Zenon DEF Counted
        <5>3. ASSUME watched[d] => epoll_events[d] >= events_snapshot[d]
              PROVE  watched'[d] => epoll_events'[d] >= events_snapshot'[d]
          BY <2>3, <4>2, <5>3, Zenon
        <5> QED  BY <2>3, <4>3, <5>1, <5>2, <5>3, Zenon DEF Owes
      <4>4. CASE \E u \in Thread : cur[u] = d
        <5>1. PICK u \in Thread : cur[u] = d
          BY <4>4, Zenon
        <5>2. At(u, d)' = At(u, d) /\ cur'[u] = d
          BY <2>3, <3>1, <3>2, <5>1, Zenon DEF At, SameStage, SameHeld
        <5>3. Owes(d, At(u, d))
          BY <2>1, <5>1, OwesForms, Zenon DEF OwesInv
        <5>4. Owes(d, At(u, d))'
          BY <4>3, <5>2, <5>3, Zenon
        <5> QED  BY <2>1, <5>2, <5>4, OwesFormsNext, Zenon
      <4>5. CASE \A u \in Thread : cur[u] # d
        <5>1. Rest(d)' = Rest(d) /\ \A u \in Thread : cur'[u] # d
          BY <2>3, <3>1, <4>5, Zenon DEF Rest
        <5>2. Owes(d, Rest(d))
          BY <2>1, <4>5, OwesForms, Zenon DEF OwesInv
        <5>3. Owes(d, Rest(d))'
          BY <4>3, <5>1, <5>2, Zenon
        <5> QED  BY <2>1, <5>1, <5>3, OwesFormsNext, Zenon
      <4> QED  BY <4>4, <4>5, Zenon
    <3> QED  BY <3>3, <3>4, <3>5, Zenon
  <2> QED  BY <2>4, <2>5, Zenon
\* Clients, KILL, the timer and the transaction service.
<1>EnvironmentOwes.
  ASSUME MaxOutstanding <= 1, OwesInv, IInv', NEW c \in Conn, Environment(c) \/ Resume(c), NEW d \in Conn
  PROVE  (ClientWaits(d) /\ Watching(d))'
  <2> USE <1>EnvironmentOwes
  \* A packet or an end of file arrives on the socket of c at stage l: only
  \* between two commands, or because the session was killed.
  <2>ArrivalOwes.
    ASSUME MaxOutstanding <= 1, TypeOK, TimerOfLive, NEW l, Owes(c, l),
           ClientSend(c) \/ ClientClose(c) \/ Kill(c) \/ TimeoutKill(c)
    PROVE  Owes(c, l)'
    <3> USE <2>ArrivalOwes
    <3> USE DEF connVars, coroVars, sockVars, clientVars, boundVars
    <3>1. /\ sent[c] \in Nat /\ replied[c] \in Nat /\ unread[c] \in Nat /\ MaxOutstanding \in Nat
          /\ ready \in [Conn -> BOOLEAN]
      BY SchedAssumption, Zenon DEF TypeOK, SockTypes, ClientTypes
    <3>2. /\ UNCHANGED << state, coro_status, replied, bound, watched, epoll_events, events_snapshot, polled >>
          /\ ready'[c] = (watched[c] \/ ready[c])
      BY <3>1, Zenon DEF ClientSend, ClientClose, Kill, TimeoutKill, Signal, threadVars
    <3>3. state[c] \notin {"none", "new", "connecting"}
      <4>1. timer[c] = "kill" => state[c] \notin {"none", "new", "connecting"}
        BY Zenon DEF Owes
      <4> QED  BY <4>1, Zenon DEF ClientSend, ClientClose, Kill, TimeoutKill, Connected
    <3>4. watched[c] => Coming(c)'
      BY <3>2, Zenon DEF Coming
    <3>5. Counted(c)' /\ (Parked(c)' => Coming(c)')
      BY <3>2, <3>4, Zenon DEF Counted, Parked
    <3>6. /\ unread[c] <= sent[c] - replied[c] /\ sent[c] - replied[c] <= 1
          /\ l \in {"snapshot", "exec"} => unread[c] = 0 /\ sent[c] = replied[c] + 1
      BY Zenon DEF Owes
    <3>7. CASE ClientSend(c)
      <4>1. /\ ~hup[c] /\ sent[c] - replied[c] < MaxOutstanding /\ sent'[c] = sent[c] + 1 /\ unread'[c] = unread[c] + 1
            /\ UNCHANGED << hup, killed, timer >>
        BY <3>7, Zenon DEF ClientSend, TypeOK, SockTypes, ClientTypes
      <4>2. sent[c] = replied[c] /\ unread[c] = 0
        <5>1. unread[c] <= sent[c] - replied[c] /\ sent[c] - replied[c] < MaxOutstanding
          BY <3>6, <4>1, Zenon
        <5> QED  BY <3>1, <5>1, NothingOwed, Zenon
      <4>3. sent[c] = replied[c] /\ unread[c] = 0 /\ sent'[c] = replied[c] + 1 /\ unread'[c] = 1
        BY <4>1, <4>2, ZeroOne, Positive, ZenonT(40)
      <4>4. l \notin {"snapshot", "exec"}
        BY <3>1, <3>6, <4>3, SMTT(60)
      <4>5. unread'[c] <= sent'[c] - replied'[c] /\ sent'[c] - replied'[c] <= 1
        BY <3>1, <3>2, <4>3
      <4> QED  BY <3>2, <3>3, <3>5, <4>1, <4>4, <4>5, Zenon DEF Owes
    <3>8. CASE ClientClose(c)
      <4>1. /\ sent[c] - replied[c] < MaxOutstanding /\ UNCHANGED << sent, unread, killed, timer >>
        BY <3>8, Zenon DEF ClientClose
      <4>2. sent[c] = replied[c]
        <5>1. unread[c] <= sent[c] - replied[c] /\ sent[c] - replied[c] < MaxOutstanding
          BY <3>6, <4>1, Zenon
        <5> QED  BY <3>1, <5>1, NothingOwed, Zenon
      <4>3. l \notin {"snapshot", "exec"}
        BY <3>1, <3>6, <4>2
      <4> QED  BY <3>2, <3>3, <3>5, <4>1, <4>2, <4>3, Zenon DEF Owes
    <3>9. CASE Kill(c) \/ TimeoutKill(c)
      <4>1. killed'[c] /\ UNCHANGED << sent, unread >>
        BY <3>9, Zenon DEF Kill, TimeoutKill, TypeOK, ConnTypes
      <4> QED  BY <3>2, <3>3, <3>5, <4>1, Zenon DEF Owes
    <3> QED  BY <3>7, <3>8, <3>9, Zenon
  <2>1. /\ TypeOK /\ Bookkeeping /\ OneThreadPerConnection /\ HeldIsAlive /\ TypeOK' /\ OneThreadPerConnection'
        /\ UnboundSilent /\ TimerOfLive
    BY Zenon DEF OwesInv, LoopInv, IInv, Bookkeeping, Placed
  <2>2. /\ UNCHANGED << pc, cur, polled, coro_status, at >> /\ SameStage(d)
        /\ d # c => SameConn(d) /\ SameEvents(d)
    BY <2>1, EnvironmentSteps, Zenon
  <2>3. CASE d # c
    <3>1. SameSocket(d) /\ state'[d] = state[d]
      BY <2>2, <2>3, Zenon DEF SameConn, SameEvents, SameSocket, Coming
    <3> QED  BY <2>1, <2>2, <3>1, <1>OwesKept, Zenon
  <2>4. ASSUME \A l : Owes(c, l) => Owes(c, l)'  PROVE (ClientWaits(c) /\ Watching(c))'
    <3>1. CASE \E u \in Thread : cur[u] = c
      <4>1. PICK u \in Thread : cur[u] = c
        BY <3>1, Zenon
      <4>2. Owes(c, At(u, c)) /\ At(u, c)' = At(u, c) /\ cur'[u] = c
        BY <2>1, <2>2, <4>1, OwesForms, Zenon DEF OwesInv, At
      <4>3. Owes(c, At(u, c))'
        BY <2>4, <4>2, Zenon
      <4> QED  BY <2>1, <4>2, <4>3, OwesFormsNext, Zenon
    <3>2. CASE \A u \in Thread : cur[u] # c
      <4>1. Owes(c, Rest(c)) /\ Rest(c)' = Rest(c) /\ \A u \in Thread : cur'[u] # c
        BY <2>1, <2>2, <3>2, OwesForms, Zenon DEF OwesInv, Rest
      <4>2. Owes(c, Rest(c))'
        BY <2>4, <4>1, Zenon
      <4> QED  BY <2>1, <4>1, <4>2, OwesFormsNext, Zenon
    <3> QED  BY <3>1, <3>2, Zenon
  <2>5. CASE d = c
    <3> USE DEF connVars, coroVars, queueVars, threadVars, sockVars, clientVars, boundVars
    <3>1. CASE AddConnection(c)
      <4>1. /\ state[c] = "none" /\ state'[c] = "new"
            /\ UNCHANGED << killed, bound, unread, hup, watched, sent, replied, timer >>
        BY <2>1, <3>1, Zenon DEF AddConnection, TypeOK, ConnTypes
      <4>2. \A u \in Thread : cur[u] # c /\ cur'[u] # c
        BY <2>1, <2>2, <4>1, SchedAssumption, Zenon DEF HeldIsAlive, Alive
      <4>3. Owes(c, Rest(c))
        BY <2>1, <4>2, OwesForms, Zenon DEF OwesInv
      <4>4. coro_status[c] = "empty" /\ ~watched[c]
        BY <2>1, <4>1, <4>3, Zenon DEF Owes, UnboundSilent
      <4>5. Rest(c) = "enter" /\ Rest(c)' = "enter" /\ ~Parked(c)'
        BY <2>2, <4>1, <4>4, Zenon DEF Rest, Parked
      <4>6. Owes(c, Rest(c))'
        BY <2>2, <4>1, <4>3, <4>4, <4>5, Zenon DEF Owes
      <4> QED  BY <2>1, <2>5, <4>2, <4>6, OwesFormsNext, Zenon
    <3>2. CASE ClientSend(c) \/ ClientClose(c) \/ Kill(c) \/ TimeoutKill(c)
      BY <2>1, <2>4, <2>5, <3>2, <2>ArrivalOwes, Zenon
    <3>3. CASE TimeoutCheck(c)
      <4>1. /\ state[c] = "idle"
            /\ UNCHANGED << state, killed, bound, epoll_events, events_snapshot, unread, hup, watched, ready, sent, replied >>
        BY <3>3, Zenon DEF TimeoutCheck
      <4>2. Coming(c)' <=> Coming(c)
        BY <2>2, <4>1, Zenon DEF Coming
      <4>3. /\ Counted(c)' <=> Counted(c)
            /\ Readable(c)' <=> Readable(c)
            /\ Parked(c)' <=> Parked(c)
        BY <2>2, <4>1, <4>2, Zenon DEF Counted, Readable, Parked
      <4>4. ASSUME NEW l, Owes(c, l)  PROVE Owes(c, l)'
        BY <2>2, <4>1, <4>2, <4>3, <4>4, ZenonT(40) DEF Owes, Alive
      <4> QED  BY <2>4, <2>5, <4>4, Zenon
    <3>4. CASE TimeoutPending(c)
      <4>1. /\ state'[c] = "pending" /\ Alive(c)
            /\ UNCHANGED << killed, bound, epoll_events, events_snapshot, unread, hup, watched, ready, sent, replied >>
        BY <2>1, <3>4, Zenon DEF TimeoutPending, TimerOfLive, Alive, TypeOK, ConnTypes
      <4>2. Coming(c)' <=> Coming(c)
        BY <2>2, <4>1, Zenon DEF Coming
      <4>3. /\ Counted(c)' <=> Counted(c)
            /\ Readable(c)' <=> Readable(c)
            /\ Parked(c)' <=> Parked(c)
        BY <2>2, <4>1, <4>2, Zenon DEF Counted, Readable, Parked
      <4>4. ASSUME NEW l, Owes(c, l)  PROVE Owes(c, l)'
        BY <2>2, <4>1, <4>2, <4>3, <4>4, Zenon DEF Owes, Alive
      <4> QED  BY <2>4, <2>5, <4>4, Zenon
    <3>5. CASE Resume(c)
      <4>1. UNCHANGED << state, killed, bound, epoll_events, events_snapshot, unread, hup, watched, ready, sent, replied, timer >>
        BY <3>5, Zenon DEF Resume
      <4>2. SameSocket(c)
        BY <2>2, <4>1, Zenon DEF SameSocket, Coming
      <4> QED  BY <2>1, <2>2, <2>5, <4>1, <4>2, <1>OwesKept, Zenon
    <3> QED  BY <3>1, <3>2, <3>3, <3>4, <3>5, Zenon DEF Environment
  <2> QED  BY <2>3, <2>5, Zenon
<1> SUFFICES ASSUME MaxOutstanding <= 1, OwesInv, [Next]_vars  PROVE OwesInv'
  BY Zenon
<1>1. LoopInv' /\ IInv' /\ TypeOK' /\ OneThreadPerConnection'
  BY NextLoop, Zenon DEF OwesInv, LoopInv, IInv, Bookkeeping, Placed
<1>2. CASE UNCHANGED vars
  <2>1. UNCHANGED << state, timer, bound, watched, killed, epoll_events, events_snapshot, coro_status, at, in_error,
                     need_sql_thd, pc, cur, unread, hup, ready, polled, sent, replied >>
    BY <1>2, Zenon DEF vars, connVars, coroVars, threadVars, sockVars, clientVars, boundVars
  <2>2. ASSUME NEW c \in Conn  PROVE (ClientWaits(c) /\ Watching(c))'
    <3>1. SameStage(c) /\ SameSocket(c)
      BY <2>1, Zenon DEF SameStage, SameHeld, SameSocket, Coming
    <3> QED  BY <1>1, <2>1, <3>1, <1>OwesKept, Zenon
  <2> QED  BY <1>1, <2>2, Zenon DEF OwesInv
<1>3. CASE Next
  <2>1. ASSUME NEW c \in Conn  PROVE (ClientWaits(c) /\ Watching(c))'
    BY <1>1, <1>3, <1>ProcessOwes, <1>DispatchOwes, <1>EnvironmentOwes, Zenon DEF Next
  <2> QED  BY <1>1, <2>1, Zenon DEF OwesInv
<1> QED  BY <1>2, <1>3, Zenon

\* For clients that wait for the reply before they send the next packet, as
\* the protocol of the server demands, and for any number of connections and
\* threads, with yields, kills and timeouts: start_io() parks a connection
\* only if every packet and every end of file in its socket has an event
\* under way, so none waits for the client to send more.
THEOREM PacketsAreAnnounced == MaxOutstanding <= 1 /\ Spec => []NoRequestForgotten
<1> SUFFICES ASSUME MaxOutstanding <= 1  PROVE Spec => []NoRequestForgotten
  BY Zenon
<1>1. OwesInv /\ [Next]_vars => OwesInv'
  BY NextOwes, Zenon
<1>2. OwesInv => NoRequestForgotten
  BY Zenon DEF OwesInv, Watching, NoRequestForgotten, Readable, Coming
<1> QED  BY <1>1, <1>2, InitOwes, PTL DEF Spec

-----------------------------------------------------------------------------
(* A packet is announced once.                                             *)

\* Labels after the packet of a command was read.
ReadLabels == {"exec", "replied", "idle", "start_io"}

\* Announced, of a connection at stage l.
Heard(c, l) ==
  /\ tx_pending[c] => coro_status[c] = "ongoing"
  /\ ~hup[c] =>
       /\ OneEvent(c)
       /\ Coming(c) => unread[c] > 0
       /\ l = "read" \/ Called(c) => Expected(c)
       /\ l \in ReadLabels => (bound[c] /\ epoll_events[c] > events_snapshot[c] => Expected(c))

\* The two forms of Announced.
LEMMA HeardForms ==
  TypeOK /\ OneThreadPerConnection =>
    \A c \in Conn :
      /\ \A t \in Thread : cur[t] = c => (Announced(c) <=> Heard(c, At(t, c)))
      /\ (\A t \in Thread : cur[t] # c) => (Announced(c) <=> Heard(c, Rest(c)))
<1> SUFFICES ASSUME TypeOK, OneThreadPerConnection, NEW c \in Conn
             PROVE  /\ \A t \in Thread : cur[t] = c => (Announced(c) <=> Heard(c, At(t, c)))
                    /\ (\A t \in Thread : cur[t] # c) => (Announced(c) <=> Heard(c, Rest(c)))
  BY Zenon
<1>1. ASSUME NEW l, \A m \in {"read"} \cup ReadLabels : In(c, m) <=> l = m
      PROVE  Announced(c) <=> Heard(c, l)
  <2>1. /\ In(c, "read") <=> l = "read"
        /\ In(c, "exec") \/ In(c, "replied") \/ In(c, "idle") \/ In(c, "start_io") <=> l \in ReadLabels
    BY <1>1, Zenon DEF ReadLabels
  <2> QED  BY <2>1, Zenon DEF Announced, Heard
<1>2. ASSUME NEW t \in Thread, cur[t] = c  PROVE Announced(c) <=> Heard(c, At(t, c))
  <2>1. \A l \in Stages \cup {"idle", "start_io", "recount", "requeue"} : In(c, l) <=> At(t, c) = l
    BY <1>2, StageAt, Zenon
  <2>2. \A m \in {"read"} \cup ReadLabels : In(c, m) <=> At(t, c) = m
    BY <2>1, Zenon DEF Stages, ReadLabels
  <2> QED  BY <1>1, <2>2, Zenon
<1>3. ASSUME \A t \in Thread : cur[t] # c  PROVE Announced(c) <=> Heard(c, Rest(c))
  <2>1. \A l \in Labels : In(c, l) <=> coro_status[c] = "ongoing" /\ at[c] = l
    BY <1>3, StageOff, Zenon
  <2>2. \A m \in {"read"} \cup ReadLabels : In(c, m) <=> Rest(c) = m
    BY <2>1, Zenon DEF Labels, ReadLabels, Rest
  <2> QED  BY <1>1, <2>2, Zenon
<1> QED  BY <1>2, <1>3, Zenon

\* The same in the next state.
LEMMA HeardFormsNext ==
  (TypeOK /\ OneThreadPerConnection =>
    \A c \in Conn :
      /\ \A t \in Thread : cur[t] = c => (Announced(c) <=> Heard(c, At(t, c)))
      /\ (\A t \in Thread : cur[t] # c) => (Announced(c) <=> Heard(c, Rest(c))))'
BY HeardForms, PTL

\* A step that brings nothing to the socket of c and reads nothing from it.
SilentStep(c) ==
  /\ unread'[c] = unread[c] /\ hup'[c] = hup[c] /\ (ready'[c] => ready[c])
  /\ \A u \in Thread : c \in polled'[u] <=> c \in polled[u]

\* A connection on a thread that has not handed it on is nowhere else.
LEMMA NowhereElse ==
  \A u \in Thread, d \in Conn :
     Placed /\ cur[u] = d /\ pc[u] \notin {"release", "yield"} =>
       /\ req_queue[d] = 0 /\ resume_queue[d] = 0 /\ sql_native_queue[d] = 0
       /\ \A w \in Thread : batch[w][d] = 0
       /\ \A w \in Thread : cur[w] = d => w = u
       /\ ~tx_pending[d]
BY OnThread, ZenonT(40)

\* The same in the next state.
LEMMA NowhereElseNext ==
  (\A u \in Thread, d \in Conn :
     Placed /\ cur[u] = d /\ pc[u] \notin {"release", "yield"} =>
       /\ req_queue[d] = 0 /\ resume_queue[d] = 0 /\ sql_native_queue[d] = 0
       /\ \A w \in Thread : batch[w][d] = 0
       /\ \A w \in Thread : cur[w] = d => w = u
       /\ ~tx_pending[d])'
BY NowhereElse, PTL

\* The invariant of a pool whose clients wait for their replies and whose
\* connections never time out.
HeardInv == StageInv /\ OwesInv /\ \A c \in Conn : Announced(c)

\* The invariant holds initially.
LEMMA InitHeard == Init => HeardInv
<1> SUFFICES ASSUME Init  PROVE HeardInv
  BY Zenon
<1>1. StageInv /\ OwesInv /\ TypeOK /\ OneThreadPerConnection
  BY InitStages, InitOwes, Zenon DEF StageInv, LoopInv, IInv, Bookkeeping, Placed
<1>2. ASSUME NEW c \in Conn  PROVE Announced(c)
  <2>1. \A t \in Thread : cur[t] # c /\ c \notin polled[t]
    BY SchedAssumption, Zenon DEF Init
  <2>2. ~ready[c] /\ state[c] = "none" /\ coro_status[c] = "empty" /\ ~tx_pending[c]
    BY Zenon DEF Init
  <2>3. Rest(c) = "enter" /\ ~Called(c) /\ ~Coming(c) /\ OneEvent(c)
    BY <2>1, <2>2, Zenon DEF Rest, Called, Coming, OneEvent
  <2>4. Heard(c, Rest(c))
    BY <2>2, <2>3, Zenon DEF Heard, ReadLabels
  <2> QED  BY <1>1, <2>1, <2>4, HeardForms, Zenon
<1> QED  BY <1>1, <1>2, Zenon DEF HeardInv

\* It is inductive.
LEMMA NextHeard == MaxOutstanding <= 1 /\ MaxTimeouts = 0 /\ HeardInv /\ [Next]_vars => HeardInv'
\* Such a step calls c for nothing new and does not bring c past the read.
<1>HeardSame.
  ASSUME NEW c \in Conn, NEW l, NEW m, Heard(c, l), SilentStep(c), tx_pending'[c] => coro_status'[c] = "ongoing",
         Called(c)' => Called(c), m = "read" => l = "read",
         m \in ReadLabels =>
           /\ l \in ReadLabels /\ bound'[c] = bound[c]
           /\ epoll_events'[c] = epoll_events[c] /\ events_snapshot'[c] = events_snapshot[c]
  PROVE  Heard(c, m)'
  <2> USE <1>HeardSame
  <2>1. /\ Coming(c)' => Coming(c)
        /\ OneEvent(c) => OneEvent(c)'
        /\ Expected(c) => Expected(c)'
    BY Zenon DEF SilentStep, Coming, OneEvent, Expected
  <2> QED  BY <2>1, Zenon DEF Heard, SilentStep
\* Past tp_callback()'s entry, a thread that keeps its connection is about to
\* call it only if it counted new events.
<1>CalledOnThread.
  ASSUME Placed', NEW t \in Thread, NEW c \in Conn, cur'[t] = c, pc'[t] \notin {"release", "yield", "enter"}
  PROVE  ~tx_pending'[c] /\ (Called(c)' => pc'[t] \in {"recount", "requeue"})
  <2> USE <1>CalledOnThread
  <2>1. /\ req_queue'[c] = 0 /\ resume_queue'[c] = 0 /\ sql_native_queue'[c] = 0
        /\ \A w \in Thread : batch'[w][c] = 0
        /\ \A w \in Thread : cur'[w] = c => w = t
        /\ ~tx_pending'[c]
    BY NowhereElseNext, Zenon
  <2> QED  BY <2>1, ZeroOne, Positive, Zenon DEF Called
\* The error label.
<1>BeginCloseHeard.
  ASSUME TypeOK, Placed', NEW t \in Thread, NEW c \in Conn, cur[t] = c, NEW l, Heard(c, l), NEW ret,
         BeginClose(t, c, ret)
  PROVE  cur'[t] = c /\ Heard(c, At(t, c))'
  <2> USE <1>BeginCloseHeard
  <2>1. /\ pc'[t] = "close" /\ cur'[t] = c /\ unread'[c] = unread[c] /\ hup'[c] = hup[c] /\ ~ready'[c]
        /\ UNCHANGED polled
    BY Zenon DEF BeginClose, Goto, TypeOK, ThreadTypes, SockTypes
  <2>2. At(t, c)' = "close"
    BY <2>1, Zenon DEF At
  <2>3. ~tx_pending'[c] /\ ~Called(c)'
    BY <2>1, <1>CalledOnThread, Zenon
  <2> QED  BY <2>1, <2>2, <2>3, <1>HeardSame, Zenon DEF SilentStep, ReadLabels
\* A connection that keeps its stage, and for which nothing arrives.
<1>HeardKept.
  ASSUME HeardInv, TypeOK', OneThreadPerConnection', NEW d \in Conn, SameStage(d), SilentStep(d),
         tx_pending'[d] = tx_pending[d], Called(d)' => Called(d), bound'[d] = bound[d],
         epoll_events'[d] = epoll_events[d], events_snapshot'[d] = events_snapshot[d]
  PROVE  Announced(d)'
  <2> USE <1>HeardKept
  <2>1. TypeOK /\ OneThreadPerConnection /\ Announced(d)
    BY Zenon DEF HeardInv, StageInv, LoopInv, IInv, Bookkeeping, Placed
  <2>2. coro_status'[d] = coro_status[d] /\ at'[d] = at[d]
    BY Zenon DEF SameStage
  <2>3. tx_pending'[d] => coro_status'[d] = "ongoing"
    BY <2>1, <2>2, Zenon DEF Announced
  <2>4. CASE \E u \in Thread : cur[u] = d
    <3>1. PICK u \in Thread : cur[u] = d
      BY <2>4, Zenon
    <3>2. cur'[u] = d /\ pc'[u] = pc[u]
      BY <3>1, Zenon DEF SameStage, SameHeld
    <3>3. At(u, d)' = At(u, d) /\ Heard(d, At(u, d))
      BY <2>1, <2>2, <3>1, <3>2, HeardForms, Zenon DEF At
    <3>4. Heard(d, At(u, d))'
      BY <2>3, <3>3, <1>HeardSame, Zenon
    <3> QED  BY <3>2, <3>4, HeardFormsNext, Zenon
  <2>5. CASE \A u \in Thread : cur[u] # d
    <3>1. \A u \in Thread : cur'[u] # d
      BY <2>5, Zenon DEF SameStage, SameHeld
    <3>2. Rest(d)' = Rest(d) /\ Heard(d, Rest(d))
      BY <2>1, <2>2, <2>5, HeardForms, Zenon DEF Rest
    <3>3. Heard(d, Rest(d))'
      BY <2>3, <3>2, <1>HeardSame, Zenon
    <3> QED  BY <3>1, <3>3, HeardFormsNext, Zenon
  <2> QED  BY <2>4, <2>5, Zenon
\* A thread at work on a connection.
<1>ProcessHeard.
  ASSUME HeardInv, IInv', NEW t \in Thread, Process(t), NEW d \in Conn
  PROVE  Announced(d)'
  <2> USE <1>ProcessHeard
  \* tp_callback() up to the coroutine: a command starts because its packet was
  \* announced.
  <2>EnterHeard.
    ASSUME TypeOK, Placed, Placed', NEW c \in Conn, cur[t] = c, Enter(t, c), StagedOn(t, c),
           Owes(c, At(t, c)), Heard(c, At(t, c)), Running(c)
    PROVE  (cur'[t] = c => Heard(c, At(t, c))') /\ (cur'[t] = NoConn => Heard(c, Rest(c))')
    <3> USE <2>EnterHeard
    <3> USE DEF Goto, coroVars, sockVars, boundVars, connVars, queueVars
    <3>1. /\ at[c] \in {"login", "exec", "replied", "close"} /\ coro_status[c] \in {"empty", "ongoing"}
          /\ pc[t] = "enter" /\ c # NoConn
      BY SchedAssumption, Zenon DEF TypeOK, Enter, LoginImpossible, StartLogin, ResumeLoginOrClose,
         KilledWhileIdle, StartCommand, ResumeCommand, CoroTypes, ThreadTypes
    <3>2. ~tx_pending[c]
      BY <3>1, OnThread, Zenon
    <3>3. CASE LoginImpossible(t, c)
      <4>1. /\ SilentStep(c) /\ state[c] = "new" /\ state'[c] = "deleted" /\ UNCHANGED << coro_status, tx_pending >>
            /\ cur'[t] = NoConn
        BY <3>3, Zenon DEF LoginImpossible, SilentStep, TypeOK, ConnTypes, ThreadTypes, SockTypes
      <4>2. coro_status[c] = "empty"
        BY <4>1, Zenon DEF Owes
      <4>3. Rest(c)' = "enter"
        BY <4>1, <4>2, Zenon DEF Rest
      <4>4. ~Called(c)'
        BY <4>1, Zenon DEF Called
      <4> QED  BY <3>1, <3>2, <4>1, <4>3, <4>4, <1>HeardSame, Zenon DEF ReadLabels
    <3>4. CASE StartLogin(t, c)
      <4>1. SilentStep(c) /\ cur'[t] = c /\ pc'[t] = "login"
        BY <3>4, Zenon DEF StartLogin, SilentStep, TypeOK, ThreadTypes, SockTypes
      <4>2. At(t, c)' = "login"
        BY <4>1, Zenon DEF At
      <4>3. ~tx_pending'[c] /\ ~Called(c)'
        BY <4>1, <1>CalledOnThread, Zenon
      <4> QED  BY <3>1, <4>1, <4>2, <4>3, <1>HeardSame, ZenonT(40) DEF ReadLabels
    <3>5. CASE ResumeLoginOrClose(t, c) \/ ResumeCommand(t, c)
      <4>1. /\ SilentStep(c) /\ cur'[t] = c /\ at'[c] = at[c] /\ coro_status'[c] = coro_status[c]
            /\ pc'[t] \in {"wait", at[c]} /\ state[c] \in {"connecting", "closing", "idle", "pending", "running"}
            /\ bound'[c] = bound[c] /\ epoll_events'[c] = epoll_events[c] /\ events_snapshot'[c] = events_snapshot[c]
        BY <3>5, ZenonT(40) DEF ResumeLoginOrClose, ResumeCommand, ResumeAt, Commandable, SilentStep, TypeOK,
           CoroTypes, ThreadTypes, SockTypes
      <4>2. coro_status[c] = "ongoing"
        <5>1. CASE ResumeCommand(t, c)
          BY <5>1, Zenon DEF ResumeCommand
        <5>2. CASE ResumeLoginOrClose(t, c)
          BY <3>1, <5>2, Zenon DEF ResumeLoginOrClose, StagedOn
        <5> QED  BY <3>5, <5>1, <5>2, Zenon
      <4>3. At(t, c)' = At(t, c)
        BY <3>1, <4>1, <4>2, Zenon DEF At
      <4>4. ~Called(c)'
        BY <4>1, <4>2, Zenon DEF Called
      <4> QED  BY <3>1, <4>1, <4>2, <4>3, <4>4, <1>HeardSame, ZenonT(40)
    <3>6. CASE KilledWhileIdle(t, c)
      BY <3>1, <3>6, <1>BeginCloseHeard, Zenon DEF KilledWhileIdle
    <3>7. CASE StartCommand(t, c)
      <4>1. /\ SilentStep(c) /\ cur'[t] = c /\ pc'[t] = "read" /\ coro_status[c] = "empty"
            /\ state[c] \in {"idle", "pending", "running"} /\ UNCHANGED << ready, polled >>
        BY <3>7, Zenon DEF StartCommand, Commandable, SilentStep, TypeOK, ThreadTypes, SockTypes
      <4>2. state[c] = "idle"
        BY <3>1, <4>1, Zenon DEF StagedOn
      <4>3. Called(c)
        BY <3>1, <4>1, <4>2, Zenon DEF Called
      <4>4. At(t, c)' = "read"
        BY <4>1, Zenon DEF At
      <4>5. ~tx_pending'[c] /\ ~Called(c)'
        BY <4>1, <1>CalledOnThread, Zenon
      <4>6. /\ Coming(c)' <=> Coming(c)
            /\ OneEvent(c) => OneEvent(c)'
            /\ Expected(c) => Expected(c)'
        BY <4>1, Zenon DEF SilentStep, Coming, OneEvent, Expected
      <4> QED  BY <3>1, <4>1, <4>3, <4>4, <4>5, <4>6, ZenonT(40) DEF Heard, ReadLabels, SilentStep
    <3> QED  BY <3>3, <3>4, <3>5, <3>6, <3>7, ZenonT(40) DEF Enter
  \* The coroutines: reading the packet leaves nothing that was announced.
  <2>ExecuteHeard.
    ASSUME TypeOK, TypeOK', Placed, Placed', NEW c \in Conn, cur[t] = c, Execute(t, c),
           StagedOn(t, c), Owes(c, At(t, c)), Heard(c, At(t, c))
    PROVE  (cur'[t] = c => Heard(c, At(t, c))') /\ (cur'[t] = NoConn => Heard(c, Rest(c))')
    <3> USE <2>ExecuteHeard
    <3> USE DEF Goto, coroVars, sockVars, boundVars, connVars, queueVars
    <3>1. /\ at[c] \in {"login", "exec", "replied", "close"} /\ coro_status[c] \in {"empty", "ongoing"} /\ c # NoConn
      BY SchedAssumption, ZenonT(40) DEF TypeOK, CoroTypes
    <3>2. ASSUME cur'[t] = c, pc'[t] \notin {"release", "yield", "enter", "recount", "requeue"}
          PROVE  ~tx_pending'[c] /\ ~Called(c)'
      BY <3>2, <1>CalledOnThread, Zenon
    <3>3. CASE ReadPacket(t, c)
      <4>1. /\ cur'[t] = c /\ pc[t] = "read" /\ pc'[t] = "snapshot" /\ hup'[c] = hup[c] /\ UNCHANGED << ready, polled >>
        BY <3>3, Zenon DEF ReadPacket, TypeOK, ThreadTypes
      <4>2. At(t, c) = "read" /\ At(t, c)' = "snapshot"
        BY <4>1, Zenon DEF At
      <4>3. ~tx_pending'[c] /\ ~Called(c)'
        BY <3>2, <4>1, Zenon
      <4>4. /\ Coming(c)' <=> Coming(c)
            /\ OneEvent(c) => OneEvent(c)'
        BY <4>1, Zenon DEF Coming, OneEvent
      <4>5. ~hup[c] => OneEvent(c) /\ ~Coming(c)
        BY <4>2, Zenon DEF Heard, Expected
      <4> QED  BY <3>1, <4>1, <4>2, <4>3, <4>4, <4>5, Zenon DEF Heard, ReadLabels
    <3>4. CASE ReadError(t, c)
      <4>1. SilentStep(c) /\ cur'[t] = c /\ pc'[t] = "broken"
        BY <3>4, Zenon DEF ReadError, SilentStep, TypeOK, ThreadTypes, SockTypes
      <4>2. At(t, c)' = "broken"
        BY <4>1, Zenon DEF At
      <4> QED  BY <3>1, <3>2, <4>1, <4>2, <1>HeardSame, Zenon DEF ReadLabels
    <3>5. CASE TakeSnapshot(t, c)
      <4>1. /\ SilentStep(c) /\ cur'[t] = c /\ pc'[t] \in {"exec", "quit"}
            /\ epoll_events'[c] = epoll_events[c] /\ events_snapshot'[c] = epoll_events[c]
        BY <3>5, Zenon DEF TakeSnapshot, SilentStep, TypeOK, ConnTypes, ThreadTypes, SockTypes
      <4>2. At(t, c)' \in {"exec", "quit"}
        BY <4>1, Zenon DEF At
      <4>3. ~tx_pending'[c] /\ ~Called(c)'
        BY <3>2, <4>1, Zenon
      <4>4. ~(epoll_events'[c] > events_snapshot'[c])
        <5>1. epoll_events[c] \in Nat
          BY Zenon DEF TypeOK, ConnTypes
        <5> QED  BY <4>1, <5>1, Compared, Zenon
      <4>5. /\ Coming(c)' => Coming(c)
            /\ OneEvent(c) => OneEvent(c)'
        BY <4>1, Zenon DEF SilentStep, Coming, OneEvent
      <4> QED  BY <3>1, <4>1, <4>2, <4>3, <4>4, <4>5, ZenonT(40) DEF Heard, SilentStep
    <3>6. CASE Reply(t, c)
      <4>1. /\ SilentStep(c) /\ cur'[t] = c /\ pc[t] = "exec" /\ pc'[t] = "replied"
            /\ bound'[c] = bound[c] /\ epoll_events'[c] = epoll_events[c] /\ events_snapshot'[c] = events_snapshot[c]
        BY <3>6, Zenon DEF Reply, SilentStep, TypeOK, ThreadTypes, SockTypes
      <4>2. At(t, c) = "exec" /\ At(t, c)' = "replied"
        BY <4>1, Zenon DEF At
      <4>3. ~tx_pending'[c] /\ ~Called(c)'
        BY <3>2, <4>1, Zenon
      <4> QED  BY <3>1, <4>1, <4>2, <4>3, <1>HeardSame, Zenon DEF ReadLabels
    <3>7. CASE Quit(t, c) \/ FinishDead(t, c) \/ LoginFailed(t, c)
      BY <3>1, <3>7, <1>BeginCloseHeard, Zenon DEF Quit, FinishDead, LoginFailed
    <3>8. CASE FinishCommand(t, c)
      <4>1. /\ SilentStep(c) /\ cur'[t] = c /\ pc[t] = "replied" /\ pc'[t] = "idle"
            /\ bound'[c] = bound[c] /\ epoll_events'[c] = epoll_events[c] /\ events_snapshot'[c] = events_snapshot[c]
        BY <3>8, Zenon DEF FinishCommand, SilentStep, TypeOK, ThreadTypes, SockTypes
      <4>2. At(t, c) = "replied" /\ At(t, c)' = "idle"
        BY <4>1, Zenon DEF At
      <4>3. ~tx_pending'[c] /\ ~Called(c)'
        BY <3>2, <4>1, Zenon
      <4> QED  BY <3>1, <4>1, <4>2, <4>3, <1>HeardSame, Zenon DEF ReadLabels
    <3>9. CASE LoginDone(t, c)
      <4>1. SilentStep(c) /\ cur'[t] = c /\ pc[t] = "login" /\ pc'[t] = "idle" /\ bound'[c] = bound[c]
        BY <3>9, Zenon DEF LoginDone, SilentStep, TypeOK, ThreadTypes, SockTypes
      <4>2. At(t, c) = "login" /\ At(t, c)' = "idle"
        BY <4>1, Zenon DEF At
      <4>3. ~tx_pending'[c] /\ ~Called(c)' /\ ~bound'[c]
        BY <3>2, <4>1, <4>2, Zenon DEF Owes
      <4>4. /\ Coming(c)' => Coming(c)
            /\ OneEvent(c) => OneEvent(c)'
        BY <4>1, Zenon DEF SilentStep, Coming, OneEvent
      <4> QED  BY <3>1, <4>1, <4>2, <4>3, <4>4, ZenonT(40) DEF Heard, SilentStep
    <3>10. CASE CloseDone(t, c)
      <4>1. pc[t] = "close"
        BY <3>10, Zenon DEF CloseDone
      <4>2. At(t, c) = "close"
        BY <4>1, Zenon DEF At
      <4>3. in_error[c] /\ ~tx_pending[c]
        BY <4>1, <4>2, OnThread, ZenonT(40) DEF StagedOn
      <4>4. /\ SilentStep(c) /\ cur'[t] = NoConn /\ state'[c] = "deleted" /\ coro_status'[c] = "empty"
            /\ UNCHANGED tx_pending
        BY <3>10, <4>3, SMTT(60) DEF CloseDone, SilentStep, TypeOK, ConnTypes, CoroTypes, ThreadTypes,
           SockTypes
      <4>5. Rest(c)' = "enter" /\ ~Called(c)'
        BY <4>4, Zenon DEF Rest, Called
      <4> QED  BY <3>1, <4>3, <4>4, <4>5, <1>HeardSame, ZenonT(40) DEF ReadLabels
    <3>11. CASE WaitEnd(t, c)
      <4>1. /\ SilentStep(c) /\ cur'[t] = c /\ pc[t] = "wait" /\ pc'[t] = at[c] /\ UNCHANGED << coro_status, at >>
            /\ bound'[c] = bound[c] /\ epoll_events'[c] = epoll_events[c] /\ events_snapshot'[c] = events_snapshot[c]
        BY <3>11, Zenon DEF WaitEnd, SilentStep, TypeOK, ThreadTypes, SockTypes
      <4>2. coro_status[c] = "ongoing"
        BY <4>1, Zenon DEF StagedOn
      <4>3. At(t, c)' = At(t, c)
        BY <3>1, <4>1, <4>2, Zenon DEF At
      <4>4. ~tx_pending'[c] /\ ~Called(c)'
        BY <3>1, <3>2, <4>1, Zenon
      <4> QED  BY <3>1, <4>1, <4>3, <4>4, <1>HeardSame, ZenonT(40)
    <3> QED  BY <3>3, <3>4, <3>5, <3>6, <3>7, <3>8, <3>9, <3>10, <3>11, ZenonT(40) DEF Execute
  \* Yields and waits: the coroutine goes on later, so nothing is called.
  <2>YieldHeard.
    ASSUME TypeOK, NEW c \in Conn, cur[t] = c, Yield(t, c), StagedOn(t, c), Heard(c, At(t, c))
    PROVE  cur'[t] = c /\ Heard(c, At(t, c))'
    <3> USE <2>YieldHeard
    <3>1. /\ UNCHANGED << state, coro_status, cur >>
          /\ pc'[t] \in {"wait", "yield"} /\ pc[t] \in {"login", "exec", "replied", "close", "wait"}
          /\ at'[c] = IF pc[t] = "wait" THEN at[c] ELSE pc[t]
      BY YieldSteps, Zenon
    <3>2. UNCHANGED << connVars, polled, sockVars >>
      BY Zenon DEF Yield, YieldToTx, YieldToQueue, WaitBegin, WaitBeginExt, CanYield
    <3>3. coro_status[c] = "ongoing"
      BY <3>1, Zenon DEF StagedOn, Stages
    <3>4. At(t, c)' = At(t, c)
      BY <3>1, <3>3, Zenon DEF At
    <3>5. ~Called(c)'
      BY <3>1, <3>3, Zenon DEF Called
    <3> QED  BY <3>1, <3>2, <3>3, <3>4, <3>5, <1>HeardSame, ZenonT(40) DEF SilentStep, connVars, sockVars
  \* tp_callback() after the coroutine: start_io() enqueues c only for events
  \* that came after the packet of its command.
  <2>LeaveHeard.
    ASSUME TypeOK, TypeOK', Placed, Placed', UnboundSilent, NEW c \in Conn, cur[t] = c, Leave(t, c),
           StagedOn(t, c), Owes(c, At(t, c)), Heard(c, At(t, c))
    PROVE  (cur'[t] = c => Heard(c, At(t, c))') /\ (cur'[t] = NoConn => Heard(c, Rest(c))')
    <3> USE <2>LeaveHeard
    <3> USE DEF Goto, coroVars, sockVars, boundVars, connVars, queueVars
    <3>1. c # NoConn
      BY SchedAssumption, Zenon
    <3>2. ASSUME cur'[t] = c, pc'[t] \notin {"release", "yield", "enter", "recount", "requeue"}
          PROVE  ~tx_pending'[c] /\ ~Called(c)'
      BY <3>2, <1>CalledOnThread, Zenon
    <3>3. ASSUME pc[t] \in {"start_io", "recount", "requeue"}
          PROVE  /\ req_queue[c] = 0 /\ resume_queue[c] = 0 /\ sql_native_queue[c] = 0
                 /\ \A u \in Thread : batch[u][c] = 0
                 /\ \A u \in Thread : cur[u] = c => u = t
                 /\ ~tx_pending[c]
      BY <3>3, OnThread, Zenon
    <3>4. CASE SetIdle(t, c)
      <4>1. /\ SilentStep(c) /\ cur'[t] = c /\ pc[t] = "idle" /\ pc'[t] = "start_io"
            /\ bound'[c] = bound[c] /\ epoll_events'[c] = epoll_events[c] /\ events_snapshot'[c] = events_snapshot[c]
        <5>1. UNCHANGED << cur, polled, ready, unread, hup, bound, epoll_events, events_snapshot >>
          BY <3>4, Zenon DEF SetIdle
        <5>2. pc[t] = "idle" /\ pc'[t] = "start_io"
          BY <3>4, Zenon DEF SetIdle, TypeOK, ThreadTypes
        <5> QED  BY <5>1, <5>2, Zenon DEF SilentStep
      <4>2. At(t, c) = "idle" /\ At(t, c)' = "start_io"
        BY <4>1, Zenon DEF At
      <4>3. ~tx_pending'[c] /\ ~Called(c)'
        BY <3>2, <4>1, Zenon
      <4> QED  BY <3>1, <4>1, <4>2, <4>3, <1>HeardSame, Zenon DEF ReadLabels
    <3>5. CASE Bind(t, c)
      <4>1. CASE BeginClose(t, c, coro_ret[c])
        BY <3>1, <4>1, <1>BeginCloseHeard, Zenon
      <4>2. CASE ~BeginClose(t, c, coro_ret[c])
        <5>1. /\ pc[t] = "start_io" /\ ~bound[c] /\ cur' = cur /\ pc'[t] = "release"
              /\ \A u \in Thread \ {t} : pc'[u] = pc[u]
              /\ ready'[c] = (unread[c] > 0 \/ hup[c])
              /\ UNCHANGED << coro_status, tx_pending, req_queue, resume_queue, sql_native_queue, batch, polled, unread, hup >>
          BY <3>5, <4>2, Zenon DEF Bind, TypeOK, ThreadTypes, SockTypes
        <5>2. At(t, c)' = "release"
          BY <5>1, Zenon DEF At
        <5>3. ~tx_pending'[c] /\ ~Called(c)'
          <6>1. /\ req_queue[c] = 0 /\ resume_queue[c] = 0 /\ sql_native_queue[c] = 0
                /\ \A u \in Thread : batch[u][c] = 0
                /\ \A u \in Thread : cur[u] = c => u = t
                /\ ~tx_pending[c]
            BY <3>3, <5>1, Zenon
          <6>2. /\ ~(req_queue'[c] > 0) /\ ~(resume_queue'[c] > 0) /\ ~(sql_native_queue'[c] > 0)
                /\ \A u \in Thread : ~(batch'[u][c] > 0)
            BY <5>1, <6>1, ZeroOne, Positive, Zenon
          <6>3. \A u \in Thread : cur'[u] = c => pc'[u] = "release"
            BY <5>1, <6>1, Zenon
          <6> QED  BY <5>1, <6>1, <6>2, <6>3, Zenon DEF Called
        <5>4. \A u \in Thread : c \notin polled'[u]
          BY <5>1, Zenon DEF UnboundSilent
        <5>5. ~hup'[c] => OneEvent(c)' /\ (Coming(c)' => unread'[c] > 0)
          BY <5>1, <5>4, Zenon DEF OneEvent, Coming
        <5> QED  BY <3>1, <5>1, <5>2, <5>3, <5>5, ZenonT(40) DEF Heard, ReadLabels
      <4> QED  BY <4>1, <4>2, Zenon
    <3>6. CASE StartIO(t, c)
      <4>1. /\ SilentStep(c) /\ UNCHANGED << cur, state, coro_status, tx_pending, bound, ready, polled,
                                             req_queue, resume_queue, sql_native_queue, batch >>
            /\ pc[t] = "start_io" /\ bound[c] /\ \A u \in Thread \ {t} : pc'[u] = pc[u]
            /\ \/ pc'[t] = "release"
               \/ pc'[t] = "recount" /\ epoll_events[c] # events_snapshot[c]
        BY <3>6, Zenon DEF StartIO, SilentStep, TypeOK, ThreadTypes, SockTypes
      <4>2. /\ req_queue[c] = 0 /\ resume_queue[c] = 0 /\ sql_native_queue[c] = 0
            /\ \A u \in Thread : batch[u][c] = 0
            /\ \A u \in Thread : cur[u] = c => u = t
            /\ ~tx_pending[c]
        BY <3>3, <4>1, Zenon
      <4>3. At(t, c) = "start_io" /\ At(t, c)' = pc'[t]
        BY <4>1, Zenon DEF At
      <4>4. CASE pc'[t] = "release"
        <5>1. ~tx_pending'[c] /\ ~Called(c)'
          BY <4>1, <4>2, <4>4, ZeroOne, Positive, ZenonT(40) DEF Called
        <5> QED  BY <3>1, <4>1, <4>3, <4>4, <5>1, <1>HeardSame, ZenonT(40) DEF ReadLabels
      <4>5. CASE pc'[t] = "recount" /\ epoll_events[c] # events_snapshot[c]
        <5>1. watched[c]
          BY <4>1, Zenon DEF StagedOn
        <5>2. epoll_events[c] >= events_snapshot[c]
          BY <4>3, <5>1, Zenon DEF Owes
        <5>3. epoll_events[c] > events_snapshot[c]
          <6>1. epoll_events[c] \in Nat /\ events_snapshot[c] \in Nat
            BY Zenon DEF TypeOK, ConnTypes
          <6> QED  BY <4>5, <5>2, <6>1, Compared, ZenonT(40)
        <5>4. ~hup[c] => Expected(c)
          BY <4>1, <4>3, <5>3, Zenon DEF Heard, ReadLabels
        <5>5. /\ Coming(c)' <=> Coming(c)
              /\ OneEvent(c) => OneEvent(c)'
              /\ Expected(c) => Expected(c)'
          BY <4>1, Zenon DEF SilentStep, Coming, OneEvent, Expected
        <5> QED  BY <3>1, <4>1, <4>2, <4>3, <4>5, <5>4, <5>5, ZenonT(40) DEF Heard, ReadLabels, SilentStep
      <4> QED  BY <4>1, <4>4, <4>5, Zenon
    <3>7. CASE Recount(t, c) \/ Requeue(t, c)
      <4>1. /\ SilentStep(c) /\ UNCHANGED << cur, coro_status, tx_pending >>
            /\ pc[t] \in {"recount", "requeue"} /\ pc'[t] \in {"requeue", "release"}
        BY <3>7, Zenon DEF Recount, Requeue, SilentStep, TypeOK, ThreadTypes, SockTypes
      <4>2. At(t, c)' \in {"requeue", "release"}
        BY <4>1, Zenon DEF At
      <4>3. Called(c) /\ ~tx_pending[c]
        BY <3>3, <4>1, Zenon DEF Called, StagedOn
      <4> QED  BY <3>1, <4>1, <4>2, <4>3, <1>HeardSame, ZenonT(40) DEF ReadLabels
    <3>8. CASE Release(t, c)
      <4>1. /\ SilentStep(c) /\ cur'[t] = NoConn /\ pc[t] \in {"release", "yield"}
            /\ UNCHANGED << state, coro_status, at, tx_pending, req_queue, resume_queue, sql_native_queue, batch >>
            /\ bound'[c] = bound[c] /\ epoll_events'[c] = epoll_events[c] /\ events_snapshot'[c] = events_snapshot[c]
            /\ \A u \in Thread \ {t} : pc'[u] = pc[u] /\ cur'[u] = cur[u]
        <5>1. UNCHANGED << state, coro_status, at, tx_pending, req_queue, resume_queue, sql_native_queue, batch, polled,
                           ready, unread, hup, bound, epoll_events, events_snapshot >>
          BY <3>8, Zenon DEF Release
        <5>2. /\ pc[t] \in {"release", "yield"} /\ cur'[t] = NoConn
              /\ \A u \in Thread \ {t} : pc'[u] = pc[u] /\ cur'[u] = cur[u]
          BY <3>8, Zenon DEF Release, TypeOK, ThreadTypes
        <5> QED  BY <5>1, <5>2, Zenon DEF SilentStep
      <4>2. Called(c)' => Called(c)
        BY <3>1, <4>1, Zenon DEF Called
      <4>3. tx_pending'[c] => coro_status'[c] = "ongoing"
        BY <4>1, Zenon DEF Heard
      <4>4. CASE pc[t] = "yield"
        <5>1. coro_status[c] = "ongoing"
          BY <4>4, Zenon DEF StagedOn
        <5>2. Rest(c)' = At(t, c)
          BY <4>1, <4>4, <5>1, Zenon DEF Rest, At
        <5> QED  BY <3>1, <4>1, <4>2, <4>3, <5>2, <1>HeardSame, ZenonT(40)
      <4>5. CASE pc[t] = "release"
        <5>1. coro_status[c] = "empty"
          BY <4>5, Zenon DEF StagedOn
        <5>2. Rest(c)' = "enter"
          BY <4>1, <5>1, Zenon DEF Rest
        <5> QED  BY <3>1, <4>1, <4>2, <4>3, <5>2, <1>HeardSame, ZenonT(40) DEF ReadLabels
      <4> QED  BY <4>1, <4>4, <4>5, Zenon
    <3> QED  BY <3>4, <3>5, <3>6, <3>7, <3>8, ZenonT(40) DEF Leave
  \* A turn of a thread moves another connection at most from its batch to a
  \* queue: it is called as before.
  <2>TurnCalls.
    ASSUME TypeOK, NEW c \in Conn, Turn(t, c), SameConn(d), SameHeld(d),
           sql_native_queue'[d] = sql_native_queue[d], GivesBack(t, d), Called(d)'
    PROVE  Called(d)
    <3> USE <2>TurnCalls
    <3>1. state[d] = "idle" /\ coro_status[d] = "empty"
      BY Zenon DEF Called, SameConn
    <3>2. req_queue[d] \in Nat /\ resume_queue[d] \in Nat /\ batch[t][d] \in Nat
      BY Zenon DEF TypeOK, QueueTypes, ThreadTypes
    <3>3. CASE req_queue'[d] > 0 \/ resume_queue'[d] > 0 \/ sql_native_queue'[d] > 0
      <4>1. req_queue[d] > 0 \/ resume_queue[d] > 0 \/ sql_native_queue[d] > 0 \/ batch[t][d] > 0
        BY <3>2, <3>3 DEF GivesBack
      <4> QED  BY <3>1, <4>1, ZenonT(40) DEF Called
    <3>4. ASSUME NEW u \in Thread, batch'[u][d] > 0  PROVE Called(d)
      <4>1. batch[u][d] > 0
        <5>1. CASE u = t
          BY <3>2, <3>4, <5>1, ZeroOne, Positive, Zenon DEF GivesBack
        <5>2. CASE u # t
          BY <3>4, <5>2, Zenon DEF Turn
        <5> QED  BY <5>1, <5>2, Zenon
      <4> QED  BY <3>1, <4>1, Zenon DEF Called
    <3>5. ASSUME NEW u \in Thread, cur'[u] = d, pc'[u] \in {"enter", "recount", "requeue"}  PROVE Called(d)
      BY <3>1, <3>5, Zenon DEF Called, SameHeld
    <3> QED  BY <3>3, <3>4, <3>5, Zenon DEF Called
  <2>1. PICK c \in Conn : cur[t] = c /\ (Enter(t, c) \/ Execute(t, c) \/ Yield(t, c) \/ Leave(t, c))
    BY Zenon DEF Process
  <2>2. /\ TypeOK /\ Placed /\ Running(c) /\ OneThreadPerConnection /\ UnboundSilent /\ TypeOK'
        /\ OneThreadPerConnection' /\ Placed' /\ Staged(c) /\ ClientWaits(c) /\ Watching(c) /\ Announced(c)
    BY Zenon DEF HeardInv, StageInv, OwesInv, LoopInv, IInv, Bookkeeping, Placed
  <2>3. Turn(t, c) /\ \A e \in Conn \ {c} : SameConn(e) /\ SameEvents(e)
    BY <2>1, <2>2, EnterOthers, ExecuteOthers, YieldOthers, LeaveOthers, ZenonT(40)
  <2>4. CASE d = c
    <3>1. Owes(c, At(t, c)) /\ StagedOn(t, c) /\ Heard(c, At(t, c))
      BY <2>1, <2>2, OwesForms, StagedForms, HeardForms, Zenon
    <3>2. (cur'[t] = c => Heard(c, At(t, c))') /\ (cur'[t] = NoConn => Heard(c, Rest(c))')
      BY <2>1, <2>2, <3>1, <2>EnterHeard, <2>ExecuteHeard, <2>YieldHeard, <2>LeaveHeard, SchedAssumption,
         ZenonT(40)
    <3>3. CASE cur'[t] = c
      BY <2>2, <2>4, <3>2, <3>3, HeardFormsNext, Zenon
    <3>4. CASE cur'[t] = NoConn
      <4>1. \A u \in Thread : cur'[u] # c
        BY <2>1, <2>2, <2>3, <3>4, OnlyHere, SchedAssumption, ZenonT(40)
      <4> QED  BY <2>2, <2>4, <3>2, <3>4, <4>1, HeardFormsNext, ZenonT(40)
    <3> QED  BY <2>3, <3>3, <3>4, Zenon DEF Turn
  <2>5. CASE d # c
    <3>1. SameConn(d) /\ SameEvents(d) /\ SameHeld(d)
      BY <2>1, <2>3, <2>5, TurnHeld, Zenon
    <3>2. SameStage(d) /\ SilentStep(d)
      BY <3>1, Zenon DEF SameConn, SameEvents, SameStage, SilentStep
    <3>3. GivesBack(t, d) /\ sql_native_queue'[d] = sql_native_queue[d] /\ tx_pending'[d] = tx_pending[d]
      <4>1. CASE WaitBegin(t, c)
        BY <2>2, <4>1, WaitBeginGivesBack, Zenon
      <4>2. CASE ~WaitBegin(t, c)
        <5>1. SamePlaces(d)
          BY <2>1, <2>2, <2>5, <4>2, EnterOthers, ExecuteOthers, YieldOthers, LeaveOthers, ZenonT(40)
        <5> QED  BY <5>1, Zenon DEF GivesBack, SamePlaces
      <4> QED  BY <4>1, <4>2, Zenon
    <3>4. Called(d)' => Called(d)
      BY <2>2, <2>3, <3>1, <3>3, <2>TurnCalls, Zenon
    <3> QED  BY <2>2, <3>1, <3>2, <3>3, <3>4, <1>HeardKept, ZenonT(40) DEF SameConn
  <2> QED  BY <2>4, <2>5, Zenon
\* The labels that Announced tells apart.
<1>AnnouncedStages.
  ASSUME NEW d \in Conn, SameStage(d)
  PROVE  /\ In(d, "read")' <=> In(d, "read")
         /\ In(d, "exec")' <=> In(d, "exec")
         /\ In(d, "replied")' <=> In(d, "replied")
         /\ In(d, "idle")' <=> In(d, "idle")
         /\ In(d, "start_io")' <=> In(d, "start_io")
  <2> USE <1>AnnouncedStages
  <2>1. \A l \in Labels : In(d, l)' <=> In(d, l)
    BY SameStageStays, Zenon
  <2> QED  BY <2>1, Zenon DEF Labels
\* A thread that takes, skips or picks connections, or applies events: an
\* event that is applied was the only one under way.
<1>DispatchHeard.
  ASSUME HeardInv, IInv', NEW t \in Thread, Dispatch(t), NEW d \in Conn
  PROVE  Announced(d)'
  <2> USE <1>DispatchHeard
  \* A thread that takes or skips a connection, or picks another one, calls no
  \* connection that was not called.
  <2>DispatchCalls.
    ASSUME TypeOK, TypeOK', ThreadsInLoop, Dispatch(t), Dispatched(t), ~(\E c \in Conn : ApplyEvent(t, c)), SameHeld(d) \/ Pick(t, d), Called(d)'
    PROVE  Called(d)
    <3> USE <2>DispatchCalls
    <3>1. /\ state[d] = "idle" /\ coro_status[d] = "empty"
          /\ \A u \in Thread \ {t} : batch'[u] = batch[u]
      BY Zenon DEF Called, Dispatched, coroVars
    <3>2. /\ req_queue[d] \in Nat /\ resume_queue[d] \in Nat /\ sql_native_queue[d] \in Nat /\ batch[t][d] \in Nat
      BY Zenon DEF TypeOK, QueueTypes, ThreadTypes
    <3>3. ASSUME req_queue'[d] > 0 \/ resume_queue'[d] > 0 \/ sql_native_queue'[d] > 0 \/ batch'[t][d] > 0
                 => req_queue[d] > 0 \/ resume_queue[d] > 0 \/ sql_native_queue[d] > 0 \/ batch[t][d] > 0,
                 SameHeld(d)
          PROVE  Called(d)
      BY <3>1, <3>3, Zenon DEF Called, SameHeld
    <3> USE DEF Goto
    <3>4. CASE GetNative(t)
      <4>1. PICK e \in Conn : /\ sql_native_queue' = [sql_native_queue EXCEPT ![e] = @ - 1] /\ sql_native_queue[e] > 0
                              /\ batch' = [batch EXCEPT ![t] = [Empty EXCEPT ![e] = 1]]
        BY <3>4, Zenon DEF GetNative, TakeFrom
      <4>2. /\ d # e => sql_native_queue'[d] = sql_native_queue[d] /\ batch'[t][d] = 0
            /\ UNCHANGED << req_queue, resume_queue, cur >>
        BY <3>4, <4>1, Zenon DEF GetNative, TakeFrom, Empty, TypeOK, QueueTypes, ThreadTypes
      <4>3. SameHeld(d)
        BY <3>4, Zenon DEF Pick, GetNative
      <4>4. d = e => sql_native_queue[d] > 0
        BY <4>1, Zenon
      <4> QED  BY <3>2, <3>3, <4>2, <4>3, <4>4, ZeroOne, Positive, ZenonT(40)
    <3>5. CASE GetResumed(t)
      <4>1. /\ batch'[t] = resume_queue /\ resume_queue'[d] = 0 /\ UNCHANGED << req_queue, sql_native_queue >>
            /\ SameHeld(d)
        BY <3>5, Zenon DEF GetResumed, TakeAll, Empty, Pick, TypeOK, QueueTypes, ThreadTypes
      <4> QED  BY <3>2, <3>3, <4>1, ZeroOne, Positive, ZenonT(40)
    <3>6. CASE GetRequests(t)
      <4>1. /\ batch'[t] = req_queue /\ req_queue'[d] = 0 /\ UNCHANGED << resume_queue, sql_native_queue >>
            /\ SameHeld(d)
        BY <3>6, Zenon DEF GetRequests, TakeAll, Empty, Pick, TypeOK, QueueTypes, ThreadTypes
      <4> QED  BY <3>2, <3>3, <4>1, ZeroOne, Positive, ZenonT(40)
    <3>7. CASE GetNothing(t) \/ EndOfBatch(t) \/ Poll(t)
      <4>1. /\ UNCHANGED << req_queue, resume_queue, sql_native_queue, batch, cur >> /\ cur[t] = NoConn
        BY <3>7, Zenon DEF GetNothing, EndOfBatch, Poll, queueVars, Dispatched
      <4>2. SameHeld(d)
        BY <4>1, SchedAssumption, Zenon DEF Dispatched, SameHeld
      <4> QED  BY <3>3, <4>1, <4>2, Zenon
    <3>8. ASSUME NEW e \in Conn, Skip(t, e)  PROVE Called(d)
      <4>1. UNCHANGED << req_queue, cur, pc >> /\ batch[t][e] > 0
        BY <3>8, Zenon DEF Skip
      <4>2. d # e => /\ resume_queue'[d] = resume_queue[d] /\ sql_native_queue'[d] = sql_native_queue[d]
                     /\ batch'[t][d] = batch[t][d]
        BY <3>8, ZenonT(40) DEF Skip, Add, TypeOK, QueueTypes, ThreadTypes
      <4>3. SameHeld(d)
        BY <4>1, Zenon DEF SameHeld
      <4> QED  BY <3>3, <4>1, <4>2, <4>3, Zenon
    <3>9. ASSUME NEW e \in Conn, Pick(t, e)  PROVE Called(d)
      <4>1. /\ UNCHANGED << req_queue, resume_queue, sql_native_queue >> /\ batch[t][e] > 0 /\ cur'[t] = e
            /\ d # e => batch'[t][d] = batch[t][d]
        BY <3>9, ZenonT(40) DEF Pick, queueVars, TypeOK, ThreadTypes
      <4>2. CASE d = e
        BY <3>1, <4>1, <4>2, Zenon DEF Called
      <4>3. CASE d # e
        <5>1. ~Pick(t, d)
          <6>1. Pick(t, d) => cur'[t] = d
            BY Zenon DEF Pick, TypeOK, ThreadTypes
          <6> QED  BY <4>1, <4>3, <6>1, Zenon
        <5> QED  BY <3>3, <4>1, <4>3, <5>1, Zenon
      <4> QED  BY <4>2, <4>3, Zenon
    <3> QED  BY <3>4, <3>5, <3>6, <3>7, <3>8, <3>9, ZenonT(40) DEF Dispatch
  <2>1. /\ TypeOK /\ Placed /\ ThreadsInLoop /\ OneThreadPerConnection /\ TypeOK' /\ OneThreadPerConnection'
        /\ Announced(d)
    BY Zenon DEF HeardInv, StageInv, LoopInv, IInv, Bookkeeping, Placed
  <2>2. Dispatched(t)
    BY <2>1, DispatchSteps, Zenon
  <2>3. /\ UNCHANGED << state, bound, events_snapshot, coro_status, at, in_error, need_sql_thd, tx_pending, unread, hup >>
        /\ \A u \in Thread \ {t} : pc'[u] = pc[u] /\ cur'[u] = cur[u]
    BY <2>2, Zenon DEF Dispatched, coroVars
  <2>4. SameHeld(d) \/ (Pick(t, d) /\ cur'[t] = d /\ pc'[t] = "enter" /\ \A u \in Thread : cur[u] # d)
    BY <2>1, DispatchHolds, Zenon
  <2>5. ASSUME SameHeld(d)  PROVE SameStage(d)
    BY <2>3, <2>5, Zenon DEF SameStage
  <2>6. CASE Poll(t)
    <3>1. /\ polled' = [polled EXCEPT ![t] = {c \in Conn : ready[c]}] /\ ready' = [c \in Conn |-> FALSE]
          /\ polled[t] = {} /\ UNCHANGED << epoll_events, cur >> /\ ~Pick(t, d)
      BY <2>1, <2>6, Zenon DEF Poll, ThreadsInLoop, connVars, Pick
    <3>2. /\ d \in polled'[t] <=> ready[d]
          /\ \A u \in Thread \ {t} : polled'[u] = polled[u]
          /\ ~ready'[d]
      BY <2>1, <3>1, Zenon DEF TypeOK, ThreadTypes
    <3>3. /\ Coming(d)' <=> Coming(d)
          /\ OneEvent(d) => OneEvent(d)'
          /\ Expected(d)' <=> Expected(d)
      <4>1. Coming(d)' <=> Coming(d)
        BY <2>3, <3>1, <3>2, Zenon DEF Coming
      <4>2. OneEvent(d) => OneEvent(d)'
        <5>1. ASSUME NEW v \in Thread, d \in polled'[v]
              PROVE  (v # t /\ d \in polled[v]) \/ (v = t /\ ready[d])
          BY <3>2, <5>1, Zenon
        <5> QED  BY <3>2, <5>1, Zenon DEF OneEvent
      <4>3. Expected(d)' <=> Expected(d)
        BY <2>3, <4>1, Zenon DEF Expected
      <4> QED  BY <4>1, <4>2, <4>3, Zenon
    <3>4. Called(d)' => Called(d)
      <4>1. ~(\E c \in Conn : ApplyEvent(t, c))
        BY <2>6, Zenon DEF Poll, ApplyEvent
      <4> QED  BY <2>1, <2>2, <2>4, <4>1, <2>DispatchCalls, Zenon
    <3>5. /\ In(d, "read")' <=> In(d, "read")
          /\ In(d, "exec")' <=> In(d, "exec")
          /\ In(d, "replied")' <=> In(d, "replied")
          /\ In(d, "idle")' <=> In(d, "idle")
          /\ In(d, "start_io")' <=> In(d, "start_io")
      BY <2>4, <2>5, <3>1, <1>AnnouncedStages, Zenon
    <3> QED  BY <2>1, <2>3, <3>1, <3>3, <3>4, <3>5, ZenonT(40) DEF Announced
  <2>7. ASSUME NEW c \in Conn, ApplyEvent(t, c)  PROVE Announced(d)'
    <3>1. /\ polled' = [polled EXCEPT ![t] = @ \ {c}] /\ c \in polled[t] /\ UNCHANGED << ready, cur >>
          /\ UNCHANGED << resume_queue, sql_native_queue, batch >> /\ ~Pick(t, d)
      BY <2>7, Zenon DEF ApplyEvent, sockVars, Pick
    <3>2. SameStage(d)
      BY <2>4, <2>5, <3>1, Zenon
    <3>3. CASE d # c
      <4>1. epoll_events'[d] = epoll_events[d] /\ req_queue'[d] = req_queue[d]
        BY <2>1, <2>7, <3>3, ZenonT(40) DEF ApplyEvent, Add, TypeOK, ConnTypes, QueueTypes
      <4>2. SilentStep(d)
        BY <2>1, <2>3, <3>1, <3>3, ZenonT(40) DEF SilentStep, TypeOK, ConnTypes, CoroTypes, QueueTypes,
           ThreadTypes, SockTypes, ClientTypes, BoundTypes
      <4>3. Called(d)' => Called(d)
        BY <2>3, <3>1, <3>2, <4>1, Zenon DEF Called, SameStage, SameHeld
      <4> QED  BY <2>1, <2>3, <3>2, <4>1, <4>2, <4>3, <1>HeardKept, ZenonT(40)
    <3>4. CASE d = c
      <4>1. Coming(d) /\ \A u \in Thread : u # t => polled'[u] = polled[u]
        BY <2>1, <3>1, <3>4, Zenon DEF Coming, TypeOK, ThreadTypes
      <4>2. ~(d \in polled'[t])
        BY <2>1, <3>1, <3>4, Zenon DEF TypeOK, ThreadTypes
      <4>3. ~hup[d] => OneEvent(d) /\ unread[d] > 0
        BY <2>1, <4>1, Zenon DEF Announced
      <4>4. OneEvent(d) => ~Coming(d)' /\ OneEvent(d)'
        BY <3>1, <3>4, <4>1, <4>2, Zenon DEF OneEvent, Coming
      <4>5. ~hup'[d] => OneEvent(d)' /\ Expected(d)'
        BY <2>3, <4>3, <4>4, Zenon DEF Expected
      <4>6. tx_pending'[d] => coro_status'[d] = "ongoing"
        BY <2>1, <2>3, Zenon DEF Announced
      <4> QED  BY <4>5, <4>6, Zenon DEF Announced, Expected
    <3> QED  BY <3>3, <3>4, Zenon
  <2>8. CASE ~Poll(t) /\ ~(\E c \in Conn : ApplyEvent(t, c))
    <3>1. UNCHANGED << epoll_events, ready, polled >>
      BY <2>8, Zenon DEF Dispatch, GetNative, GetResumed, GetRequests, GetNothing, TakeFrom, TakeAll, Skip, Pick,
         EndOfBatch, connVars, sockVars
    <3>2. Called(d)' => Called(d)
      BY <2>1, <2>2, <2>4, <2>8, <2>DispatchCalls, Zenon
    <3>3. SilentStep(d)
      BY <2>3, <3>1, Zenon DEF SilentStep
    <3>4. CASE SameHeld(d)
      BY <2>1, <2>3, <2>5, <3>1, <3>2, <3>3, <3>4, <1>HeardKept, ZenonT(40)
    <3>5. CASE Pick(t, d) /\ cur'[t] = d /\ pc'[t] = "enter" /\ \A u \in Thread : cur[u] # d
      <4>1. Heard(d, Rest(d))
        BY <2>1, <3>5, HeardForms, Zenon
      <4>2. At(t, d)' = Rest(d)
        BY <2>3, <3>5, Zenon DEF At, Rest
      <4>3. tx_pending'[d] => coro_status'[d] = "ongoing"
        BY <2>1, <2>3, Zenon DEF Announced
      <4>4. Heard(d, At(t, d))'
        BY <2>3, <3>1, <3>2, <3>3, <4>1, <4>2, <4>3, <1>HeardSame, ZenonT(40)
      <4> QED  BY <2>1, <3>5, <4>4, HeardFormsNext, Zenon
    <3> QED  BY <2>4, <3>4, <3>5, Zenon
  <2> QED  BY <2>6, <2>7, <2>8, Zenon
\* Clients, KILL, the timer and the transaction service: a packet comes only
\* when no other one is on the way.
<1>EnvironmentHeard.
  ASSUME MaxOutstanding <= 1, MaxTimeouts = 0, HeardInv, IInv', NEW c \in Conn, Environment(c) \/ Resume(c),
         NEW d \in Conn
  PROVE  Announced(d)'
  <2> USE <1>EnvironmentHeard
  <2>1. /\ TypeOK /\ Bookkeeping /\ OneThreadPerConnection /\ HeldIsAlive /\ TypeOK' /\ OneThreadPerConnection'
        /\ Announced(d) /\ Staged(c) /\ ClientWaits(c) /\ Watching(c)
    BY Zenon DEF HeardInv, StageInv, OwesInv, LoopInv, IInv, Bookkeeping, Placed
  <2>2. /\ UNCHANGED << pc, cur, batch, polled, coro_status, at, bound >> /\ SameStage(d)
        /\ d # c => SameConn(d) /\ SameEvents(d) /\ SamePlaces(d)
    BY <2>1, EnvironmentSteps, Zenon
  <2>3. CASE d # c
    <3>1. SilentStep(d)
      BY <2>2, <2>3, Zenon DEF SameConn, SameEvents, SilentStep
    <3>2. Called(d)' => Called(d)
      BY <2>2, <2>3, Zenon DEF Called, SamePlaces, SameConn
    <3> QED  BY <2>1, <2>2, <2>3, <3>1, <3>2, <1>HeardKept, Zenon DEF SameConn, SamePlaces
  <2>4. CASE d = c
    <3> USE DEF connVars, coroVars, queueVars, threadVars, sockVars, clientVars, boundVars
    <3>1. /\ In(c, "read")' <=> In(c, "read")
          /\ In(c, "exec")' <=> In(c, "exec")
          /\ In(c, "replied")' <=> In(c, "replied")
          /\ In(c, "idle")' <=> In(c, "idle")
          /\ In(c, "start_io")' <=> In(c, "start_io")
      BY <2>2, <2>4, <1>AnnouncedStages, Zenon
    <3>2. CASE AddConnection(c)
      <4>1. /\ state[c] = "none" /\ state'[c] = "new" /\ UNCHANGED << unread, hup, ready, tx_pending >>
        BY <2>1, <3>2, Zenon DEF AddConnection, TypeOK, ConnTypes
      <4>2. \A u \in Thread : cur[u] # c /\ cur'[u] # c
        BY <2>1, <2>2, <4>1, SchedAssumption, Zenon DEF HeldIsAlive, Alive
      <4>3. coro_status[c] = "empty"
        BY <2>1, <4>1, Zenon DEF Watching
      <4>4. Rest(c) = "enter" /\ Rest(c)' = "enter" /\ ~Called(c)'
        BY <2>2, <4>1, <4>3, Zenon DEF Rest, Called
      <4>5. Heard(c, "enter")
        BY <2>1, <2>4, <4>2, <4>4, HeardForms, ZenonT(40)
      <4>6. SilentStep(c)
        BY <2>2, <4>1, Zenon DEF SilentStep
      <4>7. tx_pending'[c] => coro_status'[c] = "ongoing"
        BY <2>1, <2>2, <2>4, <4>1, Zenon DEF Announced
      <4>8. Heard(c, Rest(c))'
        BY <4>4, <4>5, <4>6, <4>7, <1>HeardSame, ZenonT(40) DEF ReadLabels
      <4> QED  BY <2>1, <2>4, <4>2, <4>8, HeardFormsNext, ZenonT(40)
    <3>3. CASE ClientSend(c)
      <4>1. /\ sent[c] - replied[c] < MaxOutstanding /\ unread'[c] = unread[c] + 1 /\ ~hup[c] /\ hup' = hup
            /\ UNCHANGED << state, epoll_events, events_snapshot, tx_pending, req_queue, resume_queue, sql_native_queue >>
        BY <2>1, <3>3, Zenon DEF ClientSend, TypeOK, SockTypes
      <4>2. unread[c] = 0
        <5>1. sent[c] \in Nat /\ replied[c] \in Nat /\ unread[c] \in Nat /\ MaxOutstanding \in Nat
          BY <2>1, SchedAssumption, Zenon DEF TypeOK, SockTypes, ClientTypes
        <5>2. unread[c] <= sent[c] - replied[c]
          BY <2>1, Zenon DEF ClientWaits
        <5> QED  BY <4>1, <5>1, <5>2, NothingOwed, Zenon
      <4>3. unread'[c] > 0 /\ ~(unread[c] > 0)
        <5>1. unread'[c] = unread[c] + 1
          BY <4>1, Zenon
        <5> QED  BY <4>2, <5>1, ZeroOne, Positive, Zenon
      <4>4. ~Expected(c) /\ ~Coming(c) /\ OneEvent(c)
        BY <2>1, <2>4, <4>1, <4>3, Zenon DEF Announced, Expected
      <4>5. OneEvent(c)'
        BY <2>2, <4>4, Zenon DEF Coming, OneEvent
      <4>6. Called(c)' => Called(c)
        BY <2>2, <4>1, Zenon DEF Called
      <4> QED  BY <2>1, <2>2, <2>4, <3>1, <4>1, <4>3, <4>4, <4>5, <4>6, ZenonT(40) DEF Announced
    <3>4. CASE ClientClose(c) \/ Kill(c)
      <4>1. hup'[c] /\ UNCHANGED tx_pending
        BY <2>1, <3>4, Zenon DEF ClientClose, Kill, TypeOK, SockTypes
      <4> QED  BY <2>1, <2>2, <2>4, <4>1, Zenon DEF Announced
    <3>5. ~TimeoutCheck(c)
      <4>1. timeouts[c] \in Nat
        BY <2>1, Zenon DEF TypeOK, BoundTypes
      <4>2. ~(timeouts[c] < MaxTimeouts)
        BY <4>1
      <4> QED  BY <4>2, Zenon DEF TimeoutCheck
    <3>6. ~TimeoutPending(c) /\ ~TimeoutKill(c)
      <4>1. timer[c] = "none"
        BY <2>1, Zenon DEF Staged
      <4> QED  BY <4>1, Zenon DEF TimeoutPending, TimeoutKill
    <3>7. CASE Resume(c)
      <4>1. /\ tx_pending[c] /\ ~tx_pending'[c]
            /\ UNCHANGED << unread, hup, ready, epoll_events, events_snapshot >>
        <5>1. tx_pending' = [tx_pending EXCEPT ![c] = FALSE] /\ tx_pending[c]
          BY <3>7, Zenon DEF Resume
        <5>2. UNCHANGED << unread, hup, ready, epoll_events, events_snapshot >>
          BY <3>7, Zenon DEF Resume
        <5>3. tx_pending \in [Conn -> BOOLEAN]
          BY <2>1, Zenon DEF TypeOK, CoroTypes
        <5> QED  BY <5>1, <5>2, <5>3, Zenon
      <4>2. ~Called(c)'
        BY <2>1, <2>2, <2>4, <4>1, Zenon DEF Announced, Called
      <4>3. /\ Coming(c)' <=> Coming(c)
            /\ OneEvent(c)' <=> OneEvent(c)
            /\ Expected(c)' <=> Expected(c)
        BY <2>2, <4>1, Zenon DEF Coming, OneEvent, Expected
      <4> QED  BY <2>1, <2>2, <2>4, <3>1, <4>1, <4>2, <4>3, ZenonT(40) DEF Announced
    <3> QED  BY <3>2, <3>3, <3>4, <3>5, <3>6, <3>7, ZenonT(40) DEF Environment
  <2> QED  BY <2>3, <2>4, Zenon
<1> SUFFICES ASSUME MaxOutstanding <= 1, MaxTimeouts = 0, HeardInv, [Next]_vars  PROVE HeardInv'
  BY Zenon
<1>1. StageInv' /\ OwesInv' /\ IInv' /\ TypeOK' /\ OneThreadPerConnection'
  <2>1. StageInv' /\ OwesInv'
    BY NextStages, NextOwes, Zenon DEF HeardInv
  <2> QED  BY <2>1, Zenon DEF StageInv, LoopInv, IInv, Bookkeeping, Placed
<1>2. CASE UNCHANGED vars
  <2>1. UNCHANGED << state, bound, epoll_events, events_snapshot, coro_status, at, in_error, need_sql_thd, tx_pending,
                     req_queue, resume_queue, sql_native_queue, pc, cur, batch, polled, unread, hup, ready >>
    BY <1>2, Zenon DEF vars, connVars, coroVars, queueVars, threadVars, sockVars
  <2>2. ASSUME NEW c \in Conn  PROVE Announced(c)'
    <3>1. SameStage(c) /\ SilentStep(c) /\ (Called(c)' => Called(c))
      BY <2>1, Zenon DEF SameStage, SameHeld, SilentStep, Called
    <3> QED  BY <1>1, <2>1, <3>1, <1>HeardKept, Zenon
  <2> QED  BY <1>1, <2>2, Zenon DEF HeardInv
<1>3. CASE Next
  <2>1. ASSUME NEW c \in Conn  PROVE Announced(c)'
    BY <1>1, <1>3, <1>ProcessHeard, <1>DispatchHeard, <1>EnvironmentHeard, Zenon DEF Next
  <2> QED  BY <1>1, <2>1, Zenon DEF HeardInv
<1> QED  BY <1>2, <1>3, Zenon

\* For clients that wait for the reply before they send the next packet, and
\* connections that do not time out, and for any number of connections and
\* threads: a command coroutine is started only for a packet or an end of
\* file that is in the socket, so do_command() never blocks its pool thread.
THEOREM ReadsFindData == MaxOutstanding <= 1 /\ MaxTimeouts = 0 /\ Spec => []ReadNeverBlocks
<1> SUFFICES ASSUME MaxOutstanding <= 1, MaxTimeouts = 0  PROVE Spec => []ReadNeverBlocks
  BY Zenon
<1>1. HeardInv /\ [Next]_vars => HeardInv'
  BY NextHeard, Zenon
<1>2. HeardInv => ReadNeverBlocks
  <2> SUFFICES ASSUME HeardInv, NEW t \in Thread, pc[t] = "read"  PROVE unread[cur[t]] > 0 \/ hup[cur[t]]
    BY Zenon DEF ReadNeverBlocks
  <2>1. cur[t] \in Conn
    BY Zenon DEF HeardInv, StageInv, LoopInv, IInv, Bookkeeping, TypeOK, ThreadsInLoop, Free, ThreadTypes
  <2>2. In(cur[t], "read") /\ Announced(cur[t])
    BY <2>1, Zenon DEF HeardInv, In, Holds
  <2> QED  BY <2>2, Zenon DEF Announced, Expected
<1> QED  BY <1>1, <1>2, InitHeard, PTL DEF Spec
=============================================================================
