------------------------- MODULE ThreadGroup_proofs -------------------------
(***************************************************************************)
(* Proofs about ThreadGroup, for any number of SQL threads and connections *)
(* and any thread limit: the types, what coro_cnt counts, the counter of   *)
(* active threads, and who is up while a resumed command waits             *)
(* (sql/threadpool_generic.cc, sql/threadpool_common.cc).                  *)
(***************************************************************************)
EXTENDS ThreadGroup, FiniteSetTheorems, TLAPS

-----------------------------------------------------------------------------
(* The inductive invariant.                                                *)

\* Labels at which a worker runs a command, or waits inside one.
InCommand == {"run", "wait", "blocking", "look", "relay", "enqueue"}

Running == {w \in Worker : pc[w] \in InCommand}

\* How many commands of a batch had started and yielded before.
Started(b) == IF b.started THEN b.n ELSE 0

\* Those commands of all batches, one pair for each.
AllStarted(bs) == {x \in Worker \X Nat : x[2] \in 1 .. Started(bs[x[1]])}

\* A worker that neither runs its batch nor passes a command on has none left.
NoBatchLeft == \A w \in Worker : pc[w] \notin {"batch", "run", "enqueue"} => batch[w].n = 0

\* ext_worker_active_ is set from ExtThdStart() to ExtThdEnd().
ExtActive == ext_worker_active <=> pc[Ext] \in {"process", "batch", "run", "enqueue", "again", "end"}

\* coro_cnt_ counts the commands that have started and not finished, wherever
\* they are: yielded, in one of two queues, on a worker, or in a batch.
CoroutinesCounted ==
  /\ IsFiniteSet(AllStarted(batch))
  /\ coro_cnt = tx + resume_queue + sql_native_queue + Cardinality(Running)
                + Cardinality(AllStarted(batch))

\* While a resumed command waits, in the queue or in a batch, the external
\* worker is up, notified, or about to be notified.
ResumedIsSeen ==
  resume_queue > 0 \/ Cardinality(AllStarted(batch)) > 0 =>
    pc[Ext] # "asleep" \/ notified \/ pc[Tx] = "check"

Counted == {t \in SqlThread : pc[t] \notin Uncounted}

\* No running thread is missed, and only an idle timeout leaves one too many
\* in the counter; without hand-overs not even that.
CountBounded ==
  /\ Cardinality(Counted) <= active_thread_count
  /\ active_thread_count <= Cardinality(Counted) + timeouts
  /\ timeouts <= MaxIdleTimeouts
  /\ MaxHandovers = 0 => active_thread_count = Cardinality(Counted)
  /\ MaxHandovers = 0 => sql_native_queue = 0 /\ pc[Ext] # "enqueue"

-----------------------------------------------------------------------------
(* Sets that steps change by one element, and batches.                     *)

\* There are finitely many workers, so the two sets are finite.
LEMMA WorkersFinite ==
  /\ IsFiniteSet(Worker) /\ IsFiniteSet(Running) /\ IsFiniteSet(Counted)
  /\ Cardinality(Running) \in Nat /\ Cardinality(Counted) \in Nat
<1>1. IsFiniteSet(Worker)
  BY GroupAssumption, FS_AddElement, Zenon DEF Worker
<1>2. Running \in SUBSET Worker /\ Counted \in SUBSET SqlThread
  BY Zenon DEF Running, Counted
<1> QED
  BY <1>1, <1>2, GroupAssumption, FS_Subset, FS_CardinalityType, Zenon

\* The same after a step.
LEMMA WorkersFiniteNext ==
  (/\ IsFiniteSet(Worker) /\ IsFiniteSet(Running) /\ IsFiniteSet(Counted)
   /\ Cardinality(Running) \in Nat /\ Cardinality(Counted) \in Nat)'
BY WorkersFinite, PTL

\* The actors are different threads.
LEMMA ActorsDiffer ==
  /\ Ext \in Worker /\ Ext \notin SqlThread /\ Tx \notin Worker /\ Acceptor \notin Worker /\ Timer \notin Worker
  /\ Worker \subseteq Actor /\ Tx \in Actor /\ Acceptor \in Actor /\ Timer \in Actor
  /\ SqlThread \subseteq Worker /\ Ext # Tx /\ Acceptor # Tx /\ Timer # Tx /\ Ext \in Actor
  /\ Nobody \notin Worker
BY GroupAssumption, Zenon DEF Worker, Actor

\* Actor a goes on at l; wake_or_create_thread() may have created another one.
Moves(a, l) ==
  /\ pc'[a] = l
  /\ \A b \in Actor \ {a} :
       pc'[b] = pc[b] \/ (b \in SqlThread /\ pc[b] = "none" /\ pc'[b] = "new")

Batch == [n : Nat, started : BOOLEAN]

-----------------------------------------------------------------------------
(* How each step moves the program counters.                               *)

Label == SqlState \cup ExtState \cup {"check", "stall"}

PcOK ==
  /\ pc \in [Actor -> Label]
  /\ \A t \in SqlThread : pc[t] \in SqlState
  /\ pc[Ext] \in ExtState

\* Actor a may be at label l.
MayBeAt(a, l) ==
  /\ a \in Actor /\ l \in Label
  /\ a \in SqlThread => l \in SqlState
  /\ a = Ext => l \in ExtState

\* A step that ends with Goto() moves one actor.
LEMMA GotoMoves ==
  ASSUME PcOK, NEW a, NEW l, MayBeAt(a, l), Goto(a, l)
  PROVE  Moves(a, l) /\ PcOK'
BY DEF PcOK, MayBeAt, Goto, Moves

\* create_worker() starts at most one thread besides.
LEMMA CreateMoves ==
  ASSUME PcOK, NEW a, NEW l, MayBeAt(a, l), pc[a] # "none", CreateWorker(a, l)
  PROVE  Moves(a, l) /\ PcOK'
<1>1. CASE Goto(a, l)
  BY <1>1, GotoMoves, Zenon
<1>2. CASE \E t \in SqlThread : pc[t] = "none" /\ pc' = [pc EXCEPT ![a] = l, ![t] = "new"]
  <2>1. PICK t \in SqlThread : pc[t] = "none" /\ pc' = [pc EXCEPT ![a] = l, ![t] = "new"]
    BY <1>2, Zenon
  <2>2. "new" \in SqlState /\ "new" \in Label /\ t \in Actor /\ t # a /\ t # Ext
    BY <2>1, ActorsDiffer, Zenon DEF SqlState, Label
  <2>3. /\ pc' \in [Actor -> Label] /\ pc'[t] = "new" /\ pc'[a] = l
        /\ \A b \in Actor : b = a \/ b = t \/ pc'[b] = pc[b]
    BY <2>1, <2>2, Zenon DEF PcOK, MayBeAt
  <2>4. Moves(a, l)
    BY <2>1, <2>3, Zenon DEF Moves
  <2>5. PcOK'
    <3>1. ASSUME NEW u \in SqlThread PROVE pc'[u] \in SqlState
      <4>1. u \in Actor
        BY ActorsDiffer, Zenon
      <4> QED
        BY <4>1, <2>2, <2>3, Zenon DEF PcOK, MayBeAt
    <3>2. pc'[Ext] \in ExtState
      BY <2>2, <2>3, ActorsDiffer, Zenon DEF PcOK, MayBeAt
    <3> QED
      BY <3>1, <3>2, <2>3, Zenon DEF PcOK
  <2> QED
    BY <2>4, <2>5, Zenon
<1> QED
  BY <1>1, <1>2, Zenon DEF CreateWorker

\* wake_or_create_thread() moves its caller, and takes threads off the list only.
LEMMA WakeMoves ==
  ASSUME PcOK, waiting_threads \in Seq(SqlThread), NEW a, NEW l, MayBeAt(a, l), pc[a] # "none",
         WakeThread(a, l) \/ CreateWorker(a, l) \/ (Goto(a, l) /\ UNCHANGED waiting_threads)
  PROVE  Moves(a, l) /\ PcOK' /\ waiting_threads' \in Seq(SqlThread)
<1>1. CASE WakeThread(a, l)
  <2>1. waiting_threads # << >> /\ waiting_threads' = Tail(waiting_threads) /\ Goto(a, l)
    BY <1>1, Zenon DEF WakeThread
  <2> QED
    BY <2>1, GotoMoves
<1>2. CASE CreateWorker(a, l)
  BY <1>2, CreateMoves, Zenon DEF CreateWorker
<1>3. CASE Goto(a, l) /\ UNCHANGED waiting_threads
  BY <1>3, GotoMoves, Zenon
<1> QED
  BY <1>1, <1>2, <1>3, Zenon

\* TypeOK contains the types of the program counters.
LEMMA TypeHasPc == TypeOK => PcOK /\ waiting_threads \in Seq(SqlThread)
BY Zenon DEF TypeOK, PcOK, Label

\* Every step of a SQL thread in get_event_bulk() moves that thread.
LEMMA GetEventMoves ==
  ASSUME TypeOK, NEW t \in SqlThread
  PROVE  /\ StartWorker(t) => Moves(t, "loop") /\ PcOK'
         /\ Top(t) => Moves(t, IF too_many_threads THEN "rest" ELSE "native") /\ PcOK'
         /\ TakeNative(t) => Moves(t, IF sql_native_queue > 0 THEN "blocking" ELSE "shared") /\ PcOK'
         /\ TakeBatch(t) => Moves(t, IF resume_queue = 0 /\ req_queue = 0 THEN "rest" ELSE "batch") /\ PcOK'
         /\ BecomeListener(t) => Moves(t, "listen") /\ PcOK'
         /\ Retire(t) => Moves(t, IF active_thread_count = 1 THEN "recheck" ELSE "sleep") /\ PcOK'
         /\ Recheck(t) => Moves(t, IF sql_native_queue > 0 THEN "top" ELSE "sleep") /\ PcOK'
         /\ Wake(t) => Moves(t, "top") /\ PcOK'
         /\ IdleTimeout(t) =>
              /\ Moves(t, IF ext_worker_active /\ sql_native_queue > 0 THEN "gone"
                          ELSE IF active_thread_count > 0 \/ sql_native_queue = 0 THEN "expired"
                          ELSE "top")
              /\ PcOK'
         /\ Expire(t) => Moves(t, IF active_thread_count = 1 THEN "lastgone" ELSE "gone") /\ PcOK'
         /\ ExpireLast(t) => Moves(t, IF sql_native_queue > 0 THEN "top" ELSE "gone") /\ PcOK'
         /\ Exit(t) => Moves(t, "none") /\ PcOK'
<1>0. /\ PcOK /\ resume_queue \in Nat /\ req_queue \in Nat /\ sql_native_queue \in Nat
      /\ \A l \in SqlState : MayBeAt(t, l)
  BY TypeHasPc, ActorsDiffer, Zenon DEF TypeOK, MayBeAt, Label
<1>1. StartWorker(t) => Moves(t, "loop") /\ PcOK'
  BY <1>0, GotoMoves, Zenon DEF StartWorker, SqlState
<1>2. Top(t) => Moves(t, IF too_many_threads THEN "rest" ELSE "native") /\ PcOK'
  BY <1>0, GotoMoves, Zenon DEF Top, SqlState
<1>3. TakeNative(t) => Moves(t, IF sql_native_queue > 0 THEN "blocking" ELSE "shared") /\ PcOK'
  BY <1>0, GotoMoves, Zenon DEF TakeNative, SqlState
<1>4. TakeBatch(t) => Moves(t, IF resume_queue = 0 /\ req_queue = 0 THEN "rest" ELSE "batch") /\ PcOK'
  <2>1. TakeBatch(t) => \/ resume_queue = 0 /\ req_queue = 0 /\ Goto(t, "rest")
                        \/ ~(resume_queue = 0 /\ req_queue = 0) /\ Goto(t, "batch")
    BY <1>0 DEF TakeBatch, Leave
  <2>2. "rest" \in SqlState /\ "batch" \in SqlState
    BY Zenon DEF SqlState
  <2> QED
    BY <1>0, <2>1, <2>2, GotoMoves, Zenon
<1>5. BecomeListener(t) => Moves(t, "listen") /\ PcOK'
  BY <1>0, GotoMoves, Zenon DEF BecomeListener, SqlState
<1>6. Retire(t) => Moves(t, IF active_thread_count = 1 THEN "recheck" ELSE "sleep") /\ PcOK'
  BY <1>0, GotoMoves, Zenon DEF Retire, Sleep, SqlState
<1>7. Recheck(t) => Moves(t, IF sql_native_queue > 0 THEN "top" ELSE "sleep") /\ PcOK'
  BY <1>0, GotoMoves, Zenon DEF Recheck, Sleep, SqlState
<1>8. Wake(t) => Moves(t, "top") /\ PcOK'
  BY <1>0, GotoMoves, Zenon DEF Wake, SqlState
<1>9. IdleTimeout(t) =>
        /\ Moves(t, IF ext_worker_active /\ sql_native_queue > 0 THEN "gone"
                    ELSE IF active_thread_count > 0 \/ sql_native_queue = 0 THEN "expired"
                    ELSE "top")
        /\ PcOK'
  BY <1>0, GotoMoves, Zenon DEF IdleTimeout, SqlState
<1>10. Expire(t) => Moves(t, IF active_thread_count = 1 THEN "lastgone" ELSE "gone") /\ PcOK'
  BY <1>0, GotoMoves, Zenon DEF Expire, SqlState
<1>11. ExpireLast(t) => Moves(t, IF sql_native_queue > 0 THEN "top" ELSE "gone") /\ PcOK'
  BY <1>0, GotoMoves, Zenon DEF ExpireLast, SqlState
<1>12. Exit(t) => Moves(t, "none") /\ PcOK'
  BY <1>0, GotoMoves, Zenon DEF Exit, SqlState
<1> QED
  BY <1>1, <1>2, <1>3, <1>4, <1>5, <1>6, <1>7, <1>8, <1>9, <1>10, <1>11, <1>12, Zenon

\* Every step of the listener and of a thread inside a wait section moves it.
LEMMA BlockingMoves ==
  ASSUME TypeOK, NEW t \in SqlThread
  PROVE  /\ Listen(t) => Moves(t, "epoll") /\ PcOK'
         /\ ListenerPoll(t) => Moves(t, "put") /\ PcOK'
         /\ ListenerCheck(t) => Moves(t, "listen") /\ PcOK'
         /\ WaitBegin(t) => Moves(t, "wait") /\ PcOK' /\ waiting_threads' \in Seq(SqlThread)
         /\ WaitEnd(t) => Moves(t, "run") /\ PcOK'
         /\ Continue(t) => Moves(t, IF active_thread_count = 1 THEN "look" ELSE "wait") /\ PcOK'
         /\ ContinueLook(t) => Moves(t, IF sql_native_queue > 0 THEN "relay" ELSE "wait") /\ PcOK'
         /\ ContinueWake(t) => Moves(t, "wait") /\ PcOK' /\ waiting_threads' \in Seq(SqlThread)
<1>0. /\ PcOK /\ waiting_threads \in Seq(SqlThread)
      /\ \A l \in SqlState : MayBeAt(t, l)
  BY TypeHasPc, ActorsDiffer, Zenon DEF TypeOK, MayBeAt, Label
<1>1. Listen(t) => Moves(t, "epoll") /\ PcOK'
  BY <1>0, GotoMoves, Zenon DEF Listen, SqlState
<1>2. ListenerPoll(t) => Moves(t, "put") /\ PcOK'
  BY <1>0, GotoMoves, Zenon DEF ListenerPoll, SqlState
<1>3. ListenerCheck(t) => Moves(t, "listen") /\ PcOK'
  BY <1>0, GotoMoves, Zenon DEF ListenerCheck, SqlState
<1>4. WaitBegin(t) => Moves(t, "wait") /\ PcOK' /\ waiting_threads' \in Seq(SqlThread)
  BY <1>0, WakeMoves, Zenon DEF WaitBegin, WakeOrCreateThread, SqlState
<1>5. WaitEnd(t) => Moves(t, "run") /\ PcOK'
  BY <1>0, GotoMoves, Zenon DEF WaitEnd, SqlState
<1>6. Continue(t) => Moves(t, IF active_thread_count = 1 THEN "look" ELSE "wait") /\ PcOK'
  BY <1>0, GotoMoves, Zenon DEF Continue, SqlState
<1>7. ContinueLook(t) => Moves(t, IF sql_native_queue > 0 THEN "relay" ELSE "wait") /\ PcOK'
  BY <1>0, GotoMoves, Zenon DEF ContinueLook, SqlState
<1>8. ContinueWake(t) => Moves(t, "wait") /\ PcOK' /\ waiting_threads' \in Seq(SqlThread)
  BY <1>0, WakeMoves, Zenon DEF ContinueWake, WakeOrCreateThread, SqlState
<1> QED
  BY <1>1, <1>2, <1>3, <1>4, <1>5, <1>6, <1>7, <1>8, Zenon

\* Every step of a worker that runs its batch moves that worker.
LEMMA RunBatchMoves ==
  ASSUME TypeOK, NEW w \in Worker
  PROVE  /\ RunNext(w) => Moves(w, "run") /\ PcOK'
         /\ Finish(w) => Moves(w, "batch") /\ PcOK'
         /\ Yield(w) => Moves(w, "batch") /\ PcOK'
         /\ WorkerPoll(w) => Moves(w, IF w = Ext THEN "again" ELSE "loop") /\ PcOK'
<1>0. PcOK /\ MayBeAt(w, "run") /\ MayBeAt(w, "batch") /\ MayBeAt(w, IF w = Ext THEN "again" ELSE "loop")
  BY TypeHasPc, ActorsDiffer, Zenon DEF MayBeAt, Label, SqlState, ExtState, Worker
<1> QED
  BY <1>0, GotoMoves, Zenon DEF RunNext, Finish, Yield, WorkerPoll

\* Every step of the external worker alone moves it.
LEMMA ExtMoves ==
  ASSUME TypeOK
  PROVE  /\ HandOver => Moves(Ext, "enqueue") /\ PcOK' /\ waiting_threads' \in Seq(SqlThread)
         /\ HandOverEnqueue => Moves(Ext, "batch") /\ PcOK'
         /\ ExtThdStart => Moves(Ext, "process") /\ PcOK'
         /\ Process => Moves(Ext, "batch") /\ PcOK'
         /\ ExtAgain => Moves(Ext, IF HasTask THEN "process" ELSE "end") /\ PcOK'
         /\ ExtThdEnd => Moves(Ext, "handback") /\ PcOK'
         /\ ExtThdEndWake => Moves(Ext, "settle") /\ PcOK' /\ waiting_threads' \in Seq(SqlThread)
         /\ ExtSleep => Moves(Ext, "asleep") /\ PcOK'
<1>0. /\ PcOK /\ waiting_threads \in Seq(SqlThread)
      /\ \A l \in ExtState : MayBeAt(Ext, l)
  BY TypeHasPc, ActorsDiffer, Zenon DEF MayBeAt, Label
<1>1. HandOver => Moves(Ext, "enqueue") /\ PcOK' /\ waiting_threads' \in Seq(SqlThread)
  BY <1>0, WakeMoves, Zenon DEF HandOver, WakeOrCreateThread, ExtState
<1>2. HandOverEnqueue => Moves(Ext, "batch") /\ PcOK'
  BY <1>0, GotoMoves, Zenon DEF HandOverEnqueue, ExtState
<1>3. ExtThdStart => Moves(Ext, "process") /\ PcOK'
  BY <1>0, GotoMoves, Zenon DEF ExtThdStart, ExtState
<1>4. Process => Moves(Ext, "batch") /\ PcOK'
  BY <1>0, GotoMoves, Zenon DEF Process, ExtState
<1>5. ExtAgain => Moves(Ext, IF HasTask THEN "process" ELSE "end") /\ PcOK'
  BY <1>0, GotoMoves, Zenon DEF ExtAgain, ExtState
<1>6. ExtThdEnd => Moves(Ext, "handback") /\ PcOK'
  BY <1>0, GotoMoves, Zenon DEF ExtThdEnd, ExtState
<1>7. ExtThdEndWake => Moves(Ext, "settle") /\ PcOK' /\ waiting_threads' \in Seq(SqlThread)
  BY <1>0, WakeMoves, Zenon DEF ExtThdEndWake, WakeOrCreateThread, ExtState
<1>8. ExtSleep => Moves(Ext, "asleep") /\ PcOK'
  BY <1>0, GotoMoves, Zenon DEF ExtSleep, ExtState
<1> QED
  BY <1>1, <1>2, <1>3, <1>4, <1>5, <1>6, <1>7, <1>8, Zenon

\* The steps of the threads outside the group.
LEMMA OutsideMoves ==
  ASSUME TypeOK
  PROVE  /\ AddConnection => Moves(Acceptor, "check") /\ PcOK'
         /\ AddConnectionCheck => Moves(Acceptor, "asleep") /\ PcOK'
         /\ CoroutineResume => Moves(Tx, "check") /\ PcOK'
         /\ CoroutineResumeCheck => Moves(Tx, "asleep") /\ PcOK'
         /\ CheckStall => Moves(Timer, IF req_queue > 0 /\ ~queue_event_count THEN "stall" ELSE "asleep") /\ PcOK'
         /\ ResolveStall => Moves(Timer, "asleep") /\ PcOK' /\ waiting_threads' \in Seq(SqlThread)
<1>0. /\ PcOK /\ waiting_threads \in Seq(SqlThread)
      /\ \A a \in {Acceptor, Tx, Timer} : \A l \in {"check", "stall", "asleep"} : MayBeAt(a, l)
  BY TypeHasPc, ActorsDiffer, Zenon DEF MayBeAt, Label, ExtState
<1>1. AddConnection => Moves(Acceptor, "check") /\ PcOK'
  BY <1>0, GotoMoves, Zenon DEF AddConnection
<1>2. AddConnectionCheck => Moves(Acceptor, "asleep") /\ PcOK'
  BY <1>0, GotoMoves, Zenon DEF AddConnectionCheck
<1>3. CoroutineResume => Moves(Tx, "check") /\ PcOK'
  BY <1>0, GotoMoves, Zenon DEF CoroutineResume
<1>4. CoroutineResumeCheck => Moves(Tx, "asleep") /\ PcOK'
  BY <1>0, GotoMoves, Zenon DEF CoroutineResumeCheck
<1>5. CheckStall => Moves(Timer, IF req_queue > 0 /\ ~queue_event_count THEN "stall" ELSE "asleep") /\ PcOK'
  <2> SUFFICES ASSUME CheckStall
               PROVE  Moves(Timer, IF req_queue > 0 /\ ~queue_event_count THEN "stall" ELSE "asleep") /\ PcOK'
    BY Zenon
  <2>1. CASE req_queue > 0 /\ ~queue_event_count
    BY <2>1, <1>0, GotoMoves, Zenon DEF CheckStall
  <2>2. CASE ~(req_queue > 0 /\ ~queue_event_count)
    BY <2>2, <1>0, Zenon DEF CheckStall, Moves, PcOK
  <2> QED
    BY <2>1, <2>2, Zenon
<1>6. ResolveStall => Moves(Timer, "asleep") /\ PcOK' /\ waiting_threads' \in Seq(SqlThread)
  BY <1>0, WakeMoves, Zenon DEF ResolveStall, WakeOrThrottle
<1> QED
  BY <1>1, <1>2, <1>3, <1>4, <1>5, <1>6, Zenon

-----------------------------------------------------------------------------
(* Steps that touch no batch and no started command.                       *)

GroupInv == TypeOK /\ NoBatchLeft /\ ExtActive /\ CoroutinesCounted /\ ResumedIsSeen

HasBatch == {"batch", "run", "enqueue"}

\* Actor a, not the external worker, goes on at l, inside a command if it was
\* inside one and with the batch it had.
Quiet(a, l) ==
  /\ a \in Actor /\ a # Ext /\ Moves(a, l)
  /\ UNCHANGED << batch, coro_cnt, tx, resume_queue, sql_native_queue, ext_worker_active >>
  /\ notified => notified'
  /\ a \in Worker => /\ pc[a] \in InCommand <=> l \in InCommand
                     /\ pc[a] \in HasBatch => l \in HasBatch
  /\ a = Tx => l = "check"

-----------------------------------------------------------------------------
(* Steps that take, run, give back or resume commands.                     *)

\* The batch of worker w changes, and it goes on at l.
Rebatched(w, l) ==
  /\ Moves(w, l)
  /\ batch' \in [Worker -> Batch]
  /\ \A v \in Worker \ {w} : batch'[v] = batch[v]
  /\ l \notin HasBatch => batch'[w].n = 0

ExtBusy == {"process", "batch", "run", "enqueue", "again", "end"}

-----------------------------------------------------------------------------
(* The external worker and the transaction service.                        *)

\* A step of the external worker with its batch as it was.
ExtQuiet(l) ==
  /\ Moves(Ext, l)
  /\ UNCHANGED << batch, coro_cnt, tx, resume_queue >>
  /\ pc[Ext] \in HasBatch => l \in HasBatch
  /\ ext_worker_active' <=> l \in ExtBusy

\* A group without threads satisfies the invariant.
LEMMA GroupInit == Init => GroupInv
<1> SUFFICES ASSUME Init PROVE GroupInv
  BY Zenon
<1>1. TypeOK
  <2>1. pc \in [Actor -> Label] /\ pc[Ext] = "asleep" /\ \A t \in SqlThread : pc[t] = "none"
    BY ActorsDiffer, Zenon DEF Init, Label, SqlState, ExtState
  <2>2. PcOK
    BY <2>1, Zenon DEF PcOK, SqlState, ExtState
  <2>3. batch \in [Worker -> [n : Nat, started : BOOLEAN]] /\ waiting_threads \in Seq(SqlThread)
    BY DEF Init, NoBatch
  <2>4. outside \in Nat
    BY GroupAssumption, Zenon DEF Init
  <2>5. /\ mutex = Nobody /\ listener = Nobody /\ active_thread_count = 0
        /\ ext_worker_active = FALSE /\ stalled = FALSE /\ notified = FALSE /\ queue_event_count = FALSE
        /\ req_queue = 0 /\ resume_queue = 0 /\ sql_native_queue = 0 /\ coro_cnt = 0
        /\ idle = 0 /\ ready = 0 /\ tx = 0
        /\ sent = 0 /\ yields = 0 /\ waits = 0 /\ handovers = 0 /\ timeouts = 0
    BY Zenon DEF Init
  <2>6. /\ mutex \in Worker \cup {Nobody} /\ listener \in SqlThread \cup {Nobody} /\ active_thread_count \in Int
        /\ req_queue \in Nat /\ resume_queue \in Nat /\ sql_native_queue \in Nat /\ coro_cnt \in Nat
        /\ idle \in Nat /\ ready \in Nat /\ tx \in Nat
        /\ sent \in Nat /\ yields \in Nat /\ waits \in Nat /\ handovers \in Nat /\ timeouts \in Nat
    BY <2>5
  <2>7. ext_worker_active \in BOOLEAN /\ stalled \in BOOLEAN /\ notified \in BOOLEAN /\ queue_event_count \in BOOLEAN
    BY <2>5, Zenon
  <2> QED
    BY <2>2, <2>3, <2>4, <2>6, <2>7, Zenon DEF TypeOK, PcOK, Label
<1>2. Running = {}
  BY ActorsDiffer, Zenon DEF Init, Running, InCommand, Worker
<1>3. AllStarted(batch) = {}
  BY DEF Init, AllStarted, Started, NoBatch
<1>4. NoBatchLeft /\ ExtActive
  BY ActorsDiffer, Zenon DEF Init, NoBatchLeft, ExtActive, NoBatch
<1>5. CoroutinesCounted
  BY <1>2, <1>3, FS_EmptySet DEF Init, CoroutinesCounted
<1>6. ResumedIsSeen
  BY <1>3, FS_EmptySet DEF Init, ResumedIsSeen
<1> QED
  BY <1>1, <1>4, <1>5, <1>6, Zenon DEF GroupInv

\* Every step preserves it.
LEMMA GroupNext == GroupInv /\ [Next]_vars => GroupInv'
\* A step of an actor that was not in Running and is not afterwards, or was
\* and is, leaves Running alone.
<1>RunningSame.
  ASSUME NEW a \in Actor, NEW l, Moves(a, l), a \in Worker => (pc[a] \in InCommand <=> l \in InCommand)
  PROVE  Running' = Running
  BY <1>RunningSame, ActorsDiffer, Zenon DEF Moves, Running, InCommand
\* A worker starts or resumes a command.
<1>RunningMore.
  ASSUME NEW w \in Worker, NEW l, Moves(w, l), pc[w] \notin InCommand, l \in InCommand
  PROVE  Cardinality(Running') = Cardinality(Running) + 1
  <2> USE <1>RunningMore
  <2>1. Running' = Running \cup {w} /\ w \notin Running
    BY ActorsDiffer, Zenon DEF Moves, Running, InCommand
  <2> QED
    BY <2>1, WorkersFinite, FS_AddElement, Zenon
\* A worker finishes a command or yields from it.
<1>RunningLess.
  ASSUME NEW w \in Worker, NEW l, Moves(w, l), pc[w] \in InCommand, l \notin InCommand
  PROVE  Cardinality(Running') = Cardinality(Running) - 1
  <2> USE <1>RunningLess
  <2>1. Running' = Running \ {w} /\ w \in Running
    BY ActorsDiffer, Zenon DEF Moves, Running, InCommand
  <2> QED
    BY <2>1, WorkersFinite, FS_RemoveElement, Zenon
\* When one batch changes, the count of started commands changes by as much.
<1>OneBatchChanges.
  ASSUME NEW w \in Worker, NEW b \in [Worker -> Batch], NEW c \in [Worker -> Batch],
         \A v \in Worker \ {w} : c[v] = b[v],
         IsFiniteSet(AllStarted(b))
  PROVE  /\ IsFiniteSet(AllStarted(c))
         /\ Cardinality(AllStarted(b)) \in Nat /\ Cardinality(AllStarted(c)) \in Nat
         /\ Cardinality(AllStarted(b)) >= Started(b[w])
         /\ Cardinality(AllStarted(c)) = Cardinality(AllStarted(b)) - Started(b[w]) + Started(c[w])
  <2> USE <1>OneBatchChanges
  \* The started commands of one batch, as a set, are as many as its length says.
  <2>OwnPairs.
    ASSUME NEW k \in Nat
    PROVE  /\ IsFiniteSet({w} \X (1 .. k))
           /\ Cardinality({w} \X (1 .. k)) = k
    <3> USE <2>OwnPairs
    <3>1. IsFiniteSet({w}) /\ Cardinality({w}) = 1
      BY FS_Singleton, Zenon
    <3>2. IsFiniteSet(1 .. k) /\ Cardinality(1 .. k) = k
      BY FS_Interval
    <3>3. /\ IsFiniteSet({w} \X (1 .. k))
          /\ Cardinality({w} \X (1 .. k)) = Cardinality({w}) * Cardinality(1 .. k)
      BY <3>1, <3>2, FS_Product, Zenon
    <3> QED
      BY <3>1, <3>2, <3>3
  <2> DEFINE Others == {x \in AllStarted(b) : x[1] # w}
             OwnB == {w} \X (1 .. Started(b[w]))
             OwnC == {w} \X (1 .. Started(c[w]))
  <2>0. Started(b[w]) \in Nat /\ Started(c[w]) \in Nat
    BY Zenon DEF Started, Batch
  <2>1. IsFiniteSet(Others) /\ Cardinality(Others) \in Nat
    BY FS_Subset, FS_CardinalityType, Zenon
  <2>2. IsFiniteSet(OwnB) /\ Cardinality(OwnB) = Started(b[w])
    BY <2>0, <2>OwnPairs, Zenon
  <2>3. IsFiniteSet(OwnC) /\ Cardinality(OwnC) = Started(c[w])
    BY <2>0, <2>OwnPairs, Zenon
  <2>4. AllStarted(b) = Others \cup OwnB /\ Others \cap OwnB = {}
    BY <2>0 DEF AllStarted
  <2>5. AllStarted(c) = Others \cup OwnC /\ Others \cap OwnC = {}
    BY <2>0 DEF AllStarted
  <2>6. Cardinality(AllStarted(b)) = Cardinality(Others) + Started(b[w])
    <3> HIDE DEF Others, OwnB
    <3>1. Cardinality(AllStarted(b)) = Cardinality(Others) + Cardinality(OwnB) - Cardinality(Others \cap OwnB)
      BY <2>1, <2>2, <2>4, FS_Union, Zenon
    <3>2. Cardinality(Others \cap OwnB) = 0
      BY <2>4, FS_EmptySet, Zenon
    <3> QED
      BY <3>1, <3>2, <2>0, <2>1, <2>2
  <2>7. IsFiniteSet(AllStarted(c)) /\ Cardinality(AllStarted(c)) = Cardinality(Others) + Started(c[w])
    <3> HIDE DEF Others, OwnC
    <3>1. /\ IsFiniteSet(AllStarted(c))
          /\ Cardinality(AllStarted(c)) = Cardinality(Others) + Cardinality(OwnC) - Cardinality(Others \cap OwnC)
      BY <2>1, <2>3, <2>5, FS_Union
    <3>2. Cardinality(Others \cap OwnC) = 0
      BY <2>5, FS_EmptySet, Zenon
    <3> QED
      BY <3>1, <3>2, <2>0, <2>1, <2>3
  <2> HIDE DEF Others
  <2> QED
    BY <2>0, <2>1, <2>6, <2>7
<1>SuccIsNat. \A n \in Nat : n + 1 \in Nat
  OBVIOUS
\* The terms of CoroutinesCounted are natural numbers.
<1>TermsAreNat.
  ASSUME GroupInv
  PROVE  /\ tx \in Nat /\ resume_queue \in Nat /\ sql_native_queue \in Nat
         /\ Cardinality(Running) \in Nat /\ Cardinality(AllStarted(batch)) \in Nat
         /\ coro_cnt = tx + resume_queue + sql_native_queue + Cardinality(Running)
                       + Cardinality(AllStarted(batch))
  BY <1>TermsAreNat, WorkersFinite, FS_CardinalityType, Zenon DEF GroupInv, TypeOK, CoroutinesCounted
\* Such a step disturbs nothing.
<1>QuietStep.
  ASSUME GroupInv, NEW a, NEW l, Quiet(a, l)
  PROVE  NoBatchLeft' /\ ExtActive' /\ CoroutinesCounted' /\ ResumedIsSeen'
  <2> USE <1>QuietStep
  <2>1. /\ a \in Actor /\ a # Ext /\ Moves(a, l)
        /\ batch' = batch /\ coro_cnt' = coro_cnt /\ tx' = tx /\ resume_queue' = resume_queue
        /\ sql_native_queue' = sql_native_queue /\ (ext_worker_active' <=> ext_worker_active)
        /\ notified => notified'
        /\ a \in Worker => (pc[a] \in InCommand <=> l \in InCommand)
        /\ a \in Worker => (pc[a] \in HasBatch => l \in HasBatch)
        /\ a = Tx => l = "check"
    BY Zenon DEF Quiet
  <2>2. pc'[Ext] = pc[Ext] /\ (pc[Tx] = "check" => pc'[Tx] = "check")
    BY <2>1, ActorsDiffer, Zenon DEF Moves
  <2>3. Running' = Running
    BY <2>1, <1>RunningSame, Zenon
  <2>4. NoBatchLeft'
    <3>1. ASSUME NEW w \in Worker, pc'[w] \notin HasBatch PROVE batch'[w].n = 0
      <4>1. pc[w] \notin HasBatch
        BY <3>1, <2>1, ActorsDiffer, Zenon DEF Moves, HasBatch
      <4> QED
        BY <4>1, <2>1, Zenon DEF GroupInv, NoBatchLeft, HasBatch
    <3> QED
      BY <3>1, Zenon DEF NoBatchLeft, HasBatch
  <2>5. ExtActive'
    BY <2>1, <2>2, Zenon DEF GroupInv, ExtActive
  <2>6. CoroutinesCounted'
    BY <2>1, <2>3, Zenon DEF GroupInv, CoroutinesCounted
  <2>7. ResumedIsSeen'
    BY <2>1, <2>2, Zenon DEF GroupInv, ResumedIsSeen
  <2> QED
    BY <2>4, <2>5, <2>6, <2>7, Zenon
\* Other workers have nothing left outside their loop as before.
<1>LeftAlone.
  ASSUME NoBatchLeft, NEW w \in Worker, NEW l, Rebatched(w, l)
  PROVE  NoBatchLeft'
  <2> USE <1>LeftAlone
  <2>1. ASSUME NEW v \in Worker, pc'[v] \notin HasBatch PROVE batch'[v].n = 0
    <3>1. CASE v = w
      BY <3>1, <2>1, Zenon DEF Rebatched, Moves
    <3>2. CASE v # w
      <4>1. pc[v] \notin HasBatch /\ batch'[v] = batch[v]
        BY <3>2, <2>1, ActorsDiffer, Zenon DEF Rebatched, Moves, HasBatch
      <4> QED
        BY <4>1, Zenon DEF NoBatchLeft, HasBatch
    <3> QED
      BY <3>1, <3>2, Zenon
  <2> QED
    BY <2>1, Zenon DEF NoBatchLeft, HasBatch
\* What the started commands of all batches number after the step.
<1>StartedAfter.
  ASSUME GroupInv, NEW w \in Worker, NEW l, Rebatched(w, l)
  PROVE  /\ IsFiniteSet(AllStarted(batch'))
         /\ Cardinality(AllStarted(batch')) \in Nat
         /\ Cardinality(AllStarted(batch)) >= Started(batch[w])
         /\ Started(batch[w]) \in Nat /\ Started(batch'[w]) \in Nat
         /\ Cardinality(AllStarted(batch'))
              = Cardinality(AllStarted(batch)) - Started(batch[w]) + Started(batch'[w])
  <2> USE <1>StartedAfter
  <2>1. /\ batch \in [Worker -> Batch] /\ batch' \in [Worker -> Batch] /\ IsFiniteSet(AllStarted(batch))
        /\ \A v \in Worker \ {w} : batch'[v] = batch[v]
    BY Zenon DEF GroupInv, TypeOK, CoroutinesCounted, Rebatched, Batch
  <2>2. Started(batch[w]) \in Nat /\ Started(batch'[w]) \in Nat
    BY <2>1, Zenon DEF Started, Batch
  <2> QED
    BY <2>1, <2>2, <1>OneBatchChanges, Zenon
\* A step of a SQL thread leaves the external worker where it is.
<1>ExtStays.
  ASSUME ExtActive, NEW t \in SqlThread, NEW l, Moves(t, l),
         ext_worker_active' <=> ext_worker_active
  PROVE  ExtActive' /\ pc'[Ext] = pc[Ext] /\ pc'[Tx] = pc[Tx]
  <2> USE <1>ExtStays
  <2>1. pc'[Ext] = pc[Ext] /\ pc'[Tx] = pc[Tx]
    BY ActorsDiffer, Zenon DEF Moves
  <2> QED
    BY <2>1, Zenon DEF ExtActive
\* The steps of get_event_bulk() that take no command are quiet.
<1>QuietGetEvent.
  ASSUME TypeOK, NEW t \in SqlThread
  PROVE  /\ StartWorker(t) => TypeOK' /\ Quiet(t, "loop")
         /\ Top(t) => TypeOK' /\ Quiet(t, IF too_many_threads THEN "rest" ELSE "native")
         /\ BecomeListener(t) => TypeOK' /\ Quiet(t, "listen")
         /\ Retire(t) => TypeOK' /\ Quiet(t, IF active_thread_count = 1 THEN "recheck" ELSE "sleep")
         /\ Recheck(t) => TypeOK' /\ Quiet(t, IF sql_native_queue > 0 THEN "top" ELSE "sleep")
         /\ Wake(t) => TypeOK' /\ Quiet(t, "top")
         /\ IdleTimeout(t) => TypeOK' /\ \E l \in {"gone", "expired", "top"} : Quiet(t, l)
         /\ Expire(t) => TypeOK' /\ Quiet(t, IF active_thread_count = 1 THEN "lastgone" ELSE "gone")
         /\ ExpireLast(t) => TypeOK' /\ Quiet(t, IF sql_native_queue > 0 THEN "top" ELSE "gone")
  <2> USE <1>QuietGetEvent
  \* A thread that goes to sleep is put at the head of the list.
  <2>SleepTyped.
    ASSUME TypeOK, Sleep(t)
    PROVE  waiting_threads' \in Seq(SqlThread) /\ mutex' = Nobody
    <3> USE <2>SleepTyped
    <3>1. << t >> \in Seq(SqlThread) /\ waiting_threads \in Seq(SqlThread)
      BY DEF TypeOK
    <3>2. << t >> \o waiting_threads \in Seq(SqlThread)
      BY <3>1
    <3> QED
      BY <3>2, Zenon DEF Sleep
  <2>0. t \in Actor /\ t \in Worker /\ t # Ext /\ t # Tx
    BY ActorsDiffer, Zenon
  <2>1. StartWorker(t) => TypeOK' /\ Quiet(t, "loop")
    <3> SUFFICES ASSUME StartWorker(t) PROVE TypeOK' /\ Quiet(t, "loop")
      BY Zenon
    <3>1. Moves(t, "loop") /\ PcOK'
      BY GetEventMoves, Zenon
    <3>2. TypeOK'
      BY <3>1 DEF TypeOK, PcOK, Label, StartWorker, flagVars, queueVars, connVars, boundVars
    <3>3. Quiet(t, "loop")
      BY <3>1, <2>0, Zenon DEF Quiet, StartWorker, InCommand, HasBatch, flagVars, queueVars, connVars
    <3> QED
      BY <3>2, <3>3, Zenon
  <2>2. Top(t) => TypeOK' /\ Quiet(t, IF too_many_threads THEN "rest" ELSE "native")
    <3> SUFFICES ASSUME Top(t) PROVE TypeOK' /\ Quiet(t, IF too_many_threads THEN "rest" ELSE "native")
      BY Zenon
    <3>1. Moves(t, IF too_many_threads THEN "rest" ELSE "native") /\ PcOK'
      BY GetEventMoves, Zenon
    <3>2. TypeOK'
      BY <3>1, <2>0, Zenon DEF TypeOK, PcOK, Label, Top, queueVars, connVars, boundVars
    <3>3. Quiet(t, IF too_many_threads THEN "rest" ELSE "native")
      BY <3>1, <2>0, Zenon DEF Quiet, Top, InCommand, HasBatch, queueVars, connVars
    <3> QED
      BY <3>2, <3>3, Zenon
  <2>3. BecomeListener(t) => TypeOK' /\ Quiet(t, "listen")
    <3> SUFFICES ASSUME BecomeListener(t) PROVE TypeOK' /\ Quiet(t, "listen")
      BY Zenon
    <3>1. Moves(t, "listen") /\ PcOK'
      BY GetEventMoves, Zenon
    <3>2. TypeOK'
      BY <3>1 DEF TypeOK, PcOK, Label, BecomeListener, flagVars, queueVars, connVars, boundVars
    <3>3. Quiet(t, "listen")
      BY <3>1, <2>0, Zenon DEF Quiet, BecomeListener, InCommand, HasBatch, flagVars, queueVars, connVars
    <3> QED
      BY <3>2, <3>3, Zenon
  <2>4. Retire(t) => TypeOK' /\ Quiet(t, IF active_thread_count = 1 THEN "recheck" ELSE "sleep")
    <3> SUFFICES ASSUME Retire(t)
                 PROVE  TypeOK' /\ Quiet(t, IF active_thread_count = 1 THEN "recheck" ELSE "sleep")
      BY Zenon
    <3>1. Moves(t, IF active_thread_count = 1 THEN "recheck" ELSE "sleep") /\ PcOK'
      BY GetEventMoves, Zenon
    <3>2. waiting_threads' \in Seq(SqlThread)
      BY <2>SleepTyped, Zenon DEF Retire, TypeOK
    <3>3. TypeOK'
      BY <3>1, <3>2, SMTT(60) DEF TypeOK, PcOK, Label, Retire, Sleep, flagVars, queueVars, connVars,
         boundVars
    <3>4. Quiet(t, IF active_thread_count = 1 THEN "recheck" ELSE "sleep")
      BY <3>1, <2>0, Zenon DEF Quiet, Retire, InCommand, HasBatch, flagVars, queueVars, connVars
    <3> QED
      BY <3>3, <3>4, Zenon
  <2>5. Recheck(t) => TypeOK' /\ Quiet(t, IF sql_native_queue > 0 THEN "top" ELSE "sleep")
    <3> SUFFICES ASSUME Recheck(t)
                 PROVE  TypeOK' /\ Quiet(t, IF sql_native_queue > 0 THEN "top" ELSE "sleep")
      BY Zenon
    <3>1. Moves(t, IF sql_native_queue > 0 THEN "top" ELSE "sleep") /\ PcOK'
      BY GetEventMoves, Zenon
    <3>2. waiting_threads' \in Seq(SqlThread) /\ (mutex' = mutex \/ mutex' = Nobody) /\ active_thread_count' \in Int
      BY <2>SleepTyped DEF Recheck, NotifyIf, TypeOK
    <3>3. notified' \in BOOLEAN /\ (notified => notified')
      BY Zenon DEF Recheck, NotifyIf, TypeOK
    <3>4. TypeOK'
      BY <3>1, <3>2, <3>3, Zenon DEF TypeOK, PcOK, Label, Recheck, queueVars, connVars, boundVars
    <3>5. Quiet(t, IF sql_native_queue > 0 THEN "top" ELSE "sleep")
      BY <3>1, <3>3, <2>0, Zenon DEF Quiet, Recheck, InCommand, HasBatch, queueVars, connVars
    <3> QED
      BY <3>4, <3>5, Zenon
  <2>6. Wake(t) => TypeOK' /\ Quiet(t, "top")
    <3> SUFFICES ASSUME Wake(t) PROVE TypeOK' /\ Quiet(t, "top")
      BY Zenon
    <3>1. Moves(t, "top") /\ PcOK'
      BY GetEventMoves, Zenon
    <3>2. TypeOK'
      BY <3>1, <2>0 DEF TypeOK, PcOK, Label, Wake, flagVars, queueVars, connVars, boundVars
    <3>3. Quiet(t, "top")
      BY <3>1, <2>0, Zenon DEF Quiet, Wake, InCommand, HasBatch, flagVars, queueVars, connVars
    <3> QED
      BY <3>2, <3>3, Zenon
  <2>7. IdleTimeout(t) => TypeOK' /\ \E l \in {"gone", "expired", "top"} : Quiet(t, l)
    <3> SUFFICES ASSUME IdleTimeout(t) PROVE TypeOK' /\ \E l \in {"gone", "expired", "top"} : Quiet(t, l)
      BY Zenon
    <3>1. PICK l \in {"gone", "expired", "top"} : Moves(t, l) /\ PcOK'
      BY GetEventMoves, Zenon
    <3>2. waiting_threads' \in Seq(SqlThread)
      <4>1. waiting_threads \in Seq(SqlThread) /\ Unlist(t)
        BY Zenon DEF IdleTimeout, TypeOK
      <4>2. CASE UNCHANGED waiting_threads
        BY <4>1, <4>2, Zenon
      <4>3. ASSUME NEW i \in 1 .. Len(waiting_threads),
                   waiting_threads' = SubSeq(waiting_threads, 1, i - 1)
                                      \o SubSeq(waiting_threads, i + 1, Len(waiting_threads))
            PROVE  waiting_threads' \in Seq(SqlThread)
        <5>1. Len(waiting_threads) \in Nat /\ i \in Nat /\ i >= 1 /\ i <= Len(waiting_threads)
          BY <4>1
        <5>2. SubSeq(waiting_threads, 1, i - 1) \in Seq(SqlThread)
          BY <4>1, <5>1
        <5>3. SubSeq(waiting_threads, i + 1, Len(waiting_threads)) \in Seq(SqlThread)
          BY <4>1, <5>1, SMTT(60)
        <5> QED
          BY <4>3, <5>2, <5>3
      <4> QED
        BY <4>1, <4>2, <4>3, Zenon DEF Unlist
    <3>3. TypeOK'
      BY <3>1, <3>2, <2>0, SMTT(60) DEF TypeOK, PcOK, Label, IdleTimeout, flagVars, queueVars, connVars
    <3>4. Quiet(t, l)
      BY <3>1, <2>0, Zenon DEF Quiet, IdleTimeout, InCommand, HasBatch, flagVars, queueVars, connVars
    <3> QED
      BY <3>3, <3>4, Zenon
  <2>8. Expire(t) => TypeOK' /\ Quiet(t, IF active_thread_count = 1 THEN "lastgone" ELSE "gone")
    <3> SUFFICES ASSUME Expire(t)
                 PROVE  TypeOK' /\ Quiet(t, IF active_thread_count = 1 THEN "lastgone" ELSE "gone")
      BY Zenon
    <3>1. Moves(t, IF active_thread_count = 1 THEN "lastgone" ELSE "gone") /\ PcOK'
      BY GetEventMoves, Zenon
    <3>2. TypeOK'
      BY <3>1 DEF TypeOK, PcOK, Label, Expire, flagVars, queueVars, connVars, boundVars
    <3>3. Quiet(t, IF active_thread_count = 1 THEN "lastgone" ELSE "gone")
      BY <3>1, <2>0, Zenon DEF Quiet, Expire, InCommand, HasBatch, flagVars, queueVars, connVars
    <3> QED
      BY <3>2, <3>3, Zenon
  <2>9. ExpireLast(t) => TypeOK' /\ Quiet(t, IF sql_native_queue > 0 THEN "top" ELSE "gone")
    <3> SUFFICES ASSUME ExpireLast(t)
                 PROVE  TypeOK' /\ Quiet(t, IF sql_native_queue > 0 THEN "top" ELSE "gone")
      BY Zenon
    <3>1. Moves(t, IF sql_native_queue > 0 THEN "top" ELSE "gone") /\ PcOK'
      BY GetEventMoves, Zenon
    <3>2. TypeOK'
      BY <3>1 DEF TypeOK, PcOK, Label, ExpireLast, flagVars, queueVars, connVars, boundVars
    <3>3. Quiet(t, IF sql_native_queue > 0 THEN "top" ELSE "gone")
      BY <3>1, <2>0, Zenon DEF Quiet, ExpireLast, InCommand, HasBatch, flagVars, queueVars, connVars
    <3> QED
      BY <3>2, <3>3, Zenon
  <2> QED
    BY <2>1, <2>2, <2>3, <2>4, <2>5, <2>6, <2>7, <2>8, <2>9, Zenon
\* The steps of the listener and inside wait sections that give nothing back
\* are quiet.
<1>QuietBlocking.
  ASSUME TypeOK, NEW t \in SqlThread
  PROVE  /\ Listen(t) => TypeOK' /\ Quiet(t, "epoll")
         /\ ListenerPoll(t) => TypeOK' /\ Quiet(t, "put")
         /\ ListenerCheck(t) => TypeOK' /\ Quiet(t, "listen")
         /\ WaitEnd(t) => TypeOK' /\ Quiet(t, "run")
         /\ Continue(t) => TypeOK' /\ Quiet(t, IF active_thread_count = 1 THEN "look" ELSE "wait")
         /\ ContinueLook(t) => TypeOK' /\ Quiet(t, IF sql_native_queue > 0 THEN "relay" ELSE "wait")
         /\ ContinueWake(t) => TypeOK' /\ Quiet(t, "wait")
  <2> USE <1>QuietBlocking
  <2>0. t \in Actor /\ t \in Worker /\ t # Ext /\ t # Tx
    BY ActorsDiffer, Zenon
  <2>1. Listen(t) => TypeOK' /\ Quiet(t, "epoll")
    <3> SUFFICES ASSUME Listen(t) PROVE TypeOK' /\ Quiet(t, "epoll")
      BY Zenon
    <3>1. Moves(t, "epoll") /\ PcOK'
      BY BlockingMoves, Zenon
    <3>2. TypeOK'
      BY <3>1, Zenon DEF TypeOK, PcOK, Label, Listen, groupVars, flagVars, queueVars, connVars, boundVars
    <3>3. Quiet(t, "epoll")
      BY <3>1, <2>0, Zenon DEF Quiet, Listen, InCommand, HasBatch, flagVars, queueVars, connVars
    <3> QED
      BY <3>2, <3>3, Zenon
  <2>2. ListenerPoll(t) => TypeOK' /\ Quiet(t, "put")
    <3> SUFFICES ASSUME ListenerPoll(t) PROVE TypeOK' /\ Quiet(t, "put")
      BY Zenon
    <3>1. Moves(t, "put") /\ PcOK'
      BY BlockingMoves, Zenon
    <3>2. TypeOK'
      BY <3>1 DEF TypeOK, PcOK, Label, ListenerPoll, groupVars, flagVars, boundVars
    <3>3. Quiet(t, "put")
      BY <3>1, <2>0, Zenon DEF Quiet, ListenerPoll, InCommand, HasBatch, flagVars
    <3> QED
      BY <3>2, <3>3, Zenon
  <2>3. ListenerCheck(t) => TypeOK' /\ Quiet(t, "listen")
    <3> SUFFICES ASSUME ListenerCheck(t) PROVE TypeOK' /\ Quiet(t, "listen")
      BY Zenon
    <3>1. Moves(t, "listen") /\ PcOK'
      BY BlockingMoves, Zenon
    <3>2. notified' \in BOOLEAN /\ (notified => notified')
      BY Zenon DEF ListenerCheck, NotifyIf, TypeOK
    <3>3. TypeOK'
      BY <3>1, <3>2, Zenon DEF TypeOK, PcOK, Label, ListenerCheck, groupVars, queueVars, connVars, boundVars
    <3>4. Quiet(t, "listen")
      BY <3>1, <3>2, <2>0, Zenon DEF Quiet, ListenerCheck, InCommand, HasBatch, queueVars, connVars
    <3> QED
      BY <3>3, <3>4, Zenon
  <2>4. WaitEnd(t) => TypeOK' /\ Quiet(t, "run")
    <3> SUFFICES ASSUME WaitEnd(t) PROVE TypeOK' /\ Quiet(t, "run")
      BY Zenon
    <3>1. Moves(t, "run") /\ PcOK'
      BY BlockingMoves, Zenon
    <3>2. TypeOK'
      BY <3>1 DEF TypeOK, PcOK, Label, WaitEnd, flagVars, queueVars, connVars, boundVars
    <3>3. Quiet(t, "run")
      BY <3>1, <2>0, Zenon DEF Quiet, WaitEnd, InCommand, HasBatch, flagVars, queueVars, connVars
    <3> QED
      BY <3>2, <3>3, Zenon
  <2>5. Continue(t) => TypeOK' /\ Quiet(t, IF active_thread_count = 1 THEN "look" ELSE "wait")
    <3> SUFFICES ASSUME Continue(t)
                 PROVE  TypeOK' /\ Quiet(t, IF active_thread_count = 1 THEN "look" ELSE "wait")
      BY Zenon
    <3>1. Moves(t, IF active_thread_count = 1 THEN "look" ELSE "wait") /\ PcOK'
      BY BlockingMoves, Zenon
    <3>2. TypeOK'
      BY <3>1 DEF TypeOK, PcOK, Label, Continue, flagVars, queueVars, connVars, boundVars
    <3>3. Quiet(t, IF active_thread_count = 1 THEN "look" ELSE "wait")
      BY <3>1, <2>0, Zenon DEF Quiet, Continue, InCommand, HasBatch, flagVars, queueVars, connVars
    <3> QED
      BY <3>2, <3>3, Zenon
  <2>6. ContinueLook(t) => TypeOK' /\ Quiet(t, IF sql_native_queue > 0 THEN "relay" ELSE "wait")
    <3> SUFFICES ASSUME ContinueLook(t)
                 PROVE  TypeOK' /\ Quiet(t, IF sql_native_queue > 0 THEN "relay" ELSE "wait")
      BY Zenon
    <3>1. Moves(t, IF sql_native_queue > 0 THEN "relay" ELSE "wait") /\ PcOK'
      BY BlockingMoves, Zenon
    <3>2. TypeOK'
      BY <3>1, Zenon DEF TypeOK, PcOK, Label, ContinueLook, groupVars, flagVars, queueVars, connVars,
         boundVars
    <3>3. Quiet(t, IF sql_native_queue > 0 THEN "relay" ELSE "wait")
      BY <3>1, <2>0, Zenon DEF Quiet, ContinueLook, InCommand, HasBatch, flagVars, queueVars, connVars
    <3> QED
      BY <3>2, <3>3, Zenon
  <2>7. ContinueWake(t) => TypeOK' /\ Quiet(t, "wait")
    <3> SUFFICES ASSUME ContinueWake(t) PROVE TypeOK' /\ Quiet(t, "wait")
      BY Zenon
    <3>1. Moves(t, "wait") /\ PcOK' /\ waiting_threads' \in Seq(SqlThread)
      BY BlockingMoves, Zenon
    <3>2. TypeOK'
      BY <3>1, Zenon DEF TypeOK, PcOK, Label, ContinueWake, flagVars, queueVars, connVars, boundVars
    <3>3. Quiet(t, "wait")
      BY <3>1, <2>0, Zenon DEF Quiet, ContinueWake, InCommand, HasBatch, flagVars, queueVars, connVars
    <3> QED
      BY <3>2, <3>3, Zenon
  <2> QED
    BY <2>1, <2>2, <2>3, <2>4, <2>5, <2>6, <2>7, Zenon
\* So are the steps of the acceptor and of the stall checker.
<1>QuietOutside.
  ASSUME TypeOK
  PROVE  /\ AddConnection => TypeOK' /\ Quiet(Acceptor, "check")
         /\ AddConnectionCheck => TypeOK' /\ Quiet(Acceptor, "asleep")
         /\ CheckStall => TypeOK' /\ \E l \in {"stall", "asleep"} : Quiet(Timer, l)
         /\ ResolveStall => TypeOK' /\ Quiet(Timer, "asleep")
  <2> USE <1>QuietOutside
  <2>0. /\ Acceptor \in Actor /\ Acceptor \notin Worker /\ Acceptor # Ext /\ Acceptor # Tx
        /\ Timer \in Actor /\ Timer \notin Worker /\ Timer # Ext /\ Timer # Tx
    BY ActorsDiffer, Zenon
  <2>1. AddConnection => TypeOK' /\ Quiet(Acceptor, "check")
    <3> SUFFICES ASSUME AddConnection PROVE TypeOK' /\ Quiet(Acceptor, "check")
      BY Zenon
    <3>1. Moves(Acceptor, "check") /\ PcOK'
      BY OutsideMoves, Zenon
    <3>2. TypeOK'
      BY <3>1 DEF TypeOK, PcOK, Label, AddConnection, groupVars, flagVars, boundVars
    <3>3. Quiet(Acceptor, "check")
      BY <3>1, <2>0, Zenon DEF Quiet, AddConnection, flagVars
    <3> QED
      BY <3>2, <3>3, Zenon
  <2>2. AddConnectionCheck => TypeOK' /\ Quiet(Acceptor, "asleep")
    <3> SUFFICES ASSUME AddConnectionCheck PROVE TypeOK' /\ Quiet(Acceptor, "asleep")
      BY Zenon
    <3>1. Moves(Acceptor, "asleep") /\ PcOK'
      BY OutsideMoves, Zenon
    <3>2. notified' \in BOOLEAN /\ (notified => notified')
      BY Zenon DEF AddConnectionCheck, NotifyIf, TypeOK
    <3>3. TypeOK'
      BY <3>1, <3>2, Zenon DEF TypeOK, PcOK, Label, AddConnectionCheck, groupVars, queueVars, connVars,
         boundVars
    <3>4. Quiet(Acceptor, "asleep")
      BY <3>1, <3>2, <2>0, Zenon DEF Quiet, AddConnectionCheck, queueVars, connVars
    <3> QED
      BY <3>3, <3>4, Zenon
  <2>3. CheckStall => TypeOK' /\ \E l \in {"stall", "asleep"} : Quiet(Timer, l)
    <3> SUFFICES ASSUME CheckStall PROVE TypeOK' /\ \E l \in {"stall", "asleep"} : Quiet(Timer, l)
      BY Zenon
    <3>1. PICK l \in {"stall", "asleep"} : Moves(Timer, l) /\ PcOK'
      BY OutsideMoves, Zenon
    <3>2. TypeOK'
      BY <3>1, Zenon DEF TypeOK, PcOK, Label, CheckStall, groupVars, queueVars, connVars, boundVars
    <3>3. Quiet(Timer, l)
      BY <3>1, <2>0, ZenonT(40) DEF Quiet, CheckStall, queueVars, connVars
    <3> QED
      BY <3>2, <3>3, Zenon
  <2>4. ResolveStall => TypeOK' /\ Quiet(Timer, "asleep")
    <3> SUFFICES ASSUME ResolveStall PROVE TypeOK' /\ Quiet(Timer, "asleep")
      BY Zenon
    <3>1. Moves(Timer, "asleep") /\ PcOK' /\ waiting_threads' \in Seq(SqlThread)
      BY OutsideMoves, Zenon
    <3>2. TypeOK'
      BY <3>1, Zenon DEF TypeOK, PcOK, Label, ResolveStall, queueVars, connVars, boundVars
    <3>3. Quiet(Timer, "asleep")
      BY <3>1, <2>0, Zenon DEF Quiet, ResolveStall, queueVars, connVars
    <3> QED
      BY <3>2, <3>3, Zenon
  <2> QED
    BY <2>1, <2>2, <2>3, <2>4, Zenon
\* A command from sql_native_queue_ goes on on the SQL thread that took it.
<1>TakeNativeStep.
  ASSUME GroupInv, NEW t \in SqlThread, TakeNative(t)
  PROVE  GroupInv'
  <2> USE <1>TakeNativeStep
  <2> USE DEF GroupInv
  <2>0. t \in Worker /\ t \in Actor /\ t # Ext /\ t # Tx
    BY ActorsDiffer, Zenon
  <2>1. CASE sql_native_queue > 0
    <3>1. Moves(t, "blocking") /\ PcOK'
      BY <2>1, GetEventMoves, Zenon
    <3>2. /\ pc[t] = "native" /\ sql_native_queue' = sql_native_queue - 1 /\ mutex' = Nobody /\ stalled' = FALSE
          /\ batch' = [batch EXCEPT ![t] = NoBatch]
          /\ UNCHANGED << listener, active_thread_count, waiting_threads, ext_worker_active,
                    queue_event_count, notified, req_queue, resume_queue, coro_cnt, connVars, boundVars >>
      BY <2>1, Zenon DEF TakeNative, Leave, NoBatch
    <3>a. batch' \in [Worker -> [n : Nat, started : BOOLEAN]]
      BY <3>2, Zenon DEF TypeOK, NoBatch
    <3>b. sql_native_queue' \in Nat
      BY <3>2, <2>1, SMTT(60) DEF TypeOK
    <3>3. TypeOK'
      BY <3>1, <3>2, <3>a, <3>b, ZenonT(40) DEF TypeOK, PcOK, Label, connVars, boundVars
    <3>4. Rebatched(t, "blocking") /\ batch'[t] = NoBatch
      BY <3>1, <3>2, <2>0, ZenonT(40) DEF Rebatched, TypeOK, Batch, NoBatch
    <3>5. Started(batch[t]) = 0 /\ Started(batch'[t]) = 0
      BY <3>2, <3>4, <2>0 DEF NoBatchLeft, Started, NoBatch
    <3>6. Cardinality(Running') = Cardinality(Running) + 1
      BY <3>1, <3>2, <2>0, <1>RunningMore, Zenon DEF InCommand
    <3>7. IsFiniteSet(AllStarted(batch')) /\ Cardinality(AllStarted(batch')) = Cardinality(AllStarted(batch))
      BY <2>0, <3>4, <3>5, <1>StartedAfter, <1>TermsAreNat, SMTT(60)
    <3>8. CoroutinesCounted'
      BY <3>2, <3>6, <3>7, <1>TermsAreNat, SMTT(60) DEF CoroutinesCounted, connVars
    <3>9. ExtActive' /\ pc'[Ext] = pc[Ext] /\ pc'[Tx] = pc[Tx]
      BY <3>1, <3>2, <1>ExtStays, Zenon
    <3>10. ResumedIsSeen'
      BY <3>2, <3>7, <3>9, Zenon DEF ResumedIsSeen
    <3> QED
      BY <3>3, <3>4, <3>8, <3>9, <3>10, <2>0, <1>LeftAlone, Zenon
  <2>2. CASE ~(sql_native_queue > 0)
    <3>1. Moves(t, "shared") /\ PcOK'
      BY <2>2, GetEventMoves, Zenon
    <3>2. TypeOK'
      BY <3>1, <2>2, Zenon DEF TypeOK, PcOK, Label, TakeNative, connVars, boundVars
    <3>3. Quiet(t, "shared")
      BY <3>1, <2>0, <2>2, Zenon DEF Quiet, TakeNative, InCommand, HasBatch, connVars
    <3> QED
      BY <3>2, <3>3, <1>QuietStep, Zenon
  <2> QED
    BY <2>1, <2>2, Zenon
\* A SQL thread takes all resumed commands, or else all requests.
<1>TakeBatchStep.
  ASSUME GroupInv, NEW t \in SqlThread, TakeBatch(t)
  PROVE  GroupInv'
  <2> USE <1>TakeBatchStep
  <2> USE DEF GroupInv
  <2>0. /\ t \in Worker /\ t \in Actor /\ t # Ext /\ t # Tx
        /\ resume_queue \in Nat /\ req_queue \in Nat /\ pc[t] = "shared"
    BY ActorsDiffer, Zenon DEF TypeOK, TakeBatch, Leave
  <2>1. CASE resume_queue = 0 /\ req_queue = 0
    <3>1. Moves(t, "rest") /\ PcOK'
      BY <2>1, GetEventMoves, Zenon
    <3>2. /\ UNCHANGED << resume_queue, req_queue, batch, stalled, mutex >>
          /\ UNCHANGED << listener, active_thread_count, waiting_threads, ext_worker_active,
                    queue_event_count, notified, sql_native_queue, coro_cnt, connVars, boundVars >>
      BY <2>1, <2>0 DEF TakeBatch, Leave
    <3>3. TypeOK'
      BY <3>1, <3>2, Zenon DEF TypeOK, PcOK, Label, connVars, boundVars
    <3>4. Quiet(t, "rest")
      BY <3>1, <3>2, <2>0, Zenon DEF Quiet, InCommand, HasBatch, connVars
    <3> QED
      BY <3>3, <3>4, <1>QuietStep, Zenon
  <2>2. CASE ~(resume_queue = 0 /\ req_queue = 0)
    <3>1. Moves(t, "batch") /\ PcOK'
      BY <2>2, GetEventMoves, Zenon
    <3> DEFINE r == IF resume_queue > 0 THEN [n |-> resume_queue, started |-> TRUE]
                    ELSE [n |-> req_queue, started |-> FALSE]
    <3>a. r \in Batch /\ Started(r) = resume_queue
      BY <2>0 DEF Batch, Started
    <3>b. /\ batch' = [batch EXCEPT ![t] = r]
          /\ resume_queue' = 0 /\ req_queue' \in Nat
          /\ mutex' = Nobody /\ stalled' = FALSE
          /\ UNCHANGED << listener, active_thread_count, waiting_threads, ext_worker_active,
                    queue_event_count, notified, sql_native_queue, coro_cnt, connVars, boundVars >>
      <4>1. CASE resume_queue > 0
        BY <4>1, <2>0, <2>2, SMTT(60) DEF TakeBatch, Leave
      <4>2. CASE resume_queue = 0
        BY <4>2, <2>0, <2>2, SMTT(60) DEF TakeBatch, Leave
      <4>3. resume_queue > 0 \/ resume_queue = 0
        BY <2>0
      <4> QED
        BY <4>1, <4>2, <4>3, Zenon
    <3> HIDE DEF r
    <3>2. /\ r \in Batch /\ batch' = [batch EXCEPT ![t] = r]
          /\ Started(r) = resume_queue /\ resume_queue' = 0 /\ req_queue' \in Nat
          /\ mutex' = Nobody /\ stalled' = FALSE
          /\ UNCHANGED << listener, active_thread_count, waiting_threads, ext_worker_active,
                    queue_event_count, notified, sql_native_queue, coro_cnt, connVars, boundVars >>
      BY <3>a, <3>b, Zenon
    <3>3. TypeOK'
      BY <3>1, <3>2, ZenonT(40) DEF TypeOK, PcOK, Label, Batch, connVars, boundVars
    <3>4. Rebatched(t, "batch") /\ batch'[t] = r
      BY <3>1, <3>2, <2>0, ZenonT(40) DEF Rebatched, TypeOK, Batch, HasBatch
    <3>5. Started(batch[t]) = 0 /\ Started(batch'[t]) = resume_queue
      BY <3>2, <3>4, <2>0, SMTT(60) DEF NoBatchLeft, Started
    <3>6. Running' = Running
      BY <3>1, <2>0, <1>RunningSame, ZenonT(40) DEF InCommand
    <3>7. /\ IsFiniteSet(AllStarted(batch'))
          /\ Cardinality(AllStarted(batch')) = Cardinality(AllStarted(batch)) + resume_queue
      BY <2>0, <3>4, <3>5, <1>StartedAfter, <1>TermsAreNat, SMTT(60)
    <3>8. CoroutinesCounted'
      BY <3>2, <3>6, <3>7, <1>TermsAreNat, SMTT(60) DEF CoroutinesCounted, connVars
    <3>9. ExtActive' /\ pc'[Ext] = pc[Ext] /\ pc'[Tx] = pc[Tx]
      BY <3>1, <3>2, <1>ExtStays, ZenonT(40)
    <3>10. ResumedIsSeen'
      BY <3>2, <3>7, <3>9, <1>TermsAreNat, SMTT(60) DEF ResumedIsSeen
    <3> QED
      BY <3>3, <3>4, <3>8, <3>9, <3>10, <2>0, <1>LeftAlone, Zenon
  <2> QED
    BY <2>1, <2>2, Zenon
\* A thread that ends had nothing left.
<1>ExitStep.
  ASSUME GroupInv, NEW t \in SqlThread, Exit(t)
  PROVE  GroupInv'
  <2> USE <1>ExitStep
  <2> USE DEF GroupInv
  <2>0. t \in Worker /\ t \in Actor /\ t # Ext /\ t # Tx
    BY ActorsDiffer, Zenon
  <2>1. Moves(t, "none") /\ PcOK'
    BY GetEventMoves, Zenon
  <2>2. /\ pc[t] = "gone" /\ mutex' = Nobody /\ stalled' = FALSE
        /\ batch' = [batch EXCEPT ![t] = NoBatch]
        /\ UNCHANGED << listener, active_thread_count, waiting_threads, ext_worker_active,
                    queue_event_count, notified, queueVars, coro_cnt, connVars, boundVars >>
    BY Zenon DEF Exit, Leave, NoBatch
  <2>3. TypeOK'
    BY <2>1, <2>2, Zenon DEF TypeOK, PcOK, Label, NoBatch, queueVars, connVars, boundVars
  <2>4. Rebatched(t, "none") /\ batch'[t] = NoBatch
    BY <2>0, <2>1, <2>2, ZenonT(40) DEF Rebatched, TypeOK, Batch, NoBatch
  <2>5. Started(batch[t]) = 0 /\ Started(batch'[t]) = 0
    BY <2>0, <2>2, <2>4, SMTT(60) DEF NoBatchLeft, Started, NoBatch
  <2>6. Running' = Running
    BY <2>0, <2>1, <2>2, <1>RunningSame, Zenon DEF InCommand
  <2>7. IsFiniteSet(AllStarted(batch')) /\ Cardinality(AllStarted(batch')) = Cardinality(AllStarted(batch))
    BY <2>0, <2>4, <2>5, <1>StartedAfter, <1>TermsAreNat, SMTT(60)
  <2>8. CoroutinesCounted'
    BY <2>2, <2>6, <2>7, <1>TermsAreNat, Zenon DEF CoroutinesCounted, connVars, queueVars
  <2>9. ExtActive' /\ pc'[Ext] = pc[Ext] /\ pc'[Tx] = pc[Tx]
    BY <2>1, <2>2, <1>ExtStays, Zenon
  <2>10. ResumedIsSeen'
    BY <2>2, <2>7, <2>9, Zenon DEF ResumedIsSeen, queueVars
  <2> QED
    BY <2>0, <2>3, <2>4, <2>8, <2>9, <2>10, <1>LeftAlone, ZenonT(40)
\* A worker that runs its batch leaves the external worker as active as it was.
<1>WorkerStays.
  ASSUME ExtActive, NEW w \in Worker, NEW l, Moves(w, l), ext_worker_active' <=> ext_worker_active,
         w = Ext => pc[w] \in ExtBusy /\ l \in ExtBusy
  PROVE  ExtActive' /\ (pc[Ext] # "asleep" => pc'[Ext] # "asleep") /\ pc'[Tx] = pc[Tx]
  <2> USE <1>WorkerStays
  <2>1. pc'[Tx] = pc[Tx]
    BY ActorsDiffer, Zenon DEF Moves
  <2>2. CASE w = Ext
    BY <2>1, <2>2, Zenon DEF Moves, ExtActive, ExtBusy
  <2>3. CASE w # Ext
    <3>1. pc'[Ext] = pc[Ext]
      BY <2>3, ActorsDiffer, Zenon DEF Moves
    <3> QED
      BY <2>1, <3>1, Zenon DEF ExtActive
  <2> QED
    BY <2>2, <2>3, Zenon
\* PrepareCoroutine() counts a command that starts; one that had started moves
\* from the batch to its worker.
<1>RunNextStep.
  ASSUME GroupInv, NEW w \in Worker, RunNext(w)
  PROVE  GroupInv'
  <2> USE <1>RunNextStep
  <2> USE DEF GroupInv
  <2>1. Moves(w, "run") /\ PcOK'
    BY RunBatchMoves, Zenon
  <2>2. /\ pc[w] = "batch" /\ batch[w].n > 0
        /\ batch' = [batch EXCEPT ![w].n = @ - 1]
        /\ coro_cnt' = IF batch[w].started THEN coro_cnt ELSE coro_cnt + 1
        /\ UNCHANGED << groupVars, flagVars, queueVars, connVars, boundVars >>
    BY Zenon DEF RunNext
  <2>3. /\ batch' \in [Worker -> Batch] /\ batch'[w].n = batch[w].n - 1
        /\ batch'[w].started = batch[w].started
        /\ \A v \in Worker \ {w} : batch'[v] = batch[v]
    <3>1. batch \in [Worker -> Batch] /\ batch[w] \in Batch /\ batch[w].n \in Nat
      BY Zenon DEF TypeOK, Batch
    <3>2. batch' = [batch EXCEPT ![w] = [batch[w] EXCEPT !.n = batch[w].n - 1]]
      BY <2>2, Zenon
    <3>3. batch[w].n - 1 \in Nat
      BY <2>2, <3>1
    <3>4. [batch[w] EXCEPT !.n = batch[w].n - 1] \in Batch
      BY <3>1, <3>3, Zenon DEF Batch
    <3> QED
      BY <3>1, <3>2, <3>3, <3>4, Zenon DEF Batch
  <2>4. coro_cnt' \in Nat
    BY <2>2, <1>SuccIsNat, Zenon DEF TypeOK
  <2>5. TypeOK'
    BY <2>1, <2>2, <2>3, <2>4, Zenon DEF TypeOK, PcOK, Label, Batch, groupVars, flagVars, queueVars,
       connVars, boundVars
  <2>6. Rebatched(w, "run")
    BY <2>1, <2>3, Zenon DEF Rebatched, HasBatch
  <2>7. Started(batch'[w]) = IF batch[w].started THEN Started(batch[w]) - 1 ELSE Started(batch[w])
    BY <2>3, Zenon DEF Started
  <2>8. Cardinality(Running') = Cardinality(Running) + 1
    BY <2>1, <2>2, <1>RunningMore, ZenonT(40) DEF InCommand
  <2>9. /\ IsFiniteSet(AllStarted(batch'))
        /\ Cardinality(AllStarted(batch'))
             = IF batch[w].started THEN Cardinality(AllStarted(batch)) - 1 ELSE Cardinality(AllStarted(batch))
    BY <2>6, <2>7, <1>StartedAfter, <1>TermsAreNat, SMTT(60)
  <2>10. tx' = tx /\ resume_queue' = resume_queue /\ sql_native_queue' = sql_native_queue
    BY <2>2, Zenon DEF queueVars, connVars
  <2>11. CoroutinesCounted'
    BY <2>2, <2>8, <2>9, <2>10, <1>TermsAreNat, SMTT(60) DEF CoroutinesCounted
  <2>12. ExtActive' /\ (pc[Ext] # "asleep" => pc'[Ext] # "asleep") /\ pc'[Tx] = pc[Tx]
    BY <2>1, <2>2, <1>WorkerStays, Zenon DEF ExtBusy, flagVars
  <2>13. ResumedIsSeen'
    BY <2>2, <2>9, <2>10, <2>12, <1>TermsAreNat, SMTT(60) DEF ResumedIsSeen, flagVars
  <2> QED
    BY <2>5, <2>6, <2>11, <2>12, <2>13, <1>LeftAlone, Zenon
\* FinishCoroutine() subtracts what PrepareCoroutine() counted.
<1>FinishStep.
  ASSUME GroupInv, NEW w \in Worker, Finish(w)
  PROVE  GroupInv'
  <2> USE <1>FinishStep
  <2> USE DEF GroupInv
  <2>1. Moves(w, "batch") /\ PcOK'
    BY RunBatchMoves, Zenon
  <2>2. /\ pc[w] = "run" /\ coro_cnt' = coro_cnt - 1 /\ idle' = idle + 1
        /\ UNCHANGED << groupVars, flagVars, queueVars, batch, outside, ready, tx, boundVars >>
    BY Zenon DEF Finish
  <2>3. Cardinality(Running') = Cardinality(Running) - 1
    BY <2>1, <2>2, <1>RunningLess, Zenon DEF InCommand
  <2>4. Cardinality(Running') \in Nat
    BY WorkersFiniteNext, Zenon
  <2>5. tx' = tx /\ resume_queue' = resume_queue /\ sql_native_queue' = sql_native_queue /\ batch' = batch
    BY <2>2, Zenon DEF queueVars
  <2>6. CoroutinesCounted' /\ coro_cnt' \in Nat
    BY <2>2, <2>3, <2>4, <2>5, <1>TermsAreNat, SMTT(60) DEF CoroutinesCounted
  <2>7. TypeOK'
    BY <2>1, <2>2, <2>6, SMTT(60) DEF TypeOK, PcOK, Label, groupVars, flagVars, queueVars, boundVars
  <2>8. Rebatched(w, "batch")
    BY <2>1, <2>5, Zenon DEF Rebatched, HasBatch, TypeOK, Batch
  <2>9. ExtActive' /\ (pc[Ext] # "asleep" => pc'[Ext] # "asleep") /\ pc'[Tx] = pc[Tx]
    BY <2>1, <2>2, <1>WorkerStays, Zenon DEF ExtBusy, flagVars
  <2>10. ResumedIsSeen'
    BY <2>2, <2>5, <2>9, Zenon DEF ResumedIsSeen, flagVars
  <2> QED
    BY <2>6, <2>7, <2>8, <2>9, <2>10, <1>LeftAlone, ZenonT(40)
\* A command that yields is with the transaction service.
<1>YieldStep.
  ASSUME GroupInv, NEW w \in Worker, Yield(w)
  PROVE  GroupInv'
  <2> USE <1>YieldStep
  <2> USE DEF GroupInv
  <2>1. Moves(w, "batch") /\ PcOK'
    BY RunBatchMoves, Zenon
  <2>2. /\ pc[w] = "run" /\ tx' = tx + 1 /\ yields' = yields + 1
        /\ UNCHANGED << groupVars, flagVars, queueVars, coro_cnt, batch, outside, idle, ready,
                    sent, waits, handovers, timeouts >>
    BY Zenon DEF Yield
  <2>3. Cardinality(Running') = Cardinality(Running) - 1
    BY <2>1, <2>2, <1>RunningLess, Zenon DEF InCommand
  <2>5. /\ coro_cnt' = coro_cnt /\ resume_queue' = resume_queue /\ sql_native_queue' = sql_native_queue
        /\ batch' = batch
    BY <2>2, Zenon DEF queueVars
  <2>6. CoroutinesCounted'
    BY <2>2, <2>3, <2>5, <1>TermsAreNat, SMTT(60) DEF CoroutinesCounted
  <2>7. TypeOK'
    BY <2>1, <2>2, SMTT(60) DEF TypeOK, PcOK, Label, groupVars, flagVars, queueVars
  <2>8. Rebatched(w, "batch")
    BY <2>1, <2>5, Zenon DEF Rebatched, HasBatch, TypeOK, Batch
  <2>9. ExtActive' /\ (pc[Ext] # "asleep" => pc'[Ext] # "asleep") /\ pc'[Tx] = pc[Tx]
    BY <2>1, <2>2, <1>WorkerStays, Zenon DEF ExtBusy, flagVars
  <2>10. ResumedIsSeen'
    BY <2>2, <2>5, <2>9, Zenon DEF ResumedIsSeen, flagVars
  <2> QED
    BY <2>6, <2>7, <2>8, <2>9, <2>10, <1>LeftAlone, ZenonT(40)
\* At the end of a round the batch is empty.
<1>WorkerPollStep.
  ASSUME GroupInv, NEW w \in Worker, WorkerPoll(w)
  PROVE  GroupInv'
  <2> USE <1>WorkerPollStep
  <2> USE DEF GroupInv
  <2>1. PICK l \in {"again", "loop"} : Moves(w, l) /\ PcOK' /\ (w = Ext => l = "again")
    BY RunBatchMoves, Zenon
  <2>2. /\ pc[w] = "batch" /\ batch[w].n = 0 /\ req_queue' = req_queue + ready /\ ready' = 0
        /\ batch' = [batch EXCEPT ![w] = NoBatch]
        /\ UNCHANGED << groupVars, flagVars, resume_queue, sql_native_queue, coro_cnt,
                    outside, idle, tx, boundVars >>
    BY Zenon DEF WorkerPoll
  <2>3. /\ batch' \in [Worker -> Batch] /\ batch'[w] = NoBatch
        /\ \A v \in Worker \ {w} : batch'[v] = batch[v]
    BY <2>2, ZenonT(40) DEF TypeOK, Batch, NoBatch
  <2>4. TypeOK'
    BY <2>1, <2>2, <2>3, SMTT(60) DEF TypeOK, PcOK, Label, Batch, groupVars, flagVars, boundVars
  <2>5. Rebatched(w, l)
    BY <2>1, <2>3 DEF Rebatched, NoBatch
  <2>6. Started(batch[w]) = 0 /\ Started(batch'[w]) = 0
    BY <2>2, <2>3, Zenon DEF Started, NoBatch
  <2>7. Running' = Running
    BY <2>1, <2>2, <1>RunningSame, ActorsDiffer, Zenon DEF InCommand
  <2>8. IsFiniteSet(AllStarted(batch')) /\ Cardinality(AllStarted(batch')) = Cardinality(AllStarted(batch))
    BY <2>5, <2>6, <1>StartedAfter, <1>TermsAreNat, SMTT(60)
  <2>9. CoroutinesCounted'
    BY <2>2, <2>7, <2>8, <1>TermsAreNat, Zenon DEF CoroutinesCounted
  <2>10. ExtActive' /\ (pc[Ext] # "asleep" => pc'[Ext] # "asleep") /\ pc'[Tx] = pc[Tx]
    BY <2>1, <2>2, <1>WorkerStays, Zenon DEF ExtBusy, flagVars
  <2>11. ResumedIsSeen'
    BY <2>2, <2>8, <2>10, Zenon DEF ResumedIsSeen, flagVars
  <2> QED
    BY <2>4, <2>5, <2>9, <2>10, <2>11, <1>LeftAlone, ZenonT(40)
\* wait_begin() puts the rest of the batch back where it came from.
<1>WaitBeginStep.
  ASSUME GroupInv, NEW t \in SqlThread, WaitBegin(t)
  PROVE  GroupInv'
  <2> USE <1>WaitBeginStep
  <2> USE DEF GroupInv
  <2>0. t \in Worker /\ t \in Actor /\ t # Ext /\ t # Tx
    BY ActorsDiffer, Zenon
  <2>1. Moves(t, "wait") /\ PcOK' /\ waiting_threads' \in Seq(SqlThread)
    BY BlockingMoves, Zenon
  <2>2. /\ pc[t] = "run" /\ waits' = waits + 1 /\ active_thread_count' = active_thread_count - 1
        /\ IF batch[t].started
           THEN resume_queue' = resume_queue + batch[t].n /\ UNCHANGED req_queue
           ELSE req_queue' = req_queue + batch[t].n /\ UNCHANGED resume_queue
        /\ batch' = [batch EXCEPT ![t].n = 0]
        /\ UNCHANGED << mutex, listener, flagVars, sql_native_queue, coro_cnt, connVars,
                    sent, yields, handovers, timeouts >>
    BY Zenon DEF WaitBegin
  <2>3. /\ batch' \in [Worker -> Batch] /\ batch'[t].n = 0
        /\ \A v \in Worker \ {t} : batch'[v] = batch[v]
    BY <2>0, <2>2, Zenon DEF TypeOK, Batch
  <2>4. resume_queue' = resume_queue + Started(batch[t]) /\ resume_queue' \in Nat /\ req_queue' \in Nat
    <3>1. batch[t] \in Batch /\ batch[t].n \in Nat /\ resume_queue \in Nat /\ req_queue \in Nat
      BY <2>0, Zenon DEF TypeOK, Batch
    <3>2. CASE batch[t].started
      BY <3>1, <3>2, <2>2, SMTT(60) DEF Started
    <3>3. CASE ~batch[t].started
      BY <3>1, <3>3, <2>2, SMTT(60) DEF Started
    <3> QED
      BY <3>2, <3>3, Zenon
  <2>a. active_thread_count' \in Int /\ waits' \in Nat
    <3>1. active_thread_count' = active_thread_count - 1 /\ waits' = waits + 1
      BY <2>2, Zenon
    <3> QED
      BY <3>1 DEF TypeOK
  <2>b. /\ mutex' = mutex /\ listener' = listener /\ sql_native_queue' = sql_native_queue
        /\ coro_cnt' = coro_cnt /\ UNCHANGED << flagVars, connVars, sent, yields, handovers, timeouts >>
    BY <2>2, Zenon
  <2>5. TypeOK'
    BY <2>1, <2>a, <2>b, <2>3, <2>4, ZenonT(40) DEF TypeOK, PcOK, Label, Batch, flagVars, connVars
  <2>6. Rebatched(t, "wait")
    BY <2>1, <2>3, Zenon DEF Rebatched
  <2>7. Started(batch'[t]) = 0
    BY <2>3, Zenon DEF Started
  <2>8. Running' = Running
    BY <2>0, <2>1, <2>2, <1>RunningSame, Zenon DEF InCommand
  <2>9. /\ IsFiniteSet(AllStarted(batch')) /\ Started(batch[t]) \in Nat
        /\ Cardinality(AllStarted(batch)) >= Started(batch[t])
        /\ Cardinality(AllStarted(batch')) = Cardinality(AllStarted(batch)) - Started(batch[t])
    BY <2>0, <2>6, <2>7, <1>StartedAfter, <1>TermsAreNat, SMTT(60)
  <2>10. CoroutinesCounted'
    BY <2>2, <2>4, <2>8, <2>9, <1>TermsAreNat, SMTT(60) DEF CoroutinesCounted, connVars
  <2>11. ExtActive' /\ pc'[Ext] = pc[Ext] /\ pc'[Tx] = pc[Tx]
    BY <2>1, <2>2, <1>ExtStays, Zenon DEF flagVars
  <2>12. ResumedIsSeen'
    <3>1. resume_queue' > 0 \/ Cardinality(AllStarted(batch')) > 0
            => resume_queue > 0 \/ Cardinality(AllStarted(batch)) > 0
      BY <2>4, <2>9, <1>TermsAreNat, SMTT(60)
    <3> QED
      BY <2>2, <2>11, <3>1, Zenon DEF ResumedIsSeen, flagVars
  <2> QED
    BY <2>0, <2>5, <2>6, <2>10, <2>11, <2>12, <1>LeftAlone, ZenonT(40)
\* It keeps what it had, and the rest is as the arithmetic says.
<1>ExtQuietStep.
  ASSUME GroupInv, NEW l, ExtQuiet(l), sql_native_queue' \in Nat,
         sql_native_queue' + Cardinality(Running') = sql_native_queue + Cardinality(Running),
         l # "asleep" \/ coro_cnt = 0
  PROVE  NoBatchLeft' /\ ExtActive' /\ CoroutinesCounted' /\ ResumedIsSeen'
  <2> USE <1>ExtQuietStep
  <2> USE DEF GroupInv
  <2>1. /\ Moves(Ext, l) /\ batch' = batch /\ coro_cnt' = coro_cnt /\ tx' = tx
        /\ resume_queue' = resume_queue /\ (ext_worker_active' <=> l \in ExtBusy)
        /\ (pc[Ext] \in HasBatch => l \in HasBatch)
    BY Zenon DEF ExtQuiet
  <2>2. Ext \in Worker /\ pc'[Ext] = l
    BY <2>1, ActorsDiffer, Zenon DEF Moves
  <2>3. NoBatchLeft'
    <3>1. Rebatched(Ext, l)
      BY <2>1, <2>2, Zenon DEF Rebatched, TypeOK, Batch, NoBatchLeft, HasBatch
    <3> QED
      BY <2>2, <3>1, <1>LeftAlone, Zenon
  <2>4. ExtActive'
    BY <2>1, <2>2, Zenon DEF ExtActive, ExtBusy
  <2>5. CoroutinesCounted'
    <3>1. Cardinality(Running') \in Nat
      BY WorkersFiniteNext, Zenon
    <3>2. coro_cnt = tx + resume_queue + sql_native_queue' + Cardinality(Running') + Cardinality(AllStarted(batch))
      BY <3>1, <1>TermsAreNat
    <3> QED
      BY <2>1, <3>2, Zenon DEF CoroutinesCounted
  <2>6. ResumedIsSeen'
    <3>1. CASE l # "asleep"
      BY <3>1, <2>2, Zenon DEF ResumedIsSeen
    <3>2. CASE coro_cnt = 0
      <4>1. resume_queue = 0 /\ Cardinality(AllStarted(batch)) = 0
        <5> DEFINE R == Cardinality(Running)
                   S == Cardinality(AllStarted(batch))
        <5>1. /\ tx \in Nat /\ resume_queue \in Nat /\ sql_native_queue \in Nat /\ R \in Nat /\ S \in Nat
              /\ tx + resume_queue + sql_native_queue + R + S = 0
          BY <3>2, <1>TermsAreNat, Zenon
        <5> HIDE DEF R, S
        <5>2. resume_queue = 0 /\ S = 0
          BY <5>1
        <5> QED
          BY <5>2, Zenon DEF S
      <4> QED
        BY <4>1, <2>1 DEF ResumedIsSeen
    <3> QED
      BY <3>1, <3>2, Zenon
  <2> QED
    BY <2>3, <2>4, <2>5, <2>6, ZenonT(40)
\* The steps of ExtThdStart(), ExtThdEnd() and of the loop around them.
<1>ExtLoopStep.
  ASSUME GroupInv, HandOver \/ ExtThdStart \/ ExtAgain \/ ExtThdEnd \/ ExtThdEndWake \/ ExtSleep
  PROVE  GroupInv'
  <2> USE <1>ExtLoopStep
  <2> USE DEF GroupInv
  <2>0. Ext \in Worker /\ Ext \in Actor
    BY ActorsDiffer, Zenon
  <2>q. ASSUME NEW l, ExtQuiet(l), TypeOK', sql_native_queue' = sql_native_queue,
               pc[Ext] \in InCommand <=> l \in InCommand, l # "asleep" \/ coro_cnt = 0
        PROVE  GroupInv'
    <3>1. Running' = Running
      BY <2>0, <2>q, <1>RunningSame, Zenon DEF ExtQuiet
    <3>2. sql_native_queue' \in Nat /\ sql_native_queue' + Cardinality(Running') = sql_native_queue + Cardinality(Running)
      BY <3>1, <2>q, ZenonT(40) DEF TypeOK
    <3> QED
      BY <3>2, <2>q, <1>ExtQuietStep, Zenon
  <2>1. CASE HandOver
    <3>1. Moves(Ext, "enqueue") /\ PcOK' /\ waiting_threads' \in Seq(SqlThread)
      BY <2>1, ExtMoves, Zenon
    <3>2. /\ pc[Ext] = "run" /\ mutex' = Ext /\ handovers' = handovers + 1
          /\ UNCHANGED << listener, active_thread_count, flagVars, queueVars, coro_cnt, batch, connVars,
                    sent, yields, waits, timeouts >>
      BY <2>1, ZenonT(40) DEF HandOver
    <3>3. TypeOK'
      BY <3>1, <3>2, <2>0, SMTT(60) DEF TypeOK, PcOK, Label, flagVars, queueVars, connVars
    <3>4. ExtQuiet("enqueue")
      BY <3>1, <3>2, Zenon DEF ExtQuiet, ExtActive, ExtBusy, HasBatch, flagVars, queueVars, connVars
    <3> QED
      BY <3>2, <3>3, <3>4, <2>q, Zenon DEF InCommand, queueVars
  <2>2. CASE ExtThdStart
    <3>1. Moves(Ext, "process") /\ PcOK'
      BY <2>2, ExtMoves, Zenon
    <3>2. /\ pc[Ext] \in {"asleep", "settle"} /\ notified' = FALSE /\ ext_worker_active' = TRUE
          /\ UNCHANGED << groupVars, stalled, queue_event_count, queueVars, coro_cnt, batch,
                    connVars, boundVars >>
      BY <2>2, Zenon DEF ExtThdStart
    <3>3. TypeOK'
      BY <3>1, <3>2, ZenonT(40) DEF TypeOK, PcOK, Label, groupVars, queueVars, connVars, boundVars
    <3>4. ExtQuiet("process")
      BY <3>1, <3>2, Zenon DEF ExtQuiet, ExtBusy, HasBatch, queueVars, connVars
    <3> QED
      BY <3>2, <3>3, <3>4, <2>q, Zenon DEF InCommand, queueVars
  <2>3. CASE ExtAgain
    <3>1. PICK l \in {"process", "end"} : Moves(Ext, l) /\ PcOK'
      BY <2>3, ExtMoves, Zenon
    <3>2. /\ pc[Ext] = "again"
          /\ UNCHANGED << groupVars, flagVars, queueVars, coro_cnt, batch, connVars, boundVars >>
      BY <2>3, Zenon DEF ExtAgain
    <3>3. TypeOK'
      BY <3>1, <3>2, ZenonT(40) DEF TypeOK, PcOK, Label, groupVars, flagVars, queueVars, connVars, boundVars
    <3>4. ExtQuiet(l)
      BY <3>1, <3>2, Zenon DEF ExtQuiet, ExtActive, ExtBusy, HasBatch, flagVars, queueVars, connVars
    <3> QED
      BY <3>1, <3>2, <3>3, <3>4, <2>q, ZenonT(40) DEF InCommand, queueVars
  <2>4. CASE ExtThdEnd
    <3>1. Moves(Ext, "handback") /\ PcOK'
      BY <2>4, ExtMoves, Zenon
    <3>2. /\ pc[Ext] = "end" /\ ext_worker_active' = FALSE
          /\ UNCHANGED << groupVars, stalled, queue_event_count, notified, queueVars, coro_cnt, batch,
                    connVars, boundVars >>
      BY <2>4, Zenon DEF ExtThdEnd
    <3>3. TypeOK'
      BY <3>1, <3>2, ZenonT(40) DEF TypeOK, PcOK, Label, groupVars, queueVars, connVars, boundVars
    <3>4. ExtQuiet("handback")
      BY <3>1, <3>2, Zenon DEF ExtQuiet, ExtBusy, HasBatch, queueVars, connVars
    <3> QED
      BY <3>2, <3>3, <3>4, <2>q, Zenon DEF InCommand, queueVars
  <2>5. CASE ExtThdEndWake
    <3>1. Moves(Ext, "settle") /\ PcOK' /\ waiting_threads' \in Seq(SqlThread)
      BY <2>5, ExtMoves, Zenon
    <3>2. /\ pc[Ext] = "handback"
          /\ UNCHANGED << mutex, listener, active_thread_count, flagVars, queueVars, coro_cnt, batch,
                    connVars, boundVars >>
      BY <2>5, Zenon DEF ExtThdEndWake
    <3>3. TypeOK'
      BY <3>1, <3>2, ZenonT(40) DEF TypeOK, PcOK, Label, flagVars, queueVars, connVars, boundVars
    <3>4. ExtQuiet("settle")
      BY <3>1, <3>2, Zenon DEF ExtQuiet, ExtActive, ExtBusy, HasBatch, flagVars, queueVars, connVars
    <3> QED
      BY <3>2, <3>3, <3>4, <2>q, Zenon DEF InCommand, queueVars
  <2>6. CASE ExtSleep
    <3>1. Moves(Ext, "asleep") /\ PcOK'
      BY <2>6, ExtMoves, Zenon
    <3>2. /\ pc[Ext] = "settle" /\ ~HasTask
          /\ UNCHANGED << groupVars, flagVars, queueVars, coro_cnt, batch, connVars, boundVars >>
      BY <2>6, Zenon DEF ExtSleep
    <3>3. TypeOK'
      BY <3>1, <3>2, ZenonT(40) DEF TypeOK, PcOK, Label, groupVars, flagVars, queueVars, connVars, boundVars
    <3>4. ExtQuiet("asleep")
      BY <3>1, <3>2, Zenon DEF ExtQuiet, ExtActive, ExtBusy, HasBatch, flagVars, queueVars, connVars
    <3>5. coro_cnt = 0
      BY <3>2 DEF HasTask, TypeOK
    <3> QED
      BY <3>2, <3>3, <3>4, <3>5, <2>q, Zenon DEF InCommand, queueVars
  <2> QED
    BY <2>1, <2>2, <2>3, <2>4, <2>5, <2>6, ZenonT(40)
\* A command passed on moves from the external worker to sql_native_queue_.
<1>EnqueueStep.
  ASSUME GroupInv, HandOverEnqueue
  PROVE  GroupInv'
  <2> USE <1>EnqueueStep
  <2> USE DEF GroupInv
  <2>1. Moves(Ext, "batch") /\ PcOK'
    BY ExtMoves, Zenon
  <2>2. /\ pc[Ext] = "enqueue" /\ sql_native_queue' = sql_native_queue + 1 /\ mutex' = Nobody
        /\ UNCHANGED << listener, active_thread_count, waiting_threads, flagVars, req_queue, resume_queue,
                    coro_cnt, batch, connVars, boundVars >>
    BY Zenon DEF HandOverEnqueue
  <2>3. TypeOK'
    BY <2>1, <2>2, SMTT(60) DEF TypeOK, PcOK, Label, flagVars, connVars, boundVars
  <2>4. ExtQuiet("batch")
    BY <2>1, <2>2, Zenon DEF ExtQuiet, ExtActive, ExtBusy, HasBatch, flagVars, connVars
  <2>5. Cardinality(Running') = Cardinality(Running) - 1
    BY <2>1, <2>2, <1>RunningLess, ActorsDiffer, Zenon DEF InCommand
  <2>6. sql_native_queue' \in Nat /\ sql_native_queue' + Cardinality(Running') = sql_native_queue + Cardinality(Running)
    <3>1. sql_native_queue \in Nat /\ Cardinality(Running) \in Nat
      BY <1>TermsAreNat, Zenon
    <3>2. sql_native_queue' = sql_native_queue + 1
      BY <2>2, Zenon
    <3> QED
      BY <3>1, <3>2, <2>5, SMTT(60)
  <2> QED
    BY <2>3, <2>4, <2>6, <1>ExtQuietStep, Zenon
\* Process() takes all resumed commands, or else all requests.
<1>ProcessStep.
  ASSUME GroupInv, Process
  PROVE  GroupInv'
  <2> USE <1>ProcessStep
  <2> USE DEF GroupInv
  <2>0. Ext \in Worker /\ Ext \in Actor /\ resume_queue \in Nat /\ req_queue \in Nat
    BY ActorsDiffer, Zenon DEF TypeOK
  <2>1. Moves(Ext, "batch") /\ PcOK'
    BY ExtMoves, Zenon
  <2> DEFINE r == IF resume_queue > 0 THEN [n |-> resume_queue, started |-> TRUE]
                  ELSE [n |-> req_queue, started |-> FALSE]
  <2>2. r \in Batch /\ Started(r) = resume_queue
    BY <2>0 DEF Batch, Started
  <2>3. /\ pc[Ext] = "process" /\ queue_event_count' = TRUE
        /\ batch' = [batch EXCEPT ![Ext] = r] /\ resume_queue' = 0 /\ req_queue' \in Nat
        /\ UNCHANGED << groupVars, ext_worker_active, stalled, notified, sql_native_queue,
                    coro_cnt, connVars, boundVars >>
    <3>1. CASE resume_queue > 0
      BY <3>1, <2>0, Zenon DEF Process
    <3>2. CASE resume_queue = 0
      BY <3>2, <2>0, Zenon DEF Process
    <3>3. resume_queue > 0 \/ resume_queue = 0
      BY <2>0
    <3> QED
      BY <3>1, <3>2, <3>3, Zenon
  <2> HIDE DEF r
  <2>4. TypeOK'
    BY <2>1, <2>2, <2>3, ZenonT(40) DEF TypeOK, PcOK, Label, Batch, groupVars, connVars, boundVars
  <2>5. Rebatched(Ext, "batch") /\ batch'[Ext] = r
    BY <2>0, <2>1, <2>2, <2>3, ZenonT(40) DEF Rebatched, TypeOK, Batch, HasBatch
  <2>6. Started(batch[Ext]) = 0 /\ Started(batch'[Ext]) = resume_queue
    BY <2>0, <2>2, <2>3, <2>5, SMTT(60) DEF NoBatchLeft, Started
  <2>7. Running' = Running
    BY <2>0, <2>1, <2>3, <1>RunningSame, ZenonT(40) DEF InCommand
  <2>8. /\ IsFiniteSet(AllStarted(batch'))
        /\ Cardinality(AllStarted(batch')) = Cardinality(AllStarted(batch)) + resume_queue
    BY <2>0, <2>5, <2>6, <1>StartedAfter, <1>TermsAreNat, SMTT(60)
  <2>9. CoroutinesCounted'
    BY <2>3, <2>7, <2>8, <1>TermsAreNat, SMTT(60) DEF CoroutinesCounted, connVars
  <2>10. ExtActive' /\ pc'[Ext] # "asleep"
    BY <2>1, <2>3, Zenon DEF ExtActive, Moves
  <2>11. ResumedIsSeen'
    BY <2>10, Zenon DEF ResumedIsSeen
  <2> QED
    BY <2>0, <2>4, <2>5, <2>9, <2>10, <2>11, <1>LeftAlone, ZenonT(40)
\* CoroutineResume() puts a yielded command in the queue and then notifies.
<1>ResumeStep.
  ASSUME GroupInv, CoroutineResume \/ CoroutineResumeCheck
  PROVE  GroupInv'
  <2> USE <1>ResumeStep
  <2> USE DEF GroupInv
  <2>0. Tx \in Actor /\ Tx \notin Worker /\ Tx # Ext
    BY ActorsDiffer, Zenon
  <2>1. CASE CoroutineResume
    <3>1. Moves(Tx, "check") /\ PcOK'
      BY <2>1, OutsideMoves, Zenon
    <3>2. /\ tx > 0 /\ tx' = tx - 1 /\ resume_queue' = resume_queue + 1
          /\ UNCHANGED << groupVars, flagVars, req_queue, sql_native_queue, coro_cnt, batch,
                    outside, idle, ready, boundVars >>
      BY <2>1, Zenon DEF CoroutineResume
    <3>3. tx' \in Nat /\ resume_queue' \in Nat
      BY <3>2, SMTT(60) DEF TypeOK
    <3>4. TypeOK'
      BY <3>1, <3>2, <3>3, ZenonT(40) DEF TypeOK, PcOK, Label, groupVars, flagVars, boundVars
    <3>5. Running' = Running /\ pc'[Ext] = pc[Ext] /\ pc'[Tx] = "check"
      BY <3>1, <2>0, <1>RunningSame, ActorsDiffer, Zenon DEF Moves
    <3>6. NoBatchLeft'
      <4>1. \A w \in Worker : pc'[w] \notin HasBatch => pc[w] \notin HasBatch
        BY <3>1, <2>0, ActorsDiffer, ZenonT(40) DEF Moves, HasBatch
      <4> QED
        BY <4>1, <3>2, Zenon DEF NoBatchLeft, HasBatch
    <3>7. CoroutinesCounted'
      BY <3>2, <3>5, <1>TermsAreNat, SMTT(60) DEF CoroutinesCounted
    <3>8. ExtActive' /\ ResumedIsSeen'
      BY <3>2, <3>5, Zenon DEF ExtActive, ResumedIsSeen, flagVars
    <3> QED
      BY <3>4, <3>6, <3>7, <3>8, Zenon
  <2>2. CASE CoroutineResumeCheck
    <3>1. Moves(Tx, "asleep") /\ PcOK'
      BY <2>2, OutsideMoves, Zenon
    <3>2. /\ notified' = (notified \/ ~ext_worker_active)
          /\ UNCHANGED << groupVars, ext_worker_active, stalled, queue_event_count, queueVars, coro_cnt,
                    batch, connVars, boundVars >>
      BY <2>2, Zenon DEF CoroutineResumeCheck, NotifyIf
    <3>3. notified' \in BOOLEAN /\ (notified' \/ ext_worker_active)
      BY <3>2, Zenon DEF TypeOK
    <3>4. TypeOK'
      BY <3>1, <3>2, <3>3, ZenonT(40) DEF TypeOK, PcOK, Label, groupVars, queueVars, connVars, boundVars
    <3>5. Running' = Running /\ pc'[Ext] = pc[Ext]
      BY <3>1, <2>0, <1>RunningSame, ActorsDiffer, Zenon DEF Moves
    <3>6. NoBatchLeft'
      <4>1. \A w \in Worker : pc'[w] \notin HasBatch => pc[w] \notin HasBatch
        BY <3>1, <2>0, ActorsDiffer, Zenon DEF Moves, HasBatch
      <4> QED
        BY <4>1, <3>2, Zenon DEF NoBatchLeft, HasBatch
    <3>7. CoroutinesCounted'
      BY <3>2, <3>5, Zenon DEF CoroutinesCounted, queueVars, connVars
    <3>8. ExtActive'
      BY <3>2, <3>5, Zenon DEF ExtActive
    <3>9. ResumedIsSeen'
      BY <3>3, <3>5, Zenon DEF ExtActive, ResumedIsSeen
    <3> QED
      BY <3>4, <3>6, <3>7, <3>8, <3>9, Zenon
  <2> QED
    BY <2>1, <2>2, Zenon
\* A client that writes to its socket, and a step that changes nothing.
<1>IdleStep.
  ASSUME GroupInv, ClientSend \/ UNCHANGED vars
  PROVE  GroupInv'
  <2> USE <1>IdleStep
  <2> USE DEF GroupInv
  <2>1. TypeOK'
    <3>1. CASE ClientSend
      BY <3>1, SMTT(60) DEF TypeOK, ClientSend, groupVars, flagVars, queueVars
    <3>2. CASE UNCHANGED vars
      BY <3>2, Zenon DEF TypeOK, vars, groupVars, flagVars, queueVars, connVars, boundVars
    <3> QED
      BY <3>1, <3>2, ZenonT(40)
  <2>2. /\ pc' = pc /\ batch' = batch /\ coro_cnt' = coro_cnt /\ tx' = tx /\ resume_queue' = resume_queue
        /\ sql_native_queue' = sql_native_queue /\ ext_worker_active' = ext_worker_active /\ notified' = notified
    BY Zenon DEF ClientSend, vars, groupVars, flagVars, queueVars, connVars, boundVars
  <2>3. Running' = Running
    BY <2>2, Zenon DEF Running
  <2> QED
    BY <2>1, <2>2, <2>3, Zenon DEF NoBatchLeft, ExtActive, CoroutinesCounted, ResumedIsSeen
<1> SUFFICES ASSUME GroupInv, [Next]_vars PROVE GroupInv'
  BY Zenon
<1>0. TypeOK
  BY Zenon DEF GroupInv
<1>1. ASSUME NEW t \in SqlThread, GetEvent(t) \/ IdleTimeout(t) PROVE GroupInv'
  <2>1. CASE TakeNative(t)
    BY <2>1, <1>TakeNativeStep, Zenon
  <2>2. CASE TakeBatch(t)
    BY <2>2, <1>TakeBatchStep, Zenon
  <2>3. CASE Exit(t)
    BY <2>3, <1>ExitStep, Zenon
  <2>4. CASE ~TakeNative(t) /\ ~TakeBatch(t) /\ ~Exit(t)
    <3>1. TypeOK' /\ \E l : Quiet(t, l)
      BY <1>0, <1>1, <2>4, <1>QuietGetEvent, Zenon DEF GetEvent
    <3> QED
      BY <3>1, <1>QuietStep, Zenon DEF GroupInv
  <2> QED
    BY <2>1, <2>2, <2>3, <2>4, Zenon
<1>2. ASSUME NEW t \in SqlThread, Listening(t) \/ Blocking(t) \/ WaitBegin(t) PROVE GroupInv'
  <2>1. CASE WaitBegin(t)
    BY <2>1, <1>WaitBeginStep, Zenon
  <2>2. CASE ~WaitBegin(t)
    <3>1. TypeOK' /\ \E l : Quiet(t, l)
      BY <1>0, <1>2, <2>2, <1>QuietBlocking, Zenon DEF Listening, Blocking
    <3> QED
      BY <3>1, <1>QuietStep, Zenon DEF GroupInv
  <2> QED
    BY <2>1, <2>2, ZenonT(40)
<1>3. ASSUME NEW w \in Worker, RunBatch(w) \/ Yield(w) PROVE GroupInv'
  BY <1>3, <1>RunNextStep, <1>FinishStep, <1>WorkerPollStep, <1>YieldStep, Zenon DEF RunBatch
<1>4. CASE AcceptorStep \/ TimerStep
  <2>1. TypeOK' /\ \E a, l : Quiet(a, l)
    BY <1>0, <1>4, <1>QuietOutside, Zenon DEF AcceptorStep, TimerStep
  <2> QED
    BY <2>1, <1>QuietStep, Zenon DEF GroupInv
<1>5. CASE TxStep
  BY <1>5, <1>ResumeStep, Zenon DEF TxStep
<1>6. CASE ExtStep
  BY <1>6, <1>3, ActorsDiffer, <1>EnqueueStep, <1>ProcessStep, <1>ExtLoopStep, Zenon DEF ExtStep
<1>7. CASE ClientSend \/ UNCHANGED vars
  BY <1>7, <1>IdleStep, Zenon
<1>8. CASE HandOver
  BY <1>8, <1>ExtLoopStep, Zenon
<1>9. ASSUME NEW t \in SqlThread, SqlStep(t) PROVE GroupInv'
  BY <1>9, <1>1, <1>2, <1>3, ActorsDiffer, Zenon DEF SqlStep
<1>10. CASE Choice
  BY <1>10, <1>1, <1>2, <1>3, <1>7, <1>8, Zenon DEF Choice
<1> QED
  BY <1>4, <1>5, <1>6, <1>7, <1>9, <1>10, Zenon DEF Next

\* It always holds.
LEMMA GroupAlways == Spec => []GroupInv
BY GroupInit, GroupNext, PTL DEF Spec

\* The counters and queues of a group keep their types; in particular
\* coro_cnt_, which FinishCoroutine() decrements without a test, never
\* becomes negative (sql/threadpool_common.cc).
THEOREM CountersKeepTypes == Spec => []TypeOK
<1>1. GroupInv => TypeOK
  BY Zenon DEF GroupInv
<1> QED
  BY <1>1, GroupAlways, PTL

\* A resumed command is never left in resume_queue_ while everybody sleeps, for
\* any number of threads and connections: whoever resumes it notifies the
\* external worker, which does not sleep before coro_cnt_ is zero.
THEOREM ResumedIsServed == Spec => []ResumedCommandHasThread
<1>1. GroupInv => ResumedCommandHasThread
  BY ActorsDiffer, Zenon DEF GroupInv, ResumedIsSeen, ResumedCommandHasThread, ServerUp
<1> QED
  BY <1>1, GroupAlways, PTL

-----------------------------------------------------------------------------
(* The counter of active threads.                                          *)

\* Every step keeps the counter within its bounds.
LEMMA CountNext == TypeOK /\ CountBounded /\ [Next]_vars => CountBounded'
\* The same three facts for the threads that active_thread_count counts.
<1>CountedSame.
  ASSUME NEW a \in Actor, NEW l, Moves(a, l), a \in SqlThread => (pc[a] \in Uncounted <=> l \in Uncounted)
  PROVE  Counted' = Counted
  BY <1>CountedSame, ActorsDiffer, Zenon DEF Moves, Counted, Uncounted
\* A thread starts to run.
<1>CountedMore.
  ASSUME NEW t \in SqlThread, NEW l, Moves(t, l), pc[t] \in Uncounted, l \notin Uncounted
  PROVE  Cardinality(Counted') = Cardinality(Counted) + 1
  <2> USE <1>CountedMore
  <2>1. Counted' = Counted \cup {t} /\ t \notin Counted
    BY ActorsDiffer, Zenon DEF Moves, Counted, Uncounted
  <2> QED
    BY <2>1, WorkersFinite, FS_AddElement, Zenon
\* A thread stops running.
<1>CountedLess.
  ASSUME NEW t \in SqlThread, NEW l, Moves(t, l), pc[t] \notin Uncounted, l \in Uncounted
  PROVE  Cardinality(Counted') = Cardinality(Counted) - 1
  <2> USE <1>CountedLess
  <2>1. Counted' = Counted \ {t} /\ t \in Counted
    BY ActorsDiffer, Zenon DEF Moves, Counted, Uncounted
  <2> QED
    BY <2>1, WorkersFinite, FS_RemoveElement, Zenon
\* A step that changes neither the counter nor who is counted.
<1>CountKept.
  ASSUME TypeOK, CountBounded, NEW a \in Actor, NEW l, Moves(a, l),
         a \in SqlThread => (pc[a] \in Uncounted <=> l \in Uncounted),
         UNCHANGED << active_thread_count, timeouts >>,
         MaxHandovers = 0 => sql_native_queue' = 0,
         MaxHandovers = 0 /\ a = Ext => l # "enqueue"
  PROVE  CountBounded'
  <2> USE <1>CountKept
  <2>1. Counted' = Counted
    BY <1>CountedSame, Zenon
  <2>2. MaxHandovers = 0 => pc'[Ext] # "enqueue"
    BY ActorsDiffer, Zenon DEF Moves, CountBounded
  <2> QED
    BY <2>1, <2>2, Zenon DEF CountBounded
\* A thread starts to run and is added.
<1>CountUp.
  ASSUME TypeOK, CountBounded, NEW t \in SqlThread, NEW l, Moves(t, l),
         pc[t] \in Uncounted, l \notin Uncounted,
         active_thread_count' = active_thread_count + 1,
         timeouts' = timeouts \/ (timeouts' = timeouts + 1 /\ timeouts < MaxIdleTimeouts),
         sql_native_queue' = sql_native_queue
  PROVE  CountBounded'
  <2> USE <1>CountUp
  <2>1. Cardinality(Counted') = Cardinality(Counted) + 1
    BY <1>CountedMore, Zenon
  <2>2. MaxHandovers = 0 => sql_native_queue' = 0 /\ pc'[Ext] # "enqueue"
    BY ActorsDiffer, Zenon DEF Moves, CountBounded
  <2>3. /\ Cardinality(Counted) \in Nat /\ active_thread_count \in Int /\ timeouts \in Nat /\ MaxIdleTimeouts \in Nat
        /\ Cardinality(Counted) <= active_thread_count
        /\ active_thread_count <= Cardinality(Counted) + timeouts
        /\ timeouts <= MaxIdleTimeouts
        /\ MaxHandovers = 0 => active_thread_count = Cardinality(Counted)
    BY WorkersFinite, GroupAssumption, Zenon DEF TypeOK, CountBounded
  <2>4. /\ Cardinality(Counted') <= active_thread_count'
        /\ active_thread_count' <= Cardinality(Counted') + timeouts'
        /\ timeouts' <= MaxIdleTimeouts
        /\ MaxHandovers = 0 => active_thread_count' = Cardinality(Counted')
    BY <2>1, <2>3
  <2> QED
    BY <2>2, <2>4, Zenon DEF CountBounded
\* A thread stops running and is subtracted.
<1>CountDown.
  ASSUME TypeOK, CountBounded, NEW t \in SqlThread, NEW l, Moves(t, l),
         pc[t] \notin Uncounted, l \in Uncounted,
         active_thread_count' = active_thread_count - 1,
         UNCHANGED << timeouts, sql_native_queue >>
  PROVE  CountBounded'
  <2> USE <1>CountDown
  <2>1. Cardinality(Counted') = Cardinality(Counted) - 1
    BY <1>CountedLess, Zenon
  <2>2. MaxHandovers = 0 => sql_native_queue' = 0 /\ pc'[Ext] # "enqueue"
    BY ActorsDiffer, Zenon DEF Moves, CountBounded
  <2>3. /\ Cardinality(Counted) \in Nat /\ active_thread_count \in Int /\ timeouts \in Nat
        /\ Cardinality(Counted) <= active_thread_count
        /\ active_thread_count <= Cardinality(Counted) + timeouts
        /\ timeouts <= MaxIdleTimeouts
        /\ MaxHandovers = 0 => active_thread_count = Cardinality(Counted)
    BY WorkersFinite, Zenon DEF TypeOK, CountBounded
  <2>4. /\ Cardinality(Counted') <= active_thread_count'
        /\ active_thread_count' <= Cardinality(Counted') + timeouts'
        /\ timeouts' <= MaxIdleTimeouts
        /\ MaxHandovers = 0 => active_thread_count' = Cardinality(Counted')
    BY <2>1, <2>3
  <2> QED
    BY <2>2, <2>4, Zenon DEF CountBounded
\* An idle timeout: the thread is added, and leaves without being subtracted
\* when the external worker is active and a command was handed over.
<1>CountLeaks.
  ASSUME TypeOK, CountBounded, NEW t \in SqlThread, IdleTimeout(t)
  PROVE  CountBounded'
  <2> USE <1>CountLeaks
  <2>1. /\ pc[t] = "sleep" /\ timeouts < MaxIdleTimeouts /\ timeouts' = timeouts + 1
        /\ active_thread_count' = active_thread_count + 1 /\ sql_native_queue' = sql_native_queue
    BY Zenon DEF IdleTimeout, queueVars
  <2>2. CASE ~(ext_worker_active /\ sql_native_queue > 0)
    <3>1. PICK l \in {"expired", "top"} : Moves(t, l)
      BY <2>2, GetEventMoves, Zenon
    <3> QED
      BY <2>1, <3>1, <1>CountUp, Zenon DEF Uncounted
  <2>3. CASE ext_worker_active /\ sql_native_queue > 0
    <3>1. Moves(t, "gone")
      BY <2>3, GetEventMoves, Zenon
    <3>2. Counted' = Counted
      BY <2>1, <3>1, <1>CountedSame, ActorsDiffer, Zenon DEF Uncounted
    <3>3. MaxHandovers # 0
      BY <2>3 DEF CountBounded
    <3>4. /\ Cardinality(Counted) \in Nat /\ active_thread_count \in Int /\ timeouts \in Nat /\ MaxIdleTimeouts \in Nat
          /\ Cardinality(Counted) <= active_thread_count
          /\ active_thread_count <= Cardinality(Counted) + timeouts
      BY WorkersFinite, GroupAssumption, Zenon DEF TypeOK, CountBounded
    <3>5. /\ Cardinality(Counted') <= active_thread_count'
          /\ active_thread_count' <= Cardinality(Counted') + timeouts'
          /\ timeouts' <= MaxIdleTimeouts
      BY <2>1, <3>2, <3>4
    <3> QED
      BY <3>3, <3>5, Zenon DEF CountBounded
  <2> QED
    BY <2>2, <2>3, Zenon
\* The steps of a SQL thread.
<1>CountSql.
  ASSUME TypeOK, CountBounded, NEW t \in SqlThread, SqlStep(t) \/ WaitBegin(t) \/ Yield(t)
  PROVE  CountBounded'
  <2> USE <1>CountSql
  <2>0. t \in Actor /\ t \in Worker /\ t # Ext /\ (MaxHandovers = 0 => sql_native_queue = 0)
    BY ActorsDiffer, Zenon DEF CountBounded
  <2>1. CASE StartWorker(t)
    <3>1. /\ Moves(t, "loop") /\ pc[t] = "new" /\ active_thread_count' = active_thread_count + 1
          /\ timeouts' = timeouts /\ sql_native_queue' = sql_native_queue
      BY <2>1, GetEventMoves, Zenon DEF StartWorker, queueVars, boundVars
    <3> QED
      BY <3>1, <1>CountUp, Zenon DEF Uncounted
  <2>2. CASE Top(t)
    <3>1. PICK l \in {"rest", "native"} : Moves(t, l)
      BY <2>2, GetEventMoves, Zenon
    <3>2. pc[t] \in {"loop", "top"} /\ UNCHANGED << active_thread_count, timeouts, sql_native_queue >>
      BY <2>2, Zenon DEF Top, queueVars, boundVars
    <3> QED
      BY <2>0, <3>1, <3>2, <1>CountKept, Zenon DEF Uncounted
  <2>3. CASE TakeNative(t)
    <3>1. PICK l \in {"blocking", "shared"} : Moves(t, l)
      BY <2>3, GetEventMoves, Zenon
    <3>2. /\ pc[t] = "native" /\ UNCHANGED << active_thread_count, timeouts >>
          /\ MaxHandovers = 0 => sql_native_queue' = 0
      BY <2>0, <2>3 DEF TakeNative, Leave, boundVars
    <3> QED
      BY <2>0, <3>1, <3>2, <1>CountKept, Zenon DEF Uncounted
  <2>4. CASE TakeBatch(t)
    <3>1. PICK l \in {"rest", "batch"} : Moves(t, l)
      BY <2>4, GetEventMoves, Zenon
    <3>2. pc[t] = "shared" /\ UNCHANGED << active_thread_count, timeouts, sql_native_queue >>
      BY <2>4, Zenon DEF TakeBatch, Leave, boundVars
    <3> QED
      BY <2>0, <3>1, <3>2, <1>CountKept, Zenon DEF Uncounted
  <2>5. CASE BecomeListener(t)
    <3>1. /\ Moves(t, "listen") /\ pc[t] = "rest" /\ active_thread_count' = active_thread_count - 1
          /\ UNCHANGED << timeouts, sql_native_queue >>
      BY <2>5, GetEventMoves, Zenon DEF BecomeListener, queueVars, boundVars
    <3> QED
      BY <3>1, <1>CountDown, Zenon DEF Uncounted
  <2>6. CASE Retire(t)
    <3>1. PICK l \in {"recheck", "sleep"} : Moves(t, l)
      BY <2>6, GetEventMoves, Zenon
    <3>2. /\ pc[t] = "rest" /\ active_thread_count' = active_thread_count - 1
          /\ UNCHANGED << timeouts, sql_native_queue >>
      BY <2>6, Zenon DEF Retire, queueVars, boundVars
    <3> QED
      BY <3>1, <3>2, <1>CountDown, Zenon DEF Uncounted
  <2>7. CASE Recheck(t)
    <3>1. pc[t] = "recheck" /\ UNCHANGED << timeouts, sql_native_queue >>
      BY <2>7, Zenon DEF Recheck, NotifyIf, queueVars, boundVars
    <3>2. CASE sql_native_queue > 0
      <4>1. Moves(t, "top") /\ active_thread_count' = active_thread_count + 1
        BY <2>7, <3>2, GetEventMoves, Zenon DEF Recheck, NotifyIf
      <4> QED
        BY <3>1, <4>1, <1>CountUp, Zenon DEF Uncounted
    <3>3. CASE ~(sql_native_queue > 0)
      <4>1. Moves(t, "sleep") /\ active_thread_count' = active_thread_count
        BY <2>7, <3>3, GetEventMoves, Zenon DEF Recheck, NotifyIf
      <4> QED
        BY <2>0, <3>1, <4>1, <1>CountKept, Zenon DEF Uncounted
    <3> QED
      BY <3>2, <3>3, Zenon
  <2>8. CASE Wake(t)
    <3>1. /\ Moves(t, "top") /\ pc[t] = "sleep" /\ active_thread_count' = active_thread_count + 1
          /\ timeouts' = timeouts /\ sql_native_queue' = sql_native_queue
      BY <2>8, GetEventMoves, Zenon DEF Wake, queueVars, boundVars
    <3> QED
      BY <3>1, <1>CountUp, Zenon DEF Uncounted
  <2>9. CASE Expire(t)
    <3>1. PICK l \in {"lastgone", "gone"} : Moves(t, l)
      BY <2>9, GetEventMoves, Zenon
    <3>2. /\ pc[t] = "expired" /\ active_thread_count' = active_thread_count - 1
          /\ UNCHANGED << timeouts, sql_native_queue >>
      BY <2>9, Zenon DEF Expire, queueVars, boundVars
    <3> QED
      BY <3>1, <3>2, <1>CountDown, Zenon DEF Uncounted
  <2>10. CASE ExpireLast(t)
    <3>1. pc[t] = "lastgone" /\ UNCHANGED << timeouts, sql_native_queue >>
      BY <2>10, Zenon DEF ExpireLast, queueVars, boundVars
    <3>2. CASE sql_native_queue > 0
      <4>1. Moves(t, "top") /\ active_thread_count' = active_thread_count + 1
        BY <2>10, <3>2, GetEventMoves, Zenon DEF ExpireLast
      <4> QED
        BY <3>1, <4>1, <1>CountUp, Zenon DEF Uncounted
    <3>3. CASE ~(sql_native_queue > 0)
      <4>1. Moves(t, "gone") /\ active_thread_count' = active_thread_count
        BY <2>10, <3>3, GetEventMoves, Zenon DEF ExpireLast
      <4> QED
        BY <2>0, <3>1, <4>1, <1>CountKept, Zenon DEF Uncounted
    <3> QED
      BY <3>2, <3>3, Zenon
  <2>11. CASE Exit(t)
    <3>1. Moves(t, "none") /\ pc[t] = "gone" /\ UNCHANGED << active_thread_count, timeouts, sql_native_queue >>
      BY <2>11, GetEventMoves, Zenon DEF Exit, Leave, queueVars, boundVars
    <3> QED
      BY <2>0, <3>1, <1>CountKept, Zenon DEF Uncounted
  <2>12. CASE Listening(t)
    <3>1. PICK l \in {"epoll", "put", "listen"} : Moves(t, l)
      BY <2>12, BlockingMoves, Zenon DEF Listening
    <3>2. pc[t] \in {"listen", "epoll", "put"} /\ UNCHANGED << active_thread_count, timeouts, sql_native_queue >>
      BY <2>12, Zenon DEF Listening, Listen, ListenerPoll, ListenerCheck, groupVars, queueVars, boundVars
    <3> QED
      BY <2>0, <3>1, <3>2, <1>CountKept, Zenon DEF Uncounted
  <2>13. CASE RunBatch(t) \/ Yield(t)
    <3>1. PICK l \in {"run", "batch", "loop"} : Moves(t, l)
      BY <2>0, <2>13, RunBatchMoves, Zenon DEF RunBatch
    <3>2. pc[t] \in {"batch", "run"} /\ UNCHANGED << active_thread_count, timeouts, sql_native_queue >>
      BY <2>13, Zenon DEF RunBatch, RunNext, Finish, WorkerPoll, Yield, groupVars, queueVars, boundVars
    <3> QED
      BY <2>0, <3>1, <3>2, <1>CountKept, Zenon DEF Uncounted
  <2>14. CASE WaitBegin(t)
    <3>1. /\ Moves(t, "wait") /\ pc[t] = "run" /\ active_thread_count' = active_thread_count - 1
          /\ UNCHANGED << timeouts, sql_native_queue >>
      BY <2>14, BlockingMoves, Zenon DEF WaitBegin
    <3> QED
      BY <3>1, <1>CountDown, Zenon DEF Uncounted
  <2>15. CASE WaitEnd(t)
    <3>1. /\ Moves(t, "run") /\ pc[t] = "wait" /\ active_thread_count' = active_thread_count + 1
          /\ timeouts' = timeouts /\ sql_native_queue' = sql_native_queue
      BY <2>15, BlockingMoves, Zenon DEF WaitEnd, queueVars, boundVars
    <3> QED
      BY <3>1, <1>CountUp, Zenon DEF Uncounted
  <2>16. CASE Continue(t)
    <3>1. PICK l \in {"look", "wait"} : Moves(t, l)
      BY <2>16, BlockingMoves, Zenon
    <3>2. /\ pc[t] = "blocking" /\ active_thread_count' = active_thread_count - 1
          /\ UNCHANGED << timeouts, sql_native_queue >>
      BY <2>16, Zenon DEF Continue, queueVars, boundVars
    <3> QED
      BY <3>1, <3>2, <1>CountDown, Zenon DEF Uncounted
  <2>17. CASE ContinueLook(t) \/ ContinueWake(t)
    <3>1. PICK l \in {"relay", "wait"} : Moves(t, l)
      BY <2>17, BlockingMoves, Zenon
    <3>2. pc[t] \in {"look", "relay"} /\ UNCHANGED << active_thread_count, timeouts, sql_native_queue >>
      BY <2>17, Zenon DEF ContinueLook, ContinueWake, groupVars, queueVars, boundVars
    <3> QED
      BY <2>0, <3>1, <3>2, <1>CountKept, Zenon DEF Uncounted
  <2> QED
    BY <2>1, <2>2, <2>3, <2>4, <2>5, <2>6, <2>7, <2>8, <2>9, <2>10, <2>11, <2>12, <2>13, <2>14, <2>15,
       <2>16, <2>17, ZenonT(40) DEF SqlStep, GetEvent, Blocking
\* The steps of the external worker: a hand-over needs MaxHandovers > 0.
<1>CountExt.
  ASSUME TypeOK, CountBounded, ExtStep \/ HandOver \/ Yield(Ext)
  PROVE  CountBounded'
  <2> USE <1>CountExt
  <2>0. Ext \in Actor /\ Ext \in Worker /\ Ext \notin SqlThread
    BY ActorsDiffer, Zenon
  <2>1. CASE HandOver
    <3>1. Moves(Ext, "enqueue") /\ UNCHANGED << active_thread_count, timeouts, sql_native_queue >>
      BY <2>1, ExtMoves, Zenon DEF HandOver, queueVars
    <3>2. MaxHandovers # 0
      <4>1. handovers < MaxHandovers /\ handovers \in Nat
        BY <2>1, Zenon DEF HandOver, TypeOK
      <4> QED
        BY <4>1
    <3> QED
      BY <2>0, <3>1, <3>2, <1>CountKept, Zenon
  <2>2. CASE HandOverEnqueue
    <3>1. Moves(Ext, "batch") /\ pc[Ext] = "enqueue" /\ UNCHANGED << active_thread_count, timeouts >>
      BY <2>2, ExtMoves, Zenon DEF HandOverEnqueue, boundVars
    <3>2. MaxHandovers # 0
      BY <3>1, Zenon DEF CountBounded
    <3> QED
      BY <2>0, <3>1, <3>2, <1>CountKept, Zenon
  <2>3. CASE RunBatch(Ext) \/ Yield(Ext)
    <3>1. PICK l \in {"run", "batch", "again"} : Moves(Ext, l)
      BY <2>0, <2>3, RunBatchMoves, Zenon DEF RunBatch
    <3>2. UNCHANGED << active_thread_count, timeouts, sql_native_queue >>
      BY <2>3, Zenon DEF RunBatch, RunNext, Finish, WorkerPoll, Yield, groupVars, queueVars, boundVars
    <3> QED
      BY <2>0, <3>1, <3>2, <1>CountKept, Zenon DEF CountBounded
  <2>4. CASE ExtThdStart \/ Process \/ ExtAgain \/ ExtThdEnd \/ ExtThdEndWake \/ ExtSleep
    <3>1. PICK l \in {"process", "batch", "end", "handback", "settle", "asleep"} : Moves(Ext, l)
      BY <2>4, ExtMoves, Zenon
    <3>2. UNCHANGED << active_thread_count, timeouts, sql_native_queue >>
      BY <2>4, Zenon DEF ExtThdStart, Process, ExtAgain, ExtThdEnd, ExtThdEndWake, ExtSleep, groupVars,
         queueVars, boundVars
    <3> QED
      BY <2>0, <3>1, <3>2, <1>CountKept, Zenon DEF CountBounded
  <2> QED
    BY <2>1, <2>2, <2>3, <2>4, Zenon DEF ExtStep
\* The steps of the threads outside the group change neither.
<1>CountOutside.
  ASSUME TypeOK, CountBounded, AcceptorStep \/ TxStep \/ TimerStep
  PROVE  CountBounded'
  <2> USE <1>CountOutside
  <2>1. PICK a \in {Acceptor, Tx, Timer} : \E l : Moves(a, l)
    BY OutsideMoves, Zenon DEF AcceptorStep, TxStep, TimerStep
  <2>2. a \in Actor /\ a \notin SqlThread /\ a # Ext
    BY ActorsDiffer, Zenon
  <2>3. UNCHANGED << active_thread_count, timeouts, sql_native_queue >>
    BY Zenon DEF AcceptorStep, TxStep, TimerStep, AddConnection, AddConnectionCheck, CoroutineResume,
       CoroutineResumeCheck, CheckStall, ResolveStall, groupVars, queueVars, boundVars
  <2> QED
    BY <2>1, <2>2, <2>3, <1>CountKept, Zenon DEF CountBounded
<1> SUFFICES ASSUME TypeOK, CountBounded, [Next]_vars PROVE CountBounded'
  BY Zenon
<1>1. CASE ClientSend \/ UNCHANGED vars
  <2>1. UNCHANGED << pc, active_thread_count, timeouts, sql_native_queue >>
    BY <1>1, Zenon DEF ClientSend, vars, groupVars, queueVars, boundVars
  <2>2. Counted' = Counted
    BY <2>1, Zenon DEF Counted
  <2> QED
    BY <2>1, <2>2, Zenon DEF CountBounded
<1>2. CASE \E w \in Worker : Yield(w)
  BY <1>2, <1>CountSql, <1>CountExt, Zenon DEF Worker
<1>3. CASE \E t \in SqlThread : WaitBegin(t) \/ IdleTimeout(t) \/ SqlStep(t)
  BY <1>3, <1>CountSql, <1>CountLeaks, Zenon
<1>4. CASE HandOver \/ ExtStep
  BY <1>4, <1>CountExt, Zenon
<1>5. CASE AcceptorStep \/ TxStep \/ TimerStep
  BY <1>5, <1>CountOutside, Zenon
<1> QED
  BY <1>1, <1>2, <1>3, <1>4, <1>5, Zenon DEF Next, Choice

\* No thread is counted at the start.
LEMMA CountInit == Init => CountBounded
<1> SUFFICES ASSUME Init PROVE CountBounded
  BY Zenon
<1>1. Counted = {}
  BY ActorsDiffer, Zenon DEF Init, Counted, Uncounted
<1>2. Cardinality(Counted) = 0
  BY <1>1, FS_EmptySet, Zenon
<1>3. pc[Ext] # "enqueue"
  BY ActorsDiffer, Zenon DEF Init
<1> QED
  BY <1>2, <1>3, GroupAssumption DEF Init, CountBounded

\* The bounds always hold.
LEMMA CountAlways == Spec => []CountBounded
BY CountInit, CountNext, CountersKeepTypes, PTL DEF Spec

\* get_event_bulk(), wait_begin() and wait_end() never leave a running thread
\* out of active_thread_count, so a positive number of running threads is
\* never taken for none; what the counter has too much, idle timeouts put in.
THEOREM NoRunningThreadMissed ==
  Spec => [](/\ Cardinality(Counted) <= active_thread_count
             /\ active_thread_count <= Cardinality(Counted) + timeouts)
<1>1. CountBounded => /\ Cardinality(Counted) <= active_thread_count
                      /\ active_thread_count <= Cardinality(Counted) + timeouts
  BY Zenon DEF CountBounded
<1> QED
  BY <1>1, CountAlways, PTL

\* active_thread_count is exact, for any number of threads and connections, in
\* a group where no idle thread times out or no command is handed over.
\* Where both happen it is not: see thread_group_leak in the README.
THEOREM CounterIsExact ==
  (MaxHandovers = 0 \/ MaxIdleTimeouts = 0) /\ Spec => []ActiveCountExact
<1> SUFFICES ASSUME MaxHandovers = 0 \/ MaxIdleTimeouts = 0 PROVE Spec => []ActiveCountExact
  BY Zenon
<1>1. TypeOK /\ CountBounded => ActiveCountExact
  <2> SUFFICES ASSUME TypeOK, CountBounded PROVE ActiveCountExact
    BY Zenon
  <2>1. /\ Cardinality(Counted) \in Nat /\ active_thread_count \in Int /\ timeouts \in Nat
        /\ Cardinality(Counted) <= active_thread_count
        /\ active_thread_count <= Cardinality(Counted) + timeouts
        /\ timeouts <= MaxIdleTimeouts
        /\ MaxHandovers = 0 => active_thread_count = Cardinality(Counted)
    BY WorkersFinite, Zenon DEF TypeOK, CountBounded
  <2>2. active_thread_count = Cardinality(Counted)
    <3>1. CASE MaxHandovers = 0
      BY <2>1, <3>1, Zenon
    <3>2. CASE MaxIdleTimeouts = 0
      BY <2>1, <3>2
    <3> QED
      BY <3>1, <3>2, Zenon
  <2> QED
    BY <2>2, Zenon DEF ActiveCountExact, Counted
<1> QED
  BY <1>1, CountAlways, CountersKeepTypes, PTL
=============================================================================
