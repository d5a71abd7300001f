------------------------------ MODULE Session ------------------------------
(***************************************************************************)
(* What the thread pool promises to the SQL layer about one connection, no *)
(* matter how often its coroutines move between threads: one login, then   *)
(* commands strictly one after the other, each taking one packet and       *)
(* answering it at most once, then one close.                              *)
(***************************************************************************)
EXTENDS Integers

CONSTANT Conn

VARIABLES
  status,    \* stage of the session
  taken,     \* packets read by the server
  answered   \* packets answered

vars == << status, taken, answered >>

Init ==
  /\ status = [c \in Conn |-> "absent"]
  /\ taken = [c \in Conn |-> 0]
  /\ answered = [c \in Conn |-> 0]

Move(c, from, to) ==
  /\ status[c] \in from
  /\ status' = [status EXCEPT ![c] = to]

Connect(c) == Move(c, {"absent"}, "login") /\ UNCHANGED << taken, answered >>

Accept(c) == Move(c, {"login"}, "ready") /\ UNCHANGED << taken, answered >>

TakePacket(c) ==
  /\ Move(c, {"ready"}, "command")
  /\ taken' = [taken EXCEPT ![c] = @ + 1]
  /\ UNCHANGED answered

Answer(c) ==
  /\ Move(c, {"command"}, "answered")
  /\ answered' = [answered EXCEPT ![c] = @ + 1]
  /\ UNCHANGED taken

Done(c) == Move(c, {"answered"}, "ready") /\ UNCHANGED << taken, answered >>

Close(c) ==
  /\ Move(c, {"login", "ready", "command", "answered"}, "closing")
  /\ UNCHANGED << taken, answered >>

\* A connection for which no THD could be allocated vanishes at login.
Vanish(c) == Move(c, {"login", "closing"}, "gone") /\ UNCHANGED << taken, answered >>

Next ==
  \E c \in Conn :
    \/ Connect(c) \/ Accept(c) \/ TakePacket(c) \/ Answer(c) \/ Done(c) \/ Close(c) \/ Vanish(c)

Spec == Init /\ [][Next]_vars
=============================================================================
