SPECIFICATION Spec
CONSTANTS
  Conn = {c1}
  SqlThread = {s1, s2}
  ExtThread = {x1}
  Listener = {l1}
  NoConn = NoConn
  MaxOutstanding = 1
  MaxRequests = 2
  MaxYields = 2
  Killable = {}
  MaxTimeouts = 1
INVARIANTS AtMostOneContinuation 
CHECK_DEADLOCK FALSE
