SPECIFICATION FairSpec
CONSTANTS
  Conn = {c1}
  SqlThread = {s1, s2}
  ExtThread = {x1}
  Listener = {l1}
  NoConn = NoConn
  MaxOutstanding = 1
  MaxRequests = 2
  MaxYields = 1
  Killable = {c1}
  MaxTimeouts = 0
INVARIANTS OneContinuation OneThreadPerConnection  ReadNeverBlocks BlocksOnSqlThreads
PROPERTIES ImplementsSession  
CHECK_DEADLOCK FALSE
