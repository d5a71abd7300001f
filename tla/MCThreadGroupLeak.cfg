SPECIFICATION Spec
CONSTANTS
  SqlThread = {s1, s2}
  Ext = x
  Tx = tx
  Acceptor = acc
  Timer = tm
  Nobody = nobody
  Connections = 2
  ThreadLimit = 2
  MaxCommands = 0
  MaxYields = 0
  MaxWaits = 0
  MaxHandovers = 1
  MaxIdleTimeouts = 1
SYMMETRY ThreadSymmetry
INVARIANT ActiveCountExact
