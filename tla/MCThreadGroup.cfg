SPECIFICATION Spec
CONSTANTS
  SqlThread = {s1, s2, s3}
  Ext = x
  Tx = tx
  Acceptor = acc
  Timer = tm
  Nobody = nobody
  Connections = 2
  ThreadLimit = 2
  MaxCommands = 0
  MaxYields = 1
  MaxWaits = 1
  MaxHandovers = 0
  MaxIdleTimeouts = 1
SYMMETRY ThreadSymmetry
INVARIANTS TypeOK ActiveCountExact ResumedCommandHasThread
