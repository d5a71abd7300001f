SPECIFICATION FairSpec
CONSTANTS
  SqlThread = {s1, s2}
  Ext = x
  Tx = tx
  Acceptor = acc
  Timer = tm
  Nobody = nobody
  Connections = 2
  ThreadLimit = 2
  MaxCommands = 1
  MaxYields = 0
  MaxWaits = 0
  MaxHandovers = 2
  MaxIdleTimeouts = 0
INVARIANT ActiveCountExact
PROPERTY EveryCommandAnswered
