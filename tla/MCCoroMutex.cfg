SPECIFICATION FairSpec
CONSTANTS
  Coro = {c1, c2}
  Thread = {t1, t2}
  Native = {n1}
  Nobody = Nobody
  Mutex = {1, 2}
  MaxOps = 3
INVARIANTS CoroutineExclusion RunnerOwnsMutexes NoOrphanedMutex
PROPERTY EveryoneFinishes
CHECK_DEADLOCK FALSE
