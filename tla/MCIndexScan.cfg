SPECIFICATION FairSpec
CONSTANTS
  Top = 3
  MaxLen = 3
  FullKey <- MCFullKey
  SearchKey <- MCSearchKey
  Kinds <- Kind
  Calls <- MCCalls
  ChunkSize = 2
  BatchSize = 2
  MaxChanges = 2
  NoKey = NoKey
INVARIANTS TypeOK RangeExact  ScanComplete  
PROPERTY EveryCallReturns
