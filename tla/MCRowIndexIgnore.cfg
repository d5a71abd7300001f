SPECIFICATION Spec
CONSTANTS
  Pk = {p1, p2}
  Val = {v1, v2, v3}
  N = 2
  Batch = 2
  Tables <- IgnoreTables
  NoPk = NoPk
  NoRow = NoRow
  Untouched = Untouched
SYMMETRY RowSymmetry
INVARIANT EntryPointsToRecord
