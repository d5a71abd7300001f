SPECIFICATION Spec
CONSTANTS
  Pk = {p1, p2}
  Val = {v1, v2}
  N = 2
  Batch = 2
  Tables <- MCTables
  NoPk = NoPk
  NoRow = NoRow
  Untouched = Untouched
SYMMETRY RowSymmetry
INVARIANTS TypeOK ViewConsistent
PROPERTIES DuplicateIsReal ImplementsTable
