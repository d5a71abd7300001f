SPECIFICATION Spec
CONSTANTS
  Item = {a, b}
  None = None
  InitCapacity = 3
  DefaultCapacity = 2
  MaxLength = 5
INVARIANT TypeOK
PROPERTIES ImplementsDeque OperationsMatch
