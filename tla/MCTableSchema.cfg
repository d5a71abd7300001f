SPECIFICATION FairSpec
CONSTANTS
  n1 = n1
  n2 = n2
  s1 = s1
  s2 = s2
  s3 = s3
  h1 = h1
  h2 = h2
  Nodes = {n1, n2}
  Sessions = {s1, s2, s3}
  Handlers = {h1, h2}
  NodeOf <- MCNodeOf
  HandlerNode <- MCHandlerNode
  UncheckedOpen = FALSE
  Changers = {s1, s3}
  Writers = {s2}
  MaxVer = 2
  Nobody = Nobody
INVARIANTS SchemaPinned    ReadersExact
PROPERTIES SchemaChangeEnds
