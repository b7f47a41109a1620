SPECIFICATION Spec
CONSTANTS
  Clients = {p, q}
  Tars <- MCTars
  Paths <- MCPaths
  ReadSize = 300
  MINIMUM_VECTOR_SIZE = 4
  MaxNodes = 12
SYMMETRY Symmetry
CHECK_DEADLOCK FALSE
INVARIANTS   ListsChildren
PROPERTIES MountsAlone
