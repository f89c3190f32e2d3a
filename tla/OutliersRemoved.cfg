SPECIFICATION Spec
CONSTANTS
  Vertices = 3
  MaxPerVertex = 2
  MinConstraints = 3
CHECK_DEADLOCK FALSE
INVARIANTS OutliersRemoved
