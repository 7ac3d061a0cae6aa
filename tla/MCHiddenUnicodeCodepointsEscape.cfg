CONSTANTS
  MaxPieces = 3
  Los = {0, 7}
  Nodes <- MCNodes
SPECIFICATION Spec
INVARIANTS
  EscapeKeepsLiteralValue
CHECK_DEADLOCK FALSE
