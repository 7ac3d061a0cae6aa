CONSTANTS
  Chars = {"a", "b", "c"}
  MaxLen = 3
  Strings <- MCStrings
SPECIFICATION Spec
INVARIANTS
  TypeOK
  DistanceCorrect
CHECK_DEADLOCK FALSE
