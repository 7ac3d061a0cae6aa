CONSTANTS
  StateIDLimit = 1000
  PatternIDLimit = 4
  MaxHaystackLen = 3
  HaystackBytes = {10, 97, 98}
  MaxStart = 1
  Captures = TRUE
  Nfas <- SearchNfas
  Haystacks <- MCHaystacks
  Starts <- MCStarts
SPECIFICATION Spec
INVARIANTS
  TypeOK
  ClosureRestoresCaptures
PROPERTIES
  ImplementsLeftmostSearch
  SearchReturns
CHECK_DEADLOCK FALSE
