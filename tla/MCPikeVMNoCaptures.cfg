CONSTANTS
  StateIDLimit = 1000
  PatternIDLimit = 4
  MaxHaystackLen = 3
  HaystackBytes = {10, 97, 98}
  MaxStart = 1
  Captures = FALSE
  Nfas <- SearchNfas
  Haystacks <- MCHaystacks
  Starts <- MCStarts
SPECIFICATION Spec
INVARIANTS
  SearchNeverPanics
CHECK_DEADLOCK FALSE
