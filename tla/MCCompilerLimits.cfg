CONSTANTS
  StateIDLimit = 1000
  PatternIDLimit = 4
  StateLimits = {0, 4, 7, 11}
  SizeLimits = {150, 300, 450}
SPECIFICATION Spec
INVARIANTS
  LimitsOnlyAbort
CHECK_DEADLOCK FALSE
