CONSTANTS
  StateIDLimit = 1000
  PatternIDLimit = 4
  MaxHaystackLen = 3
  HaystackBytes = {10, 97, 98}
SPECIFICATION Spec
INVARIANTS
  TypeOK
  CompiledMeaningAgrees
CHECK_DEADLOCK FALSE
