CONSTANTS
  Labels = {"bb0", "bb1", "bb2"}
  SelfLoops = TRUE
  Graphs <- MCGraphs
SPECIFICATION DiffSpec
INVARIANTS
  MatchNeverPanics
CHECK_DEADLOCK FALSE
