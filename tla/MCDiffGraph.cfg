CONSTANTS
  Labels = {"bb0", "bb1", "bb2", "bb3"}
  SelfLoops = FALSE
  Graphs <- MCGraphs
SPECIFICATION DiffSpec
INVARIANTS
  TypeOK
  ShortestDistances
  MatchIsInjective
  SelfDiffKeepsDistinctNodes
  PartialMatchesFollowEdges
CHECK_DEADLOCK FALSE
