\* The second graph may use more threads than the first.
SPECIFICATION Spec
CONSTANTS
  N = 3
  Counts = {2, 3}
  Grow = TRUE
  MaxGraphs = 2
  NNodes = 1
  ChunkCounts = {1}
  Factor = 1
INVARIANT PoolQuiet
