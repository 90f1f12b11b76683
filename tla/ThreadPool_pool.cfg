\* Three threads; a graph of two products on all of them or on the main one alone.
SPECIFICATION FairSpec
CONSTANTS
  N = 3
  Counts = {1, 3}
  Grow = FALSE
  MaxGraphs = 2
  NNodes = 2
  ChunkCounts = {2, 4}
  Factor = 1
INVARIANTS
  TypeOK
  PoolQuiet
  SharesReady
  ChunksOnce
  GraphComplete
PROPERTIES
  GraphReturns
  PoolEnds
