\* A stopped job that ends while the next one runs.
SPECIFICATION Spec
CONSTANTS
  MaxJobs = 2
  MaxPieces = 1
  PieceLens = {1}
INVARIANT GeneratingMeansFlag
