\* A job whose completionLoop throws.
SPECIFICATION Spec
CONSTANTS
  MaxJobs = 2
  MaxPieces = 1
  PieceLens = {1}
INVARIANT FlagMeansGenerating
