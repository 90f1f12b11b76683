\* A removal, then a batch of two graphs of which the second fails.
SPECIFICATION Spec
CONSTANTS
  Size = 4
  Seqs = {0}
  UBatch = 1
  MaxBatch = 2
  MaxTokens = 6
  MaxPos = 5
  MaxMoves = 2
  Ops = {"rm"}
  Faults = {"decode"}
PROPERTY FailureRestores
