\* Two sequences share three cells; batches of two graphs; one move per
\* defragmentation.
SPECIFICATION Spec
CONSTANTS
  Size = 3
  Seqs = {0, 1}
  UBatch = 1
  MaxBatch = 2
  MaxTokens = 4
  MaxPos = 1
  MaxMoves = 1
  Ops = {"rm", "cp", "keep", "add", "div", "clear", "defrag", "update"}
  Faults = {}
INVARIANTS
  TypeOK
  UsedExact
  RotationOwed
PROPERTY ImplementsStore
