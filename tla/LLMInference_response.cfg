\* _response at the start of the turn after a cancelled one.
SPECIFICATION Spec
CONSTANTS
  NCtx = 9
  NBatch = 5
  MaxTurns = 2
  PieceKinds = {"whole", "lead", "middle", "tail"}
  StoreChats = TRUE
INVARIANT ResponseIsForQuery
