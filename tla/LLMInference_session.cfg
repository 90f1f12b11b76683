\* Every property of the session over four turns: a context of 12 cells is
\* filled within two or three turns, and a prompt of 5 blocks, the longest the
\* batch takes, is passed when two turns in a row are broken off.
SPECIFICATION FairSpec
CONSTANTS
  NCtx = 12
  NBatch = 5
  MaxTurns = 4
  PieceKinds = {"whole", "lead", "middle", "tail", "sentinel"}
  StoreChats = TRUE
INVARIANTS
  TypeOK
  TokensConserved
  RepliesFaithful
  RefeedBounded
  QuestionBeforeAnswer
  ForgottenBounded
PROPERTIES
  FeedsPrompts
  TurnEnds
