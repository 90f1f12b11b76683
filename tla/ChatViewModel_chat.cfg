\* Two messages with replies of up to two pieces.
SPECIFICATION FairSpec
CONSTANTS
  MaxJobs = 2
  MaxPieces = 2
  PieceLens = {0, 2}
INVARIANTS
  TypeOK
  FlagHasJob
  StopsPainting
  StopsCalling
  OneBubbleAstray
  TurnTaking
PROPERTIES
  TextGrows
  StoppedJobEnds
  QuestionsAsked
  GenerationEnds
