\* Three clicks; two files that can be loaded, one that lacks metadata, one that is no GGUF.
SPECIFICATION FairSpec
CONSTANTS
  MaxClicks = 3
  Files = {good, other, bare, broken}
  Gguf = {good, other, bare}
  Complete = {good, other}
  NoFile = NoFile
INVARIANTS
  TypeOK
  ModelBehindScreen
  OneAtATime
  OneModel
  SelectableAgain
PROPERTY LoadOpensChat
