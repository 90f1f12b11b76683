\* A load that fails.
SPECIFICATION Spec
CONSTANTS
  MaxClicks = 1
  Files = {good, broken}
  Gguf = {good}
  Complete = {good}
  NoFile = NoFile
INVARIANT OneMeansLoading
