SPECIFICATION Spec
CONSTANTS
  Sizes <- Windows
  MaxTexture <- Limit
  Word = 1024
  MaxDrawBuffers = 2
  DrawLists <- Lists
INVARIANTS
  CatchesEvery
