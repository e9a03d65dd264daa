SPECIFICATION FairSpec
CONSTANTS
  Sizes <- Windows
  MaxTexture <- Limit
  Word = 1024
  MaxDrawBuffers = 2
  DrawLists <- Lists
INVARIANTS
  CopyStaysInside
  DrawsUnmapped
  NothingLost
  AppUndisturbed
PROPERTIES
  PublishesFrames
  Recovers
\* The inductive invariant of GrabberProof, to be checked in place of the properties:
\* INVARIANT FrameInv
