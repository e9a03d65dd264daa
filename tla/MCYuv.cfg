SPECIFICATION Spec
CONSTANTS
  noise = noise
  corners = corners
  grey = grey
  Sizes <- Frames
  Pictures = {noise, corners, grey}
  Rgba <- Sample
INVARIANTS
  FrameRight
  BuildsAgree
CHECK_DEADLOCK FALSE
\* The inductive invariant of YuvProof, to be checked in place of the properties:
\* INVARIANT ConversionInv
