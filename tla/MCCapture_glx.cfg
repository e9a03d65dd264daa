SPECIFICATION Spec
SYMMETRY Symmetry
CONSTANTS
  Threads = {t1, t2, t3}
  Contexts = {c1, c2, c3}
  NoCtx = NoCtx
  ClearsFirst = TRUE
  ReusesEarly = TRUE
INVARIANTS
  Exclusive
  OwnObjects
  FrameMapped
PROPERTY OneBuffer
\* The inductive invariant of CaptureProof, to be checked in place of the properties:
\* INVARIANT ObjectInv
