SPECIFICATION FairSpec
CONSTANTS
  Threads = {t1, t2}
  Contexts = {c1, c2}
  NoCtx = NoCtx
  ClearsFirst = FALSE
  ReusesEarly = FALSE
INVARIANTS
  OwnObjects
PROPERTIES
  LockGivenBack
  SurvivorAdopted
\* The inductive invariant of CaptureProof, to be checked in place of the properties:
\* INVARIANT ObjectInv
