SPECIFICATION FairSpec
CONSTANTS
  w = w
  g = g
  p = p
  None = None
  Threads = {t1, t2}
  Clumsy = {t1}
  Windows = {w}
  GlxWindows = {g}
  Parent <- OnW
  Others = {p}
  Blocks = {b1, b2}
INVARIANTS
  EntriesOwned
  EntriesTrue
  AppSparedErrors
  DestroyedForgotten
PROPERTIES
  HooksReturn
\* The inductive invariant of WinMapProof, to be checked in place of the properties:
\* INVARIANT EntryInv
