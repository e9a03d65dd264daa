SPECIFICATION Spec
SYMMETRY Symmetry
CONSTANTS
  Sessions = {s1, s2, s3}
  Readers = {r1}
  NoFile = NoFile
  Size = 2
  MaxItem = 1
INVARIANTS
  OpenedMatchesWriter
  FailedCreateUnlinked
PROPERTIES
  ActiveNotRebuilt
