SPECIFICATION Spec
CONSTANTS
  Sessions = {s1, s2}
  Readers = {r1}
  NoFile = NoFile
  Size = 2
  MaxItem = 1
INVARIANT OpenedGeometry
