SPECIFICATION FairSpec
CONSTANTS
  Threads = {t1, t2}
  Apps = {app}
  Libs = {gl, overlay}
  Chained = {overlay}
  Refusing = {gl}
  Asking = {gl}
  Hooked = {SwapBuffers}
  Getters = {GetProcAddress}
  Null = Null
INVARIANTS
  CallsArrive
  NothingEscapes
PROPERTIES
  CallsReturn
CHECK_DEADLOCK FALSE
\* The inductive invariant of AuditProof, to be checked in place of the properties:
\* INVARIANT AuditInvariant
