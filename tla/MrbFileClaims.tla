--------------------------- MODULE MrbFileClaims ----------------------------
(* What mrb.h says of opening a buffer, and the code does not live up to.  *)
EXTENDS MrbFile

(* "Open MRB for monitoring" (mrb.h): the buffer that is opened is the one *)
(* the writer writes to.                                                   *)
OpenedGeometry ==
  \A r \in Readers :
    rq[r] # NoQueue => rq[r] = [size |-> Size, max |-> MaxItem, bits |-> TRUE]

=============================================================================
