------------------------------- MODULE MCMrb -------------------------------
(* Model-checking instances of the ring buffer.                            *)
EXTENDS MrbRefines, MrbClaims, MrbInv
=============================================================================
