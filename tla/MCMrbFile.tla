----------------------------- MODULE MCMrbFile ------------------------------
(* Model-checking instances of the life of the buffer's file.              *)
EXTENDS MrbFileClaims, TLC

(* Neither sessions nor readers are told apart.                            *)
Symmetry == Permutations(Sessions) \cup Permutations(Readers)

=============================================================================
