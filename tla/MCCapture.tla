----------------------------- MODULE MCCapture ------------------------------
(* Model-checking instances of context adoption.                           *)
EXTENDS CaptureClaims, CaptureInv, TLC

(* Neither threads nor contexts are told apart.                            *)
Symmetry == Permutations(Threads) \cup Permutations(Contexts)

=============================================================================
