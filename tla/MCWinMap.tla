------------------------------ MODULE MCWinMap ------------------------------
(* Model-checking instances of the window map.                             *)
EXTENDS WinMapClaims, WinMapInv

CONSTANTS w, g, p

OnW == [d \in {g} |-> w]

=============================================================================
