---------------------------- MODULE WinMapClaims ----------------------------
(* What the README says of the frames that are caught, and the code does   *)
(* not live up to when two threads meet new windows at once, or one meets  *)
(* a new window and another has made an error of X.                        *)
EXTENDS WinMap

(* "every rendered frame just before it goes to the display" (README): no  *)
(* window that is there is put down as none, for frames of such a window   *)
(* are not caught any more.                                                *)
WindowsMeasured ==
  ~careless =>
    \A b \in ToSet(winmap) :
      heap[b].glx \in live \cap Windows => heap[b].x11 # None

=============================================================================
