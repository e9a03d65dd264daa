--------------------------- MODULE GrabberClaims ----------------------------
(* What the README says of the frames that are caught, and the code does   *)
(* not live up to.                                                         *)
EXTENDS Grabber

(* "every rendered frame just before it goes to the display" (README): if  *)
(* no call of GL, CUDA or the ring fails that could have worked, and the   *)
(* frame is less than 2^32 bytes large, it is caught.                      *)
CatchesEvery ==
  pc = "leave" /\ clean /\ Rgba(swap.size) < Word => frame

=============================================================================
