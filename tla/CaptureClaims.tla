--------------------------- MODULE CaptureClaims ----------------------------
(* What the README says of the frames of a context, and the code does not  *)
(* live up to.                                                             *)
EXTENDS Capture

PassedOver(t) == Adopt(t) /\ pc'[t] = "real"

(* "That library catches every rendered frame" (README): a frame is passed *)
(* over by a grabber that is ready only in favour of a context that can    *)
(* still render one.                                                       *)
PassesOverForLive ==
  [][\A t \in Threads : PassedOver(t) /\ state = "ready" => ctx \in alive]_vars

(* The same sentence: the frame buffer a frame is drawn into for grabbing  *)
(* is one of the context it has been rendered with, at least as long as no *)
(* context in use has been destroyed.                                      *)
CaughtInOwnContext ==
  ~careless => \A t \in Threads : pc[t] = "shoot" => fbo = cur[t]

=============================================================================
