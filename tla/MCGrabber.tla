------------------------------ MODULE MCGrabber -----------------------------
(* A model-checking instance of the frame pipeline.                        *)
EXTENDS GrabberClaims, GrabberInv

(* The widths 33 and 40 are padded to the same; 64 x 4 takes Word bytes;   *)
(* for 96 x 8 even the reservation is too small, but no texture is so      *)
(* large.                                                                  *)
Windows    == {<<33, 2>>, <<40, 2>>, <<64, 4>>, <<96, 8>>}
Limit      == <<64, 4>>

(* One that only glDrawBuffer() takes, and one with a gap.                 *)
Lists      == {<<"back", "none">>, <<"none", "two">>}

ASSUME LimitFits == TexturesFit

=============================================================================
