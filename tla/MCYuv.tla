------------------------------- MODULE MCYuv --------------------------------
(* Model-checking instance of the colour conversion: pictures whose bytes  *)
(* differ a lot from one to the next, and pictures of extreme colours.     *)
EXTENDS YuvInv

CONSTANTS noise, corners, grey

Sample(q, o) ==
  CASE q = noise   -> (o * 167 + (o \div 4) * (o \div 128) * 59 + o \div 7) % 256
    [] q = corners -> IF (o * 5 + o \div 8 + o \div 37) % 3 = 0 THEN 255 ELSE 0
    [] q = grey    -> ((o \div 4) * 23) % 256

Frames == {<<1, 1>>, <<2, 1>>, <<1, 2>>, <<2, 3>>}

=============================================================================
