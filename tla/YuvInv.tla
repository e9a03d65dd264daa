------------------------------- MODULE YuvInv -------------------------------
(* An inductive invariant of the loops of rgba2yuv420p(): the five         *)
(* pointers are where the counters say, and what lies behind them has been *)
(* written and is right.                                                   *)
EXTENDS Yuv

(* The bytes of the picture are bytes.                                     *)
BytesRead == \A q \in Pictures, o \in Nat : Rgba(q, o) \in Byte

-----------------------------------------------------------------------------

(* Blocks of this pair of rows that have been converted; and those of the  *)
(* pairs above, in units of 16.                                            *)
Across == IF pc = "blocks" THEN i * Blocks ELSE 0
Above  == row2 * width32

ArgsInv ==
  /\ sse \in BOOLEAN
  /\ picture \in Pictures
  /\ {width32, height2} \subseteq Nat \ {0}

CountersInv ==
  /\ pc \in {"row", "blocks", "done"}
  /\ row2 \in 0 .. height2 /\ i \in 0 .. width32 * 16
  /\ pc = "blocks" => row2 < height2 /\ Across <= 16 * width32
  /\ pc = "done" => row2 = height2

PointersInv ==
  /\ p0 = 256 * Above + 8 * Across
  /\ y0 = 64 * Above + 2 * Across
  /\ u = Chroma + 16 * Above + Across
  /\ v = u + count_2x2
  /\ IF pc = "blocks" THEN p1 = p0 + rgba_stride /\ y1 = y0 + y_stride
                      ELSE p1 = p0 /\ y1 = y0

(* The rows above, the beginning of a pair of rows, and that of the planes *)
(* of Cb and Cr                                                            *)
Written ==
  (0 .. y0 - 1)
    \cup {o \in 64 * Above + y_stride .. y1 - 1 : pc = "blocks"}
    \cup (Chroma .. u - 1)
    \cup (Chroma + count_2x2 .. v - 1)

Good(o, x) == x \in Byte /\ Right(o, x) /\ Agrees(o, x)

ConversionInv ==
  /\ ArgsInv /\ CountersInv /\ PointersInv
  /\ DOMAIN yuv = Written
  /\ \A o \in Written : Good(o, yuv[o])

=============================================================================
