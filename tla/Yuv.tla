--------------------------------- MODULE Yuv ---------------------------------
(* rgba2yuv420p(): the loops that turn a picture into the three planes of  *)
(* a frame, as compiled for SSSE3 (32 x 2 pixels at a time) and for other  *)
(* machines (2 x 2).  Pointers are offsets into the picture and the frame. *)
EXTENDS Bt709, Sequences

CONSTANTS
  Sizes,      (* pairs width32, height2                                   *)
  Pictures,
  Rgba(_, _)  (* Rgba(picture, o): the byte of the picture at offset o    *)

ASSUME YuvAssumption == Sizes \subseteq (Nat \ {0}) \X (Nat \ {0})

VARIABLES
  sse, picture, width32, height2,   (* how compiled, and the arguments    *)
  row2, i,                          (* the loops' counters                *)
  p0, p1,                           (* into the picture                   *)
  y0, y1, u, v,                     (* into the frame                     *)
  yuv,                              (* the bytes stored in the frame      *)
  pc

args == <<sse, picture, width32, height2>>
vars == <<args, row2, i, p0, p1, y0, y1, u, v, yuv, pc>>

count_2x2   == width32 * 16 * height2
rgba_stride   == width32 * 128

y_stride    == width32 * 32

(* The 2 x 2 blocks that one turn of the inner loop converts. *)
Blocks == IF sse THEN 16 ELSE 1

Init ==
  /\ sse \in BOOLEAN
  /\ picture \in Pictures
  /\ \E s \in Sizes : width32 = s[1] /\ height2 = s[2]
  /\ row2 = 0 /\ i = 0
  /\ p0 = 0 /\ p1 = 0
  /\ y0 = 0 /\ y1 = 0
  /\ u = count_2x2 * 4
  /\ v = u + count_2x2
  /\ yuv = <<>>
  /\ pc = "row"

Pixel(o) == [c \in 1 .. 4 |-> Rgba(picture, o + c - 1)]

-----------------------------------------------------------------------------
(* The bytes at n places from offset o on, Value(k) at the k-th. *)
At(o, n, Value(_)) == [x \in o .. o + n - 1 |-> Value(x - o + 1)]

Merge(f, g) ==
  [x \in DOMAIN f \cup DOMAIN g |-> IF x \in DOMAIN f THEN f[x] ELSE g[x]]

(* rgba2yuv420p_2x2() in C *)
Stored2x2 ==
  LET p == <<Pixel(p0), Pixel(p0 + 4), Pixel(p1), Pixel(p1 + 4)>>
      a == Average(p[1], p[3], p[2], p[4])
      luma0(k) == Converted(Ybias, Y, p[k])
      luma1(k) == Converted(Ybias, Y, p[k + 2])
      cb(k) == Converted(Cbias, U, a)
      cr(k) == Converted(Cbias, V, a)
  IN Merge(Merge(At(y0, 2, luma0), At(y1, 2, luma1)),
           Merge(At(u, 1, cb), At(v, 1, cr)))

-----------------------------------------------------------------------------
(* With SSSE3.  A register of four pixels is a sequence of pixels. *)
load(o) == [k \in 1 .. 4 |-> Pixel(o + 4 * (k - 1))]

navgReg(x, y) == [k \in 1 .. 4 |-> [c \in 1 .. 4 |-> navgLane(x[k][c], y[k][c])]]

unpacklo_epi32(x, y) == <<x[1], y[1], x[2], y[2]>>

(* that of unpackhi_epi64 *)
unpackhi_epi32_Wide(x, y) == <<x[3], x[4], y[3], y[4]>>
unpackhi_epi32(x, y) == <<x[3], y[3], x[4], y[4]>>
unpacklo_epi64(x, y) == SubSeq(x, 1, 8) \o SubSeq(y, 1, 8)
unpackhi_epi64(x, y) == SubSeq(x, 9, 16) \o SubSeq(y, 9, 16)

avgReg(n0123, n4567) ==
  LET n0415 == unpacklo_epi32(n0123, n4567)
      n2637 == unpackhi_epi32(n0123, n4567)
  IN navgReg(unpacklo_epi32(n0415, n2637), unpackhi_epi32(n0415, n2637))

dot(x, y, K) == [k \in 1 .. 8 |-> dotLane((x \o y)[k], K)]

pack(d0, d1, B) == [k \in 1 .. 16 |-> packLane((d0 \o d1)[k], B)]

(* rgba2yuv420p_16x2(): two rows of luma, and chroma, U in the low half. *)
Rows16x2(r0, r1) ==
  LET p(r, n) == load(r + 16 * n)
      n(k)    == navgReg(p(r0, k), p(r1, k))
      a01     == avgReg(n(0), n(1))
      a23     == avgReg(n(2), n(3))
      luma(r) == pack(dot(p(r, 0), p(r, 1), Y), dot(p(r, 2), p(r, 3), Y), Ybias)
  IN [y0 |-> luma(r0), y1 |-> luma(r1),
      uv |-> pack(dot(a01, a23, U), dot(a01, a23, V), Cbias)]

(* rgba2yuv420p_32x2() *)
Stored32x2 ==
  LET lo == Rows16x2(p0, p1)
      hi == Rows16x2(p0 + 64, p1 + 64)
      luma0(k) == (lo.y0 \o hi.y0)[k]
      luma1(k) == (lo.y1 \o hi.y1)[k]
      cb(k) == unpacklo_epi64(lo.uv, hi.uv)[k]
      cr(k) == unpackhi_epi64(lo.uv, hi.uv)[k]
  IN Merge(Merge(At(y0, 32, luma0), At(y1, 32, luma1)),
           Merge(At(u, 16, cb), At(v, 16, cr)))

-----------------------------------------------------------------------------
BeginRow ==
  /\ pc = "row" /\ row2 < height2
  /\ p1' = p0 + rgba_stride
  /\ y1' = y0 + y_stride
  /\ i' = 0
  /\ pc' = "blocks"
  /\ UNCHANGED <<args, row2, p0, y0, u, v, yuv>>

Convert ==
  /\ pc = "blocks" /\ i * Blocks < width32 * 16
  /\ yuv' = Merge(IF sse THEN Stored32x2 ELSE Stored2x2, yuv)
  /\ p0' = p0 + 8 * Blocks
  /\ p1' = p1 + 8 * Blocks
  /\ y0' = y0 + 2 * Blocks
  /\ y1' = y1 + 2 * Blocks
  /\ u' = u + Blocks
  /\ v' = v + Blocks
  /\ i' = i + 1
  /\ UNCHANGED <<args, row2, pc>>

(* The second row of luma is written over. *)
EndRow_Behind ==
  /\ pc = "blocks" /\ i * Blocks >= width32 * 16
  /\ p0' = p1
  /\ row2' = row2 + 1
  /\ pc' = "row"
  /\ UNCHANGED <<args, i, p1, y0, y1, u, v, yuv>>

EndRow ==
  /\ pc = "blocks" /\ i * Blocks >= width32 * 16
  /\ p0' = p1
  /\ y0' = y0 + y_stride
  /\ row2' = row2 + 1
  /\ pc' = "row"
  /\ UNCHANGED <<args, i, p1, y1, u, v, yuv>>

Finish ==
  /\ pc = "row" /\ row2 >= height2
  /\ pc' = "done"
  /\ UNCHANGED <<args, row2, i, p0, p1, y0, y1, u, v, yuv>>

Next == BeginRow \/ Convert \/ EndRow \/ Finish

Spec == Init /\ [][Next]_vars

-----------------------------------------------------------------------------
Width     == width32 * 32
FrameSize == width32 * height2 * 96
Chroma    == count_2x2 * 4
Offsets   == 0 .. FrameSize - 1

TypeOK ==
  /\ row2 \in 0 .. height2 /\ i \in 0 .. width32 * 16
  /\ {p0, p1} \subseteq 0 .. 256 * width32 * height2
  /\ {y0, y1, u, v} \subseteq 0 .. FrameSize
  /\ DOMAIN yuv \subseteq Offsets
  /\ \A o \in DOMAIN yuv : yuv[o] \in Byte
  /\ pc \in {"row", "blocks", "done"}

(* The pixels that the byte of the frame at offset o is made of: one in    *)
(* the luma plane, two by two in the planes of Cb and Cr, which follow one *)
(* another without a gap (I420).                                           *)
PixelAt(x, y) == Pixel(4 * (y * Width + x))

BlockAt(k) ==
  LET x == 2 * (k % (16 * width32))
      y == 2 * (k \div (16 * width32))
  IN <<PixelAt(x, y), PixelAt(x, y + 1), PixelAt(x + 1, y), PixelAt(x + 1, y + 1)>>

Sum(b) == [c \in 1 .. 3 |-> b[1][c] + b[2][c] + b[3][c] + b[4][c]]

(* The byte x at offset o is what BT.709 says of the pixels at that place, *)
(* to 1.3 for luma and 3/2 for chroma.                                     *)
Right(o, x) ==
  CASE o < Chroma ->
         LumaWithin(x, PixelAt(o % Width, o \div Width), 13, 10)
    [] o \in Chroma .. Chroma + count_2x2 - 1 ->
         CbWithin(x, Sum(BlockAt(o - Chroma)), 3, 2)
    [] OTHER ->
         CrWithin(x, Sum(BlockAt(o - Chroma - count_2x2)), 3, 2)

(* The plain code stores the same luma there, and chroma that differs by   *)
(* one at most.                                                            *)
Agrees(o, x) ==
  IF o < Chroma
  THEN x = Converted(Ybias, Y, PixelAt(o % Width, o \div Width))
  ELSE LET K == IF o < Chroma + count_2x2 THEN U ELSE V
           b == BlockAt((o - Chroma) % count_2x2)
       IN x - Converted(Cbias, K, Average(b[1], b[2], b[3], b[4])) \in -1 .. 1

(* When the function returns, it has filled the space that the writer has  *)
(* reserved for the planes (glgrab.c:244), and nothing else; and each byte *)
(* is right, in both builds.  The pointers stay inside on the way.         *)
FrameRight ==
  /\ TypeOK
  /\ pc = "done" => \A o \in Offsets : o \in DOMAIN yuv /\ Right(o, yuv[o])

(* The build with SSSE3 rounds averages up where the other rounds them     *)
(* down and the other way round, and nowhere does it show by more than one *)
(* in chroma.                                                              *)
BuildsAgree == \A o \in DOMAIN yuv : Agrees(o, yuv[o])

=============================================================================
