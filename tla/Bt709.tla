-------------------------------- MODULE Bt709 --------------------------------
(* The arithmetic of rgba2yuv420p.c: BT.709 in 16-bit fixed point, once in *)
(* C and once for the lanes of SSSE3 registers.                            *)
EXTENDS Integers

Byte == 0 .. 255

(* The coefficients, rounded half away from zero as the initializers do:   *)
(* KR = 0.2126, KB = 0.0722, KY = 220/256, KC = 112/256, SY = SC = 7.      *)
Rounded(n, d) == (2 * n + d) \div (2 * d)

KR == 2126
KB == 722
KG == 10000 - KR - KB

KRYi == Rounded(110 * KR, 10000)
KGYi == Rounded(110 * KG, 10000)
KBYi == Rounded(110 * KB, 10000)
KRUi == -Rounded(56 * KR, 10000 - KB)
KGUi == -Rounded(56 * KG, 10000 - KB)
KBUi == 56
KRVi == 56
KGVi == -Rounded(56 * KG, 10000 - KR)
KBVi == -Rounded(56 * KB, 10000 - KR)

(* The coefficients of a plane, for the bytes of a pixel; alpha counts not. *)
Y == <<KRYi, KGYi, KBYi, 0>>
U == <<KRUi, KGUi, KBUi, 0>>
V == <<KRVi, KGVi, KBVi, 0>>

Ybias == 16 * 128 + 64
Cbias == 128 * 128 + 64

-----------------------------------------------------------------------------
(* In C: ~(uint16_t)(a0 + a1) >> 1 of an int, cut down to uint8_t. *)
navg(a0, a1) == ((-(a0 + a1) - 1) \div 2) % 256

avg(a00, a10, a01, a11) == navg(navg(a00, a10), navg(a01, a11))

(* (uint16_t)(B + K . p) >> 7, cut down to uint8_t *)
Converted(B, K, p) ==
  (((B + K[1] * p[1] + K[2] * p[2] + K[3] * p[3]) % 65536) \div 128) % 256

Average(p00, p10, p01, p11) ==
  [c \in 1 .. 4 |-> avg(p00[c], p10[c], p01[c], p11[c])]

-----------------------------------------------------------------------------
(* What the instructions do to a lane. *)
Int16(x)  == ((x + 32768) % 65536) - 32768
Sat16(x)  == IF x > 32767 THEN 32767 ELSE IF x < -32768 THEN -32768 ELSE x
SatU8(x)  == IF x > 255 THEN 255 ELSE IF x < 0 THEN 0 ELSE x

(* avg_epu8, then xor *)
navgLane(x, y) == 255 - (x + y + 1) \div 2

avgLane(p00, p10, p01, p11) ==
  [c \in 1 .. 4 |-> navgLane(navgLane(p00[c], p10[c]), navgLane(p01[c], p11[c]))]

(* maddubs_epi16, then hadd_epi16 *)
dotLane(p, K) ==
  Int16(Sat16(p[1] * K[1] + p[2] * K[2]) + Sat16(p[3] * K[3] + p[4] * K[4]))

(* add_epi16, srli_epi16 by 7, packus_epi16 *)
packLane(d, B) == SatU8((Int16(d + B) % 65536) \div 128)

-----------------------------------------------------------------------------
(* BT.709 itself, as a distance: that of a byte from the exact value for a *)
(* pixel is at most a / b.                                                 *)
LumaWithin(y, p, a, b) ==
  LET exact == 220 * (KR * p[1] + KG * p[2] + KB * p[3])
      d     == 2560000 * (y - 16) - exact
  IN -a * (2560000 \div b) <= d /\ d <= a * (2560000 \div b)

(* The same of a difference of colour, for the sum of a block's pixels. *)
CbWithin(u, s, a, b) ==
  LET unit == 1024 * (10000 - KB)
      d == unit * (u - 128)
             - 112 * ((10000 - KB) * s[3] - KR * s[1] - KG * s[2])
  IN -a * (unit \div b) <= d /\ d <= a * (unit \div b)

CrWithin(v, s, a, b) ==
  LET unit == 1024 * (10000 - KR)
      d == unit * (v - 128)
             - 112 * ((10000 - KR) * s[1] - KG * s[2] - KB * s[3])
  IN -a * (unit \div b) <= d /\ d <= a * (unit \div b)

=============================================================================
