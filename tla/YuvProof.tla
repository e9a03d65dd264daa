------------------------------ MODULE YuvProof ------------------------------
(* The colour conversion is right, whatever the picture and its size: first *)
(* what the arithmetic does to a pixel and to a block of four, then what    *)
(* the registers of the build with SSSE3 hold, then the loops.              *)
EXTENDS YuvInv, SequenceTheorems, TLAPS

Pixels == [1 .. 4 -> Byte]

-----------------------------------------------------------------------------
LEMMA Coefficients ==
  /\ Y = <<23, 79, 8, 0>>
  /\ U = <<-13, -43, 56, 0>>
  /\ V = <<56, -51, -5, 0>>
  /\ Ybias = 2112 /\ Cbias = 16448
  <1>1. KR = 2126 /\ KB = 722 /\ KG = 7152
    BY DEF KR, KB, KG
  <1>2. KRYi = 23 /\ KGYi = 79 /\ KBYi = 8
    BY <1>1, SMT DEF KRYi, KGYi, KBYi, Rounded
  <1>3. KRUi = -13 /\ KGUi = -43 /\ KBUi = 56
    BY <1>1, SMT DEF KRUi, KGUi, KBUi, Rounded
  <1>4. KRVi = 56 /\ KGVi = -51 /\ KBVi = -5
    BY <1>1, SMT DEF KRVi, KGVi, KBVi, Rounded
  <1>5. Ybias = 2112 /\ Cbias = 16448
    BY SMT DEF Ybias, Cbias
  <1> QED BY <1>2, <1>3, <1>4, <1>5 DEF Y, U, V

LEMMA Components ==
  ASSUME NEW p \in Pixels
  PROVE  /\ p[1] \in 0 .. 255 /\ p[2] \in 0 .. 255
         /\ p[3] \in 0 .. 255 /\ p[4] \in 0 .. 255
  BY DEF Pixels, Byte

-----------------------------------------------------------------------------
(* Shifts and casts of numbers that are small enough. *)
LEMMA ModSmall ==
  ASSUME NEW n \in Nat \ {0}, NEW x \in Nat, x < n
  PROVE  x % n = x
  BY SMT

LEMMA Mod65536 ==
  ASSUME NEW x \in Nat, x < 65536
  PROVE  x % 65536 = x
  <1> DEFINE n == 65536
  <1>1. n \in Nat \ {0} /\ x < n
    BY SMT
  <1> HIDE DEF n
  <1>2. x % n = x
    BY <1>1, ModSmall
  <1> QED BY <1>2 DEF n

LEMMA Mod256 ==
  ASSUME NEW x \in Nat, x < 256
  PROVE  x % 256 = x
  <1> DEFINE n == 256
  <1>1. n \in Nat \ {0} /\ x < n
    BY SMT
  <1> HIDE DEF n
  <1>2. x % n = x
    BY <1>1, ModSmall
  <1> QED BY <1>2 DEF n

LEMMA Div128 ==
  ASSUME NEW x \in Int
  PROVE  /\ x \div 128 \in Int
         /\ 128 * (x \div 128) <= x /\ x < 128 * (x \div 128) + 128
  BY SMT

LEMMA Div128Byte ==
  ASSUME NEW x \in Nat, x < 32768
  PROVE  x \div 128 \in Nat /\ x \div 128 < 256
  <1> DEFINE q == x \div 128
  <1>1. q \in Int /\ 128 * q <= x /\ x < 128 * q + 128
    BY Div128
  <1> HIDE DEF q
  <1>2. q \in Nat /\ q < 256
    BY <1>1, SMT
  <1> QED BY <1>2 DEF q

LEMMA Uncut ==
  ASSUME NEW x \in Nat, x < 32768
  PROVE  ((x % 65536) \div 128) % 256 = x \div 128
  <1> DEFINE q == x \div 128
  <1>1. x % 65536 = x
    BY Mod65536
  <1>2. q \in Nat /\ q < 256
    BY Div128Byte
  <1> HIDE DEF q
  <1>3. q % 256 = q
    BY <1>2, Mod256
  <1> QED BY <1>1, <1>3 DEF q

LEMMA Int16Small ==
  ASSUME NEW x \in Int, -32768 <= x, x < 32768
  PROVE  Int16(x) = x
  <1> DEFINE z == x + 32768
  <1>1. z \in Nat /\ z < 65536
    BY SMT
  <1>2. z - 32768 = x
    BY SMT
  <1>3. Int16(x) = (z % 65536) - 32768
    BY DEF Int16
  <1> HIDE DEF z
  <1>4. z % 65536 = z
    BY <1>1, Mod65536
  <1> QED BY <1>2, <1>3, <1>4

LEMMA Packed ==
  ASSUME NEW d \in Int, NEW B \in Int, 0 <= d + B, d + B < 32768
  PROVE  packLane(d, B) = (d + B) \div 128
  <1> DEFINE x == d + B
  <1>1. packLane(d, B) = SatU8((Int16(x) % 65536) \div 128)
    BY DEF packLane
  <1>2. /\ x \in Nat /\ x \in Int /\ -32768 <= x /\ x < 32768 /\ x < 65536
    BY SMT
  <1> HIDE DEF x
  <1>3. Int16(x) % 65536 = x
    BY <1>2, Int16Small, Mod65536
  <1> DEFINE q == x \div 128
  <1>4. q \in Nat /\ q < 256
    BY <1>2, Div128Byte
  <1> HIDE DEF q
  <1>5. SatU8(q) = q
    BY <1>4, SMT DEF SatU8
  <1> QED BY <1>1, <1>3, <1>5 DEF q, x

LEMMA Unsaturated ==
  ASSUME NEW x \in Int, -32768 <= x, x < 32768
  PROVE  Sat16(x) = x
  BY SMT DEF Sat16

-----------------------------------------------------------------------------
(* What a byte is converted from: the sum before the shift. *)
LumaSum(p) == 2112 + 23 * p[1] + 79 * p[2] + 8 * p[3]
CbSum(p)   == 16448 - 13 * p[1] - 43 * p[2] + 56 * p[3]
CrSum(p)   == 16448 + 56 * p[1] - 51 * p[2] - 5 * p[3]

LEMMA SumBounds ==
  ASSUME NEW p \in Pixels
  PROVE  /\ LumaSum(p) \in Nat /\ 2112 <= LumaSum(p) /\ LumaSum(p) <= 30162
         /\ CbSum(p) \in Nat /\ 2168 <= CbSum(p) /\ CbSum(p) <= 30728
         /\ CrSum(p) \in Nat /\ 2168 <= CrSum(p) /\ CrSum(p) <= 30728
  <1> DEFINE r == p[1]
             g == p[2]
             b == p[3]
  <1>1. r \in 0 .. 255 /\ g \in 0 .. 255 /\ b \in 0 .. 255
    BY Components
  <1>2. /\ LumaSum(p) = 2112 + 23 * r + 79 * g + 8 * b
        /\ CbSum(p) = 16448 - 13 * r - 43 * g + 56 * b
        /\ CrSum(p) = 16448 + 56 * r - 51 * g - 5 * b
    BY DEF LumaSum, CbSum, CrSum
  <1> HIDE DEF r, g, b
  <1>3. LumaSum(p) \in Nat /\ 2112 <= LumaSum(p) /\ LumaSum(p) <= 30162
    BY <1>1, <1>2, SMT
  <1>4. CbSum(p) \in Nat /\ 2168 <= CbSum(p) /\ CbSum(p) <= 30728
    BY <1>1, <1>2, SMT
  <1>5. CrSum(p) \in Nat /\ 2168 <= CrSum(p) /\ CrSum(p) <= 30728
    BY <1>1, <1>2, SMT
  <1> QED BY <1>3, <1>4, <1>5

LEMMA Sums ==
  ASSUME NEW p \in Pixels
  PROVE  /\ Ybias + Y[1] * p[1] + Y[2] * p[2] + Y[3] * p[3] = LumaSum(p)
         /\ Cbias + U[1] * p[1] + U[2] * p[2] + U[3] * p[3] = CbSum(p)
         /\ Cbias + V[1] * p[1] + V[2] * p[2] + V[3] * p[3] = CrSum(p)
  <1> DEFINE r == p[1]
             g == p[2]
             b == p[3]
  <1>1. r \in Int /\ g \in Int /\ b \in Int
    BY Components
  <1>2. /\ Y[1] = 23 /\ Y[2] = 79 /\ Y[3] = 8 /\ Ybias = 2112 /\ Cbias = 16448
        /\ U[1] = -13 /\ U[2] = -43 /\ U[3] = 56
        /\ V[1] = 56 /\ V[2] = -51 /\ V[3] = -5
    BY Coefficients
  <1>3. /\ LumaSum(p) = 2112 + 23 * r + 79 * g + 8 * b
        /\ CbSum(p) = 16448 - 13 * r - 43 * g + 56 * b
        /\ CrSum(p) = 16448 + 56 * r - 51 * g - 5 * b
    BY DEF LumaSum, CbSum, CrSum
  <1> HIDE DEF r, g, b
  <1>4. Ybias + Y[1] * r + Y[2] * g + Y[3] * b = LumaSum(p)
    BY <1>1, <1>2, <1>3, SMT
  <1>5. Cbias + U[1] * r + U[2] * g + U[3] * b = CbSum(p)
    BY <1>1, <1>2, <1>3, SMT
  <1>6. Cbias + V[1] * r + V[2] * g + V[3] * b = CrSum(p)
    BY <1>1, <1>2, <1>3, SMT
  <1> QED BY <1>4, <1>5, <1>6 DEF r, g, b

LEMMA ConvertedSum ==
  ASSUME NEW p \in Pixels, NEW B, NEW K, NEW x \in Nat, x < 32768,
         B + K[1] * p[1] + K[2] * p[2] + K[3] * p[3] = x
  PROVE  Converted(B, K, p) = x \div 128
  BY Uncut DEF Converted

LEMMA ConvertedIs ==
  ASSUME NEW p \in Pixels
  PROVE  /\ Converted(Ybias, Y, p) = LumaSum(p) \div 128
         /\ Converted(Cbias, U, p) = CbSum(p) \div 128
         /\ Converted(Cbias, V, p) = CrSum(p) \div 128
  <1>1. LumaSum(p) < 32768 /\ CbSum(p) < 32768 /\ CrSum(p) < 32768
    BY SumBounds
  <1> QED BY <1>1, Sums, SumBounds, ConvertedSum

-----------------------------------------------------------------------------
(* Luma keeps to the range that video reserves for it, and is BT.709 to    *)
(* 1.3: the casts of rgba2yuv420p_2x2() never cut anything off.            *)
THEOREM LumaRight ==
  ASSUME NEW p \in Pixels
  PROVE  /\ Converted(Ybias, Y, p) \in 16 .. 235
         /\ LumaWithin(Converted(Ybias, Y, p), p, 13, 10)
  <1> DEFINE x == LumaSum(p)
             y == x \div 128
             r == p[1]
             g == p[2]
             b == p[3]
  <1>1. r \in 0 .. 255 /\ g \in 0 .. 255 /\ b \in 0 .. 255
    BY Components
  <1>2. x = 2112 + 23 * r + 79 * g + 8 * b
    BY DEF LumaSum
  <1>3. x \in Int /\ 2112 <= x /\ x <= 30162
    BY SumBounds
  <1>4. LumaWithin(y, p, 13, 10)
          <=> /\ -13 * (2560000 \div 10)
                   <= 2560000 * (y - 16) - 220 * (2126 * r + 7152 * g + 722 * b)
              /\ 2560000 * (y - 16) - 220 * (2126 * r + 7152 * g + 722 * b)
                   <= 13 * (2560000 \div 10)
    BY DEF LumaWithin, KR, KG, KB
  <1>5. Converted(Ybias, Y, p) = y
    BY ConvertedIs
  <1> HIDE DEF x
  <1>6. y \in Int /\ 128 * y <= x /\ x < 128 * y + 128
    BY <1>3, Div128
  <1> HIDE DEF y, r, g, b
  <1>7. y \in 16 .. 235
    BY <1>3, <1>6, SMT
  <1>8. 2560000 \div 10 = 256000
    BY SMT
  <1>9. /\ -3328000 <= 2560000 * (y - 16) - 220 * (2126 * r + 7152 * g + 722 * b)
        /\ 2560000 * (y - 16) - 220 * (2126 * r + 7152 * g + 722 * b) <= 3328000
    BY <1>1, <1>2, <1>6, SMT
  <1>10. -13 * (2560000 \div 10) = -3328000 /\ 13 * (2560000 \div 10) = 3328000
    BY <1>8, SMT
  <1>11. LumaWithin(y, p, 13, 10)
    BY <1>4, <1>9, <1>10
  <1> QED BY <1>5, <1>7, <1>11

-----------------------------------------------------------------------------
(* The lanes of the registers keep within 16 bits. *)
LEMMA LaneIs ==
  ASSUME NEW p \in Pixels
  PROVE  /\ Ybias + dotLane(p, Y) = LumaSum(p)
         /\ Cbias + dotLane(p, U) = CbSum(p)
         /\ Cbias + dotLane(p, V) = CrSum(p)
         /\ dotLane(p, Y) \in Int /\ dotLane(p, U) \in Int /\ dotLane(p, V) \in Int
  <1> DEFINE r == p[1]
             g == p[2]
             b == p[3]
             a == p[4]
             Lane(k1, k2, k3) ==
               Int16(Sat16(r * k1 + g * k2) + Sat16(b * k3 + a * 0))
  <1>1. /\ r \in 0 .. 255 /\ g \in 0 .. 255 /\ b \in 0 .. 255 /\ a \in 0 .. 255
    BY Components
  <1>2. /\ dotLane(p, Y) = Lane(23, 79, 8)
        /\ dotLane(p, U) = Lane(-13, -43, 56)
        /\ dotLane(p, V) = Lane(56, -51, -5)
        /\ Ybias = 2112 /\ Cbias = 16448
    BY Coefficients DEF dotLane
  <1>3. /\ LumaSum(p) = 2112 + 23 * r + 79 * g + 8 * b
        /\ CbSum(p) = 16448 - 13 * r - 43 * g + 56 * b
        /\ CrSum(p) = 16448 + 56 * r - 51 * g - 5 * b
    BY DEF LumaSum, CbSum, CrSum
  <1> HIDE DEF r, g, b, a
  <1>4. ASSUME NEW k1 \in Int, NEW k2 \in Int, NEW k3 \in Int,
               NEW m \in Int, NEW n \in Int,
               m = r * k1 + g * k2, n = b * k3 + a * 0,
               -16384 <= m, m <= 26010, -1275 <= n, n <= 14280,
               m + n < 32768
        PROVE  Lane(k1, k2, k3) = m + n
    <2>1. Sat16(m) = m /\ Sat16(n) = n
      BY <1>4, Unsaturated
    <2>2. m + n \in Int /\ -32768 <= m + n /\ m + n < 32768
      BY <1>4, SMT
    <2>3. Int16(m + n) = m + n
      BY <2>2, Int16Small
    <2> QED BY <1>4, <2>1, <2>3
  <1>5. Lane(23, 79, 8) = (23 * r + 79 * g) + 8 * b
    <2> DEFINE m == 23 * r + 79 * g
               n == 8 * b
    <2>1. /\ m \in Int /\ n \in Int /\ m = r * 23 + g * 79 /\ n = b * 8 + a * 0
          /\ -16384 <= m /\ m <= 26010 /\ -1275 <= n /\ n <= 14280 /\ m + n < 32768
      BY <1>1, SMT
    <2> HIDE DEF m, n, Lane
    <2>2. Lane(23, 79, 8) = m + n
      BY <1>4, <2>1
    <2> QED BY <2>2 DEF m, n
  <1>6. Lane(-13, -43, 56) = (-13 * r - 43 * g) + 56 * b
    <2> DEFINE m == -13 * r - 43 * g
               n == 56 * b
    <2>1. /\ m \in Int /\ n \in Int /\ m = r * (-13) + g * (-43) /\ n = b * 56 + a * 0
          /\ -16384 <= m /\ m <= 26010 /\ -1275 <= n /\ n <= 14280 /\ m + n < 32768
          /\ -13 \in Int /\ -43 \in Int
      BY <1>1, SMT
    <2> HIDE DEF m, n, Lane
    <2>2. Lane(-13, -43, 56) = m + n
      BY <1>4, <2>1
    <2> QED BY <2>2 DEF m, n
  <1>7. Lane(56, -51, -5) = (56 * r - 51 * g) + -5 * b
    <2> DEFINE m == 56 * r - 51 * g
               n == -5 * b
    <2>1. /\ m \in Int /\ n \in Int /\ m = r * 56 + g * (-51) /\ n = b * (-5) + a * 0
          /\ -16384 <= m /\ m <= 26010 /\ -1275 <= n /\ n <= 14280 /\ m + n < 32768
          /\ -51 \in Int /\ -5 \in Int
      BY <1>1, SMT
    <2> HIDE DEF m, n, Lane
    <2>2. Lane(56, -51, -5) = m + n
      BY <1>4, <2>1
    <2> QED BY <2>2 DEF m, n
  <1> HIDE DEF Lane
  <1> QED BY <1>1, <1>2, <1>3, <1>5, <1>6, <1>7, SMT

(* The build with SSSE3 converts a pixel to the same luma, and an averaged *)
(* one to the same chroma: nothing saturates or wraps in its lanes, though *)
(* the products are signed and hadd_epi16 does not saturate.               *)
THEOREM LanesAgree ==
  ASSUME NEW p \in Pixels
  PROVE  /\ packLane(dotLane(p, Y), Ybias) = Converted(Ybias, Y, p)
         /\ packLane(dotLane(p, U), Cbias) = Converted(Cbias, U, p)
         /\ packLane(dotLane(p, V), Cbias) = Converted(Cbias, V, p)
  <1>1. ASSUME NEW d \in Int, NEW B \in Int, NEW x \in Nat, x < 32768, B + d = x
        PROVE  packLane(d, B) = x \div 128
    <2>1. d + B = x /\ 0 <= x
      BY <1>1, SMT
    <2> QED BY <1>1, <2>1, Packed
  <1>2. LumaSum(p) < 32768 /\ CbSum(p) < 32768 /\ CrSum(p) < 32768
    BY SumBounds
  <1>3. Ybias \in Int /\ Cbias \in Int
    BY Coefficients
  <1> QED BY <1>1, <1>2, <1>3, LaneIs, SumBounds, ConvertedIs

-----------------------------------------------------------------------------
(* Averages *)
LEMMA ModNegative ==
  ASSUME NEW q \in Int, -256 <= q, q < 0
  PROVE  q % 256 = q + 256
  <1> DEFINE n == 256
             z == q \div n
             m == q % n
  <1>1. n = 256
    OBVIOUS
  <1> HIDE DEF n
  <1>2. n \in Nat \ {0}
    BY <1>1, SMT
  <1>3. z \in Int /\ m \in Int /\ 0 <= m /\ m < n /\ q = n * z + m
    BY <1>2, SMT
  <1> HIDE DEF z, m
  <1>4. m = q + 256
    BY <1>1, <1>3, SMT
  <1> QED BY <1>1, <1>4 DEF m

LEMMA Half ==
  ASSUME NEW x \in Int
  PROVE  x \div 2 \in Int /\ 2 * (x \div 2) <= x /\ x <= 2 * (x \div 2) + 1
  BY SMT

(* n is the complement of the half of x + y, rounded down or up *)
HalfDown(n, x, y) ==
  n \in 0 .. 255 /\ 510 - (x + y) <= 2 * n /\ 2 * n <= 511 - (x + y)

HalfUp(n, x, y) ==
  n \in 0 .. 255 /\ 509 - (x + y) <= 2 * n /\ 2 * n <= 510 - (x + y)

(* m is within a half of the mean of four *)
NearMean(m, x, y, z, w) ==
  m \in 0 .. 255 /\ 4 * m - (x + y + z + w) \in -2 .. 2

LEMMA NavgBounds ==
  ASSUME NEW x \in Byte, NEW y \in Byte
  PROVE  HalfDown(navg(x, y), x, y)
  <1> DEFINE h == -(x + y) - 1
             q == h \div 2
  <1>1. navg(x, y) = q % 256
    BY DEF navg
  <1>2. h \in Int /\ h = -(x + y) - 1
    BY SMT DEF Byte
  <1> HIDE DEF h
  <1>3. q \in Int /\ 2 * q <= h /\ h <= 2 * q + 1
    BY <1>2, Half
  <1> HIDE DEF q
  <1>4. -256 <= q /\ q < 0
    BY <1>2, <1>3, SMT DEF Byte
  <1>5. navg(x, y) = q + 256
    BY <1>1, <1>3, <1>4, ModNegative
  <1> QED BY <1>2, <1>3, <1>4, <1>5, SMT DEF HalfDown, Byte

LEMMA NavgLaneBounds ==
  ASSUME NEW x \in Byte, NEW y \in Byte
  PROVE  HalfUp(navgLane(x, y), x, y)
  <1> DEFINE h == x + y + 1
             q == h \div 2
  <1>1. navgLane(x, y) = 255 - q
    BY DEF navgLane
  <1>2. h \in Int /\ h = x + y + 1
    BY SMT DEF Byte
  <1> HIDE DEF h
  <1>3. q \in Int /\ 2 * q <= h /\ h <= 2 * q + 1
    BY <1>2, Half
  <1> HIDE DEF q
  <1> QED BY <1>1, <1>2, <1>3, SMT DEF HalfUp, Byte

(* Both ways to average four bytes, one of which rounds the first averages *)
(* down and the last up and the other the other way round, are within a    *)
(* half of the mean, hence within one of each other; either way the        *)
(* complements that navg() leaves cancel.                                  *)
THEOREM AveragesAgree ==
  ASSUME NEW a \in Byte, NEW b \in Byte, NEW c \in Byte, NEW d \in Byte
  PROVE  LET lane == navgLane(navgLane(a, b), navgLane(c, d))
         IN /\ NearMean(avg(a, b, c, d), a, b, c, d)
            /\ NearMean(lane, a, b, c, d)
            /\ lane - avg(a, b, c, d) \in -1 .. 1
  <1> DEFINE m == navg(a, b)
             n == navg(c, d)
             e == navg(m, n)
             k == navgLane(a, b)
             l == navgLane(c, d)
             f == navgLane(k, l)
  <1>1. HalfDown(m, a, b) /\ HalfDown(n, c, d)
    BY NavgBounds
  <1>2. HalfUp(k, a, b) /\ HalfUp(l, c, d)
    BY NavgLaneBounds
  <1>3. avg(a, b, c, d) = e
    BY DEF avg
  <1> HIDE DEF m, n, k, l
  <1>4. m \in Byte /\ n \in Byte /\ k \in Byte /\ l \in Byte
    BY <1>1, <1>2 DEF HalfDown, HalfUp, Byte
  <1>5. HalfDown(e, m, n) /\ HalfUp(f, k, l)
    BY <1>4, NavgBounds, NavgLaneBounds
  <1> HIDE DEF e, f
  <1>6. NearMean(e, a, b, c, d)
    BY <1>1, <1>4, <1>5, SMT DEF HalfDown, NearMean, Byte
  <1>7. NearMean(f, a, b, c, d)
    BY <1>2, <1>4, <1>5, SMT DEF HalfUp, NearMean, Byte
  <1>8. f - e \in -1 .. 1
    BY <1>6, <1>7, SMT DEF NearMean, Byte
  <1> QED BY <1>3, <1>6, <1>7, <1>8 DEF f, k, l

-----------------------------------------------------------------------------
(* Both averages of a block are pixels, and near its mean.                 *)
LEMMA Averages ==
  ASSUME NEW p00 \in Pixels, NEW p10 \in Pixels, NEW p01 \in Pixels, NEW p11 \in Pixels
  PROVE  LET a == Average(p00, p10, p01, p11)
             l == avgLane(p00, p10, p01, p11)
         IN /\ a \in Pixels /\ l \in Pixels
            /\ \A c \in 1 .. 4 :
                 /\ NearMean(a[c], p00[c], p10[c], p01[c], p11[c])
                 /\ NearMean(l[c], p00[c], p10[c], p01[c], p11[c])
                 /\ l[c] - a[c] \in -1 .. 1
  <1> DEFINE a == Average(p00, p10, p01, p11)
             l == avgLane(p00, p10, p01, p11)
  <1>1. \A c \in 1 .. 4 :
          p00[c] \in Byte /\ p10[c] \in Byte /\ p01[c] \in Byte /\ p11[c] \in Byte
    BY DEF Pixels
  <1>2. /\ a = [c \in 1 .. 4 |-> avg(p00[c], p10[c], p01[c], p11[c])]
        /\ l = [c \in 1 .. 4 |->
                  navgLane(navgLane(p00[c], p10[c]), navgLane(p01[c], p11[c]))]
    BY DEF Average, avgLane
  <1> HIDE DEF a, l
  <1>3. \A c \in 1 .. 4 :
          /\ NearMean(a[c], p00[c], p10[c], p01[c], p11[c])
          /\ NearMean(l[c], p00[c], p10[c], p01[c], p11[c])
          /\ l[c] - a[c] \in -1 .. 1
    BY <1>1, <1>2, AveragesAgree
  <1>4. a \in Pixels /\ l \in Pixels
    <2>1. \A c \in 1 .. 4 : a[c] \in Byte /\ l[c] \in Byte
      BY <1>3 DEF NearMean, Byte
    <2> QED BY <1>2, <2>1 DEF Pixels
  <1> QED BY <1>3, <1>4 DEF a, l

(* Any average that is near the mean gives the right chroma.               *)
LEMMA ChromaOfMean ==
  ASSUME NEW p00 \in Pixels, NEW p10 \in Pixels, NEW p01 \in Pixels, NEW p11 \in Pixels,
         NEW a \in Pixels,
         \A c \in 1 .. 4 : NearMean(a[c], p00[c], p10[c], p01[c], p11[c])
  PROVE  LET s == [c \in 1 .. 3 |-> p00[c] + p10[c] + p01[c] + p11[c]]
             cb == Converted(Cbias, U, a)
             cr == Converted(Cbias, V, a)
         IN /\ cb \in 16 .. 240 /\ cr \in 16 .. 240
            /\ CbWithin(cb, s, 3, 2) /\ CrWithin(cr, s, 3, 2)
            /\ a[1] = a[2] /\ a[2] = a[3] => cb = 128 /\ cr = 128
  <1> DEFINE s == [c \in 1 .. 3 |-> p00[c] + p10[c] + p01[c] + p11[c]]
             cb == Converted(Cbias, U, a)
             cr == Converted(Cbias, V, a)
             r == a[1]
             g == a[2]
             b == a[3]
             sr == s[1]
             sg == s[2]
             sb == s[3]
  <1>1. \A c \in 1 .. 4 :
          p00[c] \in Byte /\ p10[c] \in Byte /\ p01[c] \in Byte /\ p11[c] \in Byte
    BY DEF Pixels
  <1>4. /\ sr = p00[1] + p10[1] + p01[1] + p11[1]
        /\ sg = p00[2] + p10[2] + p01[2] + p11[2]
        /\ sb = p00[3] + p10[3] + p01[3] + p11[3]
    OBVIOUS
  <1>5. /\ sr \in Int /\ 4 * r - sr \in -2 .. 2
        /\ sg \in Int /\ 4 * g - sg \in -2 .. 2
        /\ sb \in Int /\ 4 * b - sb \in -2 .. 2
    <2>1. \A c \in 1 .. 3 : s[c] \in Int /\ 4 * a[c] - s[c] \in -2 .. 2
      <3> TAKE c \in 1 .. 3
      <3> DEFINE x == p00[c]
                 y == p10[c]
                 z == p01[c]
                 w == p11[c]
                 m == a[c]
      <3>1. x \in Byte /\ y \in Byte /\ z \in Byte /\ w \in Byte
        BY <1>1
      <3>2. NearMean(m, x, y, z, w)
        OBVIOUS
      <3>3. s[c] = x + y + z + w
        OBVIOUS
      <3> HIDE DEF s, x, y, z, w, m
      <3>4. s[c] \in Int /\ 4 * m - s[c] \in -2 .. 2
        BY <3>1, <3>2, <3>3, SMT DEF NearMean, Byte
      <3> QED BY <3>4 DEF m
    <2> HIDE DEF s
    <2> QED BY <2>1
  <1>6. r \in 0 .. 255 /\ g \in 0 .. 255 /\ b \in 0 .. 255
    BY Components
  <1>7. /\ cb = CbSum(a) \div 128 /\ CbSum(a) = 16448 - 13 * r - 43 * g + 56 * b
        /\ cr = CrSum(a) \div 128 /\ CrSum(a) = 16448 + 56 * r - 51 * g - 5 * b
    BY ConvertedIs DEF CbSum, CrSum
  <1>8. /\ CbSum(a) \in Int /\ 2168 <= CbSum(a) /\ CbSum(a) <= 30728
        /\ CrSum(a) \in Int /\ 2168 <= CrSum(a) /\ CrSum(a) <= 30728
    BY SumBounds
  <1>9. /\ cb \in Int /\ 128 * cb <= CbSum(a) /\ CbSum(a) < 128 * cb + 128
        /\ cr \in Int /\ 128 * cr <= CrSum(a) /\ CrSum(a) < 128 * cr + 128
    BY <1>7, <1>8, Div128
  <1>10. /\ CbWithin(cb, s, 3, 2)
              <=> LET d == 9500672 * (cb - 128) - 112 * (9278 * sb - 2126 * sr - 7152 * sg)
                  IN -3 * (9500672 \div 2) <= d /\ d <= 3 * (9500672 \div 2)
         /\ CrWithin(cr, s, 3, 2)
              <=> LET d == 8062976 * (cr - 128) - 112 * (7874 * sr - 7152 * sg - 722 * sb)
                  IN -3 * (8062976 \div 2) <= d /\ d <= 3 * (8062976 \div 2)
    <2>1. /\ 10000 - KB = 9278 /\ 1024 * (10000 - KB) = 9500672
          /\ 10000 - KR = 7874 /\ 1024 * (10000 - KR) = 8062976
          /\ KR = 2126 /\ KG = 7152 /\ KB = 722
      BY SMT DEF KR, KG, KB
    <2> HIDE DEF s, cb, cr
    <2> QED BY <2>1 DEF CbWithin, CrWithin
  <1> HIDE DEF s, cb, cr, r, g, b, sr, sg, sb
  <1>11. cb \in 16 .. 240 /\ cr \in 16 .. 240
    BY <1>8, <1>9, SMT
  <1>12. /\ -14251008 <= 9500672 * (cb - 128) - 112 * (9278 * sb - 2126 * sr - 7152 * sg)
         /\ 9500672 * (cb - 128) - 112 * (9278 * sb - 2126 * sr - 7152 * sg) <= 14251008
    BY <1>5, <1>6, <1>7, <1>9, SMT
  <1>13. /\ -12094464 <= 8062976 * (cr - 128) - 112 * (7874 * sr - 7152 * sg - 722 * sb)
         /\ 8062976 * (cr - 128) - 112 * (7874 * sr - 7152 * sg - 722 * sb) <= 12094464
    BY <1>5, <1>6, <1>7, <1>9, SMT
  <1>14. /\ -3 * (9500672 \div 2) = -14251008 /\ 3 * (9500672 \div 2) = 14251008
         /\ -3 * (8062976 \div 2) = -12094464 /\ 3 * (8062976 \div 2) = 12094464
    BY SMT
  <1>15. CbWithin(cb, s, 3, 2) /\ CrWithin(cr, s, 3, 2)
    BY <1>10, <1>12, <1>13, <1>14
  <1>16. r = g /\ g = b => cb = 128 /\ cr = 128
    BY <1>6, <1>7, <1>9, SMT
  <1> QED BY <1>11, <1>15, <1>16 DEF s, cb, cr, r, g, b

(* Chroma keeps to its range, and is BT.709 of the mean of a block to 3/2; *)
(* a grey block has none at all.                                           *)
THEOREM ChromaRight ==
  ASSUME NEW p00 \in Pixels, NEW p10 \in Pixels, NEW p01 \in Pixels, NEW p11 \in Pixels
  PROVE  LET a == Average(p00, p10, p01, p11)
             s == [c \in 1 .. 3 |-> p00[c] + p10[c] + p01[c] + p11[c]]
             cb == Converted(Cbias, U, a)
             cr == Converted(Cbias, V, a)
         IN /\ cb \in 16 .. 240 /\ cr \in 16 .. 240
            /\ CbWithin(cb, s, 3, 2) /\ CrWithin(cr, s, 3, 2)
            /\ a[1] = a[2] /\ a[2] = a[3] => cb = 128 /\ cr = 128
  <1> DEFINE a == Average(p00, p10, p01, p11)
  <1>1. /\ a \in Pixels
        /\ \A c \in 1 .. 4 : NearMean(a[c], p00[c], p10[c], p01[c], p11[c])
    BY Averages
  <1> HIDE DEF a
  <1>2. PICK m \in Pixels : m = a
    BY <1>1
  <1>3. \A c \in 1 .. 4 : NearMean(m[c], p00[c], p10[c], p01[c], p11[c])
    BY <1>1, <1>2
  <1> DEFINE s == [c \in 1 .. 3 |-> p00[c] + p10[c] + p01[c] + p11[c]]
             cb == Converted(Cbias, U, m)
             cr == Converted(Cbias, V, m)
  <1>4. /\ cb \in 16 .. 240 /\ cr \in 16 .. 240
        /\ CbWithin(cb, s, 3, 2) /\ CrWithin(cr, s, 3, 2)
        /\ m[1] = m[2] /\ m[2] = m[3] => cb = 128 /\ cr = 128
    BY <1>3, ChromaOfMean
  <1> QED BY <1>2, <1>4 DEF a

(* The two builds differ by one in chroma at most. *)
THEOREM ChromaAgrees ==
  ASSUME NEW p00 \in Pixels, NEW p10 \in Pixels, NEW p01 \in Pixels, NEW p11 \in Pixels
  PROVE  LET a == Average(p00, p10, p01, p11)
             l == avgLane(p00, p10, p01, p11)
         IN /\ packLane(dotLane(l, U), Cbias) - Converted(Cbias, U, a) \in -1 .. 1
            /\ packLane(dotLane(l, V), Cbias) - Converted(Cbias, V, a) \in -1 .. 1
  <1> DEFINE a == Average(p00, p10, p01, p11)
             l == avgLane(p00, p10, p01, p11)
  <1>3. \A c \in 1 .. 4 :
          /\ NearMean(a[c], p00[c], p10[c], p01[c], p11[c])
          /\ NearMean(l[c], p00[c], p10[c], p01[c], p11[c])
          /\ l[c] - a[c] \in -1 .. 1
    BY Averages
  <1>4. a \in Pixels /\ l \in Pixels
    BY Averages
  <1> HIDE DEF a, l
  <1> DEFINE r == a[1]
             g == a[2]
             b == a[3]
             lr == l[1]
             lg == l[2]
             lb == l[3]
  <1>5. /\ r \in 0 .. 255 /\ lr \in 0 .. 255 /\ lr - r \in -1 .. 1
        /\ g \in 0 .. 255 /\ lg \in 0 .. 255 /\ lg - g \in -1 .. 1
        /\ b \in 0 .. 255 /\ lb \in 0 .. 255 /\ lb - b \in -1 .. 1
    BY <1>3 DEF NearMean
  <1> DEFINE cb == CbSum(a) \div 128
             cr == CrSum(a) \div 128
             lcb == CbSum(l) \div 128
             lcr == CrSum(l) \div 128
  <1>6. /\ packLane(dotLane(l, U), Cbias) = lcb /\ Converted(Cbias, U, a) = cb
        /\ packLane(dotLane(l, V), Cbias) = lcr /\ Converted(Cbias, V, a) = cr
    BY <1>4, LanesAgree, ConvertedIs
  <1>7. /\ CbSum(a) \in Int /\ CrSum(a) \in Int /\ CbSum(l) \in Int /\ CrSum(l) \in Int
    BY <1>4, SumBounds
  <1>8. /\ cb \in Int /\ 128 * cb <= CbSum(a) /\ CbSum(a) < 128 * cb + 128
        /\ cr \in Int /\ 128 * cr <= CrSum(a) /\ CrSum(a) < 128 * cr + 128
        /\ lcb \in Int /\ 128 * lcb <= CbSum(l) /\ CbSum(l) < 128 * lcb + 128
        /\ lcr \in Int /\ 128 * lcr <= CrSum(l) /\ CrSum(l) < 128 * lcr + 128
    BY <1>7, Div128
  <1>9. /\ CbSum(a) = 16448 - 13 * r - 43 * g + 56 * b
        /\ CrSum(a) = 16448 + 56 * r - 51 * g - 5 * b
        /\ CbSum(l) = 16448 - 13 * lr - 43 * lg + 56 * lb
        /\ CrSum(l) = 16448 + 56 * lr - 51 * lg - 5 * lb
    BY DEF CbSum, CrSum
  <1> HIDE DEF r, g, b, lr, lg, lb, cb, cr, lcb, lcr
  <1>10. CbSum(l) - CbSum(a) <= 112 /\ CbSum(a) - CbSum(l) <= 112
    BY <1>5, <1>9, SMT
  <1>11. CrSum(l) - CrSum(a) <= 112 /\ CrSum(a) - CrSum(l) <= 112
    BY <1>5, <1>9, SMT
  <1>12. lcb - cb \in -1 .. 1
    BY <1>7, <1>8, <1>10, SMT
  <1>13. lcr - cr \in -1 .. 1
    BY <1>7, <1>8, <1>11, SMT
  <1> QED BY <1>6, <1>12, <1>13 DEF a, l

-----------------------------------------------------------------------------
(* Registers: sequences of a fixed length                                  *)

IsReg(x, n) == x = [k \in 1 .. n |-> x[k]]

(* z is x followed by y                                                    *)
IsJoined(z, x, y, n, m) ==
  /\ IsReg(z, n + m)
  /\ \A k \in 1 .. n : z[k] = x[k]
  /\ \A k \in 1 .. m : z[n + k] = y[k]

LEMMA Joined ==
  ASSUME NEW n \in Nat, NEW m \in Nat, NEW x, NEW y, IsReg(x, n), IsReg(y, m)
  PROVE  IsJoined(x \o y, x, y, n, m)
  <1> DEFINE S == {x[k] : k \in 1 .. n} \cup {y[k] : k \in 1 .. m}
  <1>1. x \in [1 .. n -> S] /\ y \in [1 .. m -> S]
    BY DEF IsReg
  <1> HIDE DEF S
  <1>2. x \in Seq(S) /\ Len(x) = n
    BY <1>1
  <1>3. y \in Seq(S) /\ Len(y) = m
    BY <1>1
  <1>4. x \o y \in Seq(S) /\ Len(x \o y) = n + m
    BY <1>2, <1>3
  <1>5. \A k \in 1 .. n + m : (x \o y)[k] = IF k <= n THEN x[k] ELSE y[k - n]
    BY <1>2, <1>3
  <1>6. x \o y \in [1 .. n + m -> S]
    BY <1>4, LenProperties
  <1>7. \A k \in 1 .. m : n + k \in 1 .. n + m /\ ~(n + k <= n) /\ (n + k) - n = k
    OBVIOUS
  <1>8. \A k \in 1 .. n : k \in 1 .. n + m /\ k <= n
    OBVIOUS
  <1> QED BY <1>5, <1>6, <1>7, <1>8 DEF IsReg, IsJoined

(* z is n lanes of x from a on                                             *)
IsPart(z, x, a, n) == IsReg(z, n) /\ \A k \in 1 .. n : z[k] = x[a + k - 1]

LEMMA Part ==
  ASSUME NEW n \in Nat, NEW a \in 1 .. n, NEW b \in a .. n, NEW x, IsReg(x, n)
  PROVE  IsPart(SubSeq(x, a, b), x, a, b - a + 1)
  <1> DEFINE S == {x[k] : k \in 1 .. n}
  <1>1. x \in [1 .. n -> S]
    BY DEF IsReg
  <1> HIDE DEF S
  <1>2. x \in Seq(S) /\ Len(x) = n
    BY <1>1
  <1>3. SubSeq(x, a, b) \in Seq(S) /\ Len(SubSeq(x, a, b)) = b - a + 1
    BY <1>2
  <1>4. SubSeq(x, a, b) \in [1 .. b - a + 1 -> S]
    BY <1>3, LenProperties
  <1>5. \A k \in 1 .. b - a + 1 : SubSeq(x, a, b)[k] = x[a + k - 1]
    BY <1>2
  <1> QED BY <1>4, <1>5 DEF IsReg, IsPart

(* Halves of two registers, one after the other                            *)
LEMMA Unpacked ==
  ASSUME NEW x, NEW y, IsReg(x, 16), IsReg(y, 16)
  PROVE  /\ \A k \in 1 .. 8 : /\ unpacklo_epi64(x, y)[k] = x[k]
                              /\ unpacklo_epi64(x, y)[8 + k] = y[k]
         /\ \A k \in 1 .. 8 : /\ unpackhi_epi64(x, y)[k] = x[8 + k]
                              /\ unpackhi_epi64(x, y)[8 + k] = y[8 + k]
  <1> DEFINE xl == SubSeq(x, 1, 8)
             yl == SubSeq(y, 1, 8)
             xh == SubSeq(x, 9, 16)
             yh == SubSeq(y, 9, 16)
             lo == xl \o yl
             hi == xh \o yh
  <1>1. /\ 8 \in Nat /\ 16 \in Nat /\ 1 \in 1 .. 16 /\ 8 \in 1 .. 16
        /\ 9 \in 1 .. 16 /\ 16 \in 9 .. 16 /\ 8 - 1 + 1 = 8 /\ 16 - 9 + 1 = 8
    OBVIOUS
  <1>2. IsPart(xl, x, 1, 8) /\ IsPart(yl, y, 1, 8)
    <2> DEFINE m == 8 - 1 + 1
    <2>1. IsPart(xl, x, 1, m) /\ IsPart(yl, y, 1, m)
      BY <1>1, Part
    <2> QED BY <2>1, <1>1
  <1>3. IsPart(xh, x, 9, 8) /\ IsPart(yh, y, 9, 8)
    <2> DEFINE m == 16 - 9 + 1
    <2>1. IsPart(xh, x, 9, m) /\ IsPart(yh, y, 9, m)
      BY <1>1, Part
    <2> QED BY <2>1, <1>1
  <1>4. lo = unpacklo_epi64(x, y) /\ hi = unpackhi_epi64(x, y)
    BY DEF unpacklo_epi64, unpackhi_epi64
  <1> HIDE DEF xl, yl, xh, yh
  <1>5. IsJoined(lo, xl, yl, 8, 8) /\ IsJoined(hi, xh, yh, 8, 8)
    BY <1>1, <1>2, <1>3, Joined DEF IsPart
  <1> HIDE DEF lo, hi
  <1>6. ASSUME NEW k \in 1 .. 8
        PROVE  /\ lo[k] = x[k] /\ lo[8 + k] = y[k]
               /\ hi[k] = x[8 + k] /\ hi[8 + k] = y[8 + k]
    <2>1. 1 + k - 1 = k /\ 9 + k - 1 = 8 + k
      OBVIOUS
    <2>2. xl[k] = x[k] /\ yl[k] = y[k] /\ xh[k] = x[8 + k] /\ yh[k] = y[8 + k]
      BY <1>2, <1>3, <2>1 DEF IsPart
    <2> QED BY <1>5, <2>2 DEF IsJoined
  <1> QED BY <1>4, <1>6

(* A pixel between two, as navg() of a register makes it                   *)
Between(p, q) == [c \in 1 .. 4 |-> navgLane(p[c], q[c])]

LEMMA NavgReg ==
  ASSUME NEW x, NEW y
  PROVE  IsReg(navgReg(x, y), 4) /\ \A k \in 1 .. 4 : navgReg(x, y)[k] = Between(x[k], y[k])
  BY DEF navgReg, IsReg, Between

(* avg() of two registers averages the neighbours in both.                 *)
LEMMA AvgReg ==
  ASSUME NEW x, NEW y
  PROVE  LET a == avgReg(x, y)
         IN /\ IsReg(a, 4)
            /\ a[1] = Between(x[1], x[2]) /\ a[2] = Between(x[3], x[4])
            /\ a[3] = Between(y[1], y[2]) /\ a[4] = Between(y[3], y[4])
  <1> DEFINE n0415 == unpacklo_epi32(x, y)
             n2637 == unpackhi_epi32(x, y)
             lo == unpacklo_epi32(n0415, n2637)
             hi == unpackhi_epi32(n0415, n2637)
  <1>1. /\ n0415[1] = x[1] /\ n0415[2] = y[1] /\ n0415[3] = x[2] /\ n0415[4] = y[2]
        /\ n2637[1] = x[3] /\ n2637[2] = y[3] /\ n2637[3] = x[4] /\ n2637[4] = y[4]
    BY DEF unpacklo_epi32, unpackhi_epi32
  <1>2. /\ lo[1] = n0415[1] /\ lo[2] = n2637[1] /\ lo[3] = n0415[2] /\ lo[4] = n2637[2]
        /\ hi[1] = n0415[3] /\ hi[2] = n2637[3] /\ hi[3] = n0415[4] /\ hi[4] = n2637[4]
    BY DEF unpacklo_epi32, unpackhi_epi32
  <1>3. avgReg(x, y) = navgReg(lo, hi)
    BY DEF avgReg
  <1> HIDE DEF lo, hi, n0415, n2637
  <1> QED BY <1>1, <1>2, <1>3, NavgReg

(* dot() and pack() keep the order of the lanes.                           *)
LEMMA PackDot ==
  ASSUME NEW x, NEW y, NEW z, NEW w, IsReg(x, 4), IsReg(y, 4), IsReg(z, 4), IsReg(w, 4),
         NEW K, NEW J, NEW B
  PROVE  LET e == pack(dot(x, y, K), dot(z, w, J), B)
         IN /\ IsReg(e, 16)
            /\ \A k \in 1 .. 4 :
                 /\ e[k] = packLane(dotLane(x[k], K), B)
                 /\ e[4 + k] = packLane(dotLane(y[k], K), B)
                 /\ e[8 + k] = packLane(dotLane(z[k], J), B)
                 /\ e[12 + k] = packLane(dotLane(w[k], J), B)
  <1> DEFINE xy == x \o y
             zw == z \o w
             d0 == dot(x, y, K)
             d1 == dot(z, w, J)
             d == d0 \o d1
             e == pack(d0, d1, B)
  <1>1. 4 \in Nat /\ 8 \in Nat
    OBVIOUS
  <1>2. IsJoined(xy, x, y, 4, 4) /\ IsJoined(zw, z, w, 4, 4)
    BY <1>1, Joined
  <1>3. IsReg(d0, 8) /\ \A k \in 1 .. 8 : d0[k] = dotLane(xy[k], K)
    BY DEF dot, IsReg
  <1>4. IsReg(d1, 8) /\ \A k \in 1 .. 8 : d1[k] = dotLane(zw[k], J)
    BY DEF dot, IsReg
  <1>5. IsReg(e, 16) /\ \A k \in 1 .. 16 : e[k] = packLane(d[k], B)
    BY DEF pack, IsReg
  <1> HIDE DEF d0, d1
  <1>6. IsJoined(d, d0, d1, 8, 8)
    BY <1>1, <1>3, <1>4, Joined
  <1> HIDE DEF e, d, xy, zw
  <1>7. ASSUME NEW k \in 1 .. 4
        PROVE  /\ e[k] = packLane(dotLane(x[k], K), B)
               /\ e[4 + k] = packLane(dotLane(y[k], K), B)
               /\ e[8 + k] = packLane(dotLane(z[k], J), B)
               /\ e[12 + k] = packLane(dotLane(w[k], J), B)
    <2>1. /\ k \in 1 .. 8 /\ 4 + k \in 1 .. 8 /\ k \in 1 .. 16 /\ 4 + k \in 1 .. 16
          /\ 8 + k \in 1 .. 16 /\ 12 + k \in 1 .. 16 /\ 12 + k = 8 + (4 + k)
      OBVIOUS
    <2>2. d0[k] = dotLane(x[k], K) /\ d0[4 + k] = dotLane(y[k], K)
      BY <1>2, <1>3, <2>1 DEF IsJoined
    <2>3. d1[k] = dotLane(z[k], J) /\ d1[4 + k] = dotLane(w[k], J)
      BY <1>2, <1>4, <2>1 DEF IsJoined
    <2>4. /\ d[k] = d0[k] /\ d[4 + k] = d0[4 + k]
          /\ d[8 + k] = d1[k] /\ d[8 + (4 + k)] = d1[4 + k]
      BY <1>6, <2>1 DEF IsJoined
    <2>5. /\ e[k] = packLane(d[k], B) /\ e[4 + k] = packLane(d[4 + k], B)
          /\ e[8 + k] = packLane(d[8 + k], B) /\ e[12 + k] = packLane(d[12 + k], B)
      BY <1>5, <2>1
    <2>6. d[12 + k] = d[8 + (4 + k)]
      BY <2>1
    <2> QED BY <2>2, <2>3, <2>4, <2>5, <2>6
  <1> QED BY <1>5, <1>7 DEF e, d0, d1

-----------------------------------------------------------------------------
(* 16 x 2 pixels at a time                                                 *)

LumaByte(o) == Converted(Ybias, Y, Pixel(o))

(* The average of the block whose left pixels are at a and b               *)
Mean(a, b) == avgLane(Pixel(a), Pixel(b), Pixel(a + 4), Pixel(b + 4))

LEMMA PixelIs ==
  ASSUME BytesRead, picture \in Pictures, NEW o \in Nat
  PROVE  Pixel(o) \in Pixels
  <1>1. \A c \in 1 .. 4 : o + c - 1 \in Nat
    OBVIOUS
  <1> QED BY <1>1 DEF Pixel, Pixels, BytesRead

LEMMA Loaded ==
  ASSUME NEW o \in Nat
  PROVE  /\ IsReg(load(o), 4)
         /\ \A k \in 1 .. 4 : load(o)[k] = Pixel(o + 4 * (k - 1))
  BY DEF load, IsReg

LEMMA LumaRow ==
  ASSUME BytesRead, picture \in Pictures, NEW r \in Nat
  PROVE  LET e == pack(dot(load(r + 16 * 0), load(r + 16 * 1), Y),
                       dot(load(r + 16 * 2), load(r + 16 * 3), Y), Ybias)
         IN IsReg(e, 16) /\ \A k \in 1 .. 16 : e[k] = LumaByte(r + 4 * (k - 1))
  <1> DEFINE x(n) == load(r + 16 * n)
             e == pack(dot(x(0), x(1), Y), dot(x(2), x(3), Y), Ybias)
  <1>1. \A n \in 0 .. 3 : r + 16 * n \in Nat
    OBVIOUS
  <1>2. \A n \in 0 .. 3 : IsReg(x(n), 4)
    BY <1>1, Loaded
  <1>3. ASSUME NEW n \in 0 .. 3, NEW k \in 1 .. 4
        PROVE  packLane(dotLane(x(n)[k], Y), Ybias) = LumaByte(r + 4 * ((4 * n + k) - 1))
    <2>1. x(n)[k] = Pixel((r + 16 * n) + 4 * (k - 1))
      BY <1>1, Loaded
    <2>2. /\ (r + 16 * n) + 4 * (k - 1) = r + 4 * ((4 * n + k) - 1)
          /\ r + 4 * ((4 * n + k) - 1) \in Nat
      OBVIOUS
    <2> QED BY <2>1, <2>2, PixelIs, LanesAgree DEF LumaByte
  <1>4. /\ IsReg(e, 16)
        /\ \A k \in 1 .. 4 :
             /\ e[k] = packLane(dotLane(x(0)[k], Y), Ybias)
             /\ e[4 + k] = packLane(dotLane(x(1)[k], Y), Ybias)
             /\ e[8 + k] = packLane(dotLane(x(2)[k], Y), Ybias)
             /\ e[12 + k] = packLane(dotLane(x(3)[k], Y), Ybias)
    <2> HIDE DEF x
    <2>1. IsReg(x(0), 4) /\ IsReg(x(1), 4) /\ IsReg(x(2), 4) /\ IsReg(x(3), 4)
      BY <1>2
    <2> QED BY <2>1, PackDot
  <1> HIDE DEF e, x
  <1>5. \A k \in 1 .. 4 :
          /\ e[k] = LumaByte(r + 4 * (k - 1))
          /\ e[4 + k] = LumaByte(r + 4 * ((4 + k) - 1))
          /\ e[8 + k] = LumaByte(r + 4 * ((8 + k) - 1))
          /\ e[12 + k] = LumaByte(r + 4 * ((12 + k) - 1))
    <2> TAKE k \in 1 .. 4
    <2>1. /\ 0 \in 0 .. 3 /\ 1 \in 0 .. 3 /\ 2 \in 0 .. 3 /\ 3 \in 0 .. 3
          /\ 4 * 0 + k = k /\ 4 * 1 + k = 4 + k /\ 4 * 2 + k = 8 + k /\ 4 * 3 + k = 12 + k
      OBVIOUS
    <2>2. /\ packLane(dotLane(x(0)[k], Y), Ybias) = LumaByte(r + 4 * (k - 1))
          /\ packLane(dotLane(x(1)[k], Y), Ybias) = LumaByte(r + 4 * ((4 + k) - 1))
          /\ packLane(dotLane(x(2)[k], Y), Ybias) = LumaByte(r + 4 * ((8 + k) - 1))
          /\ packLane(dotLane(x(3)[k], Y), Ybias) = LumaByte(r + 4 * ((12 + k) - 1))
      BY <1>3, <2>1
    <2> QED BY <1>4, <2>2
  <1>6. \A k \in 1 .. 16 : e[k] = LumaByte(r + 4 * (k - 1))
    <2> TAKE k \in 1 .. 16
    <2>1. PICK j \in 1 .. 4 : k = j \/ k = 4 + j \/ k = 8 + j \/ k = 12 + j
      <3>1. CASE k <= 4
        BY <3>1
      <3>2. CASE 4 < k /\ k <= 8
        <4>1. k - 4 \in 1 .. 4 /\ k = 4 + (k - 4)
          BY <3>2
        <4> QED BY <4>1
      <3>3. CASE 8 < k /\ k <= 12
        <4>1. k - 8 \in 1 .. 4 /\ k = 8 + (k - 8)
          BY <3>3
        <4> QED BY <4>1
      <3>4. CASE 12 < k
        <4>1. k - 12 \in 1 .. 4 /\ k = 12 + (k - 12)
          BY <3>4
        <4> QED BY <4>1
      <3> QED BY <3>1, <3>2, <3>3, <3>4
    <2> QED BY <1>5, <2>1
  <1> QED BY <1>4, <1>6 DEF e, x

(* Eight pixels of two rows each are four blocks.                          *)
LEMMA MeanReg ==
  ASSUME NEW r0 \in Nat, NEW r1 \in Nat
  PROVE  LET a == avgReg(navgReg(load(r0), load(r1)),
                         navgReg(load(r0 + 16), load(r1 + 16)))
         IN /\ IsReg(a, 4)
            /\ \A k \in 1 .. 4 : a[k] = Mean(r0 + 8 * (k - 1), r1 + 8 * (k - 1))
  <1> DEFINE x0 == load(r0)
             x1 == load(r1)
             z0 == load(r0 + 16)
             z1 == load(r1 + 16)
             x == navgReg(x0, x1)
             z == navgReg(z0, z1)
             a == avgReg(x, z)
  <1>1. ASSUME NEW b00, NEW b10, NEW b01, NEW b11
        PROVE  Between(Between(b00, b10), Between(b01, b11)) = avgLane(b00, b10, b01, b11)
    BY DEF Between, avgLane
  <1>2. /\ x0[1] = Pixel(r0) /\ x0[2] = Pixel(r0 + 4)
        /\ x0[3] = Pixel(r0 + 8) /\ x0[4] = Pixel(r0 + 12)
    BY DEF load
  <1>3. /\ x1[1] = Pixel(r1) /\ x1[2] = Pixel(r1 + 4)
        /\ x1[3] = Pixel(r1 + 8) /\ x1[4] = Pixel(r1 + 12)
    BY DEF load
  <1>4. /\ z0[1] = Pixel(r0 + 16) /\ z0[2] = Pixel(r0 + 20)
        /\ z0[3] = Pixel(r0 + 24) /\ z0[4] = Pixel(r0 + 28)
    BY DEF load
  <1>5. /\ z1[1] = Pixel(r1 + 16) /\ z1[2] = Pixel(r1 + 20)
        /\ z1[3] = Pixel(r1 + 24) /\ z1[4] = Pixel(r1 + 28)
    BY DEF load
  <1> HIDE DEF x0, x1, z0, z1
  <1>6. /\ x[1] = Between(x0[1], x1[1]) /\ x[2] = Between(x0[2], x1[2])
        /\ x[3] = Between(x0[3], x1[3]) /\ x[4] = Between(x0[4], x1[4])
        /\ z[1] = Between(z0[1], z1[1]) /\ z[2] = Between(z0[2], z1[2])
        /\ z[3] = Between(z0[3], z1[3]) /\ z[4] = Between(z0[4], z1[4])
    BY NavgReg
  <1> HIDE DEF x, z
  <1>7. /\ IsReg(a, 4)
        /\ a[1] = Between(x[1], x[2]) /\ a[2] = Between(x[3], x[4])
        /\ a[3] = Between(z[1], z[2]) /\ a[4] = Between(z[3], z[4])
    BY AvgReg
  <1> HIDE DEF a
  <1>8. /\ a[1] = avgLane(x0[1], x1[1], x0[2], x1[2])
        /\ a[2] = avgLane(x0[3], x1[3], x0[4], x1[4])
        /\ a[3] = avgLane(z0[1], z1[1], z0[2], z1[2])
        /\ a[4] = avgLane(z0[3], z1[3], z0[4], z1[4])
    BY <1>1, <1>6, <1>7
  <1>9. /\ a[1] = Mean(r0, r1) /\ a[2] = Mean(r0 + 8, r1 + 8)
        /\ a[3] = Mean(r0 + 16, r1 + 16) /\ a[4] = Mean(r0 + 24, r1 + 24)
    <2>1. \A r \in Nat : (r + 8) + 4 = r + 12 /\ (r + 16) + 4 = r + 20 /\ (r + 24) + 4 = r + 28
      OBVIOUS
    <2> QED BY <1>2, <1>3, <1>4, <1>5, <1>8, <2>1 DEF Mean
  <1>10. \A k \in 1 .. 4 : a[k] = Mean(r0 + 8 * (k - 1), r1 + 8 * (k - 1))
    <2> TAKE k \in 1 .. 4
    <2>1. /\ k = 1 => r0 + 8 * (k - 1) = r0 /\ r1 + 8 * (k - 1) = r1
          /\ k = 2 => r0 + 8 * (k - 1) = r0 + 8 /\ r1 + 8 * (k - 1) = r1 + 8
          /\ k = 3 => r0 + 8 * (k - 1) = r0 + 16 /\ r1 + 8 * (k - 1) = r1 + 16
          /\ k = 4 => r0 + 8 * (k - 1) = r0 + 24 /\ r1 + 8 * (k - 1) = r1 + 24
          /\ k = 1 \/ k = 2 \/ k = 3 \/ k = 4
      OBVIOUS
    <2> QED BY <1>9, <2>1
  <1> QED BY <1>7, <1>10 DEF a, x, z, x0, x1, z0, z1

CbLane(a, b) == packLane(dotLane(Mean(a, b), U), Cbias)
CrLane(a, b) == packLane(dotLane(Mean(a, b), V), Cbias)

LEMMA ChromaRow ==
  ASSUME NEW r0 \in Nat, NEW r1 \in Nat
  PROVE  LET e == Rows16x2(r0, r1).uv
         IN /\ IsReg(e, 16)
            /\ \A k \in 1 .. 8 :
                 /\ e[k] = CbLane(r0 + 8 * (k - 1), r1 + 8 * (k - 1))
                 /\ e[8 + k] = CrLane(r0 + 8 * (k - 1), r1 + 8 * (k - 1))
  <1> DEFINE n(k) == navgReg(load(r0 + 16 * k), load(r1 + 16 * k))
             x == avgReg(n(0), n(1))
             y == avgReg(n(2), n(3))
             e == pack(dot(x, y, U), dot(x, y, V), Cbias)
  <1>1. Rows16x2(r0, r1).uv = e
    BY DEF Rows16x2
  <1>2. /\ IsReg(x, 4)
        /\ \A k \in 1 .. 4 : x[k] = Mean(r0 + 8 * (k - 1), r1 + 8 * (k - 1))
    <2>1. /\ r0 + 16 * 0 = r0 /\ r0 + 16 * 1 = r0 + 16
          /\ r1 + 16 * 0 = r1 /\ r1 + 16 * 1 = r1 + 16
      OBVIOUS
    <2>2. x = avgReg(navgReg(load(r0), load(r1)), navgReg(load(r0 + 16), load(r1 + 16)))
      BY <2>1
    <2> QED BY <2>2, MeanReg
  <1>3. /\ IsReg(y, 4)
        /\ \A k \in 1 .. 4 : y[k] = Mean((r0 + 32) + 8 * (k - 1), (r1 + 32) + 8 * (k - 1))
    <2> DEFINE s0 == r0 + 32
               s1 == r1 + 32
    <2>1. /\ r0 + 16 * 2 = s0 /\ r0 + 16 * 3 = s0 + 16
          /\ r1 + 16 * 2 = s1 /\ r1 + 16 * 3 = s1 + 16
          /\ s0 \in Nat /\ s1 \in Nat
      OBVIOUS
    <2> HIDE DEF s0, s1
    <2>2. y = avgReg(navgReg(load(s0), load(s1)), navgReg(load(s0 + 16), load(s1 + 16)))
      BY <2>1
    <2> HIDE DEF y
    <2>3. IsReg(y, 4) /\ \A k \in 1 .. 4 : y[k] = Mean(s0 + 8 * (k - 1), s1 + 8 * (k - 1))
      BY <2>1, <2>2, MeanReg
    <2> QED BY <2>3 DEF s0, s1
  <1> HIDE DEF x, y
  <1>4. /\ IsReg(e, 16)
        /\ \A k \in 1 .. 4 :
             /\ e[k] = packLane(dotLane(x[k], U), Cbias)
             /\ e[4 + k] = packLane(dotLane(y[k], U), Cbias)
             /\ e[8 + k] = packLane(dotLane(x[k], V), Cbias)
             /\ e[12 + k] = packLane(dotLane(y[k], V), Cbias)
    <2>1. IsReg(x, 4) /\ IsReg(y, 4)
      BY <1>2, <1>3
    <2> QED BY <2>1, PackDot
  <1> HIDE DEF e
  <1> DEFINE a(k) == r0 + 8 * (k - 1)
             b(k) == r1 + 8 * (k - 1)
  <1>5. \A k \in 1 .. 4 :
          /\ e[k] = CbLane(a(k), b(k)) /\ e[4 + k] = CbLane(a(4 + k), b(4 + k))
          /\ e[8 + k] = CrLane(a(k), b(k)) /\ e[8 + (4 + k)] = CrLane(a(4 + k), b(4 + k))
    <2> TAKE k \in 1 .. 4
    <2>1. /\ (r0 + 32) + 8 * (k - 1) = a(4 + k)
          /\ (r1 + 32) + 8 * (k - 1) = b(4 + k)
          /\ 8 + (4 + k) = 12 + k
      OBVIOUS
    <2>2. x[k] = Mean(a(k), b(k)) /\ y[k] = Mean(a(4 + k), b(4 + k))
      BY <1>2, <1>3, <2>1
    <2> HIDE DEF a, b
    <2>3. e[8 + (4 + k)] = e[12 + k]
      BY <2>1
    <2>4. /\ CbLane(a(k), b(k)) = packLane(dotLane(x[k], U), Cbias)
          /\ CrLane(a(k), b(k)) = packLane(dotLane(x[k], V), Cbias)
          /\ CbLane(a(4 + k), b(4 + k)) = packLane(dotLane(y[k], U), Cbias)
          /\ CrLane(a(4 + k), b(4 + k)) = packLane(dotLane(y[k], V), Cbias)
      BY <2>2 DEF CbLane, CrLane
    <2> QED BY <1>4, <2>3, <2>4
  <1>6. \A k \in 1 .. 8 :
          e[k] = CbLane(a(k), b(k)) /\ e[8 + k] = CrLane(a(k), b(k))
    <2> TAKE k \in 1 .. 8
    <2> HIDE DEF a, b
    <2>1. CASE k <= 4
      <3>1. k \in 1 .. 4
        BY <2>1
      <3> QED BY <1>5, <3>1
    <2>2. CASE 4 < k
      <3>1. PICK j \in 1 .. 4 : k = 4 + j
        <4>1. k - 4 \in 1 .. 4 /\ k = 4 + (k - 4)
          BY <2>2
        <4> QED BY <4>1
      <3> QED BY <1>5, <3>1
    <2> QED BY <2>1, <2>2
  <1> QED BY <1>1, <1>4, <1>6

(* What rgba2yuv420p_16x2() makes of the pixels at r0 and r1.              *)
LEMMA Rows ==
  ASSUME BytesRead, picture \in Pictures, NEW r0 \in Nat, NEW r1 \in Nat
  PROVE  LET e == Rows16x2(r0, r1)
         IN /\ IsReg(e.y0, 16) /\ IsReg(e.y1, 16) /\ IsReg(e.uv, 16)
            /\ \A k \in 1 .. 16 :
                 /\ e.y0[k] = LumaByte(r0 + 4 * (k - 1))
                 /\ e.y1[k] = LumaByte(r1 + 4 * (k - 1))
            /\ \A k \in 1 .. 8 :
                 /\ e.uv[k] = CbLane(r0 + 8 * (k - 1), r1 + 8 * (k - 1))
                 /\ e.uv[8 + k] = CrLane(r0 + 8 * (k - 1), r1 + 8 * (k - 1))
  <1> DEFINE e == Rows16x2(r0, r1)
  <1>1. /\ e.y0 = pack(dot(load(r0 + 16 * 0), load(r0 + 16 * 1), Y),
                       dot(load(r0 + 16 * 2), load(r0 + 16 * 3), Y), Ybias)
        /\ e.y1 = pack(dot(load(r1 + 16 * 0), load(r1 + 16 * 1), Y),
                       dot(load(r1 + 16 * 2), load(r1 + 16 * 3), Y), Ybias)
    BY DEF Rows16x2
  <1> HIDE DEF e
  <1>2. IsReg(e.y0, 16) /\ \A k \in 1 .. 16 : e.y0[k] = LumaByte(r0 + 4 * (k - 1))
    BY <1>1, LumaRow
  <1>3. IsReg(e.y1, 16) /\ \A k \in 1 .. 16 : e.y1[k] = LumaByte(r1 + 4 * (k - 1))
    BY <1>1, LumaRow
  <1>4. /\ IsReg(e.uv, 16)
        /\ \A k \in 1 .. 8 :
             /\ e.uv[k] = CbLane(r0 + 8 * (k - 1), r1 + 8 * (k - 1))
             /\ e.uv[8 + k] = CrLane(r0 + 8 * (k - 1), r1 + 8 * (k - 1))
    BY ChromaRow DEF e
  <1> QED BY <1>2, <1>3, <1>4 DEF e

-----------------------------------------------------------------------------
(* The bytes that one turn of the inner loop stores                        *)

Block(a, b) == <<Pixel(a), Pixel(b), Pixel(a + 4), Pixel(b + 4)>>

RightCb(x, b) ==
  /\ x \in Byte /\ CbWithin(x, Sum(b), 3, 2)
  /\ x - Converted(Cbias, U, Average(b[1], b[2], b[3], b[4])) \in -1 .. 1

RightCr(x, b) ==
  /\ x \in Byte /\ CrWithin(x, Sum(b), 3, 2)
  /\ x - Converted(Cbias, V, Average(b[1], b[2], b[3], b[4])) \in -1 .. 1

(* Chroma of a block of four pixels, in both builds *)
LEMMA ChromaStored ==
  ASSUME BytesRead, picture \in Pictures, NEW a \in Nat, NEW b \in Nat,
         NEW m, m = Average(Pixel(a), Pixel(b), Pixel(a + 4), Pixel(b + 4))
  PROVE  /\ RightCb(Converted(Cbias, U, m), Block(a, b))
         /\ RightCr(Converted(Cbias, V, m), Block(a, b))
         /\ RightCb(CbLane(a, b), Block(a, b))
         /\ RightCr(CrLane(a, b), Block(a, b))
  <1>1. PICK p00 \in Pixels, p10 \in Pixels, p01 \in Pixels, p11 \in Pixels :
          p00 = Pixel(a) /\ p10 = Pixel(b) /\ p01 = Pixel(a + 4) /\ p11 = Pixel(b + 4)
    <2>1. a + 4 \in Nat /\ b + 4 \in Nat
      OBVIOUS
    <2> QED BY <2>1, PixelIs
  <1> DEFINE s == [c \in 1 .. 3 |-> p00[c] + p10[c] + p01[c] + p11[c]]
             l == avgLane(p00, p10, p01, p11)
             cb(p) == Converted(Cbias, U, p)
             cr(p) == Converted(Cbias, V, p)
  <1>2. m = Average(p00, p10, p01, p11)
    BY <1>1
  <1>3. /\ m \in Pixels /\ l \in Pixels
        /\ \A c \in 1 .. 4 :
             /\ NearMean(m[c], p00[c], p10[c], p01[c], p11[c])
             /\ NearMean(l[c], p00[c], p10[c], p01[c], p11[c])
    BY <1>2, Averages
  <1>4. ASSUME NEW p \in Pixels,
               \A c \in 1 .. 4 : NearMean(p[c], p00[c], p10[c], p01[c], p11[c])
        PROVE  /\ cb(p) \in 16 .. 240 /\ cr(p) \in 16 .. 240
               /\ CbWithin(cb(p), s, 3, 2) /\ CrWithin(cr(p), s, 3, 2)
    BY <1>4, ChromaOfMean
  <1>5. /\ cb(m) \in 16 .. 240 /\ cr(m) \in 16 .. 240
        /\ CbWithin(cb(m), s, 3, 2) /\ CrWithin(cr(m), s, 3, 2)
    <2> HIDE DEF cb, cr, s
    <2> QED BY <1>3, <1>4
  <1>6. /\ cb(l) \in 16 .. 240 /\ cr(l) \in 16 .. 240
        /\ CbWithin(cb(l), s, 3, 2) /\ CrWithin(cr(l), s, 3, 2)
    <2> HIDE DEF cb, cr, s, l
    <2> QED BY <1>3, <1>4
  <1>7. packLane(dotLane(l, U), Cbias) = cb(l) /\ packLane(dotLane(l, V), Cbias) = cr(l)
    BY <1>3, LanesAgree
  <1>8. cb(l) - cb(m) \in -1 .. 1 /\ cr(l) - cr(m) \in -1 .. 1
    BY <1>2, <1>7, ChromaAgrees
  <1>9. CbLane(a, b) = cb(l) /\ CrLane(a, b) = cr(l)
    BY <1>1, <1>7 DEF CbLane, CrLane, Mean
  <1>10. /\ Sum(Block(a, b)) = s
        /\ Average(Block(a, b)[1], Block(a, b)[2], Block(a, b)[3], Block(a, b)[4]) = m
    BY <1>1, <1>2 DEF Sum, Block
  <1> HIDE DEF s, l
  <1>11. \A p : /\ cb(p) \in 16 .. 240 => cb(p) \in Byte /\ cb(p) - cb(p) \in -1 .. 1
                /\ cr(p) \in 16 .. 240 => cr(p) \in Byte /\ cr(p) - cr(p) \in -1 .. 1
    <2> TAKE p
    <2> HIDE DEF cb, cr
    <2> QED BY DEF Byte
  <1> QED BY <1>5, <1>6, <1>8, <1>9, <1>10, <1>11 DEF RightCb, RightCr

(* s holds the bytes of n blocks at the pointers *)
Stores(s, n) ==
  /\ DOMAIN s = (y0 .. y0 + 2 * n - 1) \cup (y1 .. y1 + 2 * n - 1)
                  \cup (u .. u + n - 1) \cup (v .. v + n - 1)
  /\ \A o \in DOMAIN s :
       \/ \E k \in 0 .. 2 * n - 1 : o = y0 + k /\ s[o] = LumaByte(p0 + 4 * k)
       \/ \E k \in 0 .. 2 * n - 1 : o = y1 + k /\ s[o] = LumaByte(p1 + 4 * k)
       \/ \E k \in 0 .. n - 1 : o = u + k /\ RightCb(s[o], Block(p0 + 8 * k, p1 + 8 * k))
       \/ \E k \in 0 .. n - 1 : o = v + k /\ RightCr(s[o], Block(p0 + 8 * k, p1 + 8 * k))

PointersNat ==
  p0 \in Nat /\ p1 \in Nat /\ y0 \in Nat /\ y1 \in Nat /\ u \in Nat /\ v \in Nat

(* Four planes' worth of bytes, one after the other *)
LEMMA StoresFour ==
  ASSUME PointersNat, NEW n \in Nat, NEW L0, NEW L1, NEW C0, NEW C1,
         L0 = [x \in y0 .. y0 + 2 * n - 1 |-> L0[x]],
         L1 = [x \in y1 .. y1 + 2 * n - 1 |-> L1[x]],
         C0 = [x \in u .. u + n - 1 |-> C0[x]],
         C1 = [x \in v .. v + n - 1 |-> C1[x]],
         \A k \in 0 .. 2 * n - 1 : L0[y0 + k] = LumaByte(p0 + 4 * k),
         \A k \in 0 .. 2 * n - 1 : L1[y1 + k] = LumaByte(p1 + 4 * k),
         \A k \in 0 .. n - 1 : RightCb(C0[u + k], Block(p0 + 8 * k, p1 + 8 * k)),
         \A k \in 0 .. n - 1 : RightCr(C1[v + k], Block(p0 + 8 * k, p1 + 8 * k))
  PROVE  Stores(Merge(Merge(L0, L1), Merge(C0, C1)), n)
  <1> DEFINE s == Merge(Merge(L0, L1), Merge(C0, C1))
  <1>1. /\ DOMAIN L0 = y0 .. y0 + 2 * n - 1 /\ DOMAIN L1 = y1 .. y1 + 2 * n - 1
        /\ DOMAIN C0 = u .. u + n - 1 /\ DOMAIN C1 = v .. v + n - 1
    OBVIOUS
  <1>2. /\ DOMAIN s = DOMAIN L0 \cup DOMAIN L1 \cup DOMAIN C0 \cup DOMAIN C1
        /\ \A o \in DOMAIN s : \/ o \in DOMAIN L0 /\ s[o] = L0[o]
                               \/ o \in DOMAIN L1 /\ s[o] = L1[o]
                               \/ o \in DOMAIN C0 /\ s[o] = C0[o]
                               \/ o \in DOMAIN C1 /\ s[o] = C1[o]
    BY DEF Merge
  <1> HIDE DEF s
  <1>3. ASSUME NEW b \in Nat, NEW m \in Nat
        PROVE  \A o \in b .. b + m - 1 : o - b \in 0 .. m - 1 /\ o = b + (o - b)
    OBVIOUS
  <1>4. /\ \A o \in DOMAIN L0 : o - y0 \in 0 .. 2 * n - 1 /\ o = y0 + (o - y0)
        /\ \A o \in DOMAIN L1 : o - y1 \in 0 .. 2 * n - 1 /\ o = y1 + (o - y1)
        /\ \A o \in DOMAIN C0 : o - u \in 0 .. n - 1 /\ o = u + (o - u)
        /\ \A o \in DOMAIN C1 : o - v \in 0 .. n - 1 /\ o = v + (o - v)
    <2> DEFINE w == 2 * n
    <2>1. w \in Nat /\ 2 * n = w
      OBVIOUS
    <2> HIDE DEF w
    <2>2. \A o \in y0 .. y0 + w - 1 : o - y0 \in 0 .. w - 1 /\ o = y0 + (o - y0)
      BY <1>3, <2>1 DEF PointersNat
    <2>3. \A o \in y1 .. y1 + w - 1 : o - y1 \in 0 .. w - 1 /\ o = y1 + (o - y1)
      BY <1>3, <2>1 DEF PointersNat
    <2>4. \A o \in u .. u + n - 1 : o - u \in 0 .. n - 1 /\ o = u + (o - u)
      BY <1>3 DEF PointersNat
    <2>5. \A o \in v .. v + n - 1 : o - v \in 0 .. n - 1 /\ o = v + (o - v)
      BY <1>3 DEF PointersNat
    <2> QED BY <1>1, <2>1, <2>2, <2>3, <2>4, <2>5
  <1>5. ASSUME NEW o \in DOMAIN s
        PROVE
         \/ \E k \in 0 .. 2 * n - 1 : o = y0 + k /\ s[o] = LumaByte(p0 + 4 * k)
         \/ \E k \in 0 .. 2 * n - 1 : o = y1 + k /\ s[o] = LumaByte(p1 + 4 * k)
         \/ \E k \in 0 .. n - 1 : o = u + k /\ RightCb(s[o], Block(p0 + 8 * k, p1 + 8 * k))
         \/ \E k \in 0 .. n - 1 : o = v + k /\ RightCr(s[o], Block(p0 + 8 * k, p1 + 8 * k))
    <2> HIDE DEF s
    <2>1. CASE o \in DOMAIN L0 /\ s[o] = L0[o]
      <3>1. PICK k \in 0 .. 2 * n - 1 : o = y0 + k
        BY <1>4, <2>1
      <3> QED BY <2>1, <3>1
    <2>2. CASE o \in DOMAIN L1 /\ s[o] = L1[o]
      <3>1. PICK k \in 0 .. 2 * n - 1 : o = y1 + k
        BY <1>4, <2>2
      <3> QED BY <2>2, <3>1
    <2>3. CASE o \in DOMAIN C0 /\ s[o] = C0[o]
      <3>1. PICK k \in 0 .. n - 1 : o = u + k
        BY <1>4, <2>3
      <3> QED BY <2>3, <3>1
    <2>4. CASE o \in DOMAIN C1 /\ s[o] = C1[o]
      <3>1. PICK k \in 0 .. n - 1 : o = v + k
        BY <1>4, <2>4
      <3> QED BY <2>4, <3>1
    <2> QED BY <1>2, <2>1, <2>2, <2>3, <2>4
  <1> QED BY <1>1, <1>2, <1>5 DEF Stores, s

LEMMA Stored2 ==
  ASSUME BytesRead, picture \in Pictures, PointersNat
  PROVE  Stores(Stored2x2, 1)
  <1> DEFINE p == <<Pixel(p0), Pixel(p0 + 4), Pixel(p1), Pixel(p1 + 4)>>
             a == Average(p[1], p[3], p[2], p[4])
             L0 == [x \in y0 .. y0 + 2 - 1 |-> Converted(Ybias, Y, p[x - y0 + 1])]
             L1 == [x \in y1 .. y1 + 2 - 1 |-> Converted(Ybias, Y, p[x - y1 + 1 + 2])]
             C0 == [x \in u .. u + 1 - 1 |-> Converted(Cbias, U, a)]
             C1 == [x \in v .. v + 1 - 1 |-> Converted(Cbias, V, a)]
  <1>1. Stored2x2 = Merge(Merge(L0, L1), Merge(C0, C1))
    BY DEF Stored2x2, At
  <1>2. a = Average(Pixel(p0), Pixel(p1), Pixel(p0 + 4), Pixel(p1 + 4))
    OBVIOUS
  <1> HIDE DEF a
  <1>3. /\ RightCb(Converted(Cbias, U, a), Block(p0, p1))
        /\ RightCr(Converted(Cbias, V, a), Block(p0, p1))
    BY <1>2, ChromaStored DEF PointersNat
  <1>4. /\ y0 .. y0 + 2 - 1 = y0 .. y0 + 2 * 1 - 1
        /\ y1 .. y1 + 2 - 1 = y1 .. y1 + 2 * 1 - 1
    BY DEF PointersNat
  <1>5. /\ L0 = [x \in y0 .. y0 + 2 * 1 - 1 |-> L0[x]]
        /\ L1 = [x \in y1 .. y1 + 2 * 1 - 1 |-> L1[x]]
    BY <1>4
  <1>6. /\ C0 = [x \in u .. u + 1 - 1 |-> C0[x]]
        /\ C1 = [x \in v .. v + 1 - 1 |-> C1[x]]
    OBVIOUS
  <1>7. \A k \in 0 .. 2 * 1 - 1 : L0[y0 + k] = LumaByte(p0 + 4 * k)
    <2> TAKE k \in 0 .. 2 * 1 - 1
    <2>1. /\ y0 + k \in y0 .. y0 + 2 - 1 /\ (y0 + k) - y0 + 1 = k + 1
          /\ k = 0 \/ k = 1
          /\ k = 0 => p0 + 4 * k = p0
          /\ k = 1 => p0 + 4 * k = p0 + 4
      BY DEF PointersNat
    <2>2. L0[y0 + k] = Converted(Ybias, Y, p[k + 1])
      BY <2>1
    <2>3. p[0 + 1] = Pixel(p0) /\ p[1 + 1] = Pixel(p0 + 4)
      OBVIOUS
    <2> HIDE DEF L0, p
    <2> QED BY <2>1, <2>2, <2>3 DEF LumaByte
  <1>8. \A k \in 0 .. 2 * 1 - 1 : L1[y1 + k] = LumaByte(p1 + 4 * k)
    <2> TAKE k \in 0 .. 2 * 1 - 1
    <2>1. /\ y1 + k \in y1 .. y1 + 2 - 1 /\ (y1 + k) - y1 + 1 + 2 = k + 3
          /\ k = 0 \/ k = 1
          /\ k = 0 => p1 + 4 * k = p1
          /\ k = 1 => p1 + 4 * k = p1 + 4
      BY DEF PointersNat
    <2>2. L1[y1 + k] = Converted(Ybias, Y, p[k + 3])
      BY <2>1
    <2>3. p[0 + 3] = Pixel(p1) /\ p[1 + 3] = Pixel(p1 + 4)
      OBVIOUS
    <2> HIDE DEF L1, p
    <2> QED BY <2>1, <2>2, <2>3 DEF LumaByte
  <1>9. /\ \A k \in 0 .. 1 - 1 : RightCb(C0[u + k], Block(p0 + 8 * k, p1 + 8 * k))
        /\ \A k \in 0 .. 1 - 1 : RightCr(C1[v + k], Block(p0 + 8 * k, p1 + 8 * k))
    <2>1. /\ \A k \in 0 .. 1 - 1 : k = 0
          /\ u + 0 = u /\ v + 0 = v /\ p0 + 8 * 0 = p0 /\ p1 + 8 * 0 = p1
          /\ u \in u .. u + 1 - 1 /\ v \in v .. v + 1 - 1
      BY DEF PointersNat
    <2>2. C0[u] = Converted(Cbias, U, a) /\ C1[v] = Converted(Cbias, V, a)
      BY <2>1
    <2> HIDE DEF C0, C1
    <2> QED BY <1>3, <2>1, <2>2
  <1>10. 1 \in Nat
    OBVIOUS
  <1> HIDE DEF L0, L1, C0, C1
  <1>11. Stores(Merge(Merge(L0, L1), Merge(C0, C1)), 1)
    BY <1>5, <1>6, <1>7, <1>8, <1>9, <1>10, StoresFour
  <1> QED BY <1>1, <1>11

(* Two registers of luma, one after the other                              *)
LEMMA LumaTwice ==
  ASSUME NEW r \in Nat, NEW x, NEW z, NEW j, IsJoined(j, x, z, 16, 16),
         \A k \in 1 .. 16 : x[k] = LumaByte(r + 4 * (k - 1)),
         \A k \in 1 .. 16 : z[k] = LumaByte((r + 64) + 4 * (k - 1))
  PROVE  \A k \in 0 .. 31 : j[k + 1] = LumaByte(r + 4 * k)
  <1> TAKE k \in 0 .. 31
  <1>1. CASE k < 16
    <2>1. k + 1 \in 1 .. 16 /\ r + 4 * ((k + 1) - 1) = r + 4 * k
      BY <1>1
    <2> QED BY <2>1 DEF IsJoined
  <1>2. CASE 16 <= k
    <2>1. /\ k - 15 \in 1 .. 16 /\ 16 + (k - 15) = k + 1
          /\ (r + 64) + 4 * ((k - 15) - 1) = r + 4 * k
      BY <1>2
    <2>2. j[16 + (k - 15)] = z[k - 15]
      BY <2>1 DEF IsJoined
    <2> QED BY <2>1, <2>2
  <1> QED BY <1>1, <1>2

(* Chroma of sixteen blocks in a row, U and V apart                        *)
LEMMA ChromaTwice ==
  ASSUME BytesRead, picture \in Pictures, NEW r0 \in Nat, NEW r1 \in Nat,
         NEW x, NEW z, NEW cb, NEW cr,
         x = Rows16x2(r0, r1).uv, z = Rows16x2(r0 + 64, r1 + 64).uv,
         cb = unpacklo_epi64(x, z), cr = unpackhi_epi64(x, z)
  PROVE  \A k \in 0 .. 15 : /\ RightCb(cb[k + 1], Block(r0 + 8 * k, r1 + 8 * k))
                            /\ RightCr(cr[k + 1], Block(r0 + 8 * k, r1 + 8 * k))
  <1>1. /\ IsReg(x, 16)
        /\ \A k \in 1 .. 8 : /\ x[k] = CbLane(r0 + 8 * (k - 1), r1 + 8 * (k - 1))
                             /\ x[8 + k] = CrLane(r0 + 8 * (k - 1), r1 + 8 * (k - 1))
    BY ChromaRow
  <1> DEFINE s0 == r0 + 64
             s1 == r1 + 64
  <1>2. s0 \in Nat /\ s1 \in Nat /\ s0 = r0 + 64 /\ s1 = r1 + 64
    OBVIOUS
  <1> HIDE DEF s0, s1
  <1>3. /\ IsReg(z, 16)
        /\ \A k \in 1 .. 8 : /\ z[k] = CbLane(s0 + 8 * (k - 1), s1 + 8 * (k - 1))
                             /\ z[8 + k] = CrLane(s0 + 8 * (k - 1), s1 + 8 * (k - 1))
    <2> DEFINE e == Rows16x2(s0, s1).uv
    <2>1. z = e
      BY <1>2
    <2>2. /\ IsReg(e, 16)
          /\ \A k \in 1 .. 8 : /\ e[k] = CbLane(s0 + 8 * (k - 1), s1 + 8 * (k - 1))
                               /\ e[8 + k] = CrLane(s0 + 8 * (k - 1), s1 + 8 * (k - 1))
      BY <1>2, ChromaRow
    <2> QED BY <2>1, <2>2
  <1>4. /\ \A k \in 1 .. 8 : cb[k] = x[k] /\ cb[8 + k] = z[k]
        /\ \A k \in 1 .. 8 : cr[k] = x[8 + k] /\ cr[8 + k] = z[8 + k]
    BY <1>1, <1>3, Unpacked
  <1> SUFFICES ASSUME NEW k \in 0 .. 15
               PROVE  /\ RightCb(cb[k + 1], Block(r0 + 8 * k, r1 + 8 * k))
                      /\ RightCr(cr[k + 1], Block(r0 + 8 * k, r1 + 8 * k))
    OBVIOUS
  <1> DEFINE a == r0 + 8 * k
             b == r1 + 8 * k
  <1>5. a \in Nat /\ b \in Nat
    OBVIOUS
  <1>6. cb[k + 1] = CbLane(a, b) /\ cr[k + 1] = CrLane(a, b)
    <2>1. CASE k < 8
      <3>1. k + 1 \in 1 .. 8 /\ r0 + 8 * ((k + 1) - 1) = a /\ r1 + 8 * ((k + 1) - 1) = b
        BY <2>1
      <3> HIDE DEF a, b
      <3>2. cb[k + 1] = x[k + 1] /\ cr[k + 1] = x[8 + (k + 1)]
        BY <1>4, <3>1
      <3>3. x[k + 1] = CbLane(a, b) /\ x[8 + (k + 1)] = CrLane(a, b)
        BY <1>1, <3>1
      <3> QED BY <3>2, <3>3
    <2>2. CASE 8 <= k
      <3>1. /\ k - 7 \in 1 .. 8 /\ 8 + (k - 7) = k + 1
            /\ s0 + 8 * ((k - 7) - 1) = a /\ s1 + 8 * ((k - 7) - 1) = b
        BY <1>2, <2>2
      <3> HIDE DEF a, b
      <3>2. cb[8 + (k - 7)] = z[k - 7] /\ cr[8 + (k - 7)] = z[8 + (k - 7)]
        BY <1>4, <3>1
      <3>3. z[k - 7] = CbLane(a, b) /\ z[8 + (k - 7)] = CrLane(a, b)
        BY <1>3, <3>1
      <3> QED BY <3>1, <3>2, <3>3
    <2> QED BY <2>1, <2>2
  <1> HIDE DEF a, b
  <1>7. RightCb(CbLane(a, b), Block(a, b)) /\ RightCr(CrLane(a, b), Block(a, b))
    BY <1>5, ChromaStored
  <1> QED BY <1>6, <1>7 DEF a, b

LEMMA Stored32 ==
  ASSUME BytesRead, picture \in Pictures, PointersNat
  PROVE  Stores(Stored32x2, 16)
  <1> DEFINE lo == Rows16x2(p0, p1)
             hi == Rows16x2(p0 + 64, p1 + 64)
             j0 == lo.y0 \o hi.y0
             j1 == lo.y1 \o hi.y1
             cb == unpacklo_epi64(lo.uv, hi.uv)
             cr == unpackhi_epi64(lo.uv, hi.uv)
             L0 == [x \in y0 .. y0 + 32 - 1 |-> j0[x - y0 + 1]]
             L1 == [x \in y1 .. y1 + 32 - 1 |-> j1[x - y1 + 1]]
             C0 == [x \in u .. u + 16 - 1 |-> cb[x - u + 1]]
             C1 == [x \in v .. v + 16 - 1 |-> cr[x - v + 1]]
  <1>1. Stored32x2 = Merge(Merge(L0, L1), Merge(C0, C1))
    BY DEF Stored32x2, At
  <1> HIDE DEF L0, L1, C0, C1
  <1>2. /\ IsReg(lo.y0, 16) /\ IsReg(lo.y1, 16)
        /\ \A k \in 1 .. 16 : /\ lo.y0[k] = LumaByte(p0 + 4 * (k - 1))
                              /\ lo.y1[k] = LumaByte(p1 + 4 * (k - 1))
    BY Rows DEF PointersNat
  <1>3. /\ IsReg(hi.y0, 16) /\ IsReg(hi.y1, 16)
        /\ \A k \in 1 .. 16 : /\ hi.y0[k] = LumaByte((p0 + 64) + 4 * (k - 1))
                              /\ hi.y1[k] = LumaByte((p1 + 64) + 4 * (k - 1))
    <2> DEFINE r0 == p0 + 64
               r1 == p1 + 64
    <2>1. r0 \in Nat /\ r1 \in Nat
      BY DEF PointersNat
    <2> HIDE DEF r0, r1
    <2>2. LET e == Rows16x2(r0, r1)
          IN /\ IsReg(e.y0, 16) /\ IsReg(e.y1, 16)
             /\ \A k \in 1 .. 16 : /\ e.y0[k] = LumaByte(r0 + 4 * (k - 1))
                                   /\ e.y1[k] = LumaByte(r1 + 4 * (k - 1))
      BY <2>1, Rows
    <2> QED BY <2>2 DEF r0, r1
  <1>4. \A k \in 0 .. 15 : /\ RightCb(cb[k + 1], Block(p0 + 8 * k, p1 + 8 * k))
                           /\ RightCr(cr[k + 1], Block(p0 + 8 * k, p1 + 8 * k))
    BY ChromaTwice DEF PointersNat
  <1> DEFINE a0 == lo.y0
             a1 == lo.y1
             b0 == hi.y0
             b1 == hi.y1
  <1>5. IsJoined(j0, a0, b0, 16, 16) /\ IsJoined(j1, a1, b1, 16, 16)
    <2>1. 16 \in Nat /\ IsReg(a0, 16) /\ IsReg(b0, 16) /\ IsReg(a1, 16) /\ IsReg(b1, 16)
      BY <1>2, <1>3
    <2>2. j0 = a0 \o b0 /\ j1 = a1 \o b1
      OBVIOUS
    <2> HIDE DEF a0, a1, b0, b1, j0, j1
    <2> QED BY <2>1, <2>2, Joined
  <1>6. /\ \A k \in 1 .. 16 : a0[k] = LumaByte(p0 + 4 * (k - 1))
        /\ \A k \in 1 .. 16 : b0[k] = LumaByte((p0 + 64) + 4 * (k - 1))
        /\ \A k \in 1 .. 16 : a1[k] = LumaByte(p1 + 4 * (k - 1))
        /\ \A k \in 1 .. 16 : b1[k] = LumaByte((p1 + 64) + 4 * (k - 1))
    BY <1>2, <1>3
  <1> HIDE DEF lo, hi, j0, j1, cb, cr, a0, a1, b0, b1
  <1>7. \A k \in 0 .. 31 : j0[k + 1] = LumaByte(p0 + 4 * k)
    BY <1>5, <1>6, LumaTwice DEF PointersNat
  <1>8. \A k \in 0 .. 31 : j1[k + 1] = LumaByte(p1 + 4 * k)
    BY <1>5, <1>6, LumaTwice DEF PointersNat
  <1>9. \A b \in Nat, k \in 0 .. 31 : b + k \in b .. b + 32 - 1 /\ (b + k) - b + 1 = k + 1
    OBVIOUS
  <1>10. \A b \in Nat, k \in 0 .. 15 : b + k \in b .. b + 16 - 1 /\ (b + k) - b + 1 = k + 1
    OBVIOUS
  <1>11. \A k \in 0 .. 31 : L0[y0 + k] = j0[k + 1] /\ L1[y1 + k] = j1[k + 1]
    BY <1>9 DEF L0, L1, PointersNat
  <1>12. \A k \in 0 .. 15 : C0[u + k] = cb[k + 1] /\ C1[v + k] = cr[k + 1]
    BY <1>10 DEF C0, C1, PointersNat
  <1>13. 2 * 16 = 32 /\ 32 - 1 = 31 /\ 16 - 1 = 15 /\ 16 \in Nat
    OBVIOUS
  <1>14. /\ L0 = [x \in y0 .. y0 + 2 * 16 - 1 |-> L0[x]]
         /\ L1 = [x \in y1 .. y1 + 2 * 16 - 1 |-> L1[x]]
         /\ C0 = [x \in u .. u + 16 - 1 |-> C0[x]]
         /\ C1 = [x \in v .. v + 16 - 1 |-> C1[x]]
    BY <1>13 DEF L0, L1, C0, C1
  <1>15. /\ \A k \in 0 .. 2 * 16 - 1 : L0[y0 + k] = LumaByte(p0 + 4 * k)
         /\ \A k \in 0 .. 2 * 16 - 1 : L1[y1 + k] = LumaByte(p1 + 4 * k)
    <2>1. \A k \in 0 .. 2 * 16 - 1 : k \in 0 .. 31
      OBVIOUS
    <2> QED BY <1>7, <1>8, <1>11, <2>1
  <1>16. /\ \A k \in 0 .. 16 - 1 : RightCb(C0[u + k], Block(p0 + 8 * k, p1 + 8 * k))
         /\ \A k \in 0 .. 16 - 1 : RightCr(C1[v + k], Block(p0 + 8 * k, p1 + 8 * k))
    <2>1. \A k \in 0 .. 16 - 1 : k \in 0 .. 15
      OBVIOUS
    <2> QED BY <1>4, <1>12, <2>1
  <1>17. Stores(Merge(Merge(L0, L1), Merge(C0, C1)), 16)
    BY <1>13, <1>14, <1>15, <1>16, StoresFour
  <1> QED BY <1>1, <1>17

-----------------------------------------------------------------------------
(* Places in the frame                                                     *)

LEMMA DivMod ==
  ASSUME NEW n \in Nat \ {0}, NEW q \in Nat, NEW x \in Nat, x < n
  PROVE  (n * q + x) \div n = q /\ (n * q + x) % n = x
  <1> DEFINE a == n * q + x
             z == a \div n
             m == a % n
  <1>1. a \in Nat
    BY SMT
  <1>2. a = n * q + x
    OBVIOUS
  <1> HIDE DEF a
  <1>3. z \in Int /\ m \in Int /\ 0 <= m /\ m < n /\ a = n * z + m
    BY <1>1, SMT
  <1> HIDE DEF z, m
  <1>4. CASE z = q
    <2>1. n * z = n * q
      BY <1>4
    <2>2. n * q \in Int
      BY SMT
    <2> DEFINE t == n * q
    <2> HIDE DEF t
    <2>3. m = x
      <3>1. t \in Int /\ a = t + x /\ a = t + m
        BY <1>2, <1>3, <2>1, <2>2 DEF t
      <3> QED BY <1>3, <3>1
    <2> QED BY <1>4, <2>3 DEF a, z, m
  <1>5. CASE z > q
    <2>1. PICK d \in Nat : z = q + 1 + d
      <3>1. z - q - 1 \in Nat /\ z = q + 1 + (z - q - 1)
        BY <1>3, <1>5
      <3> QED BY <3>1
    <2>2. n * z = n * q + n + n * d /\ n * d \in Nat /\ n * q \in Nat
      BY <2>1, SMT
    <2> QED BY <1>2, <1>3, <2>2, SMT
  <1>6. CASE z < q
    <2>1. PICK d \in Nat : q = z + 1 + d
      <3>1. q - z - 1 \in Nat /\ q = z + 1 + (q - z - 1)
        BY <1>3, <1>6
      <3> QED BY <3>1
    <2>2. n * q = n * z + n + n * d /\ n * d \in Nat /\ n * z \in Int
      BY <1>3, <2>1, SMT
    <2> QED BY <1>2, <1>3, <2>2, SMT
  <1> QED BY <1>3, <1>4, <1>5, <1>6

(* The planes' sizes, by that of a row of blocks                           *)
LEMMA Planes ==
  ASSUME ArgsInv
  PROVE  \E a \in Nat \ {0} :
           /\ a = width32 * height2
           /\ count_2x2 = 16 * a /\ Chroma = 64 * a /\ FrameSize = 96 * a
  <1> DEFINE a == width32 * height2
  <1>1. width32 \in Nat \ {0} /\ height2 \in Nat \ {0}
    BY DEF ArgsInv
  <1>2. a \in Nat \ {0}
    BY <1>1, SMT
  <1>3. count_2x2 = 16 * a
    BY <1>1, SMT DEF count_2x2
  <1>4. FrameSize = 96 * a
    BY <1>1, SMT DEF FrameSize
  <1> HIDE DEF a
  <1>5. Chroma = 64 * a
    BY <1>2, <1>3, SMT DEF Chroma
  <1> QED BY <1>2, <1>3, <1>4, <1>5 DEF a

LEMMA RowsAbove ==
  ASSUME NEW w \in Nat, NEW h \in Nat, NEW r \in Nat
  PROVE  /\ r * w \in Nat /\ (r + 1) * w = r * w + w
         /\ r < h => r * w + w <= w * h
         /\ r = h => r * w = w * h
         /\ r = 0 => r * w = 0
  <1>1. r * w \in Nat /\ (r + 1) * w = r * w + w
    BY SMT
  <1>2. ASSUME r < h PROVE r * w + w <= w * h
    <2>1. PICK d \in Nat : h = r + 1 + d
      <3>1. h - r - 1 \in Nat /\ h = r + 1 + (h - r - 1)
        BY <1>2
      <3> QED BY <3>1
    <2>2. w * h = r * w + w + w * d /\ w * d \in Nat
      BY <2>1, SMT
    <2> QED BY <1>1, <2>2, SMT
  <1>3. r = h => r * w = w * h
    BY SMT
  <1>4. r = 0 => r * w = 0
    BY SMT
  <1> QED BY <1>1, <1>2, <1>3, <1>4

(* The pixel of a byte of luma, and the block of one of chroma             *)
LEMMA LumaPlace ==
  ASSUME ArgsInv, NEW o \in Nat
  PROVE  PixelAt(o % Width, o \div Width) = Pixel(4 * o)
  <1> DEFINE n == Width
             z == o \div n
             m == o % n
  <1>1. n \in Nat \ {0}
    BY SMT DEF ArgsInv, Width
  <1> HIDE DEF n
  <1>2. z \in Int /\ m \in Int /\ o = n * z + m
    BY <1>1, SMT
  <1> HIDE DEF z, m
  <1>3. 4 * (z * n + m) = 4 * o
    BY <1>1, <1>2, SMT
  <1>4. PixelAt(m, z) = Pixel(4 * o)
    BY <1>3 DEF PixelAt, n
  <1> QED BY <1>4 DEF n, z, m

LEMMA BlockPlace ==
  ASSUME ArgsInv, NEW r \in Nat, NEW A, A = r * width32, NEW x \in Nat, x < 16 * width32
  PROVE  BlockAt(16 * A + x) = Block(256 * A + 8 * x, 256 * A + 128 * width32 + 8 * x)
  <1> DEFINE w == width32
             n == 16 * w
             k == 16 * A + x
  <1>1. w \in Nat \ {0} /\ n \in Nat \ {0} /\ x < n
    BY SMT DEF ArgsInv
  <1>2. A \in Nat /\ k = n * r + x
    BY <1>1, SMT
  <1>3. k \div n = r /\ k % n = x
    <2> HIDE DEF n
    <2> QED BY <1>1, <1>2, DivMod
  <1> HIDE DEF k
  <1>4. BlockAt(k) = <<PixelAt(2 * x, 2 * r), PixelAt(2 * x, 2 * r + 1),
                       PixelAt(2 * x + 1, 2 * r), PixelAt(2 * x + 1, 2 * r + 1)>>
    BY <1>3 DEF BlockAt
  <1>5. /\ 4 * ((2 * r) * Width + 2 * x) = 256 * A + 8 * x
        /\ 4 * ((2 * r) * Width + (2 * x + 1)) = (256 * A + 8 * x) + 4
        /\ 4 * ((2 * r + 1) * Width + 2 * x) = 256 * A + 128 * w + 8 * x
        /\ 4 * ((2 * r + 1) * Width + (2 * x + 1)) = (256 * A + 128 * w + 8 * x) + 4
    <2>1. Width = 32 * w /\ w \in Nat
      BY <1>1, SMT DEF Width
    <2>2. (2 * r) * Width = 64 * A /\ (2 * r + 1) * Width = 64 * A + 32 * w
      <3>1. ASSUME NEW z \in Nat
            PROVE  (2 * r) * (32 * z) = 64 * (r * z)
        BY SMT
      <3>2. ASSUME NEW z \in Nat
            PROVE  (2 * r + 1) * (32 * z) = 64 * (r * z) + 32 * z
        BY SMT
      <3> HIDE DEF w
      <3>3. A = r * w
        BY DEF w
      <3> QED BY <2>1, <3>1, <3>2, <3>3
    <2> DEFINE s == (2 * r) * Width
               t == (2 * r + 1) * Width
    <2>3. s = 64 * A /\ t = 64 * A + 32 * w
      BY <2>2
    <2> HIDE DEF w, s, t
    <2>4. /\ 4 * (s + 2 * x) = 256 * A + 8 * x
          /\ 4 * (s + (2 * x + 1)) = (256 * A + 8 * x) + 4
          /\ 4 * (t + 2 * x) = 256 * A + 128 * w + 8 * x
          /\ 4 * (t + (2 * x + 1)) = (256 * A + 128 * w + 8 * x) + 4
      BY <1>2, <2>1, <2>3, SMT
    <2> QED BY <2>4 DEF s, t
  <1> QED BY <1>4, <1>5 DEF PixelAt, Block, k

LEMMA GoodLuma ==
  ASSUME BytesRead, ArgsInv, NEW o \in Nat, o < Chroma
  PROVE  Good(o, LumaByte(4 * o))
  <1>1. 4 * o \in Nat
    OBVIOUS
  <1>2. PixelAt(o % Width, o \div Width) = Pixel(4 * o)
    BY LumaPlace
  <1>3. PICK p \in Pixels : p = Pixel(4 * o)
    BY <1>1, PixelIs DEF ArgsInv
  <1>4. /\ LumaByte(4 * o) \in 16 .. 235
        /\ LumaWithin(LumaByte(4 * o), p, 13, 10)
    BY <1>3, LumaRight DEF LumaByte
  <1>5. LumaByte(4 * o) \in Byte
    BY <1>4 DEF Byte
  <1>6. Right(o, LumaByte(4 * o))
    <2>1. LumaWithin(LumaByte(4 * o), PixelAt(o % Width, o \div Width), 13, 10)
      BY <1>2, <1>3, <1>4
    <2>2. ~(o \in Chroma .. Chroma + count_2x2 - 1)
      <3>1. PICK a \in Nat : Chroma = 64 * a
        BY Planes
      <3> QED BY <3>1
    <2> QED BY <2>1, <2>2 DEF Right
  <1>7. Agrees(o, LumaByte(4 * o))
    BY <1>2 DEF Agrees, LumaByte
  <1> QED BY <1>5, <1>6, <1>7 DEF Good

LEMMA GoodCb ==
  ASSUME ArgsInv, NEW k \in Nat, k < count_2x2, NEW x, RightCb(x, BlockAt(k))
  PROVE  Good(Chroma + k, x)
  <1> DEFINE o == Chroma + k
  <1>1. PICK a \in Nat \ {0} : count_2x2 = 16 * a /\ Chroma = 64 * a
    BY Planes
  <1>2. /\ ~(o < Chroma) /\ o \in Chroma .. Chroma + count_2x2 - 1
        /\ o < Chroma + count_2x2 /\ o - Chroma = k
        /\ count_2x2 \in Nat \ {0}
    BY <1>1
  <1>3. (o - Chroma) % count_2x2 = k
    BY <1>2, ModSmall
  <1> HIDE DEF o
  <1>4. Right(o, x)
    BY <1>2 DEF Right, RightCb
  <1>5. Agrees(o, x)
    BY <1>2, <1>3 DEF Agrees, RightCb
  <1> QED BY <1>4, <1>5 DEF Good, RightCb, o

LEMMA GoodCr ==
  ASSUME ArgsInv, NEW k \in Nat, k < count_2x2, NEW x, RightCr(x, BlockAt(k))
  PROVE  Good(Chroma + count_2x2 + k, x)
  <1> DEFINE o == Chroma + count_2x2 + k
             n == count_2x2
  <1>1. PICK a \in Nat \ {0} : n = 16 * a /\ Chroma = 64 * a
    BY Planes
  <1>2. /\ ~(o < Chroma) /\ ~(o \in Chroma .. Chroma + n - 1)
        /\ ~(o < Chroma + n) /\ o - Chroma - n = k /\ o - Chroma = n * 1 + k
        /\ n \in Nat \ {0} /\ 1 \in Nat
    BY <1>1
  <1>3. (o - Chroma) % n = k
    <2> HIDE DEF n, o
    <2>1. k < n
      BY DEF n
    <2>2. (n * 1 + k) % n = k
      BY <1>2, <2>1, DivMod
    <2> QED BY <1>2, <2>2
  <1> HIDE DEF o
  <1>4. Right(o, x)
    BY <1>2 DEF Right, RightCr
  <1>5. Agrees(o, x)
    BY <1>2, <1>3 DEF Agrees, RightCr
  <1> QED BY <1>4, <1>5 DEF Good, RightCr, o

(* Where the counters are, in the middle of a pair of rows                 *)
LEMMA Inside ==
  ASSUME ArgsInv, CountersInv, PointersInv, pc = "blocks", i * Blocks < width32 * 16
  PROVE  \E a \in Nat, A \in Nat, x \in Nat, n \in {1, 16}, w \in Nat \ {0} :
           /\ w = width32 /\ n = Blocks /\ A = row2 * width32 /\ x = i * Blocks
           /\ x + n <= 16 * w /\ A + w <= a /\ (i + 1) * Blocks = x + n
           /\ count_2x2 = 16 * a /\ Chroma = 64 * a /\ FrameSize = 96 * a
           /\ p0 = 256 * A + 8 * x /\ p1 = 256 * A + 8 * x + 128 * w
           /\ y0 = 64 * A + 2 * x /\ y1 = 64 * A + 2 * x + 32 * w
           /\ u = 64 * a + 16 * A + x /\ v = 80 * a + 16 * A + x
  <1>1. PICK w \in Nat \ {0} : w = width32
    BY DEF ArgsInv
  <1>2. PICK a \in Nat \ {0} :
          /\ a = width32 * height2
          /\ count_2x2 = 16 * a /\ Chroma = 64 * a /\ FrameSize = 96 * a
    BY Planes
  <1>3. /\ row2 \in Nat /\ height2 \in Nat /\ row2 < height2 /\ i \in Nat
    BY DEF CountersInv, ArgsInv
  <1>4. PICK A \in Nat : A = row2 * width32 /\ A + w <= a
    <2>1. row2 * w \in Nat /\ row2 * w + w <= w * height2
      BY <1>3, RowsAbove
    <2> QED BY <1>1, <1>2, <2>1
  <1>5. PICK n \in {1, 16} : n = Blocks
    BY DEF Blocks
  <1>6. PICK x \in Nat : x = i * Blocks /\ (i + 1) * Blocks = x + n /\ x + n <= 16 * w
    <2>1. CASE n = 1
      <3>1. i * 1 \in Nat /\ i * 1 = i /\ (i + 1) * 1 = i * 1 + 1
        BY <1>3, SMT
      <3> QED BY <1>1, <1>3, <1>5, <2>1, <3>1
    <2>2. CASE n = 16
      <3>1. i * 16 \in Nat /\ (i + 1) * 16 = i * 16 + 16
        BY <1>3, SMT
      <3>2. i * 16 < w * 16
        BY <1>1, <1>5, <2>2
      <3>3. i * 16 + 16 <= 16 * w
        BY <1>3, <3>2, SMT
      <3> QED BY <1>5, <2>2, <3>1, <3>3
    <2> QED BY <1>5, <2>1, <2>2
  <1>7. Across = x /\ Above = A /\ rgba_stride = 128 * w /\ y_stride = 32 * w
    <2>1. width32 * 128 = 128 * w /\ width32 * 32 = 32 * w
      BY <1>1
    <2> QED BY <1>4, <1>6, <2>1 DEF Across, Above, rgba_stride, y_stride
  <1>8. /\ p0 = 256 * A + 8 * x /\ p1 = p0 + 128 * w
        /\ y0 = 64 * A + 2 * x /\ y1 = y0 + 32 * w
        /\ u = 64 * a + 16 * A + x /\ v = u + 16 * a
    BY <1>2, <1>7 DEF PointersInv
  <1>9. p1 = 256 * A + 8 * x + 128 * w /\ y1 = 64 * A + 2 * x + 32 * w
        /\ v = 80 * a + 16 * A + x
    BY <1>8
  <1> QED BY <1>1, <1>2, <1>4, <1>5, <1>6, <1>8, <1>9

(* What a turn of the inner loop stores is right.                          *)
LEMMA BlocksGood ==
  ASSUME BytesRead, ArgsInv, CountersInv, PointersInv, pc = "blocks",
         i * Blocks < width32 * 16, NEW s, Stores(s, Blocks)
  PROVE  \A o \in DOMAIN s : Good(o, s[o])
  <1>1. PICK a \in Nat, A \in Nat, x \in Nat, n \in {1, 16}, w \in Nat \ {0} :
          /\ w = width32 /\ n = Blocks /\ A = row2 * width32 /\ x = i * Blocks
          /\ x + n <= 16 * w /\ A + w <= a /\ (i + 1) * Blocks = x + n
          /\ count_2x2 = 16 * a /\ Chroma = 64 * a /\ FrameSize = 96 * a
          /\ p0 = 256 * A + 8 * x /\ p1 = 256 * A + 8 * x + 128 * w
          /\ y0 = 64 * A + 2 * x /\ y1 = 64 * A + 2 * x + 32 * w
          /\ u = 64 * a + 16 * A + x /\ v = 80 * a + 16 * A + x
    BY Inside
  <1>2. row2 \in Nat
    BY DEF CountersInv
  <1> SUFFICES ASSUME NEW o \in DOMAIN s PROVE Good(o, s[o])
    OBVIOUS
  <1>3. \/ \E k \in 0 .. 2 * n - 1 : o = y0 + k /\ s[o] = LumaByte(p0 + 4 * k)
        \/ \E k \in 0 .. 2 * n - 1 : o = y1 + k /\ s[o] = LumaByte(p1 + 4 * k)
        \/ \E k \in 0 .. n - 1 : o = u + k /\ RightCb(s[o], Block(p0 + 8 * k, p1 + 8 * k))
        \/ \E k \in 0 .. n - 1 : o = v + k /\ RightCr(s[o], Block(p0 + 8 * k, p1 + 8 * k))
    BY <1>1 DEF Stores
  <1>4. ASSUME NEW k \in 0 .. 2 * n - 1, o = y0 + k, s[o] = LumaByte(p0 + 4 * k)
        PROVE  Good(o, s[o])
    <2>1. o \in Nat /\ o < Chroma /\ p0 + 4 * k = 4 * o
      BY <1>1, <1>4
    <2> QED BY <1>4, <2>1, GoodLuma
  <1>5. ASSUME NEW k \in 0 .. 2 * n - 1, o = y1 + k, s[o] = LumaByte(p1 + 4 * k)
        PROVE  Good(o, s[o])
    <2>1. o \in Nat /\ o < Chroma /\ p1 + 4 * k = 4 * o
      BY <1>1, <1>5
    <2> QED BY <1>5, <2>1, GoodLuma
  <1>6. ASSUME NEW k \in 0 .. n - 1
        PROVE  LET j == 16 * A + (x + k)
               IN /\ j \in Nat /\ j < count_2x2
                  /\ u + k = Chroma + j /\ v + k = Chroma + count_2x2 + j
                  /\ BlockAt(j) = Block(p0 + 8 * k, p1 + 8 * k)
    <2> DEFINE j == 16 * A + (x + k)
    <2>1. /\ j \in Nat /\ j < count_2x2
          /\ u + k = Chroma + j /\ v + k = Chroma + count_2x2 + j
      BY <1>1
    <2> DEFINE z == x + k
    <2>2. z \in Nat /\ z < 16 * width32
      BY <1>1
    <2>3. /\ 256 * A + 8 * z = p0 + 8 * k
          /\ 256 * A + 128 * width32 + 8 * z = p1 + 8 * k
      BY <1>1
    <2> HIDE DEF z
    <2>4. BlockAt(16 * A + z) = Block(256 * A + 8 * z, 256 * A + 128 * width32 + 8 * z)
      <3>1. PICK r \in Nat : r = row2
        BY <1>2
      <3>2. A = r * width32
        BY <1>1, <3>1
      <3> QED BY <2>2, <3>2, BlockPlace
    <2> QED BY <2>1, <2>3, <2>4 DEF z
  <1>7. ASSUME NEW k \in 0 .. n - 1, o = u + k,
               RightCb(s[o], Block(p0 + 8 * k, p1 + 8 * k))
        PROVE  Good(o, s[o])
    BY <1>6, <1>7, GoodCb
  <1>8. ASSUME NEW k \in 0 .. n - 1, o = v + k,
               RightCr(s[o], Block(p0 + 8 * k, p1 + 8 * k))
        PROVE  Good(o, s[o])
    BY <1>6, <1>8, GoodCr
  <1> QED BY <1>3, <1>4, <1>5, <1>7, <1>8

-----------------------------------------------------------------------------
(* No step changes the arguments, hence none what is right at a place.     *)
LEMMA Same ==
  ASSUME UNCHANGED args
  PROVE  /\ UNCHANGED <<Blocks, count_2x2, Chroma, FrameSize, rgba_stride, y_stride>>
         /\ ArgsInv' = ArgsInv
         /\ \A o, x : Good(o, x)' <=> Good(o, x)
  <1>1. sse' = sse /\ picture' = picture /\ width32' = width32 /\ height2' = height2
    BY DEF args
  <1>2. UNCHANGED <<Blocks, count_2x2, Chroma, FrameSize, rgba_stride, y_stride>>
    BY <1>1 DEF Blocks, count_2x2, Chroma, FrameSize, rgba_stride, y_stride
  <1>3. ArgsInv' = ArgsInv
    BY <1>1 DEF ArgsInv
  <1>4. \A o : Pixel(o)' = Pixel(o)
    BY <1>1 DEF Pixel
  <1>5. Width' = Width
    BY <1>1 DEF Width
  <1>6. \A x, y : PixelAt(x, y)' = PixelAt(x, y)
    BY <1>4, <1>5 DEF PixelAt
  <1>7. \A k : BlockAt(k)' = BlockAt(k)
    BY <1>1, <1>6 DEF BlockAt
  <1>8. \A o, x : Right(o, x)' <=> Right(o, x)
    BY <1>2, <1>5, <1>6, <1>7 DEF Right
  <1>9. \A o, x : Agrees(o, x)' <=> Agrees(o, x)
    BY <1>2, <1>5, <1>6, <1>7 DEF Agrees
  <1>10. \A o, x : Good(o, x)' <=> Good(o, x)
    BY <1>8, <1>9 DEF Good
  <1> QED BY <1>2, <1>3, <1>10

LEMMA InitRight ==
  ASSUME Init PROVE ConversionInv
  <1>1. ArgsInv
    BY YuvAssumption DEF Init, ArgsInv
  <1>2. PICK a \in Nat \ {0} : count_2x2 = 16 * a /\ Chroma = 64 * a
    BY <1>1, Planes
  <1>3. Above = 0 /\ Across = 0
    BY <1>1, RowsAbove DEF Init, Above, Across, ArgsInv
  <1>4. u = Chroma /\ v = Chroma + count_2x2
    BY <1>2 DEF Init, Chroma
  <1>5. CountersInv
    BY <1>1 DEF Init, CountersInv, ArgsInv
  <1>6. PointersInv
    BY <1>2, <1>3, <1>4 DEF Init, PointersInv
  <1>7. Written = {}
    BY <1>2, <1>4 DEF Init, Written
  <1>8. DOMAIN yuv = {}
    BY DEF Init
  <1> QED BY <1>1, <1>5, <1>6, <1>7, <1>8 DEF ConversionInv

(* The counters between two pairs of rows, and at the end of one           *)
LEMMA RowCounters ==
  ASSUME ArgsInv, CountersInv, PointersInv
  PROVE  \E a \in Nat \ {0}, A \in Nat, w \in Nat \ {0} :
           /\ w = width32 /\ A = Above /\ a = width32 * height2
           /\ row2 < height2 => A + w <= a
           /\ row2 = height2 => A = a
           /\ A <= a /\ (row2 + 1) * width32 = A + w
           /\ count_2x2 = 16 * a /\ Chroma = 64 * a /\ FrameSize = 96 * a
           /\ rgba_stride = 128 * w /\ y_stride = 32 * w
  <1>1. PICK w \in Nat \ {0} : w = width32
    BY DEF ArgsInv
  <1>2. PICK a \in Nat \ {0} :
          /\ a = width32 * height2
          /\ count_2x2 = 16 * a /\ Chroma = 64 * a /\ FrameSize = 96 * a
    BY Planes
  <1>3. /\ row2 \in Nat /\ height2 \in Nat /\ row2 <= height2
    BY DEF CountersInv, ArgsInv
  <1>4. PICK A \in Nat : A = Above
    <2>1. row2 * w \in Nat
      BY <1>3, RowsAbove
    <2> QED BY <1>1, <2>1 DEF Above
  <1>5. /\ row2 < height2 => A + w <= a
        /\ row2 = height2 => A = a
        /\ (row2 + 1) * width32 = A + w
    BY <1>1, <1>2, <1>3, <1>4, RowsAbove DEF Above
  <1>6. A <= a
    BY <1>3, <1>5
  <1>7. rgba_stride = 128 * w /\ y_stride = 32 * w
    <2>1. width32 * 128 = 128 * w /\ width32 * 32 = 32 * w
      BY <1>1
    <2> QED BY <2>1 DEF rgba_stride, y_stride
  <1> QED BY <1>1, <1>2, <1>4, <1>5, <1>6, <1>7

(* A step that stores nothing keeps what has been stored right.            *)
LEMMA StillRight ==
  ASSUME ConversionInv, UNCHANGED args, yuv' = yuv, Written' = Written,
         CountersInv', PointersInv'
  PROVE  ConversionInv'
  <1>1. ArgsInv' = ArgsInv /\ \A o, x : Good(o, x)' <=> Good(o, x)
    BY Same
  <1>2. /\ DOMAIN yuv' = Written'
        /\ \A o \in Written' : Good(o, yuv[o])
    BY DEF ConversionInv
  <1>3. \A o \in Written' : Good(o, yuv[o])'
    <2> PICK f : f = yuv
      OBVIOUS
    <2>1. \A o \in Written' : Good(o, f[o])
      BY <1>2
    <2>2. \A o \in Written' : Good(o, f[o])'
      BY <1>1, <2>1
    <2> QED BY <2>2
  <1> QED BY <1>1, <1>2, <1>3 DEF ConversionInv

LEMMA BeginRowRight ==
  ASSUME ConversionInv, BeginRow PROVE ConversionInv'
  <1> USE DEF BeginRow
  <1>1. ArgsInv /\ CountersInv /\ PointersInv
    BY DEF ConversionInv
  <1>2. PICK a \in Nat \ {0}, A \in Nat, w \in Nat \ {0} :
          /\ w = width32 /\ A = Above
          /\ count_2x2 = 16 * a /\ Chroma = 64 * a
          /\ rgba_stride = 128 * w /\ y_stride = 32 * w
    BY <1>1, RowCounters
  <1>3. UNCHANGED args /\ UNCHANGED <<Blocks, count_2x2, Chroma, rgba_stride, y_stride>>
    BY Same
  <1>4. Above' = Above /\ Across = 0 /\ Across' = 0
    BY <1>3 DEF Above, Across, args, Blocks
  <1>5. CountersInv'
    BY <1>1, <1>4 DEF CountersInv, args, ArgsInv
  <1>6. /\ p0 = 256 * A /\ y0 = 64 * A /\ y1 = y0
        /\ u = Chroma + 16 * A + 0 /\ v = u + count_2x2
    BY <1>1, <1>2, <1>4 DEF PointersInv
  <1>7. PointersInv'
    BY <1>2, <1>3, <1>4, <1>6 DEF PointersInv
  <1>8. Written' = Written
    <2>1. y_stride' = y_stride /\ Chroma' = Chroma /\ count_2x2' = count_2x2
      BY <1>3
    <2>2. {o \in 64 * Above' + y_stride' .. y1' - 1 : pc' = "blocks"} = {}
      BY <1>2, <1>4, <1>6, <2>1
    <2>3. {o \in 64 * Above + y_stride .. y1 - 1 : pc = "blocks"} = {}
      OBVIOUS
    <2> QED BY <2>1, <2>2, <2>3 DEF Written
  <1> QED BY <1>3, <1>5, <1>7, <1>8, StillRight

LEMMA EndRowRight ==
  ASSUME ConversionInv, EndRow PROVE ConversionInv'
  <1> USE DEF EndRow
  <1>1. ArgsInv /\ CountersInv /\ PointersInv
    BY DEF ConversionInv
  <1>2. PICK a \in Nat \ {0}, A \in Nat, w \in Nat \ {0} :
          /\ w = width32 /\ A = Above /\ (row2 + 1) * width32 = A + w
          /\ count_2x2 = 16 * a /\ Chroma = 64 * a
          /\ rgba_stride = 128 * w /\ y_stride = 32 * w
    BY <1>1, RowCounters
  <1>3. UNCHANGED args /\ UNCHANGED <<Blocks, count_2x2, Chroma, rgba_stride, y_stride>>
    BY Same
  <1>4. Above' = A + w /\ Across' = 0
    BY <1>2, <1>3 DEF Above, Across, args
  <1>5. Across = 16 * w
    <2>1. PICK x : x = i * Blocks
      OBVIOUS
    <2>2. x = Across
      BY <2>1 DEF Across
    <2>3. x \in Int
      <3>1. i \in Nat /\ Blocks \in Nat
        BY <1>1, <1>2 DEF CountersInv, Blocks
      <3> QED BY <2>1, <3>1, SMT
    <2>4. x >= width32 * 16 /\ x <= 16 * width32
      BY <1>1, <2>1, <2>2 DEF CountersInv
    <2> QED BY <1>2, <2>2, <2>3, <2>4
  <1>6. CountersInv'
    BY <1>1 DEF CountersInv, args, ArgsInv
  <1>7. /\ p0 = 256 * A + 128 * w /\ p1 = p0 + 128 * w
        /\ y0 = 64 * A + 32 * w /\ y1 = y0 + 32 * w
        /\ u = Chroma + 16 * A + 16 * w /\ v = u + count_2x2
    BY <1>1, <1>2, <1>5 DEF PointersInv
  <1>8. PointersInv'
    BY <1>2, <1>3, <1>4, <1>7 DEF PointersInv
  <1>9. Written' = Written
    <2>1. y_stride' = y_stride /\ Chroma' = Chroma /\ count_2x2' = count_2x2
      BY <1>3
    <2>2. {o \in 64 * Above' + y_stride' .. y1' - 1 : pc' = "blocks"} = {}
      OBVIOUS
    <2>3. {o \in 64 * Above + y_stride .. y1 - 1 : pc = "blocks"}
             = 64 * A + 32 * w .. 64 * A + 64 * w - 1
      BY <1>2, <1>7
    <2>4. /\ 0 .. y0' - 1 = 0 .. 64 * A + 64 * w - 1
          /\ 0 .. y0 - 1 = 0 .. 64 * A + 32 * w - 1
      BY <1>2, <1>7
    <2>5. 0 .. 64 * A + 64 * w - 1
            = (0 .. 64 * A + 32 * w - 1) \cup (64 * A + 32 * w .. 64 * A + 64 * w - 1)
      OBVIOUS
    <2> QED BY <2>1, <2>2, <2>3, <2>4, <2>5 DEF Written
  <1> QED BY <1>3, <1>6, <1>8, <1>9, StillRight

LEMMA FinishRight ==
  ASSUME ConversionInv, Finish PROVE ConversionInv'
  <1> USE DEF Finish
  <1>1. ArgsInv /\ CountersInv /\ PointersInv
    BY DEF ConversionInv
  <1>2. UNCHANGED args /\ UNCHANGED <<Blocks, count_2x2, Chroma, rgba_stride, y_stride>>
    BY Same
  <1>3. Above' = Above /\ Across' = Across
    BY DEF Above, Across, args
  <1>4. CountersInv'
    BY <1>1 DEF CountersInv, args, ArgsInv
  <1>5. PointersInv'
    BY <1>1, <1>2, <1>3 DEF PointersInv
  <1>6. Written' = Written
    <2>1. /\ {o \in 64 * Above' + y_stride' .. y1' - 1 : pc' = "blocks"} = {}
          /\ {o \in 64 * Above + y_stride .. y1 - 1 : pc = "blocks"} = {}
      OBVIOUS
    <2> QED BY <1>2, <2>1 DEF Written
  <1> QED BY <1>2, <1>4, <1>5, <1>6, StillRight

LEMMA ConvertRight ==
  ASSUME BytesRead, ConversionInv, Convert PROVE ConversionInv'
  <1> USE DEF Convert
  <1>1. ArgsInv /\ CountersInv /\ PointersInv
    BY DEF ConversionInv
  <1>2. PICK a \in Nat, A \in Nat, x \in Nat, n \in {1, 16}, w \in Nat \ {0} :
           /\ w = width32 /\ n = Blocks /\ A = row2 * width32 /\ x = i * Blocks
           /\ x + n <= 16 * w /\ A + w <= a /\ (i + 1) * Blocks = x + n
           /\ count_2x2 = 16 * a /\ Chroma = 64 * a /\ FrameSize = 96 * a
           /\ p0 = 256 * A + 8 * x /\ p1 = 256 * A + 8 * x + 128 * w
           /\ y0 = 64 * A + 2 * x /\ y1 = 64 * A + 2 * x + 32 * w
           /\ u = 64 * a + 16 * A + x /\ v = 80 * a + 16 * A + x
    BY <1>1, Inside
  <1>3. /\ UNCHANGED args
        /\ UNCHANGED <<Blocks, count_2x2, Chroma, rgba_stride, y_stride>>
        /\ ArgsInv' = ArgsInv /\ \A o, z : Good(o, z)' <=> Good(o, z)
    BY Same
  <1>4. rgba_stride = 128 * w /\ y_stride = 32 * w
    <2>1. width32 * 128 = 128 * w /\ width32 * 32 = 32 * w
      BY <1>2
    <2> QED BY <2>1 DEF rgba_stride, y_stride
  <1>5. Above = A /\ Above' = A /\ Across' = x + n
    BY <1>2, <1>3 DEF Above, Across, args
  <1>6. CountersInv'
    <2>1. i \in 0 .. width32 * 16 /\ i < width32 * 16
      <3>1. i \in Nat
        BY <1>1, <1>2 DEF CountersInv
      <3>2. CASE n = 1
        BY <1>2, <3>1, <3>2
      <3>3. CASE n = 16
        <4>1. i * 16 < w * 16
          BY <1>2, <3>3
        <4>2. i < w * 16
          BY <3>1, <4>1, SMT
        <4> QED BY <1>2, <3>1, <4>2
      <3> QED BY <3>2, <3>3
    <2>2. i' \in 0 .. width32 * 16
      BY <1>2, <2>1
    <2>3. Across' <= 16 * width32'
      BY <1>2, <1>3, <1>5 DEF args
    <2> QED BY <1>1, <1>3, <2>2, <2>3 DEF CountersInv, args
  <1>7. PointersInv'
    <2>1. /\ p0' = 256 * A + 8 * (x + n) /\ y0' = 64 * A + 2 * (x + n)
          /\ u' = 64 * a + 16 * A + (x + n) /\ v' = u' + 16 * a
          /\ p1' = p0' + 128 * w /\ y1' = y0' + 32 * w
      BY <1>2
    <2> QED BY <1>2, <1>3, <1>4, <1>5, <2>1 DEF PointersInv
  <1>8. PICK s : s = (IF sse THEN Stored32x2 ELSE Stored2x2)
    OBVIOUS
  <1>9. Stores(s, n)
    <2>1. PointersNat
      BY <1>2 DEF PointersNat
    <2>2. picture \in Pictures /\ sse \in BOOLEAN
      BY <1>1 DEF ArgsInv
    <2>3. CASE sse
      <3>1. n = 16
        BY <1>2, <2>3 DEF Blocks
      <3> QED BY <1>8, <2>1, <2>2, <2>3, <3>1, Stored32
    <2>4. CASE ~sse
      <3>1. n = 1
        BY <1>2, <2>4 DEF Blocks
      <3> QED BY <1>8, <2>1, <2>2, <2>4, <3>1, Stored2
    <2> QED BY <2>3, <2>4
  <1>10. \A o \in DOMAIN s : Good(o, s[o])
    BY <1>1, <1>2, <1>9, BlocksGood
  <1>11. PICK f : f = yuv'
    OBVIOUS
  <1>12. /\ DOMAIN f = DOMAIN s \cup DOMAIN yuv
         /\ \A o \in DOMAIN f : f[o] = IF o \in DOMAIN s THEN s[o] ELSE yuv[o]
    BY <1>8, <1>11 DEF Merge
  <1>13. \A o \in DOMAIN f : Good(o, f[o])
    BY <1>10, <1>12 DEF ConversionInv
  <1>14. DOMAIN s \cup Written = Written'
    <2>1. Written = (0 .. 64 * A + 2 * x - 1)
                      \cup (64 * A + 32 * w .. 64 * A + 32 * w + 2 * x - 1)
                      \cup (64 * a .. 64 * a + 16 * A + x - 1)
                      \cup (80 * a .. 80 * a + 16 * A + x - 1)
      <3>1. {o \in 64 * Above + y_stride .. y1 - 1 : pc = "blocks"}
              = 64 * A + 32 * w .. 64 * A + 32 * w + 2 * x - 1
        BY <1>2, <1>4, <1>5
      <3>2. /\ y0 = 64 * A + 2 * x /\ Chroma = 64 * a /\ u = 64 * a + 16 * A + x
            /\ Chroma + count_2x2 = 80 * a /\ v = 80 * a + 16 * A + x
        BY <1>2
      <3> QED BY <3>1, <3>2 DEF Written
    <2>2. Written' = (0 .. 64 * A + 2 * (x + n) - 1)
                       \cup (64 * A + 32 * w .. 64 * A + 32 * w + 2 * (x + n) - 1)
                       \cup (64 * a .. 64 * a + 16 * A + (x + n) - 1)
                       \cup (80 * a .. 80 * a + 16 * A + (x + n) - 1)
      <3>1. /\ y0' = y0 + 2 * n /\ y1' = y1 + 2 * n /\ u' = u + n /\ v' = v + n
        BY <1>2
      <3>2. y0' = 64 * A + 2 * (x + n) /\ y1' = 64 * A + 32 * w + 2 * (x + n)
        <4> HIDE DEF Convert
        <4>1. y0 = 64 * A + 2 * x /\ y1 = 64 * A + 32 * w + 2 * x
          BY <1>2
        <4> QED BY <3>1, <4>1
      <3>3. u' = 64 * a + 16 * A + (x + n) /\ v' = 80 * a + 16 * A + (x + n)
        <4> HIDE DEF Convert
        <4>1. u = 64 * a + 16 * A + x /\ v = 80 * a + 16 * A + x
          BY <1>2
        <4> QED BY <3>1, <4>1
      <3>4. 64 * Above' + y_stride' = 64 * A + 32 * w
        BY <1>3, <1>4, <1>5
      <3>5. Chroma' = 64 * a /\ Chroma' + count_2x2' = 80 * a
        BY <1>2, <1>3
      <3>6. /\ y0' = 64 * A + 2 * (x + n) /\ y1' = 64 * A + 32 * w + 2 * (x + n)
            /\ u' = 64 * a + 16 * A + (x + n) /\ v' = 80 * a + 16 * A + (x + n)
            /\ 64 * Above' + y_stride' = 64 * A + 32 * w
            /\ Chroma' = 64 * a /\ Chroma' + count_2x2' = 80 * a
        BY <3>2, <3>3, <3>4, <3>5
      <3>7. {o \in 64 * Above' + y_stride' .. y1' - 1 : pc' = "blocks"}
              = 64 * A + 32 * w .. 64 * A + 32 * w + 2 * (x + n) - 1
        BY <3>6
      <3> QED BY <3>6, <3>7 DEF Written
    <2>3. DOMAIN s
            = (64 * A + 2 * x .. 64 * A + 2 * (x + n) - 1)
                \cup (64 * A + 32 * w + 2 * x .. 64 * A + 32 * w + 2 * (x + n) - 1)
                \cup (64 * a + 16 * A + x .. 64 * a + 16 * A + (x + n) - 1)
                \cup (80 * a + 16 * A + x .. 80 * a + 16 * A + (x + n) - 1)
      <3>1. /\ y0 = 64 * A + 2 * x /\ y0 + 2 * n - 1 = 64 * A + 2 * (x + n) - 1
            /\ y1 = 64 * A + 32 * w + 2 * x
            /\ y1 + 2 * n - 1 = 64 * A + 32 * w + 2 * (x + n) - 1
            /\ u = 64 * a + 16 * A + x /\ u + n - 1 = 64 * a + 16 * A + (x + n) - 1
            /\ v = 80 * a + 16 * A + x /\ v + n - 1 = 80 * a + 16 * A + (x + n) - 1
        <4>1. /\ y0 = 64 * A + 2 * x /\ y1 = 64 * A + 32 * w + 2 * x
              /\ u = 64 * a + 16 * A + x /\ v = 80 * a + 16 * A + x
          BY <1>2
        <4>2. y0 + 2 * n - 1 = 64 * A + 2 * (x + n) - 1
          BY <4>1
        <4>3. y1 + 2 * n - 1 = 64 * A + 32 * w + 2 * (x + n) - 1
          BY <4>1
        <4> QED BY <4>1, <4>2, <4>3
      <3> QED BY <1>9, <3>1 DEF Stores
    <2>4. ASSUME NEW b \in Nat, NEW m \in Nat, NEW e \in Int, b <= m, m <= e + 1
          PROVE  (b .. e) = (m .. e) \cup (b .. m - 1)
      BY <2>4
    <2> DEFINE y0e == 64 * A + 2 * (x + n) - 1
               y1b == 64 * A + 32 * w
               y1m == 64 * A + 32 * w + 2 * x
               y1e == 64 * A + 32 * w + 2 * (x + n) - 1
               ub == 64 * a
               um == 64 * a + 16 * A + x
               ue == 64 * a + 16 * A + (x + n) - 1
               vb == 80 * a
               vm == 80 * a + 16 * A + x
               ve == 80 * a + 16 * A + (x + n) - 1
               y0m == 64 * A + 2 * x
    <2>5. /\ y0m \in Nat /\ y0e \in Int /\ y0m <= y0e + 1
          /\ y1b \in Nat /\ y1m \in Nat /\ y1e \in Int /\ y1b <= y1m /\ y1m <= y1e + 1
      OBVIOUS
    <2>6. /\ ub \in Nat /\ um \in Nat /\ ue \in Int /\ ub <= um /\ um <= ue + 1
          /\ vb \in Nat /\ vm \in Nat /\ ve \in Int /\ vb <= vm /\ vm <= ve + 1
      OBVIOUS
    <2> HIDE DEF y0m, y0e, y1b, y1m, y1e, ub, um, ue, vb, vm, ve
    <2>7. /\ (0 .. y0e) = (y0m .. y0e) \cup (0 .. y0m - 1)
          /\ (y1b .. y1e) = (y1m .. y1e) \cup (y1b .. y1m - 1)
          /\ (ub .. ue) = (um .. ue) \cup (ub .. um - 1)
          /\ (vb .. ve) = (vm .. ve) \cup (vb .. vm - 1)
      <3>1. 0 \in Nat /\ 0 <= y0m
        BY <2>5
      <3> QED BY <2>4, <2>5, <2>6, <3>1
    <2>8. /\ Written = (0 .. y0m - 1) \cup (y1b .. y1m - 1) \cup (ub .. um - 1) \cup (vb .. vm - 1)
          /\ Written' = (0 .. y0e) \cup (y1b .. y1e) \cup (ub .. ue) \cup (vb .. ve)
          /\ DOMAIN s = (y0m .. y0e) \cup (y1m .. y1e) \cup (um .. ue) \cup (vm .. ve)
      BY <2>1, <2>2, <2>3 DEF y0m, y0e, y1b, y1m, y1e, ub, um, ue, vb, vm, ve
    <2> QED BY <2>7, <2>8
  <1>15. DOMAIN f = Written'
    BY <1>12, <1>14 DEF ConversionInv
  <1>16. \A o \in Written' : Good(o, yuv[o])'
    <2>1. \A o \in Written' : Good(o, f[o])'
      BY <1>3, <1>13, <1>15
    <2> QED BY <1>11, <2>1
  <1> QED BY <1>1, <1>3, <1>6, <1>7, <1>11, <1>15, <1>16 DEF ConversionInv

LEMMA StutterRight ==
  ASSUME ConversionInv, UNCHANGED vars PROVE ConversionInv'
  <1>1. ArgsInv /\ CountersInv /\ PointersInv
    BY DEF ConversionInv
  <1>2. UNCHANGED args /\ UNCHANGED <<Blocks, count_2x2, Chroma, rgba_stride, y_stride>>
    BY Same DEF vars
  <1>3. Above' = Above /\ Across' = Across
    BY DEF Above, Across, vars, args, Blocks
  <1>4. CountersInv'
    BY <1>1, <1>3 DEF CountersInv, vars, args
  <1>5. PointersInv'
    BY <1>1, <1>2, <1>3 DEF PointersInv, vars
  <1>6. Written' = Written
    BY <1>2, <1>3 DEF Written, vars
  <1> QED BY <1>2, <1>4, <1>5, <1>6, StillRight DEF vars

(* What rgba2yuv420p() has stored at any time is what lies behind its five *)
(* pointers, and all of it is right.                                       *)
THEOREM ConversionInvariant ==
  ASSUME BytesRead PROVE Spec => []ConversionInv
  <1>1. Init => ConversionInv
    BY InitRight
  <1>2. ConversionInv /\ [Next]_vars => ConversionInv'
    <2> SUFFICES ASSUME ConversionInv, [Next]_vars PROVE ConversionInv'
      OBVIOUS
    <2> QED BY BeginRowRight, ConvertRight, EndRowRight, FinishRight, StutterRight
            DEF Next
  <1> QED BY <1>1, <1>2, PTL DEF Spec

(* The pointers stay inside the picture and the frame.                     *)
LEMMA StaysInside ==
  ASSUME ConversionInv PROVE TypeOK
  <1>1. ArgsInv /\ CountersInv /\ PointersInv
    BY DEF ConversionInv
  <1>2. PICK a \in Nat \ {0}, A \in Nat, w \in Nat \ {0} :
          /\ w = width32 /\ A = Above /\ a = width32 * height2
          /\ row2 < height2 => A + w <= a
          /\ A <= a
          /\ count_2x2 = 16 * a /\ Chroma = 64 * a /\ FrameSize = 96 * a
          /\ rgba_stride = 128 * w /\ y_stride = 32 * w
    BY <1>1, RowCounters
  <1>3. PICK x \in Nat : x = Across /\ (pc = "blocks" => x <= 16 * w) /\ (pc # "blocks" => x = 0)
    <2>1. Across \in Nat
      <3>1. i \in Nat /\ Blocks \in Nat
        BY <1>1, <1>2 DEF CountersInv, Blocks
      <3>2. i * Blocks \in Nat
        BY <3>1, SMT
      <3> QED BY <3>2 DEF Across
    <2>2. pc # "blocks" => Across = 0
      BY DEF Across
    <2> QED BY <1>1, <1>2, <2>1, <2>2 DEF CountersInv
  <1>4. /\ p0 = 256 * A + 8 * x /\ y0 = 64 * A + 2 * x
        /\ u = 64 * a + 16 * A + x /\ v = 80 * a + 16 * A + x
        /\ IF pc = "blocks" THEN p1 = p0 + 128 * w /\ y1 = y0 + 32 * w
                            ELSE p1 = p0 /\ y1 = y0
    BY <1>1, <1>2, <1>3 DEF PointersInv
  <1>5. pc = "blocks" => A + w <= a
    BY <1>1, <1>2 DEF CountersInv
  <1>6. /\ {p0, p1} \subseteq 0 .. 256 * a /\ {y0, y1} \subseteq 0 .. 64 * a
        /\ u \in 64 * a .. 80 * a /\ v \in 80 * a .. 96 * a
        /\ y1 <= 64 * a
    <2>1. CASE pc = "blocks"
      BY <1>3, <1>4, <1>5, <2>1
    <2>2. CASE pc # "blocks"
      BY <1>2, <1>3, <1>4, <2>2
    <2> QED BY <2>1, <2>2
  <1>7. 256 * width32 * height2 = 256 * a
    <2>1. ASSUME NEW k \in Nat, NEW l \in Nat PROVE 256 * k * l = 256 * (k * l)
      BY SMT
    <2> QED BY <1>1, <1>2, <2>1 DEF ArgsInv
  <1>8. DOMAIN yuv \subseteq Offsets
    <2>1. Written \subseteq 0 .. 96 * a - 1
      <3>1. /\ 0 .. y0 - 1 \subseteq 0 .. 96 * a - 1
            /\ Chroma .. u - 1 \subseteq 0 .. 96 * a - 1
            /\ Chroma + count_2x2 .. v - 1 \subseteq 0 .. 96 * a - 1
        BY <1>2, <1>6
      <3>2. {o \in 64 * Above + y_stride .. y1 - 1 : pc = "blocks"} \subseteq 0 .. 96 * a - 1
        BY <1>2, <1>6
      <3> QED BY <3>1, <3>2 DEF Written
    <2> QED BY <1>2, <2>1 DEF ConversionInv, Offsets
  <1>9. \A o \in DOMAIN yuv : yuv[o] \in Byte
    BY DEF ConversionInv, Good
  <1>10. {p0, p1} \subseteq 0 .. 256 * width32 * height2
    BY <1>6, <1>7
  <1>11. {y0, y1, u, v} \subseteq 0 .. FrameSize
    BY <1>2, <1>6
  <1>12. /\ row2 \in 0 .. height2 /\ i \in 0 .. width32 * 16
         /\ pc \in {"row", "blocks", "done"}
    BY <1>1 DEF CountersInv
  <1> QED BY <1>8, <1>9, <1>10, <1>11, <1>12 DEF TypeOK

(* At the end the whole frame has been written. *)
LEMMA Filled ==
  ASSUME ConversionInv, pc = "done" PROVE Written = Offsets
  <1>1. ArgsInv /\ CountersInv /\ PointersInv
    BY DEF ConversionInv
  <1>2. PICK a \in Nat \ {0}, A \in Nat, w \in Nat \ {0} :
          /\ A = Above /\ (row2 = height2 => A = a)
          /\ count_2x2 = 16 * a /\ Chroma = 64 * a /\ FrameSize = 96 * a
    BY <1>1, RowCounters
  <1>3. A = a /\ Across = 0
    BY <1>1, <1>2 DEF CountersInv, Across
  <1>4. y0 = 64 * a /\ u = 80 * a /\ v = 96 * a
    BY <1>1, <1>2, <1>3 DEF PointersInv
  <1>5. {o \in 64 * Above + y_stride .. y1 - 1 : pc = "blocks"} = {}
    OBVIOUS
  <1>6. Written = (0 .. 64 * a - 1) \cup (64 * a .. 80 * a - 1) \cup (80 * a .. 96 * a - 1)
    <2>1. Chroma + count_2x2 = 80 * a
      BY <1>2
    <2> QED BY <1>2, <1>4, <1>5, <2>1 DEF Written
  <1>7. Offsets = 0 .. 96 * a - 1
    BY <1>2 DEF Offsets
  <1> QED BY <1>6, <1>7

(* When rgba2yuv420p() returns, the frame has been filled to the last byte, *)
(* each with what BT.709 says of the pixels there, and until then the five  *)
(* pointers have stayed inside: for any picture and any size.               *)
THEOREM FrameIsRight ==
  ASSUME BytesRead PROVE Spec => []FrameRight
  <1>1. ConversionInv => FrameRight
    <2> SUFFICES ASSUME ConversionInv PROVE FrameRight
      OBVIOUS
    <2>1. TypeOK
      BY StaysInside
    <2>2. ASSUME pc = "done", NEW o \in Offsets
          PROVE  o \in DOMAIN yuv /\ Right(o, yuv[o])
      BY <2>2, Filled DEF ConversionInv, Good
    <2> QED BY <2>1, <2>2 DEF FrameRight
  <1> QED BY <1>1, ConversionInvariant, PTL

(* A byte that the build with SSSE3 stores is the plain build's, to one in  *)
(* chroma.                                                                  *)
THEOREM BuildsAgreeByOne ==
  ASSUME BytesRead PROVE Spec => []BuildsAgree
  <1>1. ConversionInv => BuildsAgree
    BY DEF ConversionInv, BuildsAgree, Good
  <1> QED BY <1>1, ConversionInvariant, PTL

=============================================================================
