----------------------------- MODULE DemuxProof -----------------------------
(* Proofs about the choice of packets: their time stamps rise, each tick   *)
(* is served, by the nearest frame where there is a choice, and no packet  *)
(* is lost.                                                                *)
EXTENDS DemuxInv, TLAPS

-----------------------------------------------------------------------------
(* Rounding.  Num and Den are any; so a quotient is what lies between two  *)
(* multiples of the divisor.                                               *)

LEMMA Quotient ==
  ASSUME NEW a \in Nat, NEW d \in Nat \ {0}
  PROVE  /\ a \div d \in Nat
         /\ d * (a \div d) <= a
         /\ a < d * (a \div d) + d
  OBVIOUS

LEMMA Factors ==
  ASSUME NEW x \in Nat, NEW y \in Nat, NEW n \in Nat
  PROVE  /\ n * x \in Nat
         /\ x <= y => n * x <= n * y
         /\ n * (x + 1) = n * x + n
  OBVIOUS

(* Nothing lies between a multiple and the next one.                       *)
LEMMA Multiples ==
  ASSUME NEW x \in Nat, NEW y \in Nat, NEW n \in Nat \ {0}, n * x < n * y + n
  PROVE  x <= y
  <1> SUFFICES ASSUME y + 1 <= x PROVE FALSE
    OBVIOUS
  <1>1. n * (y + 1) <= n * x
    BY Factors
  <1> QED BY <1>1, Factors

LEMMA RoundIs ==
  ASSUME NEW a \in Nat, NEW b \in Nat \ {0}
  PROVE  /\ Round(a, b) \in Nat
         /\ 2 * (b * Round(a, b)) <= 2 * a + b
         /\ 2 * a + b < 2 * (b * Round(a, b)) + 2 * b
  <1>1. PICK q \in Nat : q = Round(a, b) /\ (2 * b) * q <= 2 * a + b
                         /\ 2 * a + b < (2 * b) * q + 2 * b
    BY Quotient DEF Round
  <1>2. (2 * b) * q = 2 * (b * q)
    OBVIOUS
  <1> QED BY <1>1, <1>2

LEMMA RoundRises ==
  ASSUME NEW a \in Nat, NEW c \in Nat, a <= c, NEW b \in Nat \ {0}
  PROVE  Round(a, b) <= Round(c, b)
  <1>1. PICK q \in Nat, r \in Nat : q = Round(a, b) /\ r = Round(c, b)
    BY RoundIs
  <1>2. 2 * (b * q) <= 2 * a + b /\ 2 * c + b < 2 * (b * r) + 2 * b
    BY <1>1, RoundIs
  <1>3. b * q < b * r + b
    <2>1. b * q \in Nat /\ b * r \in Nat
      OBVIOUS
    <2> QED BY <1>2, <2>1
  <1> QED BY <1>1, <1>3, Multiples

-----------------------------------------------------------------------------
(* Times and ticks                                                         *)

LEMMA Ticks ==
  \A s \in Nat : Pts(s) \in Nat /\ Tick(Pts(s)) \in Nat
  <1> SUFFICES ASSUME NEW s \in Nat PROVE Pts(s) \in Nat /\ Tick(Pts(s)) \in Nat
    OBVIOUS
  <1>1. s * Den \in Nat
    BY DemuxAssumption
  <1>2. Pts(s) \in Nat
    BY <1>1, RoundIs, DemuxAssumption DEF Pts
  <1>3. Pts(s) * Num \in Nat
    BY <1>2, DemuxAssumption
  <1> QED BY <1>2, <1>3, RoundIs, DemuxAssumption DEF Tick

(* A later frame is of the same tick or a later one.                       *)
LEMMA TicksRise ==
  ASSUME NEW s \in Nat, NEW t \in Nat, s <= t
  PROVE  Pts(s) <= Pts(t)
  <1>1. s * Den \in Nat /\ t * Den \in Nat /\ s * Den <= t * Den
    BY DemuxAssumption, Factors
  <1> QED BY <1>1, RoundRises, DemuxAssumption DEF Pts

(* A frame that comes before an early one of its tick is early, too.       *)
LEMMA EarlyBefore ==
  ASSUME NEW s \in Nat, NEW t \in Nat, s <= t, Pts(s) = Pts(t), Early(t)
  PROVE  Early(s)
  <1>1. s * Den \in Nat /\ t * Den \in Nat /\ s * Den <= t * Den
    BY DemuxAssumption, Factors
  <1>2. Pts(t) * Num \in Nat
    BY Ticks, DemuxAssumption
  <1> QED BY <1>1, <1>2 DEF Early

(* Early is what does not come after the tick, rounded as it is.           *)
LEMMA EarlyIs ==
  ASSUME NEW s \in Nat
  PROVE  /\ Early(s) => s <= Tick(Pts(s))
         /\ ~Early(s) => Tick(Pts(s)) <= s
  <1>1. PICK p \in Nat, k \in Nat, n \in Nat \ {0}, d \in Nat \ {0} :
          p = Pts(s) /\ k = Tick(p) /\ n = Num /\ d = Den
    BY Ticks, DemuxAssumption
  <1>2. p * n \in Nat /\ d * s \in Nat /\ d * k \in Nat
    OBVIOUS
  <1>3. 2 * (d * k) <= 2 * (p * n) + d /\ 2 * (p * n) + d < 2 * (d * k) + 2 * d
    BY <1>1, <1>2, RoundIs DEF Tick
  <1>4. Early(s) <=> d * s <= p * n
    BY <1>1 DEF Early
  <1>5. ASSUME d * s <= p * n PROVE s <= k
    <2>1. d * s < d * k + d
      BY <1>2, <1>3, <1>5
    <2> QED BY <2>1, Multiples
  <1>6. ASSUME ~(d * s <= p * n) PROVE k <= s
    <2>1. d * k < d * s + d
      BY <1>2, <1>3, <1>6
    <2> QED BY <2>1, Multiples
  <1> QED BY <1>1, <1>4, <1>5, <1>6

LEMMA DistanceIs ==
  ASSUME NEW s \in Nat
  PROVE  /\ Early(s) => Distance(s) = Tick(Pts(s)) - s
         /\ ~Early(s) => Distance(s) = s - Tick(Pts(s))
         /\ Distance(s) \in Nat
  BY Ticks, EarlyIs DEF Distance, Abs

-----------------------------------------------------------------------------
(* What a step meets                                                       *)

LEMMA KeptPacket ==
  ASSUME ChoiceInv
  PROVE  /\ pkt0 # NoPacket =>
              /\ pkt0 = Packet(Pts(pkt0.ts), pkt0.ts) /\ pkt0.pts = Pts(pkt0.ts)
              /\ pkt0.ts \in 0 .. MaxTime /\ pkt0.ts <= clock /\ pkt0.pts \in Nat
         /\ pkt0 = NoPacket => pkt0.pts = -1
         /\ \A p \in out :
              /\ p = Packet(Pts(p.ts), p.ts) /\ p.pts = Pts(p.ts)
              /\ p.ts \in 0 .. MaxTime /\ p.ts <= clock /\ p.pts \in Nat
  <1>1. ASSUME NEW p \in Packets
        PROVE  /\ p = Packet(Pts(p.ts), p.ts) /\ p.pts = Pts(p.ts)
               /\ p.ts \in 0 .. MaxTime /\ p.pts \in Nat
    <2>1. PICK t \in 0 .. MaxTime : p = Packet(Pts(t), t)
      BY DEF Packets
    <2>2. p.pts = Pts(t) /\ p.ts = t
      BY <2>1 DEF Packet
    <2> QED BY <2>1, <2>2, Ticks, DemuxAssumption
  <1>2. (pkt0 # NoPacket => pkt0 \in Packets) /\ out \subseteq Packets
    BY DEF ChoiceInv, NoPacketLeaked, TypeOK
  <1> QED BY <1>1, <1>2 DEF ChoiceInv, SeenInv, KeptInv, NoPacket

LEMMA PacketOf ==
  ASSUME NEW ts \in 0 .. MaxTime
  PROVE  /\ Packet(Pts(ts), ts) \in Packets /\ Packet(Pts(ts), ts) # NoPacket
         /\ Packet(Pts(ts), ts).pts = Pts(ts) /\ Packet(Pts(ts), ts).ts = ts
  <1>1. Packet(Pts(ts), ts) \in Packets
    BY DEF Packets
  <1>2. ts # -1
    BY DemuxAssumption
  <1> QED BY <1>1, <1>2 DEF Packet, NoPacket

(* A frame that is wanted is the first of its tick, or the tick of the     *)
(* frame that is kept.                                                     *)
LEMMA Fresh ==
  ASSUME ChoiceInv, NEW ts \in 0 .. MaxTime, Wanted(ts)
  PROVE  /\ phase = "open" /\ phase' = "open" /\ clock' = ts /\ clock < ts
         /\ seen' = seen \cup {ts}
         /\ clock' \in -1 .. MaxTime /\ seen' \subseteq 0 .. MaxTime
         /\ Pts(ts) \in Nat /\ last_pts < Pts(ts)
         /\ \A s \in seen : s \in 0 .. MaxTime /\ s < ts /\ Pts(s) <= Pts(ts)
         /\ \A p \in out : p.pts <= last_pts /\ p.pts < Pts(ts)
         /\ \A s \in seen : Pts(s) = Pts(ts) => pkt0 # NoPacket /\ Pts(s) = pkt0.pts
         /\ pkt0 # NoPacket => pkt0.ts < ts /\ pkt0.pts <= Pts(ts)
  <1>1. /\ phase = "open" /\ phase' = "open" /\ clock' = ts /\ clock < ts
        /\ seen' = seen \cup {ts} /\ last_pts < Pts(ts)
    BY DEF Wanted, Read
  <1>2. \A s \in seen : s \in 0 .. MaxTime /\ s < ts
    BY <1>1, DemuxAssumption DEF ChoiceInv, NoPacketLeaked, TypeOK, SeenInv
  <1>3. Pts(ts) \in Nat /\ last_pts \in Nat \cup {-1} /\ clock \in -1 .. MaxTime
    BY Ticks, DemuxAssumption DEF ChoiceInv, NoPacketLeaked, TypeOK
  <1>4. \A s \in seen : Pts(s) <= Pts(ts)
    BY <1>2, TicksRise, DemuxAssumption
  <1>5. \A p \in out : p.pts <= last_pts /\ p.pts < Pts(ts)
    BY <1>1, <1>3, KeptPacket DEF ChoiceInv, ServedInv
  <1>6. \A s \in seen : Pts(s) = Pts(ts) => pkt0 # NoPacket /\ Pts(s) = pkt0.pts
    BY <1>1, <1>5, KeptPacket, Ticks DEF ChoiceInv, TicksServed, Served
  <1>7. pkt0 # NoPacket => pkt0.ts < ts /\ pkt0.pts <= Pts(ts)
    BY <1>2, <1>4, KeptPacket DEF ChoiceInv, KeptInv
  <1>8. clock' \in -1 .. MaxTime /\ seen' \subseteq 0 .. MaxTime
    <2>1. ts \in -1 .. MaxTime
      BY DemuxAssumption
    <2> QED BY <1>1, <1>2, <2>1
  <1> QED BY <1>1, <1>2, <1>3, <1>4, <1>5, <1>6, <1>7, <1>8

-----------------------------------------------------------------------------
(* Each step keeps the invariant                                           *)

(* A frame is kept, besides nothing or instead of an earlier one of its    *)
(* tick, or as the first of the next tick.                                 *)
LEMMA KeepsOne ==
  ASSUME ChoiceInv, NEW ts \in 0 .. MaxTime, Wanted(ts),
         NEW p \in Packets, p # NoPacket, p.pts = Pts(ts), p.ts = ts,
         pkt0' = p, packets' = {ts},
         \/ /\ UNCHANGED <<last_pts, out>>
            /\ pkt0 = NoPacket \/ pkt0.pts = Pts(ts)
            /\ Early(ts)
         \/ /\ pkt0 # NoPacket /\ pkt0.pts < Pts(ts)
            /\ last_pts' = pkt0.pts /\ out' = out \cup {pkt0}
  PROVE  ChoiceInv'
  <1>1. NoPacketLeaked'
    <2>1. last_pts \in Nat \cup {-1} /\ out \subseteq Packets /\ pkt0 \in Packets \cup {NoPacket}
      BY DEF ChoiceInv, NoPacketLeaked, TypeOK
    <2>2. last_pts' \in Nat \cup {-1} /\ out' \subseteq Packets
      BY <2>1, KeptPacket
    <2>3. clock' \in -1 .. MaxTime /\ phase' = "open" /\ seen' \subseteq 0 .. MaxTime
      BY Fresh
    <2> QED BY <2>2, <2>3 DEF NoPacketLeaked, TypeOK
  <1>2. SeenInv'
    BY Fresh, DemuxAssumption DEF ChoiceInv, SeenInv, KeptInv
  <1>3. KeptInv'
    <2>1. p.pts > last_pts'
      BY Fresh DEF ChoiceInv, NoPacketLeaked, TypeOK
    <2>2. \A s \in seen : Pts(s) = Pts(ts) => Early(ts) /\ s < ts
      BY Fresh, KeptPacket
    <2> QED BY <2>1, <2>2, Fresh, DemuxAssumption DEF KeptInv
  <1>4. ServedInv'
    BY Fresh, KeptPacket DEF ChoiceInv, ServedInv, Served, KeptInv, TypeOK
  <1>5. TicksServed'
    <2>1. \A t \in seen : Pts(t) \in Served' \/ Pts(t) = Pts(ts)
      BY Fresh, KeptPacket, Ticks, DemuxAssumption DEF ChoiceInv, TicksServed, Served
    <2> QED BY <2>1, Fresh DEF TicksServed
  <1> QED BY <1>1, <1>2, <1>3, <1>4, <1>5 DEF ChoiceInv

(* A frame of this tick is returned, and none is kept.                     *)
LEMMA ReturnsOne ==
  ASSUME ChoiceInv, NEW ts \in 0 .. MaxTime, Wanted(ts),
         NEW x \in Packets, x.pts = Pts(ts), x.ts \in seen \cup {ts},
         pkt0 = NoPacket \/ pkt0.pts = Pts(ts),
         pkt0' = NoPacket, packets' = {}, last_pts' = x.pts, out' = out \cup {x}
  PROVE  ChoiceInv'
  <1>1. NoPacketLeaked'
    <2>1. last_pts' \in Nat \cup {-1} /\ out' \subseteq Packets
      BY Ticks, DemuxAssumption DEF ChoiceInv, NoPacketLeaked, TypeOK
    <2>2. clock' \in -1 .. MaxTime /\ phase' = "open" /\ seen' \subseteq 0 .. MaxTime
      BY Fresh
    <2> QED BY <2>1, <2>2 DEF NoPacketLeaked, TypeOK
  <1>2. SeenInv'
    BY Fresh, DemuxAssumption DEF ChoiceInv, SeenInv
  <1>3. KeptInv'
    BY DEF KeptInv
  <1>4. ServedInv'
    BY Fresh, KeptPacket DEF ServedInv, Served
  <1>5. TicksServed'
    <2>1. \A t \in seen : Pts(t) \in Served' \/ Pts(t) = Pts(ts)
      BY Fresh, KeptPacket, Ticks, DemuxAssumption DEF ChoiceInv, TicksServed, Served
    <2>2. Pts(ts) \in Served'
      BY DEF Served
    <2> QED BY <2>1, <2>2, Fresh DEF TicksServed
  <1> QED BY <1>1, <1>2, <1>3, <1>4, <1>5 DEF ChoiceInv

(* packets and pkt0 agree.                                                 *)
LEMMA OnePacket ==
  ASSUME ChoiceInv
  PROVE  /\ pkt0 = NoPacket => packets = {}
         /\ pkt0 # NoPacket => packets = {pkt0.ts}
  BY DEF ChoiceInv, NoPacketLeaked

LEMMA WantedStep ==
  ASSUME ChoiceInv, NEW ts \in 0 .. MaxTime,
         Keep(ts) \/ ReturnLate(ts) \/ ReturnKept(ts) \/ Choose(ts) \/ Replace(ts)
  PROVE  ChoiceInv'
  <1>1. PICK p \in Packets : p = Packet(Pts(ts), ts) /\ p # NoPacket /\ p.pts = Pts(ts) /\ p.ts = ts
    BY PacketOf
  <1>2. Wanted(ts)
    BY DEF Keep, ReturnLate, ReturnKept, Choose, Replace
  <1>3. ASSUME pkt0 # NoPacket, Pts(ts) <= pkt0.pts PROVE pkt0.pts = Pts(ts)
    BY <1>2, <1>3, Fresh, KeptPacket
  <1>4. CASE Keep(ts)
    <2>1. pkt0 = NoPacket /\ Early(ts) /\ pkt0' = p /\ packets' = packets \cup {ts}
          /\ UNCHANGED <<last_pts, out>>
      BY <1>1, <1>4 DEF Keep
    <2>2. packets' = {ts}
      BY <2>1, OnePacket
    <2> QED BY <1>1, <1>2, <2>1, <2>2, KeepsOne
  <1>5. CASE Replace(ts)
    <2>1. pkt0 # NoPacket /\ pkt0.pts = Pts(ts) /\ Early(ts) /\ pkt0' = p
          /\ packets' = (packets \ {pkt0.ts}) \cup {ts} /\ UNCHANGED <<last_pts, out>>
      BY <1>1, <1>3, <1>5 DEF Replace
    <2>2. packets' = {ts}
      BY <2>1, OnePacket
    <2> QED BY <1>1, <1>2, <2>1, <2>2, KeepsOne
  <1>6. CASE ReturnKept(ts)
    <2>1. pkt0 # NoPacket /\ Pts(ts) > pkt0.pts /\ pkt0' = p
          /\ packets' = (packets \ {pkt0.ts}) \cup {ts}
          /\ last_pts' = pkt0.pts /\ out' = out \cup {pkt0}
      BY <1>1, <1>6 DEF ReturnKept, Return
    <2>2. packets' = {ts} /\ pkt0.pts < Pts(ts)
      BY <2>1, OnePacket, KeptPacket, Ticks, DemuxAssumption
    <2> QED BY <1>1, <1>2, <2>1, <2>2, KeepsOne
  <1>7. CASE ReturnLate(ts)
    <2>1. pkt0 = NoPacket /\ pkt0' = NoPacket /\ last_pts' = p.pts /\ out' = out \cup {p}
          /\ packets' = {}
      BY <1>1, <1>7, OnePacket DEF ReturnLate, Return
    <2> QED BY <1>1, <1>2, <2>1, ReturnsOne
  <1>8. CASE Choose(ts)
    <2>1. pkt0 # NoPacket /\ pkt0.pts = Pts(ts) /\ pkt0' = NoPacket
          /\ packets' = packets \ {pkt0.ts}
      BY <1>3, <1>8 DEF Choose
    <2>2. PICK x : x \in {p, pkt0} /\ last_pts' = x.pts /\ out' = out \cup {x}
      BY <1>1, <1>8 DEF Choose, Return
    <2>3. x \in Packets /\ x.pts = Pts(ts) /\ x.ts \in seen \cup {ts}
      BY <1>1, <2>1, <2>2 DEF ChoiceInv, KeptInv, NoPacketLeaked, TypeOK
    <2>4. packets' = {}
      BY <2>1, OnePacket
    <2> QED BY <1>2, <2>1, <2>2, <2>3, <2>4, ReturnsOne
  <1> QED BY <1>4, <1>5, <1>6, <1>7, <1>8

(* A frame that is passed over is of the tick served last.                 *)
LEMMA Passed ==
  ASSUME ChoiceInv, NEW ts \in 0 .. MaxTime, Pass(ts)
  PROVE  /\ phase = "open" /\ phase' = "open" /\ clock' = ts /\ clock < ts
         /\ seen' = seen \cup {ts} /\ UNCHANGED <<last_pts, pkt0, packets, out>>
         /\ Pts(ts) \in Nat /\ Pts(ts) = last_pts /\ last_pts \in Served
         /\ \A s \in seen : s \in 0 .. MaxTime /\ s < ts
  <1>1. /\ phase = "open" /\ phase' = "open" /\ clock' = ts /\ clock < ts
        /\ seen' = seen \cup {ts} /\ UNCHANGED <<last_pts, pkt0, packets, out>>
        /\ Pts(ts) <= last_pts
    BY DEF Pass, Read
  <1>2. Pts(ts) \in Nat /\ last_pts \in Nat \cup {-1} /\ clock \in -1 .. MaxTime
    BY Ticks, DemuxAssumption DEF ChoiceInv, NoPacketLeaked, TypeOK
  <1>3. \A s \in seen : s \in 0 .. MaxTime /\ s < ts
    BY <1>1, <1>2 DEF ChoiceInv, NoPacketLeaked, TypeOK, SeenInv
  <1>4. last_pts \in Served
    BY <1>1, <1>2 DEF ChoiceInv, ServedInv
  <1>5. PICK p \in out : p.pts = last_pts
    BY <1>4 DEF Served
  <1>6. p.ts \in 0 .. MaxTime /\ p.ts <= ts /\ p.pts = Pts(p.ts)
    BY <1>1, <1>2, KeptPacket, DemuxAssumption
  <1>7. last_pts <= Pts(ts)
    BY <1>5, <1>6, TicksRise, DemuxAssumption
  <1> QED BY <1>1, <1>2, <1>3, <1>4, <1>7

LEMMA LostStep ==
  ASSUME ChoiceInv, NEW ts \in 0 .. MaxTime, Lost(ts)
  PROVE  ChoiceInv'
  <1>1. NoPacketLeaked'
    BY KeptPacket, DemuxAssumption DEF ChoiceInv, Lost, NoPacketLeaked, TypeOK
  <1>2. SeenInv'
    BY DEF ChoiceInv, Lost, SeenInv, NoPacketLeaked, TypeOK, KeptInv
  <1>3. KeptInv'
    BY DEF ChoiceInv, Lost, KeptInv, TypeOK
  <1>4. ServedInv'
    BY DEF ChoiceInv, Lost, ServedInv, Served, NoPacketLeaked
  <1>5. TicksServed'
    BY DEF ChoiceInv, Lost, TicksServed, Served, TypeOK
  <1> QED BY <1>1, <1>2, <1>3, <1>4, <1>5 DEF ChoiceInv

LEMMA PassStep ==
  ASSUME ChoiceInv, NEW ts \in 0 .. MaxTime, Pass(ts)
  PROVE  ChoiceInv'
  <1>1. NoPacketLeaked'
    BY DEF ChoiceInv, Pass, Read, NoPacketLeaked, TypeOK
  <1>2. SeenInv'
    BY DEF ChoiceInv, Pass, Read, SeenInv, NoPacketLeaked, TypeOK
  <1>3. KeptInv'
    BY KeptPacket DEF ChoiceInv, Pass, Read, KeptInv, SeenInv, NoPacketLeaked, TypeOK
  <1>4. ServedInv'
    BY DEF ChoiceInv, Pass, Read, ServedInv, Served
  <1>5. TicksServed'
    BY Passed DEF ChoiceInv, TicksServed, Served
  <1> QED BY <1>1, <1>2, <1>3, <1>4, <1>5 DEF ChoiceInv

LEMMA FlushStep ==
  ASSUME ChoiceInv, Flush
  PROVE  ChoiceInv'
  <1>1. NoPacketLeaked'
    BY KeptPacket, DemuxAssumption DEF ChoiceInv, Flush, NoPacketLeaked, TypeOK
  <1>2. SeenInv'
    BY DEF ChoiceInv, Flush, SeenInv, KeptInv
  <1>3. KeptInv'
    BY DEF Flush, KeptInv
  <1>4. ServedInv'
    BY DEF ChoiceInv, Flush, ServedInv, Served
  <1>5. TicksServed'
    BY DEF ChoiceInv, Flush, TicksServed, Served
  <1> QED BY <1>1, <1>2, <1>3, <1>4, <1>5 DEF ChoiceInv

LEMMA EndStep ==
  ASSUME ChoiceInv, End
  PROVE  ChoiceInv'
  <1>1. NoPacketLeaked'
    BY KeptPacket, DemuxAssumption DEF ChoiceInv, End, NoPacketLeaked, TypeOK
  <1>2. SeenInv'
    BY DEF ChoiceInv, End, SeenInv, KeptInv
  <1>3. KeptInv'
    BY DEF ChoiceInv, End, KeptInv
  <1>4. ServedInv'
    BY DEF ChoiceInv, End, ServedInv, Served
  <1>5. TicksServed'
    BY DEF ChoiceInv, End, TicksServed, Served
  <1> QED BY <1>1, <1>2, <1>3, <1>4, <1>5 DEF ChoiceInv

LEMMA CloseStep ==
  ASSUME ChoiceInv, Close
  PROVE  ChoiceInv'
  <1>1. NoPacketLeaked'
    BY KeptPacket, DemuxAssumption DEF ChoiceInv, Close, NoPacketLeaked, TypeOK
  <1>2. SeenInv'
    BY DEF ChoiceInv, Close, SeenInv, KeptInv
  <1>3. KeptInv'
    BY DEF Close, KeptInv
  <1>4. ServedInv'
    BY DEF ChoiceInv, Close, ServedInv, Served
  <1>5. TicksServed'
    BY DEF Close, TicksServed
  <1> QED BY <1>1, <1>2, <1>3, <1>4, <1>5 DEF ChoiceInv

LEMMA ChoiceInit ==
  Init => ChoiceInv
  BY DemuxAssumption DEF Init, ChoiceInv, NoPacketLeaked, TypeOK, SeenInv, KeptInv,
     ServedInv, TicksServed, NoPacket

LEMMA ChoiceNext ==
  ChoiceInv /\ [Next]_vars => ChoiceInv'
  <1> SUFFICES ASSUME ChoiceInv, [Next]_vars PROVE ChoiceInv'
    OBVIOUS
  <1>1. CASE UNCHANGED vars
    BY <1>1 DEF vars, ChoiceInv, NoPacketLeaked, TypeOK, SeenInv, KeptInv, ServedInv,
       Served, TicksServed
  <1>2. CASE Next
    <2>1. ASSUME NEW ts \in 0 .. MaxTime,
                 \/ Lost(ts) \/ Pass(ts) \/ Keep(ts) \/ ReturnLate(ts)
                 \/ ReturnKept(ts) \/ Choose(ts) \/ Replace(ts)
          PROVE  ChoiceInv'
      BY <2>1, LostStep, PassStep, WantedStep
    <2> QED BY <1>1, <1>2, <2>1, FlushStep, EndStep, CloseStep DEF Next, Finished
  <1> QED BY <1>1, <1>2

LEMMA ChoiceInvariant ==
  Spec => []ChoiceInv
  BY ChoiceInit, ChoiceNext, PTL DEF Spec

(* Every packet that read_packet() allocates is returned, freed or the one *)
(* that is kept, and the state stays well formed.                          *)
THEOREM PacketsAccounted ==
  Spec => []NoPacketLeaked
  <1>1. ChoiceInv => NoPacketLeaked
    BY DEF ChoiceInv
  <1> QED BY <1>1, ChoiceInvariant, PTL

(* Of whatever tick a frame was read, a packet has been returned or is     *)
(* kept, until the input is closed.                                        *)
THEOREM EachTickServed ==
  Spec => []TicksServed
  <1>1. ChoiceInv => TicksServed
    BY DEF ChoiceInv
  <1> QED BY <1>1, ChoiceInvariant, PTL

(* The time stamps of the packets read_packet() returns rise strictly.     *)
THEOREM StampsRise ==
  Spec => PtsRise
  <1> DEFINE Rise == \A p \in out' \ out : \A q \in out : p.pts > q.pts
  <1>1. ASSUME ChoiceInv, Next PROVE Rise
    <2>1. ASSUME NEW ts \in 0 .. MaxTime, Lost(ts) \/ Pass(ts) \/ Keep(ts) \/ Replace(ts)
          PROVE  Rise
      BY <2>1 DEF Lost, Pass, Keep, Replace
    <2>2. ASSUME NEW ts \in 0 .. MaxTime, ReturnLate(ts)
          PROVE  Rise
      <3>1. \A q \in out : q.pts < Pts(ts) /\ q.pts \in Nat
        BY <1>1, <2>2, Fresh, KeptPacket DEF ReturnLate
      <3>2. out' = out \cup {Packet(Pts(ts), ts)}
        BY <2>2 DEF ReturnLate, Return
      <3> QED BY <3>1, <3>2, PacketOf, Ticks, DemuxAssumption
    <2>3. ASSUME NEW ts \in 0 .. MaxTime, ReturnKept(ts)
          PROVE  Rise
      <3>1. \A q \in out : q.pts <= last_pts /\ q.pts \in Nat
        BY <1>1, <2>3, Fresh, KeptPacket DEF ReturnKept
      <3>2. pkt0 # NoPacket /\ out' = out \cup {pkt0}
        BY <2>3 DEF ReturnKept, Return
      <3>3. pkt0.pts > last_pts /\ pkt0.pts \in Nat /\ last_pts \in Nat \cup {-1}
        BY <1>1, <3>2, KeptPacket DEF ChoiceInv, KeptInv, NoPacketLeaked, TypeOK
      <3> QED BY <3>1, <3>2, <3>3
    <2>4. ASSUME NEW ts \in 0 .. MaxTime, Choose(ts)
          PROVE  Rise
      <3>1. \A q \in out : q.pts <= last_pts /\ q.pts < Pts(ts) /\ q.pts \in Nat
        BY <1>1, <2>4, Fresh, KeptPacket DEF Choose
      <3>2. pkt0 # NoPacket /\ out' \subseteq out \cup {pkt0, Packet(Pts(ts), ts)}
        BY <2>4 DEF Choose, Return
      <3>3. pkt0.pts > last_pts /\ pkt0.pts \in Nat /\ last_pts \in Nat \cup {-1}
        BY <1>1, <3>2, KeptPacket DEF ChoiceInv, KeptInv, NoPacketLeaked, TypeOK
      <3> QED BY <3>1, <3>2, <3>3, PacketOf, Ticks, DemuxAssumption
    <2>5. CASE Flush
      <3>1. pkt0 # NoPacket /\ out' = out \cup {pkt0}
        BY <2>5 DEF Flush
      <3>2. \A q \in out : q.pts <= last_pts /\ q.pts \in Nat
        BY <1>1, <3>1, KeptPacket DEF ChoiceInv, ServedInv
      <3>3. pkt0.pts > last_pts /\ pkt0.pts \in Nat /\ last_pts \in Nat \cup {-1}
        BY <1>1, <3>1, KeptPacket DEF ChoiceInv, KeptInv, NoPacketLeaked, TypeOK
      <3> QED BY <3>1, <3>2, <3>3
    <2>6. CASE End \/ Close \/ Finished
      BY <2>6 DEF End, Close, Finished, vars
    <2> QED BY <1>1, <2>1, <2>2, <2>3, <2>4, <2>5, <2>6 DEF Next
  <1>2. ASSUME ChoiceInv, [Next]_vars PROVE [Rise]_vars
    BY <1>1, <1>2
  <1> QED BY <1>2, ChoiceInvariant, PTL DEF Spec, PtsRise

-----------------------------------------------------------------------------
(* The nearest frame                                                       *)

LEMMA NearestIs ==
  NearestInv => NearestReturned
  BY DEF NearestInv, Nearest, Contested, NearestReturned

(* The subtractions of the code do not wrap.                               *)
LEMMA NoWrapping ==
  ASSUME NEW a \in Nat, NEW b \in Nat, b <= a, a < Width
  PROVE  Minus(a, b) = a - b
  <1>1. PICK w \in Nat \ {0} : w = Width
    BY DemuxAssumption
  <1>2. PICK d \in Nat : d = a - b /\ d < w
    BY <1>1
  <1>3. d % w = d
    BY <1>2
  <1> QED BY <1>1, <1>2, <1>3 DEF Minus

LEMMA Comparison ==
  ASSUME TimesFit, NEW k \in 0 .. MaxTime, NEW ts \in 0 .. MaxTime,
         pkt0.ts = k, Pts(k) = Pts(ts), Early(k), ~Early(ts)
  PROVE  KeptIsNearer(ts) <=> Distance(k) < Distance(ts)
  <1>1. k \in Nat /\ ts \in Nat
    BY DemuxAssumption
  <1>2. PICK t \in Nat : t = Tick(Pts(ts))
    BY <1>1, Ticks
  <1>3. k <= t /\ t <= ts /\ Distance(k) = t - k /\ Distance(ts) = ts - t
    BY <1>1, <1>2, EarlyIs, DistanceIs
  <1>4. t < Width /\ ts < Width
    BY <1>1, <1>2, DemuxAssumption DEF TimesFit
  <1>5. Minus(t, k) = t - k /\ Minus(ts, t) = ts - t
    BY <1>1, <1>3, <1>4, NoWrapping
  <1> QED BY <1>2, <1>3, <1>5 DEF KeptIsNearer

(* Of the frames before a tick the last is the nearest.                    *)
LEMMA KeptIsBest ==
  ASSUME ChoiceInv, pkt0 # NoPacket, NEW s \in seen, Pts(s) = pkt0.pts
  PROVE  Distance(pkt0.ts) <= Distance(s)
  <1>1. PICK k \in 0 .. MaxTime : k = pkt0.ts /\ Pts(k) = pkt0.pts
    BY KeptPacket
  <1>2. s \in Nat /\ k \in Nat
    BY <1>1, DemuxAssumption DEF ChoiceInv, NoPacketLeaked, TypeOK
  <1>3. CASE Early(k)
    <2>1. s <= k
      BY <1>1 DEF ChoiceInv, KeptInv
    <2>2. Early(s)
      BY <1>1, <1>2, <1>3, <2>1, EarlyBefore
    <2>3. PICK t \in Nat : t = Tick(Pts(k)) /\ t = Tick(Pts(s))
      BY <1>1, <1>2, Ticks
    <2> QED BY <1>1, <1>2, <1>3, <2>1, <2>2, <2>3, DistanceIs
  <1>4. CASE ~Early(k)
    <2>1. s = k
      BY <1>1, <1>4 DEF ChoiceInv, KeptInv
    <2> QED BY <1>1, <1>2, <2>1, DistanceIs
  <1> QED BY <1>3, <1>4

(* The frames that come later do not rival those that were returned.       *)
LEMMA LaterIsFarther ==
  ASSUME ChoiceInv, NEW p \in out, Final(p), phase = "open",
         NEW ts \in 0 .. MaxTime, clock < ts
  PROVE  /\ p.pts \in Nat /\ p.pts <= Pts(ts)
         /\ Pts(ts) = p.pts => ~Early(ts)
         /\ Pts(ts) = p.pts /\ Contested(p.pts) => Distance(p.ts) <= Distance(ts)
  <1>1. PICK c \in 0 .. MaxTime : c = clock
    BY KeptPacket, DemuxAssumption DEF ChoiceInv, NoPacketLeaked, TypeOK
  <1>2. c \in Nat /\ ts \in Nat /\ c <= ts /\ p.pts \in Nat /\ p.ts \in Nat
    BY <1>1, KeptPacket, DemuxAssumption
  <1>3. Pts(c) \in Nat /\ Pts(ts) \in Nat /\ Pts(c) <= Pts(ts)
    BY <1>2, Ticks, TicksRise
  <1>4. CASE Pts(c) > p.pts
    BY <1>2, <1>3, <1>4
  <1>5. CASE /\ ~Early(c) /\ Pts(c) = p.pts
             /\ Contested(p.pts) => Distance(p.ts) <= Distance(c)
    <2>1. ASSUME Pts(ts) = p.pts PROVE ~Early(ts) /\ Distance(c) <= Distance(ts)
      <3>1. ~Early(ts)
        BY <1>2, <1>5, <2>1, EarlyBefore
      <3>2. PICK t \in Nat : t = Tick(Pts(c)) /\ t = Tick(Pts(ts))
        BY <1>2, <1>5, <2>1, Ticks
      <3>3. ~Early(c)
        BY <1>5
      <3>4. Distance(c) = c - t
        BY <1>2, <3>2, <3>3, DistanceIs
      <3>5. Distance(ts) = ts - t
        BY <1>2, <3>1, <3>2, DistanceIs
      <3> QED BY <1>2, <3>1, <3>2, <3>4, <3>5
    <2> QED BY <1>2, <1>3, <1>5, <2>1, DistanceIs
  <1> QED BY <1>1, <1>4, <1>5 DEF Final

(* So they stay the nearest.                                               *)
LEMMA StaysNearest ==
  ASSUME ChoiceInv, NearestInv, phase = "open", NEW ts \in 0 .. MaxTime, clock < ts,
         clock' = ts, phase' = "open", seen' = seen \/ seen' = seen \cup {ts},
         NEW p \in out
  PROVE  Nearest(p)' /\ Final(p)'
  <1>1. Nearest(p) /\ Final(p)
    BY DEF NearestInv
  <1>2. /\ p.pts \in Nat /\ p.pts <= Pts(ts)
        /\ Pts(ts) = p.pts => ~Early(ts)
        /\ Pts(ts) = p.pts /\ Contested(p.pts) => Distance(p.ts) <= Distance(ts)
    BY <1>1, LaterIsFarther
  <1>3. Contested(p.pts)' => Contested(p.pts)
    BY <1>2 DEF Contested
  <1>4. Nearest(p)'
    BY <1>1, <1>2, <1>3 DEF Nearest
  <1>5. Pts(ts) \in Nat
    BY Ticks, DemuxAssumption
  <1>6. Final(p)'
    BY <1>2, <1>3, <1>5 DEF Final
  <1> QED BY <1>4, <1>6

(* The packet that a step returns is as near as any.                       *)
LEMMA LateIsNearest ==
  ASSUME ChoiceInv, NEW ts \in 0 .. MaxTime, ReturnLate(ts),
         NEW x, x.pts = Pts(ts), x.ts = ts
  PROVE  Nearest(x)' /\ Final(x)'
  <1>1. pkt0 = NoPacket /\ ~Early(ts) /\ Wanted(ts)
    BY DEF ReturnLate
  <1>2. \A s \in seen : Pts(s) # Pts(ts)
    BY <1>1, Fresh
  <1>3. seen' = seen \cup {ts} /\ clock' = ts
    BY <1>1, Fresh
  <1>4. ~Contested(x.pts)'
    BY <1>1, <1>2, <1>3 DEF Contested
  <1>5. Nearest(x)'
    BY <1>4 DEF Nearest
  <1>6. Final(x)'
    BY <1>1, <1>3, <1>4 DEF Final
  <1> QED BY <1>5, <1>6

LEMMA KeptIsNearest ==
  ASSUME ChoiceInv, NEW ts \in 0 .. MaxTime, ReturnKept(ts),
         NEW x, x = pkt0
  PROVE  Nearest(x)' /\ Final(x)'
  <1>1. pkt0 # NoPacket /\ Pts(ts) > pkt0.pts /\ Wanted(ts)
    BY DEF ReturnKept
  <1>2. seen' = seen \cup {ts} /\ clock' = ts /\ Pts(ts) \in Nat /\ x.pts \in Nat
    BY <1>1, Fresh, KeptPacket
  <1>3. ASSUME NEW s \in seen \cup {ts}, Pts(s) = x.pts
        PROVE  Distance(x.ts) <= Distance(s)
    BY <1>1, <1>2, <1>3, KeptIsBest
  <1>4. Nearest(x)'
    BY <1>2, <1>3 DEF Nearest
  <1>5. Final(x)'
    BY <1>1, <1>2 DEF Final
  <1> QED BY <1>4, <1>5

LEMMA ChosenIsNearest ==
  ASSUME TimesFit, ChoiceInv, NEW ts \in 0 .. MaxTime, Choose(ts),
         NEW x, x = IF KeptIsNearer(ts) THEN pkt0 ELSE Packet(Pts(ts), ts)
  PROVE  Nearest(x)' /\ Final(x)'
  <1>1. pkt0 # NoPacket /\ Pts(ts) <= pkt0.pts /\ ~Early(ts) /\ Wanted(ts)
    BY DEF Choose
  <1>2. PICK k \in 0 .. MaxTime : k = pkt0.ts /\ Pts(k) = pkt0.pts /\ k \in seen
    BY <1>1, KeptPacket DEF ChoiceInv, KeptInv
  <1>3. seen' = seen \cup {ts} /\ clock' = ts /\ Pts(k) = Pts(ts)
    BY <1>1, <1>2, Fresh, KeptPacket
  <1>4. x.pts = Pts(ts) /\ x.ts = IF KeptIsNearer(ts) THEN k ELSE ts
    BY <1>2, <1>3, PacketOf
  <1>5. Contested(x.pts)' => Early(k)
    <2>1. ASSUME NEW e \in seen, Pts(e) = Pts(ts), Early(e) PROVE Early(k)
      <3>1. e <= k
        BY <1>1, <1>2, <1>3, <2>1 DEF ChoiceInv, KeptInv
      <3>2. CASE Early(k)
        BY <3>2
      <3>3. CASE ~Early(k)
        <4>1. e = k
          BY <1>1, <1>2, <1>3, <2>1, <3>3 DEF ChoiceInv, KeptInv
        <4> QED BY <2>1, <4>1
      <3> QED BY <3>2, <3>3
    <2> QED BY <1>1, <1>3, <1>4, <2>1 DEF Contested
  <1>6. ASSUME Early(k)
        PROVE  /\ Distance(x.ts) <= Distance(ts)
               /\ \A s \in seen : Pts(s) = Pts(ts) => Distance(x.ts) <= Distance(s)
    <2>1. KeptIsNearer(ts) <=> Distance(k) < Distance(ts)
      BY <1>1, <1>2, <1>3, <1>6, Comparison
    <2>2. PICK dk \in Nat, dt \in Nat : dk = Distance(k) /\ dt = Distance(ts)
      BY DistanceIs, DemuxAssumption
    <2>3. \A s \in seen : Pts(s) = Pts(ts) => Distance(s) \in Nat /\ dk <= Distance(s)
      BY <1>1, <1>2, <1>3, <2>2, KeptIsBest, DistanceIs, DemuxAssumption
         DEF ChoiceInv, NoPacketLeaked, TypeOK
    <2>4. CASE KeptIsNearer(ts)
      BY <1>4, <2>1, <2>2, <2>3, <2>4
    <2>5. CASE ~KeptIsNearer(ts)
      BY <1>4, <2>1, <2>2, <2>3, <2>5
    <2> QED BY <2>4, <2>5
  <1>7. Nearest(x)'
    BY <1>3, <1>4, <1>5, <1>6 DEF Nearest
  <1>8. Final(x)'
    BY <1>1, <1>3, <1>4, <1>5, <1>6 DEF Final
  <1> QED BY <1>7, <1>8

LEMMA FlushedIsNearest ==
  ASSUME ChoiceInv, Flush, NEW x, x = pkt0
  PROVE  Nearest(x)' /\ Final(x)'
  <1>1. pkt0 # NoPacket /\ phase' # "open" /\ seen' = seen
    BY DEF Flush
  <1> QED BY <1>1, KeptIsBest DEF Nearest, Final

LEMMA NearestNext ==
  ASSUME TimesFit, ChoiceInv, NearestInv, [Next]_vars
  PROVE  NearestInv'
  <1>1. ASSUME NEW ts \in 0 .. MaxTime, Lost(ts) \/ Pass(ts) \/ Keep(ts) \/ Replace(ts)
        PROVE  NearestInv'
    <2>1. /\ phase = "open" /\ phase' = "open" /\ clock < ts /\ clock' = ts
          /\ seen' = seen \/ seen' = seen \cup {ts}
          /\ out' = out
      BY <1>1 DEF Lost, Pass, Keep, Replace, Wanted, Read
    <2> QED BY <2>1, StaysNearest DEF NearestInv
  <1>2. ASSUME NEW ts \in 0 .. MaxTime, Wanted(ts), NEW x,
               Nearest(x)' /\ Final(x)', out' = out \cup {x}
        PROVE  NearestInv'
    <2>1. ASSUME NEW p \in out PROVE Nearest(p)' /\ Final(p)'
      BY <1>2, Fresh, StaysNearest
    <2> QED BY <1>2, <2>1 DEF NearestInv
  <1>3. ASSUME NEW ts \in 0 .. MaxTime, ReturnLate(ts) PROVE NearestInv'
    <2>1. PICK x : x = Packet(Pts(ts), ts) /\ x.pts = Pts(ts) /\ x.ts = ts
      BY PacketOf
    <2>2. Wanted(ts) /\ out' = out \cup {x}
      BY <1>3, <2>1 DEF ReturnLate, Return
    <2> QED BY <1>2, <1>3, <2>1, <2>2, LateIsNearest
  <1>4. ASSUME NEW ts \in 0 .. MaxTime, ReturnKept(ts) PROVE NearestInv'
    <2>1. PICK x : x = pkt0
      OBVIOUS
    <2>2. Wanted(ts) /\ out' = out \cup {x}
      BY <1>4, <2>1 DEF ReturnKept, Return
    <2> QED BY <1>2, <1>4, <2>1, <2>2, KeptIsNearest
  <1>5. ASSUME NEW ts \in 0 .. MaxTime, Choose(ts) PROVE NearestInv'
    <2>1. PICK x : x = IF KeptIsNearer(ts) THEN pkt0 ELSE Packet(Pts(ts), ts)
      OBVIOUS
    <2>2. Wanted(ts) /\ out' = out \cup {x}
      BY <1>5, <2>1 DEF Choose, Return
    <2> QED BY <1>2, <1>5, <2>1, <2>2, ChosenIsNearest
  <1>6. CASE Flush
    <2>1. PICK x : x = pkt0
      OBVIOUS
    <2>2. out' = out \cup {x} /\ phase' # "open" /\ seen' = seen
      BY <1>6, <2>1 DEF Flush
    <2>3. ASSUME NEW p \in out PROVE Nearest(p)' /\ Final(p)'
      BY <2>2 DEF NearestInv, Nearest, Contested, Final
    <2> QED BY <1>6, <2>1, <2>2, <2>3, FlushedIsNearest DEF NearestInv
  <1>7. CASE End \/ Close
    <2>1. out' = out /\ phase' # "open" /\ seen' = seen
      BY <1>7 DEF End, Close
    <2> QED BY <2>1 DEF NearestInv, Nearest, Contested, Final
  <1>8. CASE UNCHANGED vars
    BY <1>8 DEF vars, NearestInv, Nearest, Contested, Final
  <1> QED BY <1>1, <1>3, <1>4, <1>5, <1>6, <1>7, <1>8 DEF Next, Finished

(* Of the frames read for a tick, where there is a choice, the packet that *)
(* read_packet() returns holds the one nearest to it.                      *)
THEOREM NearestFrameReturned ==
  ASSUME TimesFit
  PROVE  Spec => []NearestReturned
  <1>1. Init => NearestInv
    BY DEF Init, NearestInv
  <1>2. ChoiceInv /\ NearestInv /\ [Next]_vars => NearestInv'
    BY NearestNext
  <1> QED BY <1>1, <1>2, NearestIs, ChoiceInvariant, PTL DEF Spec

=============================================================================
