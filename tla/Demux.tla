------------------------------- MODULE Demux --------------------------------
(* How the demuxer picks the frames that become packets (read_packet() in  *)
(* avformat.c).  Frames carry the time in nanoseconds at which they were   *)
(* grabbed; packets carry a multiple of the stream's time base.  Of the    *)
(* frames that round to one multiple, its tick, at most one is returned.   *)
(*                                                                         *)
(* A step is what read_packet() does with one message of the ring.  The    *)
(* times of frames rise, as those of a monotonic clock do.  A frame is     *)
(* named by its time.                                                      *)
EXTENDS Integers

CONSTANTS
  Num, Den,   (* the time base is Num/Den nanoseconds                      *)
  Width,      (* range of uint64_t                                         *)
  MaxTime     (* bound: the last nanosecond                                *)

ASSUME DemuxAssumption ==
  /\ {Num, Den, Width} \subseteq Nat \ {0}
  /\ MaxTime \in Nat

VARIABLES
  last_pts,   (* g->last_pts                                               *)
  pkt0,       (* g->pkt0 with g->ts0, or NoPacket                          *)
  packets,    (* the packets allocated and neither freed nor returned      *)
  clock,      (* time of the last frame                                    *)
  phase,      (* "open"; "ended" after the last message; "closed"          *)
  (* history variables, which no step reads *)
  seen,       (* frames that were read whole                               *)
  out         (* packets returned                                          *)

vars == <<last_pts, pkt0, packets, clock, phase, seen, out>>

NoPacket == [pts |-> -1, ts |-> -1]
Packet(pts, ts) == [pts |-> pts, ts |-> ts]

(* AV_ROUND_NEAR_INF of a / b                                              *)
Round(a, b) == (2 * a + b) \div (2 * b)

Pts(ts) == Round(ts * Den, Num)

(* The nanosecond of a time stamp, as av_rescale_q() rounds it             *)
Tick(pts) == Round(pts * Num, Den)

(* av_compare_ts(ts, ns, pts, time_base) <= 0: not after the tick          *)
Early(ts) == ts * Den <= Pts(ts) * Num

(* Subtraction of uint64_t                                                 *)
Minus(a, b) == (a - b) % Width

Init ==
  /\ last_pts = -1
  /\ pkt0 = NoPacket
  /\ packets = {}
  /\ clock = -1
  /\ phase = "open"
  /\ seen = {}
  /\ out = {}

-----------------------------------------------------------------------------

(* A message of time ts has passed its checks, and its packet, if it has   *)
(* not been passed over, could be allocated.                               *)
Read(ts) ==
  /\ phase = "open"
  /\ clock < ts
  /\ clock' = ts
  /\ seen' = seen \cup {ts}
  /\ UNCHANGED phase

Return(p) == last_pts' = p.pts /\ out' = out \cup {p}

(* A message that fails a check is lost, and so is one for which there is  *)
(* no stream or no packet: then read_packet() returns an error.            *)
Lost(ts) ==
  /\ phase = "open"
  /\ clock < ts
  /\ clock' = ts
  /\ UNCHANGED <<last_pts, pkt0, packets, phase, seen, out>>

(* Its tick has been served.                                               *)
Pass(ts) ==
  /\ Pts(ts) <= last_pts
  /\ Read(ts)
  /\ UNCHANGED <<last_pts, pkt0, packets, out>>

Wanted_Any(ts) == Read(ts)

Wanted(ts) == Pts(ts) > last_pts /\ Read(ts)

(* The first frame of a tick is kept, for there may be a nearer one.       *)
Keep(ts) ==
  /\ pkt0 = NoPacket
  /\ Early(ts)
  /\ Wanted(ts)
  /\ pkt0' = Packet(Pts(ts), ts)
  /\ packets' = packets \cup {ts}
  /\ UNCHANGED <<last_pts, out>>

(* The first frame comes after the tick: there is no nearer one to come.   *)
ReturnLate(ts) ==
  /\ pkt0 = NoPacket
  /\ ~Early(ts)
  /\ Wanted(ts)
  /\ Return(Packet(Pts(ts), ts))
  /\ UNCHANGED <<pkt0, packets>>

ReturnKept_Forgets(ts) ==
  /\ pkt0 # NoPacket
  /\ Pts(ts) > pkt0.pts
  /\ Wanted(ts)
  /\ Return(pkt0)
  /\ pkt0' = NoPacket
  /\ packets' = packets \ {pkt0.ts}

(* The next tick has begun.                                                *)
ReturnKept(ts) ==
  /\ pkt0 # NoPacket
  /\ Pts(ts) > pkt0.pts
  /\ Wanted(ts)
  /\ Return(pkt0)
  /\ pkt0' = Packet(Pts(ts), ts)
  /\ packets' = (packets \ {pkt0.ts}) \cup {ts}

(* The distance of the kept frame from the tick is less than that of ts.   *)
KeptIsNearer(ts) ==
  Minus(Tick(Pts(ts)), pkt0.ts) < Minus(ts, Tick(Pts(ts)))

Choose_Swapped(ts) ==
  /\ pkt0 # NoPacket
  /\ Pts(ts) <= pkt0.pts
  /\ ~Early(ts)
  /\ Wanted(ts)
  /\ IF KeptIsNearer(ts) THEN Return(Packet(Pts(ts), ts)) ELSE Return(pkt0)
  /\ pkt0' = NoPacket
  /\ packets' = packets \ {pkt0.ts}

(* One frame before the tick, one after it; the other one is freed.        *)
Choose(ts) ==
  /\ pkt0 # NoPacket
  /\ Pts(ts) <= pkt0.pts
  /\ ~Early(ts)
  /\ Wanted(ts)
  /\ IF KeptIsNearer(ts) THEN Return(pkt0) ELSE Return(Packet(Pts(ts), ts))
  /\ pkt0' = NoPacket
  /\ packets' = packets \ {pkt0.ts}

Replace_Leaks(ts) ==
  /\ pkt0 # NoPacket
  /\ Pts(ts) <= pkt0.pts
  /\ Early(ts)
  /\ Wanted(ts)
  /\ pkt0' = Packet(Pts(ts), ts)
  /\ packets' = packets \cup {ts}
  /\ UNCHANGED <<last_pts, out>>

(* A later frame that is still not after the tick is nearer.               *)
Replace(ts) ==
  /\ pkt0 # NoPacket
  /\ Pts(ts) <= pkt0.pts
  /\ Early(ts)
  /\ Wanted(ts)
  /\ pkt0' = Packet(Pts(ts), ts)
  /\ packets' = (packets \ {pkt0.ts}) \cup {ts}
  /\ UNCHANGED <<last_pts, out>>

(* At the end of the stream the kept packet is returned; last_pts is left  *)
(* as it was.                                                              *)
Flush ==
  /\ phase = "ended"
  /\ pkt0 # NoPacket
  /\ out' = out \cup {pkt0}
  /\ pkt0' = NoPacket
  /\ packets' = packets \ {pkt0.ts}
  /\ UNCHANGED <<last_pts, clock, phase, seen>>

(* The writer has shut down and every message has been read.               *)
End ==
  /\ phase = "open"
  /\ phase' = "ended"
  /\ UNCHANGED <<last_pts, pkt0, packets, clock, seen, out>>

(* read_close(), at any time                                               *)
Close ==
  /\ phase # "closed"
  /\ phase' = "closed"
  /\ packets' = IF pkt0 = NoPacket THEN packets ELSE packets \ {pkt0.ts}
  /\ pkt0' = NoPacket
  /\ UNCHANGED <<last_pts, clock, seen, out>>

Finished == phase = "closed" /\ UNCHANGED vars

Next ==
  \/ \E ts \in 0 .. MaxTime :
       \/ Lost(ts) \/ Pass(ts) \/ Keep(ts) \/ ReturnLate(ts)
       \/ ReturnKept(ts) \/ Choose(ts) \/ Replace(ts)
  \/ Flush \/ End \/ Close \/ Finished

Spec == Init /\ [][Next]_vars

-----------------------------------------------------------------------------

Packets == {Packet(Pts(ts), ts) : ts \in 0 .. MaxTime}

(* Every variable stays in its range; a packet is stamped with the tick of *)
(* its frame.                                                              *)
TypeOK ==
  /\ last_pts \in Nat \cup {-1}
  /\ pkt0 \in Packets \cup {NoPacket}
  /\ packets \subseteq 0 .. MaxTime
  /\ clock \in -1 .. MaxTime
  /\ phase \in {"open", "ended", "closed"}
  /\ seen \subseteq 0 .. MaxTime
  /\ out \subseteq Packets

Served == {p.pts : p \in out}

(* Time stamps of packets rise strictly, as a muxer demands (the test of   *)
(* last_pts in read_packet()), although frames are returned one late.      *)
PtsRise ==
  [][\A p \in out' \ out : \A q \in out : p.pts > q.pts]_vars

(* No tick is left out: whenever a frame has been read whole, there is or  *)
(* will be a packet for the tick it is nearest to.                         *)
TicksServed ==
  phase # "closed" =>
    \A ts \in seen : Pts(ts) \in Served \/ Pts(ts) = pkt0.pts

Abs(a) == IF a < 0 THEN -a ELSE a
Distance(ts) == Abs(ts - Tick(Pts(ts)))

(* Of the frames read for a tick, at least one of them not after it, the   *)
(* nearest is returned.                                                    *)
NearestReturned ==
  \A p \in out, ts \in seen :
    Pts(ts) = p.pts /\ (\E e \in seen : Pts(e) = p.pts /\ Early(e))
      => Distance(p.ts) <= Distance(ts)

(* Every packet allocated is returned, freed or the one that is kept, on   *)
(* every path through read_packet(), and the state is well formed.         *)
NoPacketLeaked ==
  /\ TypeOK
  /\ packets = IF pkt0 = NoPacket THEN {} ELSE {pkt0.ts}

=============================================================================
