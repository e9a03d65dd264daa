------------------------------ MODULE DemuxInv ------------------------------
(* An inductive invariant of the choice of packets: how the frame that is  *)
(* kept, the packets that were returned and the frames seen are related.   *)
EXTENDS Demux

(* 64 bits hold the times there are, and the ticks they round to.          *)
TimesFit ==
  \A ts \in 0 .. MaxTime : {ts, Tick(Pts(ts))} \subseteq 0 .. (Width - 1)

-----------------------------------------------------------------------------

SeenInv ==
  /\ \A s \in seen : s <= clock
  /\ \A p \in out : p.ts \in seen

(* The frame that is kept is of a tick that has not been served, and the   *)
(* last one of it.                                                         *)
KeptInv ==
  pkt0 # NoPacket =>
    /\ pkt0.ts \in seen
    /\ pkt0.pts > last_pts
    /\ \A s \in seen : Pts(s) = pkt0.pts => s <= pkt0.ts
    /\ ~Early(pkt0.ts) => \A s \in seen : Pts(s) = pkt0.pts => s = pkt0.ts

(* What is returned is of the last tick served or an earlier one, but for  *)
(* the packet that was left at the end.                                    *)
ServedInv ==
  /\ last_pts # -1 => last_pts \in Served
  /\ \A p \in out : p.pts <= last_pts \/ (phase # "open" /\ pkt0 = NoPacket)

ChoiceInv ==
  /\ NoPacketLeaked
  /\ SeenInv /\ KeptInv /\ ServedInv
  /\ TicksServed

-----------------------------------------------------------------------------

Contested(pts) == \E e \in seen : Pts(e) = pts /\ Early(e)

(* No frame that is still to come is nearer to the tick of p.              *)
Final(p) ==
  \/ phase # "open"
  \/ Pts(clock) > p.pts
  \/ /\ ~Early(clock) /\ Pts(clock) = p.pts
     /\ Contested(p.pts) => Distance(p.ts) <= Distance(clock)

(* No frame that was seen is.                                              *)
Nearest(p) ==
  \A s \in seen :
    Pts(s) = p.pts /\ Contested(p.pts) => Distance(p.ts) <= Distance(s)

NearestInv == \A p \in out : Nearest(p) /\ Final(p)

PacketInv == ChoiceInv /\ NearestInv

=============================================================================
