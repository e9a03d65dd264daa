SPECIFICATION Spec
CONSTANTS
  Num = 7
  Den = 2
  Width = 1024
  MaxTime = 13
INVARIANTS
  TicksServed
  
  NoPacketLeaked
 
\* The inductive invariant of DemuxProof, to be checked in place of the properties:
\* INVARIANT PacketInv
