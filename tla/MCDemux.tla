------------------------------ MODULE MCDemux -------------------------------
(* Model-checking instances of the choice of packets.                      *)
EXTENDS DemuxInv

ASSUME InstanceFits == TimesFit
=============================================================================
