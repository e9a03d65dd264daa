----------------------------- MODULE MrbRefines -----------------------------
(* The ring buffer implements the monitored log.  A message is published   *)
(* by the store of the tail, forgotten by the store of the head, and       *)
(* handed to a reader by the loads of the mrb_check() that validates its   *)
(* copy.                                                                   *)
EXTENDS Mrb

Postable  == {[i \in 1 .. n |-> Block(k, i, n + 1)] :
                n \in Payloads, k \in 1 .. MaxMsgs}
Published == [n \in 1 .. Len(log) |-> Message(n)]
LastUsed  == [r \in Readers |-> IF rpc[r] = "use" THEN rnext[r].seq ELSE rlast[r]]
InUse     == [r \in Readers |-> IF rpc[r] = "use" THEN rcopy[r] ELSE <<>>]
Ended     == {r \in Readers : rpc[r] = "eof"}

Log == INSTANCE MonitoredLog WITH
  Messages  <- Postable,
  NoMessage <- <<>>,
  published <- Published,
  floor     <- Floor,
  open      <- active,
  last      <- LastUsed,
  held      <- InUse,
  ended     <- Ended

(* Whatever the interleaving, a reader that follows the protocol of mrb.h  *)
(* sees nothing but whole messages, in order, while they were readable,    *)
(* and never the end of the stream before mrb_shutdown().                  *)
RefinesLog == Log!Spec

=============================================================================
