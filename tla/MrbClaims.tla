----------------------------- MODULE MrbClaims ------------------------------
(* Sentences of mrb.h that the code does not live up to.                   *)
EXTENDS Mrb

(* "If that pointer is NULL then buffer is terminated and new messages     *)
(* will never appear" (mrb.h, mrb_reveal()): a reader told of the end has  *)
(* seen the position of the last message.                                  *)
EofMeansDrained ==
  \A r \in Readers : rpc[r] = "eof" => rnext[r].seq \in {0, tail.seq}

(* "Any old messages occupying or overlapping reserved space are           *)
(* reclaimed" (mrb.h, mrb_reserve()), and no others.                       *)
ReclaimsOnlyOverlapping ==
  [][StoreHead => \A n \in Floor .. Floor' - 1 :
       Span(log[n].off, log[n].len) \cap Span(tail.off, frame.len) # {}]_vars

(* "You may not assume that data read from message buffer is consistent    *)
(* unless you verify it after reading" (mrb.h, mrb_check()): verified data *)
(* is one message, even if the numbers wrap between the copy of the header *)
(* and the check, as long as few messages are committed in between.        *)
VerifiedIsConsistent ==
  \A r \in Readers :
    /\ rpc[r] = "use"
    /\ rcopy[r][1] \notin Ptr /\ rcopy[r][1].num = rnext[r].seq
    /\ Len(log) - rcopy[r][1].num < SeqRange \div 2
    => \E n \in 1 .. Len(log) : rcopy[r] = Message(n)

=============================================================================
