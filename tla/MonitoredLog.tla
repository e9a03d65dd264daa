---------------------------- MODULE MonitoredLog ----------------------------
(* What the ring buffer promises, with no ring, no pointers and no copying *)
(* in it (mrb.h): the writer publishes messages in order and may forget    *)
(* the oldest ones at any time; a reader is handed whole published         *)
(* messages that have not been forgotten, each later than the one before,  *)
(* and may miss any number of them; after the writer has closed the log    *)
(* a reader may be told that it has ended.                                 *)
EXTENDS Integers, Sequences

CONSTANTS
  Messages,  (* what may be published                                     *)
  NoMessage, (* what a reader holds between two messages                  *)
  Readers

VARIABLES
  published, (* all messages, in order                                    *)
  floor,     (* number of the oldest message that can still be read       *)
  open,      (* the writer may go on                                      *)
  last,      (* number of the last message handed to each reader          *)
  held,      (* the message each reader is using                          *)
  ended      (* readers that have been told of the end                    *)

vars == <<published, floor, open, last, held, ended>>

Init ==
  /\ published = <<>>
  /\ floor = 1
  /\ open = TRUE
  /\ last = [r \in Readers |-> 0]
  /\ held = [r \in Readers |-> NoMessage]
  /\ ended = {}

Publish ==
  /\ open
  /\ \E m \in Messages : published' = Append(published, m)
  /\ UNCHANGED <<floor, open, last, held, ended>>

Forget ==
  /\ floor' \in floor .. Len(published) + 1
  /\ UNCHANGED <<published, open, last, held, ended>>

Close ==
  /\ open' = FALSE
  /\ UNCHANGED <<published, floor, last, held, ended>>

(* The reader gets message n, and n was still readable at this moment.     *)
Deliver(r) ==
  /\ held[r] = NoMessage
  /\ \E n \in floor .. Len(published) :
       /\ n > last[r]
       /\ last' = [last EXCEPT ![r] = n]
       /\ held' = [held EXCEPT ![r] = published[n]]
  /\ UNCHANGED <<published, floor, open, ended>>

Release(r) ==
  /\ held' = [held EXCEPT ![r] = NoMessage]
  /\ UNCHANGED <<published, floor, open, last, ended>>

Finish(r) ==
  /\ ~open
  /\ ended' = ended \cup {r}
  /\ UNCHANGED <<published, floor, open, last, held>>

Next ==
  \/ Publish \/ Forget \/ Close
  \/ \E r \in Readers : Deliver(r) \/ Release(r) \/ Finish(r)

Spec == Init /\ [][Next]_vars

=============================================================================
