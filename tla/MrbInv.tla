------------------------------- MODULE MrbInv -------------------------------
(* An inductive invariant of the ring buffer, for as long as the sequence  *)
(* numbers have not wrapped.  The bookkeeping of the properties in Mrb,    *)
(* the contents of memory included, does not follow from those properties  *)
(* alone: what makes it inductive is the geometry of the live messages     *)
(* relative to the tail, measured in absolute positions, and what is known *)
(* of a reader's copy for as long as its message is live.                  *)
EXTENDS Mrb

(* No more messages than there are sequence numbers.                       *)
NoWrap == MaxMsgs + 1 < SeqRange

-----------------------------------------------------------------------------
(* The log and the pointers in the header                                  *)

LogInv ==
  /\ Len(log) <= MaxMsgs
  /\ \A n \in 1 .. Len(log) :
       /\ log[n].len \in 2 .. Size
       /\ log[n].pos + log[n].len <= TailPos
       /\ \A m \in 1 .. n : log[m].pos <= log[n].pos

HeadInv ==
  /\ tail.seq = Len(log) + 1
  /\ head.seq <= Len(log)
  /\ head.seq = 0 => head = Null
  /\ head.seq # 0 => head.off = log[head.seq].off

(* How far the message n begins before the tail.                           *)
Back(n) == TailPos - log[n].pos

(* Live messages lie within one turn of the ring behind the tail, and      *)
(* their offsets are their positions wrapped around once at most.          *)
WindowInv ==
  \A n \in Live :
    /\ Back(n) <= Size
    /\ log[n].off = IF Back(n) <= tail.off THEN tail.off - Back(n)
                                           ELSE tail.off - Back(n) + Size

-----------------------------------------------------------------------------
(* The writer                                                              *)

NextPtr == [seq |-> tail.seq + 1, off |-> Wrap(tail.off + frame.len)]

FrameInv ==
  frame.len # 0 =>
    /\ frame.len \in 2 .. Size
    /\ frame.fill < frame.len
    /\ tail.off + frame.len < Size \/ tail.off + frame.len < Size + MaxItem
    /\ Len(log) < MaxMsgs

ReservationInv ==
  Reserved => \A n \in Live : Back(n) + frame.len <= Size

(* By the place in the API the writer is in.                               *)
WriterInv ==
  /\ wpc \in {"walk", "link"} =>
       frame.len # 0 /\ frame.fill = 0 /\ next = NextPtr
  /\ wpc = "walk" =>
       \/ headp = Null /\ head = Null
       \/ /\ head # Null
          /\ headp.seq \in Floor .. tail.seq
          /\ headp.off = OffOf(headp.seq)
  /\ wpc = "client" /\ frame.len # 0 =>
       /\ wnext = NextPtr
       /\ mem[tail.off] = NextPtr
       /\ \A i \in 1 .. frame.fill :
            mem[Wrap(tail.off + i)] = Block(Len(log) + 1, i, frame.len)
  /\ wpc = "publish" =>
       /\ head = Null /\ Len(log) > 0 /\ frame.len = 0
       /\ headp = [seq |-> Len(log), off |-> log[Len(log)].off]
  /\ wpc \in {"done", "dead"} => frame.len = 0

-----------------------------------------------------------------------------
(* The readers                                                             *)

Checking(r, site) == rpc[r] \in {"check", "checktail"} /\ rsite[r] = site

(* The reader is at a message, not merely at a position.                   *)
AtMessage(r) == \/ rpc[r] \in {"header", "copy", "use", "link"}
                \/ rpc[r] \in {"check", "checktail"} /\ rsite[r] # "reveal"

PositionInv(r) ==
  /\ rnext[r].seq # 0 => rnext[r].seq <= tail.seq
                         /\ rnext[r].off = OffOf(rnext[r].seq)
  /\ AtMessage(r) => rnext[r].seq \in 1 .. Len(log)
  /\ rpc[r] = "checktail" => /\ 0 < rnext[r].seq
                             /\ rnext[r].seq < rhead[r].seq
                             /\ rhead[r].seq <= Floor

(* What has been copied is genuine as long as the message is live; what    *)
(* has been checked is genuine for good.                                   *)
CopyInv(r) ==
  LET n == rnext[r].seq
  IN  /\ Checking(r, "header") => Len(rcopy[r]) = 1
      /\ /\ Checking(r, "header") \/ Checking(r, "data") \/ rpc[r] = "copy"
         /\ n >= Floor
         => \A i \in 1 .. Len(rcopy[r]) :
              rcopy[r][i] = Block(n, i, log[n].len)
      /\ rpc[r] = "copy" \/ Checking(r, "data") =>
           /\ Len(rcopy[r]) \in 1 .. log[n].len - 1
           /\ rcopy[r][1] = Block(n, 1, log[n].len)
      /\ Checking(r, "data") => Len(rcopy[r]) = log[n].len - 1
      /\ rpc[r] = "use" => rcopy[r] = Message(n)
      /\ Checking(r, "release") /\ n >= Floor =>
           rlink[r] = [seq |-> n + 1, off |-> OffOf(n + 1)]

(* The reader has left its last message behind for good.                   *)
Past(r) == rlast[r] < Floor

OrderInv(r) ==
  LET n == rnext[r].seq
  IN  /\ rlast[r] <= Len(log)
      /\ n # 0 => rlast[r] <= n
      /\ n # 0 /\ rlast[r] = n =>
           rpc[r] \in {"link", "rehead"} \/ Checking(r, "release")
      /\ head.seq = 0 => Past(r) /\ (rpc[r] = "use" => n < Floor)
      /\ rpc[r] = "resync" => n = 0 \/ Past(r)
      /\ rpc[r] = "rehead" => Past(r)

-----------------------------------------------------------------------------

MemoryInv == /\ TypeOK /\ LogInv /\ HeadInv /\ WindowInv
             /\ FrameInv /\ ReservationInv /\ WriterInv /\ LiveIntact

IInv == /\ MemoryInv
        /\ \A r \in Readers : PositionInv(r) /\ CopyInv(r) /\ OrderInv(r)

-----------------------------------------------------------------------------
(* What the implementation of MonitoredLog needs besides: messages are of  *)
(* a size the client posts, and the buffer is active until it is shut down.*)

OfferedInv ==
  /\ frame.len # 0 => frame.len - 1 \in Payloads
  /\ \A n \in 1 .. Len(log) : log[n].len - 1 \in Payloads

OpenInv == wpc # "done" => active

RefInv == IInv /\ OfferedInv /\ OpenInv

=============================================================================
