-------------------------------- MODULE Mrb --------------------------------
(***************************************************************************)
(* MRB, the monitored ring buffer that carries frames from the grabbed     *)
(* application to the encoder (mrb.h, mrb_int.h, mrb_write.c, mrb_read.c). *)
(* One writer posts messages into a ring of blocks in shared memory and    *)
(* overwrites the oldest ones; readers map the same memory read-only, copy *)
(* what they find and validate the copy afterwards with mrb_check().       *)
(*                                                                         *)
(* The unit of space is the 64-byte block (ALIGN): offsets, data_offset    *)
(* (one block) and sizes are all multiples of it.  A message takes one     *)
(* link block, whose first word points to the next message, and at least   *)
(* one payload block.  Payload block 1 is the header that tells the reader *)
(* how long the message is (struct glgrab_frame), the others are pixels.   *)
(*                                                                         *)
(* Locals are reset to Null where they go out of scope.  Operators named   *)
(* X_Variant are plausible mistakes in X, kept for mutation testing.       *)
(*                                                                         *)
(* Every store to and every load from the shared mapping is a step of its  *)
(* own, in program order.  The only stores come from the one writer, so    *)
(* on a total-store-order machine (x86) these interleavings are all there  *)
(* are.                                                                    *)
(***************************************************************************)
EXTENDS Integers, Sequences

CONSTANTS
  Size,      (* q->size in blocks                                         *)
  MaxItem,   (* q->max_item_size in blocks: the length of the mirror      *)
  SeqRange,  (* 2^seq_bits: a packed pointer keeps seq modulo this        *)
  Payloads,  (* payload sizes, in blocks, of the messages the client posts*)
  Readers,   (* the monitoring processes                                  *)
  MaxMsgs    (* bound: number of messages ever committed                  *)

ASSUME MrbAssumption ==
  /\ Size \in Nat \ {0}
  /\ MaxItem \in Nat
  /\ SeqRange \in Nat \ {0, 1}
  /\ Payloads \subseteq Nat \ {0}
  /\ MaxMsgs \in Nat

VARIABLES
  (* shared memory *)
  active,    (* header->active                                            *)
  head,      (* header->head: oldest message, or Null                     *)
  tail,      (* header->tail: where the next message goes                 *)
  mem,       (* the blocks of the ring                                    *)
  (* writer process *)
  wpc,       (* where the writer is inside the API, "client" outside it   *)
  wnext,     (* q->next: end of the reservation, seq 0 if there is none   *)
  next,      (* mrb_reserve(): the local next                             *)
  headp,     (* mrb_reserve(): the local headp; mrb_commit(): local head  *)
  frame,     (* the reservation the client is filling                     *)
  (* reader processes *)
  rpc,       (* where a reader is                                         *)
  rsite,     (* which of its four calls of mrb_check() a reader is in     *)
  rnext,     (* q->next of a reader                                       *)
  rhead,     (* mrb_check(): the local head                               *)
  rcopy,     (* payload blocks copied so far                              *)
  rlink,     (* mrb_release(): the word loaded from the link block        *)
  (* history variables, which no step reads *)
  log,       (* every message ever committed                              *)
  rlast      (* seq of the last message each reader has used              *)

shared  == <<active, head, tail, mem>>
writer  == <<wpc, wnext, next, headp, frame, log>>
readers == <<rpc, rsite, rnext, rhead, rcopy, rlink, rlast>>
vars    == <<shared, writer, readers>>

-----------------------------------------------------------------------------
(* Pointers and block contents                                             *)

Offsets == 0 .. Size - 1
Seqs    == 0 .. SeqRange - 1
Ptr     == [seq : Seqs, off : Offsets]
Null    == [seq |-> 0, off |-> 0]

(* mrb_item_pack() into a 64-bit word and back: seq loses its high bits.   *)
Pack(i) == [seq |-> i.seq % SeqRange, off |-> i.off]

(* mrb_item_unpack() of a loaded word.  A payload block read as a link     *)
(* yields whatever its bits happen to say.                                 *)
Unpack(cell) == IF cell \in Ptr THEN {cell} ELSE Ptr

(* The sequence number after s; 0 is skipped because it means "no item".   *)
SuccSeq(s) == IF (s + 1) % SeqRange = 0 THEN s + 2 ELSE s + 1

(* The mapping continues past the end of the ring with a second mapping of *)
(* its beginning, so an address beyond Size is the block at the beginning. *)
Wrap(o) == IF o >= Size THEN o - Size ELSE o

(* Payload block i of message number n, whose link and payload take len    *)
(* blocks: no two messages have a block in common.                         *)
Block(n, i, len) == [num |-> n, idx |-> i, len |-> len]

(* Number of payload blocks a reader expects after reading header cell m;  *)
(* only a genuine header says how many.                                    *)
Expected(m) == IF m \in Ptr \/ m.idx # 1 THEN 1 ELSE m.len - 1

NoFrame == [len |-> 0, fill |-> 0]

-----------------------------------------------------------------------------
(* mrb_create() has returned and every reader has opened the file.         *)

Init ==
  /\ active = TRUE
  /\ head   = Null
  /\ tail   = [seq |-> 1, off |-> 0]
  /\ mem    = [o \in Offsets |-> Null]
  /\ wpc    = "client"
  /\ wnext  = Null
  /\ next   = Null
  /\ headp  = Null
  /\ frame  = NoFrame
  /\ rpc    = [r \in Readers |-> "check"]
  /\ rsite  = [r \in Readers |-> "reveal"]
  /\ rnext  = [r \in Readers |-> Null]
  /\ rhead  = [r \in Readers |-> Null]
  /\ rcopy  = [r \in Readers |-> <<>>]
  /\ rlink  = [r \in Readers |-> Null]
  /\ log    = <<>>
  /\ rlast  = [r \in Readers |-> 0]

-----------------------------------------------------------------------------
(* Writer: mrb_reserve()                                                   *)

End(n) == tail.off + 1 + n

(* The message fits before the end of the ring, or its end fits into the   *)
(* mirror without running over its own beginning.                          *)
Accepts(n) == \/ End(n) < Size
              \/ /\ End(n) - Size < MaxItem
                 /\ End(n) - Size <= tail.off

Reserve(n) ==
  /\ wpc = "client"
  /\ Len(log) < MaxMsgs
  /\ Accepts(n)
  /\ next'  = [seq |-> SuccSeq(tail.seq), off |-> Wrap(End(n))]
  /\ headp' = head
  /\ frame' = [len |-> n + 1, fill |-> 0]
  /\ wpc'   = "walk"
  /\ UNCHANGED <<shared, readers, wnext, log>>

(* NULL is returned: the client has no buffer to fill any more.            *)
ReserveFails(n) ==
  /\ wpc = "client"
  /\ Len(log) < MaxMsgs
  /\ ~Accepts(n)
  /\ frame' = NoFrame
  /\ UNCHANGED <<shared, readers, wpc, wnext, next, headp, log>>

Clear_TouchesNext(h) == \/ /\ tail.off < next.off
                           /\ h.off < tail.off \/ next.off <= h.off + 1
                        \/ next.off <= h.off /\ h.off < tail.off

(* The message at h starts outside the space being reserved.               *)
Clear(h) == \/ /\ tail.off < next.off
               /\ h.off < tail.off \/ next.off <= h.off
            \/ next.off <= h.off /\ h.off < tail.off

(* The loop of mrb_reserve() goes on past the message at h.                *)
Reclaims(h) == h.seq # 0 /\ h.off # tail.off /\ ~Clear(h)

WalkOn_Stuck ==
  /\ wpc = "walk"
  /\ Reclaims(headp)
  /\ UNCHANGED vars

WalkOn ==
  /\ wpc = "walk"
  /\ Reclaims(headp)
  /\ headp' \in Unpack(mem[headp.off])
  /\ UNCHANGED <<shared, readers, wpc, wnext, next, frame, log>>

StoreHead_Skipped ==
  /\ wpc = "walk"
  /\ ~Reclaims(headp)
  /\ headp' = Null
  /\ wpc'   = "link"
  /\ UNCHANGED <<shared, readers, wnext, next, frame, log>>

(* The loop ends: readers learn that the messages before headp are gone    *)
(* before any block of theirs is touched.                                  *)
StoreHead ==
  /\ wpc = "walk"
  /\ ~Reclaims(headp)
  /\ head'  = IF headp.off = tail.off THEN Null ELSE headp
  /\ headp' = Null
  /\ wpc'   = "link"
  /\ UNCHANGED <<active, tail, mem, readers, wnext, next, frame, log>>

StoreLink ==
  /\ wpc = "link"
  /\ mem'   = [mem EXCEPT ![tail.off] = Pack(next)]
  /\ wnext' = next
  /\ next'  = Null
  /\ wpc'   = "client"
  /\ UNCHANGED <<active, head, tail, readers, headp, frame, log>>

-----------------------------------------------------------------------------
(* The client fills its reservation block by block, then mrb_commit().     *)

Fill ==
  /\ wpc = "client"
  /\ frame.fill + 1 < frame.len
  /\ mem' = [mem EXCEPT ![Wrap(End(frame.fill))] =
                 Block(Len(log) + 1, frame.fill + 1, frame.len)]
  /\ frame' = [frame EXCEPT !.fill = @ + 1]
  /\ UNCHANGED <<active, head, tail, readers, wpc, wnext, next, headp, log>>

(* Position of the tail counted in blocks since the buffer was created.    *)
TailPos == IF log = <<>> THEN 0 ELSE log[Len(log)].pos + log[Len(log)].len

Filled_HeaderOnly == frame.len > 0 /\ frame.fill > 0

Filled == frame.len > 0 /\ frame.fill + 1 = frame.len

(* What any commit does: the tail moves past the message.                  *)
StoreTail ==
  /\ wpc = "client"
  /\ wnext.seq # 0
  /\ Filled
  /\ tail' = Pack(wnext)
  /\ log'  = Append(log, [off |-> tail.off, pos |-> TailPos, len |-> frame.len])
  /\ frame' = NoFrame

(* The buffer holds older messages: head stays where it is.                *)
Commit ==
  /\ head # Null
  /\ StoreTail
  /\ wnext' = [wnext EXCEPT !.seq = 0]
  /\ UNCHANGED <<active, head, mem, readers, wpc, next, headp>>

(* The buffer is empty: the new message also becomes its head, after the   *)
(* tail has been stored.                                                   *)
CommitFirst ==
  /\ head = Null
  /\ StoreTail
  /\ headp' = tail
  /\ wpc'   = "publish"
  /\ UNCHANGED <<active, head, mem, readers, wnext, next>>

PublishHead ==
  /\ wpc = "publish"
  /\ head'  = headp
  /\ headp' = Null
  /\ wnext' = [wnext EXCEPT !.seq = 0]
  /\ wpc'   = "client"
  /\ UNCHANGED <<active, tail, mem, readers, next, frame, log>>

(* mrb_shutdown(): the mapping goes away together with any reservation.    *)
Shutdown ==
  /\ wpc = "client"
  /\ active' = FALSE
  /\ wnext'  = Null
  /\ frame'  = NoFrame
  /\ wpc'    = "done"
  /\ UNCHANGED <<head, tail, mem, readers, next, headp, log>>

(* The grabbed application dies at any point; the file stays as it is.     *)
Crash ==
  /\ wpc \notin {"done", "dead"}
  /\ frame' = NoFrame
  /\ wpc'   = "dead"
  /\ UNCHANGED <<shared, readers, wnext, next, headp, log>>

(* Steps inside one API call, which do not wait for anybody.               *)
WriterCall == WalkOn \/ StoreHead \/ StoreLink \/ PublishHead

WriterNext ==
  \/ \E n \in Payloads : Reserve(n) \/ ReserveFails(n)
  \/ WriterCall
  \/ Fill
  \/ Commit
  \/ CommitFirst
  \/ Shutdown
  \/ Crash

-----------------------------------------------------------------------------
(* Readers.  A reader runs the loop of read_packet() in avformat.c, which  *)
(* is the one documented in mrb.h: reveal, copy the header, check, copy    *)
(* the rest, check, release.                                               *)

Goto(r, pc) == rpc' = [rpc EXCEPT ![r] = pc]

CallCheck(r, site) ==
  /\ rpc'   = [rpc EXCEPT ![r] = "check"]
  /\ rsite' = [rsite EXCEPT ![r] = site]

(* What the caller does with the answer of mrb_check().                    *)

RevealContinues(r, ok) ==
  /\ rsite[r] = "reveal"
  /\ Goto(r, IF ok THEN "peek" ELSE "resync")
  /\ UNCHANGED <<rsite, rnext, rcopy, rlink>>

HeaderContinues(r, ok) ==
  /\ rsite[r] = "header"
  /\ Goto(r, IF ok THEN "copy" ELSE "link")
  /\ rcopy' = [rcopy EXCEPT ![r] = IF ok THEN @ ELSE <<>>]
  /\ UNCHANGED <<rsite, rnext, rlink>>

DataContinues(r, ok) ==
  /\ rsite[r] = "data"
  /\ Goto(r, IF ok THEN "use" ELSE "link")
  /\ rcopy' = [rcopy EXCEPT ![r] = IF ok THEN @ ELSE <<>>]
  /\ UNCHANGED <<rsite, rnext, rlink>>

ReleaseContinues_Unchecked(r, ok) ==
  /\ rsite[r] = "release"
  /\ \E p \in Unpack(rlink[r]) : rnext' = [rnext EXCEPT ![r] = p]
  /\ CallCheck(r, "reveal")
  /\ rlink' = [rlink EXCEPT ![r] = Null]
  /\ UNCHANGED rcopy

ReleaseContinues_NeverFollows(r, ok) ==
  /\ rsite[r] = "release"
  /\ Goto(r, "rehead")
  /\ rlink' = [rlink EXCEPT ![r] = Null]
  /\ UNCHANGED <<rsite, rnext, rcopy>>

ReleaseContinues(r, ok) ==
  /\ rsite[r] = "release"
  /\ \/ /\ ok
        /\ \E p \in Unpack(rlink[r]) : rnext' = [rnext EXCEPT ![r] = p]
        /\ CallCheck(r, "reveal")
     \/ /\ ~ok
        /\ Goto(r, "rehead")
        /\ UNCHANGED <<rsite, rnext>>
  /\ rlink' = [rlink EXCEPT ![r] = Null]
  /\ UNCHANGED rcopy

Continue(r, ok) ==
  /\ \/ RevealContinues(r, ok)
     \/ HeaderContinues(r, ok)
     \/ DataContinues(r, ok)
     \/ ReleaseContinues(r, ok)
  /\ UNCHANGED <<shared, writer, rlast>>

(* mrb_check(), the part up to the load of header->head.                   *)

CheckFails(r) ==
  /\ rpc[r] = "check"
  /\ rnext[r].seq = 0 \/ head.seq = 0
  /\ Continue(r, FALSE)
  /\ UNCHANGED rhead

CheckPasses_NextIsEnough(r) ==
  /\ rpc[r] = "check"
  /\ rnext[r].seq # 0 /\ head.seq # 0
  /\ rnext[r].seq + 1 >= head.seq
  /\ Continue(r, TRUE)
  /\ UNCHANGED rhead

CheckPasses(r) ==
  /\ rpc[r] = "check"
  /\ rnext[r].seq # 0 /\ head.seq # 0
  /\ rnext[r].seq >= head.seq
  /\ Continue(r, TRUE)
  /\ UNCHANGED rhead

(* The message is behind head, unless the numbers have wrapped: look at    *)
(* the tail as well.                                                       *)
CheckAsksTail(r) ==
  /\ rpc[r] = "check"
  /\ rnext[r].seq # 0 /\ head.seq # 0
  /\ rnext[r].seq < head.seq
  /\ rhead' = [rhead EXCEPT ![r] = head]
  /\ Goto(r, "checktail")
  /\ UNCHANGED <<shared, writer, rsite, rnext, rcopy, rlink, rlast>>

CheckTail(r) ==
  /\ rpc[r] = "checktail"
  /\ rhead' = [rhead EXCEPT ![r] = Null]
  /\ Continue(r, rnext[r].seq <= tail.seq /\ tail.seq < rhead[r].seq)

(* mrb_reveal() after a failed check: start at the tail if there was no    *)
(* position, at the head if the position has been lost.                    *)
Resync(r) ==
  /\ rpc[r] = "resync"
  /\ rnext' = [rnext EXCEPT ![r] = IF rnext[r].seq = 0 THEN tail ELSE head]
  /\ Goto(r, "peek")
  /\ UNCHANGED <<shared, writer, rsite, rhead, rcopy, rlink, rlast>>

AtTail_Never(r) == rnext[r].seq = 0

AtTail(r) == rnext[r].seq = 0 \/ rnext[r].seq = tail.seq

Peek(r) ==
  /\ rpc[r] = "peek"
  /\ Goto(r, IF AtTail(r) THEN "active" ELSE "header")
  /\ UNCHANGED <<shared, writer, rsite, rnext, rhead, rcopy, rlink, rlast>>

(* Nothing new: poll again, or report the end of the stream.               *)
LoadActive(r) ==
  /\ rpc[r] = "active"
  /\ IF active THEN CallCheck(r, "reveal")
               ELSE Goto(r, "eof") /\ UNCHANGED rsite
  /\ UNCHANGED <<shared, writer, rnext, rhead, rcopy, rlink, rlast>>

Load(r, i) == mem[Wrap(rnext[r].off + i)]

CopyHeader(r) ==
  /\ rpc[r] = "header"
  /\ rcopy' = [rcopy EXCEPT ![r] = <<Load(r, 1)>>]
  /\ CallCheck(r, "header")
  /\ UNCHANGED <<shared, writer, rnext, rhead, rlink, rlast>>

(* The header says this frame is not wanted (pts <= last_pts), or no       *)
(* stream or packet can be set up for it.                                  *)
Skip(r) ==
  /\ rpc[r] = "copy"
  /\ Len(rcopy[r]) = 1
  /\ rcopy' = [rcopy EXCEPT ![r] = <<>>]
  /\ Goto(r, "link")
  /\ UNCHANGED <<shared, writer, rsite, rnext, rhead, rlink, rlast>>

CopyBlock(r) ==
  /\ rpc[r] = "copy"
  /\ Len(rcopy[r]) < Expected(rcopy[r][1])
  /\ rcopy' = [rcopy EXCEPT ![r] = Append(@, Load(r, Len(@) + 1))]
  /\ UNCHANGED <<shared, writer, rpc, rsite, rnext, rhead, rlink, rlast>>

CopyDone_Unchecked(r) ==
  /\ rpc[r] = "copy"
  /\ Len(rcopy[r]) >= Expected(rcopy[r][1])
  /\ Goto(r, "use")
  /\ UNCHANGED <<shared, writer, rsite, rnext, rhead, rcopy, rlink, rlast>>

CopyDone(r) ==
  /\ rpc[r] = "copy"
  /\ Len(rcopy[r]) >= Expected(rcopy[r][1])
  /\ CallCheck(r, "data")
  /\ UNCHANGED <<shared, writer, rnext, rhead, rcopy, rlink, rlast>>

(* The copy has been validated and becomes a packet.                       *)
Use(r) ==
  /\ rpc[r] = "use"
  /\ rlast' = [rlast EXCEPT ![r] = rnext[r].seq]
  /\ rcopy' = [rcopy EXCEPT ![r] = <<>>]
  /\ Goto(r, "link")
  /\ UNCHANGED <<shared, writer, rsite, rnext, rhead, rlink>>

(* mrb_release(): load the link, check that it was still a link, follow it;*)
(* otherwise go to the oldest message.                                     *)
LoadLink(r) ==
  /\ rpc[r] = "link"
  /\ rlink' = [rlink EXCEPT ![r] = mem[rnext[r].off]]
  /\ CallCheck(r, "release")
  /\ UNCHANGED <<shared, writer, rnext, rhead, rcopy, rlast>>

Rehead(r) ==
  /\ rpc[r] = "rehead"
  /\ rnext' = [rnext EXCEPT ![r] = head]
  /\ CallCheck(r, "reveal")
  /\ UNCHANGED <<shared, writer, rhead, rcopy, rlink, rlast>>

ReaderNext(r) ==
  \/ CheckFails(r) \/ CheckPasses(r) \/ CheckAsksTail(r) \/ CheckTail(r)
  \/ Resync(r) \/ Peek(r) \/ LoadActive(r)
  \/ CopyHeader(r) \/ Skip(r) \/ CopyBlock(r) \/ CopyDone(r) \/ Use(r)
  \/ LoadLink(r) \/ Rehead(r)

-----------------------------------------------------------------------------
(* Both sides have stopped for good.                                       *)
Finished ==
  /\ wpc \in {"done", "dead"}
  /\ \A r \in Readers : rpc[r] = "eof"
  /\ UNCHANGED vars

Next == WriterNext \/ (\E r \in Readers : ReaderNext(r)) \/ Finished

Spec == Init /\ [][Next]_vars

(* A call of the writer API runs to its end, and a reader keeps polling.   *)
(* The client of the writer owes nobody another call.                      *)
Fairness ==
  /\ WF_vars(WriterCall)
  /\ \A r \in Readers : WF_vars(ReaderNext(r))

FairSpec == Spec /\ Fairness

-----------------------------------------------------------------------------
(* Properties                                                              *)

Cells == Ptr \cup [num : Nat, idx : Nat, len : Nat]

(* Every variable stays in its range.                                      *)
TypeOK ==
  /\ active \in BOOLEAN
  /\ head \in Ptr /\ tail \in Ptr
  /\ mem \in [Offsets -> Cells]
  /\ wpc \in {"client", "walk", "link", "publish", "done", "dead"}
  /\ wnext \in [seq : Nat, off : Offsets] /\ next \in [seq : Nat, off : Offsets]
  /\ headp \in Ptr
  /\ frame \in [len : Nat, fill : Nat]
  /\ rpc \in [Readers -> {"check", "checktail", "resync", "peek", "active",
                          "header", "copy", "use", "link", "rehead", "eof"}]
  /\ rsite \in [Readers -> {"reveal", "header", "data", "release"}]
  /\ rnext \in [Readers -> Ptr] /\ rhead \in [Readers -> Ptr]
  /\ rcopy \in [Readers -> Seq(Cells)]
  /\ rlink \in [Readers -> Cells]
  /\ log \in Seq([off : Offsets, pos : Nat, len : Nat])
  /\ rlast \in [Readers -> Seqs]

(* The oldest message a reader may still be told is valid.  While the new  *)
(* head has not been stored after the tail, the only message is in limbo.  *)
Floor == IF head.seq # 0 THEN head.seq
         ELSE IF wpc = "publish" THEN tail.seq - 1 ELSE tail.seq

Live == Floor .. Len(log)

OffOf(n) == IF n <= Len(log) THEN log[n].off ELSE tail.off

Span(off, len) == {Wrap(off + i) : i \in 0 .. len - 1}

Message(n) == [i \in 1 .. log[n].len - 1 |-> Block(n, i, log[n].len)]

(* The writer may be writing to the space after the tail.                  *)
Reserved == wpc = "link" \/ (wpc = "client" /\ frame.len > 0)

(* The space the writer may be writing to holds no block of a message that *)
(* mrb_check() still declares valid: mrb_reserve() has moved head past     *)
(* everything it overlaps, neither one message too few nor one block.      *)
ReservationDisjoint ==
  Reserved =>
    \A n \in Live : Span(log[n].off, log[n].len)
                      \cap Span(tail.off, frame.len) = {}

(* Every message from head to tail is intact in memory and linked to its   *)
(* successor, the last one to the tail, through every lap of the ring.     *)
LiveIntact ==
  \A n \in Live :
    /\ mem[log[n].off] = [seq |-> n + 1, off |-> OffOf(n + 1)]
    /\ \A i \in 1 .. log[n].len - 1 :
         mem[Wrap(log[n].off + i)] = Message(n)[i]

(* A reader's position is always one the writer has given out, never bits  *)
(* of a payload that has overwritten the link block it followed.           *)
PositionGenuine ==
  \A r \in Readers : \/ rnext[r].seq = 0
                     \/ /\ rnext[r].seq <= tail.seq
                        /\ rnext[r].off = OffOf(rnext[r].seq)

(* The size a reader copies with comes from the header of the message it   *)
(* is at, so it never runs over the end of the buffer.                     *)
HeaderSound ==
  \A r \in Readers :
    rpc[r] = "copy" => rcopy[r][1] = Message(rnext[r].seq)[1]

(* "The library provides method for checking consistency of gathered       *)
(* data" (mrb.h): a copy made block by block while the writer goes on is,  *)
(* if the checks around it pass, exactly one committed message.            *)
VerifiedCopyIntact ==
  \A r \in Readers :
    rpc[r] = "use" => \E n \in 1 .. Len(log) : rcopy[r] = Message(n)

(* The contiguous mapping ring + mirror covers every reservation, and no   *)
(* reservation meets its own beginning.                                    *)
MirrorCovers ==
  Reserved => frame.len <= Size /\ tail.off + frame.len <= Size + MaxItem

(* A reclaimed message never becomes valid again: what lets a reader rely  *)
(* on a single later check.                                                *)
FloorNeverFalls == [][Floor' >= Floor]_vars

(* A reader uses messages in the order they were committed, none twice,    *)
(* through lost positions and restarts from head or tail.                  *)
DeliveryInOrder ==
  [][\A r \in Readers : Use(r) => rnext[r].seq > rlast[r]]_vars

(* "Writer shan't be blocked (or any other way influenced) by a slow       *)
(* reader" (mrb.h): the walk over old messages ends, whatever readers do.  *)
ReserveReturns == wpc = "walk" ~> wpc \in {"client", "dead"}

(* After mrb_shutdown() every polling reader reaches the end of the stream.*)
ShutdownSeen == ~active ~> \A r \in Readers : rpc[r] = "eof"

(* After the application has died without mrb_shutdown() a reader still    *)
(* drains the buffer instead of circling in it.                            *)
DeadWriterDrained ==
  wpc = "dead" ~> \A r \in Readers : rnext[r].seq = 0 \/ rnext[r].seq = tail.seq

=============================================================================
