------------------------------ MODULE MrbProof ------------------------------
(* Proofs about the ring buffer, for any size of the ring and the mirror,  *)
(* any payload sizes and any number of readers, as long as the sequence    *)
(* numbers have not wrapped: IInv is inductive, and what follows from it,  *)
(* that the ring implements the monitored log included.                    *)
EXTENDS MrbInv, MrbRefines, SequenceTheorems, TLAPS

LEMMA ModSmall ==
  ASSUME MrbAssumption, NEW x \in Nat, x < SeqRange
  PROVE  x % SeqRange = x
  BY DEF MrbAssumption

LEMMA ModRange ==
  ASSUME MrbAssumption, NEW x \in Nat
  PROVE  x % SeqRange \in Seqs
  BY DEF MrbAssumption, Seqs

-----------------------------------------------------------------------------
(* Geometry                                                                *)

(* Addresses are folded back into the ring.                                *)
LEMMA WrapOffset ==
  ASSUME MrbAssumption, NEW o \in Nat, o < Size + Size
  PROVE  /\ Wrap(o) \in Offsets
         /\ o < Size => Wrap(o) = o
         /\ o >= Size => Wrap(o) = o - Size
  BY DEF MrbAssumption, Wrap, Offsets

(* A block of a live message and a block of a reservation that ends within *)
(* one turn from the beginning of the message are different blocks.        *)
LEMMA BlocksDiffer ==
  ASSUME MrbAssumption, NEW t \in Offsets, NEW back \in Nat, NEW off \in Offsets,
         off = IF back <= t THEN t - back ELSE t - back + Size,
         NEW i \in Nat, i < back,
         NEW j \in Nat, back + j < Size
  PROVE  Wrap(off + i) # Wrap(t + j)
  BY DEF MrbAssumption, Wrap, Offsets

(* The tail moves by len: where the live messages are, seen from there.    *)
LEMMA TailMoves ==
  ASSUME MrbAssumption, NEW t \in Offsets, NEW back \in Nat, NEW len \in Nat,
         back + len <= Size
  PROVE  LET u == Wrap(t + len)
         IN  /\ u \in Offsets
             /\ (IF back <= t THEN t - back ELSE t - back + Size) =
                (IF back + len <= u THEN u - (back + len)
                                    ELSE u - (back + len) + Size)
  BY DEF MrbAssumption, Wrap, Offsets

-----------------------------------------------------------------------------
(* Steps of the writer                                                     *)

LEMMA LogTyped ==
  ASSUME TypeOK
  PROVE  /\ Len(log) \in Nat
         /\ \A n \in 1 .. Len(log) :
              log[n].off \in Offsets /\ log[n].pos \in Nat /\ log[n].len \in Nat
         /\ TailPos \in Nat
         /\ tail.off \in Offsets
  <1> DEFINE Entry == [off : Offsets, pos : Nat, len : Nat]
  <1>1. log \in Seq(Entry) /\ tail \in Ptr
    BY DEF TypeOK
  <1>2. Len(log) \in Nat /\ \A n \in 1 .. Len(log) : log[n] \in Entry
    <2> HIDE DEF Entry
    <2> QED BY <1>1, ElementOfSeq, LenProperties
  <1>3. log # <<>> => Len(log) \in 1 .. Len(log)
    BY <1>1, <1>2, EmptySeq
  <1> QED BY <1>1, <1>2, <1>3 DEF TailPos, Ptr

LEMMA NullTyped == Null \in Ptr
  BY MrbAssumption DEF MrbAssumption, Null, Ptr, Seqs, Offsets

LEMMA FloorRange ==
  ASSUME TypeOK, HeadInv, WriterInv
  PROVE  Floor \in 1 .. Len(log) + 1
  BY DEF TypeOK, Ptr, Seqs, HeadInv, WriterInv, Floor

(* Nothing happens to the messages that stay live.                         *)
LEMMA LiveShrinks ==
  ASSUME MemoryInv, UNCHANGED <<tail, mem, log>>, Floor \in Int, Floor' \in Int,
         Floor <= Floor'
  PROVE  LogInv' /\ WindowInv' /\ LiveIntact'
  <1>1. LogInv'
    BY DEF MemoryInv, LogInv, TailPos
  <1>2. Live' \subseteq Live
    BY DEF MemoryInv, TypeOK, Live
  <1>3. WindowInv'
    BY <1>2 DEF MemoryInv, TailPos, WindowInv, Back
  <1>4. LiveIntact'
    <2>1. \A n : Message(n)' = Message(n) /\ OffOf(n)' = OffOf(n)
      BY DEF Message, OffOf
    <2> QED BY <1>2, <2>1 DEF MemoryInv, LiveIntact
  <1> QED BY <1>1, <1>3, <1>4

(* What a reader may rely on while the writer goes on.                     *)
Advance ==
  /\ Len(log) <= Len(log')
  /\ \A n \in 1 .. Len(log) : log'[n] = log[n]
  /\ tail.seq <= tail'.seq
  /\ \A n \in 1 .. tail.seq : OffOf(n)' = OffOf(n)
  /\ Floor <= Floor'
  /\ head'.seq = 0 => head.seq = 0 \/ Len(log) < Floor'

Progress == Advance /\ UNCHANGED readers

LEMMA ReserveInv ==
  ASSUME NoWrap, MemoryInv, NEW n \in Payloads, Reserve(n)
  PROVE  MemoryInv' /\ Progress
  <1> USE MrbAssumption
  <1>1. TypeOK /\ HeadInv /\ WriterInv /\ LogInv
    BY DEF MemoryInv
  <1>2. Floor' = Floor /\ Floor \in Int
    BY <1>1, FloorRange DEF Reserve, shared, Floor
  <1>3. LogInv' /\ WindowInv' /\ LiveIntact'
    BY <1>2, LiveShrinks DEF Reserve, shared
  <1>4. HeadInv'
    BY <1>1 DEF Reserve, shared, HeadInv
  <1>5. /\ n \in Nat \ {0} /\ tail.off \in 0 .. Size - 1
        /\ End(n) = tail.off + n + 1
        /\ n + 1 <= Size
    <2>1. n \in Nat \ {0}
      BY DEF MrbAssumption
    <2>2. tail.off \in 0 .. Size - 1
      BY <1>1, LogTyped DEF Offsets
    <2>3. End(n) = tail.off + n + 1
      BY <2>1, <2>2 DEF End, MrbAssumption
    <2>4. \/ tail.off + n + 1 < Size
          \/ tail.off + n + 1 - Size <= tail.off
      <3>1. End(n) < Size \/ End(n) - Size <= tail.off
        BY DEF Reserve, Accepts
      <3> QED BY <2>1, <2>2, <2>3, <3>1 DEF MrbAssumption
    <2> QED BY <2>1, <2>2, <2>3, <2>4 DEF MrbAssumption
  <1>6. SuccSeq(tail.seq) = tail.seq + 1 /\ tail.seq \in Nat
    <2>1. tail.seq + 1 \in Nat /\ tail.seq + 1 < SeqRange /\ tail.seq + 1 # 0
      <3>1. Len(log) \in Nat /\ Len(log) < MaxMsgs /\ tail.seq = Len(log) + 1
        BY <1>1, LogTyped DEF Reserve, HeadInv
      <3> QED BY <3>1 DEF NoWrap, MrbAssumption
    <2>2. (tail.seq + 1) % SeqRange = tail.seq + 1
      BY <2>1, ModSmall
    <2>3. tail.seq \in Nat
      BY <1>1 DEF TypeOK, Ptr, Seqs
    <2> QED BY <2>1, <2>2, <2>3 DEF SuccSeq
  <1>7. Wrap(End(n)) \in Offsets
    BY <1>5, WrapOffset DEF Offsets
  <1>8. TypeOK'
    BY <1>1, <1>5, <1>6, <1>7 DEF Reserve, TypeOK, shared, readers, Ptr
  <1>9. FrameInv'
    BY <1>1, <1>5 DEF Reserve, FrameInv, shared, Accepts
  <1>10. ReservationInv'
    BY DEF Reserve, ReservationInv, Reserved
  <1>11. WriterInv'
    BY <1>1, <1>2, <1>5, <1>6 DEF Reserve, WriterInv, shared, NextPtr, HeadInv, Floor,
       OffOf, TypeOK, Ptr, Null
  <1>12. Progress
    BY <1>1, <1>2 DEF Progress, Advance, Reserve, shared, OffOf, HeadInv, TypeOK, Ptr, Seqs
  <1> QED
    BY <1>3, <1>4, <1>8, <1>9, <1>10, <1>11, <1>12 DEF MemoryInv

LEMMA OffsetTyped ==
  ASSUME TypeOK, NEW n \in Nat \ {0}
  PROVE  OffOf(n) \in Offsets
  BY LogTyped DEF OffOf, TypeOK, Ptr

(* The steps that leave the buffer alone.                                  *)
LEMMA IdleInv ==
  ASSUME MemoryInv,
         \/ \E n \in Payloads : ReserveFails(n)
         \/ Crash
  PROVE  MemoryInv' /\ Progress
  <1> USE MrbAssumption
  <1>1. TypeOK /\ HeadInv /\ WriterInv /\ LogInv /\ FrameInv
    BY DEF MemoryInv
  <1>2. /\ UNCHANGED <<head, tail, mem, log, readers>>
        /\ frame' = NoFrame
    BY DEF ReserveFails, Crash, shared
  <1>3. Floor' \in Int /\ Floor \in Int /\ Floor <= Floor'
    BY <1>1, <1>2, FloorRange DEF ReserveFails, Crash, Floor, HeadInv, TypeOK, WriterInv
  <1>4. LogInv' /\ WindowInv' /\ LiveIntact'
    BY <1>2, <1>3, LiveShrinks
  <1>5. HeadInv' /\ FrameInv' /\ ReservationInv'
    BY <1>1, <1>2 DEF HeadInv, FrameInv, ReservationInv, Reserved, NoFrame,
       ReserveFails, Crash
  <1>6. TypeOK'
    BY <1>1, <1>2 DEF TypeOK, ReserveFails, Crash, shared, readers, NoFrame
  <1>7. WriterInv'
    BY <1>1, <1>2 DEF ReserveFails, Crash, WriterInv, NoFrame
  <1>8. Progress
    BY <1>1, <1>2, <1>3 DEF Progress, Advance, OffOf, TypeOK, Ptr, Seqs, HeadInv
  <1> QED
    BY <1>4, <1>5, <1>6, <1>7, <1>8 DEF MemoryInv

(* The message the walk has come to, if it is not the tail.                *)
LEMMA WalkAt ==
  ASSUME MemoryInv, wpc = "walk", headp.seq # 0, headp.off # tail.off
  PROVE  /\ head # Null
         /\ headp.seq \in Live
         /\ headp.off = log[headp.seq].off
  BY DEF MemoryInv, WriterInv, HeadInv, TypeOK, Ptr, Seqs, Null, OffOf, Live, Floor

LEMMA WalkInv ==
  ASSUME NoWrap, MemoryInv, WalkOn
  PROVE  MemoryInv' /\ Progress
  <1> USE MrbAssumption
  <1>1. TypeOK /\ HeadInv /\ WriterInv /\ LogInv /\ FrameInv /\ LiveIntact
    BY DEF MemoryInv
  <1>2. /\ UNCHANGED <<shared, log, readers, wpc, wnext, next, frame>>
        /\ wpc = "walk"
    BY DEF WalkOn
  <1>3. Floor' = Floor /\ Floor \in 1 .. Len(log) + 1
    BY <1>1, <1>2, FloorRange DEF Floor, shared
  <1>4. LogInv' /\ WindowInv' /\ LiveIntact'
    BY <1>2, <1>3, LiveShrinks DEF shared
  <1> DEFINE n == headp.seq
  <1>5. head # Null /\ n \in Live /\ headp.off = log[n].off
    BY WalkAt DEF WalkOn, Reclaims
  <1>6. n \in 1 .. Len(log)
    BY <1>1, <1>3, <1>5 DEF Live, TypeOK, Ptr, Seqs
  <1>7. mem[headp.off] = [seq |-> n + 1, off |-> OffOf(n + 1)]
    BY <1>1, <1>5 DEF LiveIntact
  <1>8. [seq |-> n + 1, off |-> OffOf(n + 1)] \in Ptr
    <2>1. n + 1 \in Seqs
      BY <1>1, <1>6 DEF LogInv, NoWrap, Seqs, MrbAssumption
    <2>2. OffOf(n + 1) \in Offsets
      BY <1>1, <1>6, OffsetTyped
    <2> QED BY <2>1, <2>2 DEF Ptr
  <1>9. headp' = [seq |-> n + 1, off |-> OffOf(n + 1)]
    BY <1>7, <1>8 DEF WalkOn, Unpack
  <1>10. TypeOK'
    BY <1>1, <1>2, <1>8, <1>9 DEF TypeOK, shared, readers
  <1>11. HeadInv' /\ FrameInv' /\ ReservationInv'
    BY <1>1, <1>2 DEF HeadInv, FrameInv, ReservationInv, Reserved, shared
  <1>12. WriterInv'
    BY <1>1, <1>2, <1>3, <1>5, <1>6, <1>9 DEF WriterInv, NextPtr, shared, OffOf,
       HeadInv, Live
  <1>13. Progress
    BY <1>1, <1>2, <1>3 DEF Progress, Advance, OffOf, TypeOK, Ptr, Seqs, HeadInv, shared
  <1> QED
    BY <1>4, <1>10, <1>11, <1>12, <1>13 DEF MemoryInv

(* The new head leaves room for the reservation, and readers hear of it    *)
(* before anything is written.                                             *)
LEMMA StoreHeadInv ==
  ASSUME NoWrap, MemoryInv, StoreHead
  PROVE  MemoryInv' /\ Progress
  <1> USE MrbAssumption
  <1>1. TypeOK /\ HeadInv /\ WriterInv /\ LogInv /\ FrameInv /\ WindowInv
    BY DEF MemoryInv
  <1>2. /\ UNCHANGED <<active, tail, mem, log, readers, wnext, next, frame>>
        /\ wpc = "walk" /\ wpc' = "link" /\ headp' = Null
    BY DEF StoreHead
  <1>3. Floor \in 1 .. Len(log) + 1 /\ tail.seq = Len(log) + 1
    BY <1>1, FloorRange DEF HeadInv
  <1>4. frame.len \in 1 .. Size /\ next = NextPtr
    BY <1>1, <1>2 DEF WriterInv, FrameInv, TypeOK
  <1> DEFINE Moved == /\ Floor' \in Floor .. Len(log) + 1
                      /\ HeadInv' /\ ReservationInv' /\ TypeOK'
                      /\ head'.seq = 0 => Len(log) < Floor'
  <1>5. ASSUME headp.seq = 0 \/ headp.off = tail.off PROVE Moved
    <2>1. head' = Null
      BY <1>1, <1>2, <1>3, <1>5 DEF StoreHead, WriterInv, Null
    <2>2. Floor' = Len(log) + 1
      BY <1>2, <1>3, <2>1 DEF Floor, Null
    <2>3. HeadInv' /\ ReservationInv'
      BY <1>1, <1>2, <2>1, <2>2, LogTyped DEF HeadInv, ReservationInv, Live, Null
    <2>4. TypeOK'
      BY <1>1, <1>2, <2>1, NullTyped DEF TypeOK, readers
    <2> QED
      BY <1>3, <2>2, <2>3, <2>4, LogTyped, <1>1
  <1>6. ASSUME headp.seq # 0 /\ headp.off # tail.off PROVE Moved
    <2> DEFINE n == headp.seq
    <2>1. head' = headp /\ Clear(headp)
      BY <1>6 DEF StoreHead, Reclaims
    <2>2. n \in Live /\ headp.off = log[n].off
      BY <1>2, <1>6, WalkAt
    <2>3. n \in Floor .. Len(log) /\ n \in 1 .. Len(log)
      BY <1>1, <1>3, <2>2, LogTyped DEF Live
    <2>4. Floor' = n
      BY <1>6, <2>1 DEF Floor
    <2>5. Back(n) + frame.len <= Size
      <3>1. /\ Back(n) \in 1 .. Size
            /\ headp.off = IF Back(n) <= tail.off THEN tail.off - Back(n)
                                     ELSE tail.off - Back(n) + Size
        <4>1. Back(n) <= Size /\ Back(n) = TailPos - log[n].pos
          BY <1>1, <2>2 DEF WindowInv, Back
        <4>2. log[n].pos + 2 <= TailPos
          <5>1. log[n].len \in 2 .. Size /\ log[n].pos + log[n].len <= TailPos
            BY <1>1, <2>3 DEF LogInv
          <5>2. log[n].pos \in Nat /\ TailPos \in Nat
            BY <1>1, <2>3, LogTyped
          <5> QED BY <5>1, <5>2 DEF MrbAssumption
        <4> QED BY <1>1, <2>2, <2>3, <4>1, <4>2, LogTyped DEF WindowInv
      <3>2. headp.off \in Offsets /\ tail.off \in Offsets
        BY <1>1 DEF TypeOK, Ptr
      <3>3. Back(n) \in 1 .. Size - 1
        BY <1>6, <3>1, <3>2 DEF Offsets
      <3>4. next.off = Wrap(tail.off + frame.len)
        BY <1>4 DEF NextPtr
      <3>5. \/ /\ tail.off < next.off
               /\ headp.off < tail.off \/ next.off <= headp.off
            \/ next.off <= headp.off /\ headp.off < tail.off
        BY <2>1 DEF Clear
      <3>6. frame.len \in 1 .. Size
        BY <1>4
      <3> QED
        <4> DEFINE b == Back(n)
                   h == headp.off
                   t == tail.off
                   u == next.off
                   l == frame.len
        <4>1. /\ b \in 1 .. Size - 1 /\ h \in 0 .. Size - 1 /\ t \in 0 .. Size - 1
              /\ l \in 1 .. Size
              /\ h = IF b <= t THEN t - b ELSE t - b + Size
              /\ u = Wrap(t + l)
              /\ (t < u /\ (h < t \/ u <= h)) \/ (u <= h /\ h < t)
          BY <3>1, <3>2, <3>3, <3>4, <3>5, <3>6 DEF Offsets
        <4> HIDE DEF b, h, t, u, l
        <4>2. b + l <= Size
          BY <4>1 DEF Wrap, MrbAssumption
        <4> QED BY <4>2 DEF b, l
    <2>6. \A m \in n .. Len(log) : Back(m) + frame.len <= Size
      <3> TAKE m \in n .. Len(log)
      <3>1. m \in 1 .. Len(log) /\ n \in 1 .. m
        BY <1>1, <2>3, LogTyped
      <3>2. log[n].pos <= log[m].pos
        BY <1>1, <3>1 DEF LogInv
      <3> QED
        <4>1. /\ log[n].pos \in Nat /\ log[m].pos \in Nat /\ TailPos \in Nat
              /\ frame.len \in Nat /\ Size \in Nat
          <5>1. log[n].pos \in Nat /\ log[m].pos \in Nat /\ TailPos \in Nat
            BY <1>1, <2>3, <3>1, LogTyped
          <5>2. Size \in Nat
            BY DEF MrbAssumption
          <5>3. frame.len \in 1 .. Size
            BY <1>4
          <5>4. frame.len \in Nat
            BY <5>2, <5>3
          <5> QED BY <5>1, <5>2, <5>4
        <4>2. \A a, b, t, l, s \in Nat :
                a <= b /\ t - a + l <= s => t - b + l <= s
          OBVIOUS
        <4>3. TailPos - log[n].pos + frame.len <= Size
          BY <2>5 DEF Back
        <4>4. TailPos - log[m].pos + frame.len <= Size
          BY <3>2, <4>1, <4>2, <4>3
        <4> QED BY <4>4 DEF Back
    <2>7. HeadInv'
      BY <1>1, <1>2, <2>1, <2>2, <2>3, LogTyped DEF HeadInv
    <2>8. ReservationInv'
      BY <1>2, <2>4, <2>6 DEF ReservationInv, Live, Back, TailPos
    <2>9. TypeOK'
      BY <1>1, <1>2, <2>1, NullTyped DEF TypeOK, readers
    <2> QED
      BY <1>1, <1>6, <2>1, <2>3, <2>4, <2>7, <2>8, <2>9, LogTyped
  <1>7. Moved
    BY <1>5, <1>6
  <1>8. LogInv' /\ WindowInv' /\ LiveIntact'
    BY <1>2, <1>3, <1>7, LiveShrinks
  <1>9. FrameInv' /\ WriterInv'
    BY <1>1, <1>2, <1>4 DEF FrameInv, WriterInv, NextPtr
  <1>10. Progress
    BY <1>1, <1>2, <1>3, <1>7 DEF Progress, Advance, OffOf, TypeOK, Ptr, Seqs
  <1> QED
    BY <1>7, <1>8, <1>9, <1>10 DEF MemoryInv

(* Writing to the reservation leaves the live messages as they are.        *)
LEMMA WriteElsewhere ==
  ASSUME MemoryInv, Reserved, NEW j \in Nat, j < frame.len, NEW c,
         mem' = [mem EXCEPT ![Wrap(tail.off + j)] = c],
         UNCHANGED <<tail, log>>, Floor' = Floor
  PROVE  LogInv' /\ WindowInv' /\ LiveIntact'
  <1> USE MrbAssumption
  <1>1. TypeOK /\ LogInv /\ HeadInv /\ WriterInv
    BY DEF MemoryInv
  <1>2. LogInv' /\ WindowInv' /\ Live' = Live
    BY DEF MemoryInv, LogInv, TailPos, WindowInv, Live, Back
  <1>3. ASSUME NEW n \in Live, NEW i \in Nat, i < log[n].len
        PROVE  mem'[Wrap(log[n].off + i)] = mem[Wrap(log[n].off + i)]
    <2>1. n \in 1 .. Len(log)
      BY <1>1, FloorRange, LogTyped DEF Live
    <2> DEFINE b == Back(n)
               o == log[n].off
               t == tail.off
    <2>2. o \in Offsets /\ t \in Offsets /\ log[n].len \in Nat /\ log[n].pos \in Nat
          /\ frame.len \in Nat
      BY <1>1, <2>1, LogTyped DEF TypeOK
    <2>3. log[n].pos + log[n].len <= TailPos
      BY <1>1, <2>1 DEF LogInv
    <2>4. b \in Nat /\ i < b
      <3>1. TailPos \in Nat
        BY <1>1, LogTyped
      <3> QED BY <1>3, <2>2, <2>3, <3>1 DEF Back
    <2>5. b + frame.len <= Size
      BY DEF MemoryInv, ReservationInv
    <2>6. b + j < Size
      BY <2>2, <2>4, <2>5, LogTyped DEF MrbAssumption
    <2>7. o = IF b <= t THEN t - b ELSE t - b + Size
      BY DEF MemoryInv, WindowInv
    <2> HIDE DEF b, o, t
    <2>8. Wrap(o + i) # Wrap(t + j)
      BY <2>2, <2>4, <2>6, <2>7, BlocksDiffer
    <2> QED BY <2>8 DEF o, t
  <1>4. ASSUME NEW n \in Live PROVE log[n].off = Wrap(log[n].off + 0) /\ 0 < log[n].len
    <2>1. n \in 1 .. Len(log)
      BY <1>1, FloorRange, LogTyped DEF Live
    <2> QED BY <1>1, <2>1, LogTyped DEF LogInv, Wrap, Offsets
  <1>5. LiveIntact'
    <2> SUFFICES ASSUME NEW n \in Live
                 PROVE  /\ mem'[log[n].off] = [seq |-> n + 1, off |-> OffOf(n + 1)]
                        /\ \A i \in 1 .. log[n].len - 1 :
                             mem'[Wrap(log[n].off + i)] = Message(n)[i]
      BY <1>2 DEF LiveIntact, OffOf, Message
    <2>1. mem'[log[n].off] = mem[log[n].off]
      BY <1>3, <1>4
    <2>2. \A i \in 1 .. log[n].len - 1 :
             mem'[Wrap(log[n].off + i)] = mem[Wrap(log[n].off + i)]
      <3>1. n \in 1 .. Len(log)
        BY <1>1, FloorRange, LogTyped DEF Live
      <3>2. log[n].len \in Nat
        BY <1>1, <3>1, LogTyped
      <3>3. \A i \in 1 .. log[n].len - 1 : i \in Nat /\ i < log[n].len
        BY <3>2
      <3> QED BY <1>3, <3>3
    <2> QED BY <2>1, <2>2 DEF MemoryInv, LiveIntact
  <1> QED BY <1>2, <1>5

LEMMA NextPtrTyped ==
  ASSUME NoWrap, MemoryInv, frame.len # 0
  PROVE  NextPtr \in Ptr /\ Pack(NextPtr) = NextPtr
  <1> USE MrbAssumption
  <1>1. TypeOK /\ HeadInv /\ FrameInv
    BY DEF MemoryInv
  <1>2. tail.seq + 1 \in Nat /\ tail.seq + 1 < SeqRange
    BY <1>1, LogTyped DEF HeadInv, FrameInv, NoWrap, MrbAssumption
  <1>3. tail.off + frame.len \in Nat /\ tail.off + frame.len < Size + Size
    BY <1>1, LogTyped DEF FrameInv, Offsets, MrbAssumption
  <1>4. Wrap(tail.off + frame.len) \in Offsets
    BY <1>3, WrapOffset
  <1>5. tail.seq + 1 \in Seqs /\ (tail.seq + 1) % SeqRange = tail.seq + 1
    BY <1>2, ModSmall DEF Seqs, MrbAssumption
  <1> QED BY <1>4, <1>5 DEF NextPtr, Ptr, Pack

LEMMA StoreLinkInv ==
  ASSUME NoWrap, MemoryInv, StoreLink
  PROVE  MemoryInv' /\ Progress
  <1> USE MrbAssumption
  <1>1. TypeOK /\ HeadInv /\ WriterInv /\ LogInv /\ FrameInv /\ ReservationInv
    BY DEF MemoryInv
  <1>2. /\ UNCHANGED <<active, head, tail, log, readers, headp, frame>>
        /\ wpc = "link" /\ wpc' = "client"
        /\ frame.len \in Nat \ {0} /\ frame.fill = 0 /\ next = NextPtr
    BY <1>1 DEF StoreLink, WriterInv, TypeOK
  <1>3. NextPtr \in Ptr /\ Pack(NextPtr) = NextPtr
    BY <1>2, NextPtrTyped
  <1>4. Wrap(tail.off + 0) = tail.off /\ tail.off \in Offsets
    BY <1>1, LogTyped DEF Wrap, Offsets
  <1>5. mem' = [mem EXCEPT ![tail.off] = NextPtr] /\ mem'[tail.off] = NextPtr
    BY <1>1, <1>2, <1>3, <1>4 DEF StoreLink, TypeOK
  <1>6. Floor' = Floor
    BY <1>2 DEF Floor
  <1>7. LogInv' /\ WindowInv' /\ LiveIntact'
    <2>1. mem' = [mem EXCEPT ![Wrap(tail.off + 0)] = NextPtr]
      BY <1>4, <1>5
    <2>2. Reserved /\ 0 \in Nat /\ 0 < frame.len
      BY <1>2 DEF Reserved
    <2> QED BY <1>2, <1>6, <2>1, <2>2, WriteElsewhere
  <1>8. TypeOK'
    <2>1. mem' \in [Offsets -> Cells]
      BY <1>1, <1>3, <1>5 DEF TypeOK, Cells
    <2>2. wnext' \in [seq : Nat, off : Offsets] /\ next' \in [seq : Nat, off : Offsets]
      BY <1>1, <1>2, NullTyped DEF StoreLink, TypeOK, Ptr, Seqs
    <2> QED BY <1>1, <1>2, <2>1, <2>2 DEF TypeOK, readers
  <1>9. HeadInv' /\ FrameInv'
    BY <1>1, <1>2 DEF HeadInv, FrameInv
  <1>10. ReservationInv'
    BY <1>1, <1>2, <1>6 DEF ReservationInv, Reserved, Live, Back, TailPos
  <1>11. WriterInv'
    BY <1>2, <1>5 DEF StoreLink, WriterInv, NextPtr
  <1>12. Progress
    BY <1>1, <1>2, <1>6, FloorRange DEF Progress, Advance, OffOf, TypeOK, Ptr, Seqs
  <1> QED
    BY <1>7, <1>8, <1>9, <1>10, <1>11, <1>12 DEF MemoryInv

LEMMA FillInv ==
  ASSUME NoWrap, MemoryInv, Fill
  PROVE  MemoryInv' /\ Progress
  <1> USE MrbAssumption
  <1>1. TypeOK /\ HeadInv /\ WriterInv /\ LogInv /\ FrameInv /\ ReservationInv
    BY DEF MemoryInv
  <1> DEFINE f == frame.fill
             o == Wrap(tail.off + (f + 1))
             b == Block(Len(log) + 1, f + 1, frame.len)
  <1>2. /\ UNCHANGED <<active, head, tail, log, readers, wpc, wnext, next, headp>>
        /\ wpc = "client" /\ f \in Nat /\ frame.len \in 2 .. Size /\ f + 1 < frame.len
    BY <1>1 DEF Fill, FrameInv, TypeOK
  <1>3. frame' = [len |-> frame.len, fill |-> f + 1]
    BY <1>1 DEF Fill, TypeOK
  <1>4. mem' = [mem EXCEPT ![o] = b]
    <2>0. tail.off \in Nat /\ f \in Nat
      BY <1>1, <1>2, LogTyped DEF Offsets, MrbAssumption
    <2>1. End(f) = tail.off + (f + 1)
      BY <2>0 DEF End
    <2> QED BY <2>1 DEF Fill
  <1>5. /\ o \in Offsets /\ o # tail.off
        /\ \A i \in 1 .. f : Wrap(tail.off + i) # o
    <2>1. tail.off \in 0 .. Size - 1 /\ Size \in Nat
      BY <1>1, LogTyped DEF Offsets, MrbAssumption
    <2>2. f + 1 \in 1 .. Size - 1
      BY <1>2, <2>1
    <2> QED BY <1>2, <2>1, <2>2 DEF Wrap, Offsets
  <1>6. Floor' = Floor
    BY <1>2 DEF Floor
  <1>7. LogInv' /\ WindowInv' /\ LiveIntact'
    <2>1. Reserved /\ f + 1 \in Nat /\ f + 1 < frame.len
      BY <1>2 DEF Reserved
    <2> HIDE DEF f, b
    <2> QED BY <1>2, <1>4, <1>6, <2>1, WriteElsewhere
  <1>8. TypeOK'
    <2>1. b \in Cells
      BY <1>1, <1>2, LogTyped DEF Cells, Block
    <2>2. mem' \in [Offsets -> Cells]
      BY <1>1, <1>4, <1>5, <2>1 DEF TypeOK
    <2> QED BY <1>1, <1>2, <1>3, <2>2 DEF TypeOK, readers
  <1>9. HeadInv' /\ FrameInv'
    BY <1>1, <1>2, <1>3 DEF HeadInv, FrameInv
  <1>10. ReservationInv'
    BY <1>1, <1>2, <1>3, <1>6 DEF ReservationInv, Reserved, Live, Back, TailPos
  <1>11. WriterInv'
    <2>1. mem'[tail.off] = NextPtr /\ wnext = NextPtr
      BY <1>1, <1>2, <1>4, <1>5, LogTyped DEF WriterInv, TypeOK
    <2>2. \A i \in 1 .. f :
            mem'[Wrap(tail.off + i)] = Block(Len(log) + 1, i, frame.len)
      <3> TAKE i \in 1 .. f
      <3>1. Wrap(tail.off + i) \in Offsets
        <4>1. tail.off + i \in Nat /\ tail.off + i < Size + Size
          <5>1. tail.off \in 0 .. Size - 1 /\ Size \in Nat
            BY <1>1, LogTyped DEF Offsets, MrbAssumption
          <5>2. i \in Nat /\ i < Size
            BY <1>2, <5>1
          <5> QED BY <5>1, <5>2
        <4> QED BY <4>1, WrapOffset
      <3>2. mem[Wrap(tail.off + i)] = Block(Len(log) + 1, i, frame.len)
        BY <1>1, <1>2 DEF WriterInv
      <3> QED BY <1>1, <1>4, <1>5, <3>1, <3>2 DEF TypeOK
    <2>3. mem'[o] = b
      BY <1>1, <1>4, <1>5 DEF TypeOK
    <2>4. \A i \in 1 .. f + 1 :
            mem'[Wrap(tail.off + i)] = Block(Len(log) + 1, i, frame.len)
      BY <1>2, <2>2, <2>3
    <2> QED BY <1>2, <1>3, <2>1, <2>4 DEF WriterInv, NextPtr
  <1>12. Progress
    <2>1. Floor \in Nat /\ Len(log) \in Nat /\ tail.seq \in Nat
      BY <1>1, FloorRange, LogTyped DEF HeadInv
    <2> QED BY <1>2, <1>6, <2>1 DEF Progress, Advance, OffOf
  <1> QED
    BY <1>7, <1>8, <1>9, <1>10, <1>11, <1>12 DEF MemoryInv

(* What a commit adds to the log and to the live messages.                 *)
LEMMA LogGrows ==
  ASSUME NoWrap, MemoryInv, StoreTail
  PROVE  /\ tail' = NextPtr /\ tail' \in Ptr /\ tail'.seq = Len(log) + 2
         /\ log' \in Seq([off : Offsets, pos : Nat, len : Nat])
         /\ Len(log') = Len(log) + 1
         /\ \A n \in 1 .. Len(log) : log'[n] = log[n]
         /\ log'[Len(log) + 1] = [off |-> tail.off, pos |-> TailPos, len |-> frame.len]
         /\ TailPos' = TailPos + frame.len
         /\ \A n \in 1 .. Len(log) + 1 : OffOf(n)' = OffOf(n)
         /\ \A n \in Nat : n > Len(log) + 1 => OffOf(n)' = tail'.off
         /\ frame.len \in 2 .. Size /\ frame.fill = frame.len - 1
         /\ Len(log) < MaxMsgs
         /\ Reserved
  <1> USE MrbAssumption
  <1>1. TypeOK /\ HeadInv /\ WriterInv /\ LogInv /\ FrameInv
    BY DEF MemoryInv
  <1>2. wpc = "client" /\ frame.len \in Nat \ {0} /\ frame.fill \in Nat
    BY <1>1 DEF StoreTail, Filled, TypeOK
  <1>3. frame.len \in 2 .. Size /\ frame.fill = frame.len - 1 /\ Len(log) < MaxMsgs
    BY <1>1, <1>2 DEF StoreTail, Filled, FrameInv
  <1>4. wnext = NextPtr
    BY <1>1, <1>2 DEF WriterInv
  <1>5. tail' = NextPtr /\ tail' \in Ptr /\ tail'.seq = Len(log) + 2
    <2>1. NextPtr \in Ptr /\ Pack(NextPtr) = NextPtr
      BY <1>2, NextPtrTyped
    <2>2. tail' = Pack(wnext)
      BY DEF StoreTail
    <2> QED BY <1>1, <1>4, <2>1, <2>2, LogTyped DEF NextPtr, HeadInv
  <1> DEFINE Entry == [off : Offsets, pos : Nat, len : Nat]
             e == [off |-> tail.off, pos |-> TailPos, len |-> frame.len]
  <1>6. e \in Entry /\ log \in Seq(Entry) /\ log' = Append(log, e)
    BY <1>1, <1>2, LogTyped DEF TypeOK, StoreTail
  <1>7. /\ log' \in Seq(Entry)
        /\ Len(log') = Len(log) + 1
        /\ \A n \in 1 .. Len(log) : log'[n] = log[n]
        /\ log'[Len(log) + 1] = e
        /\ log' # <<>>
    <2> HIDE DEF Entry, e
    <2> QED BY <1>6, AppendProperties, LenProperties
  <1>8. TailPos' = TailPos + frame.len
    BY <1>7 DEF TailPos
  <1>9. \A n \in 1 .. Len(log) + 1 : OffOf(n)' = OffOf(n)
    <2> TAKE n \in 1 .. Len(log) + 1
    <2>1. n <= Len(log')
      BY <1>1, <1>7, LogTyped
    <2>2. OffOf(n)' = log'[n].off
      BY <2>1 DEF OffOf
    <2>3. CASE n \in 1 .. Len(log)
      BY <1>7, <2>2, <2>3 DEF OffOf
    <2>4. CASE n = Len(log) + 1
      BY <1>1, <1>7, <2>2, <2>4, LogTyped DEF OffOf
    <2> QED BY <1>1, <2>3, <2>4, LogTyped
  <1>10. \A n \in Nat : n > Len(log) + 1 => OffOf(n)' = tail'.off
    BY <1>1, <1>7, LogTyped DEF OffOf
  <1> QED
    BY <1>2, <1>3, <1>5, <1>7, <1>8, <1>9, <1>10 DEF Reserved

LEMMA CommittedIsLive ==
  ASSUME NoWrap, MemoryInv, StoreTail, UNCHANGED mem, Floor' = Floor
  PROVE  LogInv' /\ WindowInv' /\ LiveIntact'
  <1> USE MrbAssumption
  <1>1. TypeOK /\ HeadInv /\ WriterInv /\ LogInv
    BY DEF MemoryInv
  <1> DEFINE L == Len(log)
             len == frame.len
  <1>2. L \in Nat /\ len \in 2 .. Size /\ TailPos \in Nat /\ TailPos' = TailPos + len
    BY <1>1, LogTyped, LogGrows
  <1>3. Floor \in 1 .. L + 1
    BY <1>1, FloorRange
  <1>4. Live' = Floor .. L + 1
    BY LogGrows DEF Live
  <1> DEFINE Old(n) == /\ log[n].off \in Offsets /\ log[n].pos \in Nat /\ log[n].len \in Nat
                       /\ log[n].len \in 2 .. Size /\ log[n].pos + log[n].len <= TailPos
                       /\ \A m \in 1 .. n : log[m].pos <= log[n].pos
  <1>8. Len(log') = L + 1 /\ \A n \in 1 .. L : log'[n] = log[n] /\ Old(n)
    BY <1>1, LogTyped, LogGrows DEF LogInv
  <1>9. log'[L + 1].off = tail.off /\ log'[L + 1].pos = TailPos /\ log'[L + 1].len = len
    BY LogGrows
  <1>10. /\ \A n \in 1 .. L + 1 : OffOf(n)' = OffOf(n)
         /\ \A n \in Nat : n > L + 1 => OffOf(n)' = tail'.off
    BY LogGrows
  <1>5. LogInv'
    <2>1. Len(log') <= MaxMsgs
      BY <1>2, LogGrows DEF MrbAssumption
    <2>2. ASSUME NEW n \in 1 .. L
          PROVE  /\ log'[n].len \in 2 .. Size
                 /\ log'[n].pos + log'[n].len <= TailPos'
                 /\ \A m \in 1 .. n : log'[m].pos <= log'[n].pos
      <3>1. log'[n] = log[n] /\ Old(n)
        BY <1>8
      <3>2. \A m \in 1 .. n : m \in 1 .. L
        BY <1>2
      <3>3. \A m \in 1 .. n : log'[m].pos <= log'[n].pos
        BY <1>8, <3>1, <3>2
      <3>4. log'[n].pos + log'[n].len <= TailPos'
        BY <1>2, <3>1
      <3> QED BY <3>1, <3>3, <3>4
    <2>3. /\ log'[L + 1].len \in 2 .. Size
          /\ log'[L + 1].pos + log'[L + 1].len <= TailPos'
          /\ \A m \in 1 .. L + 1 : log'[m].pos <= log'[L + 1].pos
      <3>1. \A m \in 1 .. L : log'[m].pos <= TailPos
        <4> TAKE m \in 1 .. L
        <4>1. log'[m] = log[m] /\ Old(m)
          BY <1>8
        <4>2. log[m].pos \in Nat /\ log[m].len \in Nat /\ log[m].pos + log[m].len <= TailPos
          BY <4>1
        <4> QED BY <1>2, <4>1, <4>2
      <3> QED BY <1>2, <1>9, <3>1
    <2>4. Len(log') = L + 1 /\ \A n \in 1 .. L + 1 : n \in 1 .. L \/ n = L + 1
      BY <1>2, LogGrows
    <2> HIDE DEF L, Old
    <2> QED BY <2>1, <2>2, <2>3, <2>4 DEF LogInv
  <1>6. WindowInv'
    <2>1. ASSUME NEW n \in Live'
          PROVE  /\ Back(n)' <= Size
                 /\ log'[n].off = IF Back(n)' <= tail'.off THEN tail'.off - Back(n)'
                                  ELSE tail'.off - Back(n)' + Size
      <3>1. PICK b \in Nat : /\ b + len <= Size /\ Back(n)' = b + len
                             /\ log'[n].off = IF b <= tail.off THEN tail.off - b
                                              ELSE tail.off - b + Size
        <4>1. CASE n \in 1 .. L
          <5>1. n \in Live
            BY <1>2, <1>3, <1>4, <2>1, <4>1 DEF Live
          <5>2. Back(n) \in Nat /\ Back(n)' = Back(n) + len
            <6>1. log'[n] = log[n] /\ Old(n)
              BY <1>8, <4>1
            <6>2. TailPos - log[n].pos \in Nat
              BY <1>2, <6>1
            <6>3. TailPos' - log'[n].pos = (TailPos - log[n].pos) + len
              BY <1>2, <6>1
            <6> QED BY <6>2, <6>3 DEF Back
          <5>3. Back(n) + len <= Size
            BY <5>1, LogGrows DEF MemoryInv, ReservationInv
          <5> QED BY <1>8, <4>1, <5>1, <5>2, <5>3 DEF MemoryInv, WindowInv
        <4>2. CASE n = L + 1
          <5>1. Back(n)' = len
            BY <1>2, <1>9, <4>2 DEF Back
          <5>2. log'[n].off = tail.off /\ tail.off \in Nat
            BY <1>1, <1>9, <4>2, LogTyped DEF Offsets, MrbAssumption
          <5> QED BY <1>2, <5>1, <5>2
        <4> QED BY <1>2, <1>3, <1>4, <2>1, <4>1, <4>2
      <3>2. tail'.off = Wrap(tail.off + len)
        BY LogGrows DEF NextPtr
      <3>3. tail.off \in Offsets /\ len \in Nat
        BY <1>1, <1>2, LogTyped
      <3> HIDE DEF len
      <3> QED
        BY <3>1, <3>2, <3>3, TailMoves DEF MrbAssumption
    <2> QED BY <2>1 DEF WindowInv
  <1>7. LiveIntact'
    <2> SUFFICES ASSUME NEW n \in Live'
                 PROVE  /\ mem[log'[n].off] = [seq |-> n + 1, off |-> OffOf(n + 1)']
                        /\ \A i \in 1 .. log'[n].len - 1 :
                             mem[Wrap(log'[n].off + i)] = Message(n)'[i]
      BY DEF LiveIntact
    <2>1. CASE n \in 1 .. L
      <3>1. n \in Live
        BY <1>2, <1>3, <1>4, <2>1 DEF Live
      <3>2. log'[n] = log[n] /\ OffOf(n + 1)' = OffOf(n + 1) /\ Message(n)' = Message(n)
        BY <1>2, <1>8, <1>10, <2>1 DEF Message
      <3> QED BY <3>1, <3>2 DEF MemoryInv, LiveIntact
    <2>2. CASE n = L + 1
      <3>1. log'[n].off = tail.off /\ log'[n].len = len /\ OffOf(n + 1)' = tail'.off
        <4>1. n + 1 \in Nat /\ n + 1 > L + 1
          BY <1>2, <2>2
        <4> QED BY <1>9, <1>10, <2>2, <4>1
      <3>2. frame.fill = len - 1 /\ frame.len # 0 /\ wpc = "client"
        BY <1>2, LogGrows DEF StoreTail
      <3>3. mem[tail.off] = NextPtr /\ NextPtr = [seq |-> n + 1, off |-> tail'.off]
        BY <1>1, <1>2, <2>2, <3>2, LogGrows DEF WriterInv, NextPtr, HeadInv
      <3>4. \A i \in 1 .. len - 1 : mem[Wrap(tail.off + i)] = Block(n, i, len)
        BY <1>1, <2>2, <3>2 DEF WriterInv
      <3>5. \A i \in 1 .. len - 1 : Message(n)'[i] = Block(n, i, len)
        BY <3>1 DEF Message
      <3> QED BY <3>1, <3>3, <3>4, <3>5
    <2> QED BY <1>2, <1>3, <1>4, <2>1, <2>2
  <1> QED BY <1>5, <1>6, <1>7

LEMMA CommitInv ==
  ASSUME NoWrap, MemoryInv, Commit \/ CommitFirst
  PROVE  MemoryInv' /\ Progress
  <1> USE MrbAssumption
  <1>1. TypeOK /\ HeadInv /\ WriterInv
    BY DEF MemoryInv
  <1>2. /\ UNCHANGED <<active, head, mem, readers, next>>
        /\ StoreTail /\ wpc = "client" /\ frame' = NoFrame
    BY DEF Commit, CommitFirst, StoreTail
  <1>3. /\ tail' = NextPtr /\ tail' \in Ptr /\ tail'.seq = Len(log) + 2
        /\ log' \in Seq([off : Offsets, pos : Nat, len : Nat])
        /\ Len(log') = Len(log) + 1 /\ Len(log) \in Nat
        /\ \A n \in 1 .. Len(log) : log'[n] = log[n]
        /\ log'[Len(log) + 1].off = tail.off
        /\ \A n \in 1 .. Len(log) + 1 : OffOf(n)' = OffOf(n)
    <2>1. Len(log) \in Nat
      BY <1>1, LogTyped
    <2>2. log'[Len(log) + 1] = [off |-> tail.off, pos |-> TailPos, len |-> frame.len]
      BY <1>2, LogGrows
    <2>3. log'[Len(log) + 1].off = tail.off
      BY <2>2
    <2>4. /\ tail' = NextPtr /\ tail' \in Ptr /\ tail'.seq = Len(log) + 2
          /\ Len(log') = Len(log) + 1
          /\ \A n \in 1 .. Len(log) : log'[n] = log[n]
          /\ \A n \in 1 .. Len(log) + 1 : OffOf(n)' = OffOf(n)
      BY <1>2, LogGrows
    <2>5. log' \in Seq([off : Offsets, pos : Nat, len : Nat])
      BY <1>2, LogGrows
    <2> QED BY <2>1, <2>3, <2>4, <2>5
  <1>4. tail.seq = Len(log) + 1 /\ head.seq \in Nat /\ (head = Null <=> head.seq = 0)
    BY <1>1 DEF HeadInv, TypeOK, Ptr, Seqs, Null
  <1>5. Floor' = Floor /\ Floor \in 1 .. Len(log) + 1
    <2>1. CASE Commit
      BY <1>1, <1>2, <1>4, <2>1, FloorRange DEF Commit, Floor
    <2>2. CASE CommitFirst
      BY <1>1, <1>2, <1>3, <1>4, <2>2, FloorRange DEF CommitFirst, Floor
    <2> QED BY <2>1, <2>2
  <1>6. LogInv' /\ WindowInv' /\ LiveIntact'
    BY <1>2, <1>5, CommittedIsLive
  <1>7. /\ wnext' \in [seq : Nat, off : Offsets] /\ headp' \in Ptr
        /\ wpc' \in {"client", "publish"}
    <2>1. CASE Commit
      BY <1>1, <1>2, <2>1 DEF Commit, TypeOK
    <2>2. CASE CommitFirst
      BY <1>1, <1>2, <2>2 DEF CommitFirst, TypeOK
    <2> QED BY <2>1, <2>2
  <1>8. TypeOK'
    <2>1. frame' \in [len : Nat, fill : Nat]
      BY <1>2 DEF NoFrame
    <2> QED BY <1>1, <1>2, <1>3, <1>7, <2>1 DEF TypeOK, readers
  <1>9. HeadInv'
    <2>1. head.seq # 0 => head.seq \in 1 .. Len(log) /\ head.off = log[head.seq].off
      BY <1>1, <1>3, <1>4 DEF HeadInv
    <2>2. head.seq # 0 => head.off = log'[head.seq].off
      BY <1>3, <2>1
    <2> QED BY <1>1, <1>2, <1>3, <1>4, <2>2 DEF HeadInv
  <1>10. FrameInv' /\ ReservationInv'
    BY <1>2, <1>7 DEF FrameInv, ReservationInv, Reserved, NoFrame
  <1>11. WriterInv'
    <2>1. CASE Commit
      BY <1>2, <2>1 DEF Commit, WriterInv, NoFrame
    <2>2. CASE CommitFirst
      <3>1. headp' = tail /\ wpc' = "publish" /\ head' = Null
        BY <1>2, <2>2 DEF CommitFirst
      <3>2. tail = [seq |-> Len(log'), off |-> log'[Len(log')].off]
        BY <1>1, <1>3, <1>4 DEF TypeOK, Ptr
      <3> QED BY <1>2, <1>3, <3>1, <3>2 DEF WriterInv, NoFrame
    <2> QED BY <2>1, <2>2
  <1>12. Progress
    <2>1. Len(log) <= Len(log') /\ tail.seq <= tail'.seq /\ Floor <= Floor'
      BY <1>3, <1>4, <1>5
    <2>2. head'.seq = 0 => head.seq = 0
      BY <1>2
    <2> QED BY <1>2, <1>3, <1>4, <2>1, <2>2 DEF Progress, Advance
  <1> QED
    BY <1>6, <1>8, <1>9, <1>10, <1>11, <1>12 DEF MemoryInv

LEMMA PublishHeadInv ==
  ASSUME NoWrap, MemoryInv, PublishHead
  PROVE  MemoryInv' /\ Progress
  <1> USE MrbAssumption
  <1>1. TypeOK /\ HeadInv /\ WriterInv
    BY DEF MemoryInv
  <1>2. /\ UNCHANGED <<active, tail, mem, log, readers, next, frame>>
        /\ wpc = "publish" /\ wpc' = "client" /\ head' = headp /\ headp' = Null
    BY DEF PublishHead
  <1>3. /\ head = Null /\ Len(log) > 0 /\ frame.len = 0
        /\ headp = [seq |-> Len(log), off |-> log[Len(log)].off]
    BY <1>1, <1>2 DEF WriterInv
  <1>4. Len(log) \in Nat /\ tail.seq = Len(log) + 1
    BY <1>1, LogTyped DEF HeadInv
  <1>5. Floor = Len(log) /\ Floor' = Len(log) /\ head'.seq = Len(log)
    BY <1>2, <1>3, <1>4 DEF Floor, Null
  <1>6. LogInv' /\ WindowInv' /\ LiveIntact'
    BY <1>2, <1>4, <1>5, LiveShrinks
  <1>7. TypeOK'
    BY <1>1, <1>2, NullTyped DEF PublishHead, TypeOK, readers
  <1>8. HeadInv'
    BY <1>2, <1>3, <1>4 DEF HeadInv
  <1>9. FrameInv' /\ ReservationInv' /\ WriterInv'
    BY <1>2, <1>3 DEF FrameInv, ReservationInv, Reserved, WriterInv
  <1>10. Progress
    BY <1>2, <1>3, <1>4, <1>5 DEF Progress, Advance, OffOf
  <1> QED
    BY <1>6, <1>7, <1>8, <1>9, <1>10 DEF MemoryInv

LEMMA ShutdownInv ==
  ASSUME MemoryInv, Shutdown
  PROVE  MemoryInv' /\ Progress
  <1> USE MrbAssumption
  <1>1. TypeOK /\ HeadInv /\ WriterInv
    BY DEF MemoryInv
  <1>2. /\ UNCHANGED <<head, tail, mem, log, readers, next, headp>>
        /\ wpc = "client" /\ wpc' = "done" /\ frame' = NoFrame
    BY DEF Shutdown
  <1>3. Floor' = Floor /\ Floor \in 1 .. Len(log) + 1
    BY <1>1, <1>2, FloorRange DEF Floor
  <1>4. LogInv' /\ WindowInv' /\ LiveIntact'
    BY <1>1, <1>2, <1>3, LiveShrinks, LogTyped
  <1>5. TypeOK'
    <2>1. wnext' \in [seq : Nat, off : Offsets]
      BY NullTyped DEF Shutdown, Ptr, Seqs
    <2>2. active' \in BOOLEAN
      BY Zenon DEF Shutdown
    <2>3. frame' \in [len : Nat, fill : Nat]
      BY <1>2 DEF NoFrame
    <2> QED BY <1>1, <1>2, <2>1, <2>2, <2>3 DEF TypeOK, readers
  <1>6. HeadInv' /\ FrameInv' /\ ReservationInv' /\ WriterInv'
    BY <1>1, <1>2 DEF HeadInv, FrameInv, ReservationInv, Reserved, WriterInv, NoFrame
  <1>7. Progress
    BY <1>1, <1>2, <1>3, LogTyped DEF Progress, Advance, OffOf, HeadInv
  <1> QED
    BY <1>4, <1>5, <1>6, <1>7 DEF MemoryInv

(* Every step of the writer.                                               *)
LEMMA WriterStep ==
  ASSUME NoWrap, MemoryInv, WriterNext
  PROVE  MemoryInv' /\ Progress
  BY ReserveInv, IdleInv, WalkInv, StoreHeadInv, StoreLinkInv, FillInv, CommitInv,
     PublishHeadInv, ShutdownInv DEF WriterNext, WriterCall

-----------------------------------------------------------------------------
(* The readers while somebody else moves                                   *)

ReaderInv(r) == PositionInv(r) /\ CopyInv(r) /\ OrderInv(r)

Same(r) == /\ rpc'[r] = rpc[r] /\ rsite'[r] = rsite[r] /\ rnext'[r] = rnext[r]
           /\ rhead'[r] = rhead[r] /\ rcopy'[r] = rcopy[r] /\ rlink'[r] = rlink[r]
           /\ rlast'[r] = rlast[r]

LEMMA ReaderTyped ==
  ASSUME MemoryInv, NEW r \in Readers
  PROVE  /\ rnext[r] \in Ptr /\ rnext[r].seq \in Nat /\ rnext[r].off \in Offsets
         /\ rhead[r] \in Ptr /\ rhead[r].seq \in Nat
         /\ rcopy[r] \in Seq(Cells) /\ Len(rcopy[r]) \in Nat
         /\ rlast[r] \in Nat
         /\ Len(log) \in Nat /\ Floor \in 1 .. Len(log) + 1
         /\ tail.seq = Len(log) + 1 /\ head.seq \in 0 .. Len(log)
         /\ head.seq # 0 => Floor = head.seq
  <1>1. TypeOK /\ HeadInv /\ WriterInv
    BY DEF MemoryInv
  <1>2. rcopy[r] \in Seq(Cells) /\ Len(rcopy[r]) \in Nat
    <2>1. rcopy[r] \in Seq(Cells)
      BY <1>1 DEF TypeOK
    <2> QED BY <2>1, LenProperties
  <1>3. Len(log) \in Nat /\ Floor \in 1 .. Len(log) + 1
    BY <1>1, LogTyped, FloorRange
  <1>4. head.seq \in 0 .. Len(log) /\ tail.seq = Len(log) + 1
    BY <1>1, <1>3 DEF HeadInv, TypeOK, Ptr, Seqs
  <1> QED
    BY <1>1, <1>2, <1>3, <1>4 DEF TypeOK, Ptr, Seqs, Floor

LEMMA ReaderKept ==
  ASSUME MemoryInv, MemoryInv', Advance, NEW r \in Readers, ReaderInv(r), Same(r)
  PROVE  ReaderInv(r)'
  <1> DEFINE n == rnext[r].seq
  <1>1. /\ n \in Nat /\ rlast[r] \in Nat /\ rhead[r].seq \in Nat
        /\ Len(log) \in Nat /\ Floor \in Nat /\ tail.seq = Len(log) + 1
        /\ Len(log') \in Nat /\ Floor' \in Nat /\ tail'.seq = Len(log') + 1
    <2>1. Len(log') \in Nat
      BY LenProperties DEF MemoryInv, TypeOK
    <2>2. tail'.seq = Len(log') + 1 /\ head'.seq \in Nat
      BY DEF MemoryInv, TypeOK, HeadInv, Ptr, Seqs
    <2>3. Floor' \in Nat
      BY <2>1, <2>2 DEF Floor
    <2> QED BY ReaderTyped, <2>1, <2>2, <2>3
  <1>2. Len(log) <= Len(log') /\ Floor <= Floor'
    BY DEF Advance
  <1>3. AtMessage(r)' = AtMessage(r)
    BY DEF AtMessage, Same
  <1>4. PositionInv(r)'
    BY <1>1, <1>2, <1>3 DEF ReaderInv, PositionInv, Same, Advance, OffOf
  <1>5. CopyInv(r)'
    <2>1. CASE AtMessage(r)
      <3>1. n \in 1 .. Len(log) /\ log'[n] = log[n] /\ Message(n)' = Message(n)
            /\ OffOf(n + 1)' = OffOf(n + 1)
        <4>1. n \in 1 .. Len(log)
          BY <2>1 DEF ReaderInv, PositionInv
        <4>2. log'[n] = log[n] /\ n + 1 \in 1 .. tail.seq
          <5>1. log'[n] = log[n]
            BY <4>1 DEF Advance
          <5>2. n + 1 \in 1 .. tail.seq
            BY <1>1, <4>1
          <5> QED BY <5>1, <5>2
        <4>3. Message(n)' = Message(n)
          BY <4>2 DEF Message, Same
        <4>4. OffOf(n + 1)' = OffOf(n + 1)
          BY <4>2 DEF Advance, Same
        <4> QED BY <4>1, <4>2, <4>3, <4>4
      <3> QED
        <4>1. Message(n) = [i \in 1 .. log[n].len - 1 |-> Block(n, i, log[n].len)]
          BY DEF Message
        <4>2. CopyInv(r) /\ (n >= Floor' => n >= Floor)
          BY <1>1, <1>2 DEF ReaderInv
        <4>3. OffOf(n + 1) = IF n + 1 <= Len(log') THEN log'[n + 1].off ELSE tail'.off
          BY <3>1 DEF OffOf, Same
        <4> QED BY <3>1, <4>1, <4>2, <4>3 DEF CopyInv, Same, Checking, Message, OffOf
    <2>2. CASE ~AtMessage(r)
      BY <2>2 DEF AtMessage, CopyInv, Checking, Same
    <2> QED BY <2>1, <2>2
  <1>6. OrderInv(r)'
    <2>1. rpc[r] = "use" => n <= Len(log)
      BY <1>1 DEF ReaderInv, PositionInv, AtMessage
    <2> QED
      BY <1>1, <1>2, <2>1 DEF ReaderInv, OrderInv, Same, Checking, Past, Advance
  <1> QED BY <1>4, <1>5, <1>6 DEF ReaderInv

(* Steps that leave the buffer and its writer alone.                       *)
LEMMA BufferKept ==
  ASSUME MemoryInv, UNCHANGED <<shared, writer>>, TypeOK'
  PROVE  MemoryInv' /\ Advance
  <1>1. /\ UNCHANGED <<active, head, tail, mem, log, wpc, wnext, next, headp, frame>>
        /\ Floor' = Floor /\ Live' = Live
    BY DEF shared, writer, Floor, Live
  <1>2. LogInv' /\ HeadInv' /\ WindowInv' /\ FrameInv' /\ ReservationInv'
    BY <1>1 DEF MemoryInv, LogInv, HeadInv, WindowInv, FrameInv, ReservationInv,
       Reserved, Back, TailPos
  <1>3. WriterInv' /\ LiveIntact'
    BY <1>1 DEF MemoryInv, WriterInv, LiveIntact, NextPtr, OffOf, Message
  <1>4. Advance
    <2>1. \A n \in 1 .. tail.seq : OffOf(n)' = OffOf(n)
      BY <1>1 DEF OffOf
    <2>2. Len(log) \in Nat /\ Floor \in Nat /\ tail.seq = Len(log) + 1
      BY LogTyped, FloorRange DEF MemoryInv, HeadInv
    <2> QED BY <1>1, <2>1, <2>2 DEF Advance
  <1> QED BY <1>2, <1>3, <1>4 DEF MemoryInv

(* A step of one reader.                                                   *)
LEMMA ReaderFrame ==
  ASSUME IInv, NEW r \in Readers, UNCHANGED <<shared, writer>>,
         \A q \in Readers \ {r} : Same(q), TypeOK', ReaderInv(r)'
  PROVE  IInv'
  <1>1. MemoryInv /\ MemoryInv' /\ Advance
    BY BufferKept DEF IInv
  <1>2. \A q \in Readers : ReaderInv(q)'
    BY <1>1, ReaderKept DEF IInv, ReaderInv
  <1> QED BY <1>1, <1>2 DEF IInv, ReaderInv

-----------------------------------------------------------------------------
(* Steps of a reader                                                       *)

(* What a step of reader r has to establish.                               *)
Stepped(r) == /\ UNCHANGED <<shared, writer>>
              /\ \A q \in Readers \ {r} : Same(q)
              /\ TypeOK'
              /\ ReaderInv(r)'

LEMMA Idle ==
  ASSUME UNCHANGED <<shared, writer>>, IInv
  PROVE  /\ UNCHANGED <<active, head, tail, mem, log, wpc, wnext, next, headp, frame>>
         /\ Floor' = Floor
         /\ TypeOK /\ MemoryInv
         /\ \A r \in Readers : ReaderInv(r)
  BY DEF shared, writer, Floor, IInv, ReaderInv, MemoryInv

LEMMA PeekInv ==
  ASSUME IInv, NEW r \in Readers, Peek(r)
  PROVE  Stepped(r)
  <1>1. /\ UNCHANGED <<shared, writer, rsite, rnext, rhead, rcopy, rlink, rlast>>
        /\ rpc[r] = "peek" /\ rpc' = [rpc EXCEPT ![r] = IF AtTail(r) THEN "active" ELSE "header"]
    BY DEF Peek, Goto
  <1>2. TypeOK /\ MemoryInv /\ ReaderInv(r) /\ Floor' = Floor
        /\ UNCHANGED <<active, head, tail, mem, log, wpc, wnext, next, headp, frame>>
    BY <1>1, Idle
  <1>3. TypeOK' /\ rpc'[r] = (IF AtTail(r) THEN "active" ELSE "header")
        /\ \A q \in Readers \ {r} : rpc'[q] = rpc[q]
    BY <1>1, <1>2 DEF TypeOK
  <1>4. PositionInv(r)' /\ CopyInv(r)' /\ OrderInv(r)'
    <2>1. rpc'[r] = "header" => rnext[r].seq \in 1 .. Len(log)
      BY <1>2, <1>3, ReaderTyped DEF AtTail, ReaderInv, PositionInv
    <2>2. PositionInv(r)'
      BY <1>1, <1>2, <1>3, <2>1 DEF ReaderInv, PositionInv, AtMessage, OffOf
    <2>3. CopyInv(r)'
      BY <1>1, <1>2, <1>3 DEF CopyInv, Checking
    <2>4. OrderInv(r)'
      BY <1>1, <1>2, <1>3 DEF ReaderInv, OrderInv, Checking, Past
    <2> QED BY <2>2, <2>3, <2>4
  <1> QED BY <1>1, <1>3, <1>4 DEF Stepped, Same, ReaderInv

LEMMA LoadActiveInv ==
  ASSUME IInv, NEW r \in Readers, LoadActive(r)
  PROVE  Stepped(r)
  <1>1. /\ UNCHANGED <<shared, writer, rnext, rhead, rcopy, rlink, rlast>>
        /\ rpc[r] = "active"
        /\ \/ rpc' = [rpc EXCEPT ![r] = "check"] /\ rsite' = [rsite EXCEPT ![r] = "reveal"]
           \/ rpc' = [rpc EXCEPT ![r] = "eof"] /\ rsite' = rsite
    BY DEF LoadActive, CallCheck, Goto
  <1>2. TypeOK /\ MemoryInv /\ ReaderInv(r) /\ Floor' = Floor
        /\ UNCHANGED <<active, head, tail, mem, log, wpc, wnext, next, headp, frame>>
    BY <1>1, Idle
  <1>3. /\ TypeOK'
        /\ (rpc'[r] = "check" /\ rsite'[r] = "reveal") \/ rpc'[r] = "eof"
        /\ \A q \in Readers \ {r} : rpc'[q] = rpc[q] /\ rsite'[q] = rsite[q]
    BY <1>1, <1>2 DEF TypeOK
  <1>4. PositionInv(r)' /\ CopyInv(r)' /\ OrderInv(r)'
    <2>1. PositionInv(r)'
      BY <1>1, <1>2, <1>3 DEF ReaderInv, PositionInv, AtMessage, OffOf
    <2>2. CopyInv(r)'
      BY <1>1, <1>2, <1>3 DEF CopyInv, Checking
    <2>3. OrderInv(r)'
      BY <1>1, <1>2, <1>3 DEF ReaderInv, OrderInv, Checking, Past
    <2> QED BY <2>1, <2>2, <2>3
  <1> QED BY <1>1, <1>3, <1>4 DEF Stepped, Same, ReaderInv

LEMMA ResyncInv ==
  ASSUME IInv, NEW r \in Readers, Resync(r)
  PROVE  Stepped(r)
  <1> DEFINE p == IF rnext[r].seq = 0 THEN tail ELSE head
  <1>1. /\ UNCHANGED <<shared, writer, rsite, rhead, rcopy, rlink, rlast>>
        /\ rpc[r] = "resync" /\ rpc' = [rpc EXCEPT ![r] = "peek"]
        /\ rnext' = [rnext EXCEPT ![r] = p]
    BY DEF Resync, Goto
  <1>2. TypeOK /\ MemoryInv /\ ReaderInv(r) /\ Floor' = Floor
        /\ UNCHANGED <<active, head, tail, mem, log, wpc, wnext, next, headp, frame>>
    BY <1>1, Idle
  <1>3. /\ TypeOK'
        /\ rpc'[r] = "peek" /\ rnext'[r] = p
        /\ \A q \in Readers \ {r} : rpc'[q] = rpc[q] /\ rnext'[q] = rnext[q]
    BY <1>1, <1>2 DEF TypeOK
  <1>4. p.seq # 0 => p.seq <= tail.seq /\ p.off = OffOf(p.seq)
    BY <1>2, ReaderTyped DEF MemoryInv, HeadInv, OffOf
  <1>5. PositionInv(r)' /\ CopyInv(r)' /\ OrderInv(r)'
    <2>1. PositionInv(r)'
      BY <1>1, <1>2, <1>3, <1>4 DEF PositionInv, AtMessage, OffOf
    <2>2. CopyInv(r)'
      BY <1>1, <1>2, <1>3 DEF CopyInv, Checking
    <2>3. p.seq # 0 => rlast[r] < p.seq
      BY <1>1, <1>2, ReaderTyped DEF ReaderInv, OrderInv, Past
    <2>4. OrderInv(r)'
      BY <1>1, <1>2, <1>3, <2>3, ReaderTyped DEF ReaderInv, OrderInv, Checking, Past
    <2> QED BY <2>1, <2>2, <2>4
  <1> QED BY <1>1, <1>3, <1>5 DEF Stepped, Same, ReaderInv

LEMMA ReheadInv ==
  ASSUME IInv, NEW r \in Readers, Rehead(r)
  PROVE  Stepped(r)
  <1>1. /\ UNCHANGED <<shared, writer, rhead, rcopy, rlink, rlast>>
        /\ rpc[r] = "rehead" /\ rpc' = [rpc EXCEPT ![r] = "check"]
        /\ rsite' = [rsite EXCEPT ![r] = "reveal"]
        /\ rnext' = [rnext EXCEPT ![r] = head]
    BY DEF Rehead, CallCheck
  <1>2. TypeOK /\ MemoryInv /\ ReaderInv(r) /\ Floor' = Floor
        /\ UNCHANGED <<active, head, tail, mem, log, wpc, wnext, next, headp, frame>>
    BY <1>1, Idle
  <1>3. /\ TypeOK'
        /\ rpc'[r] = "check" /\ rsite'[r] = "reveal" /\ rnext'[r] = head
        /\ \A q \in Readers \ {r} : /\ rpc'[q] = rpc[q] /\ rnext'[q] = rnext[q]
                                    /\ rsite'[q] = rsite[q]
    BY <1>1, <1>2 DEF TypeOK
  <1>4. head.seq # 0 => head.seq <= tail.seq /\ head.off = OffOf(head.seq)
    BY <1>2, ReaderTyped DEF MemoryInv, HeadInv, OffOf
  <1>5. PositionInv(r)' /\ CopyInv(r)' /\ OrderInv(r)'
    <2>1. PositionInv(r)'
      BY <1>1, <1>2, <1>3, <1>4 DEF PositionInv, AtMessage, OffOf
    <2>2. CopyInv(r)'
      BY <1>1, <1>2, <1>3 DEF CopyInv, Checking
    <2>3. rlast[r] < Floor
      BY <1>1, <1>2 DEF ReaderInv, OrderInv, Past
    <2>4. OrderInv(r)'
      BY <1>1, <1>2, <1>3, <2>3, ReaderTyped DEF ReaderInv, OrderInv, Checking, Past
    <2> QED BY <2>1, <2>2, <2>4
  <1> QED BY <1>1, <1>3, <1>5 DEF Stepped, Same, ReaderInv

(* What a reader loads from the message it is at.                          *)
LEMMA LoadFacts ==
  ASSUME MemoryInv, NEW r \in Readers, PositionInv(r), AtMessage(r)
  PROVE  LET n == rnext[r].seq
         IN  /\ n \in 1 .. Len(log) /\ log[n].len \in 2 .. Size
             /\ mem[rnext[r].off] \in Cells
             /\ \A i \in 1 .. log[n].len - 1 : Load(r, i) \in Cells
             /\ n >= Floor =>
                  /\ mem[rnext[r].off] = [seq |-> n + 1, off |-> OffOf(n + 1)]
                  /\ \A i \in 1 .. log[n].len - 1 :
                       Load(r, i) = Block(n, i, log[n].len)
  <1> USE MrbAssumption
  <1> DEFINE n == rnext[r].seq
             o == rnext[r].off
  <1>1. TypeOK /\ LogInv /\ LiveIntact
    BY DEF MemoryInv
  <1>2. n \in 1 .. Len(log) /\ o = log[n].off
    BY ReaderTyped DEF PositionInv, OffOf
  <1>3. log[n].len \in 2 .. Size /\ o \in Offsets /\ mem \in [Offsets -> Cells]
    BY <1>1, <1>2, ReaderTyped DEF LogInv, TypeOK
  <1>4. ASSUME NEW i \in 1 .. log[n].len - 1 PROVE Wrap(o + i) \in Offsets
    <2>1. o + i \in Nat /\ o + i < Size + Size
      <3>1. log[n].len \in Nat /\ log[n].len <= Size /\ Size \in Nat
        BY <1>3 DEF MrbAssumption
      <3>2. o \in 0 .. Size - 1
        BY <1>3 DEF Offsets
      <3> QED BY <3>1, <3>2
    <2> QED BY <2>1, WrapOffset
  <1>5. n >= Floor => n \in Live
    BY <1>2, ReaderTyped DEF Live
  <1>6. \A i \in 1 .. log[n].len - 1 : Message(n)[i] = Block(n, i, log[n].len)
    BY DEF Message
  <1>7. n >= Floor => \A i \in 1 .. log[n].len - 1 : Load(r, i) = Block(n, i, log[n].len)
    BY <1>1, <1>2, <1>5, <1>6 DEF LiveIntact, Load
  <1> QED
    BY <1>1, <1>2, <1>3, <1>4, <1>5, <1>7 DEF LiveIntact, Load

LEMMA CopyHeaderInv ==
  ASSUME IInv, NEW r \in Readers, CopyHeader(r)
  PROVE  Stepped(r)
  <1> DEFINE c == Load(r, 1)
             n == rnext[r].seq
  <1>1. /\ UNCHANGED <<shared, writer, rnext, rhead, rlink, rlast>>
        /\ rpc[r] = "header" /\ rpc' = [rpc EXCEPT ![r] = "check"]
        /\ rsite' = [rsite EXCEPT ![r] = "header"]
        /\ rcopy' = [rcopy EXCEPT ![r] = <<c>>]
    BY DEF CopyHeader, CallCheck
  <1>2. TypeOK /\ MemoryInv /\ ReaderInv(r) /\ Floor' = Floor
        /\ UNCHANGED <<active, head, tail, mem, log, wpc, wnext, next, headp, frame>>
    BY <1>1, Idle
  <1>3. /\ n \in 1 .. Len(log) /\ log[n].len \in 2 .. Size /\ c \in Cells
        /\ n >= Floor => c = Block(n, 1, log[n].len)
    <2>1. PositionInv(r) /\ AtMessage(r)
      BY <1>1, <1>2 DEF ReaderInv, AtMessage
    <2>2. log[n].len \in 2 .. Size => 1 \in 1 .. log[n].len - 1
      BY MrbAssumption DEF MrbAssumption
    <2> QED BY <1>2, <2>1, <2>2, LoadFacts
  <1>4. /\ TypeOK'
        /\ rpc'[r] = "check" /\ rsite'[r] = "header" /\ rcopy'[r] = <<c>>
        /\ \A q \in Readers \ {r} : /\ rpc'[q] = rpc[q] /\ rcopy'[q] = rcopy[q]
                                    /\ rsite'[q] = rsite[q]
    <2>1. <<c>> \in Seq(Cells)
      <3> HIDE DEF c
      <3> QED BY <1>3
    <2> HIDE DEF c
    <2> QED BY <1>1, <1>2, <2>1 DEF TypeOK
  <1> HIDE DEF c
  <1>5. PositionInv(r)' /\ CopyInv(r)' /\ OrderInv(r)'
    <2>1. PositionInv(r)'
      BY <1>1, <1>2, <1>3, <1>4 DEF ReaderInv, PositionInv, AtMessage, OffOf
    <2>2. CopyInv(r)'
      BY <1>1, <1>2, <1>3, <1>4 DEF CopyInv, Checking
    <2>3. OrderInv(r)'
      BY <1>1, <1>2, <1>4 DEF ReaderInv, OrderInv, Checking, Past
    <2> QED BY <2>1, <2>2, <2>3
  <1> QED BY <1>1, <1>4, <1>5 DEF Stepped, Same, ReaderInv

LEMMA SkipInv ==
  ASSUME IInv, NEW r \in Readers, Skip(r)
  PROVE  Stepped(r)
  <1>1. /\ UNCHANGED <<shared, writer, rsite, rnext, rhead, rlink, rlast>>
        /\ rpc[r] = "copy" /\ rpc' = [rpc EXCEPT ![r] = "link"]
        /\ rcopy' = [rcopy EXCEPT ![r] = <<>>]
    BY DEF Skip, Goto
  <1>2. TypeOK /\ MemoryInv /\ ReaderInv(r) /\ Floor' = Floor
        /\ UNCHANGED <<active, head, tail, mem, log, wpc, wnext, next, headp, frame>>
    BY <1>1, Idle
  <1>3. /\ TypeOK'
        /\ rpc'[r] = "link"
        /\ \A q \in Readers \ {r} : rpc'[q] = rpc[q] /\ rcopy'[q] = rcopy[q]
    BY <1>1, <1>2 DEF TypeOK
  <1>4. PositionInv(r)' /\ CopyInv(r)' /\ OrderInv(r)'
    <2>1. PositionInv(r)'
      BY <1>1, <1>2, <1>3 DEF ReaderInv, PositionInv, AtMessage, OffOf
    <2>2. CopyInv(r)'
      BY <1>1, <1>2, <1>3 DEF CopyInv, Checking
    <2>3. OrderInv(r)'
      BY <1>1, <1>2, <1>3 DEF ReaderInv, OrderInv, Checking, Past
    <2> QED BY <2>1, <2>2, <2>3
  <1> QED BY <1>1, <1>3, <1>4 DEF Stepped, Same, ReaderInv

LEMMA UseInv ==
  ASSUME IInv, NEW r \in Readers, Use(r)
  PROVE  Stepped(r)
  <1> DEFINE n == rnext[r].seq
  <1>1. /\ UNCHANGED <<shared, writer, rsite, rnext, rhead, rlink>>
        /\ rpc[r] = "use" /\ rpc' = [rpc EXCEPT ![r] = "link"]
        /\ rcopy' = [rcopy EXCEPT ![r] = <<>>]
        /\ rlast' = [rlast EXCEPT ![r] = n]
    BY DEF Use, Goto
  <1>2. TypeOK /\ MemoryInv /\ ReaderInv(r) /\ Floor' = Floor
        /\ UNCHANGED <<active, head, tail, mem, log, wpc, wnext, next, headp, frame>>
    BY <1>1, Idle
  <1>3. /\ TypeOK'
        /\ rpc'[r] = "link" /\ rlast'[r] = n
        /\ \A q \in Readers \ {r} : /\ rpc'[q] = rpc[q] /\ rcopy'[q] = rcopy[q]
                                    /\ rlast'[q] = rlast[q]
    BY <1>1, <1>2 DEF TypeOK, Ptr
  <1>4. PositionInv(r)' /\ CopyInv(r)' /\ OrderInv(r)'
    <2>1. PositionInv(r)' /\ n \in 1 .. Len(log)
      BY <1>1, <1>2, <1>3 DEF ReaderInv, PositionInv, AtMessage, OffOf
    <2>2. CopyInv(r)'
      BY <1>1, <1>2, <1>3 DEF CopyInv, Checking
    <2>3. OrderInv(r)'
      BY <1>1, <1>2, <1>3, <2>1, ReaderTyped DEF ReaderInv, OrderInv, Checking, Past
    <2> QED BY <2>1, <2>2, <2>3
  <1> QED BY <1>1, <1>3, <1>4 DEF Stepped, Same, ReaderInv

LEMMA LoadLinkInv ==
  ASSUME IInv, NEW r \in Readers, LoadLink(r)
  PROVE  Stepped(r)
  <1> DEFINE n == rnext[r].seq
             c == mem[rnext[r].off]
  <1>1. /\ UNCHANGED <<shared, writer, rnext, rhead, rcopy, rlast>>
        /\ rpc[r] = "link" /\ rpc' = [rpc EXCEPT ![r] = "check"]
        /\ rsite' = [rsite EXCEPT ![r] = "release"]
        /\ rlink' = [rlink EXCEPT ![r] = c]
    BY DEF LoadLink, CallCheck
  <1>2. TypeOK /\ MemoryInv /\ ReaderInv(r) /\ Floor' = Floor
        /\ UNCHANGED <<active, head, tail, mem, log, wpc, wnext, next, headp, frame>>
    BY <1>1, Idle
  <1>3. /\ n \in 1 .. Len(log) /\ c \in Cells
        /\ n >= Floor => c = [seq |-> n + 1, off |-> OffOf(n + 1)]
    <2>1. PositionInv(r) /\ AtMessage(r)
      BY <1>1, <1>2 DEF ReaderInv, AtMessage
    <2> QED BY <1>2, <2>1, LoadFacts
  <1> HIDE DEF c
  <1>4. /\ TypeOK'
        /\ rpc'[r] = "check" /\ rsite'[r] = "release" /\ rlink'[r] = c
        /\ \A q \in Readers \ {r} : /\ rpc'[q] = rpc[q] /\ rlink'[q] = rlink[q]
                                    /\ rsite'[q] = rsite[q]
    BY <1>1, <1>2, <1>3 DEF TypeOK
  <1>5. PositionInv(r)' /\ CopyInv(r)' /\ OrderInv(r)'
    <2>1. PositionInv(r)'
      BY <1>1, <1>2, <1>3, <1>4 DEF ReaderInv, PositionInv, AtMessage, OffOf
    <2>2. CopyInv(r)'
      BY <1>1, <1>2, <1>3, <1>4 DEF CopyInv, Checking, OffOf
    <2>3. OrderInv(r)'
      BY <1>1, <1>2, <1>4 DEF ReaderInv, OrderInv, Checking, Past
    <2> QED BY <2>1, <2>2, <2>3
  <1> QED BY <1>1, <1>4, <1>5 DEF Stepped, Same, ReaderInv

LEMMA ExpectedBlocks ==
  ASSUME NEW n, NEW len
  PROVE  Expected(Block(n, 1, len)) = len - 1
  <1>1. Block(n, 1, len) \notin Ptr
    <2>1. DOMAIN Block(n, 1, len) = {"num", "idx", "len"}
      BY DEF Block
    <2>2. \A p \in Ptr : DOMAIN p = {"seq", "off"}
      BY DEF Ptr
    <2>3. "num" \notin {"seq", "off"}
      OBVIOUS
    <2> QED BY <2>1, <2>2, <2>3
  <1>2. Block(n, 1, len).idx = 1 /\ Block(n, 1, len).len = len
    BY DEF Block
  <1> QED BY <1>1, <1>2 DEF Expected

LEMMA CopyDoneInv ==
  ASSUME IInv, NEW r \in Readers, CopyDone(r)
  PROVE  Stepped(r)
  <1> DEFINE n == rnext[r].seq
  <1>1. /\ UNCHANGED <<shared, writer, rnext, rhead, rcopy, rlink, rlast>>
        /\ rpc[r] = "copy" /\ rpc' = [rpc EXCEPT ![r] = "check"]
        /\ rsite' = [rsite EXCEPT ![r] = "data"]
        /\ Len(rcopy[r]) >= Expected(rcopy[r][1])
    BY DEF CopyDone, CallCheck
  <1>2. TypeOK /\ MemoryInv /\ ReaderInv(r) /\ Floor' = Floor
        /\ UNCHANGED <<active, head, tail, mem, log, wpc, wnext, next, headp, frame>>
    BY <1>1, Idle
  <1>3. /\ TypeOK'
        /\ rpc'[r] = "check" /\ rsite'[r] = "data"
        /\ \A q \in Readers \ {r} : rpc'[q] = rpc[q] /\ rsite'[q] = rsite[q]
    BY <1>1, <1>2 DEF TypeOK
  <1>4. n \in 1 .. Len(log) /\ log[n].len \in 2 .. Size
    BY <1>1, <1>2, LoadFacts DEF ReaderInv, AtMessage
  <1>5. Len(rcopy[r]) = log[n].len - 1
    <2>1. /\ Len(rcopy[r]) \in 1 .. log[n].len - 1
          /\ rcopy[r][1] = Block(n, 1, log[n].len)
      BY <1>1, <1>2 DEF ReaderInv, CopyInv
    <2> QED BY <1>1, <1>4, <2>1, ExpectedBlocks DEF MrbAssumption
  <1>6. PositionInv(r)' /\ CopyInv(r)' /\ OrderInv(r)'
    <2>1. PositionInv(r)'
      BY <1>1, <1>2, <1>3 DEF ReaderInv, PositionInv, AtMessage, OffOf
    <2>2. CopyInv(r)'
      BY <1>1, <1>2, <1>3, <1>5 DEF ReaderInv, CopyInv, Checking
    <2>3. OrderInv(r)'
      BY <1>1, <1>2, <1>3 DEF ReaderInv, OrderInv, Checking, Past
    <2> QED BY <2>1, <2>2, <2>3
  <1> QED BY <1>1, <1>3, <1>6 DEF Stepped, Same, ReaderInv

LEMMA CopyBlockInv ==
  ASSUME IInv, NEW r \in Readers, CopyBlock(r)
  PROVE  Stepped(r)
  <1> DEFINE n == rnext[r].seq
             k == Len(rcopy[r]) + 1
             c == Load(r, k)
  <1>1. /\ UNCHANGED <<shared, writer, rpc, rsite, rnext, rhead, rlink, rlast>>
        /\ rpc[r] = "copy"
        /\ rcopy' = [rcopy EXCEPT ![r] = Append(rcopy[r], c)]
        /\ Len(rcopy[r]) < Expected(rcopy[r][1])
    BY DEF CopyBlock
  <1>2. TypeOK /\ MemoryInv /\ ReaderInv(r) /\ Floor' = Floor
        /\ UNCHANGED <<active, head, tail, mem, log, wpc, wnext, next, headp, frame>>
    BY <1>1, Idle
  <1>3. /\ Len(rcopy[r]) \in 1 .. log[n].len - 1
        /\ rcopy[r][1] = Block(n, 1, log[n].len)
        /\ n >= Floor => \A i \in 1 .. Len(rcopy[r]) : rcopy[r][i] = Block(n, i, log[n].len)
    BY <1>1, <1>2 DEF ReaderInv, CopyInv
  <1>4. /\ n \in 1 .. Len(log) /\ log[n].len \in 2 .. Size
        /\ \A i \in 1 .. log[n].len - 1 : Load(r, i) \in Cells
        /\ n >= Floor => \A i \in 1 .. log[n].len - 1 : Load(r, i) = Block(n, i, log[n].len)
    BY <1>1, <1>2, LoadFacts DEF ReaderInv, AtMessage
  <1>5. k \in 1 .. log[n].len - 1 /\ Len(rcopy[r]) \in Nat
    BY <1>1, <1>3, <1>4, ExpectedBlocks DEF MrbAssumption
  <1>6. c \in Cells /\ (n >= Floor => c = Block(n, k, log[n].len))
    BY <1>4, <1>5
  <1>7. /\ Append(rcopy[r], c) \in Seq(Cells)
        /\ Len(Append(rcopy[r], c)) = k
        /\ \A i \in 1 .. Len(rcopy[r]) : Append(rcopy[r], c)[i] = rcopy[r][i]
        /\ Append(rcopy[r], c)[k] = c
    <2>1. rcopy[r] \in Seq(Cells)
      BY <1>2 DEF TypeOK
    <2> HIDE DEF c
    <2> QED BY <1>6, <2>1, AppendProperties
  <1> HIDE DEF c
  <1>8. /\ TypeOK'
        /\ rcopy'[r] = Append(rcopy[r], c)
        /\ \A q \in Readers \ {r} : rcopy'[q] = rcopy[q]
    BY <1>1, <1>2, <1>7 DEF TypeOK
  <1>9. PositionInv(r)' /\ CopyInv(r)' /\ OrderInv(r)'
    <2>1. PositionInv(r)'
      BY <1>1, <1>2 DEF ReaderInv, PositionInv, AtMessage, OffOf
    <2>2. CopyInv(r)'
      <3>1. n >= Floor => \A i \in 1 .. k : rcopy'[r][i] = Block(n, i, log[n].len)
        BY <1>3, <1>5, <1>6, <1>7, <1>8
      <3>2. rcopy'[r][1] = Block(n, 1, log[n].len) /\ Len(rcopy'[r]) = k
        BY <1>3, <1>7, <1>8
      <3> HIDE DEF k
      <3> QED BY <1>1, <1>2, <1>5, <3>1, <3>2 DEF CopyInv, Checking
    <2>3. OrderInv(r)'
      BY <1>1, <1>2 DEF ReaderInv, OrderInv, Checking, Past
    <2> QED BY <2>1, <2>2, <2>3
  <1> QED BY <1>1, <1>8, <1>9 DEF Stepped, Same, ReaderInv

LEMMA CheckAsksTailInv ==
  ASSUME IInv, NEW r \in Readers, CheckAsksTail(r)
  PROVE  Stepped(r)
  <1> DEFINE n == rnext[r].seq
  <1>1. /\ UNCHANGED <<shared, writer, rsite, rnext, rcopy, rlink, rlast>>
        /\ rpc[r] = "check" /\ rpc' = [rpc EXCEPT ![r] = "checktail"]
        /\ rhead' = [rhead EXCEPT ![r] = head]
        /\ n # 0 /\ head.seq # 0 /\ n < head.seq
    BY DEF CheckAsksTail, Goto
  <1>2. TypeOK /\ MemoryInv /\ ReaderInv(r) /\ Floor' = Floor
        /\ UNCHANGED <<active, head, tail, mem, log, wpc, wnext, next, headp, frame>>
    BY <1>1, Idle
  <1>3. /\ TypeOK'
        /\ rpc'[r] = "checktail" /\ rhead'[r] = head
        /\ \A q \in Readers \ {r} : rpc'[q] = rpc[q] /\ rhead'[q] = rhead[q]
    BY <1>1, <1>2 DEF TypeOK
  <1>4. Floor = head.seq /\ n \in Nat /\ head.seq \in Nat
    BY <1>1, <1>2, ReaderTyped
  <1>5. PositionInv(r)' /\ CopyInv(r)' /\ OrderInv(r)'
    <2>1. PositionInv(r)'
      BY <1>1, <1>2, <1>3, <1>4 DEF ReaderInv, PositionInv, AtMessage, OffOf
    <2>2. CopyInv(r)'
      BY <1>1, <1>2, <1>3 DEF ReaderInv, CopyInv, Checking, Message, OffOf
    <2>3. OrderInv(r)'
      BY <1>1, <1>2, <1>3 DEF ReaderInv, OrderInv, Checking, Past
    <2> QED BY <2>1, <2>2, <2>3
  <1> QED BY <1>1, <1>3, <1>5 DEF Stepped, Same, ReaderInv

(* mrb_check() answers no, and has reason to.                              *)
LEMMA RefuseInv ==
  ASSUME IInv, NEW r \in Readers, rpc[r] \in {"check", "checktail"}, Continue(r, FALSE),
         rhead' = rhead \/ rhead' = [rhead EXCEPT ![r] = Null],
         rnext[r].seq = 0 \/ head.seq = 0 \/ rnext[r].seq < Floor
  PROVE  Stepped(r)
  <1> DEFINE n == rnext[r].seq
  <1>1. /\ UNCHANGED <<shared, writer, rsite, rnext, rlast>>
        /\ \/ /\ rsite[r] = "reveal"
              /\ rpc' = [rpc EXCEPT ![r] = "resync"]
              /\ UNCHANGED <<rcopy, rlink>>
           \/ /\ rsite[r] \in {"header", "data"}
              /\ rpc' = [rpc EXCEPT ![r] = "link"]
              /\ rcopy' = [rcopy EXCEPT ![r] = <<>>]
              /\ UNCHANGED rlink
           \/ /\ rsite[r] = "release"
              /\ rpc' = [rpc EXCEPT ![r] = "rehead"]
              /\ rlink' = [rlink EXCEPT ![r] = Null]
              /\ UNCHANGED rcopy
    BY DEF Continue, RevealContinues, HeaderContinues, DataContinues, ReleaseContinues, Goto
  <1>2. TypeOK /\ MemoryInv /\ ReaderInv(r) /\ Floor' = Floor
        /\ UNCHANGED <<active, head, tail, mem, log, wpc, wnext, next, headp, frame>>
    BY <1>1, Idle
  <1>3. /\ rpc' \in [Readers -> {"check", "checktail", "resync", "peek", "active",
                          "header", "copy", "use", "link", "rehead", "eof"}]
        /\ rhead' \in [Readers -> Ptr] /\ rcopy' \in [Readers -> Seq(Cells)]
        /\ rlink' \in [Readers -> Cells]
        /\ \A q \in Readers \ {r} : /\ rpc'[q] = rpc[q] /\ rhead'[q] = rhead[q]
                                    /\ rcopy'[q] = rcopy[q] /\ rlink'[q] = rlink[q]
    <2>1. rhead' \in [Readers -> Ptr] /\ \A q \in Readers \ {r} : rhead'[q] = rhead[q]
      <3>1. rhead \in [Readers -> Ptr]
        BY <1>2 DEF TypeOK
      <3>2. CASE rhead' = rhead
        BY <3>1, <3>2
      <3>3. CASE rhead' = [rhead EXCEPT ![r] = Null]
        BY <3>1, <3>3, NullTyped
      <3> QED BY <3>2, <3>3
    <2>2. Null \in Cells /\ <<>> \in Seq(Cells)
      BY NullTyped DEF Cells
    <2>3. rpc' \in [Readers -> {"check", "checktail", "resync", "peek", "active",
                          "header", "copy", "use", "link", "rehead", "eof"}]
          /\ \A q \in Readers \ {r} : rpc'[q] = rpc[q]
      BY <1>1, <1>2 DEF TypeOK
    <2>4. rcopy' \in [Readers -> Seq(Cells)]
          /\ \A q \in Readers \ {r} : rcopy'[q] = rcopy[q]
      <3>1. rcopy' = rcopy \/ rcopy' = [rcopy EXCEPT ![r] = <<>>]
        BY <1>1
      <3>2. CASE rcopy' = rcopy
        BY <1>2, <3>2 DEF TypeOK
      <3>3. CASE rcopy' = [rcopy EXCEPT ![r] = <<>>]
        BY <1>2, <2>2, <3>3 DEF TypeOK
      <3> QED BY <3>1, <3>2, <3>3
    <2>5. rlink' \in [Readers -> Cells]
          /\ \A q \in Readers \ {r} : rlink'[q] = rlink[q]
      <3>1. rlink' = rlink \/ rlink' = [rlink EXCEPT ![r] = Null]
        BY <1>1
      <3>2. CASE rlink' = rlink
        BY <1>2, <3>2 DEF TypeOK
      <3>3. CASE rlink' = [rlink EXCEPT ![r] = Null]
        BY <1>2, <2>2, <3>3 DEF TypeOK
      <3> QED BY <3>1, <3>2, <3>3
    <2> QED BY <2>1, <2>3, <2>4, <2>5
  <1>4. TypeOK'
    BY <1>1, <1>2, <1>3 DEF TypeOK
  <1>5. \/ rpc'[r] = "resync" /\ rsite[r] = "reveal"
        \/ rpc'[r] = "link" /\ rsite[r] \in {"header", "data"}
        \/ rpc'[r] = "rehead" /\ rsite[r] = "release"
    BY <1>1, <1>2 DEF TypeOK
  <1>6. PositionInv(r)' /\ CopyInv(r)' /\ OrderInv(r)'
    <2>1. PositionInv(r)'
      BY <1>1, <1>2, <1>5 DEF ReaderInv, PositionInv, AtMessage, OffOf
    <2>2. CopyInv(r)'
      BY <1>5 DEF CopyInv, Checking
    <2>3. n # 0 => Past(r)
      BY <1>2, ReaderTyped DEF ReaderInv, OrderInv, Past
    <2>4. rsite[r] = "release" => n # 0
      BY <1>2, ReaderTyped DEF ReaderInv, PositionInv, AtMessage
    <2>5. rsite[r] = "reveal" => ~(n # 0 /\ rlast[r] = n)
      BY <1>2 DEF ReaderInv, OrderInv, Checking
    <2>6. OrderInv(r)'
      BY <1>1, <1>2, <1>5, <2>3, <2>4, <2>5 DEF ReaderInv, OrderInv, Checking, Past
    <2> QED BY <2>1, <2>2, <2>6
  <1> QED BY <1>1, <1>3, <1>4, <1>6 DEF Stepped, Same, ReaderInv

LEMMA CheckFailsInv ==
  ASSUME IInv, NEW r \in Readers, CheckFails(r)
  PROVE  Stepped(r)
  BY RefuseInv DEF CheckFails

(* While the numbers have not wrapped, the second look at the tail never   *)
(* changes the answer.                                                     *)
LEMMA CheckTailInv ==
  ASSUME IInv, NEW r \in Readers, CheckTail(r)
  PROVE  Stepped(r)
  <1>1. UNCHANGED <<shared, writer>>
    BY DEF CheckTail, Continue
  <1>2. rnext[r].seq < rhead[r].seq /\ rhead[r].seq <= Floor /\ rpc[r] = "checktail"
    BY <1>1, Idle DEF CheckTail, ReaderInv, PositionInv
  <1>3. MemoryInv
    BY DEF IInv
  <1>4. rnext[r].seq < Floor /\ ~(tail.seq < rhead[r].seq)
    BY <1>2, <1>3, ReaderTyped
  <1>5. (rnext[r].seq <= tail.seq /\ tail.seq < rhead[r].seq) = FALSE
    BY <1>4
  <1>6. Continue(r, FALSE)
    BY <1>5 DEF CheckTail
  <1> QED BY <1>2, <1>4, <1>6, RefuseInv DEF CheckTail

(* mrb_check() answers yes: the message is at or after head.               *)
LEMMA CheckPassesInv ==
  ASSUME NoWrap, IInv, NEW r \in Readers, CheckPasses(r)
  PROVE  Stepped(r)
  <1> USE MrbAssumption
  <1> DEFINE n == rnext[r].seq
             p == [seq |-> n + 1, off |-> OffOf(n + 1)]
  <1>1. /\ UNCHANGED <<shared, writer, rhead, rlast>>
        /\ rcopy' = rcopy \/ rcopy' = [rcopy EXCEPT ![r] = rcopy[r]]
        /\ rpc[r] = "check" /\ n # 0 /\ head.seq # 0 /\ n >= head.seq
    BY DEF CheckPasses, Continue, RevealContinues, HeaderContinues, DataContinues,
       ReleaseContinues
  <1>2. TypeOK /\ MemoryInv /\ ReaderInv(r) /\ Floor' = Floor
        /\ UNCHANGED <<active, head, tail, mem, log, wpc, wnext, next, headp, frame>>
    BY <1>1, Idle
  <1>3. n \in Nat /\ n >= Floor /\ Floor \in Nat
    BY <1>1, <1>2, ReaderTyped
  <1>7. rcopy' = rcopy
    BY <1>1, <1>2 DEF TypeOK
  <1>4. ASSUME rsite[r] # "reveal"
        PROVE  n \in 1 .. Len(log) /\ log[n].len \in 2 .. Size
    BY <1>1, <1>2, <1>4, LoadFacts DEF ReaderInv, AtMessage
  <1>5. ASSUME rsite[r] # "release" PROVE Stepped(r)
    <2>1. /\ UNCHANGED <<rsite, rnext, rlink>>
          /\ \/ rsite[r] = "reveal" /\ rpc' = [rpc EXCEPT ![r] = "peek"]
             \/ rsite[r] = "header" /\ rpc' = [rpc EXCEPT ![r] = "copy"]
             \/ rsite[r] = "data"   /\ rpc' = [rpc EXCEPT ![r] = "use"]
      BY <1>5 DEF CheckPasses, Continue, RevealContinues, HeaderContinues,
         DataContinues, ReleaseContinues, Goto
    <2>2. rcopy' = rcopy
      BY <1>7
    <2>3. /\ TypeOK'
          /\ \A q \in Readers \ {r} : rpc'[q] = rpc[q]
          /\ \/ rsite[r] = "reveal" /\ rpc'[r] = "peek"
             \/ rsite[r] = "header" /\ rpc'[r] = "copy"
             \/ rsite[r] = "data"   /\ rpc'[r] = "use"
      BY <1>1, <1>2, <2>1, <2>2 DEF TypeOK
    <2>4. PositionInv(r)'
      BY <1>1, <1>2, <1>4, <2>1, <2>3 DEF ReaderInv, PositionInv, AtMessage, OffOf
    <2>5. CopyInv(r)'
      <3>1. CASE rsite[r] = "reveal"
        BY <2>3, <3>1 DEF CopyInv, Checking
      <3>2. CASE rsite[r] = "header"
        <4>1. Len(rcopy[r]) = 1 /\ \A i \in 1 .. Len(rcopy[r]) :
                                      rcopy[r][i] = Block(n, i, log[n].len)
          BY <1>1, <1>2, <1>3, <3>2 DEF ReaderInv, CopyInv, Checking
        <4>2. 1 \in 1 .. log[n].len - 1
          BY <1>4, <3>2 DEF MrbAssumption
        <4> QED BY <1>1, <1>2, <2>1, <2>2, <2>3, <3>2, <4>1, <4>2 DEF CopyInv, Checking
      <3>3. CASE rsite[r] = "data"
        <4>1. Len(rcopy[r]) = log[n].len - 1 /\ \A i \in 1 .. Len(rcopy[r]) :
                                      rcopy[r][i] = Block(n, i, log[n].len)
          BY <1>1, <1>2, <1>3, <3>3 DEF ReaderInv, CopyInv, Checking
        <4>2. rcopy[r] = Message(n)
          <5>1. rcopy[r] = [i \in 1 .. Len(rcopy[r]) |-> rcopy[r][i]]
            <6>1. rcopy[r] \in Seq(Cells)
              BY <1>2, ReaderTyped
            <6> QED BY <6>1, LenProperties
          <5> QED BY <4>1, <5>1 DEF Message
        <4>3. rpc'[r] = "use" /\ rsite'[r] = "data"
          BY <2>1, <2>3, <3>3
        <4> QED BY <1>1, <1>2, <2>1, <2>2, <4>2, <4>3 DEF CopyInv, Checking, Message
      <3> QED BY <2>3, <3>1, <3>2, <3>3
    <2>6. OrderInv(r)'
      BY <1>1, <1>2, <2>1, <2>3 DEF ReaderInv, OrderInv, Checking, Past
    <2> QED BY <1>1, <2>1, <2>2, <2>3, <2>4, <2>5, <2>6 DEF Stepped, Same, ReaderInv
  <1>6. ASSUME rsite[r] = "release" PROVE Stepped(r)
    <2>1. p \in Ptr
      <3>1. n + 1 \in Seqs /\ n + 1 \in Nat \ {0}
        <4>1. n \in 1 .. Len(log) /\ Len(log) \in Nat
          BY <1>2, <1>4, <1>6, ReaderTyped
        <4>2. Len(log) <= MaxMsgs
          BY <1>2 DEF MemoryInv, LogInv
        <4> QED BY <4>1, <4>2 DEF NoWrap, Seqs, MrbAssumption
      <3> QED BY <1>2, <3>1, OffsetTyped DEF Ptr
    <2>2. rlink[r] = p
      BY <1>1, <1>2, <1>3, <1>6 DEF ReaderInv, CopyInv, Checking
    <2>3. /\ rnext' = [rnext EXCEPT ![r] = p]
          /\ rpc' = [rpc EXCEPT ![r] = "check"] /\ rsite' = [rsite EXCEPT ![r] = "reveal"]
          /\ rlink' = [rlink EXCEPT ![r] = Null]
      <3>1. Unpack(rlink[r]) = {p}
        BY <2>1, <2>2 DEF Unpack
      <3> QED BY <1>6, <3>1 DEF CheckPasses, Continue, RevealContinues, HeaderContinues,
         DataContinues, ReleaseContinues, CallCheck
    <2> HIDE DEF p
    <2>4. /\ TypeOK'
          /\ rnext'[r] = p /\ rpc'[r] = "check" /\ rsite'[r] = "reveal"
          /\ \A q \in Readers \ {r} : /\ rnext'[q] = rnext[q] /\ rpc'[q] = rpc[q]
                                      /\ rsite'[q] = rsite[q] /\ rlink'[q] = rlink[q]
      <3>1. Null \in Cells
        BY NullTyped DEF Cells
      <3> QED BY <1>1, <1>2, <1>7, <2>1, <2>3, <3>1 DEF TypeOK
    <2>5. p.seq = n + 1 /\ p.off = OffOf(n + 1)
      BY DEF p
    <2>6. PositionInv(r)'
      <3>1. n + 1 <= tail.seq
        BY <1>2, <1>4, <1>6, ReaderTyped
      <3> QED BY <1>1, <1>2, <2>4, <2>5, <3>1 DEF PositionInv, AtMessage, OffOf
    <2>7. CopyInv(r)'
      BY <2>4 DEF CopyInv, Checking
    <2>8. OrderInv(r)'
      <3>1. rlast[r] <= n /\ rlast[r] <= Len(log)
        BY <1>1, <1>2 DEF ReaderInv, OrderInv
      <3>2. rlast[r] < n + 1
        BY <1>2, <1>3, <3>1, ReaderTyped
      <3> QED BY <1>1, <1>2, <1>3, <2>4, <2>5, <3>1, <3>2, ReaderTyped
              DEF OrderInv, Checking, Past
    <2> QED BY <1>1, <1>7, <2>3, <2>4, <2>6, <2>7, <2>8 DEF Stepped, Same, ReaderInv
  <1> QED BY <1>5, <1>6

LEMMA ReaderStep ==
  ASSUME NoWrap, IInv, NEW r \in Readers, ReaderNext(r)
  PROVE  Stepped(r) /\ IInv'
  <1>1. Stepped(r)
    BY CheckFailsInv, CheckPassesInv, CheckAsksTailInv, CheckTailInv, ResyncInv, PeekInv,
       LoadActiveInv, CopyHeaderInv, SkipInv, CopyBlockInv, CopyDoneInv, UseInv,
       LoadLinkInv, ReheadInv DEF ReaderNext
  <1> QED BY <1>1, ReaderFrame DEF Stepped

-----------------------------------------------------------------------------
(* The invariant                                                           *)

LEMMA InitInv ==
  ASSUME Init
  PROVE  IInv
  <1> USE MrbAssumption
  <1>1. /\ head = Null /\ log = <<>> /\ wpc = "client" /\ frame = NoFrame
        /\ tail = [seq |-> 1, off |-> 0]
        /\ Len(log) = 0
    BY DEF Init
  <1>2. 0 \in Offsets /\ 0 \in Seqs /\ 1 \in Seqs
    BY DEF MrbAssumption, Offsets, Seqs
  <1>3. TypeOK
    <2>1. active \in BOOLEAN
      BY Zenon DEF Init
    <2>2. Null \in Cells /\ <<>> \in Seq(Cells)
          /\ <<>> \in Seq([off : Offsets, pos : Nat, len : Nat])
      BY NullTyped DEF Cells
    <2>3. tail \in Ptr /\ Null \in Ptr /\ frame \in [len : Nat, fill : Nat]
          /\ Null \in [seq : Nat, off : Offsets]
      BY <1>1, <1>2, NullTyped DEF Ptr, Seqs, NoFrame, Null
    <2> QED BY <1>2, <2>1, <2>2, <2>3 DEF Init, TypeOK
  <1>4. LogInv /\ HeadInv
    BY <1>1 DEF LogInv, HeadInv, Null, MrbAssumption
  <1>5. Live = {}
    BY <1>1 DEF Live, Floor, Null
  <1>6. WindowInv /\ LiveIntact /\ FrameInv /\ ReservationInv /\ WriterInv
    BY <1>1, <1>5 DEF WindowInv, LiveIntact, FrameInv, ReservationInv, WriterInv, NoFrame
  <1>7. ASSUME NEW r \in Readers PROVE PositionInv(r) /\ CopyInv(r) /\ OrderInv(r)
    <2>1. rpc[r] = "check" /\ rsite[r] = "reveal" /\ rnext[r].seq = 0 /\ rlast[r] = 0
      BY DEF Init, Null
    <2> QED BY <1>1, <2>1 DEF PositionInv, CopyInv, OrderInv, AtMessage, Checking, Past,
               Floor, Null
  <1> QED BY <1>3, <1>4, <1>6, <1>7 DEF IInv, MemoryInv

LEMMA NextInv ==
  ASSUME NoWrap, IInv, [Next]_vars
  PROVE  IInv'
  <1>1. ASSUME WriterNext PROVE IInv'
    <2>1. MemoryInv' /\ Progress
      BY <1>1, WriterStep DEF IInv
    <2>2. Advance /\ \A r \in Readers : Same(r)
      BY <2>1 DEF Progress, readers, Same
    <2>3. \A r \in Readers : ReaderInv(r)'
      BY <2>1, <2>2, ReaderKept DEF IInv, ReaderInv
    <2> QED BY <2>1, <2>3 DEF IInv, ReaderInv
  <1>2. ASSUME NEW r \in Readers, ReaderNext(r) PROVE IInv'
    BY <1>2, ReaderStep
  <1>3. ASSUME UNCHANGED vars PROVE IInv'
    <2>1. UNCHANGED <<shared, writer>> /\ TypeOK'
      BY <1>3 DEF vars, shared, writer, readers, IInv, MemoryInv, TypeOK
    <2>2. MemoryInv /\ MemoryInv' /\ Advance
      BY <2>1, BufferKept DEF IInv
    <2>3. \A r \in Readers : ReaderInv(r)'
      BY <1>3, <2>2, ReaderKept DEF IInv, ReaderInv, vars, readers, Same
    <2> QED BY <2>2, <2>3 DEF IInv, ReaderInv
  <1> QED BY <1>1, <1>2, <1>3 DEF Next, Finished

LEMMA Invariance ==
  ASSUME NoWrap
  PROVE  Spec => []IInv
  <1>1. IInv /\ [Next]_vars => IInv'
    BY NextInv
  <1> QED BY <1>1, InitInv, PTL DEF Spec

-----------------------------------------------------------------------------
(* What follows                                                            *)

(* Every variable stays in its range: no offset outside the ring, no       *)
(* sequence number that does not fit into its bits.                        *)
THEOREM TypeCorrect ==
  ASSUME NoWrap
  PROVE  Spec => []TypeOK
  BY Invariance, PTL DEF IInv, MemoryInv

(* Every message from head to tail is intact in memory and linked to its   *)
(* successor.                                                              *)
THEOREM LiveMessagesIntact ==
  ASSUME NoWrap
  PROVE  Spec => []LiveIntact
  BY Invariance, PTL DEF IInv, MemoryInv

(* A copy that has passed the checks of mrb_check() is one message.        *)
THEOREM VerifiedCopies ==
  ASSUME NoWrap
  PROVE  Spec => []VerifiedCopyIntact
  <1>1. IInv => VerifiedCopyIntact
    BY DEF IInv, PositionInv, CopyInv, AtMessage, VerifiedCopyIntact
  <1> QED BY <1>1, Invariance, PTL

(* A reader's position is always one the writer has given out.             *)
THEOREM GenuinePositions ==
  ASSUME NoWrap
  PROVE  Spec => []PositionGenuine
  <1>1. IInv => PositionGenuine
    BY DEF IInv, PositionInv, PositionGenuine
  <1> QED BY <1>1, Invariance, PTL

(* The size a reader copies with comes from the header of its message.     *)
THEOREM SoundHeaders ==
  ASSUME NoWrap
  PROVE  Spec => []HeaderSound
  <1>1. ASSUME IInv, NEW r \in Readers, rpc[r] = "copy"
        PROVE  rcopy[r][1] = Message(rnext[r].seq)[1]
    <2> DEFINE n == rnext[r].seq
    <2>1. MemoryInv /\ PositionInv(r) /\ AtMessage(r) /\ CopyInv(r)
      BY <1>1 DEF IInv, AtMessage
    <2>2. log[n].len \in 2 .. Size
      BY <2>1, LoadFacts
    <2>3. 1 \in 1 .. log[n].len - 1 /\ rcopy[r][1] = Block(n, 1, log[n].len)
      BY <1>1, <2>1, <2>2, MrbAssumption DEF CopyInv, MrbAssumption
    <2> QED BY <2>3 DEF Message
  <1>2. IInv => HeaderSound
    BY <1>1 DEF HeaderSound
  <1> QED BY <1>2, Invariance, PTL

(* No block that is being written belongs to a message a reader would      *)
(* still be told is valid.                                                 *)
THEOREM ReservationsDisjoint ==
  ASSUME NoWrap
  PROVE  Spec => []ReservationDisjoint
  <1> USE MrbAssumption
  <1>1. ASSUME IInv, Reserved, NEW n \in Live,
               NEW i \in 0 .. log[n].len - 1, NEW j \in 0 .. frame.len - 1
        PROVE  Wrap(log[n].off + i) # Wrap(tail.off + j)
    <2>1. TypeOK /\ LogInv /\ WindowInv /\ ReservationInv /\ HeadInv /\ WriterInv
      BY <1>1 DEF IInv, MemoryInv
    <2>2. n \in 1 .. Len(log)
      BY <2>1, FloorRange, LogTyped DEF Live
    <2> DEFINE b == Back(n)
               o == log[n].off
               t == tail.off
    <2>3. /\ o \in Offsets /\ t \in Offsets /\ log[n].len \in Nat /\ log[n].pos \in Nat
          /\ frame.len \in Nat /\ TailPos \in Nat
          /\ log[n].pos + log[n].len <= TailPos
      BY <2>1, <2>2, LogTyped DEF TypeOK, LogInv
    <2>4. b \in Nat /\ i \in Nat /\ j \in Nat /\ i < b
      BY <2>3 DEF Back
    <2>5. b + frame.len <= Size
      BY <1>1, <2>1 DEF ReservationInv
    <2>6. b + j < Size
      BY <2>3, <2>4, <2>5 DEF MrbAssumption
    <2>7. o = IF b <= t THEN t - b ELSE t - b + Size
      BY <2>1 DEF WindowInv
    <2> HIDE DEF b, o, t
    <2>8. Wrap(o + i) # Wrap(t + j)
      BY <2>3, <2>4, <2>6, <2>7, BlocksDiffer
    <2> QED BY <2>8 DEF o, t
  <1>2. IInv => ReservationDisjoint
    BY <1>1 DEF ReservationDisjoint, Span
  <1> QED BY <1>2, Invariance, PTL

(* The mapping of the ring and its mirror covers every reservation.        *)
THEOREM ReservationsMapped ==
  ASSUME NoWrap
  PROVE  Spec => []MirrorCovers
  <1> USE MrbAssumption
  <1>1. ASSUME IInv, Reserved
        PROVE  frame.len <= Size /\ tail.off + frame.len <= Size + MaxItem
    <2>1. TypeOK /\ FrameInv /\ WriterInv
      BY <1>1 DEF IInv, MemoryInv
    <2>2. frame.len # 0 /\ frame.len \in Nat /\ tail.off \in Nat
      BY <1>1, <2>1, LogTyped DEF Reserved, WriterInv, TypeOK, Offsets, MrbAssumption
    <2> QED BY <2>1, <2>2 DEF FrameInv, MrbAssumption
  <1>2. IInv => MirrorCovers
    BY <1>1 DEF MirrorCovers
  <1> QED BY <1>2, Invariance, PTL

(* A message that has been reclaimed never becomes valid again.            *)
THEOREM FloorMonotonic ==
  ASSUME NoWrap
  PROVE  Spec => FloorNeverFalls
  <1>1. ASSUME IInv, Next PROVE Floor' >= Floor
    <2>1. CASE WriterNext
      <3>1. MemoryInv /\ MemoryInv' /\ Advance
        BY <1>1, <2>1, WriterStep DEF IInv, Progress
      <3> QED BY <3>1 DEF Advance
    <2>2. ASSUME NEW r \in Readers, ReaderNext(r) PROVE Floor' >= Floor
      <3>1. Floor' = Floor /\ MemoryInv
        BY <1>1, <2>2, ReaderStep, Idle DEF Stepped
      <3> QED BY <2>2, <3>1, ReaderTyped
    <2>3. ASSUME UNCHANGED vars PROVE Floor' >= Floor
      <3>1. Floor \in Nat
        BY <1>1, LogTyped, FloorRange DEF IInv, MemoryInv
      <3> QED BY <2>3, <3>1 DEF vars, shared, writer, Floor
    <2> QED BY <1>1, <2>1, <2>2, <2>3 DEF Next, Finished
  <1>2. IInv /\ [Next]_vars => [Floor' >= Floor]_vars
    BY <1>1
  <1> QED BY <1>2, Invariance, PTL DEF Spec, FloorNeverFalls

(* A reader uses messages in the order they were committed, none twice.    *)
THEOREM OrderedDelivery ==
  ASSUME NoWrap
  PROVE  Spec => DeliveryInOrder
  <1>1. ASSUME IInv, NEW r \in Readers, Use(r) PROVE rnext[r].seq > rlast[r]
    <2>1. rpc[r] = "use"
      BY <1>1 DEF Use
    <2>2. rnext[r].seq \in 1 .. Len(log)
      BY <1>1, <2>1 DEF IInv, PositionInv, AtMessage
    <2>3. rlast[r] <= rnext[r].seq /\ rlast[r] # rnext[r].seq
      BY <1>1, <2>1, <2>2 DEF IInv, OrderInv, Checking
    <2>4. rlast[r] \in Nat /\ Len(log) \in Nat
      BY <1>1, ReaderTyped DEF IInv
    <2> QED BY <2>2, <2>3, <2>4
  <1>2. IInv => [\A r \in Readers : Use(r) => rnext[r].seq > rlast[r]]_vars
    BY <1>1
  <1> QED BY <1>2, Invariance, PTL DEF DeliveryInOrder

-----------------------------------------------------------------------------
(* The refinement of the monitored log                                     *)

LEMMA AppendFunction ==
  ASSUME NEW S, NEW s \in Seq(S), NEW m \in S
  PROVE  Append(s, m) = [n \in 1 .. Len(s) + 1 |-> IF n = Len(s) + 1 THEN m ELSE s[n]]
  <1> DEFINE a == Append(s, m)
             k == Len(s)
  <1>1. a \in Seq(S) /\ Len(a) = k + 1 /\ k \in Nat
        /\ (\A i \in 1 .. k : a[i] = s[i]) /\ a[k + 1] = m
    BY AppendProperties, LenProperties
  <1>2. a = [n \in 1 .. k + 1 |-> a[n]]
    BY <1>1, LenProperties
  <1> HIDE DEF a, k
  <1>3. \A n \in 1 .. k + 1 : a[n] = IF n = k + 1 THEN m ELSE s[n]
    BY <1>1
  <1>4. a = [n \in 1 .. k + 1 |-> IF n = k + 1 THEN m ELSE s[n]]
    BY <1>2, <1>3
  <1> QED BY <1>4 DEF a, k

LEMMA PublishedTyped ==
  ASSUME TypeOK
  PROVE  /\ Published \in Seq({Message(n) : n \in 1 .. Len(log)})
         /\ Len(Published) = Len(log)
  <1> DEFINE S == {Message(n) : n \in 1 .. Len(log)}
             k == Len(log)
  <1>1. k \in Nat
    BY LogTyped
  <1>2. \A n \in 1 .. k : Message(n) \in S
    OBVIOUS
  <1> HIDE DEF S, k
  <1>3. [n \in 1 .. k |-> Message(n)] \in Seq(S)
    BY <1>1, <1>2
  <1>4. Len([n \in 1 .. k |-> Message(n)]) = k
    BY <1>1
  <1> QED BY <1>3, <1>4 DEF Published, S, k

(* What the log sees of the readers does not change with the writer.       *)
LEMMA ReadersStay ==
  ASSUME UNCHANGED readers
  PROVE  UNCHANGED <<LastUsed, InUse, Ended>>
  BY DEF readers, LastUsed, InUse, Ended

(* A step of the writer that commits nothing may make the log forget.      *)
LEMMA QuietStep ==
  ASSUME MemoryInv, MemoryInv', Advance, UNCHANGED <<active, log, readers>>
  PROVE  Log!Forget
  <1>1. Floor' \in Floor .. Len(log) + 1
    <2>1. Floor \in 1 .. Len(log) + 1 /\ Len(log) \in Nat
      BY FloorRange, LogTyped DEF MemoryInv
    <2>2. TypeOK' /\ HeadInv' /\ WriterInv' /\ Len(log') = Len(log)
      BY DEF MemoryInv
    <2>3. Floor' \in 1 .. Len(log') + 1
      <3>1. tail'.seq = Len(log') + 1 /\ head'.seq \in Nat /\ head'.seq <= Len(log')
        BY <2>2 DEF TypeOK, HeadInv, Ptr, Seqs
      <3>2. wpc' = "publish" => Len(log') > 0
        BY <2>2 DEF WriterInv
      <3> QED BY <2>1, <2>2, <3>1, <3>2 DEF Floor
    <2> QED BY <2>1, <2>2, <2>3 DEF Advance
  <1>2. Len(Published) = Len(log) /\ Published' = Published
    BY PublishedTyped DEF MemoryInv, Published, Message
  <1> QED BY <1>1, <1>2, ReadersStay DEF Log!Forget

(* A commit publishes.                                                     *)
LEMMA CommitPublishes ==
  ASSUME NoWrap, RefInv, Commit \/ CommitFirst
  PROVE  Log!Publish
  <1>0. PICK k : k = Len(log)
    OBVIOUS
  <1> DEFINE m == [i \in 1 .. frame.len - 1 |-> Block(k + 1, i, frame.len)]
  <1>1. MemoryInv /\ TypeOK /\ HeadInv /\ OpenInv /\ OfferedInv
    BY DEF RefInv, IInv, MemoryInv
  <1>2. StoreTail /\ wpc = "client" /\ UNCHANGED <<active, head, readers>>
    BY DEF Commit, CommitFirst, StoreTail
  <1>3. active
    BY <1>1, <1>2 DEF OpenInv
  <1>4. /\ k \in Nat /\ k < MaxMsgs
        /\ frame.len \in 2 .. Size
        /\ tail'.seq = k + 2
        /\ Len(log') = k + 1 /\ log'[k + 1].len = frame.len
        /\ \A n \in 1 .. k : log'[n] = log[n]
    BY <1>0, <1>1, <1>2, LogGrows, LogTyped
  <1>5. Floor' = Floor
    <2>1. CASE Commit
      <3>1. head'.seq = head.seq /\ head.seq # 0
        BY <1>1, <1>2, <2>1 DEF Commit, HeadInv
      <3> QED BY <3>1 DEF Floor
    <2>2. CASE CommitFirst
      <3>1. head'.seq = 0 /\ head.seq = 0 /\ wpc' = "publish"
        BY <1>2, <2>2 DEF CommitFirst, Null
      <3>2. tail.seq = k + 1
        BY <1>0, <1>1 DEF HeadInv
      <3> QED BY <1>2, <1>4, <3>1, <3>2 DEF Floor
    <2> QED BY <2>1, <2>2
  <1>6. m \in Postable
    <2>1. k + 1 \in 1 .. MaxMsgs
      BY <1>4, MrbAssumption DEF MrbAssumption
    <2>2. frame.len - 1 \in Payloads /\ frame.len - 1 + 1 = frame.len
      BY <1>1, <1>4, MrbAssumption DEF OfferedInv, MrbAssumption
    <2> QED BY <2>1, <2>2 DEF Postable
  <1>7. Published' = Append(Published, m)
    <2>1. Published' = [n \in 1 .. k + 1 |-> Message(n)']
      BY <1>4 DEF Published
    <2>2. \A n \in 1 .. k : Message(n)' = Message(n)
      BY <1>4 DEF Message
    <2>3. Message(k + 1)' = m
      BY <1>4 DEF Message
    <2> DEFINE S == {Message(n) : n \in 1 .. Len(log)} \cup {m}
    <2>4. Published \in Seq(S) /\ Len(Published) = k /\ m \in S
      <3>1. Published \in Seq({Message(n) : n \in 1 .. Len(log)}) /\ Len(Published) = k
        BY <1>0, <1>1, PublishedTyped
      <3> QED BY <3>1
    <2> HIDE DEF S, m
    <2>5. Append(Published, m) =
            [n \in 1 .. k + 1 |-> IF n = k + 1 THEN m ELSE Published[n]]
      BY <2>4, AppendFunction
    <2>6. \A n \in 1 .. k : Published[n] = Message(n)
      BY <1>0 DEF Published
    <2>7. \A n \in 1 .. k + 1 :
            Message(n)' = IF n = k + 1 THEN m ELSE Published[n]
      <3>1. \A n \in 1 .. k + 1 : n = k + 1 \/ n \in 1 .. k
        BY <1>4
      <3> QED BY <2>2, <2>3, <2>6, <3>1
    <2> QED BY <2>1, <2>5, <2>7
  <1> HIDE DEF m
  <1> QED BY <1>2, <1>3, <1>5, <1>6, <1>7, ReadersStay DEF Log!Publish

LEMMA WriterImplements ==
  ASSUME NoWrap, RefInv, WriterNext
  PROVE  Log!Next
  <1>1. MemoryInv /\ MemoryInv' /\ Advance /\ UNCHANGED readers
    BY WriterStep DEF RefInv, IInv, Progress
  <1>2. CASE Commit \/ CommitFirst
    BY <1>1, <1>2, CommitPublishes DEF Log!Next
  <1>3. CASE Shutdown
    <2>1. UNCHANGED log /\ active' = FALSE /\ Floor' = Floor
      BY <1>3 DEF Shutdown, Floor
    <2>2. Published' = Published
      BY <2>1 DEF Published, Message
    <2> QED BY <1>1, <2>1, <2>2, ReadersStay DEF Log!Next, Log!Close
  <1>4. CASE ~(Commit \/ CommitFirst \/ Shutdown)
    <2>1. UNCHANGED <<active, log>>
      BY <1>4 DEF WriterNext, WriterCall, Reserve, ReserveFails, WalkOn, StoreHead,
         StoreLink, PublishHead, Fill, Crash, shared
    <2> QED BY <1>1, <2>1, QuietStep DEF Log!Next
  <1> QED BY <1>2, <1>3, <1>4

(* Reader r hands nothing over and takes nothing back.                     *)
LEMMA SilentStep ==
  ASSUME IInv, NEW r \in Readers, Stepped(r), rlast' = rlast,
         rpc[r] # "use", rpc'[r] # "use", rpc[r] # "eof", rpc'[r] # "eof"
  PROVE  UNCHANGED Log!vars
  <1>1. UNCHANGED <<active, log>> /\ Floor' = Floor
    BY Idle DEF Stepped
  <1>2. \A q \in Readers : /\ (rpc'[q] = "use") = (rpc[q] = "use")
                           /\ (rpc'[q] = "eof") = (rpc[q] = "eof")
                           /\ rpc[q] = "use" => rnext'[q] = rnext[q] /\ rcopy'[q] = rcopy[q]
    BY DEF Stepped, Same
  <1>3. UNCHANGED <<LastUsed, InUse, Ended>>
    BY <1>2 DEF LastUsed, InUse, Ended
  <1>4. UNCHANGED Published
    BY <1>1 DEF Published, Message
  <1> QED BY <1>1, <1>3, <1>4 DEF Log!vars

(* A check that has passed hands over the message it has validated.        *)
LEMMA CheckDelivers ==
  ASSUME NoWrap, IInv, NEW r \in Readers, CheckPasses(r), rsite[r] = "data"
  PROVE  Log!Deliver(r)
  <1>0. PICK n : n = rnext[r].seq
    OBVIOUS
  <1>1. /\ rpc[r] = "check" /\ n # 0 /\ head.seq # 0 /\ n >= head.seq
        /\ rpc' = [rpc EXCEPT ![r] = "use"]
        /\ rcopy' = [rcopy EXCEPT ![r] = rcopy[r]]
        /\ UNCHANGED <<shared, writer, rnext, rlast>>
    BY <1>0 DEF CheckPasses, Continue, RevealContinues, HeaderContinues, DataContinues,
       ReleaseContinues, Goto
  <1>2. /\ TypeOK /\ MemoryInv /\ ReaderInv(r) /\ Floor' = Floor
        /\ UNCHANGED <<active, log>>
    BY <1>1, Idle
  <1>3. Stepped(r)
    BY CheckPassesInv
  <1>4. rcopy' = rcopy /\ \E S : rpc \in [Readers -> S]
    BY <1>1, <1>2 DEF TypeOK
  <1>5. n \in Floor .. Len(log) /\ n > rlast[r]
    <2>1. n \in 1 .. Len(log)
      BY <1>0, <1>1, <1>2 DEF ReaderInv, PositionInv, AtMessage
    <2>2. rlast[r] <= n /\ rlast[r] # n
      BY <1>0, <1>1, <1>2 DEF ReaderInv, OrderInv, Checking
    <2> QED BY <1>1, <1>2, <2>1, <2>2, ReaderTyped
  <1>6. rcopy[r] = Published[n]
    <2>1. rpc'[r] = "use" /\ rnext'[r].seq = n
      BY <1>0, <1>1, <1>4
    <2>2. rcopy'[r] = Message(n)'
      BY <1>3, <2>1 DEF Stepped, ReaderInv, CopyInv, Message
    <2>4. Message(n)' = Message(n)
      BY <1>2 DEF Message
    <2>3. n \in 1 .. Len(log)
      BY <1>2, <1>5, ReaderTyped
    <2> QED BY <1>4, <2>2, <2>3, <2>4 DEF Published
  <1>7. InUse[r] = <<>> /\ LastUsed[r] = rlast[r] /\ Len(Published) = Len(log)
    BY <1>1, <1>2, PublishedTyped DEF InUse, LastUsed
  <1>8. LastUsed' = [LastUsed EXCEPT ![r] = n] /\ InUse' = [InUse EXCEPT ![r] = Published[n]]
    BY <1>0, <1>1, <1>4, <1>6 DEF LastUsed, InUse
  <1>9. Ended' = Ended
    BY <1>1, <1>4 DEF Ended
  <1>10. Published' = Published
    BY <1>2 DEF Published, Message
  <1> QED BY <1>2, <1>5, <1>7, <1>8, <1>9, <1>10 DEF Log!Deliver

LEMMA UseReleases ==
  ASSUME NoWrap, IInv, NEW r \in Readers, Use(r)
  PROVE  Log!Release(r)
  <1>1. /\ rpc[r] = "use" /\ rpc' = [rpc EXCEPT ![r] = "link"]
        /\ rlast' = [rlast EXCEPT ![r] = rnext[r].seq]
        /\ rcopy' = [rcopy EXCEPT ![r] = <<>>]
        /\ UNCHANGED <<shared, writer, rnext>>
    BY DEF Use, Goto
  <1>2. TypeOK /\ Floor' = Floor /\ UNCHANGED <<active, log>>
    BY <1>1, Idle
  <1>3. rlast \in [Readers -> Seqs] /\ \E S : rpc \in [Readers -> S]
    BY <1>2 DEF TypeOK
  <1>4. LastUsed' = LastUsed /\ Ended' = Ended /\ InUse' = [InUse EXCEPT ![r] = <<>>]
    BY <1>1, <1>2, <1>3 DEF LastUsed, Ended, InUse, TypeOK
  <1>5. Published' = Published
    BY <1>2 DEF Published, Message
  <1> QED BY <1>2, <1>4, <1>5 DEF Log!Release

(* The end of the stream is reported when the buffer is inactive.          *)
LEMMA EofFinishes ==
  ASSUME NoWrap, IInv, NEW r \in Readers, LoadActive(r), ~active
  PROVE  Log!Finish(r)
  <1>1. /\ rpc[r] = "active" /\ rpc' = [rpc EXCEPT ![r] = "eof"]
        /\ UNCHANGED <<shared, writer, rnext, rcopy, rlast>>
    BY DEF LoadActive, Goto
  <1>2. TypeOK /\ Floor' = Floor /\ UNCHANGED <<active, log>>
    BY <1>1, Idle
  <1>3. \E S : rpc \in [Readers -> S]
    BY <1>2 DEF TypeOK
  <1>4. LastUsed' = LastUsed /\ InUse' = InUse /\ Ended' = Ended \cup {r}
    BY <1>1, <1>3 DEF LastUsed, Ended, InUse
  <1>5. Published' = Published
    BY <1>2 DEF Published, Message
  <1> QED BY <1>2, <1>4, <1>5 DEF Log!Finish

(* The tail never lies where mrb_check() would need it to be for a         *)
(* message behind head to be valid.                                        *)
LEMMA TailRefuses ==
  ASSUME IInv, NEW r \in Readers, rpc[r] = "checktail"
  PROVE  ~(rnext[r].seq <= tail.seq /\ tail.seq < rhead[r].seq)
  <1>1. MemoryInv /\ PositionInv(r)
    BY DEF IInv
  <1>2. rhead[r].seq <= Floor
    BY <1>1 DEF PositionInv
  <1> QED BY <1>1, <1>2, ReaderTyped

LEMMA ReaderImplements ==
  ASSUME NoWrap, IInv, NEW r \in Readers, ReaderNext(r)
  PROVE  [Log!Next]_Log!vars
  <1>1. Stepped(r) /\ TypeOK /\ \E S : rpc \in [Readers -> S]
    BY ReaderStep DEF IInv, MemoryInv, TypeOK
  <1>2. CASE CheckPasses(r) /\ rsite[r] = "data"
    BY <1>2, CheckDelivers DEF Log!Next
  <1>3. CASE Use(r)
    BY <1>3, UseReleases DEF Log!Next
  <1>4. CASE LoadActive(r) /\ ~active
    BY <1>4, EofFinishes DEF Log!Next
  <1>5. CASE /\ ~(CheckPasses(r) /\ rsite[r] = "data")
             /\ ~Use(r) /\ ~(LoadActive(r) /\ ~active)
    <2>1. rpc[r] \notin {"use", "eof"} /\ rlast' = rlast
      BY <1>5 DEF ReaderNext, CheckFails, CheckPasses, CheckAsksTail, CheckTail, Continue,
         Resync, Peek, LoadActive, CopyHeader, Skip, CopyBlock, CopyDone, LoadLink, Rehead
    <2>2. rpc'[r] \notin {"use", "eof"}
      <3> USE DEF Continue, RevealContinues, HeaderContinues, DataContinues,
                  ReleaseContinues, CallCheck, Goto
      <3>1. CASE CheckFails(r)
        BY <1>1, <3>1 DEF CheckFails
      <3>2. CASE CheckPasses(r)
        BY <1>1, <1>5, <3>2 DEF CheckPasses
      <3>3. CASE CheckTail(r)
        BY <1>1, <3>3, TailRefuses DEF CheckTail
      <3>4. CASE LoadActive(r)
        BY <1>1, <1>5, <3>4 DEF LoadActive
      <3>5. CASE ~(CheckFails(r) \/ CheckPasses(r) \/ CheckTail(r) \/ LoadActive(r))
        BY <1>1, <1>5, <2>1, <3>5 DEF ReaderNext, CheckAsksTail, Resync, Peek, CopyHeader,
           Skip, CopyBlock, CopyDone, LoadLink, Rehead
      <3> QED BY <3>1, <3>2, <3>3, <3>4, <3>5
    <2> QED BY <1>1, <2>1, <2>2, SilentStep
  <1> QED BY <1>2, <1>3, <1>4, <1>5

(* What the refinement needs besides IInv.                                 *)
LEMMA RefNext ==
  ASSUME NoWrap, RefInv, [Next]_vars
  PROVE  RefInv'
  <1>1. IInv' /\ IInv /\ MemoryInv /\ OfferedInv /\ OpenInv
    BY NextInv DEF RefInv, IInv
  <1>2. ASSUME UNCHANGED <<shared, writer>> PROVE OfferedInv' /\ OpenInv'
    BY <1>1, <1>2 DEF shared, writer, OfferedInv, OpenInv
  <1>3. ASSUME NEW r \in Readers, ReaderNext(r) PROVE OfferedInv' /\ OpenInv'
    BY <1>1, <1>2, <1>3, ReaderStep DEF Stepped
  <1>4. ASSUME WriterNext PROVE OfferedInv' /\ OpenInv'
    <2>1. OpenInv'
      BY <1>1, <1>4 DEF OpenInv, WriterNext, WriterCall, Reserve, ReserveFails, WalkOn,
         StoreHead, StoreLink, PublishHead, Fill, Crash, Shutdown, Commit, CommitFirst,
         StoreTail, shared
    <2>2. CASE Commit \/ CommitFirst
      <3>1. StoreTail
        BY <2>2 DEF Commit, CommitFirst
      <3>2. /\ Len(log') = Len(log) + 1 /\ Len(log) \in Nat
            /\ \A n \in 1 .. Len(log) : log'[n] = log[n]
            /\ log'[Len(log) + 1].len = frame.len
            /\ frame.len # 0 /\ frame'.len = 0
        BY <1>1, <3>1, LogGrows, LogTyped DEF MemoryInv, StoreTail, NoFrame, MrbAssumption
      <3>3. \A n \in 1 .. Len(log) + 1 : n = Len(log) + 1 \/ n \in 1 .. Len(log)
        BY <3>2
      <3> QED BY <1>1, <2>1, <3>2, <3>3 DEF OfferedInv
    <2>3. CASE ~(Commit \/ CommitFirst)
      <3>1. log' = log /\ \/ frame'.len = frame.len
                          \/ frame'.len = 0
                          \/ \E n \in Payloads : frame'.len = n + 1
        BY <1>1, <1>4, <2>3 DEF WriterNext, WriterCall, Reserve, ReserveFails, WalkOn,
           StoreHead, StoreLink, PublishHead, Fill, Crash, Shutdown, shared, NoFrame,
           MemoryInv, TypeOK
      <3>2. frame'.len # 0 => frame'.len - 1 \in Payloads
        <4>1. ASSUME NEW n \in Payloads, frame'.len = n + 1
              PROVE  frame'.len - 1 \in Payloads
          <5>1. n \in Nat
            BY MrbAssumption DEF MrbAssumption
          <5> QED BY <4>1, <5>1
        <4> QED BY <1>1, <3>1, <4>1 DEF OfferedInv
      <3> QED BY <1>1, <2>1, <3>1, <3>2 DEF OfferedInv
    <2> QED BY <2>2, <2>3
  <1>5. OfferedInv' /\ OpenInv'
    BY <1>2, <1>3, <1>4 DEF Next, Finished, vars
  <1> QED BY <1>1, <1>5 DEF RefInv

(* A reader sees nothing but whole messages, in order, while they were     *)
(* readable, and never the end of the stream before mrb_shutdown().        *)
THEOREM RingImplementsLog ==
  ASSUME NoWrap
  PROVE  Spec => RefinesLog
  <1>1. Init => RefInv /\ Log!Init
    <2> SUFFICES ASSUME Init PROVE RefInv /\ Log!Init
      OBVIOUS
    <2>1. OfferedInv /\ OpenInv
      BY DEF Init, OfferedInv, OpenInv, NoFrame
    <2>2. Published = <<>>
      BY DEF Init, Published
    <2>3. Floor = 1
      BY DEF Init, Floor, Null
    <2>4. /\ LastUsed = [r \in Readers |-> 0] /\ InUse = [r \in Readers |-> <<>>]
          /\ Ended = {}
      BY DEF Init, LastUsed, InUse, Ended
    <2>5. active = TRUE
      BY DEF Init
    <2> QED BY <2>1, <2>2, <2>3, <2>4, <2>5, InitInv DEF RefInv, Log!Init
  <1>2. RefInv /\ [Next]_vars => RefInv' /\ [Log!Next]_Log!vars
    <2> SUFFICES ASSUME RefInv, [Next]_vars PROVE [Log!Next]_Log!vars
      BY RefNext
    <2>1. CASE UNCHANGED vars
      <3>1. UNCHANGED <<active, log, readers>> /\ Floor' = Floor
        BY <2>1 DEF vars, shared, writer, Floor
      <3>2. UNCHANGED Published
        BY <3>1 DEF Published, Message
      <3> QED BY <3>1, <3>2, ReadersStay DEF Log!vars
    <2> QED BY <2>1, WriterImplements, ReaderImplements DEF Next, Finished, RefInv
  <1> QED BY <1>1, <1>2, PTL DEF Spec, RefinesLog, Log!Spec

=============================================================================
