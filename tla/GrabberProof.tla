---------------------------- MODULE GrabberProof ----------------------------
(* Proofs about the frame pipeline: a copy stays inside what it reads and  *)
(* writes, nothing is drawn into a texture that is mapped, no object is    *)
(* lost, the application finds its state again, and the messages are the   *)
(* frames that FrameLog allows.                                            *)
EXTENDS GrabberInv, WellFoundedInduction, TLAPS

-----------------------------------------------------------------------------
(* Sizes                                                                   *)

LEMMA AlignUp ==
  \A x \in Nat \ {0} :
    /\ Align(x, 5) \in Nat \ {0} /\ x <= Align(x, 5) * 32
    /\ Align(x, 1) \in Nat \ {0} /\ x <= Align(x, 1) * 2
  BY DEF Align

LEMMA Products ==
  ASSUME NEW a \in Nat \ {0}, NEW b \in Nat \ {0}
  PROVE  /\ a * 32 * (b * 2) * 4 = 256 * (a * b)
         /\ a * b * 96 = 96 * (a * b)
         /\ a * b \in Nat \ {0}
  <1>1. a * b \in Nat \ {0}
    OBVIOUS
  <1> QED BY <1>1

LEMMA Bytes ==
  ASSUME NEW size \in Sizes
  PROVE  /\ Rgba(size) \in Nat \ {0}
         /\ I420(size) \in Nat \ {0} /\ I420(size) < Rgba(size)
  <1>1. size[1] \in Nat \ {0} /\ size[2] \in Nat \ {0}
    BY GrabberAssumption
  <1>2. PICK a \in Nat \ {0}, b \in Nat \ {0} : a = Align(size[1], 5) /\ b = Align(size[2], 1)
    BY <1>1, AlignUp
  <1>3. Rgba(size) = a * 32 * (b * 2) * 4 /\ I420(size) = a * b * 96
    BY <1>2 DEF Rgba, I420, Padded
  <1> QED BY <1>3, Products

(* Rows are no longer than the padded ones, and there are no more of them. *)
LEMMA TouchedInside ==
  ASSUME NEW size \in Sizes
  PROVE  Touched(size) \in Nat \ {0} /\ Touched(size) <= Rgba(size)
  <1>1. PICK w \in Nat \ {0}, h \in Nat \ {0} : w = size[1] /\ h = size[2]
    BY GrabberAssumption
  <1>2. PICK a \in Nat \ {0}, b \in Nat \ {0} :
          a = Align(w, 5) /\ b = Align(h, 1) /\ w <= a * 32 /\ h <= b * 2
    BY AlignUp
  <1>3. PICK pw \in Nat \ {0}, ph \in Nat \ {0} :
          pw = Padded(size)[1] /\ ph = Padded(size)[2] /\ w <= pw /\ h <= ph
    BY <1>1, <1>2 DEF Padded
  <1>4. Touched(size) = 4 * ((h - 1) * pw + w) /\ Rgba(size) = pw * ph * 4
    BY <1>1, <1>3 DEF Touched, Rgba
  <1>5. (h - 1) * pw \in Nat /\ (h - 1) * pw + pw = h * pw
    OBVIOUS
  <1>6. h * pw <= ph * pw /\ ph * pw = pw * ph /\ h * pw \in Nat /\ ph * pw \in Nat
    BY <1>3
  <1> QED BY <1>3, <1>4, <1>5, <1>6

LEMMA WordRest ==
  \A n \in Nat : n % Word \in Nat /\ (n < Word => n % Word = n) /\ (n = Word => n % Word = 0)
  BY GrabberAssumption

LEMMA SizesNat ==
  \A size \in Sizes : Rgba(size) % Word \in Nat /\ I420(size) % Word \in Nat
  BY Bytes, WordRest

LEMMA NoSizeNoWindow == NoSize \notin Sizes
  BY GrabberAssumption DEF NoSize

-----------------------------------------------------------------------------
(* TypeOK in parts                                                         *)

FlagsOK ==
  /\ pc \in {"out", "copy", "reserve", "save", "rebuild", "init", "blit", "shoot",
             "finish", "leave"}
  /\ {frame, resize, shot, open, err, landed, locked, clean, cudaLost} \subseteq BOOLEAN
  /\ engine \in {"none", "readpixels", "cuda"}
  /\ names \cup leaks \subseteq Kinds

FramesOK ==
  /\ swap \in Pictures
  /\ slot \in [head : Pictures, room : Nat]
  /\ out \in [head : Pictures, pixels : Pictures]

DeviceOK ==
  /\ tex \in [size : Sizes \cup {NoSize}, image : Pictures]
  /\ buf \in [bytes : Nat, image : Pictures]

GlOK ==
  /\ {gl, begun} \subseteq GlState
  /\ saved \in [draw : {"window", "user"}, drawBuffers : SavedLists,
                read : {"window", "user"}, readBuffer : {"app", "back"}]
  /\ mapping \in {"good", "refused", "spoilt"}

LEMMA TypeParts ==
  /\ TypeOK <=> FlagsOK /\ FramesOK /\ DeviceOK /\ GlOK
  /\ TypeOK' <=> FlagsOK' /\ FramesOK' /\ DeviceOK' /\ GlOK'
  BY DEF TypeOK, FlagsOK, FramesOK, DeviceOK, GlOK

-----------------------------------------------------------------------------
(* Each step keeps the invariant                                           *)

(* What the application may have left, and what the grabber does with the  *)
(* draw buffers.                                                           *)
LEMMA OnlyOne ==
  Only("one") \in DrawBufferLists /\ \A i \in 1..MaxDrawBuffers : Only("one")[i] # "back"
  BY DEF Only, DrawBufferLists

LEMMA AppStates ==
  ASSUME NEW draw \in {"window", "user"}, NEW read \in {"window", "user"},
         NEW list \in DrawLists \cup {Only("one")}
  PROVE  LET state == AppState(draw, read, list)
         IN /\ state \in GlState
            /\ state.draw = draw /\ state.read = read
            /\ state.texture = "app" /\ state.rowLength = "app" /\ state.debug = "app"
            /\ \A f \in Fbos : state.drawBuffers[f] \in DrawLists \cup {Only("one")}
            /\ state.drawBuffers["grab"] = Only("one")
  <1>1. list \in DrawBufferLists
    BY OnlyOne, GrabberAssumption
  <1> QED BY <1>1, OnlyOne DEF AppState, GlState, Fbos

LEMMA UnsavedOK ==
  Unsaved \in [draw : {"window", "user"}, drawBuffers : SavedLists,
               read : {"window", "user"}, readBuffer : {"app", "back"}]
  <1>1. Only("none") \in DrawBufferLists /\ Trimmed(Only("none")) = <<>>
    <2>1. Only("none") = [i \in 1..MaxDrawBuffers |-> "none"]
      BY DEF Only
    <2>2. Len(Only("none")) = MaxDrawBuffers
      BY <2>1, GrabberAssumption
    <2>3. SelectLastInSeq(Only("none"), LAMBDA buffer : buffer # "none") = 0
      BY <2>1, <2>2 DEF SelectLastInSeq
    <2>4. Only("none") \in Seq({"none"})
      BY <2>1, GrabberAssumption
    <2>5. SubSeq(Only("none"), 1, 0) = <<>>
      BY <2>4
    <2>6. Trimmed(Only("none")) = <<>>
      BY <2>3, <2>5 DEF Trimmed
    <2>7. Only("none") \in DrawBufferLists
      BY <2>1 DEF DrawBufferLists
    <2> QED BY <2>6, <2>7
  <1> QED BY <1>1 DEF Unsaved, SavedLists

(* A set of natural numbers that has a bound has a largest element, if it  *)
(* has any.                                                                *)
LEMMA NatMax ==
  ASSUME NEW n \in Nat, NEW T, T \subseteq 1..n, T # {}
  PROVE  \E x \in T : \A y \in T : x >= y
  <1> DEFINE R == OpToRel(<, Nat)
             Up == {n - x : x \in T}
  <1>1. IsWellFoundedOn(R, Nat)
    BY NatLessThanWellFounded
  <1>2. \A x, y \in Nat : <<x, y>> \in R <=> x < y
    BY DEF OpToRel
  <1>3. Up \subseteq Nat /\ Up # {}
    <2>1. \A x \in 1..n : n - x \in Nat
      OBVIOUS
    <2>2. PICK z \in T : TRUE
      OBVIOUS
    <2>3. n - z \in Up
      OBVIOUS
    <2>4. \A x \in T : n - x \in Nat
      BY <2>1
    <2> QED BY <2>3, <2>4
  <1> HIDE DEF R
  <1>4. PICK u \in Up : \A v \in Up : ~(<<v, u>> \in R)
    BY <1>1, <1>3, WFMin
  <1>5. PICK x \in T : u = n - x
    OBVIOUS
  <1>6. ASSUME NEW y \in T PROVE x >= y
    <2>1. n - y \in Up /\ n - y \in Nat /\ u \in Nat
      BY <1>3
    <2>2. ~(n - y < u)
      BY <1>2, <1>4, <2>1
    <2> QED BY <1>5, <2>1, <2>2
  <1> QED BY <1>6

(* A list whose end was left out is whole when it is given back, and is    *)
(* accepted.                                                               *)
LEMMA ListBack ==
  ASSUME NEW list \in DrawLists \cup {Only("one")}
  PROVE  Drawable(Trimmed(list)) /\ DrawBuffers(Trimmed(list)) = list
  <1> DEFINE I == {i \in 1..MaxDrawBuffers : list[i] # "none"}
             n == IF I # {} THEN Max(I) ELSE 0
  <1>1. /\ list \in [1..MaxDrawBuffers -> {"none", "one", "two", "back"}]
        /\ list = Only("back") \/ \A i \in 1..MaxDrawBuffers : list[i] # "back"
    BY OnlyOne, GrabberAssumption DEF DrawBufferLists
  <1>2. MaxDrawBuffers \in Nat \ {0} /\ Len(list) = MaxDrawBuffers /\ list \in Seq({"none", "one", "two", "back"})
    BY <1>1, GrabberAssumption
  <1>3. Trimmed(list) = SubSeq(list, 1, n)
    BY <1>2 DEF Trimmed, SelectLastInSeq
  <1>4. n \in 0..MaxDrawBuffers /\ \A i \in 1..MaxDrawBuffers : i > n => list[i] = "none"
    <2>1. CASE I = {}
      BY <1>2, <2>1
    <2>2. CASE I # {}
      <3>1. \E x \in I : \A y \in I : x >= y
        <4>1. I \subseteq 1..MaxDrawBuffers
          OBVIOUS
        <4> HIDE DEF I
        <4> QED BY <1>2, <2>2, <4>1, NatMax
      <3>2. n \in I /\ \A y \in I : n >= y
        <4> HIDE DEF I
        <4> QED BY <2>2, <3>1 DEF Max
      <3> HIDE DEF n
      <3> QED BY <1>2, <3>2
    <2> QED BY <2>1, <2>2
  <1>5. list = Only("back") => n = 1
    <2>1. ASSUME list = Only("back") PROVE I = {1}
      BY <1>2, <2>1 DEF Only
    <2>2. ASSUME I = {1} PROVE n = 1
      <3> HIDE DEF I
      <3> QED BY <2>2 DEF Max
    <2> QED BY <2>1, <2>2
  <1> HIDE DEF n
  <1>6. Trimmed(list) = [i \in 1..n |-> list[i]] /\ Len(Trimmed(list)) = n
    BY <1>2, <1>3, <1>4
  <1>7. Drawable(Trimmed(list))
    <2>1. CASE list = Only("back")
      BY <1>5, <1>6, <2>1 DEF Drawable
    <2>2. CASE \A i \in 1..MaxDrawBuffers : list[i] # "back"
      <3>1. 1..n \subseteq 1..MaxDrawBuffers
        BY <1>2, <1>4
      <3>2. DOMAIN Trimmed(list) = 1..n /\ \A i \in 1..n : Trimmed(list)[i] = list[i]
        BY <1>6
      <3>3. \A i \in DOMAIN Trimmed(list) : Trimmed(list)[i] # "back"
        BY <2>2, <3>1, <3>2
      <3> QED BY <3>3 DEF Drawable
    <2> QED BY <1>1, <2>1, <2>2
  <1>8. DrawBuffers(Trimmed(list)) = list
    BY <1>1, <1>4, <1>6 DEF DrawBuffers
  <1> QED BY <1>7, <1>8

(* Steps that tell GL nothing but which pixel buffer is bound.             *)
SamePart ==
  \/ {pc, pc'} \subseteq Before
  \/ pc = "reserve" /\ pc' = "leave"
  \/ {pc, pc'} \subseteq Amid
  \/ {pc, pc'} \subseteq Behind

LEMMA AppKept ==
  ASSUME FrameInv, NEW x \in {"app", "grab", "none"},
         gl' = [gl EXCEPT !.pack = x], UNCHANGED <<begun, saved>>, SamePart,
         mapping' \in {"good", "refused", "spoilt"},
         mapping' # "refused" /\ begun.pack # "grab" => x = begun.pack
  PROVE  GlOK' /\ LeftInv' /\ BoundInv' /\ SavedInv'
  <1>1. gl \in GlState
    BY DEF FrameInv, TypeOK
  <1>2. /\ gl' \in GlState /\ gl'.pack = x
        /\ gl'.draw = gl.draw /\ gl'.drawBuffers = gl.drawBuffers
        /\ gl'.read = gl.read /\ gl'.readBuffer = gl.readBuffer
        /\ gl'.texture = gl.texture /\ gl'.rowLength = gl.rowLength
        /\ gl'.debug = gl.debug
    BY <1>1 DEF GlState
  <1>3. pc # "out" /\ pc' # "out"
    BY DEF SamePart, Before, Amid, Behind
  <1>4. GlOK'
    BY <1>2 DEF FrameInv, TypeOK, GlOK
  <1>5. LeftInv'
    BY <1>2, <1>3 DEF FrameInv, LeftInv
  <1>6. BoundInv'
    BY <1>2 DEF FrameInv, BoundInv, SamePart, Before, Amid, Behind
  <1>7. SavedInv'
    BY DEF FrameInv, SavedInv, SamePart, Before, Amid, Behind
  <1> QED BY <1>4, <1>5, <1>6, <1>7

LEMMA AppSame ==
  ASSUME FrameInv, UNCHANGED <<gl, begun, saved, mapping>>
  PROVE  GlOK' /\ (SamePart => LeftInv' /\ BoundInv' /\ SavedInv')
  <1>1. gl \in GlState /\ mapping \in {"good", "refused", "spoilt"}
    BY DEF FrameInv, TypeOK
  <1>2. gl = [gl EXCEPT !.pack = gl.pack] /\ gl.pack \in {"app", "grab", "none"}
    BY <1>1 DEF GlState
  <1>3. mapping # "refused" /\ begun.pack # "grab" => gl.pack = begun.pack
    BY DEF FrameInv, LeftInv
  <1>4. GlOK'
    BY DEF FrameInv, TypeOK, GlOK
  <1> QED BY <1>1, <1>2, <1>3, <1>4, AppKept

LEMMA NothingToCopyStep ==
  ASSUME FrameInv, NothingToCopy PROVE FrameInv'
  <1>0. UNCHANGED <<gl, begun, saved, mapping>>
    BY DEF NothingToCopy, call
  <1>1. FlagsOK' /\ FramesOK'
        BY SizesNat DEF FrameInv, NothingToCopy, FlagsOK, FramesOK, Kinds,
       TypeOK, Pictures, Nothing, NoMessage, Turns, LocalsInv, Step, ring, device,
       objects, call
  <1>2. DeviceOK'
        BY SizesNat DEF FrameInv, NothingToCopy, DeviceOK, TypeOK, Pictures,
       Nothing, Turns, LocalsInv, Step, ring, device, objects, call
  <1>3. GlOK'
    BY <1>0, AppSame
  <1>4. LocalsInv' /\ MakingInv'
        BY DEF FrameInv, NothingToCopy, LocalsInv, MakingInv, Making, TypeOK,
       Step, ring, device, objects, call
  <1>5. CaughtInv' /\ ShownInv'
        BY DEF FrameInv, NothingToCopy, LocalsInv, TypeOK, MakingInv, Making,
       CaughtInv, Caught, ShownInv, EngineInv, Reused, BufferInv, Step, ring, device,
       objects, call
  <1>6. EngineInv'
        BY DEF FrameInv, NothingToCopy, EngineInv, Reused, LocalsInv,
       CaughtInv, Caught, TypeOK, Step, ring, device, objects, call
  <1>7. BufferInv' /\ NamesInv'
        BY DEF FrameInv, NothingToCopy, EngineInv, BufferInv, NamesInv,
       TypeOK, Step, ring, device, objects, call
  <1>8. LeftInv' /\ BoundInv' /\ SavedInv' /\ CleanInv'
    <2>1. LeftInv' /\ BoundInv' /\ SavedInv'
      BY <1>0, AppSame DEF NothingToCopy, Step, SamePart, Before, Amid, Behind
    <2>2. CleanInv'
      BY DEF FrameInv, NothingToCopy, CleanInv, Step
    <2> QED BY <2>1, <2>2
  <1> QED BY TypeParts, <1>1, <1>2, <1>3, <1>4, <1>5, <1>6, <1>7, <1>8 DEF FrameInv

LEMMA CopyReadpixelsStep ==
  ASSUME FrameInv, CopyReadpixels PROVE FrameInv'
  <1>0. PICK x \in {"app", "grab", "none"} :
          /\ gl' = [gl EXCEPT !.pack = x] /\ UNCHANGED <<begun, saved>> /\ SamePart
          /\ mapping' \in {"good", "refused", "spoilt"}
          /\ mapping' # "refused" /\ begun.pack # "grab" => x = begun.pack
    <2>1. gl \in GlState /\ mapping \in {"good", "refused", "spoilt"}
      BY DEF FrameInv, TypeOK
    <2>2. UNCHANGED <<begun, saved>> /\ SamePart
      BY DEF CopyReadpixels, Step, SamePart, Before
    <2>3. CASE mapping' = "refused" /\ gl' = [gl EXCEPT !.pack = "grab"]
      BY <2>2, <2>3
    <2>4. CASE gl' = gl /\ mapping' \in {mapping, "spoilt"} /\ mapping # "refused"
      <3>1. gl = [gl EXCEPT !.pack = gl.pack] /\ gl.pack \in {"app", "grab", "none"}
        BY <2>1 DEF GlState
      <3>2. begun.pack # "grab" => gl.pack = begun.pack
        BY <2>4 DEF FrameInv, LeftInv
      <3> QED BY <2>1, <2>2, <2>4, <3>1, <3>2
    <2>5. mapping # "refused"
      BY DEF FrameInv, LocalsInv, CopyReadpixels, Step
    <2> QED BY <2>3, <2>4, <2>5 DEF CopyReadpixels
  <1>1. FlagsOK' /\ FramesOK'
    <2>1. FlagsOK'
      BY DEF FrameInv, CopyReadpixels, Copied, Resized, FlagsOK, Kinds, TypeOK, Step, ring, device, objects, call
    <2>2. FramesOK'
      <3>1. {swap, slot.head, buf.image, Nothing} \subseteq Pictures
            /\ slot \in [head : Pictures, room : Nat]
            /\ out \in [head : Pictures, pixels : Pictures]
        BY DEF FrameInv, TypeOK, Pictures, Nothing, Turns
      <3>2. PICK image \in Pictures :
              /\ UNCHANGED slot
              /\ out' = out \/ out' = [head |-> slot.head, pixels |-> image]
        <4>1. CASE UNCHANGED ring
          BY <3>1, <4>1 DEF ring
        <4>2. ASSUME NEW ok \in BOOLEAN, NEW kept \in BOOLEAN,
                     Copied(IF ok /\ kept THEN buf.image ELSE Nothing, err \/ ~ok)
              PROVE  \E image \in Pictures :
                       /\ UNCHANGED slot
                       /\ out' = out \/ out' = [head |-> slot.head, pixels |-> image]
          <5>1. PICK image \in Pictures : image = IF ok /\ kept THEN buf.image ELSE Nothing
            BY <3>1
          <5> QED BY <4>2, <5>1 DEF Copied
        <4> QED BY <4>1, <4>2 DEF CopyReadpixels
      <3>3. swap' = swap
        BY DEF CopyReadpixels
      <3> QED BY <3>1, <3>2, <3>3 DEF FramesOK
    <2> QED BY <2>1, <2>2
  <1>2. DeviceOK'
        BY SizesNat DEF FrameInv, CopyReadpixels, DeviceOK, TypeOK, Pictures,
       Nothing, Turns, LocalsInv, Step, ring, device, objects, call, Copied, Resized
  <1>3. GlOK'
    BY <1>0, AppKept
  <1>4. LocalsInv' /\ MakingInv'
        BY DEF FrameInv, CopyReadpixels, LocalsInv, MakingInv, Making, TypeOK,
       Step, ring, device, objects, call, Copied, Resized
  <1>5. CaughtInv' /\ ShownInv'
        BY DEF FrameInv, CopyReadpixels, LocalsInv, TypeOK, MakingInv, Making,
       CaughtInv, Caught, ShownInv, EngineInv, Reused, BufferInv, Step, ring, device,
       objects, call, Copied, Resized
  <1>6. EngineInv'
        BY DEF FrameInv, CopyReadpixels, EngineInv, Reused, LocalsInv,
       CaughtInv, Caught, TypeOK, Step, ring, device, objects, call, Copied, Resized
  <1>7. BufferInv' /\ NamesInv'
        BY DEF FrameInv, CopyReadpixels, EngineInv, BufferInv, NamesInv,
       TypeOK, Step, ring, device, objects, call, Copied, Resized
  <1>8. LeftInv' /\ BoundInv' /\ SavedInv' /\ CleanInv'
    <2>1. LeftInv' /\ BoundInv' /\ SavedInv' /\ GlOK'
      BY <1>0, AppKept
    <2>2. CleanInv'
      BY DEF CopyReadpixels, CleanInv, Step
    <2> QED BY <2>1, <2>2
  <1> QED BY TypeParts, <1>1, <1>2, <1>3, <1>4, <1>5, <1>6, <1>7, <1>8 DEF FrameInv

LEMMA CopyCudaStep ==
  ASSUME FrameInv, CopyCuda PROVE FrameInv'
  <1>0. UNCHANGED <<gl, begun, saved, mapping>>
    BY DEF CopyCuda, call
  <1>1. FlagsOK' /\ FramesOK'
    <2>1. FlagsOK'
      BY DEF FrameInv, CopyCuda, Copied, Resized, FlagsOK, Kinds, TypeOK, Step, ring, device, objects, call
    <2>2. FramesOK'
      BY DEF FrameInv, CopyCuda, Copied, FramesOK, TypeOK, ring, device
    <2> QED BY <2>1, <2>2
  <1>2. DeviceOK'
        BY SizesNat DEF FrameInv, CopyCuda, DeviceOK, TypeOK, Pictures,
       Nothing, Turns, LocalsInv, Step, ring, device, objects, call, Copied, Resized
  <1>3. GlOK'
    BY <1>0, AppSame
  <1>4. LocalsInv' /\ MakingInv'
        BY DEF FrameInv, CopyCuda, LocalsInv, MakingInv, Making, TypeOK, Step,
       ring, device, objects, call, Copied, Resized
  <1>5. CaughtInv' /\ ShownInv'
        BY DEF FrameInv, CopyCuda, LocalsInv, TypeOK, MakingInv, Making,
       CaughtInv, Caught, ShownInv, EngineInv, Reused, BufferInv, Step, ring, device,
       objects, call, Copied, Resized
  <1>6. EngineInv'
        BY DEF FrameInv, CopyCuda, EngineInv, Reused, LocalsInv, CaughtInv,
       Caught, TypeOK, Step, ring, device, objects, call, Copied, Resized
  <1>7. BufferInv' /\ NamesInv'
        BY DEF FrameInv, CopyCuda, EngineInv, BufferInv, NamesInv, TypeOK,
       Step, ring, device, objects, call, Copied, Resized
  <1>8. LeftInv' /\ BoundInv' /\ SavedInv' /\ CleanInv'
    <2>1. LeftInv' /\ BoundInv' /\ SavedInv'
      BY <1>0, AppSame DEF CopyCuda, Step, SamePart, Before, Amid, Behind
    <2>2. CleanInv'
      BY DEF FrameInv, CopyCuda, CleanInv, Step
    <2> QED BY <2>1, <2>2
  <1> QED BY TypeParts, <1>1, <1>2, <1>3, <1>4, <1>5, <1>6, <1>7, <1>8 DEF FrameInv

LEMMA ReserveStep ==
  ASSUME FrameInv, Reserve PROVE FrameInv'
  <1>0. UNCHANGED <<gl, begun, saved, mapping>>
    BY DEF Reserve, call
  <1>1. FlagsOK' /\ FramesOK'
        BY SizesNat DEF FrameInv, Reserve, FlagsOK, FramesOK, Kinds, TypeOK,
       Pictures, Nothing, NoMessage, Turns, LocalsInv, Step, ring, device,
       objects, call
  <1>2. DeviceOK'
        BY SizesNat DEF FrameInv, Reserve, DeviceOK, TypeOK, Pictures,
       Nothing, Turns, LocalsInv, Step, ring, device, objects, call
  <1>3. GlOK'
    BY <1>0, AppSame
  <1>4. LocalsInv' /\ MakingInv'
        BY DEF FrameInv, Reserve, LocalsInv, MakingInv, Making, TypeOK, Step,
       ring, device, objects, call
  <1>5. CaughtInv' /\ ShownInv'
        BY DEF FrameInv, Reserve, LocalsInv, TypeOK, MakingInv, Making,
       CaughtInv, Caught, ShownInv, EngineInv, Reused, BufferInv, Step, ring, device,
       objects, call
  <1>6. EngineInv'
        BY DEF FrameInv, Reserve, EngineInv, Reused, LocalsInv, CaughtInv,
       Caught, TypeOK, Step, ring, device, objects, call
  <1>7. BufferInv' /\ NamesInv'
        BY DEF FrameInv, Reserve, EngineInv, BufferInv, NamesInv, TypeOK,
       Step, ring, device, objects, call
  <1>8. LeftInv' /\ BoundInv' /\ SavedInv' /\ CleanInv'
    <2>1. LeftInv' /\ BoundInv' /\ SavedInv'
      BY <1>0, AppSame DEF Reserve, Step, SamePart, Before, Amid, Behind
    <2>2. CleanInv'
      BY DEF FrameInv, Reserve, CleanInv, Step
    <2> QED BY <2>1, <2>2
  <1> QED BY TypeParts, <1>1, <1>2, <1>3, <1>4, <1>5, <1>6, <1>7, <1>8 DEF FrameInv

LEMMA ReserveFailsStep ==
  ASSUME FrameInv, ReserveFails PROVE FrameInv'
  <1>0. UNCHANGED <<gl, begun, saved, mapping>>
    BY DEF ReserveFails, call
  <1>1. FlagsOK' /\ FramesOK'
        BY SizesNat DEF FrameInv, ReserveFails, FlagsOK, FramesOK, Kinds,
       TypeOK, Pictures, Nothing, NoMessage, Turns, LocalsInv, Step, ring, device,
       objects, call
  <1>2. DeviceOK'
        BY SizesNat DEF FrameInv, ReserveFails, DeviceOK, TypeOK, Pictures,
       Nothing, Turns, LocalsInv, Step, ring, device, objects, call
  <1>3. GlOK'
    BY <1>0, AppSame
  <1>4. LocalsInv' /\ MakingInv'
        BY DEF FrameInv, ReserveFails, LocalsInv, MakingInv, Making, TypeOK,
       Step, ring, device, objects, call
  <1>5. CaughtInv' /\ ShownInv'
        BY DEF FrameInv, ReserveFails, LocalsInv, TypeOK, MakingInv, Making,
       CaughtInv, Caught, ShownInv, EngineInv, Reused, BufferInv, Step, ring, device,
       objects, call
  <1>6. EngineInv'
        BY DEF FrameInv, ReserveFails, EngineInv, Reused, LocalsInv,
       CaughtInv, Caught, TypeOK, Step, ring, device, objects, call
  <1>7. BufferInv' /\ NamesInv'
        BY DEF FrameInv, ReserveFails, EngineInv, BufferInv, NamesInv, TypeOK,
       Step, ring, device, objects, call
  <1>8. LeftInv' /\ BoundInv' /\ SavedInv' /\ CleanInv'
    <2>1. LeftInv' /\ BoundInv' /\ SavedInv'
      BY <1>0, AppSame DEF ReserveFails, Step, SamePart, Before, Amid, Behind
    <2>2. CleanInv'
      BY DEF FrameInv, ReserveFails, CleanInv, Step
    <2> QED BY <2>1, <2>2
  <1> QED BY TypeParts, <1>1, <1>2, <1>3, <1>4, <1>5, <1>6, <1>7, <1>8 DEF FrameInv

LEMMA SaveBindingsStep ==
  ASSUME FrameInv, SaveBindings PROVE FrameInv'
  <1>1. FlagsOK' /\ FramesOK'
        BY SizesNat DEF FrameInv, SaveBindings, FlagsOK, FramesOK, Kinds,
       TypeOK, Pictures, Nothing, NoMessage, Turns, LocalsInv, Step, ring, device,
       objects, call
  <1>2. DeviceOK'
        BY SizesNat DEF FrameInv, SaveBindings, DeviceOK, TypeOK, Pictures,
       Nothing, Turns, LocalsInv, Step, ring, device, objects, call
  <1>3. GlOK'
    <2>1. gl \in GlState /\ {gl.draw, gl.read} \subseteq {"window", "user"}
      BY DEF FrameInv, TypeOK, BoundInv, LeftInv, SaveBindings, Step, Amid, Behind
    <2>2. /\ gl' \in GlState /\ gl.drawBuffers[gl.draw] \in DrawBufferLists
          /\ gl.readBuffer[gl.read] \in {"app", "back"}
      BY <2>1 DEF SaveBindings, GlState, Fbos
    <2>3. saved' \in [draw : {"window", "user"}, drawBuffers : SavedLists,
                      read : {"window", "user"}, readBuffer : {"app", "back"}]
      BY <2>1, <2>2 DEF SaveBindings, SavedLists
    <2> QED BY <2>2, <2>3 DEF FrameInv, TypeOK, GlOK, SaveBindings, call
  <1>4. LocalsInv' /\ MakingInv'
        BY DEF FrameInv, SaveBindings, LocalsInv, MakingInv, Making, TypeOK,
       Step, ring, device, objects, call
  <1>5. CaughtInv' /\ ShownInv'
        BY DEF FrameInv, SaveBindings, LocalsInv, TypeOK, MakingInv, Making,
       CaughtInv, Caught, ShownInv, EngineInv, Reused, BufferInv, Step, ring, device,
       objects, call
  <1>6. EngineInv'
        BY DEF FrameInv, SaveBindings, EngineInv, Reused, LocalsInv,
       CaughtInv, Caught, TypeOK, Step, ring, device, objects, call
  <1>7. BufferInv' /\ NamesInv'
        BY DEF FrameInv, SaveBindings, EngineInv, BufferInv, NamesInv, TypeOK,
       Step, ring, device, objects, call
  <1>8. LeftInv' /\ BoundInv' /\ SavedInv' /\ CleanInv'
    <2>1. /\ gl \in GlState /\ gl' = [gl EXCEPT !.draw = "grab"] /\ UNCHANGED <<begun, mapping>>
          /\ pc = "save" /\ pc' \in {"rebuild", "blit"}
      BY DEF FrameInv, TypeOK, SaveBindings, Step, call
    <2>2. LeftInv'
      BY <2>1 DEF FrameInv, LeftInv, GlState
    <2>3. BoundInv'
      BY <2>1 DEF FrameInv, BoundInv, GlState, Before, Amid, Behind
    <2>4. SavedInv'
      BY <2>1 DEF FrameInv, SavedInv, BoundInv, LeftInv, SaveBindings, Before, Amid, Behind
    <2>5. CleanInv'
      BY <2>1 DEF CleanInv
    <2> QED BY <2>2, <2>3, <2>4, <2>5
  <1> QED BY TypeParts, <1>1, <1>2, <1>3, <1>4, <1>5, <1>6, <1>7, <1>8 DEF FrameInv

LEMMA RebuildStep ==
  ASSUME FrameInv, Rebuild PROVE FrameInv'
  <1>0. PICK x \in {"app", "grab", "none"} :
          /\ gl' = [gl EXCEPT !.pack = x] /\ UNCHANGED <<begun, saved>> /\ SamePart
          /\ mapping' \in {"good", "refused", "spoilt"}
          /\ mapping' # "refused" /\ begun.pack # "grab" => x = begun.pack
    <2>1. gl \in GlState /\ mapping' = mapping /\ mapping \in {"good", "refused", "spoilt"}
      BY DEF FrameInv, TypeOK, Rebuild, call
    <2>2. UNCHANGED <<begun, saved>> /\ SamePart
      BY DEF Rebuild, Step, SamePart, Amid, call
    <2>3. gl' = [gl EXCEPT !.pack = PackAfterCleanup]
      BY <2>1 DEF Rebuild, GlState
    <2>4. PackAfterCleanup \in {"app", "grab", "none"}
      BY <2>1 DEF PackAfterCleanup, GlState
    <2>5. mapping # "refused" /\ begun.pack # "grab" => PackAfterCleanup = begun.pack
      BY DEF FrameInv, LeftInv, PackAfterCleanup
    <2> QED BY <2>1, <2>2, <2>3, <2>4, <2>5
  <1>1. FlagsOK' /\ FramesOK'
        BY SizesNat DEF FrameInv, Rebuild, FlagsOK, FramesOK, Kinds, TypeOK,
       Pictures, Nothing, NoMessage, Turns, LocalsInv, Step, ring, device,
       objects, call, PackAfterCleanup, MayStay
  <1>2. DeviceOK'
        BY SizesNat DEF FrameInv, Rebuild, DeviceOK, TypeOK, Pictures,
       Nothing, Turns, LocalsInv, Step, ring, device, objects, call,
       PackAfterCleanup, MayStay
  <1>3. GlOK'
    BY <1>0, AppKept
  <1>4. LocalsInv' /\ MakingInv'
        BY DEF FrameInv, Rebuild, LocalsInv, MakingInv, Making, TypeOK, Step,
       ring, device, objects, call, PackAfterCleanup, MayStay
  <1>5. CaughtInv' /\ ShownInv'
        BY DEF FrameInv, Rebuild, LocalsInv, TypeOK, MakingInv, Making,
       CaughtInv, Caught, ShownInv, EngineInv, Reused, BufferInv, Step, ring, device,
       objects, call, PackAfterCleanup, MayStay
  <1>6. EngineInv'
        BY DEF FrameInv, Rebuild, EngineInv, Reused, LocalsInv, CaughtInv,
       Caught, TypeOK, Step, ring, device, objects, call, PackAfterCleanup, MayStay
  <1>7. BufferInv' /\ NamesInv'
    <2>1. BufferInv'
      BY DEF FrameInv, Rebuild, BufferInv, LocalsInv, Step
    <2>2. NamesInv'
      BY DEF FrameInv, Rebuild, MayStay, NamesInv, TypeOK
    <2> QED BY <2>1, <2>2
  <1>8. LeftInv' /\ BoundInv' /\ SavedInv' /\ CleanInv'
    <2>1. LeftInv' /\ BoundInv' /\ SavedInv' /\ GlOK'
      BY <1>0, AppKept
    <2>2. CleanInv'
      BY DEF Rebuild, CleanInv, Step
    <2> QED BY <2>1, <2>2
  <1> QED BY TypeParts, <1>1, <1>2, <1>3, <1>4, <1>5, <1>6, <1>7, <1>8 DEF FrameInv

LEMMA InitCudaStep ==
  ASSUME FrameInv, InitCuda PROVE FrameInv'
  <1>0. UNCHANGED <<gl, begun, saved, mapping>>
    BY DEF InitCuda, call
  <1>1. FlagsOK' /\ FramesOK'
        BY SizesNat DEF FrameInv, InitCuda, FlagsOK, FramesOK, Kinds, TypeOK,
       Pictures, Nothing, NoMessage, Turns, LocalsInv, Step, ring, device,
       objects, call
  <1>2. DeviceOK'
        BY SizesNat DEF FrameInv, InitCuda, DeviceOK, TypeOK, Pictures,
       Nothing, Turns, LocalsInv, Step, ring, device, objects, call
  <1>3. GlOK'
    BY <1>0, AppSame
  <1>4. LocalsInv' /\ MakingInv'
        BY DEF FrameInv, InitCuda, LocalsInv, MakingInv, Making, TypeOK, Step,
       ring, device, objects, call
  <1>5. CaughtInv' /\ ShownInv'
        BY DEF FrameInv, InitCuda, LocalsInv, TypeOK, MakingInv, Making,
       CaughtInv, Caught, ShownInv, EngineInv, Reused, BufferInv, Step, ring, device,
       objects, call
  <1>6. EngineInv'
        BY DEF FrameInv, InitCuda, EngineInv, Reused, LocalsInv, CaughtInv,
       Caught, TypeOK, Step, ring, device, objects, call
  <1>7. BufferInv' /\ NamesInv'
        BY DEF FrameInv, InitCuda, EngineInv, BufferInv, NamesInv, TypeOK,
       Step, ring, device, objects, call
  <1>8. LeftInv' /\ BoundInv' /\ SavedInv' /\ CleanInv'
    <2>1. LeftInv' /\ BoundInv' /\ SavedInv'
      BY <1>0, AppSame DEF InitCuda, Step, SamePart, Before, Amid, Behind
    <2>2. CleanInv'
      BY DEF FrameInv, InitCuda, CleanInv, Step
    <2> QED BY <2>1, <2>2
  <1> QED BY TypeParts, <1>1, <1>2, <1>3, <1>4, <1>5, <1>6, <1>7, <1>8 DEF FrameInv

LEMMA InitReadpixelsStep ==
  ASSUME FrameInv, InitReadpixels PROVE FrameInv'
  <1>0. UNCHANGED <<gl, begun, saved, mapping>>
    BY DEF InitReadpixels, call, FrameInv, TypeOK, GlState
  <1>1. FlagsOK' /\ FramesOK'
        BY SizesNat DEF FrameInv, InitReadpixels, FlagsOK, FramesOK, Kinds,
       TypeOK, Pictures, Nothing, NoMessage, Turns, LocalsInv, Step, ring, device,
       objects, call
  <1>2. DeviceOK'
        BY SizesNat DEF FrameInv, InitReadpixels, DeviceOK, TypeOK, Pictures,
       Nothing, Turns, LocalsInv, Step, ring, device, objects, call
  <1>3. GlOK'
    BY <1>0, AppSame
  <1>4. LocalsInv' /\ MakingInv'
        BY DEF FrameInv, InitReadpixels, LocalsInv, MakingInv, Making, TypeOK,
       Step, ring, device, objects, call
  <1>5. CaughtInv' /\ ShownInv'
        BY DEF FrameInv, InitReadpixels, LocalsInv, TypeOK, MakingInv, Making,
       CaughtInv, Caught, ShownInv, EngineInv, Reused, BufferInv, Step, ring, device,
       objects, call
  <1>6. EngineInv'
        BY DEF FrameInv, InitReadpixels, EngineInv, Reused, LocalsInv,
       CaughtInv, Caught, TypeOK, Step, ring, device, objects, call
  <1>7. BufferInv' /\ NamesInv'
    <2>1. BufferInv'
      BY DEF FrameInv, InitReadpixels, BufferInv, EngineInv, LocalsInv, Step, device
    <2>2. NamesInv'
      <3>1. PICK made \in {{}, {"cuda"}} :
              leaks' = leaks \cup made /\ cudaLost' = (cudaLost \/ made # {})
        BY DEF InitReadpixels
      <3>2. engine' = "readpixels" /\ "cuda" \notin names'
        <4>1. engine = "none"
          BY DEF FrameInv, InitReadpixels, EngineInv, Step
        <4> QED BY <4>1 DEF FrameInv, NamesInv, InitReadpixels
      <3>3. CASE made = {}
        BY <3>1, <3>2, <3>3 DEF FrameInv, NamesInv
      <3>4. CASE made = {"cuda"}
        BY <3>1, <3>2, <3>4 DEF FrameInv, NamesInv
      <3> QED BY <3>1, <3>3, <3>4
    <2> QED BY <2>1, <2>2
  <1>8. LeftInv' /\ BoundInv' /\ SavedInv' /\ CleanInv'
    <2>1. LeftInv' /\ BoundInv' /\ SavedInv'
      BY <1>0, AppSame DEF InitReadpixels, Step, SamePart, Before, Amid, Behind
    <2>2. CleanInv'
      BY DEF FrameInv, InitReadpixels, CleanInv, Step
    <2> QED BY <2>1, <2>2
  <1> QED BY TypeParts, <1>1, <1>2, <1>3, <1>4, <1>5, <1>6, <1>7, <1>8 DEF FrameInv

LEMMA BlitStep ==
  ASSUME FrameInv, Blit PROVE FrameInv'
  <1>1. FlagsOK' /\ FramesOK'
        BY SizesNat DEF FrameInv, Blit, FlagsOK, FramesOK, Kinds, TypeOK,
       Pictures, Nothing, NoMessage, Turns, LocalsInv, Step, ring, device,
       objects, call
  <1>2. DeviceOK'
        BY SizesNat DEF FrameInv, Blit, DeviceOK, TypeOK, Pictures, Nothing,
       Turns, LocalsInv, Step, ring, device, objects, call
  <1>3. GlOK'
    <2>1. gl \in GlState /\ saved.draw \in {"window", "user"} /\ gl.draw \in Fbos
      BY DEF FrameInv, TypeOK, GlState
    <2>2. PICK buffers \in [Fbos -> {"app", "back"}] :
            buffers = [gl.readBuffer EXCEPT ![saved.draw] =
                         IF saved.draw = "window" THEN "back" ELSE @]
      BY <2>1 DEF GlState, Fbos
    <2>3. PICK lists \in [Fbos -> DrawBufferLists] :
            lists = [gl.drawBuffers EXCEPT ![gl.draw] = Only("one")]
      BY <2>1, OnlyOne DEF GlState
    <2>4. gl' = [gl EXCEPT !.read = "grab", !.drawBuffers = lists, !.readBuffer = buffers]
      BY <2>2, <2>3 DEF Blit
    <2>5. gl' \in GlState
      BY <2>1, <2>4 DEF GlState, Fbos
    <2> QED BY <2>5 DEF FrameInv, TypeOK, GlOK, Blit, call
  <1>4. LocalsInv' /\ MakingInv'
        BY DEF FrameInv, Blit, LocalsInv, MakingInv, Making, TypeOK, Step,
       ring, device, objects, call
  <1>5. CaughtInv' /\ ShownInv'
        BY DEF FrameInv, Blit, LocalsInv, TypeOK, MakingInv, Making,
       CaughtInv, Caught, ShownInv, EngineInv, Reused, BufferInv, Step, ring, device,
       objects, call
  <1>6. EngineInv'
        BY DEF FrameInv, Blit, EngineInv, Reused, LocalsInv, CaughtInv,
       Caught, TypeOK, Step, ring, device, objects, call
  <1>7. BufferInv' /\ NamesInv'
        BY DEF FrameInv, Blit, EngineInv, BufferInv, NamesInv, TypeOK, Step,
       ring, device, objects, call
  <1>8. LeftInv' /\ BoundInv' /\ SavedInv' /\ CleanInv'
    <2>1. /\ UNCHANGED <<begun, saved, mapping>> /\ pc = "blit" /\ pc' = "shoot"
          /\ saved.draw = begun.draw /\ gl.draw = "grab"
      BY DEF FrameInv, Blit, Step, call, SavedInv, BoundInv, Amid
    <2>2. /\ gl' = [gl EXCEPT !.read = "grab", !.drawBuffers = gl.drawBuffers, !.readBuffer =
                       [begun.readBuffer EXCEPT ![begun.draw] =
                          IF begun.draw = "window" THEN "back" ELSE @]]
      <3>1. gl.readBuffer = begun.readBuffer
        BY <2>1 DEF FrameInv, BoundInv, Amid
      <3>2. [gl.drawBuffers EXCEPT !["grab"] = Only("one")] = gl.drawBuffers
        BY DEF FrameInv, LeftInv, TypeOK, GlState, Fbos
      <3> QED BY <2>1, <3>1, <3>2 DEF Blit
    <2>3. gl \in GlState
      BY DEF FrameInv, TypeOK
    <2>4. LeftInv'
      BY <2>1, <2>2, <2>3 DEF FrameInv, LeftInv, GlState
    <2>5. BoundInv'
      BY <2>1, <2>2, <2>3 DEF FrameInv, BoundInv, GlState, Before, Amid, Behind
    <2>6. SavedInv'
      BY <2>1 DEF FrameInv, SavedInv, Amid
    <2>7. CleanInv'
      BY <2>1 DEF CleanInv
    <2> QED BY <2>4, <2>5, <2>6, <2>7
  <1> QED BY TypeParts, <1>1, <1>2, <1>3, <1>4, <1>5, <1>6, <1>7, <1>8 DEF FrameInv

LEMMA ShootReadpixelsStep ==
  ASSUME FrameInv, ShootReadpixels PROVE FrameInv'
  <1>0. UNCHANGED <<gl, begun, saved, mapping>>
    BY DEF ShootReadpixels, call, FrameInv, TypeOK, GlState
  <1>1. FlagsOK' /\ FramesOK'
        BY SizesNat DEF FrameInv, ShootReadpixels, FlagsOK, FramesOK, Kinds,
       TypeOK, Pictures, Nothing, NoMessage, Turns, LocalsInv, Step, ring, device,
       objects, call
  <1>2. DeviceOK'
        BY SizesNat DEF FrameInv, ShootReadpixels, DeviceOK, TypeOK, Pictures,
       Nothing, Turns, LocalsInv, Step, ring, device, objects, call
  <1>3. GlOK'
    BY <1>0, AppSame
  <1>4. LocalsInv' /\ MakingInv'
        BY DEF FrameInv, ShootReadpixels, LocalsInv, MakingInv, Making,
       TypeOK, Step, ring, device, objects, call
  <1>5. CaughtInv' /\ ShownInv'
    <2>1. CaughtInv'
      BY DEF CaughtInv, Caught, ShootReadpixels, Step
    <2>2. ASSUME ~err' PROVE buf'.image = swap /\ buf'.bytes # 0 /\ tex.size = swap.size
      <3>1. ~err /\ Touched(swap.size) <= buf.bytes /\ buf' = [buf EXCEPT !.image = tex.image]
        BY <2>2 DEF ShootReadpixels
      <3>2. tex = [size |-> swap.size, image |-> swap]
        BY <3>1 DEF FrameInv, ShownInv, ShootReadpixels, Step
      <3>3. buf.bytes # 0
        <4>1. PICK size \in Sizes : size = swap.size
          BY DEF FrameInv, LocalsInv, ShootReadpixels, Step
        <4> QED BY <3>1, <4>1, TouchedInside DEF FrameInv, TypeOK
      <3> QED BY <3>1, <3>2, <3>3 DEF FrameInv, TypeOK
    <2> QED BY <2>1, <2>2 DEF ShownInv, ShootReadpixels, Step
  <1>6. EngineInv'
        BY DEF FrameInv, ShootReadpixels, EngineInv, Reused, LocalsInv,
       CaughtInv, Caught, TypeOK, Step, ring, device, objects, call
  <1>7. BufferInv' /\ NamesInv'
        BY DEF FrameInv, ShootReadpixels, EngineInv, BufferInv, NamesInv,
       TypeOK, Step, ring, device, objects, call
  <1>8. LeftInv' /\ BoundInv' /\ SavedInv' /\ CleanInv'
    <2>1. LeftInv' /\ BoundInv' /\ SavedInv'
      BY <1>0, AppSame DEF ShootReadpixels, Step, SamePart, Before, Amid, Behind
    <2>2. CleanInv'
      BY DEF FrameInv, ShootReadpixels, CleanInv, Step
    <2> QED BY <2>1, <2>2
  <1> QED BY TypeParts, <1>1, <1>2, <1>3, <1>4, <1>5, <1>6, <1>7, <1>8 DEF FrameInv

(* cuda_shoot() in short: the picture is in the buffer, or nothing has     *)
(* been shot.                                                              *)
LEMMA CudaShot ==
  ASSUME FrameInv, ShootCuda
  PROVE  /\ ~shot /\ ~locked /\ clean' \in BOOLEAN /\ (clean' => clean /\ shot')
         /\ {shot', locked', landed'} \subseteq BOOLEAN
         /\ shot' => ~locked' /\ buf.bytes # 0 /\ buf'.image = tex.image
         /\ buf' \in {buf, [buf EXCEPT !.image = tex.image]}
  <1>1. ~shot /\ ~locked /\ {clean, shot, locked, landed} \subseteq BOOLEAN
    BY DEF FrameInv, LocalsInv, EngineInv, TypeOK, ShootCuda, Step
  <1>2. CASE /\ ~locked /\ buf.bytes # 0
             /\ buf' = [buf EXCEPT !.image = tex.image]
             /\ landed' = FALSE
             /\ \/ shot' = TRUE /\ UNCHANGED <<locked, clean>>
                \/ locked' = TRUE /\ clean' = FALSE /\ UNCHANGED shot
    <2>1. buf \in [bytes : Nat, image : Pictures]
      BY DEF FrameInv, TypeOK
    <2>2. buf'.image = tex.image
      BY <1>2, <2>1
    <2>3. landed' = FALSE /\ buf.bytes # 0 /\ buf' \in {buf, [buf EXCEPT !.image = tex.image]}
      BY <1>2
    <2>4. CASE shot' = TRUE /\ UNCHANGED <<locked, clean>>
      <3>1. shot' /\ ~locked' /\ (clean' <=> clean)
            /\ {shot', locked', clean', landed'} \subseteq BOOLEAN
        BY <1>1, <2>3, <2>4
      <3> QED BY <1>1, <2>2, <2>3, <3>1
    <2>5. CASE locked' = TRUE /\ clean' = FALSE /\ UNCHANGED shot
      <3>1. locked' /\ ~clean' /\ ~shot'
            /\ {shot', locked', clean', landed'} \subseteq BOOLEAN
        BY <1>1, <2>3, <2>5
      <3> QED BY <1>1, <2>3, <3>1
    <2> QED BY <1>2, <2>4, <2>5
  <1>3. CASE /\ locked' \in {locked, TRUE}
             /\ clean' = FALSE
             /\ UNCHANGED <<buf, landed, shot>>
    BY <1>1, <1>3
  <1> QED BY <1>2, <1>3 DEF ShootCuda

LEMMA ShootCudaStep ==
  ASSUME FrameInv, ShootCuda PROVE FrameInv'
  <1>0. UNCHANGED <<gl, begun, saved, mapping>>
    BY DEF ShootCuda, call
  <1>1. FlagsOK' /\ FramesOK'
        BY SizesNat DEF FrameInv, ShootCuda, FlagsOK, FramesOK, Kinds, TypeOK,
       Pictures, Nothing, NoMessage, Turns, LocalsInv, Step, ring, device,
       objects, call
  <1>2. DeviceOK'
    BY CudaShot DEF FrameInv, DeviceOK, TypeOK, ShootCuda
  <1>3. GlOK'
    BY <1>0, AppSame
  <1>4. LocalsInv' /\ MakingInv'
        BY DEF FrameInv, ShootCuda, LocalsInv, MakingInv, Making, TypeOK,
       Step, ring, device, objects, call
  <1>5. CaughtInv' /\ ShownInv'
    <2>1. UNCHANGED <<tex, swap, err>> /\ pc = "shoot" /\ pc' = "finish"
      BY DEF ShootCuda, Step
    <2>2. (buf'.bytes = buf.bytes) /\ (~err => tex = [size |-> swap.size, image |-> swap])
      BY <2>1, CudaShot DEF FrameInv, ShownInv, TypeOK
    <2> QED BY <2>1, <2>2, CudaShot DEF CaughtInv, Caught, ShownInv
  <1>6. EngineInv'
    BY CudaShot DEF FrameInv, ShootCuda, EngineInv, Reused, Step, objects
  <1>7. BufferInv' /\ NamesInv'
        BY DEF FrameInv, ShootCuda, EngineInv, BufferInv, NamesInv, TypeOK,
       Step, ring, device, objects, call
  <1>8. LeftInv' /\ BoundInv' /\ SavedInv' /\ CleanInv'
    <2>1. LeftInv' /\ BoundInv' /\ SavedInv'
      BY <1>0, AppSame DEF ShootCuda, Step, SamePart, Before, Amid, Behind
    <2>2. CleanInv'
      BY CudaShot DEF FrameInv, ShootCuda, CleanInv, Step
    <2> QED BY <2>1, <2>2
  <1> QED BY TypeParts, <1>1, <1>2, <1>3, <1>4, <1>5, <1>6, <1>7, <1>8 DEF FrameInv

LEMMA FinishStep ==
  ASSUME FrameInv, Finish PROVE FrameInv'
  <1>0. gl' = [gl EXCEPT !.draw = begun.draw, !.drawBuffers = begun.drawBuffers,
                         !.read = begun.read, !.readBuffer =
                           [@ EXCEPT ![begun.read] = begun.readBuffer[begun.read]]]
    <2>1. saved = [draw |-> begun.draw, drawBuffers |-> Trimmed(begun.drawBuffers[begun.draw]),
                   read |-> begun.read, readBuffer |-> begun.readBuffer[begun.read]]
      BY DEF FrameInv, SavedInv, Finish, Step, Behind
    <2>2. begun.draw \in Fbos /\ gl.drawBuffers = begun.drawBuffers
          /\ begun.drawBuffers \in [Fbos -> DrawBufferLists]
      BY DEF FrameInv, LeftInv, TypeOK, GlState
    <2>3. begun.drawBuffers[begun.draw] \in DrawLists \cup {Only("one")}
      BY <2>2 DEF FrameInv, LeftInv
    <2>4. PICK list \in DrawLists \cup {Only("one")} : list = begun.drawBuffers[begun.draw]
      BY <2>3
    <2>5. Drawable(Trimmed(list)) /\ DrawBuffers(Trimmed(list)) = list
      BY ListBack
    <2>6. [begun.drawBuffers EXCEPT ![begun.draw] = begun.drawBuffers[begun.draw]]
            = begun.drawBuffers
      BY <2>2
    <2> QED BY <2>1, <2>2, <2>4, <2>5, <2>6 DEF Finish, PutBack
  <1>1. FlagsOK' /\ FramesOK'
        BY SizesNat DEF FrameInv, Finish, FlagsOK, FramesOK, Kinds, TypeOK,
       Pictures, Nothing, NoMessage, Turns, LocalsInv, Step, ring, device,
       objects, call, PutBack
  <1>2. DeviceOK'
        BY SizesNat DEF FrameInv, Finish, DeviceOK, TypeOK, Pictures, Nothing,
       Turns, LocalsInv, Step, ring, device, objects, call, PutBack
  <1>3. GlOK'
    <2>1. gl \in GlState /\ begun \in GlState /\ {begun.draw, begun.read} \subseteq Fbos
      BY DEF FrameInv, TypeOK, GlState
    <2>2. begun.drawBuffers \in [Fbos -> DrawBufferLists]
          /\ [gl.readBuffer EXCEPT ![begun.read] = begun.readBuffer[begun.read]]
               \in [Fbos -> {"app", "back"}]
      BY <2>1 DEF GlState
    <2>3. gl' \in GlState
      BY <1>0, <2>1, <2>2 DEF GlState
    <2> QED BY <2>3 DEF FrameInv, TypeOK, GlOK, Finish, call
  <1>4. LocalsInv' /\ MakingInv'
        BY DEF FrameInv, Finish, LocalsInv, MakingInv, Making, TypeOK, Step,
       ring, device, objects, call, PutBack
  <1>5. CaughtInv' /\ ShownInv'
        BY DEF FrameInv, Finish, LocalsInv, TypeOK, MakingInv, Making,
       CaughtInv, Caught, ShownInv, EngineInv, Reused, BufferInv, Step, ring, device,
       objects, call, PutBack
  <1>6. EngineInv'
        BY DEF FrameInv, Finish, EngineInv, Reused, LocalsInv, CaughtInv,
       Caught, TypeOK, Step, ring, device, objects, call, PutBack
  <1>7. BufferInv' /\ NamesInv'
        BY DEF FrameInv, Finish, EngineInv, BufferInv, NamesInv, TypeOK, Step,
       ring, device, objects, call, PutBack
  <1>8. LeftInv' /\ BoundInv' /\ SavedInv' /\ CleanInv'
    <2>1. /\ UNCHANGED <<begun, mapping, clean, shot>> /\ pc = "finish" /\ pc' = "leave"
          /\ gl \in GlState /\ begun \in GlState
      BY DEF FrameInv, TypeOK, Finish, Step, call
    <2>2. /\ gl'.draw = begun.draw /\ gl'.read = begun.read
          /\ gl'.drawBuffers = begun.drawBuffers
          /\ gl'.texture = gl.texture /\ gl'.rowLength = gl.rowLength
          /\ gl'.debug = gl.debug /\ gl'.pack = gl.pack
          /\ gl'.readBuffer = [gl.readBuffer EXCEPT ![begun.read] = begun.readBuffer[begun.read]]
      BY <1>0, <2>1
    <2>3. LeftInv'
      BY <2>1, <2>2 DEF FrameInv, LeftInv
    <2>4. BoundInv'
      <3>1. ASSUME begun.draw = begun.read PROVE gl'.readBuffer = begun.readBuffer
        <4>1. gl.readBuffer = [begun.readBuffer EXCEPT ![begun.draw] =
                                 IF begun.draw = "window" THEN "back" ELSE @]
          BY <2>1 DEF FrameInv, BoundInv, Behind
        <4>2. begun.readBuffer \in [Fbos -> {"app", "back"}]
          BY <2>1 DEF GlState
        <4> QED BY <2>2, <3>1, <4>1, <4>2
      <3> QED BY <2>1, <2>2, <3>1 DEF BoundInv, Before, Amid, Behind
    <2>5. SavedInv'
      BY <2>1 DEF SavedInv, Amid, Behind
    <2>6. CleanInv'
      <3>1. clean => shot
        BY <2>1 DEF FrameInv, CleanInv
      <3>2. err' = ((err \/ ~Drawable(saved.drawBuffers)) /\ ~shot)
        BY DEF Finish
      <3>3. (clean' <=> clean) /\ (clean => ~err')
        BY <2>1, <3>1, <3>2
      <3> QED BY <2>1, <3>3 DEF CleanInv
    <2> QED BY <2>3, <2>4, <2>5, <2>6
  <1> QED BY TypeParts, <1>1, <1>2, <1>3, <1>4, <1>5, <1>6, <1>7, <1>8 DEF FrameInv

LEMMA LeaveStep ==
  ASSUME FrameInv, Leave PROVE FrameInv'
  <1>1. FlagsOK' /\ FramesOK'
        BY SizesNat DEF FrameInv, Leave, FlagsOK, FramesOK, Kinds, TypeOK,
       Pictures, Nothing, NoMessage, Turns, LocalsInv, Step, ring, device,
       objects, call
  <1>2. DeviceOK'
        BY SizesNat DEF FrameInv, Leave, DeviceOK, TypeOK, Pictures, Nothing,
       Turns, LocalsInv, Step, ring, device, objects, call
  <1>3. GlOK'
    <2>1. gl' \in GlState
      BY DEF FrameInv, TypeOK, Leave, GlState
    <2> QED BY <2>1, UnsavedOK DEF FrameInv, TypeOK, Leave, GlOK, call
  <1>4. LocalsInv' /\ MakingInv'
        BY DEF FrameInv, Leave, LocalsInv, MakingInv, Making, TypeOK, Step,
       ring, device, objects, call
  <1>5. CaughtInv' /\ ShownInv'
        BY DEF FrameInv, Leave, LocalsInv, TypeOK, MakingInv, Making,
       CaughtInv, Caught, ShownInv, EngineInv, Reused, BufferInv, Step, ring, device,
       objects, call
  <1>6. EngineInv'
        BY DEF FrameInv, Leave, EngineInv, Reused, LocalsInv, CaughtInv,
       Caught, TypeOK, Step, ring, device, objects, call
  <1>7. BufferInv' /\ NamesInv'
        BY DEF FrameInv, Leave, EngineInv, BufferInv, NamesInv, TypeOK, Step,
       ring, device, objects, call
  <1>8. LeftInv' /\ BoundInv' /\ SavedInv' /\ CleanInv'
    <2>1. /\ gl \in GlState /\ gl' = [gl EXCEPT !.debug = "app"] /\ UNCHANGED <<begun, mapping>>
          /\ pc = "leave" /\ pc' = "out"
      BY DEF FrameInv, TypeOK, Leave, Step, call
    <2>2. LeftInv'
      BY <2>1 DEF FrameInv, LeftInv, GlState
    <2>3. BoundInv'
      BY <2>1 DEF FrameInv, BoundInv, GlState, Before, Amid, Behind
    <2>4. SavedInv' /\ CleanInv'
      BY <2>1 DEF FrameInv, SavedInv, CleanInv, Leave, Amid, Behind
    <2> QED BY <2>2, <2>3, <2>4
  <1> QED BY TypeParts, <1>1, <1>2, <1>3, <1>4, <1>5, <1>6, <1>7, <1>8 DEF FrameInv

LEMMA ResetStep ==
  ASSUME FrameInv, Reset PROVE FrameInv'
  <1>1. FlagsOK' /\ FramesOK'
        BY SizesNat DEF FrameInv, Reset, FlagsOK, FramesOK, Kinds, TypeOK,
       Pictures, Nothing, NoMessage, Turns, LocalsInv, Step, ring, device,
       objects, call
  <1>2. DeviceOK'
        BY SizesNat DEF FrameInv, Reset, DeviceOK, TypeOK, Pictures, Nothing,
       Turns, LocalsInv, Step, ring, device, objects, call
  <1>3. GlOK'
    BY AppStates DEF FrameInv, Reset, TypeOK, GlOK
  <1>4. LocalsInv' /\ MakingInv'
        BY DEF FrameInv, Reset, LocalsInv, MakingInv, Making, TypeOK, Step,
       ring, device, objects, call
  <1>5. CaughtInv' /\ ShownInv'
        BY DEF FrameInv, Reset, LocalsInv, TypeOK, MakingInv, Making,
       CaughtInv, Caught, ShownInv, EngineInv, Reused, BufferInv, Step, ring, device,
       objects, call
  <1>6. EngineInv'
        BY DEF FrameInv, Reset, EngineInv, Reused, LocalsInv, CaughtInv,
       Caught, TypeOK, Step, ring, device, objects, call
  <1>7. BufferInv' /\ NamesInv'
    <2>1. BufferInv'
      BY DEF FrameInv, Reset, BufferInv
    <2>2. CASE engine = "cuda"
      BY <2>1, <2>2 DEF FrameInv, Reset, NamesInv
    <2>3. CASE engine # "cuda"
      <3>1. leaks' = leaks /\ (cudaLost' <=> cudaLost)
        BY <2>3 DEF FrameInv, Reset, NamesInv
      <3> QED BY <2>1, <3>1 DEF FrameInv, Reset, NamesInv
    <2> QED BY <2>2, <2>3
  <1>8. LeftInv' /\ BoundInv' /\ SavedInv' /\ CleanInv'
    <2>1. gl' = AppState("window", "window", Only("one")) /\ begun' = gl' /\ pc' = "out" /\ err' = FALSE
      BY DEF Reset, Step
    <2> QED BY <2>1, AppStates DEF LeftInv, BoundInv, SavedInv, CleanInv, Before, Amid, Behind
  <1> QED BY TypeParts, <1>1, <1>2, <1>3, <1>4, <1>5, <1>6, <1>7, <1>8 DEF FrameInv

LEMMA EnterStep ==
  ASSUME FrameInv, NEW size \in Sizes, NEW draw \in {"window", "user"},
         NEW read \in {"window", "user"}, Enter(size, draw, read)
  PROVE  FrameInv'
  <1>1. FlagsOK'
    BY DEF FrameInv, Enter, FlagsOK, Kinds, TypeOK, Step, device, objects, call
  <1>2. FramesOK' /\ DeviceOK'
    <2>1. swap' \in Pictures
      <3>1. PICK n \in Nat : n = swap.no
        BY DEF FrameInv, TypeOK, Pictures, Turns
      <3>2. (n + 1) % Turns \in 0 .. (Turns - 1)
        BY DEF Turns
      <3> QED BY <3>1, <3>2 DEF Enter, Pictures
    <2>2. out' \in [head : Pictures, pixels : Pictures]
      BY DEF Enter, NoMessage, Nothing, Pictures, Turns
    <2> QED BY <2>1, <2>2 DEF FrameInv, Enter, FramesOK, DeviceOK, TypeOK, device
  <1>3. PICK list \in DrawLists, pack \in {"app", gl.pack} :
          /\ begun' = [AppState(draw, read, list) EXCEPT !.pack = pack]
          /\ gl' = [begun' EXCEPT !.debug = "grab"]
    BY DEF Enter, ListsOf
  <1>8. PICK state \in GlState :
          /\ state = AppState(draw, read, list)
          /\ state.draw = draw /\ state.read = read
          /\ state.texture = "app" /\ state.rowLength = "app" /\ state.debug = "app"
          /\ \A f \in Fbos : state.drawBuffers[f] \in DrawLists \cup {Only("one")}
          /\ state.drawBuffers["grab"] = Only("one")
    BY AppStates
  <1>9. pack \in {"app", "grab", "none"}
    BY DEF FrameInv, TypeOK, GlState
  <1>10. /\ begun' \in GlState /\ gl' \in GlState
         /\ begun'.draw = draw /\ begun'.read = read /\ begun'.pack = pack
         /\ begun'.texture = "app" /\ begun'.rowLength = "app" /\ begun'.debug = "app"
         /\ begun'.drawBuffers = state.drawBuffers
         /\ gl'.draw = begun'.draw /\ gl'.drawBuffers = begun'.drawBuffers
         /\ gl'.read = begun'.read /\ gl'.readBuffer = begun'.readBuffer
         /\ gl'.texture = "app" /\ gl'.rowLength = "app" /\ gl'.debug = "grab"
         /\ gl'.pack = begun'.pack
    BY <1>3, <1>8, <1>9 DEF GlState
  <1>4. LocalsInv' /\ MakingInv'
    BY DEF FrameInv, Enter, LocalsInv, MakingInv, Making, Step
  <1>5. CaughtInv' /\ ShownInv'
    BY DEF FrameInv, Enter, CaughtInv, Caught, ShownInv, Step, device, objects, call
  <1>6. EngineInv' /\ BufferInv' /\ NamesInv'
    BY DEF FrameInv, Enter, EngineInv, Reused, BufferInv, NamesInv, Step, device, objects, call
  <1>7. GlOK' /\ LeftInv' /\ BoundInv' /\ SavedInv' /\ CleanInv'
    <2>1. pc' = "copy" /\ mapping' = "good" /\ saved' = saved
      BY DEF Enter, Step
    <2>2. GlOK'
      BY <1>10, <2>1 DEF FrameInv, TypeOK, GlOK
    <2>3. LeftInv'
      BY <1>8, <1>10, <2>1 DEF LeftInv
    <2>4. BoundInv' /\ SavedInv' /\ CleanInv'
      BY <1>10, <2>1 DEF BoundInv, SavedInv, CleanInv, Before, Amid, Behind
    <2> QED BY <2>2, <2>3, <2>4
  <1> QED BY TypeParts, <1>1, <1>2, <1>4, <1>5, <1>6, <1>7 DEF FrameInv

-----------------------------------------------------------------------------

LEMMA FrameInit == Init => FrameInv
  <1> SUFFICES ASSUME Init PROVE FrameInv
    OBVIOUS
  <1>1. FlagsOK
    BY DEF Init, FlagsOK
  <1>2. FramesOK /\ DeviceOK
    BY DEF Init, FramesOK, DeviceOK, NoMessage, Nothing, Pictures, Turns
  <1>3. GlOK
    BY UnsavedOK, AppStates DEF Init, GlOK
  <1>4. LocalsInv /\ MakingInv /\ CaughtInv /\ ShownInv
    BY DEF Init, LocalsInv, MakingInv, Making, CaughtInv, Caught, ShownInv
  <1>5. EngineInv /\ BufferInv /\ NamesInv
    BY DEF Init, EngineInv, Reused, BufferInv, NamesInv
  <1>6. LeftInv /\ BoundInv /\ SavedInv /\ CleanInv
    <2>1. gl = AppState("window", "window", Only("one")) /\ begun = gl /\ pc = "out" /\ ~err
      BY DEF Init
    <2> QED BY <2>1, AppStates DEF LeftInv, BoundInv, SavedInv, CleanInv, Amid, Behind, Before
  <1> QED BY TypeParts, <1>1, <1>2, <1>3, <1>4, <1>5, <1>6 DEF FrameInv

LEMMA FrameStutter ==
  ASSUME FrameInv, UNCHANGED vars PROVE FrameInv'
  <1>1. TypeOK'
    BY DEF FrameInv, TypeOK, vars, ring, device, objects, call
  <1>2. LocalsInv' /\ MakingInv' /\ CaughtInv' /\ ShownInv'
    BY DEF FrameInv, LocalsInv, MakingInv, Making, CaughtInv, Caught, ShownInv, vars, ring,
           device, objects, call
  <1>3. EngineInv' /\ BufferInv' /\ NamesInv'
    BY DEF FrameInv, EngineInv, Reused, BufferInv, NamesInv, vars, ring, device, objects
  <1>4. LeftInv' /\ BoundInv' /\ SavedInv' /\ CleanInv'
    BY DEF FrameInv, LeftInv, BoundInv, SavedInv, CleanInv, vars, call
  <1> QED BY <1>1, <1>2, <1>3, <1>4 DEF FrameInv

LEMMA FrameNext == FrameInv /\ [Next]_vars => FrameInv'
  <1> SUFFICES ASSUME FrameInv, [Next]_vars PROVE FrameInv'
    OBVIOUS
  <1>1. ASSUME Inside PROVE FrameInv'
    BY <1>1, NothingToCopyStep, CopyReadpixelsStep, CopyCudaStep, ReserveStep, ReserveFailsStep,
       SaveBindingsStep, RebuildStep, InitCudaStep, InitReadpixelsStep, BlitStep,
       ShootReadpixelsStep, ShootCudaStep, FinishStep, LeaveStep DEF Inside
  <1> QED BY <1>1, EnterStep, ResetStep, FrameStutter DEF Next

LEMMA FrameInvariant == Spec => []FrameInv
  BY FrameInit, FrameNext, PTL DEF Spec

(* A copy stays inside the reservation and the buffer, although their      *)
(* sizes have been reduced modulo 2^32 and belong to the swap before, as   *)
(* long as no texture can take more than 2^32 bytes.                       *)
THEOREM CopiesInside == ASSUME TexturesFit PROVE Spec => []CopyStaysInside
  <1>1. ASSUME FrameInv PROVE CopyStaysInside
    <2>1. ASSUME NEW size \in Sizes, HasStorage(size), Rgba(size) % Word # 0
          PROVE  /\ Rgba(size) % Word = Rgba(size)
                 /\ I420(size) % Word = I420(size)
      <3>1. Rgba(size) <= Word
        BY <2>1 DEF TexturesFit
      <3>2. Rgba(size) < Word
        BY <2>1, <3>1, Bytes, WordRest, GrabberAssumption
      <3>3. I420(size) < Word
        BY <3>2, Bytes, GrabberAssumption
      <3> QED BY <3>2, <3>3, Bytes, WordRest
    <2>2. ASSUME pc = "copy", frame
          PROVE  I420(slot.head.size) <= slot.room /\ Rgba(slot.head.size) <= buf.bytes
      <3>1. PICK size \in Sizes : size = slot.head.size
        BY <1>1, <2>2 DEF FrameInv, CaughtInv, Caught
      <3>2. /\ HasStorage(size) /\ buf.bytes = Rgba(size) % Word /\ buf.bytes # 0
            /\ slot.room = I420(size) % Word
        BY <1>1, <2>2, <3>1, NoSizeNoWindow DEF FrameInv, CaughtInv, Caught, BufferInv
      <3> QED BY <2>1, <3>1, <3>2, Bytes
    <2>3. ASSUME pc = "shoot", engine = "cuda", buf.bytes # 0
          PROVE  Touched(swap.size) <= buf.bytes
      <3>1. PICK size \in Sizes : size = swap.size
        BY <1>1, <2>3 DEF FrameInv, LocalsInv
      <3>2. HasStorage(size) /\ buf.bytes = Rgba(size) % Word
        BY <1>1, <2>3, <3>1, NoSizeNoWindow DEF FrameInv, EngineInv, BufferInv
      <3> QED BY <2>1, <2>3, <3>1, <3>2, TouchedInside
    <2> QED BY <2>2, <2>3 DEF CopyStaysInside
  <1> QED BY <1>1, FrameInvariant, PTL

(* Nothing is drawn into a texture that a failed shot has left mapped, and *)
(* no engine is called that has not been set up.                           *)
THEOREM MappedNotDrawn == Spec => []DrawsUnmapped
  <1>1. FrameInv => DrawsUnmapped
    BY DEF FrameInv, EngineInv, CaughtInv, Caught, DrawsUnmapped
  <1> QED BY <1>1, FrameInvariant, PTL

(* Objects are lost only to a failure of CUDA's own, or with a context     *)
(* that CUDA was used in.                                                  *)
THEOREM ObjectsNamed == Spec => []NothingLost
  <1>1. FrameInv => NothingLost
    BY DEF FrameInv, NamesInv, NothingLost
  <1> QED BY <1>1, FrameInvariant, PTL

(* Whatever fails, the application finds again what it has bound and set,  *)
(* but for a read buffer of another frame buffer than it draws to, and for *)
(* its pixel buffer once a mapping has been refused.                       *)
THEOREM AppFindsItsState == Spec => []AppUndisturbed
  <1>1. ASSUME FrameInv, pc = "out" PROVE AppUndisturbed
    <2>1. gl \in GlState
      BY <1>1 DEF FrameInv, TypeOK
    <2>2. DOMAIN gl \ {"readBuffer", "pack"} =
            {"draw", "drawBuffers", "read", "texture", "rowLength", "debug"}
      BY <2>1 DEF GlState
    <2> QED BY <1>1, <2>2 DEF FrameInv, LeftInv, BoundInv, CleanInv, AppUndisturbed, Amid,
                              Behind, Before
  <1>2. FrameInv => AppUndisturbed
    BY <1>1 DEF AppUndisturbed
  <1> QED BY <1>2, FrameInvariant, PTL

-----------------------------------------------------------------------------
(* The messages are those of FrameLog                                      *)

(* What FrameLog calls caught.                                             *)
Waiting == IF frame /\ open THEN slot.head ELSE Nothing

(* And spoilt.                                                             *)
Spoilt == mapping = "spoilt" /\ out # NoMessage

LEMMA SwapNo ==
  ASSUME FrameInv
  PROVE  /\ swap.no \in 0 .. (Turns - 1)
         /\ pc # "out" => swap # Nothing
         /\ Caught => slot.head # Nothing
  <1>1. pc # "out" => swap # Nothing
    BY NoSizeNoWindow DEF FrameInv, LocalsInv, Nothing
  <1>2. Caught => slot.head # Nothing
    BY NoSizeNoWindow DEF FrameInv, CaughtInv, Nothing
  <1> QED BY <1>1, <1>2 DEF FrameInv, TypeOK, Pictures

(* A swap begins: what has been caught, stays so.                          *)
LEMMA EnterShown ==
  ASSUME FrameInv, NEW size \in Sizes, NEW draw, NEW read, Enter(size, draw, read)
  PROVE  Frames!NextSwap(size)
  BY DEF Enter, Frames!NextSwap, Frames!NoMessage, Frames!Nothing, Frames!Turns, NoMessage,
         Nothing, Turns

(* The frame of the swap before is published, if the engine has it.        *)
LEMMA CopyShown ==
  ASSUME FrameInv, frame, pc = "copy", UNCHANGED <<swap, frame, slot>>,
         NEW image, NEW kept \in BOOLEAN, mapping' = (IF kept THEN mapping ELSE "spoilt"),
         NEW error, Copied(image, error),
         ~error => image = IF kept THEN buf.image ELSE Nothing
  PROVE  Frames!Publish \/ UNCHANGED <<swap, Waiting, out, Spoilt>>
  <1>1. /\ open /\ buf.image = slot.head /\ swap.no = (slot.head.no + 1) % Turns
        /\ out = NoMessage /\ mapping = "good" /\ slot.head # Nothing
    BY SwapNo DEF FrameInv, LocalsInv, CaughtInv, Caught
  <1>2. CASE ~error
    <2>1. open' = FALSE /\ out' = [head |-> slot.head, pixels |-> image]
      BY <1>1, <1>2 DEF Copied
    <2>2. out' # NoMessage
      BY <1>1, <2>1 DEF NoMessage
    <2>3. Spoilt' = ~kept
      BY <1>1, <2>2 DEF Spoilt
    <2>4. out' = [head |-> slot.head, pixels |-> IF Spoilt' THEN Nothing ELSE slot.head]
      BY <1>1, <1>2, <2>1, <2>3
    <2>5. Spoilt' \in BOOLEAN
      BY DEF Spoilt
    <2> QED BY <1>1, <2>1, <2>4, <2>5
            DEF Frames!Publish, Frames!Nothing, Frames!Turns, Nothing, Turns, Spoilt
  <1>3. CASE error
    BY <1>1, <1>3 DEF Copied, Waiting, Spoilt
  <1> QED BY <1>2, <1>3

(* Or it is not, because there was no mapping, or CUDA did not answer.     *)
LEMMA CopyFailsShown ==
  ASSUME FrameInv, pc = "copy", UNCHANGED <<swap, frame, ring>>
  PROVE  UNCHANGED <<swap, Waiting, out, Spoilt>>
  BY DEF FrameInv, LocalsInv, Waiting, Spoilt, ring

(* What has not been published is given up.                                *)
LEMMA ReserveShown ==
  ASSUME FrameInv, Reserve \/ ReserveFails \/ Reset
  PROVE  Frames!Drop
  BY DEF Reserve, ReserveFails, Reset, ring, call, Frames!Drop, Frames!Nothing, Nothing

LEMMA FinishShown ==
  ASSUME FrameInv, Finish
  PROVE  Frames!Catch \/ UNCHANGED <<swap, Waiting, out, Spoilt>>
  <1>1. open /\ frame /\ slot = [head |-> Nothing, room |-> I420(swap.size) % Word]
        /\ swap # Nothing
    BY SwapNo DEF FrameInv, MakingInv, Making, Finish, Step
  <1>2. UNCHANGED <<swap, out, open>> /\ Spoilt' = Spoilt
    BY DEF Finish, call, Spoilt
  <1>3. Waiting = Nothing
    BY <1>1 DEF Waiting
  <1>4. CASE frame'
    <2>1. slot' = [head |-> swap, room |-> I420(swap.size) % Word]
      BY <1>1, <1>4 DEF Finish
    <2>2. Waiting' = swap
      BY <1>1, <1>2, <1>4, <2>1 DEF Waiting
    <2> QED BY <1>1, <1>2, <1>3, <2>2
            DEF Frames!Catch, Frames!Nothing, Nothing, Waiting, Spoilt
  <1>5. CASE ~frame'
    <2>1. Waiting' = Nothing
      BY <1>5 DEF Waiting
    <2> QED BY <1>2, <1>3, <2>1
  <1> QED BY <1>4, <1>5

(* All other steps show nothing.                                           *)
LEMMA QuietShown ==
  ASSUME NothingToCopy \/ SaveBindings \/ Rebuild \/ InitCuda \/ InitReadpixels \/ Blit
           \/ ShootReadpixels \/ ShootCuda \/ Leave
  PROVE  UNCHANGED <<swap, Waiting, out, Spoilt>>
  <1>1. UNCHANGED <<swap, frame, ring, call>>
    BY DEF NothingToCopy, SaveBindings, Rebuild, InitCuda, InitReadpixels, Blit,
           ShootReadpixels, ShootCuda, Leave
  <1> QED BY <1>1 DEF ring, call, Waiting, Spoilt

(* Every message is one whole frame under its own size, published at the   *)
(* swap after the one it was shot at, and once, with nothing of it still   *)
(* on its way from CUDA; only the pixels are others if glUnmapBuffer()     *)
(* says that they have got lost.                                           *)
THEOREM FramesPublished == Spec => PublishesFrames
  <1>1. Init => Frames!LogInit
    BY DEF Init, Frames!LogInit, Frames!Nothing, Frames!NoMessage, Nothing, NoMessage
  <1>2. FrameInv /\ [Next]_vars => [Frames!LogNext]_(Frames!logVars)
    <2> SUFFICES ASSUME FrameInv, [Next]_vars
                 PROVE  Frames!LogNext \/ UNCHANGED Frames!logVars
      OBVIOUS
    <2>1. ASSUME UNCHANGED <<swap, Waiting, out, Spoilt>> PROVE UNCHANGED Frames!logVars
      BY <2>1 DEF Frames!logVars, Waiting, Spoilt
    <2>2. ASSUME NEW size \in Sizes, NEW draw \in {"window", "user"},
                 NEW read \in {"window", "user"}, Enter(size, draw, read)
          PROVE  Frames!LogNext
      BY <2>2, EnterShown DEF Frames!LogNext
    <2>3. ASSUME CopyReadpixels \/ CopyCuda PROVE Frames!LogNext \/ UNCHANGED Frames!logVars
      <3>1. frame /\ pc = "copy" /\ UNCHANGED <<swap, frame, slot>>
        BY <2>3 DEF CopyReadpixels, CopyCuda, Step, Copied, ring
      <3>2. CASE UNCHANGED ring
        BY <2>1, <3>1, <3>2, CopyFailsShown
      <3>3. CASE CopyReadpixels /\ ring' # ring
        <4>1. PICK ok \in BOOLEAN, kept \in BOOLEAN :
                /\ Copied(IF ok /\ kept THEN buf.image ELSE Nothing, err \/ ~ok)
                /\ mapping' = IF kept THEN mapping ELSE "spoilt"
          BY <3>3 DEF CopyReadpixels
        <4> QED BY <2>1, <3>1, <4>1, CopyShown DEF Frames!LogNext
      <3>4. CASE CopyCuda /\ ring' # ring
        <4>1. Copied(buf.image, err) /\ mapping' = IF TRUE THEN mapping ELSE "spoilt"
          BY <3>4 DEF CopyCuda, call
        <4> QED BY <2>1, <3>1, <4>1, CopyShown DEF Frames!LogNext
      <3> QED BY <2>3, <3>2, <3>3, <3>4
    <2>4. ASSUME Reserve \/ ReserveFails \/ Reset PROVE Frames!LogNext
      BY <2>4, ReserveShown DEF Frames!LogNext
    <2>5. ASSUME Finish PROVE Frames!LogNext \/ UNCHANGED Frames!logVars
      BY <2>1, <2>5, FinishShown DEF Frames!LogNext
    <2>6. CASE UNCHANGED vars
      BY <2>1, <2>6 DEF vars, ring, call, Waiting, Spoilt
    <2> QED BY <2>1, <2>2, <2>3, <2>4, <2>5, <2>6, QuietShown DEF Next, Inside
  <1>3. FrameInv /\ [Next]_vars => [out' # out /\ out' # NoMessage => landed']_vars
    <2> SUFFICES ASSUME FrameInv, Next, out' # out, out' # NoMessage PROVE landed'
      OBVIOUS
    <2>1. CopyReadpixels \/ CopyCuda
      BY DEF Next, Inside, Enter, NothingToCopy, Reserve, ReserveFails, SaveBindings, Rebuild,
             InitCuda, InitReadpixels, Blit, ShootReadpixels, ShootCuda, Finish, Leave, Reset, ring
    <2>2. CASE CopyReadpixels
      BY <2>2 DEF FrameInv, EngineInv, TypeOK, CopyReadpixels
    <2>3. CASE CopyCuda
      BY <2>3 DEF CopyCuda, ring
    <2> QED BY <2>1, <2>2, <2>3
  <1> QED BY <1>1, <1>2, <1>3, FrameInvariant, PTL DEF Spec, PublishesFrames, Frames!LogSpec

=============================================================================
