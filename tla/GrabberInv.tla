----------------------------- MODULE GrabberInv -----------------------------
(* An inductive invariant of the frame pipeline: what a frame that has     *)
(* been caught has behind it, and what the application will find.          *)
EXTENDS Grabber

(* No texture takes more bytes than 32 bits can count: with a limit of     *)
(* 32768 texels each way (glgrab.c:293) it takes 2^32 at most.             *)
TexturesFit == \A size \in Sizes : HasStorage(size) => Rgba(size) <= Word

-----------------------------------------------------------------------------

LocalsInv ==
  /\ pc \in {"out", "copy"} => resize
  /\ shot => pc \in {"finish", "leave"}
  /\ pc = "copy" => out = NoMessage /\ mapping = "good"
  /\ pc # "out" => swap.size \in Sizes

(* The frame of this swap is being made in a reservation of its size.      *)
Making == pc \in {"save", "rebuild", "init", "blit", "shoot", "finish"}

MakingInv ==
  Making => /\ frame /\ open
            /\ slot = [head |-> Nothing, room |-> I420(swap.size) % Word]

(* A frame has been caught and waits for the next swap.                    *)
Caught == frame /\ pc \in {"leave", "out", "copy"}

CaughtInv ==
  Caught =>
    /\ open
    /\ slot.room = I420(slot.head.size) % Word
    /\ engine # "none" /\ ~locked
    /\ tex.size = slot.head.size /\ slot.head.size \in Sizes
    /\ buf.bytes # 0 /\ buf.image = slot.head
    /\ IF pc = "copy" THEN swap.no = (slot.head.no + 1) % Turns
                      ELSE swap = slot.head

(* A good picture is on its way from the screen to the buffer.             *)
ShownInv ==
  /\ pc = "shoot" /\ ~err => tex = [size |-> swap.size, image |-> swap]
  /\ pc = "finish" /\ shot /\ ~err =>
       buf.image = swap /\ buf.bytes # 0 /\ tex.size = swap.size

-----------------------------------------------------------------------------

(* The engine of the swap before is good for this one.                     *)
Reused == ~resize /\ pc \in {"reserve", "save"}

EngineInv ==
  /\ Reused => tex.size = swap.size
  /\ pc = "init" => engine = "none"
  /\ pc \in {"init", "blit", "shoot", "finish"} => tex.size \in {NoSize, swap.size}
  /\ Reused \/ pc \in {"blit", "shoot", "finish"} => engine # "none"
  /\ Reused \/ pc \in {"init", "blit", "shoot"} \/ (pc = "finish" /\ shot) => ~locked
  /\ engine # "cuda" => landed

(* A buffer, if there is any, is of the size of the texture.               *)
BufferInv ==
  /\ tex.size # NoSize => HasStorage(tex.size)
  /\ engine = "none" => buf.bytes = 0
  /\ tex.size # NoSize => buf.bytes \in {0, Rgba(tex.size) % Word}
  /\ engine = "cuda" => tex.size # NoSize /\ buf.bytes = Rgba(tex.size) % Word

NamesInv ==
  /\ "cuda" \in names => engine = "cuda"
  /\ leaks \subseteq {"cuda"}
  /\ ~cudaLost => leaks = {}

-----------------------------------------------------------------------------
(* What GL has been told, and what can be put back                         *)

(* What never differs from what the application has left, and what it may  *)
(* have left.                                                              *)
LeftInv ==
  /\ {begun.draw, begun.read} \subseteq {"window", "user"}
  /\ begun.texture = "app" /\ begun.rowLength = "app" /\ begun.debug = "app"
  /\ \A f \in Fbos : begun.drawBuffers[f] \in DrawLists \cup {Only("one")}
  /\ begun.drawBuffers["grab"] = Only("one")
  /\ gl.texture = "app" /\ gl.rowLength = "app"
  /\ gl.drawBuffers = begun.drawBuffers
  /\ gl.debug = IF pc = "out" THEN "app" ELSE "grab"
  /\ mapping # "refused" /\ begun.pack # "grab" => gl.pack = begun.pack

(* What is bound, and what is read from, at each place.                    *)
Before == {"copy", "reserve", "save"}
Amid   == {"rebuild", "init", "blit"}
Behind == {"shoot", "finish"}

BoundInv ==
  /\ gl.draw = IF pc \in Amid \cup Behind THEN "grab" ELSE begun.draw
  /\ gl.read = IF pc \in Behind THEN "grab" ELSE begun.read
  /\ pc \in Before \cup Amid => gl.readBuffer = begun.readBuffer
  /\ pc \in Behind =>
       gl.readBuffer = [begun.readBuffer EXCEPT ![begun.draw] =
                          IF begun.draw = "window" THEN "back" ELSE @]
  /\ begun.draw = begun.read /\ pc \in {"leave", "out"} =>
       gl.readBuffer = begun.readBuffer

SavedInv ==
  pc \in Amid \cup Behind =>
    saved = [draw |-> begun.draw, drawBuffers |-> Trimmed(begun.drawBuffers[begun.draw]),
             read |-> begun.read, readBuffer |-> begun.readBuffer[begun.read]]

(* If nothing has failed, the application finds no error.                  *)
CleanInv ==
  clean => /\ pc = "finish" => shot
           /\ pc \in {"leave", "out"} => ~err

FrameInv ==
  /\ TypeOK
  /\ LocalsInv /\ MakingInv /\ CaughtInv /\ ShownInv
  /\ EngineInv /\ BufferInv /\ NamesInv
  /\ LeftInv /\ BoundInv /\ SavedInv /\ CleanInv

=============================================================================
