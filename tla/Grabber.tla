------------------------------ MODULE Grabber -------------------------------
(* The pipeline inside glgrab_take_frame() (glgrab.c) with its two engines *)
(* (readpixels there, CUDA in cuda.c): a swap finishes the frame of the    *)
(* swap before and begins its own.                                         *)
(*                                                                         *)
(* Whoever runs this holds the state word (Capture), so there is one       *)
(* thread of control.  What is hard is that every call of GL, of CUDA and  *)
(* of the ring may fail, and that what it leaves behind is met again one   *)
(* swap later.                                                             *)
EXTENDS Integers, FiniteSets, SequencesExt

CONSTANTS
  Sizes,      (* of windows: <<width, height>>                            *)
  MaxTexture, (* the largest width and height of a rectangle texture      *)
  Word,       (* 2^32: uint32_t counts modulo Word                        *)
  MaxDrawBuffers,  (* the draw buffers a frame buffer may have            *)
  DrawLists        (* those the application may have chosen               *)

(* One frame buffer has several: GL_NONE, or one that is called one or two *)
(* here.  GL_BACK may stand for several, and comes alone.                  *)
DrawBufferLists == [1..MaxDrawBuffers -> {"none", "one", "two", "back"}]

Only(buffer) == [i \in 1..MaxDrawBuffers |-> IF i = 1 THEN buffer ELSE "none"]

ASSUME GrabberAssumption ==
  /\ Sizes \subseteq (Nat \ {0}) \X (Nat \ {0})
  /\ MaxTexture \in Nat \X Nat
  /\ Word \in Nat \ {0}
  /\ MaxDrawBuffers \in Nat \ {0}
  /\ DrawLists \subseteq DrawBufferLists
  /\ \A list \in DrawLists :
       list = Only("back") \/ \A i \in 1..MaxDrawBuffers : list[i] # "back"

VARIABLES
  pc,       (* where glgrab_take_frame() is                               *)
  swap,     (* what the window shows at this swap                         *)
  (* struct glgrab *)
  frame,    (* g->frame # NULL; it then points to slot                    *)
  engine,   (* which functions engine_shoot, _copy and _cleanup are       *)
  names,    (* the kinds of objects it holds the name of                  *)
  (* locals of the call *)
  resize, shot,
  saved,    (* what is put back for the application at the end            *)
  (* the ring *)
  open,     (* there is a reservation: q->next.seq # 0                    *)
  slot,     (* it: the header, and the bytes there are for pixels         *)
  out,      (* the message of this swap                                   *)
  (* GL and CUDA *)
  err,      (* glGetError() would return an error                         *)
  gl,       (* the state that the application and the grabber share       *)
  tex,      (* g->tex: its size and what is drawn in it                   *)
  buf,      (* the pixel buffer or host memory: its size and contents     *)
  landed,   (* FALSE while g->cuda.stream still copies the contents there *)
  locked,   (* the texture is mapped for CUDA                             *)
  leaks,    (* the kinds of objects there are without a name              *)
  (* history variables, which no step reads *)
  begun,    (* gl at the beginning of this call                           *)
  clean,    (* nothing has failed in this call                            *)
  mapping,  (* of the pixel buffer in this call: good, so far; refused;   *)
            (* or spoilt: the pixels got lost while it lasted             *)
  cudaLost  (* a CUDA call has failed, or a context in use by CUDA went   *)

ring    == <<open, slot, out>>
device  == <<tex, buf, landed, locked>>
objects == <<engine, names, leaks, cudaLost>>
call    == <<begun, mapping>>
vars == <<pc, swap, frame, resize, shot, saved, ring, err, gl, device,
          objects, call, clean>>

NoSize  == <<0, 0>>
Nothing == [size |-> NoSize, no |-> 0]   (* no picture, or any other one   *)
NoMessage == [head |-> Nothing, pixels |-> Nothing]
Turns   == 3                             (* swaps are numbered modulo Turns *)

Kinds   == {"tex", "pbo", "cuda"}        (* a stream, a registered texture *)
                                         (* and host memory are one kind   *)

Step(from, to) == pc = from /\ pc' = to

-----------------------------------------------------------------------------
(* Sizes                                                                   *)

(* align(): x in units of 2^shift, rounded up.                             *)
Align(x, shift) == (x + 2^shift - 1) \div 2^shift

Padded(size) == <<Align(size[1], 5) * 32, Align(size[2], 1) * 2>>

(* What a frame takes in RGBA and in I420.                                 *)
Rgba(size) == Padded(size)[1] * Padded(size)[2] * 4
I420(size) == Align(size[1], 5) * Align(size[2], 1) * 96

(* What glReadPixels() or the CUDA copy touches.                           *)
Touched(size) == 4 * ((size[2] - 1) * Padded(size)[1] + size[1])

HasStorage(size) == size[1] \in 1..MaxTexture[1] /\ size[2] \in 1..MaxTexture[2]

-----------------------------------------------------------------------------

(* Frame buffers: the one GL begins with, one of the application's own,    *)
(* and g->fbo.                                                             *)
Fbos == {"window", "user", "grab"}

(* The frame buffers bound, with what belongs to each; the other bindings; *)
(* GL_PACK_ROW_LENGTH; and where debug messages go.                        *)
GlState == [draw : Fbos, drawBuffers : [Fbos -> DrawBufferLists],
            read : Fbos, readBuffer : [Fbos -> {"app", "back"}],
            texture : {"app", "grab"}, pack : {"app", "grab", "none"},
            rowLength : {"app", "grab"}, debug : {"app", "grab"}]

AppState(draw, read, list) ==
  [draw |-> draw,
   drawBuffers |-> [f \in Fbos |-> IF f = draw THEN list ELSE Only("one")],
   read |-> read, readBuffer |-> [f \in Fbos |-> "app"],
   texture |-> "app", pack |-> "app", rowLength |-> "app", debug |-> "app"]

Unsaved == [draw |-> "window", drawBuffers |-> <<>>, read |-> "window",
            readBuffer |-> "app"]

Init ==
  /\ pc = "out"
  /\ swap = Nothing
  /\ frame = FALSE
  /\ engine = "none"
  /\ names = {}
  /\ resize = TRUE
  /\ shot = FALSE
  /\ saved = Unsaved
  /\ open = FALSE
  /\ slot = [head |-> Nothing, room |-> 0]
  /\ out = NoMessage
  /\ err = FALSE
  /\ gl = AppState("window", "window", Only("one"))
  /\ tex = [size |-> NoSize, image |-> Nothing]
  /\ buf = [bytes |-> 0, image |-> Nothing]
  /\ landed = TRUE
  /\ locked = FALSE
  /\ leaks = {}
  /\ begun = gl
  /\ clean = TRUE
  /\ mapping = "good"
  /\ cudaLost = FALSE

-----------------------------------------------------------------------------
(* The application swaps a window; any frame buffers may be bound meanwhile, *)
(* and an error of its own pending.  It may have bound nothing to          *)
(* GL_PIXEL_PACK_BUFFER since the call before.  Then debug messages are    *)
(* redirected, which is an error if GL has none.                           *)
ListsOf(draw) ==
  {list \in DrawLists : draw = "user" => list # Only("back")}

Enter_KeepsError(size, draw, read) ==
  /\ Step("out", "copy")
  /\ swap' = [size |-> size, no |-> (swap.no + 1) % Turns]
  /\ \E pack \in {"app", gl.pack}, list \in ListsOf(draw) :
       begun' = [AppState(draw, read, list) EXCEPT !.pack = pack]
  /\ gl' = [begun' EXCEPT !.debug = "grab"]
  /\ err' \in BOOLEAN
  /\ out' = NoMessage
  /\ clean' = TRUE
  /\ mapping' = "good"
  /\ UNCHANGED <<frame, resize, shot, saved, open, slot, device, objects>>

Enter(size, draw, read) ==
  /\ Step("out", "copy")
  /\ swap' = [size |-> size, no |-> (swap.no + 1) % Turns]
  /\ \E pack \in {"app", gl.pack}, list \in ListsOf(draw) :
       begun' = [AppState(draw, read, list) EXCEPT !.pack = pack]
  /\ gl' = [begun' EXCEPT !.debug = "grab"]
  /\ err' \in BOOLEAN
  /\ out' = NoMessage
  /\ clean' = ~err'
  /\ mapping' = "good"
  /\ UNCHANGED <<frame, resize, shot, saved, open, slot, device, objects>>

-----------------------------------------------------------------------------
(* The frame of the swap before                                            *)

NothingToCopy_KeepsSize ==
  /\ ~frame
  /\ Step("copy", "reserve")
  /\ resize' = (engine = "none")
  /\ UNCHANGED <<swap, frame, engine, names, shot, saved, ring, err, gl, device,
                 leaks, call, clean, cudaLost>>

NothingToCopy ==
  /\ ~frame
  /\ Step("copy", "reserve")
  /\ UNCHANGED <<swap, frame, resize, shot, saved, ring, err, gl, device,
                 objects, call, clean>>

Resized_Never == FALSE

Resized == slot.head.size # swap.size

(* engine_copy() has worked, and unless GL has had an error all the same,  *)
(* mrb_commit() makes a message of what has been reserved.                 *)
Copied_Unchecked(image, error) ==
  /\ err' = FALSE
  /\ IF open
       THEN open' = FALSE /\ out' = [head |-> slot.head, pixels |-> image]
       ELSE UNCHANGED <<open, out>>
  /\ UNCHANGED slot

Copied(image, error) ==
  /\ err' = FALSE
  /\ IF open /\ ~error
       THEN open' = FALSE /\ out' = [head |-> slot.head, pixels |-> image]
       ELSE UNCHANGED <<open, out>>
  /\ UNCHANGED slot

(* glMapBufferRange() of a buffer that is large enough, and of more than   *)
(* nothing, may work.  Then any call may have been an error, so that       *)
(* nobody knows what was copied, and glUnmapBuffer() may find that the     *)
(* pixels have got lost meanwhile, which is no error.  If there is no      *)
(* mapping, the buffer stays bound.                                        *)
CopyReadpixels ==
  /\ frame /\ engine = "readpixels"
  /\ Step("copy", "reserve")
  /\ resize' = Resized
  /\ \/ /\ Rgba(slot.head.size) % Word \in 1..buf.bytes
        /\ \E ok, kept \in BOOLEAN :
             LET image == IF ok /\ kept THEN buf.image ELSE Nothing
             IN /\ Copied(image, err \/ ~ok)
                /\ buf' = [buf EXCEPT !.image = image]
                /\ mapping' = IF kept THEN mapping ELSE "spoilt"
                /\ clean' = (clean /\ ok /\ kept)
        /\ UNCHANGED gl
     \/ /\ gl' = [gl EXCEPT !.pack = "grab"]
        /\ err' = TRUE
        /\ mapping' = "refused"
        /\ clean' = FALSE
        /\ UNCHANGED <<ring, buf>>
  /\ UNCHANGED <<swap, frame, shot, saved, tex, landed, locked, objects, begun>>

(* cudaStreamSynchronize() waits for the copy into the host's memory.      *)
CopyCuda ==
  /\ frame /\ engine = "cuda"
  /\ Step("copy", "reserve")
  /\ resize' = Resized
  /\ \/ /\ landed' = TRUE
        /\ Copied(buf.image, err)
        /\ UNCHANGED clean
     \/ /\ clean' = FALSE
        /\ UNCHANGED <<landed, ring, err>>
  /\ UNCHANGED <<swap, frame, shot, saved, gl, tex, buf, locked, objects, call>>

-----------------------------------------------------------------------------
(* The frame of this swap                                                  *)

(* A reservation that is still open is forgotten.                          *)
Reserve ==
  /\ Step("reserve", "save")
  /\ frame' = TRUE
  /\ open' = TRUE
  /\ slot' = [head |-> Nothing, room |-> I420(swap.size) % Word]
  /\ UNCHANGED <<swap, resize, shot, saved, out, err, gl, device, objects, call,
                 clean>>

(* The reservation before, if it is still open, remains so.                *)
ReserveFails ==
  /\ Step("reserve", "leave")
  /\ frame' = FALSE
  /\ clean' = FALSE
  /\ UNCHANGED <<swap, resize, shot, saved, ring, err, gl, device, objects, call>>

(* GL_DRAW_BUFFERi, but for those at the end that are GL_NONE.             *)
Trimmed(list) ==
  SubSeq(list, 1, SelectLastInSeq(list, LAMBDA buffer : buffer # "none"))

SaveBindings_Late ==
  /\ Step("save", IF resize THEN "rebuild" ELSE "blit")
  /\ gl' = [gl EXCEPT !.draw = "grab"]
  /\ saved' = [draw |-> gl.draw, drawBuffers |-> Trimmed(gl.drawBuffers["grab"]),
               read |-> gl.read, readBuffer |-> gl.readBuffer[gl.read]]
  /\ UNCHANGED <<swap, frame, resize, shot, ring, err, device, objects, call,
                 clean>>

(* What is asked for belongs to the frame buffers bound by the application, *)
(* before the one of the grabber is bound.                                 *)
SaveBindings ==
  /\ Step("save", IF resize THEN "rebuild" ELSE "blit")
  /\ saved' = [draw |-> gl.draw, drawBuffers |-> Trimmed(gl.drawBuffers[gl.draw]),
               read |-> gl.read, readBuffer |-> gl.readBuffer[gl.read]]
  /\ gl' = [gl EXCEPT !.draw = "grab"]
  /\ UNCHANGED <<swap, frame, resize, shot, ring, err, device, objects, call,
                 clean>>

Rebuild_NoCleanup ==
  /\ Step("rebuild", "init")
  /\ leaks' = leaks \cup names
  /\ names' = {"tex"}
  /\ engine' = "none"
  /\ tex' = [size |-> swap.size, image |-> Nothing]
  /\ buf' = [bytes |-> 0, image |-> Nothing]
  /\ UNCHANGED <<swap, frame, resize, shot, saved, ring, call, landed, locked, gl,
                 err, clean, cudaLost>>

(* readpixels_cleanup(): a buffer that is deleted is bound no more.        *)
PackAfterCleanup ==
  IF gl.pack = "grab" /\ "pbo" \in names THEN "none" ELSE gl.pack

(* cuda_cleanup() goes on when one of its calls fails.                     *)
MayStay == SUBSET (names \cap {"cuda"})

(* engine_cleanup() and a texture of the new size, bound while it gets its *)
(* storage.  cudaFreeHost() waits for the copy that is under way; a call   *)
(* of the clean-up may fail, and its object is then lost.                  *)
Rebuild ==
  /\ Step("rebuild", "init")
  /\ \E ok \in BOOLEAN, lost \in MayStay :
       /\ ok => HasStorage(swap.size)
       /\ tex' = [size |-> IF ok THEN swap.size ELSE NoSize, image |-> Nothing]
       /\ err' = (err \/ ~ok)
       /\ clean' = (clean /\ ok /\ lost = {})
       /\ leaks' = leaks \cup lost
       /\ cudaLost' = (cudaLost \/ lost # {})
  /\ names' = {"tex"}
  /\ engine' = "none"
  /\ LET bound == [gl EXCEPT !.pack = PackAfterCleanup, !.texture = "grab"]
     IN gl' = [bound EXCEPT !.texture = gl.texture]
  /\ buf' = [bytes |-> 0, image |-> Nothing]
  /\ landed' = TRUE
  /\ locked' = FALSE
  /\ UNCHANGED <<swap, frame, resize, shot, saved, ring, call>>

(* cuda_init(), all three calls of which work.                             *)
InitCuda ==
  /\ Step("init", "blit")
  /\ tex.size # NoSize
  /\ engine' = "cuda"
  /\ names' = names \cup {"cuda"}
  /\ buf' = [bytes |-> Rgba(swap.size) % Word, image |-> Nothing]
  /\ UNCHANGED <<swap, frame, resize, shot, saved, ring, err, gl, tex, landed,
                 locked, leaks, call, clean, cudaLost>>

(* cuda_init() fails at once, is not built in, or fails half-way; then     *)
(* readpixels_init(), whose pbo shares its place with what CUDA has made   *)
(* and is bound while it gets its storage.                                 *)
InitReadpixels ==
  /\ Step("init", "blit")
  /\ \E made \in {{}, {"cuda"}} :
       /\ leaks' = leaks \cup made
       /\ cudaLost' = (cudaLost \/ made # {})
  /\ engine' = "readpixels"
  /\ names' = names \cup {"pbo"}
  /\ \E ok \in BOOLEAN :
       /\ buf' = [bytes |-> IF ok THEN Rgba(swap.size) % Word ELSE 0,
                  image |-> Nothing]
       /\ err' = (err \/ ~ok)
       /\ clean' = (clean /\ ok)
  /\ LET bound == [gl EXCEPT !.pack = "grab"]
     IN gl' = [bound EXCEPT !.pack = gl.pack]
  /\ UNCHANGED <<swap, frame, resize, shot, saved, ring, tex, landed, locked,
                 call>>

(* What is drawn where the application draws goes to the texture, the one  *)
(* draw buffer of g->fbo.  A frame buffer of the application's own has no  *)
(* back buffer to read.                                                    *)
Blit ==
  /\ Step("blit", "shoot")
  /\ gl' = [gl EXCEPT !.read = "grab",
                      !.drawBuffers[gl.draw] = Only("one"),
                      !.readBuffer[saved.draw] =
                        IF saved.draw = "window" THEN "back" ELSE @]
  /\ \E ok \in BOOLEAN :
       LET good == ok /\ saved.draw = "window" /\ tex.size # NoSize
       IN /\ tex' = [tex EXCEPT !.image =
                       IF good /\ tex.size = swap.size THEN swap ELSE Nothing]
          /\ err' = (err \/ ~good)
          /\ clean' = (clean /\ ok)
  /\ UNCHANGED <<swap, frame, resize, shot, saved, ring, buf, landed, locked, objects,
                 call>>

(* The rows of the buffer are padded, those of the application may be not. *)
ShootReadpixels ==
  /\ engine = "readpixels"
  /\ Step("shoot", "finish")
  /\ shot' = TRUE
  /\ LET bound == [gl EXCEPT !.pack = "grab", !.rowLength = "grab"]
     IN gl' = [bound EXCEPT !.rowLength = gl.rowLength, !.pack = gl.pack]
  /\ \E ok \in BOOLEAN :
       LET good == ok /\ Touched(swap.size) <= buf.bytes
       IN /\ buf' = [buf EXCEPT !.image = IF good THEN tex.image ELSE Nothing]
          /\ err' = (err \/ ~good)
          /\ clean' = (clean /\ ok)
  /\ UNCHANGED <<swap, frame, resize, saved, ring, tex, landed, locked, objects,
                 call>>

(* The texture is mapped, copied and unmapped.  What fails in between      *)
(* leaves it mapped, with the copy begun or not.  Memory of no bytes has   *)
(* no address on the device.                                               *)
ShootCuda ==
  /\ engine = "cuda"
  /\ Step("shoot", "finish")
  /\ \/ /\ ~locked /\ buf.bytes # 0
        /\ buf' = [buf EXCEPT !.image = tex.image]
        /\ landed' = FALSE
        /\ \/ shot' = TRUE /\ UNCHANGED <<locked, clean>>
           \/ locked' = TRUE /\ clean' = FALSE /\ UNCHANGED shot
     \/ /\ locked' \in {locked, TRUE}
        /\ clean' = FALSE
        /\ UNCHANGED <<buf, landed, shot>>
  /\ UNCHANGED <<swap, frame, resize, saved, ring, err, gl, tex, objects, call>>

(* glDrawBuffer() takes any one buffer, glDrawBuffers() a list of those    *)
(* that stand for one buffer each.                                         *)
Drawable(list) == Len(list) = 1 \/ \A i \in DOMAIN list : list[i] # "back"

DrawBuffers(list) ==
  [i \in 1..MaxDrawBuffers |-> IF i \in DOMAIN list THEN list[i] ELSE "none"]

(* The bindings are put back, and then what belongs to the frame buffers   *)
(* that are bound.                                                         *)
PutBack ==
  gl' = [gl EXCEPT !.read = saved.read, !.draw = saved.draw,
                   !.drawBuffers[saved.draw] =
                     IF Drawable(saved.drawBuffers) THEN DrawBuffers(saved.drawBuffers)
                                                    ELSE @,
                   !.readBuffer[saved.read] = saved.readBuffer]

(* The frame is stamped, or given up.                                      *)
Finish ==
  /\ Step("finish", "leave")
  /\ PutBack
  /\ LET error == err \/ ~Drawable(saved.drawBuffers)
     IN /\ frame' = (shot /\ ~error)
        /\ err' = (error /\ ~shot)
  /\ slot' = IF frame' THEN [slot EXCEPT !.head = swap] ELSE slot
  /\ UNCHANGED <<swap, resize, shot, saved, open, out, device, objects, call,
                 clean>>

(* Debug messages go where they went; the locals go out of scope.          *)
Leave ==
  /\ Step("leave", "out")
  /\ gl' = [gl EXCEPT !.debug = "app"]
  /\ \E ok \in BOOLEAN :
       /\ err' = (err \/ ~ok)
       /\ clean' = (clean /\ ok)
  /\ resize' = TRUE
  /\ shot' = FALSE
  /\ saved' = Unsaved
  /\ UNCHANGED <<swap, frame, ring, device, objects, call>>

-----------------------------------------------------------------------------
(* glgrab_reset(): another context, since the one before is gone and its   *)
(* objects with it.  CUDA's are not, and nothing frees them.               *)
Reset ==
  /\ Step("out", "out")
  /\ engine # "none"
  /\ frame' = FALSE
  /\ engine' = "none"
  /\ names' = {}
  /\ leaks' = leaks \cup (names \cap {"cuda"})
  /\ cudaLost' = (cudaLost \/ engine = "cuda")
  /\ tex' = [size |-> NoSize, image |-> Nothing]
  /\ buf' = [bytes |-> 0, image |-> Nothing]
  /\ landed' = TRUE
  /\ locked' = FALSE
  /\ gl' = AppState("window", "window", Only("one"))
  /\ begun' = gl'
  /\ err' = FALSE
  /\ UNCHANGED <<swap, resize, shot, saved, ring, clean, mapping>>

(* One call of glgrab_take_frame() after it has been entered.              *)
Inside ==
  \/ NothingToCopy \/ CopyReadpixels \/ CopyCuda
  \/ Reserve \/ ReserveFails \/ SaveBindings
  \/ Rebuild \/ InitCuda \/ InitReadpixels
  \/ Blit \/ ShootReadpixels \/ ShootCuda \/ Finish \/ Leave

Next ==
  \/ \E size \in Sizes, draw, read \in {"window", "user"} : Enter(size, draw, read)
  \/ Inside
  \/ Reset

Spec == Init /\ [][Next]_vars

(* A call of glgrab_take_frame() waits for nobody.                         *)
FairSpec == Spec /\ WF_vars(Inside)

-----------------------------------------------------------------------------

Pictures == [size : Sizes \cup {NoSize}, no : 0..(Turns - 1)]

SavedLists == {Trimmed(list) : list \in DrawBufferLists}

TypeOK ==
  /\ pc \in {"out", "copy", "reserve", "save", "rebuild", "init", "blit", "shoot",
             "finish", "leave"}
  /\ swap \in Pictures
  /\ {frame, resize, shot, open, err, landed, locked, clean, cudaLost} \subseteq BOOLEAN
  /\ engine \in {"none", "readpixels", "cuda"}
  /\ names \cup leaks \subseteq Kinds
  /\ slot \in [head : Pictures, room : Nat]
  /\ out \in [head : Pictures, pixels : Pictures]
  /\ {gl, begun} \subseteq GlState
  /\ saved \in [draw : {"window", "user"}, drawBuffers : SavedLists,
                read : {"window", "user"}, readBuffer : {"app", "back"}]
  /\ mapping \in {"good", "refused", "spoilt"}
  /\ tex \in [size : Sizes \cup {NoSize}, image : Pictures]
  /\ buf \in [bytes : Nat, image : Pictures]

(* Whatever else fails (glgrab.c:234-242), every message is one whole      *)
(* frame, under its own size, published at the swap after the one it was   *)
(* shot at, and once, and CUDA is done with it by then; only if            *)
(* glUnmapBuffer() says that the pixels have got lost, which glgrab.c:163  *)
(* does not hear, they are others.                                         *)
Frames == INSTANCE FrameLog
            WITH caught <- IF frame /\ open THEN slot.head ELSE Nothing,
                 spoilt <- mapping = "spoilt" /\ out # NoMessage
PublishesFrames ==
  /\ Frames!LogSpec
  /\ [][out' # out /\ out' # NoMessage => landed']_vars

(* What a copy reads and writes is there, although sizes are computed with *)
(* 32 bits (glgrab.c:244, 293) and only changes of the size are acted on.  *)
CopyStaysInside ==
  /\ pc = "copy" /\ frame =>
       /\ I420(slot.head.size) <= slot.room
       /\ Rgba(slot.head.size) <= buf.bytes
  /\ pc = "shoot" /\ engine = "cuda" =>
       buf.bytes = 0 \/ Touched(swap.size) <= buf.bytes

(* Nothing is drawn into a texture that a failed shot has left mapped for  *)
(* CUDA (cuda.c:47-74), and no engine is used that is not there.           *)
DrawsUnmapped ==
  /\ pc \in {"blit", "shoot"} => ~locked /\ engine # "none"
  /\ pc = "copy" /\ frame => engine # "none"

(* Every object of GL has a name, and so has every one of CUDA until a     *)
(* call of CUDA fails or a context is left that CUDA was used in; and the  *)
(* state is well formed.                                                   *)
NothingLost ==
  /\ TypeOK
  /\ leaks \subseteq {"cuda"}
  /\ ~cudaLost => leaks = {}

(* Whatever fails, the application finds its frame buffers, its draw and   *)
(* read buffers, its texture, its row length and its debug output as they  *)
(* were (glgrab.c:131-145, 223-232, 249-321, 338-342).  Two things are     *)
(* only promised with a condition: the read buffer, if it reads where it   *)
(* draws, and the pixel buffer, unless a mapping has been refused since it *)
(* last bound one.  If nothing has failed, there is no error either.       *)
AppUndisturbed ==
  pc = "out" =>
    /\ \A part \in DOMAIN gl \ {"readBuffer", "pack"} : gl[part] = begun[part]
    /\ begun.draw = begun.read => gl.readBuffer = begun.readBuffer
    /\ mapping # "refused" /\ begun.pack # "grab" => gl.pack = begun.pack
    /\ clean => ~err

Catchable == begun.draw = "window" /\ Rgba(swap.size) < Word

(* If at last nothing fails any more, and what is swapped is a window that *)
(* is less than 2^32 bytes large, then frames are published for ever,      *)
(* whatever errors the application makes (glgrab.c:221).                   *)
Recovers ==
  /\ <>[](clean /\ Catchable)
  /\ <>[][pc = "out" => pc' # "out"]_vars
  /\ []<>(pc = "copy")
  => []<>(out # NoMessage)

=============================================================================
