------------------------------- MODULE WinMap -------------------------------
(* The window map of glx.c: which X window is behind a drawable, asked of  *)
(* the X server at the first swap and remembered in a list that all        *)
(* threads share.                                                          *)
(*                                                                         *)
(* A step is one access to the lock, one visit to the list, or one call of *)
(* Xlib.  Identifiers of the X server do not come back.  A local is None   *)
(* as soon as it is not used any more.                                     *)
EXTENDS Sequences, FiniteSets, SequencesExt

CONSTANTS
  Threads,
  Clumsy,      (* threads whose own requests may prove errors of X        *)
  Windows,     (* X windows, which GLX takes for drawables too            *)
  GlxWindows,  (* made by glXCreateWindow() on the X window Parent[g]     *)
  Parent,
  Others,      (* drawables without a window, such as a GLXPbuffer        *)
  Blocks,      (* what malloc() has to give                               *)
  None         (* no window, no block                                     *)

Drawables == Windows \cup GlxWindows \cup Others

(* struct winmap                                                           *)
Entries == [x11 : Drawables \cup {None}, glx : Drawables]

ASSUME WinMapAssumption ==
  /\ Clumsy \subseteq Threads
  /\ Parent \in [GlxWindows -> Windows]
  /\ None \notin Drawables \cup Blocks \cup Entries
  /\ Windows \cap GlxWindows = {} /\ Windows \cap Others = {}
  /\ GlxWindows \cap Others = {}

VARIABLES
  (* the process *)
  lock,      (* glx.lock                                                  *)
  winmap,    (* glx.winmap: blocks                                        *)
  heap,      (* a block is an entry [x11, glx], or free: None             *)
  failed,    (* get_window_size_error                                     *)
  handler,   (* whose error handler Xlib calls                            *)
  (* its threads *)
  pc,
  drawable,  (* what the call is about                                    *)
  window,    (* its X window, as far as the call knows                    *)
  m,         (* the block the call is about                               *)
  orig,      (* the handler before                                        *)
  (* the X server *)
  live,      (* the drawables there are                                   *)
  known,     (* those the application has been told of, ever              *)
  pending,   (* threads in a hook that have asked for something before    *)
             (* that will prove an error                                  *)
  (* history variables, which no step reads *)
  blamed,    (* the application's handler got an error glgrab has caused, *)
             (* neither carelessly nor while measurements overlapped      *)
  mishap     (* the worst that has happened so far, of those below        *)

shared  == <<lock, winmap, heap>>
xlib    == <<failed, handler>>
locals  == <<drawable, window, m, orig>>
history == <<blamed, mishap>>
server  == <<live, known, pending>>
vars    == <<shared, xlib, pc, locals, server, history>>

(* From bad to worse: an error of the application's own arrived during the *)
(* measurement of another thread; two threads measured at the same time;   *)
(* the application used a drawable it was destroying, or in two threads at *)
(* once.                                                                   *)
Mishaps  == {"none", "strayed", "overlapped", "careless"}
careless == mishap = "careless"
Innocent == mishap \in {"none", "strayed"}

Init ==
  /\ lock = FALSE
  /\ winmap = <<>>
  /\ heap = [b \in Blocks |-> None]
  /\ failed = FALSE
  /\ handler = "app"
  /\ pc = [t \in Threads |-> "app"]
  /\ drawable = [t \in Threads |-> None]
  /\ window = [t \in Threads |-> None]
  /\ m = [t \in Threads |-> None]
  /\ orig = [t \in Threads |-> "app"]
  /\ live = Windows \cup Others
  /\ known = live
  /\ pending = {}
  /\ blamed = FALSE
  /\ mishap = "none"

Step(t, from, to) == pc[t] = from /\ pc' = [pc EXCEPT ![t] = to]

(* What the application can swap: X destroys what lies on a window with it. *)
Usable(d) ==
  /\ d \in live \cap known
  /\ d \in GlxWindows => Parent[d] \in live

(* Thread t is in a call about d, or about what lies on it.                *)
Uses(t, d) ==
  \/ drawable[t] = d
  \/ drawable[t] \in GlxWindows /\ Parent[drawable[t]] = d

-----------------------------------------------------------------------------
(* The calls of the application that are hooked                            *)

Swap(t, d) ==
  /\ Step(t, "app", "swap")
  /\ Usable(d)
  /\ pending' \in {pending, pending \cup ({t} \cap Clumsy)}
  /\ drawable' = [drawable EXCEPT ![t] = d]
  /\ mishap' = IF \E u \in Threads : drawable[u] = d THEN "careless" ELSE mishap
  /\ UNCHANGED <<shared, xlib, window, m, orig, live, known, blamed>>

(* The real call first.  Nobody else knows the new drawable until the hook *)
(* has returned.                                                           *)
CreateWindow(t, g) ==
  /\ Step(t, "app", "malloc")
  /\ g \notin live \cup known /\ Parent[g] \in live
  /\ live' = live \cup {g}
  /\ drawable' = [drawable EXCEPT ![t] = g]
  /\ window' = [window EXCEPT ![t] = Parent[g]]
  /\ UNCHANGED <<shared, xlib, m, orig, known, pending, history>>

(* glXDestroyWindow() and XDestroyWindow(): the real call, then            *)
(* forget_window().                                                        *)
Destroy(t, d) ==
  /\ Step(t, "app", "forget")
  /\ d \in (live \cap known) \ Others
  /\ live' = live \ {d}
  /\ drawable' = [drawable EXCEPT ![t] = d]
  /\ mishap' = IF \E u \in Threads : Uses(u, d) THEN "careless" ELSE mishap
  /\ UNCHANGED <<shared, xlib, window, m, orig, known, pending, blamed>>

-----------------------------------------------------------------------------
(* The spin lock.  Who holds it gives it back with the step that is done   *)
(* under it.                                                               *)

AfterLock == [swap |-> "find", insert |-> "link", forget |-> "seek"]

Lock_Anyhow(t) ==
  /\ pc[t] \in DOMAIN AfterLock
  /\ lock' = TRUE
  /\ pc' = [pc EXCEPT ![t] = AfterLock[pc[t]]]
  /\ UNCHANGED <<winmap, heap, xlib, locals, server, history>>

Lock(t) ==
  /\ pc[t] \in DOMAIN AfterLock
  /\ ~lock
  /\ lock' = TRUE
  /\ pc' = [pc EXCEPT ![t] = AfterLock[pc[t]]]
  /\ UNCHANGED <<winmap, heap, xlib, locals, server, history>>

-----------------------------------------------------------------------------
(* take_frame(), as far as the window's size                               *)

(* find_x11(): the first entry of the drawable, which is in no place, 0,   *)
(* if there is none.                                                       *)
Place(d) == SelectInSeq(winmap, LAMBDA b : heap[b] # None /\ heap[b].glx = d)
FindX11(d) == IF Place(d) = 0 THEN None ELSE winmap[Place(d)]

Find(t) ==
  /\ \/ /\ Step(t, "find", "sync")
        /\ FindX11(drawable[t]) = None
        /\ lock' = FALSE
     \/ /\ Step(t, "find", "deref")
        /\ FindX11(drawable[t]) # None
        /\ UNCHANGED lock
  /\ m' = [m EXCEPT ![t] = FindX11(drawable[t])]
  /\ UNCHANGED <<winmap, heap, xlib, drawable, window, orig, server, history>>

Deref_KeepsLock(t) ==
  /\ Step(t, "deref", "measure")
  /\ window' = [window EXCEPT ![t] = heap[m[t]].x11]
  /\ UNCHANGED <<shared, xlib, drawable, m, orig, server, history>>

Deref(t) ==
  /\ Step(t, "deref", "measure")
  /\ window' = [window EXCEPT ![t] = heap[m[t]].x11]
  /\ m' = [m EXCEPT ![t] = None]
  /\ lock' = FALSE
  /\ UNCHANGED <<winmap, heap, xlib, drawable, orig, server, history>>

(* get_window_size_safe() has set its handler, and not returned yet.       *)
Measuring(t) == pc[t] \in {"ask", "restore", "judge"}

(* An error of the application's own, of thread t, goes to the handler     *)
(* there is.                                                               *)
Deliver(t) ==
  IF handler = "grab"
    THEN /\ failed' = TRUE
         /\ mishap' = IF Innocent /\ ~Measuring(t) THEN "strayed" ELSE mishap
    ELSE UNCHANGED <<failed, mishap>>

(* While the application runs, what it asks for may be an error.           *)
AppError(t) ==
  /\ t \in Clumsy
  /\ Step(t, "app", "app")
  /\ Deliver(t)
  /\ UNCHANGED <<shared, handler, locals, server, blamed>>

(* Before a hook has an answer of the X server, the errors of what its     *)
(* thread asked for before arrive, at the latest.                          *)
Arrive(t) ==
  /\ t \in pending
  /\ pending' = pending \ {t}
  /\ Deliver(t)
  /\ UNCHANGED <<shared, handler, pc, locals, live, known, blamed>>

Answered(t) == t \notin pending

(* XGetGeometry() of a window that is gone, or of no window, is an error.  *)
GetWindowSize(w) ==
  IF w \in live \cap Windows THEN UNCHANGED <<failed, blamed>>
  ELSE IF handler = "grab"   THEN failed' = TRUE /\ UNCHANGED blamed
                             ELSE blamed' = Innocent /\ UNCHANGED failed

(* A window found in the map is measured without a handler.                *)
Measure(t) ==
  /\ Step(t, "measure", "leave")
  /\ IF window[t] = None THEN UNCHANGED <<failed, blamed>>
                         ELSE Answered(t) /\ GetWindowSize(window[t])
  /\ window' = [window EXCEPT ![t] = None]
  /\ UNCHANGED <<shared, handler, drawable, m, orig, server, mishap>>

(* get_window_size_safe(): the application's errors have arrived before    *)
(* its handler is changed.                                                 *)
XSync_Returns(t) ==
  /\ Step(t, "sync", "set")
  /\ UNCHANGED <<shared, xlib, locals, server, history>>

XSync(t) ==
  /\ Step(t, "sync", "set")
  /\ Answered(t)
  /\ UNCHANGED <<shared, xlib, locals, server, history>>

AfterOverlap ==
  IF Innocent /\ \E u \in Threads : Measuring(u) THEN "overlapped" ELSE mishap

SetHandler(t) ==
  /\ Step(t, "set", "ask")
  /\ orig' = [orig EXCEPT ![t] = handler]
  /\ handler' = "grab"
  /\ failed' = FALSE
  /\ mishap' = AfterOverlap
  /\ UNCHANGED <<shared, drawable, window, m, server, blamed>>

Ask(t) ==
  /\ Step(t, "ask", "restore")
  /\ Answered(t)
  /\ GetWindowSize(drawable[t])
  /\ UNCHANGED <<shared, handler, locals, server, mishap>>

RestoreHandler(t) ==
  /\ Step(t, "restore", "judge")
  /\ handler' = orig[t]
  /\ orig' = [orig EXCEPT ![t] = "app"]
  /\ UNCHANGED <<shared, failed, drawable, window, m, server, history>>

Judge_Trusting(t) ==
  /\ Step(t, "judge", "malloc")
  /\ window' = [window EXCEPT ![t] = drawable[t]]
  /\ UNCHANGED <<shared, xlib, drawable, m, orig, server, history>>

Judge(t) ==
  /\ Step(t, "judge", "malloc")
  /\ window' = [window EXCEPT ![t] = IF failed THEN None ELSE drawable[t]]
  /\ UNCHANGED <<shared, xlib, drawable, m, orig, server, history>>

-----------------------------------------------------------------------------
(* register_window() and forget_window()                                   *)

(* Blocks are not told apart; without memory nothing is registered.        *)
Malloc(t) ==
  /\ \/ /\ Step(t, "malloc", "insert")
        /\ \E b \in Blocks : heap[b] = None
        /\ m' = [m EXCEPT ![t] = CHOOSE b \in Blocks : heap[b] = None]
        /\ heap' = [heap EXCEPT ![m'[t]] = [x11 |-> window[t], glx |-> drawable[t]]]
     \/ /\ Step(t, "malloc", "leave")
        /\ UNCHANGED <<m, heap>>
  /\ window' = [window EXCEPT ![t] = None]
  /\ UNCHANGED <<lock, winmap, xlib, drawable, orig, server, history>>

Link(t) ==
  /\ Step(t, "link", "leave")
  /\ winmap' = <<m[t]>> \o winmap
  /\ m' = [m EXCEPT ![t] = None]
  /\ lock' = FALSE
  /\ UNCHANGED <<heap, xlib, drawable, window, orig, server, history>>

Seek_KeepsEntry(t) ==
  /\ Step(t, "seek", "free")
  /\ lock' = FALSE
  /\ UNCHANGED <<winmap, heap, xlib, locals, server, history>>

Seek(t) ==
  /\ Step(t, "seek", "free")
  /\ m' = [m EXCEPT ![t] = FindX11(drawable[t])]
  /\ winmap' = IF Place(drawable[t]) = 0 THEN winmap
                                         ELSE RemoveAt(winmap, Place(drawable[t]))
  /\ lock' = FALSE
  /\ UNCHANGED <<heap, xlib, drawable, window, orig, server, history>>

Free(t) ==
  /\ Step(t, "free", "leave")
  /\ heap' = [b \in Blocks |-> IF b = m[t] THEN None ELSE heap[b]]
  /\ m' = [m EXCEPT ![t] = None]
  /\ UNCHANGED <<lock, winmap, xlib, drawable, window, orig, server, history>>

(* The hook returns; what glXCreateWindow() has made is there to be used.  *)
Leave(t) ==
  /\ Step(t, "leave", "app")
  /\ known' = known \cup {drawable[t]}
  /\ drawable' = [drawable EXCEPT ![t] = None]
  /\ pending' = pending \ {t}
  /\ UNCHANGED <<shared, xlib, window, m, orig, live, history>>

-----------------------------------------------------------------------------

HookNext(t) ==
  \/ Lock(t) \/ Find(t) \/ Deref(t) \/ Measure(t)
  \/ Arrive(t) \/ XSync(t) \/ SetHandler(t) \/ Ask(t) \/ RestoreHandler(t) \/ Judge(t)
  \/ Malloc(t) \/ Link(t) \/ Seek(t) \/ Free(t) \/ Leave(t)

AppNext(t) ==
  \/ \E d \in Drawables : Swap(t, d) \/ Destroy(t, d)
  \/ \E g \in GlxWindows : CreateWindow(t, g)
  \/ AppError(t)

Next == \E t \in Threads : HookNext(t) \/ AppNext(t)

Spec == Init /\ [][Next]_vars

(* A thread inside a hook is scheduled; the lock is not assumed to be fair. *)
FairSpec == Spec /\ \A t \in Threads : WF_vars(HookNext(t))

-----------------------------------------------------------------------------

TypeOK ==
  /\ {lock, failed, blamed} \subseteq BOOLEAN
  /\ mishap \in Mishaps
  /\ winmap \in Seq(Blocks)
  /\ heap \in [Blocks -> {None} \cup Entries]
  /\ handler \in {"app", "grab"}
  /\ \A t \in Threads :
       /\ drawable[t] \in Drawables \cup {None}
       /\ window[t] \in Drawables \cup {None}
       /\ m[t] \in Blocks \cup {None}
       /\ orig[t] \in {"app", "grab"}
       /\ (pc[t] = "app") = (drawable[t] = None)
  /\ live \cup known \subseteq Drawables
  /\ pending \subseteq Clumsy

Holds(t, b) == m[t] = b /\ pc[t] \in {"insert", "link", "free"}

(* An entry in use is in the list, once, or in the hands of one thread     *)
(* (glx.c:63-97): none is freed twice, or lost, or read after it has been  *)
(* freed (glx.c:165), whatever the application does; and the state is well *)
(* formed.                                                                 *)
EntriesOwned ==
  /\ TypeOK
  /\ IsInjective(winmap)
  /\ \A b \in Blocks :
       LET listed  == b \in ToSet(winmap)
           holders == {t \in Threads : Holds(t, b)}
       IN IF heap[b] = None THEN ~listed /\ holders = {}
          ELSE Cardinality(holders) = IF listed THEN 0 ELSE 1
  /\ \A t \in Threads : pc[t] = "deref" => m[t] \in ToSet(winmap)

(* What the map says is right, as long as no two threads measure at the    *)
(* same time and nothing in use is destroyed: the window of the drawable,  *)
(* or none at all.  None may be wrong in two ways: there was no memory     *)
(* when glXCreateWindow() was to be remembered (glx.c:65), or an error of  *)
(* another thread of the application arrived while glgrab's handler was    *)
(* set (glx.c:142-147).  An earlier error of the measuring thread itself   *)
(* is never taken for one of the drawable (glx.c:141).                     *)
EntriesTrue ==
  Innocent =>
    \A b \in ToSet(winmap) :
      LET e == heap[b]
      IN /\ e.glx \in Windows => e.x11 = e.glx \/ (mishap = "strayed" /\ e.x11 = None)
         /\ e.glx \in GlxWindows => e.x11 \in {None, Parent[e.glx]}
         /\ e.glx \in Others => e.x11 = None

(* The application never gets an error that glgrab has caused, and has its *)
(* handler back when nothing is being measured (glx.c:140-149): a drawable *)
(* is measured without glgrab's handler only if it is a window.            *)
AppSparedErrors ==
  Innocent =>
    /\ ~blamed
    /\ (\A t \in Threads : ~Measuring(t)) => handler = "app"

(* What has been destroyed is forgotten (glx.c:109-118), as long as nobody *)
(* destroys what is in use or swaps one drawable in two threads at once.   *)
DestroyedForgotten ==
  ~careless =>
    \A b \in ToSet(winmap) :
      \/ heap[b].glx \in live
      \/ \E t \in Threads :
           drawable[t] = heap[b].glx /\ pc[t] \in {"forget", "seek"}

(* Nobody waits for the spin lock for ever because it is never given back: *)
(* if the application makes no more calls, all those made return.          *)
HooksReturn ==
  <>[][\A t \in Threads : pc[t] = "app" => pc'[t] = "app"]_vars
  => <>[](\A t \in Threads : pc[t] = "app")

=============================================================================
