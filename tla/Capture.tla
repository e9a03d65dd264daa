------------------------------ MODULE Capture -------------------------------
(* Who may grab, and when: the state word of the grabber (glgrab.c) and    *)
(* the hooks that adopt a context (glx.c, egl.c), under an application     *)
(* whose threads create, use and destroy contexts and exit.                *)
(*                                                                         *)
(* A step is one atomic operation on the state word or on the adopted      *)
(* context, one call of the application's GL, or a stretch of code that    *)
(* only the holder of the state word runs.  Contexts are handles: once a   *)
(* context is gone its handle may come back for a new one.                 *)
(*                                                                         *)
(* GLX postpones the destruction of a context that is current somewhere,   *)
(* as EGL does, until it is released.                                      *)
EXTENDS FiniteSets

CONSTANTS
  Threads, Contexts,
  NoCtx,        (* NULL, EGL_NO_CONTEXT                                   *)
  ClearsFirst,  (* the destroy hook forgets the context before the real   *)
                (* call (glx.c) or after it (egl.c)                       *)
  ReusesEarly   (* a handle may come back before the call that destroyed  *)
                (* the context has returned                               *)

ASSUME CaptureAssumption ==
  /\ NoCtx \notin Contexts
  /\ {ClearsFirst, ReusesEarly} \subseteq BOOLEAN

VARIABLES
  (* struct glgrab, struct glxgrab / eglgrab *)
  state,     (* g->state                                                  *)
  ctx,       (* g->ctx: the adopted context                               *)
  mapped,    (* g->rb is a buffer this process writes to                  *)
  fbo,       (* the context g->fbo belongs to, NoCtx if that is gone      *)
  frame,     (* g->frame: the frame that has been shot, or NoFrame        *)
  (* the application *)
  pc,        (* where a thread is                                         *)
  victim,    (* the context a thread is destroying                        *)
  cur,       (* the context current in a thread                           *)
  alive,     (* the contexts there are                                    *)
  doomed,    (* those of them that go as soon as they are released        *)
  (* history variable, which no step reads *)
  careless   (* the application has destroyed a context some thread used  *)

grabber == <<state, ctx, mapped, fbo, frame>>
app     == <<victim, cur, alive, doomed, careless>>
vars    == <<grabber, pc, app>>

NoFrame == [shot |-> FALSE, owner |-> NoCtx, mapped |-> FALSE]
Frames  == [shot : BOOLEAN, owner : Contexts \cup {NoCtx}, mapped : BOOLEAN]

Init ==
  /\ state = "virgin"
  /\ ctx = NoCtx
  /\ mapped = FALSE
  /\ fbo = NoCtx
  /\ frame = NoFrame
  /\ pc = [t \in Threads |-> "app"]
  /\ victim = [t \in Threads |-> NoCtx]
  /\ cur = [t \in Threads |-> NoCtx]
  /\ alive = {}
  /\ doomed = {}
  /\ careless = FALSE

Step(t, from, to) == pc[t] = from /\ pc' = [pc EXCEPT ![t] = to]

-----------------------------------------------------------------------------
(* The application                                                         *)

UsedBy(c) == {t \in Threads : cur[t] = c}

(* The destruction of c has begun, its real call has not returned.         *)
BeingDestroyed(c) ==
  \E t \in Threads :
    /\ victim[t] = c
    /\ pc[t] \in {"destroy"} \cup (IF ClearsFirst THEN {"clear"} ELSE {})

(* A handle names one context at a time.                                   *)
CreateContext(t, c) ==
  /\ Step(t, "app", "app")
  /\ c \notin alive
  /\ ReusesEarly \/ \A u \in Threads : victim[u] # c
  /\ alive' = alive \cup {c}
  /\ UNCHANGED <<grabber, victim, cur, doomed, careless>>

(* The objects of context c go with it.                                    *)
Dies(c) ==
  /\ alive' = alive \ {c}
  /\ doomed' = doomed \ {c}
  /\ fbo' = IF fbo = c THEN NoCtx ELSE fbo
  /\ frame' = IF frame.owner = c THEN [frame EXCEPT !.owner = NoCtx] ELSE frame

(* A context is current in one thread at most, and a context that is being *)
(* destroyed is not made current any more.                                 *)
MakeCurrent(t, c) ==
  /\ Step(t, "app", "app")
  /\ cur[t] = NoCtx
  /\ c \in alive \ doomed
  /\ UsedBy(c) = {}
  /\ ~BeingDestroyed(c)
  /\ cur' = [cur EXCEPT ![t] = c]
  /\ UNCHANGED <<grabber, victim, alive, doomed, careless>>

Release(t) ==
  /\ Step(t, "app", "app")
  /\ cur[t] # NoCtx
  /\ cur' = [cur EXCEPT ![t] = NoCtx]
  /\ IF cur[t] \in doomed THEN Dies(cur[t])
                          ELSE UNCHANGED <<alive, doomed, fbo, frame>>
  /\ UNCHANGED <<state, ctx, mapped, victim, careless>>

(* The hook has nothing to do with a swap of another drawable, or of one   *)
(* whose size it cannot learn.                                             *)
Swap(t) ==
  /\ cur[t] # NoCtx
  /\ Step(t, "app", "adopt") \/ Step(t, "app", "real")
  /\ UNCHANGED <<grabber, app>>

(* The real swap, after which the hook returns.                            *)
RealSwap(t) == Step(t, "real", "app") /\ UNCHANGED <<grabber, app>>

Destroy(t, c) ==
  /\ Step(t, "app", IF ClearsFirst THEN "clear" ELSE "destroy")
  /\ c \in alive \ doomed
  /\ ~BeingDestroyed(c)
  /\ victim' = [victim EXCEPT ![t] = c]
  /\ careless' = (careless \/ UsedBy(c) # {})
  /\ UNCHANGED <<grabber, cur, alive, doomed>>

(* exit() runs the destructor of the library, in one thread and once.      *)
Exit(t) ==
  /\ \A u \in Threads : pc[u] \notin {"destructor", "shutdown", "ended"}
  /\ Step(t, "app", "destructor")
  /\ UNCHANGED <<grabber, app>>

-----------------------------------------------------------------------------
(* The hook of the swap                                                    *)

Adopt_Anything(t) ==
  /\ Step(t, "adopt", IF ctx = NoCtx THEN "init" ELSE "take")
  /\ ctx' = IF ctx = NoCtx THEN cur[t] ELSE ctx
  /\ UNCHANGED <<state, mapped, fbo, frame, app>>

(* The first context that swaps is adopted, every other one passed over.   *)
Adopt(t) ==
  /\ \/ /\ ctx = NoCtx
        /\ Step(t, "adopt", "init")
        /\ ctx' = cur[t]
     \/ /\ ctx = cur[t]
        /\ Step(t, "adopt", "measure")
        /\ UNCHANGED ctx
     \/ /\ ctx \notin {NoCtx, cur[t]}
        /\ Step(t, "adopt", "real")
        /\ UNCHANGED ctx
  /\ UNCHANGED <<state, mapped, fbo, frame, app>>

(* glgrab_init(): whoever finds another state than virgin is told 0,       *)
(* unless the state is failed.                                             *)
BeginInit(t) ==
  /\ \/ /\ state = "virgin"
        /\ Step(t, "init", "create")
        /\ state' = "initializing"
     \/ /\ state = "failed"
        /\ Step(t, "init", "real")
        /\ UNCHANGED state
     \/ /\ state \notin {"virgin", "failed"}
        /\ Step(t, "init", "reset")
        /\ UNCHANGED state
  /\ UNCHANGED <<ctx, mapped, fbo, frame, app>>

(* mrb_create() works or not.                                              *)
Create(t) ==
  /\ \/ /\ Step(t, "create", "reset")
        /\ mapped' = TRUE
        /\ state' = "ready"
     \/ /\ Step(t, "create", "real")
        /\ state' = "failed"
        /\ UNCHANGED mapped
  /\ UNCHANGED <<ctx, fbo, frame, app>>

TryLock_AnyState(t, from, locked, busy) ==
  /\ Step(t, from, locked)
  /\ state' = "using"

(* try_lock(): ready becomes using, or the caller gives up.                *)
TryLock(t, from, locked, busy) ==
  \/ /\ state = "ready"
     /\ Step(t, from, locked)
     /\ state' = "using"
  \/ /\ state # "ready"
     /\ Step(t, from, busy)
     /\ UNCHANGED state

LockForReset(t) ==
  /\ TryLock(t, "reset", "generate", "real")
  /\ UNCHANGED <<ctx, mapped, fbo, frame, app>>

Generate_KeepsFrame(t) ==
  /\ Step(t, "generate", "measure")
  /\ fbo' = cur[t]
  /\ state' = "ready"
  /\ UNCHANGED <<ctx, mapped, frame, app>>

(* glgrab_reset() starts over with what belongs to the new context.        *)
Generate(t) ==
  /\ Step(t, "generate", "measure")
  /\ fbo' = cur[t]
  /\ frame' = NoFrame
  /\ state' = "ready"
  /\ UNCHANGED <<ctx, mapped, app>>

(* The EGL hook asks for the size only now, and may not be told.           *)
Measure(t) ==
  /\ \/ Step(t, "measure", "take")
     \/ ~ClearsFirst /\ Step(t, "measure", "real")
  /\ UNCHANGED <<grabber, app>>

LockForFrame(t) ==
  /\ TryLock(t, "take", "copy", "real")
  /\ UNCHANGED <<ctx, mapped, fbo, frame, app>>

(* engine_copy() and mrb_commit() of the frame of the swap before.         *)
CopyAndCommit(t) ==
  /\ Step(t, "copy", "shoot")
  /\ UNCHANGED <<grabber, app>>

Shoot_KeepsLock(t) ==
  /\ Step(t, "shoot", "real")
  /\ frame' = NoFrame
  /\ UNCHANGED <<state, ctx, mapped, fbo, app>>

(* mrb_reserve(), the shot of this frame and its time stamp; either of the *)
(* first two may fail.  Then release().                                    *)
Shoot(t) ==
  /\ Step(t, "shoot", "real")
  /\ frame' \in {NoFrame, [shot |-> TRUE, owner |-> cur[t], mapped |-> mapped]}
  /\ state' = "ready"
  /\ UNCHANGED <<ctx, mapped, fbo, app>>

-----------------------------------------------------------------------------
(* The hook of the destruction of a context, and the destructor            *)

AfterClear == IF ClearsFirst THEN "destroy" ELSE "app"

Clear_Never(t) ==
  /\ Step(t, "clear", AfterClear)
  /\ victim' = IF ClearsFirst THEN victim ELSE [victim EXCEPT ![t] = NoCtx]
  /\ UNCHANGED <<grabber, cur, alive, doomed, careless>>

Clear(t) ==
  /\ Step(t, "clear", AfterClear)
  /\ ctx' = IF ctx = victim[t] THEN NoCtx ELSE ctx
  /\ victim' = IF ClearsFirst THEN victim ELSE [victim EXCEPT ![t] = NoCtx]
  /\ UNCHANGED <<state, mapped, fbo, frame, cur, alive, doomed, careless>>

(* The real call; eglDestroyContext() may refuse, and then nothing is      *)
(* forgotten.                                                              *)
RealDestroy(t) ==
  \/ /\ Step(t, "destroy", IF ClearsFirst THEN "app" ELSE "clear")
     /\ IF UsedBy(victim[t]) = {}
          THEN Dies(victim[t])
          ELSE doomed' = doomed \cup {victim[t]} /\ UNCHANGED <<alive, fbo, frame>>
     /\ victim' = IF ClearsFirst THEN [victim EXCEPT ![t] = NoCtx] ELSE victim
     /\ UNCHANGED <<state, ctx, mapped, cur, careless>>
  \/ /\ ~ClearsFirst
     /\ Step(t, "destroy", "app")
     /\ victim' = [victim EXCEPT ![t] = NoCtx]
     /\ UNCHANGED <<grabber, cur, alive, doomed, careless>>

(* glgrab_destroy() gives up if the state is not ready.                    *)
LockForShutdown(t) ==
  /\ TryLock(t, "destructor", "shutdown", "ended")
  /\ UNCHANGED <<ctx, mapped, fbo, frame, app>>

Shutdown_KeepsMapping(t) ==
  /\ Step(t, "shutdown", "ended")
  /\ state' = "virgin"
  /\ UNCHANGED <<ctx, mapped, fbo, frame, app>>

(* mrb_shutdown() unmaps the buffer, and with it the frame in it.          *)
Shutdown(t) ==
  /\ Step(t, "shutdown", "ended")
  /\ mapped' = FALSE
  /\ frame' = [frame EXCEPT !.mapped = FALSE]
  /\ state' = "virgin"
  /\ UNCHANGED <<ctx, fbo, app>>

-----------------------------------------------------------------------------

(* The steps of the library and of the calls it wraps.                     *)
HookNext(t) ==
  \/ Adopt(t) \/ BeginInit(t) \/ Create(t)
  \/ LockForReset(t) \/ Generate(t) \/ Measure(t)
  \/ LockForFrame(t) \/ CopyAndCommit(t) \/ Shoot(t) \/ RealSwap(t)
  \/ Clear(t) \/ RealDestroy(t)
  \/ LockForShutdown(t) \/ Shutdown(t)

AppNext(t) ==
  \/ Swap(t) \/ Release(t) \/ Exit(t)
  \/ \E c \in Contexts : CreateContext(t, c) \/ MakeCurrent(t, c) \/ Destroy(t, c)

(* After the destructor the process may be gone at any moment.             *)
Finished ==
  /\ \E t \in Threads : pc[t] = "ended"
  /\ UNCHANGED vars

Next ==
  \/ \E t \in Threads : HookNext(t) \/ AppNext(t)
  \/ Finished

Spec == Init /\ [][Next]_vars

(* A call of the library goes on as long as its thread is scheduled: it    *)
(* waits for nobody.  Nothing is assumed of the application.               *)
FairSpec == Spec /\ \A t \in Threads : WF_vars(HookNext(t))

-----------------------------------------------------------------------------

Places == {"app", "adopt", "init", "create", "reset", "generate", "measure",
           "take", "copy", "shoot", "real", "clear", "destroy",
           "destructor", "shutdown", "ended"}

TypeOK ==
  /\ state \in {"virgin", "initializing", "ready", "using", "failed"}
  /\ {ctx, fbo} \subseteq Contexts \cup {NoCtx}
  /\ mapped \in BOOLEAN
  /\ frame \in Frames
  /\ pc \in [Threads -> Places]
  /\ victim \in [Threads -> Contexts \cup {NoCtx}]
  /\ cur \in [Threads -> Contexts \cup {NoCtx}]
  /\ alive \subseteq Contexts
  /\ doomed \subseteq alive
  /\ careless \in BOOLEAN

Holds(t) == pc[t] \in {"create", "generate", "copy", "shoot", "shutdown"}

(* The state word excludes (glgrab.c): at most one thread is in the parts  *)
(* that touch the rest of struct glgrab, and the word says so.             *)
Exclusive ==
  /\ \A t, u \in Threads : Holds(t) /\ Holds(u) => t = u
  /\ (\E t \in Threads : Holds(t)) <=> state \in {"initializing", "using"}

(* What glgrab_take_frame() is about to use belongs to the context current *)
(* in the thread that calls it: GL names mean nothing in another one.      *)
OwnObjects ==
  ~careless =>
    \A t \in Threads :
      /\ pc[t] \in {"copy", "shoot"} => fbo = cur[t]
      /\ pc[t] = "copy" /\ frame # NoFrame => frame.owner = cur[t]

(* A frame is read back into, and committed to, the buffer it was reserved *)
(* in: mrb_shutdown() has not taken it away in between.                    *)
FrameMapped ==
  ~careless =>
    \A t \in Threads :
      pc[t] = "copy" /\ frame # NoFrame => frame.mapped /\ mapped

(* mrb_create() never replaces a buffer that is in use: readers of that    *)
(* one would wait for ever.                                                *)
OneBuffer == [][\A t \in Threads : Create(t) => ~mapped]_vars

(* The try-lock of glgrab.c is given back, whatever fails meanwhile.       *)
LockGivenBack ==
  state \in {"initializing", "using"} ~> state \notin {"initializing", "using"}

(* Grabbing outlives a context (glx.c:120, egl.c:41): if from some time on *)
(* there is but one context, and the hook sees swaps of it for ever, it is *)
(* adopted in the end, unless a context in use has been destroyed.         *)
SurvivorAdopted ==
  \A t \in Threads, c \in Contexts :
    /\ []~careless
    /\ <>[](alive = {c} /\ \A u \in Threads : victim[u] = NoCtx)
    /\ []<>(pc[t] = "adopt" /\ cur[t] = c)
    => <>[](ctx = c)

=============================================================================
