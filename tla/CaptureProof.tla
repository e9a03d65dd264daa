---------------------------- MODULE CaptureProof ----------------------------
(* What the state word of glgrab.c excludes, for any number of threads and *)
(* contexts and whatever the application does with them.                   *)
EXTENDS CaptureInv, TLAPS

Held(s) == s \in {"initializing", "using"}

Inside == {"create", "generate", "copy", "shoot", "shutdown"}

(* A step of one thread leaves the others where they are.                  *)
LEMMA Moved ==
  ASSUME TypeOK, NEW t \in Threads, NEW from, NEW to, Step(t, from, to)
  PROVE  /\ pc[t] = from
         /\ pc'[t] = to
         /\ \A u \in Threads \ {t} : pc'[u] = pc[u]
         /\ to \in Places => pc' \in [Threads -> Places]
  BY DEF TypeOK, Step

(* Outside of the protected parts nothing depends on where a thread is.    *)
LEMMA StaysOut ==
  ASSUME LockInv, NEW t \in Threads, NEW from, NEW to, Step(t, from, to),
         from \notin Inside, to \notin Inside, state' = state
  PROVE  Exclusive' /\ InitInv'
  BY Moved DEF LockInv, InitInv, Exclusive, Holds, Inside

(* A free state word means that nobody is inside.                          *)
LEMMA Enters ==
  ASSUME LockInv, NEW t \in Threads, NEW from, NEW to, Step(t, from, to),
         to \in Inside, ~Held(state), Held(state'),
         to = "create" <=> state' = "initializing"
  PROVE  Exclusive' /\ InitInv'
  <1>1. \A u \in Threads : ~Holds(u)
    BY DEF LockInv, Exclusive, Held
  <1>2. \A u \in Threads : Holds(u)' <=> u = t
    BY <1>1, Moved DEF LockInv, Holds, Inside
  <1> QED BY <1>1, <1>2, Moved DEF LockInv, InitInv, Exclusive, Held, Holds

(* Whoever is inside is alone, so the word is free when he has left.       *)
LEMMA Leaves ==
  ASSUME LockInv, NEW t \in Threads, NEW from, NEW to, Step(t, from, to),
         from \in Inside, to \notin Inside, ~Held(state')
  PROVE  Exclusive' /\ InitInv'
  <1>1. \A u \in Threads : Holds(u) <=> u = t
    BY Moved DEF LockInv, InitInv, Exclusive, Holds, Inside
  <1>2. \A u \in Threads : ~Holds(u)'
    BY <1>1, Moved DEF LockInv, Holds, Inside
  <1> QED BY <1>2 DEF Exclusive, InitInv, Held, Holds

(* From one protected part into the next.                                  *)
LEMMA StaysIn ==
  ASSUME LockInv, NEW t \in Threads, NEW from, NEW to, Step(t, from, to),
         from \in Inside \ {"create"}, to \in Inside \ {"create"}, state' = state
  PROVE  Exclusive' /\ InitInv'
  BY Moved DEF LockInv, InitInv, Exclusive, Holds, Inside

LEMMA LockInit == Init => LockInv
  <1> SUFFICES ASSUME Init PROVE LockInv
    OBVIOUS
  <1>1. \A t \in Threads : pc[t] = "app"
    BY DEF Init
  <1>2. TypeOK
    BY DEF Init, TypeOK, NoFrame, Frames, Places
  <1>3. Exclusive
    BY <1>1 DEF Init, Exclusive, Holds
  <1>4. ContextInv
    BY <1>1 DEF Init, ContextInv
  <1> QED BY <1>1, <1>2, <1>3, <1>4 DEF Init, LockInv, InitInv, Holds

(* try_lock(), whoever calls it.                                           *)
LEMMA Locking ==
  ASSUME LockInv, NEW t \in Threads, NEW from, NEW locked, NEW busy,
         TryLock(t, from, locked, busy),
         from \notin Inside, locked \in Inside \ {"create"}, busy \notin Inside
  PROVE  /\ Exclusive' /\ InitInv'
         /\ state' \in {state, "using"}
         /\ state' # state => state = "ready"
  <1>1. CASE state = "ready" /\ Step(t, from, locked) /\ state' = "using"
    BY <1>1, Enters DEF Held
  <1>2. CASE Step(t, from, busy) /\ state' = state
    BY <1>2, StaysOut
  <1> QED BY <1>1, <1>2 DEF TryLock

(* The types are kept, whatever the application and the hooks do.          *)
LEMMA TypeNext == TypeOK /\ ContextInv /\ [Next]_vars => TypeOK'
  <1> SUFFICES ASSUME TypeOK, ContextInv, [Next]_vars PROVE TypeOK'
    OBVIOUS
  <1> USE DEF TypeOK, Step, Places, grabber, app
  <1>1. ASSUME NEW t \in Threads, HookNext(t) PROVE TypeOK'
    <2>1. CASE Adopt(t)
      BY <2>1 DEF Adopt
    <2>2. CASE BeginInit(t)
      BY <2>2 DEF BeginInit
    <2>3. CASE Create(t)
      BY <2>3 DEF Create
    <2>4. CASE LockForReset(t)
      BY <2>4 DEF LockForReset, TryLock
    <2>5. CASE Generate(t)
      BY <2>5 DEF Generate, NoFrame, Frames
    <2>6. CASE Measure(t)
      BY <2>6 DEF Measure
    <2>7. CASE LockForFrame(t)
      BY <2>7 DEF LockForFrame, TryLock
    <2>8. CASE CopyAndCommit(t)
      BY <2>8 DEF CopyAndCommit
    <2>9. CASE Shoot(t)
      <3>1. {NoFrame, [shot |-> TRUE, owner |-> cur[t], mapped |-> mapped]} \subseteq Frames
        BY DEF NoFrame, Frames
      <3>2. frame' \in Frames
        BY <2>9, <3>1 DEF Shoot
      <3> QED BY <2>9, <3>2 DEF Shoot
    <2>10. CASE RealSwap(t)
      BY <2>10 DEF RealSwap
    <2>11. CASE Clear(t)
      BY <2>11 DEF Clear, AfterClear
    <2>12. CASE RealDestroy(t)
      <3>1. CASE Dies(victim[t])
        <4>1. frame' \in Frames /\ fbo' \in Contexts \cup {NoCtx}
          <5>1. [frame EXCEPT !.owner = NoCtx] \in Frames
            BY DEF Frames
          <5> QED BY <3>1, <5>1 DEF Dies
        <4> QED BY <2>12, <3>1, <4>1 DEF RealDestroy, Dies
      <3>2. CASE /\ UsedBy(victim[t]) # {}
                 /\ doomed' = doomed \cup {victim[t]}
                 /\ UNCHANGED <<alive, fbo, frame>>
        <4>1. victim[t] \in Contexts /\ victim[t] # NoCtx
          BY <2>12, CaptureAssumption DEF RealDestroy, ContextInv
        <4>2. victim[t] \in alive
          BY <3>2, <4>1 DEF UsedBy, ContextInv
        <4> QED BY <2>12, <3>2, <4>2 DEF RealDestroy
      <3>3. CASE UNCHANGED <<grabber, cur, alive, doomed, careless>>
        BY <2>12, <3>3 DEF RealDestroy, grabber
      <3> QED BY <2>12, <3>1, <3>2, <3>3 DEF RealDestroy
    <2>13. CASE LockForShutdown(t)
      BY <2>13 DEF LockForShutdown, TryLock
    <2>14. CASE Shutdown(t)
      BY <2>14 DEF Shutdown, Frames
    <2> QED BY <1>1, <2>1, <2>2, <2>3, <2>4, <2>5, <2>6, <2>7, <2>8, <2>9,
               <2>10, <2>11, <2>12, <2>13, <2>14 DEF HookNext
  <1>2. ASSUME NEW t \in Threads, AppNext(t) PROVE TypeOK'
    <2>1. CASE Swap(t)
      BY <2>1 DEF Swap
    <2>2. CASE Release(t)
      BY <2>2 DEF Release, Dies, Frames
    <2>3. CASE Exit(t)
      BY <2>3 DEF Exit
    <2>4. ASSUME NEW c \in Contexts, CreateContext(t, c) PROVE TypeOK'
      BY <2>4 DEF CreateContext
    <2>5. ASSUME NEW c \in Contexts, MakeCurrent(t, c) PROVE TypeOK'
      BY <2>5 DEF MakeCurrent
    <2>6. ASSUME NEW c \in Contexts, Destroy(t, c) PROVE TypeOK'
      BY <2>6 DEF Destroy
    <2> QED BY <1>2, <2>1, <2>2, <2>3, <2>4, <2>5, <2>6 DEF AppNext
  <1>3. CASE UNCHANGED vars
    BY <1>3 DEF vars
  <1> QED BY <1>1, <1>2, <1>3 DEF Next, Finished

(* Contexts stay current in one thread only: they are made current when    *)
(* nobody uses them and go when nobody does any more.                      *)
LEMMA ContextNext == TypeOK /\ ContextInv /\ [Next]_vars => ContextInv'
  <1> SUFFICES ASSUME TypeOK, ContextInv, [Next]_vars PROVE ContextInv'
    OBVIOUS
  <1>1. ASSUME NEW t \in Threads, HookNext(t) PROVE ContextInv'
    <2>1. cur' = cur
      BY <1>1 DEF HookNext, Adopt, BeginInit, Create, LockForReset, Generate, Measure,
         LockForFrame, CopyAndCommit, Shoot, RealSwap, Clear, RealDestroy,
         LockForShutdown, Shutdown, grabber, app
    <2>2. CASE RealDestroy(t)
      <3>1. \A u \in Threads : cur[u] \in alive' \cup {NoCtx}
        BY <2>2 DEF RealDestroy, Dies, UsedBy, ContextInv
      <3>2. \A u \in Threads :
              pc'[u] \in {"clear", "destroy"} => victim'[u] \in Contexts
        BY <2>2 DEF RealDestroy, Step, ContextInv, TypeOK
      <3>3. \A u \in Threads : pc'[u] = "adopt" => cur[u] # NoCtx
        BY <2>2 DEF RealDestroy, Step, ContextInv, TypeOK
      <3> QED BY <2>1, <3>1, <3>2, <3>3 DEF ContextInv
    <2>3. CASE Clear(t)
      BY <2>1, <2>3 DEF Clear, AfterClear, Step, ContextInv, TypeOK
    <2>4. CASE ~RealDestroy(t) /\ ~Clear(t)
      <3>1. UNCHANGED <<victim, alive>>
        BY <1>1, <2>4 DEF HookNext, Adopt, BeginInit, Create, LockForReset, Generate,
           Measure, LockForFrame, CopyAndCommit, Shoot, RealSwap, LockForShutdown,
           Shutdown, grabber, app
      <3>2. PICK from \in Places, to \in Places \ {"clear", "destroy", "adopt"} :
              Step(t, from, to)
        BY <1>1, <2>4 DEF HookNext, Adopt, BeginInit, Create, LockForReset, Generate,
           Measure, LockForFrame, CopyAndCommit, Shoot, RealSwap, LockForShutdown,
           Shutdown, TryLock, Places
      <3> QED BY <2>1, <3>1, <3>2, Moved DEF ContextInv
    <2> QED BY <2>2, <2>3, <2>4
  <1>2. ASSUME NEW t \in Threads, AppNext(t) PROVE ContextInv'
    <2> USE DEF ContextInv, TypeOK, Step
    <2>1. CASE Swap(t)
      BY <2>1 DEF Swap, app
    <2>2. CASE Release(t)
      BY <2>2 DEF Release, Dies
    <2>3. CASE Exit(t)
      BY <2>3 DEF Exit, app
    <2>4. ASSUME NEW c \in Contexts, CreateContext(t, c) PROVE ContextInv'
      BY <2>4 DEF CreateContext
    <2>5. ASSUME NEW c \in Contexts, MakeCurrent(t, c) PROVE ContextInv'
      BY <2>5 DEF MakeCurrent, UsedBy
    <2>6. ASSUME NEW c \in Contexts, Destroy(t, c) PROVE ContextInv'
      BY <2>6 DEF Destroy
    <2> QED BY <1>2, <2>1, <2>2, <2>3, <2>4, <2>5, <2>6 DEF AppNext
  <1>3. CASE UNCHANGED vars
    BY <1>3 DEF vars, app, ContextInv
  <1> QED BY <1>1, <1>2, <1>3 DEF Next, Finished

(* So is the rest of the invariant.                                        *)
LEMMA LockNext == LockInv /\ [Next]_vars => LockInv'
  <1> SUFFICES ASSUME LockInv, [Next]_vars PROVE LockInv'
    OBVIOUS
  <1> DEFINE Alone == Exclusive' /\ InitInv'
             Mapped == mapped' <=> state' \in {"ready", "using"}
  <1>1. TypeOK' /\ ContextInv'
    BY TypeNext, ContextNext DEF LockInv
  <1>2. ASSUME NEW t \in Threads, HookNext(t) PROVE Alone /\ Mapped
    <2>1. CASE Adopt(t)
      <3>1. PICK to \in {"init", "measure", "real"} : Step(t, "adopt", to)
        BY <2>1 DEF Adopt
      <3> QED BY <2>1, <3>1, StaysOut DEF Adopt, Inside, LockInv
    <2>2. CASE BeginInit(t)
      <3>1. CASE state = "virgin" /\ Step(t, "init", "create") /\ state' = "initializing"
        BY <2>2, <3>1, Enters DEF BeginInit, Held, Inside, LockInv
      <3>2. CASE \E to \in {"real", "reset"} : Step(t, "init", to) /\ UNCHANGED state
        BY <2>2, <3>2, StaysOut DEF BeginInit, Inside, LockInv
      <3> QED BY <2>2, <3>1, <3>2 DEF BeginInit
    <2>3. CASE Create(t)
      <3>1. pc[t] = "create"
        BY <2>3, Moved DEF Create, LockInv, Step
      <3>2. state = "initializing" /\ ~mapped
        BY <3>1 DEF LockInv, InitInv, Holds
      <3>3. PICK to \in {"reset", "real"} : Step(t, "create", to)
        BY <2>3 DEF Create
      <3> QED BY <2>3, <3>2, <3>3, Leaves DEF Create, Held, Inside
    <2>4. CASE LockForReset(t)
      <3>1. Exclusive' /\ InitInv' /\ state' \in {state, "using"}
            /\ (state' # state => state = "ready")
        BY <2>4, Locking DEF LockForReset, Inside
      <3> QED BY <2>4, <3>1 DEF LockForReset, LockInv
    <2>5. CASE Generate(t)
      <3>1. state = "using" /\ mapped
        BY <2>5 DEF Generate, Step, LockInv, TypeOK, InitInv, Exclusive, Holds
      <3> QED BY <2>5, <3>1, Leaves DEF Generate, Held, Inside
    <2>6. CASE Measure(t)
      <3>1. PICK to \in {"take", "real"} : Step(t, "measure", to)
        BY <2>6 DEF Measure
      <3> QED BY <2>6, <3>1, StaysOut DEF Measure, Inside, LockInv, grabber
    <2>7. CASE LockForFrame(t)
      <3>1. Exclusive' /\ InitInv' /\ state' \in {state, "using"}
            /\ (state' # state => state = "ready")
        BY <2>7, Locking DEF LockForFrame, Inside
      <3> QED BY <2>7, <3>1 DEF LockForFrame, LockInv
    <2>8. CASE CopyAndCommit(t)
      BY <2>8, StaysIn DEF CopyAndCommit, Inside, LockInv, grabber
    <2>9. CASE Shoot(t)
      <3>1. state = "using" /\ mapped
        BY <2>9 DEF Shoot, Step, LockInv, TypeOK, InitInv, Exclusive, Holds
      <3> QED BY <2>9, <3>1, Leaves DEF Shoot, Held, Inside
    <2>10. CASE RealSwap(t)
      BY <2>10, StaysOut DEF RealSwap, Inside, LockInv, grabber
    <2>11. CASE Clear(t)
      BY <2>11, StaysOut DEF Clear, AfterClear, Inside, LockInv
    <2>12. CASE RealDestroy(t)
      <3>1. PICK to \in {"app", "clear"} : Step(t, "destroy", to)
        BY <2>12 DEF RealDestroy
      <3> QED BY <2>12, <3>1, StaysOut DEF RealDestroy, Inside, LockInv, grabber
    <2>13. CASE LockForShutdown(t)
      <3>1. Exclusive' /\ InitInv' /\ state' \in {state, "using"}
            /\ (state' # state => state = "ready")
        BY <2>13, Locking DEF LockForShutdown, Inside
      <3> QED BY <2>13, <3>1 DEF LockForShutdown, LockInv
    <2>14. CASE Shutdown(t)
      BY <2>14, Leaves DEF Shutdown, Held, Inside
    <2> QED BY <1>2, <2>1, <2>2, <2>3, <2>4, <2>5, <2>6, <2>7, <2>8, <2>9,
               <2>10, <2>11, <2>12, <2>13, <2>14 DEF HookNext
  <1>3. ASSUME NEW t \in Threads, AppNext(t) PROVE Alone /\ Mapped
    <2>1. UNCHANGED <<state, mapped>>
      BY <1>3 DEF AppNext, Swap, Release, Exit, CreateContext, MakeCurrent, Destroy, grabber
    <2>2. PICK to \in {"app", "adopt", "real", "clear", "destroy", "destructor"} :
            Step(t, "app", to)
      BY <1>3 DEF AppNext, Swap, Release, Exit, CreateContext, MakeCurrent, Destroy
    <2> QED BY <2>1, <2>2, StaysOut DEF Inside, LockInv
  <1>4. CASE UNCHANGED vars
    BY <1>1, <1>4 DEF vars, grabber, LockInv, InitInv, Exclusive, Holds
  <1> QED BY <1>1, <1>2, <1>3, <1>4 DEF Next, Finished, LockInv

LEMMA LockInvariant == Spec => []LockInv
  BY LockInit, LockNext, PTL DEF Spec

(* Every variable stays in its range.                                      *)
THEOREM CaptureTyped == Spec => []TypeOK
  <1>1. LockInv => TypeOK
    BY DEF LockInv
  <1> QED BY <1>1, LockInvariant, PTL

(* The state word excludes: one thread at most is inside the grabber, for  *)
(* any number of threads.                                                  *)
THEOREM StateWordExcludes == Spec => []Exclusive
  <1>1. LockInv => Exclusive
    BY DEF LockInv
  <1> QED BY <1>1, LockInvariant, PTL

(* glgrab_init() never creates a buffer while there is one.                *)
THEOREM BufferNotReplaced == Spec => OneBuffer
  <1>1. ASSUME LockInv, NEW t \in Threads, Create(t) PROVE ~mapped
    BY <1>1 DEF LockInv, InitInv, Holds, Create, Step
  <1>2. LockInv => [\A t \in Threads : Create(t) => ~mapped]_vars
    BY <1>1
  <1> QED BY <1>2, LockInvariant, PTL DEF OneBuffer

-----------------------------------------------------------------------------
(* Ownership.  A step is looked at while no context in use has been        *)
(* destroyed, and the conjuncts of the invariant one by one.               *)

(* The adopted context is current in one thread, so one thread at most is  *)
(* on the way from the adoption to the end of the shot.                    *)
LEMMA AdoptingAlone ==
  ASSUME LockInv, AdoptedInv, NEW t \in Threads, NEW u \in Threads,
         pc[t] \in Adopting, pc[u] \in Adopting
  PROVE  t = u
  BY DEF LockInv, ContextInv, AdoptedInv

(* A thread that neither adopts nor destroys keeps what is said of the     *)
(* threads that do.                                                        *)
LEMMA Elsewhere ==
  ASSUME TypeOK, VictimInv, ForgetInv,
         NEW t \in Threads, NEW from, NEW to, Step(t, from, to),
         from \notin {"clear", "destroy"}, to \notin {"clear", "destroy"},
         UNCHANGED <<ctx, victim, cur, alive, doomed>>
  PROVE  VictimInv' /\ ForgetInv'
  <1>1. \A u \in Threads : pc'[u] \in {"clear", "destroy"} =>
          pc'[u] = pc[u] /\ u # t
    BY Moved
  <1>2. \A u \in Threads : pc[u] = "clear" => pc'[u] = "clear"
    BY Moved
  <1>3. VictimInv'
    BY <1>1 DEF VictimInv, UsedBy
  <1>4. ForgetInv'
    BY <1>2 DEF ForgetInv
  <1> QED BY <1>3, <1>4

(* Nor does it disturb a thread that has adopted.                          *)
LEMMA KeepsAdopted ==
  ASSUME TypeOK, AdoptedInv,
         NEW t \in Threads, NEW from, NEW to, Step(t, from, to),
         to \in Adopting => from \in Adopting,
         UNCHANGED <<ctx, cur>>
  PROVE  AdoptedInv'
  BY Moved DEF AdoptedInv

(* What is settled stays so where nothing it speaks of is touched.         *)
LEMMA KeepsSettled ==
  ASSUME TypeOK, SettledInv,
         NEW t \in Threads, NEW from, NEW to, Step(t, from, to),
         from \notin Preparing \cup {"shutdown"},
         state' \in {"ready", "using"} => state \in {"ready", "using"},
         UNCHANGED <<ctx, alive, fbo, frame>>
  PROVE  SettledInv'
  <1>1. \A u \in Threads : pc[u] \in Preparing \cup {"shutdown"} => pc'[u] = pc[u]
    BY Moved
  <1> QED BY <1>1 DEF SettledInv

(* While somebody prepares the grabber nothing is said of its objects.     *)
LEMMA NotSettled ==
  ASSUME NEW t \in Threads, pc'[t] \in Preparing \cup {"shutdown"}
  PROVE  SettledInv'
  BY DEF SettledInv

-----------------------------------------------------------------------------

LEMMA OwnAdopt ==
  ASSUME LockInv, OwnInv, NEW t \in Threads, Adopt(t)
  PROVE  OwnInv'
  <1> USE DEF LockInv, OwnInv
  <1>1. cur[t] # NoCtx /\ cur[t] \in alive
    BY DEF Adopt, Step, ContextInv
  <1>2. CASE ctx = NoCtx /\ Step(t, "adopt", "init") /\ ctx' = cur[t]
    <2>1. UNCHANGED <<victim, cur, alive, doomed>>
      BY DEF Adopt, app
    <2>2. AdoptedInv'
      <3>1. \A u \in Threads : pc'[u] \in Adopting => u = t
        BY <1>2, Moved DEF AdoptedInv
      <3> QED BY <1>1, <1>2, <2>1, <3>1 DEF AdoptedInv
    <2>3. VictimInv'
      <3>1. \A u \in Threads : pc'[u] \in {"clear", "destroy"} =>
              pc'[u] = pc[u] /\ u # t
        BY <1>2, Moved
      <3>2. \A u \in Threads : pc[u] \in {"clear", "destroy"} => cur[t] # victim[u]
        BY DEF VictimInv, UsedBy
      <3> QED BY <1>2, <2>1, <3>1, <3>2 DEF VictimInv, UsedBy
    <2>4. ForgetInv'
      BY <1>1, <1>2, <2>1 DEF ForgetInv
    <2>5. SettledInv'
      BY <1>2, Moved, NotSettled DEF Preparing
    <2> QED BY <2>2, <2>3, <2>4, <2>5
  <1>3. CASE \E to \in {"measure", "real"} :
               /\ Step(t, "adopt", to)
               /\ to = "measure" => ctx = cur[t]
               /\ UNCHANGED ctx
    <2>1. PICK to \in {"measure", "real"} :
               /\ Step(t, "adopt", to)
               /\ to = "measure" => ctx = cur[t]
               /\ UNCHANGED ctx
      BY <1>3
    <2>2. UNCHANGED <<state, ctx, fbo, frame, victim, cur, alive, doomed>>
      BY <2>1 DEF Adopt, app
    <2>3. AdoptedInv'
      BY <1>1, <2>1, <2>2, Moved DEF AdoptedInv, Adopting, Preparing
    <2>4. VictimInv' /\ ForgetInv'
      BY <2>1, <2>2, Elsewhere
    <2>5. SettledInv'
      BY <2>1, <2>2, KeepsSettled DEF Preparing
    <2> QED BY <2>3, <2>4, <2>5
  <1> QED BY <1>2, <1>3 DEF Adopt

LEMMA OwnBeginInit ==
  ASSUME LockInv, OwnInv, NEW t \in Threads, BeginInit(t)
  PROVE  OwnInv'
  <1> USE DEF LockInv, OwnInv
  <1>1. PICK to \in {"create", "real", "reset"} :
          /\ Step(t, "init", to)
          /\ to = "real" => state' = "failed"
    BY DEF BeginInit
  <1>2. UNCHANGED <<ctx, fbo, frame, victim, cur, alive, doomed>>
    BY DEF BeginInit, app
  <1>3. AdoptedInv'
    BY <1>1, <1>2, KeepsAdopted DEF Adopting, Preparing
  <1>4. VictimInv' /\ ForgetInv'
    BY <1>1, <1>2, Elsewhere
  <1>5. SettledInv'
    <2>1. CASE to = "real"
      BY <1>1, <2>1 DEF SettledInv
    <2>2. CASE to # "real"
      BY <1>1, <2>2, Moved, NotSettled DEF Preparing
    <2> QED BY <2>1, <2>2
  <1> QED BY <1>3, <1>4, <1>5

LEMMA OwnCreate ==
  ASSUME LockInv, OwnInv, NEW t \in Threads, Create(t)
  PROVE  OwnInv'
  <1> USE DEF LockInv, OwnInv
  <1>1. PICK to \in {"reset", "real"} :
          /\ Step(t, "create", to)
          /\ to = "real" => state' = "failed"
    BY DEF Create
  <1>2. UNCHANGED <<ctx, fbo, frame, victim, cur, alive, doomed>>
    BY DEF Create, app
  <1>3. AdoptedInv'
    BY <1>1, <1>2, KeepsAdopted DEF Adopting, Preparing
  <1>4. VictimInv' /\ ForgetInv'
    BY <1>1, <1>2, Elsewhere
  <1>5. SettledInv'
    <2>1. CASE to = "real"
      BY <1>1, <2>1 DEF SettledInv
    <2>2. CASE to # "real"
      BY <1>1, <2>2, Moved, NotSettled DEF Preparing
    <2> QED BY <2>1, <2>2
  <1> QED BY <1>3, <1>4, <1>5

(* The lock can be missed here only because the destructor has it.         *)
LEMMA OwnLockForReset ==
  ASSUME LockInv, OwnInv, NEW t \in Threads, LockForReset(t)
  PROVE  OwnInv'
  <1> USE DEF LockInv, OwnInv
  <1>1. PICK to \in {"generate", "real"} :
          /\ Step(t, "reset", to)
          /\ to = "real" => state # "ready" /\ state' = state
    BY DEF LockForReset, TryLock
  <1>2. UNCHANGED <<ctx, fbo, frame, victim, cur, alive, doomed>>
    BY DEF LockForReset, app
  <1>3. AdoptedInv'
    BY <1>1, <1>2, KeepsAdopted DEF Adopting, Preparing
  <1>4. VictimInv' /\ ForgetInv'
    BY <1>1, <1>2, Elsewhere
  <1>5. SettledInv'
    <2>1. CASE to = "real" /\ state' \in {"ready", "using"}
      <3>1. state = "using" /\ pc[t] = "reset"
        BY <1>1, <2>1 DEF Step
      <3>2. PICK u \in Threads : Holds(u)
        BY <3>1 DEF Exclusive
      <3>3. u # t /\ pc[u] \in {"generate", "copy", "shoot", "shutdown"}
        BY <3>1, <3>2 DEF Holds, InitInv
      <3>4. pc[u] = "shutdown"
        BY <3>1, <3>3, AdoptingAlone DEF Adopting, Preparing
      <3>5. pc'[u] = "shutdown"
        BY <1>1, <3>3, <3>4, Moved
      <3> QED BY <3>5, NotSettled
    <2>2. CASE state' \notin {"ready", "using"}
      BY <2>2 DEF SettledInv
    <2>3. CASE to = "generate"
      BY <1>1, <2>3, Moved, NotSettled DEF Preparing
    <2> QED BY <2>1, <2>2, <2>3
  <1> QED BY <1>3, <1>4, <1>5

(* glgrab_reset() settles.                                                 *)
LEMMA OwnGenerate ==
  ASSUME LockInv, OwnInv, NEW t \in Threads, Generate(t)
  PROVE  OwnInv'
  <1> USE DEF LockInv, OwnInv
  <1>1. Step(t, "generate", "measure")
    BY DEF Generate
  <1>2. UNCHANGED <<ctx, victim, cur, alive, doomed>>
    BY DEF Generate, app
  <1>3. AdoptedInv'
    BY <1>1, <1>2, KeepsAdopted DEF Adopting, Preparing
  <1>4. VictimInv' /\ ForgetInv'
    BY <1>1, <1>2, Elsewhere
  <1>5. ctx = cur[t]
    BY <1>1 DEF Step, AdoptedInv, Adopting, Preparing
  <1>6. SettledInv'
    BY <1>2, <1>5 DEF Generate, SettledInv
  <1> QED BY <1>3, <1>4, <1>6

(* The steps that leave the objects alone, the state word in its states    *)
(* and a context with whoever has it.                                      *)
LEMMA OwnPassive ==
  ASSUME LockInv, OwnInv, NEW t \in Threads, NEW from, NEW to, Step(t, from, to),
         from \notin Preparing \cup {"clear", "destroy", "shutdown"},
         to \notin {"clear", "destroy"},
         to \in Adopting => from \in Adopting,
         state' \in {"ready", "using"} => state \in {"ready", "using"},
         UNCHANGED <<ctx, fbo, frame, victim, cur, alive, doomed>>
  PROVE  OwnInv'
  <1> USE DEF LockInv, OwnInv
  <1>1. AdoptedInv'
    BY KeepsAdopted
  <1>2. VictimInv' /\ ForgetInv'
    BY Elsewhere
  <1>3. SettledInv'
    BY KeepsSettled
  <1> QED BY <1>1, <1>2, <1>3

(* The frame is shot in the adopted context and into a mapped buffer.      *)
LEMMA OwnShoot ==
  ASSUME LockInv, OwnInv, NEW t \in Threads, Shoot(t)
  PROVE  OwnInv'
  <1> USE DEF LockInv, OwnInv
  <1>1. Step(t, "shoot", "real")
    BY DEF Shoot
  <1>2. UNCHANGED <<ctx, fbo, victim, cur, alive, doomed>>
    BY DEF Shoot, app
  <1>3. AdoptedInv'
    BY <1>1, <1>2, KeepsAdopted DEF Adopting, Preparing
  <1>4. VictimInv' /\ ForgetInv'
    BY <1>1, <1>2, Elsewhere
  <1>5. SettledInv'
    <2>1. state = "using" /\ mapped /\ ctx = cur[t]
      BY <1>1 DEF Step, AdoptedInv, Adopting, InitInv, Exclusive, Holds, TypeOK
    <2>2. frame' \in {NoFrame, [shot |-> TRUE, owner |-> cur[t], mapped |-> mapped]}
      BY DEF Shoot
    <2>3. frame' # NoFrame => frame'.owner = ctx /\ frame'.mapped
      BY <2>1, <2>2
    <2>4. \A u \in Threads : pc[u] \in Preparing \cup {"shutdown"} => pc'[u] = pc[u]
      BY <1>1, Moved DEF Preparing
    <2> QED BY <1>2, <2>1, <2>3, <2>4 DEF SettledInv
  <1> QED BY <1>3, <1>4, <1>5

-----------------------------------------------------------------------------
(* The hook forgets the context that it sees destroyed.                    *)
LEMMA OwnClear ==
  ASSUME LockInv, OwnInv, NEW t \in Threads, Clear(t)
  PROVE  OwnInv'
  <1> USE DEF LockInv, OwnInv
  <1>1. /\ pc[t] = "clear" /\ pc'[t] = AfterClear
        /\ \A u \in Threads \ {t} : pc'[u] = pc[u]
        /\ AfterClear \in {"app", "destroy"}
    BY Moved DEF Clear, AfterClear
  <1>2. /\ UNCHANGED <<state, fbo, frame, cur, alive, doomed>>
        /\ \A u \in Threads \ {t} : victim'[u] = victim[u]
        /\ ClearsFirst => victim' = victim
    BY DEF Clear, TypeOK
  <1>3. /\ victim[t] \in Contexts /\ victim[t] # NoCtx
        /\ ctx' = IF ctx = victim[t] THEN NoCtx ELSE ctx
    BY <1>1, CaptureAssumption DEF Clear, ContextInv
  <1>4. AdoptedInv'
    <2>1. \A u \in Threads : pc'[u] \in Adopting => pc[u] \in Adopting
      BY <1>1 DEF Adopting, Preparing
    <2>2. \A u \in Threads : cur[u] # victim[t]
      BY <1>1 DEF VictimInv, UsedBy
    <2> QED BY <1>2, <1>3, <2>1, <2>2 DEF AdoptedInv
  <1>5. VictimInv'
    <2>1. \A u \in Threads : pc'[u] \in {"clear", "destroy"} =>
            pc[u] \in {"clear", "destroy"} /\ victim'[u] = victim[u]
      BY <1>1, <1>2 DEF AfterClear
    <2>2. \A u \in Threads : pc'[u] \in {"clear", "destroy"} =>
            /\ victim[u] \in alive <=> ClearsFirst \/ pc'[u] = "destroy"
            /\ ClearsFirst /\ pc'[u] = "destroy" => ctx' # victim[u]
      <3> SUFFICES ASSUME NEW u \in Threads, pc'[u] \in {"clear", "destroy"}
                   PROVE  /\ victim[u] \in alive <=> ClearsFirst \/ pc'[u] = "destroy"
                          /\ ClearsFirst /\ pc'[u] = "destroy" => ctx' # victim[u]
        OBVIOUS
      <3>1. CASE u = t
        BY <1>1, <1>3, <3>1 DEF VictimInv, AfterClear
      <3>2. CASE u # t
        <4>1. pc'[u] = pc[u] /\ victim[u] # NoCtx
          BY <1>1, <3>2, CaptureAssumption DEF ContextInv
        <4> QED BY <1>3, <4>1 DEF VictimInv
      <3> QED BY <3>1, <3>2
    <2> QED BY <1>2, <2>1, <2>2 DEF VictimInv, UsedBy
  <1>6. ForgetInv'
    BY <1>1, <1>2, <1>3 DEF ForgetInv
  <1>7. SettledInv'
    <2>1. ctx' \in alive => ctx' = ctx
      BY <1>3, CaptureAssumption DEF TypeOK
    <2>2. \A u \in Threads : pc[u] \in Preparing \cup {"shutdown"} => pc'[u] = pc[u]
      BY <1>1 DEF Preparing
    <2> QED BY <1>2, <2>1, <2>2 DEF SettledInv
  <1> QED BY <1>4, <1>5, <1>6, <1>7

(* The real call takes a context away that nobody uses, and its objects.   *)
LEMMA OwnRealDestroy ==
  ASSUME LockInv, OwnInv, NEW t \in Threads, RealDestroy(t)
  PROVE  OwnInv'
  <1> USE DEF LockInv, OwnInv
  <1>1. CASE UNCHANGED <<grabber, cur, alive, doomed, careless>>
    <2>1. /\ UNCHANGED <<state, ctx, fbo, frame, cur, alive, doomed>>
          /\ pc[t] = "destroy"
          /\ pc'[t] \in {"app", "clear"}
          /\ \A u \in Threads \ {t} : pc'[u] = pc[u] /\ victim'[u] = victim[u]
      BY <1>1, Moved DEF RealDestroy, grabber, TypeOK
    <2>2. CASE pc'[t] = "app"
      <3>1. AdoptedInv'
        BY <2>1, <2>2 DEF AdoptedInv, Adopting, Preparing
      <3>2. VictimInv'
        <4>1. \A u \in Threads : pc'[u] \in {"clear", "destroy"} =>
                u # t /\ pc'[u] = pc[u] /\ victim'[u] = victim[u]
          BY <2>1, <2>2
        <4> QED BY <2>1, <4>1 DEF VictimInv, UsedBy
      <3>3. ForgetInv'
        <4>1. \A u \in Threads : pc[u] = "clear" =>
                pc'[u] = pc[u] /\ victim'[u] = victim[u]
          BY <2>1
        <4> QED BY <2>1, <4>1 DEF ForgetInv
      <3>4. SettledInv'
        BY <2>1 DEF SettledInv, Preparing
      <3> QED BY <3>1, <3>2, <3>3, <3>4
    <2>3. CASE pc'[t] = "clear"
      <3>1. Dies(victim[t]) /\ UsedBy(victim[t]) = {}
        BY <2>1, <2>3 DEF RealDestroy, VictimInv, Step, TypeOK
      <3>2. victim[t] \in alive
        BY <2>1 DEF VictimInv
      <3> QED BY <2>1, <3>1, <3>2 DEF Dies
    <2> QED BY <2>1, <2>2, <2>3
  <1>2. CASE ~UNCHANGED <<grabber, cur, alive, doomed, careless>>
    <2>1. /\ Step(t, "destroy", IF ClearsFirst THEN "app" ELSE "clear")
          /\ Dies(victim[t])
          /\ victim' = IF ClearsFirst THEN [victim EXCEPT ![t] = NoCtx] ELSE victim
          /\ UNCHANGED <<state, ctx, cur>>
      BY <1>2 DEF RealDestroy, VictimInv, Step, UsedBy
    <2>2. /\ pc[t] = "destroy"
          /\ pc'[t] = IF ClearsFirst THEN "app" ELSE "clear"
          /\ \A u \in Threads \ {t} : pc'[u] = pc[u] /\ victim'[u] = victim[u]
          /\ ~ClearsFirst => victim'[t] = victim[t]
      BY <2>1, Moved DEF TypeOK
    <2>3. /\ \A u \in Threads : cur[u] # victim[t]
          /\ victim[t] \in alive
          /\ victim[t] \in Contexts /\ victim[t] # NoCtx
          /\ ClearsFirst => ctx # victim[t]
      BY <2>2, CaptureAssumption DEF VictimInv, UsedBy, ContextInv
    <2>4. /\ alive' = alive \ {victim[t]}
          /\ doomed' = {}
          /\ fbo' = IF fbo = victim[t] THEN NoCtx ELSE fbo
          /\ frame' = IF frame.owner = victim[t]
                        THEN [frame EXCEPT !.owner = NoCtx] ELSE frame
      BY <2>1 DEF Dies, VictimInv
    <2>5. AdoptedInv'
      BY <2>1, <2>2 DEF AdoptedInv, Adopting, Preparing
    <2>6. VictimInv'
      <3>1. \A u \in Threads : pc'[u] \in {"clear", "destroy"} =>
              /\ pc[u] \in {"clear", "destroy"}
              /\ victim'[u] = victim[u]
              /\ u # t => pc'[u] = pc[u] /\ victim[u] # victim[t]
              /\ u = t => ~ClearsFirst /\ pc'[u] = "clear"
        BY <2>2 DEF VictimInv
      <3>2. \A u \in Threads : pc'[u] \in {"clear", "destroy"} =>
              /\ victim'[u] \in alive' <=> ClearsFirst \/ pc'[u] = "destroy"
              /\ ClearsFirst /\ pc'[u] = "destroy" => ctx' # victim'[u]
        BY <2>1, <2>4, <3>1 DEF VictimInv
      <3> QED BY <2>1, <2>4, <3>1, <3>2 DEF VictimInv, UsedBy
    <2>7. ForgetInv'
      <3>1. CASE ctx = victim[t]
        BY <2>1, <2>2, <2>3, <3>1 DEF ForgetInv
      <3>2. CASE ctx # victim[t]
        BY <2>1, <2>2, <2>4, <3>2 DEF ForgetInv
      <3> QED BY <3>1, <3>2
    <2>8. SettledInv'
      <3>1. \A u \in Threads : pc[u] \in Preparing \cup {"shutdown"} => pc'[u] = pc[u]
        BY <2>2 DEF Preparing
      <3>2. ctx' \in alive' => ctx \in alive /\ ctx # victim[t]
        BY <2>1, <2>4
      <3>3. frame # NoFrame /\ frame.owner = ctx /\ ctx # victim[t] => frame' = frame
        BY <2>4
      <3>4. frame = NoFrame => frame' = frame
        BY <2>3, <2>4 DEF NoFrame
      <3> QED BY <2>1, <2>4, <3>1, <3>2, <3>3, <3>4 DEF SettledInv
    <2> QED BY <2>5, <2>6, <2>7, <2>8
  <1> QED BY <1>1, <1>2

LEMMA OwnShutdown ==
  ASSUME LockInv, OwnInv, NEW t \in Threads, Shutdown(t)
  PROVE  OwnInv'
  <1> USE DEF LockInv, OwnInv
  <1>1. Step(t, "shutdown", "ended") /\ state' = "virgin"
    BY DEF Shutdown
  <1>2. UNCHANGED <<ctx, victim, cur, alive, doomed>>
    BY DEF Shutdown, app
  <1>3. AdoptedInv'
    BY <1>1, <1>2, KeepsAdopted DEF Adopting, Preparing
  <1>4. VictimInv' /\ ForgetInv'
    BY <1>1, <1>2, Elsewhere
  <1>5. SettledInv'
    BY <1>1 DEF SettledInv
  <1> QED BY <1>3, <1>4, <1>5

-----------------------------------------------------------------------------
(* The application                                                         *)

LEMMA OwnRelease ==
  ASSUME LockInv, OwnInv, NEW t \in Threads, Release(t)
  PROVE  OwnInv'
  <1> USE DEF LockInv, OwnInv
  <1>1. Step(t, "app", "app")
    BY DEF Release
  <1>2. /\ UNCHANGED <<state, ctx, fbo, frame, victim, alive, doomed>>
        /\ cur' = [cur EXCEPT ![t] = NoCtx]
    BY DEF Release, VictimInv
  <1>3. pc' = pc /\ pc[t] = "app"
    BY <1>1, Moved DEF Step, TypeOK
  <1>4. \A u \in Threads : u # t => cur'[u] = cur[u]
    BY <1>2 DEF TypeOK
  <1>5. cur'[t] = NoCtx
    BY <1>2 DEF TypeOK
  <1>6. AdoptedInv'
    BY <1>2, <1>3, <1>4 DEF AdoptedInv, Adopting, Preparing
  <1>7. VictimInv'
    <2>1. \A u \in Threads : pc[u] \in {"clear", "destroy"} => UsedBy(victim[u])' = {}
      BY <1>2, <1>4, <1>5, CaptureAssumption DEF VictimInv, UsedBy, ContextInv
    <2> QED BY <1>2, <1>3, <2>1 DEF VictimInv
  <1>8. ForgetInv' /\ SettledInv'
    BY <1>2, <1>3 DEF ForgetInv, SettledInv
  <1> QED BY <1>6, <1>7, <1>8

(* This is where a handle must not come back too early.                    *)
LEMMA OwnCreateContext ==
  ASSUME ForgottenInTime, LockInv, OwnInv, NEW t \in Threads, NEW c \in Contexts,
         CreateContext(t, c)
  PROVE  OwnInv'
  <1> USE DEF LockInv, OwnInv
  <1>1. /\ UNCHANGED <<state, ctx, fbo, frame, victim, cur, doomed>>
        /\ alive' = alive \cup {c} /\ c \notin alive
    BY DEF CreateContext, grabber
  <1>2. pc' = pc
    BY Moved DEF CreateContext, Step, TypeOK
  <1>3. \A u \in Threads : pc[u] \in {"clear", "destroy"} => victim[u] # c
    BY <1>1 DEF CreateContext, ForgottenInTime, VictimInv
  <1>4. AdoptedInv'
    BY <1>1, <1>2 DEF AdoptedInv
  <1>5. VictimInv'
    BY <1>1, <1>2, <1>3 DEF VictimInv, UsedBy
  <1>6. ForgetInv'
    BY <1>1, <1>2 DEF ForgetInv
  <1>7. SettledInv'
    <2>1. ctx # c
      BY <1>1, <1>3, CaptureAssumption DEF ForgetInv
    <2> QED BY <1>1, <1>2, <2>1 DEF SettledInv
  <1> QED BY <1>4, <1>5, <1>6, <1>7

LEMMA OwnMakeCurrent ==
  ASSUME LockInv, OwnInv, NEW t \in Threads, NEW c \in Contexts, MakeCurrent(t, c)
  PROVE  OwnInv'
  <1> USE DEF LockInv, OwnInv
  <1>1. /\ UNCHANGED <<state, ctx, fbo, frame, victim, alive, doomed>>
        /\ cur' = [cur EXCEPT ![t] = c]
    BY DEF MakeCurrent, grabber
  <1>2. pc' = pc /\ pc[t] = "app"
    BY Moved DEF MakeCurrent, Step, TypeOK
  <1>3. \A u \in Threads : u # t => cur'[u] = cur[u]
    BY <1>1 DEF TypeOK
  <1>4. \A u \in Threads : pc[u] \in {"clear", "destroy"} => victim[u] # c
    BY DEF MakeCurrent, BeingDestroyed, VictimInv
  <1>5. AdoptedInv'
    BY <1>1, <1>2, <1>3 DEF AdoptedInv, Adopting, Preparing
  <1>6. VictimInv'
    <2>1. \A u \in Threads : pc[u] \in {"clear", "destroy"} => UsedBy(victim[u])' = {}
      BY <1>1, <1>3, <1>4 DEF VictimInv, UsedBy, TypeOK
    <2> QED BY <1>1, <1>2, <2>1 DEF VictimInv
  <1>7. ForgetInv' /\ SettledInv'
    BY <1>1, <1>2 DEF ForgetInv, SettledInv
  <1> QED BY <1>5, <1>6, <1>7

LEMMA OwnDestroy ==
  ASSUME LockInv, OwnInv, ~careless', NEW t \in Threads, NEW c \in Contexts,
         Destroy(t, c)
  PROVE  OwnInv'
  <1> USE DEF LockInv, OwnInv
  <1>1. /\ UNCHANGED <<state, ctx, fbo, frame, cur, alive, doomed>>
        /\ victim' = [victim EXCEPT ![t] = c]
        /\ UsedBy(c) = {} /\ c \in alive
    BY DEF Destroy, grabber
  <1>2. /\ pc[t] = "app"
        /\ pc'[t] = IF ClearsFirst THEN "clear" ELSE "destroy"
        /\ \A u \in Threads \ {t} : pc'[u] = pc[u] /\ victim'[u] = victim[u]
        /\ victim'[t] = c
    BY <1>1, Moved DEF Destroy, TypeOK
  <1>3. \A u \in Threads \ {t} : pc[u] \in {"clear", "destroy"} => victim[u] # c
    BY <1>1 DEF Destroy, BeingDestroyed, VictimInv
  <1>4. AdoptedInv'
    BY <1>1, <1>2 DEF AdoptedInv, Adopting, Preparing
  <1>5. VictimInv'
    <2>1. \A u \in Threads : pc'[u] \in {"clear", "destroy"} =>
            u = t \/ (pc[u] = pc'[u] /\ victim'[u] = victim[u])
      BY <1>2
    <2>2. \A u \in Threads : pc'[u] \in {"clear", "destroy"} =>
            /\ UsedBy(victim'[u]) = {}
            /\ victim'[u] \in alive' <=> ClearsFirst \/ pc'[u] = "destroy"
            /\ ClearsFirst /\ pc'[u] = "destroy" => ctx' # victim'[u]
      BY <1>1, <1>2, <2>1 DEF VictimInv
    <2>3. \A u, v \in Threads :
            /\ {pc'[u], pc'[v]} \subseteq {"clear", "destroy"}
            /\ victim'[u] = victim'[v]
            => u = v
      BY <1>2, <1>3 DEF VictimInv
    <2> QED BY <1>1, <2>2, <2>3 DEF VictimInv, UsedBy
  <1>6. ForgetInv'
    <2>1. \A u \in Threads : pc[u] = "clear" => pc'[u] = "clear" /\ victim'[u] = victim[u]
      BY <1>2
    <2> QED BY <1>1, <2>1 DEF ForgetInv
  <1>7. SettledInv'
    <2>1. \A u \in Threads : pc[u] \in Preparing \cup {"shutdown"} => pc'[u] = pc[u]
      BY <1>2 DEF Preparing
    <2> QED BY <1>1, <2>1 DEF SettledInv
  <1> QED BY <1>4, <1>5, <1>6, <1>7

-----------------------------------------------------------------------------

LEMMA ObjectInit == Init => ObjectInv
  <1> SUFFICES ASSUME Init PROVE ObjectInv
    OBVIOUS
  <1>1. \A t \in Threads : pc[t] = "app"
    BY DEF Init
  <1>2. OwnInv
    BY <1>1 DEF Init, OwnInv, AdoptedInv, Adopting, Preparing, VictimInv, ForgetInv,
                SettledInv
  <1> QED BY <1>2, LockInit DEF ObjectInv

LEMMA ObjectNext ==
  ASSUME ForgottenInTime, ObjectInv, [Next]_vars
  PROVE  ObjectInv'
  <1>1. LockInv'
    BY LockNext DEF ObjectInv
  <1> SUFFICES ASSUME ~careless' PROVE OwnInv'
    BY <1>1 DEF ObjectInv
  <1>2. ASSUME NEW t \in Threads, HookNext(t) PROVE careless' = careless
    BY <1>2 DEF HookNext, Adopt, BeginInit, Create, LockForReset, Generate, Measure,
       LockForFrame, CopyAndCommit, Shoot, RealSwap, Clear, RealDestroy,
       LockForShutdown, Shutdown, app
  <1>3. ASSUME NEW t \in Threads, AppNext(t), careless PROVE careless'
    BY <1>3 DEF AppNext, Swap, Release, Exit, CreateContext, MakeCurrent, Destroy, app
  <1>4. ~careless
    BY <1>2, <1>3 DEF Next, Finished, vars, app, ObjectInv, LockInv, TypeOK
  <1>5. LockInv /\ OwnInv
    BY <1>4 DEF ObjectInv
  <1>6. ASSUME NEW t \in Threads, HookNext(t) PROVE OwnInv'
    <2> DEFINE Others == UNCHANGED <<ctx, fbo, frame, victim, cur, alive, doomed>>
    <2>1. CASE Adopt(t)
      BY <1>5, <2>1, OwnAdopt
    <2>2. CASE BeginInit(t)
      BY <1>5, <2>2, OwnBeginInit
    <2>3. CASE Create(t)
      BY <1>5, <2>3, OwnCreate
    <2>4. CASE LockForReset(t)
      BY <1>5, <2>4, OwnLockForReset
    <2>5. CASE Generate(t)
      BY <1>5, <2>5, OwnGenerate
    <2>6. CASE Measure(t)
      <3>1. PICK to \in {"take", "real"} : Step(t, "measure", to)
        BY <2>6 DEF Measure
      <3>2. Others /\ UNCHANGED state
        BY <2>6 DEF Measure, grabber, app
      <3> QED BY <1>5, <3>1, <3>2, OwnPassive DEF Adopting, Preparing
    <2>7. CASE LockForFrame(t)
      <3>1. PICK to \in {"copy", "real"} : Step(t, "take", to)
        BY <2>7 DEF LockForFrame, TryLock
      <3>2. Others /\ (state' \in {"ready", "using"} => state \in {"ready", "using"})
        BY <2>7 DEF LockForFrame, TryLock, app
      <3> QED BY <1>5, <3>1, <3>2, OwnPassive DEF Adopting, Preparing
    <2>8. CASE CopyAndCommit(t)
      <3>1. Step(t, "copy", "shoot") /\ Others /\ UNCHANGED state
        BY <2>8 DEF CopyAndCommit, grabber, app
      <3> QED BY <1>5, <3>1, OwnPassive DEF Adopting, Preparing
    <2>9. CASE Shoot(t)
      BY <1>5, <2>9, OwnShoot
    <2>10. CASE RealSwap(t)
      <3>1. Step(t, "real", "app") /\ Others /\ UNCHANGED state
        BY <2>10 DEF RealSwap, grabber, app
      <3> QED BY <1>5, <3>1, OwnPassive DEF Adopting, Preparing
    <2>11. CASE Clear(t)
      BY <1>5, <2>11, OwnClear
    <2>12. CASE RealDestroy(t)
      BY <1>5, <2>12, OwnRealDestroy
    <2>13. CASE LockForShutdown(t)
      <3>1. PICK to \in {"shutdown", "ended"} : Step(t, "destructor", to)
        BY <2>13 DEF LockForShutdown, TryLock
      <3>2. Others /\ (state' \in {"ready", "using"} => state \in {"ready", "using"})
        BY <2>13 DEF LockForShutdown, TryLock, app
      <3> QED BY <1>5, <3>1, <3>2, OwnPassive DEF Adopting, Preparing
    <2>14. CASE Shutdown(t)
      BY <1>5, <2>14, OwnShutdown
    <2> QED BY <1>6, <2>1, <2>2, <2>3, <2>4, <2>5, <2>6, <2>7, <2>8, <2>9,
               <2>10, <2>11, <2>12, <2>13, <2>14 DEF HookNext
  <1>7. ASSUME NEW t \in Threads, AppNext(t) PROVE OwnInv'
    <2>1. CASE Swap(t) \/ Exit(t)
      <3>1. PICK to \in {"adopt", "real", "destructor"} : Step(t, "app", to)
        BY <2>1 DEF Swap, Exit
      <3>2. UNCHANGED <<state, ctx, fbo, frame, victim, cur, alive, doomed>>
        BY <2>1 DEF Swap, Exit, grabber, app
      <3> QED BY <1>5, <3>1, <3>2, OwnPassive DEF Adopting, Preparing
    <2>2. CASE Release(t)
      BY <1>5, <2>2, OwnRelease
    <2>3. ASSUME NEW c \in Contexts, CreateContext(t, c) PROVE OwnInv'
      BY <1>5, <2>3, OwnCreateContext
    <2>4. ASSUME NEW c \in Contexts, MakeCurrent(t, c) PROVE OwnInv'
      BY <1>5, <2>4, OwnMakeCurrent
    <2>5. ASSUME NEW c \in Contexts, Destroy(t, c) PROVE OwnInv'
      BY <1>5, <2>5, OwnDestroy
    <2> QED BY <1>7, <2>1, <2>2, <2>3, <2>4, <2>5 DEF AppNext
  <1>8. CASE UNCHANGED vars
    BY <1>5, <1>8 DEF vars, grabber, app, OwnInv, AdoptedInv, VictimInv, UsedBy,
                      ForgetInv, SettledInv
  <1> QED BY <1>6, <1>7, <1>8 DEF Next, Finished

LEMMA ObjectInvariant ==
  ASSUME ForgottenInTime
  PROVE  Spec => []ObjectInv
  <1>1. ObjectInv /\ [Next]_vars => ObjectInv'
    BY ObjectNext
  <1> QED BY <1>1, ObjectInit, PTL DEF Spec

(* What a thread that has the lock for a frame finds in the grabber.       *)
LEMMA InTheFrame ==
  ASSUME ObjectInv, ~careless, NEW t \in Threads, pc[t] \in {"copy", "shoot"}
  PROVE  /\ mapped /\ fbo = cur[t]
         /\ frame # NoFrame => frame.owner = cur[t] /\ frame.mapped
  <1> USE DEF ObjectInv, LockInv, OwnInv
  <1>1. state = "using" /\ mapped
    BY DEF Exclusive, InitInv, Holds
  <1>2. ctx = cur[t] /\ ctx \in alive
    BY DEF AdoptedInv, Adopting, ContextInv
  <1>3. \A u \in Threads : pc[u] \notin Preparing \cup {"shutdown"}
    <2>1. \A u \in Threads : pc[u] \in Preparing => u = t
      BY AdoptingAlone DEF Adopting
    <2>2. \A u \in Threads : pc[u] = "shutdown" => u = t
      BY DEF Exclusive, Holds
    <2> QED BY <2>1, <2>2 DEF Preparing
  <1> QED BY <1>1, <1>2, <1>3 DEF SettledInv

(* A grabber that forgets a context before its handle can come back only   *)
(* ever uses the objects of the context that is current: the frame buffer  *)
(* that it reads back and shoots into, and the frame of the swap before.   *)
THEOREM UsesOwnObjects ==
  ASSUME ForgottenInTime
  PROVE  Spec => []OwnObjects
  <1>1. ObjectInv => OwnObjects
    BY InTheFrame DEF OwnObjects
  <1> QED BY <1>1, ObjectInvariant, PTL

(* And the frame of the swap before goes into the buffer that it has been  *)
(* reserved in, for any number of threads, one of them in the destructor.  *)
THEOREM CopiesToMapped ==
  ASSUME ForgottenInTime
  PROVE  Spec => []FrameMapped
  <1>1. ObjectInv => FrameMapped
    BY InTheFrame DEF FrameMapped
  <1> QED BY <1>1, ObjectInvariant, PTL

=============================================================================
