-------------------------------- MODULE Audit --------------------------------
(* The rtld-audit helper: it answers the dynamic linker, and those who ask *)
(* a GetProcAddress function, with fakes of the functions it substitutes,  *)
(* and each fake calls glgrab's hook or what it takes for the real thing.  *)
(*                                                                         *)
(* Where a call stands is an entry point or a place inside a fake, a pair  *)
(* or triple with its kind in front.                                       *)
EXTENDS Naturals, FiniteSets

CONSTANTS
  Threads,
  Apps,      (* objects that call, other than libraries                   *)
  Libs,      (* objects that define the functions                         *)
  Chained,   (* libraries whose functions call the next definition, as    *)
             (* overlays do                                               *)
  Refusing,  (* whose GetProcAddress may answer NULL                      *)
  Asking,    (* whose GetProcAddress may ask the linker itself            *)
  Hooked,    (* substituted functions with a hook, such as glXSwapBuffers *)
  Getters,   (* substituted GetProcAddress functions                      *)
  Null

VARIABLES
  (* audit-glx.c, audit-egl.c *)
  real,      (* real[f]: the pointer real_f                               *)
  bound,     (* the hooks whose pointers are set                          *)
  (* the objects and threads of the process *)
  held,      (* held[o][f]: the pointer to f that object o has got        *)
  call,      (* the call a thread is in, or Null                          *)
  (* a history variable, which no step reads *)
  straight   (* straight[f]: all who have been asked for f, have answered *)
             (* with a definition that calls no other one                 *)

vars == <<real, bound, held, call, straight>>

Functions == Hooked \cup Getters   (* those in subs[]; any other name is    *)
                                   (* answered as it is, and changes nothing *)
Base == Libs \ Chained
Holders == Apps \cup Chained

Def(l, f) == <<"def", l, f>>
Fake(f)   == <<"fake", f>>
Past(f)   == <<"past", f>>     (* in the fake, with the hook tested       *)
Back(p)   == <<"back", p>>     (* a GetProcAddress returns p              *)

Defs(f)     == {Def(l, f) : l \in Libs}
BaseDefs(f) == IF f \in Getters THEN Defs(f) ELSE {Def(l, f) : l \in Base}
Pointers(f) == Defs(f) \cup {Fake(f), Null}

ASSUME AuditAssumption ==
  /\ Chained \subseteq Libs /\ Refusing \subseteq Libs /\ Asking \subseteq Libs
  /\ Apps \cap Libs = {}
  /\ Hooked \cap Getters = {}
  /\ \A f \in Functions :
       Null \notin Defs(f) \cup {Fake(f), Past(f)} \cup {Back(p) : p \in Pointers(f)}

Init ==
  /\ real = [f \in Functions |-> Null]
  /\ bound = {}
  /\ held = [o \in Holders |-> [f \in Functions |-> Null]]
  /\ call = [t \in Threads |-> Null]
  /\ straight = [f \in Functions |-> TRUE]

(* A jump to NULL ends the process. *)
Alive == \A t \in Threads : call[t] # Null => call[t].at # Null

(* apply_sub(f, p): what it stores, and what it returns. *)
StoredNever(f, p) == real
Stored(f, p) == [real EXCEPT ![f] = p]
Given(f, p) == Fake(f)

Told(f, p) == [straight EXCEPT ![f] = @ /\ p \in BaseDefs(f)]

(* la_symbind(): object o is to get f as library l defines it, from the    *)
(* linker or by dlsym().  An overlay asks for the next definition of what  *)
(* it defines itself and passes on.                                        *)
LaSymbind(o, f, l) ==
  /\ o \in Chained => l # o /\ f \in Hooked
  /\ real' = Stored(f, Def(l, f))
  /\ held' = [held EXCEPT ![o][f] = Given(f, Def(l, f))]
  /\ straight' = Told(f, Def(l, f))

Bind(o, f, l) ==
  /\ Alive
  /\ LaSymbind(o, f, l)
  /\ UNCHANGED <<bound, call>>

(* la_symbind() for a hook's name, which the constructor of glx.c or egl.c *)
(* looks up; it may not find it.                                           *)
BindHook(f) ==
  /\ Alive
  /\ f \notin bound
  /\ bound' = bound \cup {f}
  /\ UNCHANGED <<real, held, call, straight>>

Goto(t, place) == call' = [call EXCEPT ![t].at = place]

(* An application calls f, or a GetProcAddress f for the function arg. *)
Call(t, o, f, arg) ==
  /\ Alive
  /\ call[t] = Null
  /\ held[o][f] # Null
  /\ call' = [call EXCEPT ![t] =
       [of |-> f, arg |-> arg, by |-> o, at |-> held[o][f],
        passed |-> 0, due |-> f \in bound]]
  /\ UNCHANGED <<real, bound, held, straight>>

(* A fake tests its hook.  passed counts the hooks passed, or the fakes of *)
(* a GetProcAddress that are still to return, and stops at Endless.        *)
Endless == 2

EnterFake(t) ==
  LET f == call[t].of
      n == IF f \in Getters \cup bound /\ call[t].passed < Endless
           THEN call[t].passed + 1 ELSE call[t].passed
  IN /\ call[t].at = Fake(f)
     /\ call' = [call EXCEPT ![t].at = Past(f), ![t].passed = n]
     /\ UNCHANGED <<real, bound, held, straight>>

CallReal_Again(t) ==
  LET f == call[t].of
  IN /\ call[t].at = Past(f)
     /\ Goto(t, IF f \in bound THEN Fake(f) ELSE real[f])
     /\ UNCHANGED <<real, bound, held, straight>>

(* It reads the pointer, passes it to the hook or calls it at once; a hook *)
(* calls it in the end (glx.c, egl.c). *)
CallReal(t) ==
  LET f == call[t].of
  IN /\ call[t].at = Past(f)
     /\ Goto(t, real[f])
     /\ UNCHANGED <<real, bound, held, straight>>

(* A library's function returns. *)
Arrive(t) ==
  /\ call[t].of \notin Getters
  /\ call[t].at \in BaseDefs(call[t].of)
  /\ call' = [call EXCEPT ![t] = Null]
  /\ UNCHANGED <<real, bound, held, straight>>

(* An overlay's function calls the next one, which it looks up first. *)
CallNext(t, l) ==
  LET f == call[t].of
  IN /\ f \notin Getters
     /\ call[t].at = Def(l, f)
     /\ l \in Chained
     /\ \/ /\ held[l][f] # Null
           /\ Goto(t, held[l][f])
           /\ UNCHANGED <<real, bound, held, straight>>
        \/ /\ held[l][f] = Null
           /\ \E next \in Libs : LaSymbind(l, f, next)
           /\ UNCHANGED <<bound, call>>

(* A library's GetProcAddress answers: with its own definition, with NULL, *)
(* or with what the linker gives it.                                       *)
Answer(t, l) ==
  LET f == call[t].arg
  IN /\ call[t].of \in Getters
     /\ call[t].at = Def(l, call[t].of)
     /\ \/ Goto(t, Back(Def(l, f))) /\ UNCHANGED <<real, straight>>
        \/ l \in Refusing /\ Goto(t, Back(Null)) /\ UNCHANGED <<real, straight>>
        \/ /\ l \in Asking
           /\ Goto(t, Back(Given(f, Def(l, f))))
           /\ real' = Stored(f, Def(l, f))
           /\ straight' = Told(f, Def(l, f))
     /\ UNCHANGED <<bound, held>>

ReturnFake_Plainly(t) ==
  \E p \in Pointers(call[t].arg) :
    /\ call[t].of \in Getters /\ call[t].at = Back(p)
    /\ call[t].passed > 0
    /\ straight' = Told(call[t].arg, p)
    /\ call' = [call EXCEPT ![t].passed = @ - 1]
    /\ UNCHANGED <<real, bound, held>>

(* fake_glXGetProcAddress() and its like hand the answer to apply_sub(). *)
ReturnFake(t) ==
  \E p \in Pointers(call[t].arg) :
    /\ call[t].of \in Getters /\ call[t].at = Back(p)
    /\ call[t].passed > 0
    /\ real' = Stored(call[t].arg, p)
    /\ straight' = Told(call[t].arg, p)
    /\ call' = [call EXCEPT ![t].at = Back(Given(call[t].arg, p)),
                            ![t].passed = @ - 1]
    /\ UNCHANGED <<bound, held>>

Return(t) ==
  \E p \in Pointers(call[t].arg) :
    /\ call[t].of \in Getters /\ call[t].at = Back(p)
    /\ call[t].passed = 0
    /\ held' = [held EXCEPT ![call[t].by][call[t].arg] = p]
    /\ call' = [call EXCEPT ![t] = Null]
    /\ UNCHANGED <<real, bound, straight>>

Inside(t) ==
  /\ Alive
  /\ call[t] # Null
  /\ \/ EnterFake(t) \/ CallReal(t) \/ Arrive(t)
     \/ ReturnFake(t) \/ Return(t)
     \/ \E l \in Libs : CallNext(t, l) \/ Answer(t, l)

Next ==
  \/ \E o \in Holders, f \in Functions, l \in Libs : Bind(o, f, l)
  \/ \E f \in Hooked : BindHook(f)
  \/ \E t \in Threads, o \in Apps :
       \/ \E f \in Hooked : Call(t, o, f, Null)
       \/ \E f \in Getters, arg \in Functions : Call(t, o, f, arg)
  \/ \E t \in Threads : Inside(t)

Spec == Init /\ [][Next]_vars

(* A thread that is in a call runs on. *)
FairSpec == Spec /\ \A t \in Threads : WF_vars(Inside(t))

-----------------------------------------------------------------------------
Places(f) == Pointers(f) \cup {Past(f)}

(* Where calls of each kind can be, and what is held. *)
TypeOK ==
  /\ \A f \in Functions : real[f] \in Pointers(f)
  /\ bound \subseteq Hooked
  /\ \A o \in Holders, f \in Functions : held[o][f] \in Pointers(f)
  /\ straight \in [Functions -> BOOLEAN]
  /\ \A t \in Threads : call[t] # Null =>
       /\ call[t].of \in Functions /\ call[t].by \in Apps
       /\ call[t].passed \in 0..Endless /\ call[t].due \in BOOLEAN
       /\ IF call[t].of \in Getters
          THEN /\ call[t].arg \in Functions
               /\ call[t].at \in Places(call[t].of)
                                \cup {Back(p) : p \in Pointers(call[t].arg)}
          ELSE call[t].arg = Null /\ call[t].at \in Places(call[t].of)

(* A call never jumps to NULL, passes the hook at most once and does not   *)
(* leave by an overlay, as long as all who were asked for the function     *)
(* have named a library's own: whoever asked, by whichever way, in         *)
(* whatever order with the calls of others.                                *)
CallsArrive ==
  \A t \in Threads : call[t] # Null =>
    LET f == call[t].of
    IN straight[f] =>
         /\ call[t].at # Null
         /\ call[t].passed <= 1
         /\ call[t].at \notin Defs(f) \ BaseDefs(f)

(* A call that arrives at a library's own function has passed the hook, if *)
(* the hook was set when the call began: no pointer that was handed out,   *)
(* by the linker or by a GetProcAddress, to an application or an overlay,  *)
(* leads past glgrab.                                                      *)
NothingEscapes ==
  TypeOK /\ \A t \in Threads : call[t] # Null =>
    LET f == call[t].of
    IN f \in Hooked /\ call[t].due /\ call[t].at \in BaseDefs(f)
         => call[t].passed >= 1

(* Calls return, also those that an overlay passes on to a fake again: if  *)
(* those asked for each function last have named a library's own, and no   *)
(* call has jumped to NULL.  Otherwise a fake may call itself for ever.    *)
Settled == \A f \in Functions : real[f] \in {Null} \cup BaseDefs(f)

CallsReturn ==
  []Alive /\ <>[]Settled => \A t \in Threads : []<>(call[t] = Null)

=============================================================================
