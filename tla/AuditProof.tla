----------------------------- MODULE AuditProof -----------------------------
(* Proofs about the rtld-audit helper: no call gets past a hook that was   *)
(* set when it began, and calls of a function arrive as long as those who  *)
(* were asked for it have named one of their own.                          *)
EXTENDS AuditInv, TLAPS

-----------------------------------------------------------------------------
(* Places of different kinds are different.                                *)

LEMMA Kinds ==
  \A l, k, f, g, p, q :
    /\ Def(l, f) = Def(k, g) => l = k /\ f = g
    /\ Fake(f) = Fake(g) => f = g
    /\ Past(f) = Past(g) => f = g
    /\ Back(p) = Back(q) => p = q
    /\ Def(l, f) \notin {Fake(g), Past(g), Back(p)}
    /\ Fake(f) \notin {Past(g), Back(p)}
    /\ Past(f) # Back(p)
  <1> TAKE l, k, f, g, p, q
  <1>1. /\ Def(l, f)[1] = "def" /\ Def(l, f)[2] = l /\ Def(l, f)[3] = f
        /\ Def(k, g)[2] = k /\ Def(k, g)[3] = g
    BY DEF Def
  <1>2. /\ Fake(f)[1] = "fake" /\ Fake(f)[2] = f
        /\ Fake(g)[1] = "fake" /\ Fake(g)[2] = g
    BY DEF Fake
  <1>3. /\ Past(f)[1] = "past" /\ Past(f)[2] = f
        /\ Past(g)[1] = "past" /\ Past(g)[2] = g
    BY DEF Past
  <1>4. /\ Back(p)[1] = "back" /\ Back(p)[2] = p /\ Back(q)[2] = q
    BY DEF Back
  <1> QED BY <1>1, <1>2, <1>3, <1>4

(* What TLC checks of Null on every run.                                   *)
LEMMA NullApart ==
  ASSUME NEW f \in Functions
  PROVE  /\ \A l \in Libs : Def(l, f) # Null
         /\ Fake(f) # Null /\ Past(f) # Null
         /\ \A p \in AnyPointer : Back(p) # Null
  BY AuditAssumption DEF Defs, AnyPointer

LEMMA Parts ==
  ASSUME NEW f \in Functions
  PROVE  /\ BaseDefs(f) \subseteq Defs(f)
         /\ Defs(f) \subseteq Pointers(f) /\ Fake(f) \in Pointers(f) /\ Null \in Pointers(f)
         /\ Pointers(f) \subseteq AnyPointer
         /\ Past(f) \in AnyPlace
         /\ \A p \in Pointers(f) : p \in AnyPlace /\ Back(p) \in AnyPlace
  BY DEF BaseDefs, Defs, Base, Pointers, AnyPointer, AnyPlace

(* Fake(f) and NULL are no definitions.                                    *)
LEMMA FakeIsNoDef ==
  ASSUME NEW f \in Functions, NEW g
  PROVE  /\ Fake(f) \notin Defs(g)
         /\ Null \notin Defs(f)
         /\ \A p \in AnyPointer : Back(p) \notin Places(f)
  BY Kinds, NullApart DEF Defs, Places, Pointers

-----------------------------------------------------------------------------
(* What every step does to pointers                                        *)

(* Hooks stay, and who was told of a function that calls no other one is   *)
(* told so of the pointer that is stored in place of it.                   *)
Grown ==
  /\ bound \subseteq bound'
  /\ \A f \in Functions :
       /\ straight'[f] => straight[f]
       /\ Asked(f) => Asked(f)'

LEMMA StoringGrows ==
  ASSUME Shapes, NEW f \in Functions, NEW p \in Pointers(f),
         real' = Stored(f, p), straight' = Told(f, p)
  PROVE  /\ real' \in [Functions -> AnyPointer]
         /\ \A g \in Functions : real'[g] \in Pointers(g)
         /\ straight' \in [Functions -> BOOLEAN]
         /\ Asked(f)'
         /\ \A g \in Functions : (straight'[g] => straight[g]) /\ (Asked(g) => Asked(g)')
  <1>1. p \in AnyPointer
    BY Parts
  <1>2. /\ real \in [Functions -> AnyPointer] /\ straight \in [Functions -> BOOLEAN]
        /\ \A g \in Functions : real[g] \in Pointers(g)
    BY DEF Shapes, TypeOK
  <1>3. real' = [real EXCEPT ![f] = p] /\ straight' = [straight EXCEPT ![f] = @ /\ p \in BaseDefs(f)]
    BY DEF Stored, Told
  <1>4. real'[f] = p /\ (straight'[f] <=> straight[f] /\ p \in BaseDefs(f))
    BY <1>2, <1>3
  <1>5. \A g \in Functions \ {f} : real'[g] = real[g] /\ straight'[g] = straight[g]
    BY <1>2, <1>3
  <1>6. real' \in [Functions -> AnyPointer] /\ straight' \in [Functions -> BOOLEAN]
    BY <1>1, <1>2, <1>3
  <1> QED BY <1>2, <1>4, <1>5, <1>6 DEF Asked

LEMMA QuietGrows ==
  ASSUME UNCHANGED <<real, straight>>, bound \subseteq bound'
  PROVE  Grown
  BY DEF Grown, Asked

(* A call that does not move keeps what it has behind it.                  *)
LEMMA Waits ==
  ASSUME Grown, NEW c \in Calls, c.of \in Getters => c.arg \in Functions,
         Asked(c.of), Passed(c), Straight(c)
  PROVE  Asked(c.of)' /\ Passed(c)' /\ Straight(c)'
  <1>1. c.of \in Functions /\ c.arg \in Functions \cup {Null}
    BY DEF Calls
  <1>3. Asked(c.of)' /\ Straight(c)'
    BY <1>1 DEF Grown, Straight
  <1>4. c.arg \in Functions /\ Asked(c.arg) => Asked(c.arg)'
    BY DEF Grown
  <1>5. c.due => c.of \in bound'
    BY DEF Grown, Passed
  <1>6. Passed(c)'
    BY <1>4, <1>5 DEF Passed, Backs
  <1> QED BY <1>3, <1>6

-----------------------------------------------------------------------------
(* What a step leaves of the invariant                                     *)

(* Where a call can be, as TypeOK says.                                    *)
Placed(c) ==
  IF c.of \in Getters THEN /\ c.arg \in Functions
                           /\ c.at \in Places(c.of) \cup Backs(c)
                      ELSE c.arg = Null /\ c.at \in Places(c.of)

Good(c) == Placed(c) /\ Asked(c.of) /\ Passed(c) /\ Straight(c)

LEMMA CallsGood ==
  ASSUME Shapes
  PROVE  /\ \A t \in Threads : call[t] # Null => call[t] \in Calls /\ Placed(call[t])
         /\ CallInv <=> \A t \in Threads : call[t] # Null => Good(call[t])
  <1>1. \A t \in Threads : call[t] # Null => call[t] \in Calls /\ Placed(call[t])
    BY DEF Shapes, TypeOK, Placed, Backs
  <1> QED BY <1>1 DEF CallInv, Good

(* The pointers a step leaves, as Shapes and HeldInv say.                  *)
PointersOK ==
  /\ real \in [Functions -> AnyPointer]
  /\ \A f \in Functions : real[f] \in Pointers(f)
  /\ straight \in [Functions -> BOOLEAN]
  /\ bound \subseteq Hooked

HeldOK ==
  /\ held \in [Holders -> [Functions -> AnyPointer]]
  /\ HeldInv

CallsOK ==
  /\ call \in [Threads -> Calls \cup {Null}]
  /\ \A t \in Threads : call[t] # Null => Good(call[t])

LEMMA ThreeParts == AuditInvariant <=> PointersOK /\ HeldOK /\ CallsOK
  <1>1. ASSUME AuditInvariant PROVE PointersOK /\ HeldOK /\ CallsOK
    BY <1>1, CallsGood DEF AuditInvariant, Shapes, TypeOK, PointersOK, HeldOK, CallsOK
  <1>2. ASSUME PointersOK, HeldOK, CallsOK PROVE AuditInvariant
    <2>1. \A o \in Holders, f \in Functions : held[o][f] \in Pointers(f)
      BY <1>2 DEF HeldOK, HeldInv, Pointers
    <2>2. \A t \in Threads : call[t] # Null =>
            /\ call[t].of \in Functions /\ call[t].by \in Apps
            /\ call[t].passed \in 0..Endless /\ call[t].due \in BOOLEAN
      BY <1>2 DEF CallsOK, Calls
    <2>3. \A t \in Threads : call[t] # Null => Placed(call[t])
      BY <1>2 DEF CallsOK, Good
    <2>4. Shapes
      BY <1>2, <2>1, <2>2, <2>3 DEF Shapes, TypeOK, PointersOK, HeldOK, CallsOK, Placed, Backs
    <2> QED BY <1>2, <2>4, CallsGood DEF AuditInvariant, HeldOK, CallsOK
  <1> QED BY <1>1, <1>2

LEMMA ThreePartsNext ==
  ASSUME PointersOK', HeldOK', CallsOK' PROVE AuditInvariant'
  BY ThreeParts, PTL

(* One thread's call goes on to c, which is Null if it is over.            *)
LEMMA CallMoves ==
  ASSUME CallsOK, Grown, NEW t \in Threads, NEW c \in Calls \cup {Null},
         call' = [call EXCEPT ![t] = c], c # Null => Good(c)'
  PROVE  CallsOK'
  <1>1. call' \in [Threads -> Calls \cup {Null}]
    BY DEF CallsOK
  <1>2. ASSUME NEW u \in Threads \ {t}, call'[u] # Null PROVE Good(call[u])'
    <2>1. PICK d \in Calls : d = call[u] /\ d = call'[u]
      BY <1>2 DEF CallsOK
    <2>2. Good(d)
      BY <1>2, <2>1 DEF CallsOK
    <2>3. Good(d)'
      BY <2>2, Waits DEF Good, Placed
    <2> QED BY <2>1, <2>3
  <1>3. call'[t] = c
    BY DEF CallsOK
  <1> QED BY <1>1, <1>2, <1>3 DEF CallsOK

LEMMA CallsWait ==
  ASSUME CallsOK, Grown, UNCHANGED call
  PROVE  CallsOK'
  <1>1. ASSUME NEW u \in Threads, call'[u] # Null PROVE Good(call[u])'
    <2>1. PICK d \in Calls : d = call[u] /\ d = call'[u]
      BY <1>1 DEF CallsOK
    <2>2. Good(d)
      BY <1>1, <2>1 DEF CallsOK
    <2>3. Good(d)'
      BY <2>2, Waits DEF Good, Placed
    <2> QED BY <2>1, <2>3
  <1> QED BY <1>1 DEF CallsOK

(* No pointer is given, or one to a fake of what has been asked for.       *)
LEMMA HeldStay ==
  ASSUME HeldOK, Grown, UNCHANGED held
  PROVE  HeldOK'
  BY DEF HeldOK, HeldInv, Grown

LEMMA HeldGiven ==
  ASSUME HeldOK, Grown, NEW o \in Holders, NEW f \in Functions, Asked(f)',
         held' = [held EXCEPT ![o][f] = Fake(f)]
  PROVE  HeldOK'
  <1>1. Fake(f) \in AnyPointer
    BY Parts
  <1> QED BY <1>1 DEF HeldOK, HeldInv, Grown

-----------------------------------------------------------------------------
(* The steps                                                               *)

LEMMA PointersStay ==
  ASSUME PointersOK, UNCHANGED <<real, straight>>, bound \subseteq bound', bound' \subseteq Hooked
  PROVE  PointersOK' /\ Grown
  BY QuietGrows DEF PointersOK

LEMMA PointersStored ==
  ASSUME AuditInvariant, UNCHANGED bound,
         NEW f \in Functions, NEW p \in Pointers(f), real' = Stored(f, p), straight' = Told(f, p)
  PROVE  PointersOK' /\ Grown /\ Asked(f)'
  BY StoringGrows DEF AuditInvariant, PointersOK, Grown, Shapes, TypeOK

LEMMA SymbindStep ==
  ASSUME AuditInvariant, UNCHANGED <<bound, call>>,
         NEW o \in Holders, NEW f \in Functions, NEW l \in Libs, LaSymbind(o, f, l)
  PROVE  AuditInvariant'
  <1>1. PICK p \in Pointers(f) : p = Def(l, f)
    BY Parts DEF Defs
  <1>2. /\ real' = Stored(f, p) /\ straight' = Told(f, p)
        /\ held' = [held EXCEPT ![o][f] = Fake(f)]
    BY <1>1 DEF LaSymbind, Given
  <1>3. PointersOK' /\ Grown /\ Asked(f)'
    BY <1>2, PointersStored
  <1>4. HeldOK'
    BY <1>2, <1>3, ThreeParts, HeldGiven
  <1>5. CallsOK'
    BY <1>3, ThreeParts, CallsWait
  <1> QED BY <1>3, <1>4, <1>5, ThreePartsNext

LEMMA BindHookStep ==
  ASSUME AuditInvariant, NEW f \in Hooked, BindHook(f)
  PROVE  AuditInvariant'
  <1>1. UNCHANGED <<real, straight, held, call>> /\ bound' = bound \cup {f}
    BY DEF BindHook
  <1>2. PointersOK' /\ Grown
    <2>1. PointersOK /\ bound' \subseteq Hooked
      BY <1>1, ThreeParts DEF PointersOK
    <2> QED BY <1>1, <2>1, PointersStay
  <1>3. HeldOK'
    BY <1>1, <1>2, ThreeParts, HeldStay
  <1>4. CallsOK'
    BY <1>1, <1>2, ThreeParts, CallsWait
  <1> QED BY <1>2, <1>3, <1>4, ThreePartsNext

(* A call moves and nothing else changes.                                  *)
LEMMA CallStep ==
  ASSUME AuditInvariant, UNCHANGED <<real, bound, held, straight>>,
         NEW t \in Threads, NEW c \in Calls \cup {Null}, c # Null => Good(c),
         call' = [call EXCEPT ![t] = c]
  PROVE  AuditInvariant'
  <1>1. PointersOK' /\ Grown
    <2>1. PointersOK /\ bound' \subseteq Hooked
      BY ThreeParts DEF PointersOK
    <2> QED BY <2>1, PointersStay
  <1>2. HeldOK'
    BY <1>1, ThreeParts, HeldStay
  <1>3. c # Null => Good(c)'
    BY DEF Good, Placed, Asked, Passed, Straight, Backs
  <1>4. CallsOK'
    BY <1>1, <1>3, ThreeParts, CallMoves
  <1> QED BY <1>1, <1>2, <1>4, ThreePartsNext

LEMMA CallBegins ==
  ASSUME AuditInvariant, NEW t \in Threads, NEW o \in Apps, NEW f \in Functions,
         NEW arg, Call(t, o, f, arg),
         \/ f \in Hooked /\ arg = Null
         \/ f \in Getters /\ arg \in Functions
  PROVE  AuditInvariant'
  <1>1. held[o][f] = Fake(f) /\ Asked(f)
    BY ThreeParts DEF Call, HeldOK, HeldInv, Holders
  <1>2. PICK c : c = [of |-> f, arg |-> arg, by |-> o, at |-> Fake(f),
                      passed |-> 0, due |-> f \in bound]
    OBVIOUS
  <1>3. /\ c.of = f /\ c.arg = arg /\ c.at = Fake(f) /\ c.passed = 0
        /\ c.due = (f \in bound) /\ c.by = o
    BY <1>2
  <1>4. c \in Calls
    BY <1>2, Parts DEF Calls, Endless
  <1>5. bound \subseteq Hooked /\ Hooked \cap Getters = {}
    BY ThreeParts, AuditAssumption DEF PointersOK
  <1>6. f \in Getters => Fake(f) \notin Backs(c)
    BY <1>3, Kinds DEF Backs
  <1>7. Good(c)
    <2>1. Fake(f) \in Places(f)
      BY DEF Places, Pointers
    <2>2. Placed(c)
      BY <1>3, <1>5, <2>1 DEF Placed
    <2>3. Passed(c)
      BY <1>3, <1>5, <1>6, <2>1 DEF Passed
    <2>4. Straight(c)
      BY <1>3, FakeIsNoDef, NullApart DEF Straight
    <2> QED BY <1>1, <1>3, <2>2, <2>3, <2>4 DEF Good
  <1>8. call' = [call EXCEPT ![t] = c]
    BY <1>1, <1>2 DEF Call
  <1> QED BY <1>4, <1>7, <1>8, CallStep DEF Call

(* Thread t's call moves to another place, and counts n fakes.             *)
GotoWith(t, at, n) == call' = [call EXCEPT ![t].at = at, ![t].passed = n]

LEMMA At ==
  ASSUME AuditInvariant, NEW t \in Threads, call[t] # Null,
         NEW at \in AnyPlace, NEW n \in 0..Endless, GotoWith(t, at, n)
  PROVE  \E c \in Calls :
           /\ call' = [call EXCEPT ![t] = c]
           /\ c.at = at /\ c.passed = n
           /\ c.of = call[t].of /\ c.arg = call[t].arg /\ c.due = call[t].due
           /\ c.by = call[t].by
  <1>1. PICK d \in Calls : call[t] = d
    BY ThreeParts DEF CallsOK
  <1>2. PICK c : c = [d EXCEPT !.at = at, !.passed = n]
    OBVIOUS
  <1>3. c \in Calls /\ c.at = at /\ c.passed = n
        /\ c.of = d.of /\ c.arg = d.arg /\ c.due = d.due /\ c.by = d.by
    BY <1>2 DEF Calls
  <1>4. call' = [call EXCEPT ![t] = c]
    BY <1>1, <1>2, ThreeParts DEF CallsOK, GotoWith
  <1> QED BY <1>1, <1>3, <1>4

LEMMA AtOnly ==
  ASSUME AuditInvariant, NEW t \in Threads, call[t] # Null, NEW at \in AnyPlace, Goto(t, at)
  PROVE  \E c \in Calls :
           /\ call' = [call EXCEPT ![t] = c]
           /\ c.at = at /\ c.passed = call[t].passed
           /\ c.of = call[t].of /\ c.arg = call[t].arg /\ c.due = call[t].due
           /\ c.by = call[t].by
  <1>1. PICK d \in Calls : call[t] = d
    BY ThreeParts DEF CallsOK
  <1>2. PICK c : c = [d EXCEPT !.at = at]
    OBVIOUS
  <1>3. c \in Calls /\ c.at = at /\ c.passed = d.passed
        /\ c.of = d.of /\ c.arg = d.arg /\ c.due = d.due /\ c.by = d.by
    BY <1>2 DEF Calls
  <1>4. call' = [call EXCEPT ![t] = c]
    BY <1>1, <1>2, ThreeParts DEF CallsOK, Goto
  <1> QED BY <1>1, <1>3, <1>4

(* What is known of a call that is under way.                              *)
LEMMA UnderWay ==
  ASSUME AuditInvariant, NEW t \in Threads, call[t] # Null
  PROVE  /\ call[t] \in Calls /\ Good(call[t])
         /\ call[t].of \in Functions /\ call[t].passed \in 0..Endless
         /\ call[t].arg \in Functions \cup {Null} /\ call[t].at \in AnyPlace
         /\ call[t].due \in BOOLEAN /\ call[t].by \in Apps
         /\ call[t].of \in Getters => call[t].arg \in Functions
         /\ call[t].of \notin Getters => call[t].of \in Hooked
  <1>1. call[t] \in Calls /\ Good(call[t])
    BY ThreeParts DEF CallsOK
  <1> QED BY <1>1 DEF Calls, Good, Placed, Functions

LEMMA EnterFakeStep ==
  ASSUME AuditInvariant, NEW t \in Threads, call[t] # Null, EnterFake(t)
  PROVE  AuditInvariant'
  <1>1. PICK f \in Functions : f = call[t].of
    BY UnderWay
  <1>2. PICK n : n = IF f \in Getters \cup bound /\ call[t].passed < Endless
                     THEN call[t].passed + 1 ELSE call[t].passed
    OBVIOUS
  <1>3. /\ call[t].at = Fake(f)
        /\ call' = [call EXCEPT ![t].at = Past(f), ![t].passed = n]
        /\ UNCHANGED <<real, bound, held, straight>>
    BY <1>1, <1>2 DEF EnterFake
  <1>4. /\ n \in 0..Endless
        /\ n <= call[t].passed + 1
        /\ f \in Getters \cup bound => n > 0
    BY <1>2, UnderWay DEF Endless
  <1>5. PICK c \in Calls :
           /\ call' = [call EXCEPT ![t] = c]
           /\ c.at = Past(f) /\ c.passed = n
           /\ c.of = f /\ c.arg = call[t].arg /\ c.due = call[t].due
           /\ c.by = call[t].by
    <2>1. PICK at \in AnyPlace : at = Past(f)
      BY Parts
    <2>2. GotoWith(t, at, n)
      BY <1>3, <2>1 DEF GotoWith
    <2>3. \E c \in Calls :
             /\ call' = [call EXCEPT ![t] = c]
             /\ c.at = at /\ c.passed = n
             /\ c.of = call[t].of /\ c.arg = call[t].arg /\ c.due = call[t].due
             /\ c.by = call[t].by
      BY <1>4, <2>2, At
    <2> QED BY <1>1, <2>1, <2>3
  <1>6. Placed(c)
    BY <1>1, <1>5, UnderWay DEF Good, Placed, Places
  <1>7. Asked(f)
    BY <1>1, UnderWay DEF Good
  <1>8. Passed(c)
    <2>1. c.due => f \in bound
      BY <1>1, <1>5, UnderWay DEF Good, Passed
    <2>2. f \in Getters => Past(f) \notin Backs(c)
      BY Kinds DEF Backs
    <2> QED BY <1>4, <1>5, <2>1, <2>2 DEF Passed
  <1>9. Straight(c)
    <2>1. straight[f] => call[t].passed = 0
      BY <1>1, <1>3, UnderWay DEF Good, Straight
    <2>2. Past(f) # Null /\ Past(f) # Fake(f) /\ Past(f) \notin Defs(f)
      BY NullApart, Kinds DEF Defs
    <2> QED BY <1>4, <1>5, <2>1, <2>2 DEF Straight
  <1> QED BY <1>3, <1>5, <1>6, <1>7, <1>8, <1>9, CallStep DEF Good

LEMMA CallRealStep ==
  ASSUME AuditInvariant, NEW t \in Threads, call[t] # Null, CallReal(t)
  PROVE  AuditInvariant'
  <1>1. PICK f \in Functions : f = call[t].of
    BY UnderWay
  <1>2. PICK p \in Pointers(f) : p = real[f]
    BY ThreeParts DEF PointersOK
  <1>3. call[t].at = Past(f) /\ Goto(t, p) /\ UNCHANGED <<real, bound, held, straight>>
    BY <1>1, <1>2 DEF CallReal
  <1>4. PICK c \in Calls :
           /\ call' = [call EXCEPT ![t] = c]
           /\ c.at = p /\ c.passed = call[t].passed
           /\ c.of = f /\ c.arg = call[t].arg /\ c.due = call[t].due
           /\ c.by = call[t].by
    BY <1>1, <1>3, AtOnly, Parts
  <1>5. Placed(c)
    BY <1>1, <1>4, UnderWay DEF Good, Placed, Places
  <1>6. Asked(f)
    BY <1>1, UnderWay DEF Good
  <1>7. Passed(c)
    <2>1. Past(f) # Fake(f) /\ Past(f) # Back(Fake(call[t].arg))
      BY Kinds
    <2>2. (f \in Getters \/ c.due => c.passed > 0) /\ (c.due => f \in bound)
      BY <1>1, <1>3, <1>4, <2>1, UnderWay DEF Good, Passed
    <2>3. f \in Getters => p \notin Backs(c)
      <3>1. ASSUME f \in Getters PROVE \A q \in Pointers(c.arg) : p # Back(q)
        BY <1>4, <3>1, UnderWay, Parts, FakeIsNoDef, <1>1 DEF Places
      <3> QED BY <3>1 DEF Backs
    <2> QED BY <1>4, <2>2, <2>3 DEF Passed
  <1>8. Straight(c)
    <2>1. straight[f] => p \in BaseDefs(f) /\ call[t].passed <= 1
      BY <1>1, <1>2, <1>6, UnderWay DEF Good, Straight, Asked
    <2>2. \A q \in BaseDefs(f) : q # Null /\ q # Fake(f)
      BY FakeIsNoDef, Parts
    <2> QED BY <1>4, <2>1, <2>2 DEF Straight
  <1> QED BY <1>3, <1>4, <1>5, <1>6, <1>7, <1>8, CallStep DEF Good

LEMMA CallEnds ==
  ASSUME AuditInvariant, NEW t \in Threads, call' = [call EXCEPT ![t] = Null],
         UNCHANGED <<real, bound, held, straight>>
  PROVE  AuditInvariant'
  BY CallStep

LEMMA CallNextStep ==
  ASSUME AuditInvariant, NEW t \in Threads, call[t] # Null, NEW l \in Libs, CallNext(t, l)
  PROVE  AuditInvariant'
  <1>1. PICK f \in Functions : f = call[t].of
    BY UnderWay
  <1>2. f \notin Getters /\ f \in Hooked /\ call[t].at = Def(l, f) /\ l \in Chained /\ l \in Holders
    BY <1>1, UnderWay DEF CallNext, Holders
  <1>3. CASE /\ held[l][f] # Null /\ Goto(t, held[l][f])
             /\ UNCHANGED <<real, bound, held, straight>>
    <2>1. PICK p \in AnyPlace : p = Fake(f)
      BY Parts
    <2>2. Goto(t, p)
      BY <1>2, <1>3, <2>1, ThreeParts DEF HeldOK, HeldInv
    <2>3. PICK c \in Calls :
             /\ call' = [call EXCEPT ![t] = c]
             /\ c.at = p /\ c.passed = call[t].passed
             /\ c.of = f /\ c.arg = call[t].arg /\ c.due = call[t].due
             /\ c.by = call[t].by
      BY <1>1, <2>2, AtOnly
    <2>4. Placed(c)
      BY <1>1, <1>2, <2>1, <2>3, UnderWay, Parts DEF Good, Placed, Places
    <2>5. Asked(f) /\ Passed(c)
      BY <1>1, <1>2, <2>1, <2>3, UnderWay DEF Good, Passed
    <2>6. ~straight[f]
      <3>1. Def(l, f) \in Defs(f)
        BY DEF Defs
      <3>2. Def(l, f) \notin BaseDefs(f)
        BY <1>2, Kinds DEF BaseDefs, Base
      <3> QED BY <1>1, <1>2, <3>1, <3>2, UnderWay DEF Good, Straight
    <2> QED BY <1>3, <2>3, <2>4, <2>5, <2>6, CallStep DEF Good, Straight
  <1>4. CASE /\ \E next \in Libs : LaSymbind(l, f, next)
             /\ UNCHANGED <<bound, call>>
    BY <1>2, <1>4, SymbindStep
  <1> QED BY <1>1, <1>3, <1>4 DEF CallNext

(* A GetProcAddress, of a library or a fake, has an answer p.  What is     *)
(* stored along with it is what PointersStored is about.                   *)
LEMMA BackStep ==
  ASSUME AuditInvariant, PointersOK', Grown, UNCHANGED held,
         NEW t \in Threads, call[t] # Null, call[t].of \in Getters,
         call[t].at # Fake(call[t].of),
         NEW arg \in Functions, arg = call[t].arg, NEW p \in Pointers(arg), NEW n \in 0..Endless, n <= call[t].passed,
         n = 0 => p = Fake(arg) /\ Asked(arg)',
         GotoWith(t, Back(p), n)
  PROVE  AuditInvariant'
  <1>1. PICK f \in Getters : f = call[t].of
    OBVIOUS
  <1>2. PICK at \in AnyPlace : at = Back(p)
    BY <1>1, Parts
  <1>3. PICK c \in Calls :
           /\ call' = [call EXCEPT ![t] = c]
           /\ c.at = Back(p) /\ c.passed = n
           /\ c.of = f /\ c.arg = arg /\ c.due = call[t].due
           /\ c.by = call[t].by
    <2>1. GotoWith(t, at, n)
      BY <1>2
    <2>2. \E c \in Calls :
             /\ call' = [call EXCEPT ![t] = c]
             /\ c.at = at /\ c.passed = n
             /\ c.of = call[t].of /\ c.arg = call[t].arg /\ c.due = call[t].due
             /\ c.by = call[t].by
      BY <2>1, At
    <2> QED BY <1>1, <1>2, <2>2
  <1>4. f \in Functions /\ Asked(f) /\ Asked(f)'
    BY <1>1, UnderWay DEF Good, Functions, Grown
  <1>5. Placed(c)
    BY <1>1, <1>3 DEF Placed, Backs
  <1>6. Back(p) \in Backs(c) /\ Back(p) # Null /\ Back(p) # Fake(f) /\ Back(p) \notin Defs(f)
    BY <1>1, <1>3, <1>4, FakeIsNoDef, NullApart, Parts DEF Backs, Places
  <1>7. c.due => f \in bound'
    BY <1>1, <1>3, UnderWay DEF Good, Passed, Grown
  <1>8. Passed(c)'
    BY <1>1, <1>3, <1>6, <1>7 DEF Passed, Endless
  <1>9. Straight(c)'
    <2>1. straight'[f] => call[t].passed <= 1
      BY <1>1, <1>4, UnderWay DEF Good, Straight, Grown
    <2> QED BY <1>3, <1>6, <2>1, UnderWay DEF Straight, Endless
  <1>10. Good(c)'
    BY <1>3, <1>4, <1>5, <1>8, <1>9 DEF Good, Placed, Backs
  <1>11. CallsOK' /\ HeldOK'
    BY <1>3, <1>10, ThreeParts, CallMoves, HeldStay
  <1> QED BY <1>11, ThreePartsNext

LEMMA AnswerStep ==
  ASSUME AuditInvariant, NEW t \in Threads, call[t] # Null, NEW l \in Libs, Answer(t, l)
  PROVE  AuditInvariant'
  <1>1. PICK f \in Getters, arg \in Functions, n \in 0..Endless :
          f = call[t].of /\ arg = call[t].arg /\ n = call[t].passed
    BY UnderWay DEF Answer
  <1>2. call[t].at = Def(l, f) /\ UNCHANGED <<bound, held>>
    BY <1>1 DEF Answer
  <1>3. call[t].at # Fake(call[t].of)
    BY <1>1, <1>2, Kinds
  <1>4. n > 0
    BY <1>1, <1>2, Kinds, UnderWay DEF Good, Passed, Endless
  <1>5. \A p : Goto(t, Back(p)) => GotoWith(t, Back(p), n)
    BY <1>1, ThreeParts DEF Goto, GotoWith, CallsOK, Calls
  <1>6. ASSUME NEW p \in Pointers(arg), Goto(t, Back(p)), PointersOK', Grown
        PROVE  AuditInvariant'
    BY <1>1, <1>2, <1>3, <1>4, <1>5, <1>6, BackStep
  <1>7. PICK d \in Pointers(arg) : d = Def(l, arg)
    BY Parts DEF Defs
  <1>8. CASE UNCHANGED <<real, straight>>
    <2>1. PointersOK' /\ Grown
      <3>1. PointersOK /\ bound' \subseteq Hooked
        BY <1>2, ThreeParts DEF PointersOK
      <3> QED BY <1>2, <1>8, <3>1, PointersStay
    <2>2. Goto(t, Back(d)) \/ Goto(t, Back(Null)) \/ Goto(t, Back(Fake(arg)))
      BY <1>1, <1>7 DEF Answer, Given
    <2> QED BY <1>6, <2>1, <2>2, Parts
  <1>9. CASE Goto(t, Back(Given(arg, d))) /\ real' = Stored(arg, d) /\ straight' = Told(arg, d)
    <2>1. PointersOK' /\ Grown
      BY <1>2, <1>9, PointersStored
    <2> QED BY <1>6, <1>9, <2>1, Parts DEF Given
  <1> QED BY <1>1, <1>7, <1>8, <1>9 DEF Answer

LEMMA ReturnFakeStep ==
  ASSUME AuditInvariant, NEW t \in Threads, call[t] # Null, ReturnFake(t)
  PROVE  AuditInvariant'
  <1>1. PICK p \in Pointers(call[t].arg) :
          /\ call[t].at = Back(p)
          /\ call[t].passed > 0
          /\ real' = Stored(call[t].arg, p)
          /\ straight' = Told(call[t].arg, p)
          /\ GotoWith(t, Back(Given(call[t].arg, p)), call[t].passed - 1)
          /\ UNCHANGED <<bound, held>>
    BY ThreeParts DEF ReturnFake, GotoWith, CallsOK, Calls
  <1>2. call[t].of \in Getters
    BY DEF ReturnFake
  <1>3. PICK arg \in Functions, n \in 0..Endless :
          arg = call[t].arg /\ n = call[t].passed - 1
    BY <1>1, <1>2, UnderWay DEF Endless
  <1>4. call[t].at # Fake(call[t].of)
    BY <1>1, Kinds
  <1>5. PointersOK' /\ Grown /\ Asked(arg)'
    BY <1>1, <1>3, PointersStored
  <1>6. PICK q \in Pointers(arg) : q = Fake(arg)
    BY Parts
  <1>7. GotoWith(t, Back(q), n)
    BY <1>1, <1>3, <1>6 DEF Given
  <1>8. n <= call[t].passed
    BY <1>3, UnderWay DEF Endless
  <1> QED BY <1>1, <1>2, <1>3, <1>4, <1>5, <1>6, <1>7, <1>8, BackStep

LEMMA ReturnStep ==
  ASSUME AuditInvariant, NEW t \in Threads, call[t] # Null, Return(t)
  PROVE  AuditInvariant'
  <1>1. call[t].of \in Getters
    BY DEF Return
  <1>2. PICK arg \in Functions, o \in Holders : arg = call[t].arg /\ o = call[t].by
    BY <1>1, UnderWay DEF Holders
  <1>3. PICK p \in Pointers(arg) :
          /\ call[t].at = Back(p)
          /\ call[t].passed = 0
          /\ held' = [held EXCEPT ![o][arg] = p]
          /\ call' = [call EXCEPT ![t] = Null]
          /\ UNCHANGED <<real, bound, straight>>
    BY <1>2 DEF Return
  <1>4. p = Fake(arg) /\ Asked(arg)
    <2>1. call[t].at \in Backs(call[t])
      BY <1>2, <1>3 DEF Backs
    <2>2. Back(p) = Back(Fake(arg)) /\ Asked(arg)
      BY <1>1, <1>2, <1>3, <2>1, UnderWay DEF Good, Passed
    <2> QED BY <2>2, Kinds
  <1>5. PointersOK' /\ Grown
    <2>1. PointersOK /\ bound' \subseteq Hooked
      BY <1>3, ThreeParts DEF PointersOK
    <2> QED BY <1>3, <2>1, PointersStay
  <1>6. HeldOK'
    BY <1>3, <1>4, <1>5, ThreeParts, HeldGiven DEF Grown
  <1>7. CallsOK'
    BY <1>3, <1>5, ThreeParts, CallMoves
  <1> QED BY <1>5, <1>6, <1>7, ThreePartsNext

-----------------------------------------------------------------------------

LEMMA AuditInit == Init => AuditInvariant
  <1> SUFFICES ASSUME Init PROVE AuditInvariant
    OBVIOUS
  <1>1. PointersOK
    BY Parts DEF Init, PointersOK
  <1>2. HeldOK
    BY <1>1 DEF Init, HeldOK, HeldInv, AnyPointer, Pointers
  <1>3. CallsOK
    BY DEF Init, CallsOK
  <1> QED BY <1>1, <1>2, <1>3, ThreeParts

LEMMA AuditNext == AuditInvariant /\ [Next]_vars => AuditInvariant'
  <1> SUFFICES ASSUME AuditInvariant, [Next]_vars PROVE AuditInvariant'
    OBVIOUS
  <1>1. ASSUME NEW o \in Holders, NEW f \in Functions, NEW l \in Libs, Bind(o, f, l)
        PROVE  AuditInvariant'
    BY <1>1, SymbindStep DEF Bind
  <1>2. ASSUME NEW f \in Hooked, BindHook(f) PROVE AuditInvariant'
    BY <1>2, BindHookStep
  <1>3. ASSUME NEW t \in Threads, NEW o \in Apps,
               \/ \E f \in Hooked : Call(t, o, f, Null)
               \/ \E f \in Getters, arg \in Functions : Call(t, o, f, arg)
        PROVE  AuditInvariant'
    BY <1>3, CallBegins DEF Functions
  <1>4. ASSUME NEW t \in Threads, Inside(t) PROVE AuditInvariant'
    <2>1. call[t] # Null
      BY <1>4 DEF Inside
    <2>2. ASSUME Arrive(t) PROVE AuditInvariant'
      BY <2>2, CallEnds DEF Arrive
    <2> QED BY <1>4, <2>1, <2>2, EnterFakeStep, CallRealStep, ReturnFakeStep, ReturnStep,
               CallNextStep, AnswerStep DEF Inside
  <1>5. CASE UNCHANGED vars
    <2>1. PointersOK' /\ Grown
      <3>1. PointersOK /\ bound' \subseteq Hooked
        BY <1>5, ThreeParts DEF PointersOK, vars
      <3> QED BY <1>5, <3>1, PointersStay DEF vars
    <2>2. HeldOK' /\ CallsOK'
      BY <1>5, <2>1, ThreeParts, HeldStay, CallsWait DEF vars
    <2> QED BY <2>1, <2>2, ThreePartsNext
  <1> QED BY <1>1, <1>2, <1>3, <1>4, <1>5 DEF Next

LEMMA AuditAlways == Spec => []AuditInvariant
  BY AuditInit, AuditNext, PTL DEF Spec

(* Only fakes are handed out, so that a call that arrives at a library's   *)
(* own function has passed the hook, if that was set when the call began,  *)
(* whichever objects, functions and ways of asking there are.              *)
THEOREM HooksNotPassedBy == Spec => []NothingEscapes
  <1>1. ASSUME AuditInvariant PROVE NothingEscapes
    <2>1. TypeOK
      BY <1>1 DEF AuditInvariant, Shapes
    <2>2. ASSUME NEW t \in Threads, call[t] # Null, call[t].of \in Hooked, call[t].due,
                 call[t].at \in BaseDefs(call[t].of)
          PROVE  call[t].passed >= 1
      <3>1. call[t].at # Fake(call[t].of) /\ call[t].at # Back(Fake(call[t].arg))
        BY <2>2, Kinds DEF BaseDefs, Defs
      <3>2. call[t].passed > 0 /\ call[t].passed \in 0..Endless
        BY <1>1, <2>2, <3>1, UnderWay DEF Good, Passed
      <3> QED BY <3>2 DEF Endless
    <2> QED BY <2>1, <2>2 DEF NothingEscapes
  <1> QED BY <1>1, AuditAlways, PTL

(* A call jumps to no NULL pointer, is in the fake once and does not leave *)
(* by an overlay's function, as long as all who have been asked for the    *)
(* function have named one that calls no other.                            *)
THEOREM StraightCallsArrive == Spec => []CallsArrive
  <1>1. ASSUME AuditInvariant PROVE CallsArrive
    BY <1>1, UnderWay DEF Good, Straight, CallsArrive
  <1> QED BY <1>1, AuditAlways, PTL

=============================================================================
