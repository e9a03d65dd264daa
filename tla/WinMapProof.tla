---------------------------- MODULE WinMapProof -----------------------------
(* The window map of glx.c for any number of threads, drawables and blocks *)
(* of memory.                                                              *)
EXTENDS WinMapInv, WellFoundedInduction, FiniteSetTheorems, SequenceTheorems,
        TLAPS

(* A set of natural numbers that is not empty has a smallest element.      *)
LEMMA NatMin ==
  ASSUME NEW T, T \subseteq Nat, T # {}
  PROVE  \E x \in T : \A y \in T : x <= y
  <1> DEFINE R == OpToRel(<, Nat)
  <1>1. IsWellFoundedOn(R, Nat)
    BY NatLessThanWellFounded
  <1>2. \A x, y \in Nat : <<x, y>> \in R <=> x < y
    BY DEF OpToRel
  <1> HIDE DEF R
  <1>3. PICK x \in T : \A y \in T : ~(<<y, x>> \in R)
    BY <1>1, WFMin
  <1>4. ASSUME NEW y \in T PROVE x <= y
    <2>1. x \in Nat /\ y \in Nat
      OBVIOUS
    <2>2. ~(y < x)
      BY <1>2, <1>3, <2>1
    <2> QED BY <2>1, <2>2
  <1> QED BY <1>4

-----------------------------------------------------------------------------
(* The list                                                                *)

(* find_x11() stops at an entry of the drawable, or there is none.         *)
LEMMA PlaceFound ==
  ASSUME Shapes, NEW d
  PROVE  /\ Place(d) = 0 => \A i \in DOMAIN winmap :
                              ~(heap[winmap[i]] # None /\ heap[winmap[i]].glx = d)
         /\ Place(d) # 0 => /\ Place(d) \in DOMAIN winmap
                            /\ heap[winmap[Place(d)]] # None
                            /\ heap[winmap[Place(d)]].glx = d
  <1> DEFINE I == {i \in 1..Len(winmap) :
                     heap[winmap[i]] # None /\ heap[winmap[i]].glx = d}
  <1>1. winmap \in Seq(Blocks) /\ DOMAIN winmap = 1..Len(winmap)
    BY DEF Shapes, TypeOK
  <1>2. Place(d) = IF I # {} THEN Min(I) ELSE 0
    BY DEF Place, SelectInSeq
  <1>3. I \subseteq Nat /\ 0 \notin I
    BY <1>1
  <1>4. \A i \in I : i \in DOMAIN winmap /\ heap[winmap[i]] # None
                     /\ heap[winmap[i]].glx = d
    BY <1>1
  <1>5. I = {} => \A i \in DOMAIN winmap :
                    ~(heap[winmap[i]] # None /\ heap[winmap[i]].glx = d)
    BY <1>1
  <1> HIDE DEF I
  <1>6. CASE I = {}
    BY <1>2, <1>5, <1>6
  <1>7. CASE I # {}
    <2>1. \E x \in I : \A y \in I : x <= y
      BY <1>3, <1>7, NatMin
    <2>2. Min(I) \in I
      BY <2>1 DEF Min
    <2> QED BY <1>2, <1>3, <1>4, <1>7, <2>2
  <1> QED BY <1>6, <1>7

LEMMA Found ==
  ASSUME Shapes, NEW d
  PROVE  /\ FindX11(d) \in Listed \cup {None}
         /\ FindX11(d) # None => heap[FindX11(d)] # None /\ heap[FindX11(d)].glx = d
         /\ FindX11(d) = None =>
              \A b \in Listed : ~(heap[b] # None /\ heap[b].glx = d)
         /\ FindX11(d) = None <=> Place(d) = 0
         /\ Place(d) # 0 =>
              Place(d) \in DOMAIN winmap /\ FindX11(d) = winmap[Place(d)]
  <1>1. \A i \in DOMAIN winmap : winmap[i] \in Blocks /\ winmap[i] # None
    BY WinMapAssumption DEF Shapes, TypeOK
  <1> QED BY <1>1, PlaceFound DEF FindX11, Listed, ToSet

LEMMA InToSet ==
  ASSUME NEW s \in Seq(Blocks), NEW x
  PROVE  x \in ToSet(s) <=> \E i \in 1..Len(s) : s[i] = x
  <1>1. DOMAIN s = 1..Len(s)
    OBVIOUS
  <1> QED BY <1>1 DEF ToSet

LEMMA Removed ==
  ASSUME NEW s \in Seq(Blocks), IsInjective(s), NEW i \in DOMAIN s
  PROVE  /\ RemoveAt(s, i) \in Seq(Blocks)
         /\ IsInjective(RemoveAt(s, i))
         /\ ToSet(RemoveAt(s, i)) = ToSet(s) \ {s[i]}
  <1> DEFINE At == [j \in Nat |-> IF j < i THEN j ELSE j+1]
             r == RemoveAt(s, i)
  <1>0. PICK n \in Nat : n = Len(s)
    OBVIOUS
  <1>1. i \in 1..n /\ DOMAIN s = 1..n
    BY <1>0
  <1>2. PICK p \in Seq(Blocks) : /\ p = SubSeq(s, 1, i-1)
                                 /\ Len(p) = i-1
                                 /\ \A j \in 1..(i-1) : p[j] = s[j]
    <2>1. \A j \in 1..(i-1) : s[j] \in Blocks
      BY <1>1
    <2>2. 1 \in Int /\ i-1 \in Int
      BY <1>1
    <2>3. /\ SubSeq(s, 1, i-1) \in Seq(Blocks)
          /\ Len(SubSeq(s, 1, i-1)) = IF 1 <= i-1 THEN i-1-1+1 ELSE 0
          /\ \A j \in 1..(i-1-1+1) : SubSeq(s, 1, i-1)[j] = s[1+j-1]
      BY <1>0, <2>1, <2>2, SubSeqProperties
    <2>4. i-1-1+1 = i-1 /\ \A j \in 1..(i-1) : 1+j-1 = j
      BY <1>1
    <2>5. Len(SubSeq(s, 1, i-1)) = i-1
      BY <1>1, <1>0, <2>3
    <2> QED BY <2>3, <2>4, <2>5
  <1>3. PICK q \in Seq(Blocks) : /\ q = SubSeq(s, i+1, n)
                                 /\ Len(q) = n - i
                                 /\ \A j \in 1..(n-i) : q[j] = s[i+j]
    <2>1. \A j \in (i+1)..n : s[j] \in Blocks
      BY <1>1
    <2>2. i+1 \in Int /\ n \in Int
      BY <1>1
    <2>3. /\ SubSeq(s, i+1, n) \in Seq(Blocks)
          /\ Len(SubSeq(s, i+1, n)) =
               IF i+1 <= n THEN n-(i+1)+1 ELSE 0
          /\ \A j \in 1..(n-(i+1)+1) : SubSeq(s, i+1, n)[j] = s[(i+1)+j-1]
      BY <1>0, <2>1, <2>2, SubSeqProperties
    <2>4. n-(i+1)+1 = n-i /\ \A j \in 1..(n-i) : (i+1)+j-1 = i+j
      BY <1>1
    <2>5. Len(SubSeq(s, i+1, n)) = n - i
      BY <1>1, <1>0, <2>3
    <2>6. ASSUME NEW j \in 1..(n-i) PROVE SubSeq(s, i+1, n)[j] = s[i+j]
      <3>1. j \in 1..(n-(i+1)+1) /\ (i+1)+j-1 = i+j
        BY <2>4
      <3> QED BY <2>3, <3>1
    <2> QED BY <2>3, <2>5, <2>6
  <1> HIDE DEF At
  <1>12. \A j \in 1..(n-1) : At[j] = IF j < i THEN j ELSE j+1
    BY DEF At
  <1>4. /\ r \in Seq(Blocks)
        /\ Len(r) = n - 1
        /\ \A j \in 1..(n-1) : r[j] = s[At[j]]
    <2>1. r = p \o q
      BY <1>0, <1>2, <1>3 DEF RemoveAt
    <2>2. /\ p \o q \in Seq(Blocks)
          /\ Len(p \o q) = Len(p) + Len(q)
          /\ \A j \in 1..(Len(p) + Len(q)) :
               (p \o q)[j] = IF j <= Len(p) THEN p[j] ELSE q[j - Len(p)]
      BY ConcatProperties
    <2>3. Len(p) + Len(q) = n - 1
      BY <1>1, <1>2, <1>3
    <2>4. ASSUME NEW j \in 1..(n-1) PROVE r[j] = s[At[j]]
      <3>1. CASE j < i
        <4>1. j <= Len(p) /\ j \in 1..(i-1) /\ At[j] = j
          BY <1>1, <1>2, <1>12, <3>1
        <4> QED BY <1>2, <2>1, <2>2, <2>3, <3>1, <4>1
      <3>2. CASE ~(j < i)
        <4>1. /\ j - (i-1) \in 1..(n-i) /\ i + (j - (i-1)) = j+1
              /\ ~(j <= i-1)
          BY <1>1, <3>2
        <4>2. r[j] = q[j - (i-1)]
          BY <1>2, <2>1, <2>2, <2>3, <4>1
        <4>3. At[j] = j+1
          BY <1>12, <3>2
        <4> QED BY <1>3, <3>2, <4>1, <4>2, <4>3
      <3> QED BY <3>1, <3>2
    <2> QED BY <2>1, <2>2, <2>3, <2>4
  <1>5. DOMAIN r = 1..(n-1)
    BY <1>4
  <1> HIDE DEF r
  <1>6. \A x, y \in 1..n : s[x] = s[y] => x = y
    BY <1>1 DEF IsInjective
  <1>7. \A j \in 1..(n-1) : At[j] \in 1..n /\ At[j] # i
    BY <1>1, <1>12
  <1>8. \A a, b \in 1..(n-1) : At[a] = At[b] => a = b
    BY <1>1, <1>12
  <1>9. ASSUME NEW k \in 1..n, k # i PROVE \E j \in 1..(n-1) : At[j] = k
    <2>1. CASE k < i
      <3>1. k \in 1..(n-1) /\ At[k] = k
        BY <1>1, <1>12, <2>1
      <3> QED BY <3>1
    <2>2. CASE k > i
      <3>1. k-1 \in 1..(n-1) /\ At[k-1] = k
        BY <1>1, <1>12, <2>2
      <3> QED BY <3>1
    <2> QED BY <1>1, <1>9, <2>1, <2>2
  <1>10. IsInjective(r)
    <2> SUFFICES ASSUME NEW a \in 1..(n-1), NEW b \in 1..(n-1), r[a] = r[b]
                 PROVE  a = b
      BY <1>5 DEF IsInjective
    <2>1. s[At[a]] = s[At[b]]
      BY <1>4
    <2>2. At[a] = At[b]
      BY <1>6, <1>7, <2>1
    <2> QED BY <1>8, <2>2
  <1>11. ASSUME NEW x PROVE x \in ToSet(r) <=> x \in ToSet(s) \ {s[i]}
    <2>1. x \in ToSet(r) <=> \E j \in 1..(n-1) : s[At[j]] = x
      <3>1. x \in ToSet(r) <=> \E j \in 1..(n-1) : r[j] = x
        BY <1>4, InToSet
      <3> QED BY <1>4, <3>1
    <2>2. x \in ToSet(s) <=> \E k \in 1..n : s[k] = x
      BY <1>0, InToSet
    <2>3. ASSUME x \in ToSet(r) PROVE x \in ToSet(s) \ {s[i]}
      BY <1>1, <1>6, <1>7, <2>1, <2>2, <2>3
    <2>4. ASSUME x \in ToSet(s) \ {s[i]} PROVE x \in ToSet(r)
      <3>1. PICK k \in 1..n : s[k] = x /\ k # i
        BY <2>2, <2>4
      <3> QED BY <1>9, <2>1, <3>1
    <2> QED BY <2>3, <2>4
  <1> QED BY <1>0, <1>4, <1>10, <1>11 DEF r

LEMMA Prepended ==
  ASSUME NEW s \in Seq(Blocks), IsInjective(s), NEW b \in Blocks \ ToSet(s)
  PROVE  /\ <<b>> \o s \in Seq(Blocks)
         /\ IsInjective(<<b>> \o s)
         /\ ToSet(<<b>> \o s) = ToSet(s) \cup {b}
  <1> DEFINE r == <<b>> \o s
  <1>1. Len(s) \in Nat /\ DOMAIN s = 1..Len(s)
    OBVIOUS
  <1>2. /\ r \in Seq(Blocks)
        /\ Len(r) = Len(s) + 1
        /\ r[1] = b
        /\ \A j \in 1..Len(s) : r[j+1] = s[j]
    <2>1. <<b>> \in Seq(Blocks) /\ Len(<<b>>) = 1 /\ <<b>>[1] = b
      OBVIOUS
    <2>2. /\ r \in Seq(Blocks)
          /\ Len(r) = Len(<<b>>) + Len(s)
          /\ \A j \in 1..(Len(<<b>>) + Len(s)) :
               r[j] = IF j <= Len(<<b>>) THEN <<b>>[j] ELSE s[j - Len(<<b>>)]
      BY <2>1, ConcatProperties
    <2>3. ASSUME NEW j \in 1..Len(s) PROVE r[j+1] = s[j]
      <3>1. j+1 \in 1..(1 + Len(s)) /\ ~(j+1 <= 1) /\ (j+1) - 1 = j
        BY <1>1
      <3> QED BY <2>1, <2>2, <3>1
    <2>4. r[1] = b
      BY <1>1, <2>1, <2>2
    <2>5. Len(r) = Len(s) + 1
      BY <1>1, <2>1, <2>2
    <2> QED BY <2>2, <2>3, <2>4, <2>5
  <1>3. DOMAIN r = 1..(Len(s)+1)
    BY <1>2
  <1> HIDE DEF r
  <1>4. ASSUME NEW j \in 1..(Len(s)+1), j # 1
        PROVE  \E k \in 1..Len(s) : j = k+1 /\ r[j] = s[k]
    <2>1. j-1 \in 1..Len(s) /\ j = (j-1)+1
      BY <1>1, <1>4
    <2> QED BY <1>2, <2>1
  <1>5. \A k \in 1..Len(s) : s[k] # b
    BY InToSet
  <1>6. \A x, y \in 1..Len(s) : s[x] = s[y] => x = y
    BY <1>1 DEF IsInjective
  <1>7. IsInjective(r)
    <2> SUFFICES ASSUME NEW x \in 1..(Len(s)+1), NEW y \in 1..(Len(s)+1), r[x] = r[y]
                 PROVE  x = y
      BY <1>3 DEF IsInjective
    <2> QED BY <1>2, <1>4, <1>5, <1>6
  <1>8. ASSUME NEW x PROVE x \in ToSet(r) <=> x \in ToSet(s) \cup {b}
    <2>1. x \in ToSet(r) <=> \E j \in 1..(Len(s)+1) : r[j] = x
      BY <1>2, InToSet
    <2>2. x \in ToSet(s) <=> \E k \in 1..Len(s) : s[k] = x
      BY InToSet
    <2>3. 1 \in 1..(Len(s)+1) /\ \A k \in 1..Len(s) : k+1 \in 1..(Len(s)+1)
      BY <1>1
    <2> QED BY <1>2, <1>4, <2>1, <2>2, <2>3
  <1> QED BY <1>2, <1>7, <1>8 DEF r

-----------------------------------------------------------------------------
(* Whatever the application does                                           *)

LEMMA Moved ==
  ASSUME Shapes, NEW t \in Threads, NEW from, NEW to, Step(t, from, to)
  PROVE  /\ pc[t] = from
         /\ pc'[t] = to
         /\ \A u \in Threads \ {t} : pc'[u] = pc[u]
         /\ to \in Places => pc' \in [Threads -> Places]
  BY DEF Shapes, Step

(* Most of the rest are booleans.                                          *)
Flags == {lock, failed, blamed} \subseteq BOOLEAN /\ mishap \in Mishaps

(* The shapes, variable by variable.                                       *)
Types ==
  /\ Flags
  /\ winmap \in Seq(Blocks)
  /\ heap \in [Blocks -> {None} \cup Entries]
  /\ handler \in {"app", "grab"}
  /\ pc \in [Threads -> Places]
  /\ drawable \in [Threads -> Drawables \cup {None}]
  /\ window \in [Threads -> Drawables \cup {None}]
  /\ m \in [Threads -> Blocks \cup {None}]
  /\ orig \in [Threads -> {"app", "grab"}]
  /\ live \subseteq Drawables /\ known \subseteq Drawables
  /\ pending \subseteq Clumsy

Idle == \A t \in Threads : pc[t] = "app" <=> drawable[t] = None

LEMMA ShapesParts ==
  /\ Shapes <=> Types /\ Idle
  /\ Shapes' <=> Types' /\ Idle'
  BY DEF Shapes, TypeOK, Types, Flags, Idle

LEMMA IdleKept ==
  ASSUME Shapes, NEW t \in Threads, NEW from, NEW to, Step(t, from, to),
         \A u \in Threads \ {t} : drawable'[u] = drawable[u],
         \/ drawable'[t] = drawable[t] /\ from # "app" /\ to # "app"
         \/ drawable'[t] # None /\ to # "app"
         \/ drawable'[t] = None /\ to = "app"
  PROVE  Idle'
  BY Moved, ShapesParts DEF Idle

(* Only who moves the list or the heap changes what is owned.              *)
LEMMA OwnerKept ==
  ASSUME Shapes, OwnerInv, NEW t \in Threads, NEW from, NEW to, Step(t, from, to),
         from \notin {"insert", "link", "free"}, to \notin {"insert", "link", "free"},
         UNCHANGED <<winmap, heap>>,
         \A u \in Threads \ {t} : m'[u] = m[u] /\ drawable'[u] = drawable[u],
         to = "deref" => m'[t] \in Listed /\ heap[m'[t]].glx = drawable'[t]
  PROVE  OwnerInv'
  <1>1. \A u \in Threads : Has(u)' <=> Has(u)
    BY Moved DEF Has
  <1>2. \A u \in Threads : Has(u) => u # t /\ m'[u] = m[u] /\ drawable'[u] = drawable[u]
    BY Moved DEF Has
  <1>3. Listed' = Listed
    BY DEF Listed
  <1>4. \A u \in Threads : pc'[u] \in {"insert", "link"} => u # t /\ pc'[u] = pc[u]
    BY Moved
  <1>5. \A u \in Threads : pc'[u] = "deref" =>
          m'[u] \in Listed /\ heap[m'[u]].glx = drawable'[u]
    BY Moved DEF OwnerInv
  <1> QED BY <1>1, <1>2, <1>3, <1>4, <1>5 DEF OwnerInv

(* Nobody measures before the errors of the thread have arrived.           *)
LEMMA AnsweredKept ==
  ASSUME Shapes, AnsweredInv, NEW t \in Threads, NEW from, NEW to, Step(t, from, to),
         pending' \subseteq pending \cup {t},
         \/ to \notin {"set", "ask", "restore", "judge"}
         \/ from \in {"set", "ask", "restore", "judge"} /\ pending' \subseteq pending
         \/ t \notin pending'
  PROVE  AnsweredInv'
  <1> SUFFICES ASSUME NEW u \in pending'
               PROVE  pc'[u] \notin {"set", "ask", "restore", "judge"}
    BY DEF AnsweredInv
  <1>1. u \in Threads
    BY WinMapAssumption DEF Shapes, TypeOK
  <1>2. CASE u = t
    BY <1>2, Moved DEF AnsweredInv
  <1>3. CASE u # t
    BY <1>1, <1>3, Moved DEF AnsweredInv
  <1> QED BY <1>2, <1>3

(* The spin lock: outside of it nothing changes, whoever takes it is       *)
(* alone, and whoever leaves it was.                                       *)
LEMMA LockKept ==
  ASSUME Shapes, LockInv, NEW t \in Threads, NEW from, NEW to, Step(t, from, to),
         \/ from \notin Inside /\ to \notin Inside /\ lock' = lock
         \/ from \in Inside /\ to \in Inside /\ lock' = lock
         \/ ~lock /\ lock'
         \/ from \in Inside /\ to \notin Inside
  PROVE  LockInv'
  BY Moved DEF LockInv

LEMMA KnownKept ==
  ASSUME Shapes, KnownInv, UNCHANGED <<heap, live, known>>,
         NEW t \in Threads, \A u \in Threads \ {t} : drawable'[u] = drawable[u],
         drawable'[t] \in {drawable[t], None} \cup live \cup known,
         \A b \in Listed' : b \in Listed \/ heap[b].glx \in live \cup known
  PROVE  KnownInv'
  BY DEF KnownInv

-----------------------------------------------------------------------------

LEMMA MapInit == Init => MapInv
  <1> SUFFICES ASSUME Init PROVE MapInv
    OBVIOUS
  <1>1. \A t \in Threads : pc[t] = "app" /\ drawable[t] = None
    BY DEF Init
  <1>2. Listed = {}
    BY DEF Init, Listed, ToSet
  <1>3. Shapes
    <2>1. Types
      <3>1. <<>> \in Seq(Blocks)
        OBVIOUS
      <3>2. "app" \in Places
        BY DEF Places
      <3>3. live \subseteq Drawables /\ known \subseteq Drawables
        BY DEF Init, Drawables
      <3> QED BY <3>1, <3>2, <3>3 DEF Init, Types, Flags, Mishaps
    <2> QED BY <1>1, <2>1, ShapesParts DEF Idle
  <1>4. LockInv
    BY <1>1 DEF LockInv, Inside
  <1>5. IsInjective(winmap)
    BY DEF Init, IsInjective
  <1>6. OwnerInv
    BY <1>1, <1>2, <1>5 DEF Init, OwnerInv, Has
  <1>7. KnownInv
    BY <1>1, <1>2 DEF KnownInv
  <1>8. AnsweredInv
    BY DEF Init, AnsweredInv
  <1> QED BY <1>3, <1>4, <1>6, <1>7, <1>8 DEF MapInv

(* Steps that touch neither the list nor the heap nor the lock: those of   *)
(* the measurement, and the end of the hook.                               *)
LEMMA MapOutside ==
  ASSUME MapInv, NEW t \in Threads,
         \/ Measure(t) \/ XSync(t) \/ SetHandler(t) \/ Ask(t) \/ RestoreHandler(t)
         \/ Judge(t)
  PROVE  MapInv'
  <1> USE DEF MapInv
  <1> DEFINE Froms == {"measure", "sync", "set", "ask", "restore", "judge"}
  <1>1. Types
    BY ShapesParts
  <1>2. ASSUME NEW from \in Froms, NEW to \in (Froms \cup {"leave", "malloc"}),
               Step(t, from, to),
               UNCHANGED <<shared, drawable, m, live, known, pending>>,
               from \in {"measure", "sync"} => to = "leave" \/ t \notin pending
        PROVE  LockInv' /\ OwnerInv' /\ KnownInv' /\ AnsweredInv' /\ Idle'
    <2>1. LockInv'
      BY <1>2, LockKept DEF Inside, shared
    <2>2. OwnerInv'
      BY <1>2, OwnerKept DEF shared
    <2>3. KnownInv'
      BY <1>2, KnownKept DEF shared, Listed
    <2>4. Idle'
      BY <1>2, IdleKept DEF shared
    <2>5. AnsweredInv'
      BY <1>2, AnsweredKept
    <2> QED BY <2>1, <2>2, <2>3, <2>4, <2>5
  <1> USE DEF Step, shared, xlib, server, locals, history, Places
  <1>9. Innocent \in BOOLEAN
    BY DEF Innocent
  <1>3. CASE Measure(t)
    <2>0. failed' \in BOOLEAN /\ blamed' \in BOOLEAN
      BY <1>1, <1>3, <1>9 DEF Measure, GetWindowSize, Types, Flags
    <2>1. Types'
      BY <1>1, <1>3, <2>0 DEF Measure, Types, Flags
    <2> QED BY <1>2, <1>3, <2>1, ShapesParts DEF Measure
  <1>8. CASE XSync(t)
    <2>1. Types'
      BY <1>1, <1>8 DEF XSync, Types, Flags
    <2> QED BY <1>2, <1>8, <2>1, ShapesParts DEF XSync, Answered
  <1>4. CASE SetHandler(t)
    <2>1. Types'
      BY <1>1, <1>4 DEF SetHandler, AfterOverlap, Types, Flags, Mishaps
    <2> QED BY <1>2, <1>4, <2>1, ShapesParts DEF SetHandler
  <1>5. CASE Ask(t)
    <2>0. failed' \in BOOLEAN /\ blamed' \in BOOLEAN
      BY <1>1, <1>5, <1>9 DEF Ask, GetWindowSize, Types, Flags
    <2>1. Types'
      BY <1>1, <1>5, <2>0 DEF Ask, Types, Flags
    <2> QED BY <1>2, <1>5, <2>1, ShapesParts DEF Ask
  <1>6. CASE RestoreHandler(t)
    <2>1. Types'
      BY <1>1, <1>6 DEF RestoreHandler, Types, Flags
    <2> QED BY <1>2, <1>6, <2>1, ShapesParts DEF RestoreHandler
  <1>7. CASE Judge(t)
    <2>1. Types'
      BY <1>1, <1>7 DEF Judge, Types, Flags
    <2> QED BY <1>2, <1>7, <2>1, ShapesParts DEF Judge
  <1> QED BY <1>3, <1>4, <1>5, <1>6, <1>7, <1>8

(* An error arrives, which changes nothing of the map.                     *)
LEMMA MapErrors ==
  ASSUME MapInv, NEW t \in Threads, Arrive(t) \/ AppError(t)
  PROVE  /\ MapInv'
         /\ UNCHANGED <<shared, handler, pc, locals, live, known, blamed>>
  <1> USE DEF MapInv, shared, locals
  <1>1. UNCHANGED <<shared, handler, pc, locals, live, known, blamed>>
    <2>1. CASE Arrive(t)
      BY <2>1 DEF Arrive
    <2>2. CASE AppError(t)
      BY <2>2 DEF AppError, Step, server, Shapes
    <2> QED BY <2>1, <2>2
  <1>2. pending' \subseteq pending
    BY DEF Arrive, AppError, server
  <1>3. failed' \in BOOLEAN /\ mishap' \in Mishaps
    BY ShapesParts DEF Arrive, AppError, Deliver, Types, Flags, Mishaps
  <1>4. Types' /\ Idle'
    BY <1>1, <1>2, <1>3, ShapesParts DEF Types, Flags, Idle
  <1>5. LockInv' /\ OwnerInv' /\ KnownInv' /\ AnsweredInv'
    BY <1>1, <1>2 DEF LockInv, OwnerInv, Has, Listed, KnownInv, AnsweredInv
  <1> QED BY <1>1, <1>4, <1>5, ShapesParts

(* What the application is about is there, or has been.                    *)
LEMMA MapCalls ==
  ASSUME MapInv, NEW t \in Threads, AppNext(t)
  PROVE  MapInv'
  <1> USE DEF MapInv, shared, xlib, history, server, Places
  <1>1. Types
    BY ShapesParts
  <1>2. ASSUME NEW d \in Drawables, NEW to \in {"swap", "malloc", "forget"},
               Step(t, "app", to), drawable' = [drawable EXCEPT ![t] = d],
               d \in live' \cup known, live \subseteq live' \cup known,
               UNCHANGED <<lock, winmap, heap, m, known>>,
               pending' \subseteq pending \cup {t}
        PROVE  LockInv' /\ OwnerInv' /\ KnownInv' /\ AnsweredInv' /\ Idle'
    <2>1. drawable'[t] = d /\ d # None
          /\ \A u \in Threads \ {t} : drawable'[u] = drawable[u]
      BY <1>1, <1>2, WinMapAssumption DEF Types
    <2>2. LockInv'
      BY <1>2, LockKept DEF Inside
    <2>3. OwnerInv'
      BY <1>2, <2>1, OwnerKept
    <2>4. KnownInv'
      BY <1>2, <2>1 DEF KnownInv, Listed
    <2>5. Idle'
      BY <1>2, <2>1, IdleKept
    <2>6. AnsweredInv'
      BY <1>2, AnsweredKept
    <2> QED BY <2>2, <2>3, <2>4, <2>5, <2>6
  <1>3. ASSUME NEW d \in Drawables, Swap(t, d) PROVE MapInv'
    <2>1. Types'
      BY <1>1, <1>3 DEF Swap, Step, Types, Flags, Mishaps
    <2> QED BY <1>2, <1>3, <2>1, ShapesParts DEF Swap, Usable
  <1>4. ASSUME NEW d \in Drawables, Destroy(t, d) PROVE MapInv'
    <2>1. Types'
      BY <1>1, <1>4 DEF Destroy, Step, Types, Flags, Mishaps
    <2> QED BY <1>2, <1>4, <2>1, ShapesParts DEF Destroy
  <1>5. ASSUME NEW g \in GlxWindows, CreateWindow(t, g) PROVE MapInv'
    <2>1. g \in Drawables /\ Parent[g] \in Drawables
      BY WinMapAssumption DEF Drawables
    <2>2. Types'
      BY <1>1, <1>5, <2>1 DEF CreateWindow, Step, Types, Flags
    <2> QED BY <1>2, <1>5, <2>1, <2>2, ShapesParts DEF CreateWindow
  <1> QED BY <1>3, <1>4, <1>5, MapErrors DEF AppNext

LEMMA MapLock ==
  ASSUME MapInv, NEW t \in Threads, Lock(t)
  PROVE  MapInv'
  <1> USE DEF MapInv, xlib, history, server, locals
  <1>1. Types
    BY ShapesParts
  <1>2. pc[t] \in {"swap", "insert", "forget"}
    BY DEF Lock, AfterLock
  <1>3. PICK to \in {"find", "link", "seek"} :
          Step(t, pc[t], to) /\ (to = "link" <=> pc[t] = "insert")
    <2>1. AfterLock[pc[t]] \in {"find", "link", "seek"}
          /\ (AfterLock[pc[t]] = "link" <=> pc[t] = "insert")
      BY <1>2 DEF AfterLock
    <2>2. Step(t, pc[t], AfterLock[pc[t]])
      BY DEF Lock, Step
    <2> QED BY <2>1, <2>2
  <1>4. Types'
    BY <1>1, <1>3 DEF Lock, Step, Types, Flags, Places
  <1>5. Idle'
    BY <1>2, <1>3, IdleKept DEF Lock
  <1>6. LockInv'
    BY <1>3, LockKept DEF Lock
  <1>7. OwnerInv'
    <2>1. CASE to # "link"
      BY <1>2, <1>3, <2>1, OwnerKept DEF Lock
    <2>2. CASE to = "link"
      <3>1. pc[t] = "insert" /\ pc'[t] = "link"
            /\ \A u \in Threads \ {t} : pc'[u] = pc[u]
        BY <1>3, <2>2, Moved
      <3>2. UNCHANGED <<winmap, heap, m, drawable>>
        BY DEF Lock
      <3>3. \A u \in Threads : Has(u)' <=> Has(u)
        BY <3>1, <3>2 DEF Has
      <3>4. \A u \in Threads : pc'[u] \in {"insert", "link"} => pc[u] \in {"insert", "link"}
        BY <3>1
      <3>5. \A u \in Threads : pc'[u] = "deref" => pc[u] = "deref"
        BY <3>1
      <3> QED BY <3>2, <3>3, <3>4, <3>5 DEF OwnerInv, Listed
    <2> QED BY <2>1, <2>2
  <1>8. KnownInv'
    BY KnownKept DEF Lock, Listed
  <1>9. AnsweredInv'
    BY <1>3, AnsweredKept DEF Lock
  <1> QED BY <1>4, <1>5, <1>6, <1>7, <1>8, <1>9, ShapesParts

(* What is found is read before the lock is given back.                    *)
LEMMA MapFind ==
  ASSUME MapInv, NEW t \in Threads, Find(t) \/ Deref(t) \/ Leave(t)
  PROVE  MapInv'
  <1> USE DEF MapInv, xlib, history, server, shared
  <1>1. Types
    BY ShapesParts
  <1>2. ASSUME UNCHANGED <<winmap, heap, live>>, known \subseteq known',
               \A u \in Threads \ {t} : drawable'[u] = drawable[u],
               drawable'[t] \in {drawable[t], None}
        PROVE  KnownInv'
    BY <1>2 DEF KnownInv, Listed
  <1>3. CASE Find(t)
    <2> DEFINE b == FindX11(drawable[t])
    <2>1. b \in Blocks \cup {None}
      BY <1>1, Found, InToSet DEF Types, Listed, ToSet
    <2>2. m'[t] = b /\ \A u \in Threads \ {t} : m'[u] = m[u]
      BY <1>1, <1>3 DEF Find, Types
    <2>3. UNCHANGED <<winmap, heap, drawable, live, known>>
      BY <1>3 DEF Find
    <2>4. PICK to \in {"sync", "deref"} :
            /\ Step(t, "find", to)
            /\ to = "sync" => ~lock'
            /\ to = "deref" => b # None /\ lock' = lock
      BY <1>3 DEF Find
    <2>5. Types'
      BY <1>1, <1>3, <2>1 DEF Find, Step, Types, Flags, Places
    <2>6. Idle'
      BY <2>3, <2>4, IdleKept
    <2>7. LockInv'
      BY <2>4, LockKept DEF Inside
    <2>8. OwnerInv'
      BY <2>2, <2>3, <2>4, Found, OwnerKept
    <2>9. AnsweredInv'
      BY <1>3, <2>4, AnsweredKept DEF Find
    <2> QED BY <1>2, <2>3, <2>5, <2>6, <2>7, <2>8, <2>9, ShapesParts
  <1>4. CASE Deref(t)
    <2>1. Step(t, "deref", "measure") /\ UNCHANGED <<winmap, heap, drawable, live, known>>
      BY <1>4 DEF Deref
    <2>2. m[t] \in Blocks /\ heap[m[t]] # None
      <3>1. m[t] \in Listed /\ heap[m[t]] # None
        BY <2>1, Moved DEF OwnerInv
      <3> QED BY <1>1, <3>1, InToSet DEF Types, Listed, ToSet
    <2>3. heap[m[t]].x11 \in Drawables \cup {None}
      BY <1>1, <2>2 DEF Types, Entries
    <2>4. Types'
      BY <1>1, <1>4, <2>3 DEF Deref, Step, Types, Flags, Places
    <2>5. Idle'
      BY <2>1, IdleKept
    <2>6. LockInv'
      BY <2>1, LockKept DEF Inside
    <2>7. \A u \in Threads \ {t} : m'[u] = m[u]
      BY <1>1, <1>4 DEF Deref, Types
    <2>8. OwnerInv'
      BY <2>1, <2>7, OwnerKept
    <2>9. AnsweredInv'
      BY <1>4, <2>1, AnsweredKept DEF Deref
    <2> QED BY <1>2, <2>1, <2>4, <2>5, <2>6, <2>8, <2>9, ShapesParts
  <1>5. CASE Leave(t)
    <2>1. Step(t, "leave", "app") /\ UNCHANGED <<lock, winmap, heap, m, live>>
      BY <1>5 DEF Leave
    <2>2. drawable'[t] = None /\ \A u \in Threads \ {t} : drawable'[u] = drawable[u]
      BY <1>1, <1>5 DEF Leave, Types
    <2>3. drawable[t] \in Drawables
      BY <1>1, <2>1, Moved, ShapesParts DEF Idle, Types
    <2>4. Types'
      BY <1>1, <1>5, <2>3 DEF Leave, Step, Types, Flags, Places
    <2>5. Idle'
      BY <2>1, <2>2, IdleKept
    <2>6. LockInv'
      BY <2>1, LockKept DEF Inside
    <2>7. OwnerInv'
      BY <2>1, <2>2, OwnerKept
    <2>8. known \subseteq known'
      BY <1>5 DEF Leave
    <2>9. AnsweredInv'
      BY <1>5, <2>1, AnsweredKept DEF Leave
    <2> QED BY <1>2, <2>1, <2>2, <2>4, <2>5, <2>6, <2>7, <2>8, <2>9, ShapesParts
  <1> QED BY <1>3, <1>4, <1>5


(* A block that malloc() returns is nobody's.                              *)
LEMMA MapMalloc ==
  ASSUME MapInv, NEW t \in Threads, Malloc(t)
  PROVE  MapInv'
  <1> USE DEF MapInv, xlib, history, server
  <1>1. Types
    BY ShapesParts
  <1>2. PICK to \in {"insert", "leave"} : Step(t, "malloc", to)
    BY DEF Malloc
  <1>3. UNCHANGED <<lock, winmap, drawable, live, known>>
    BY DEF Malloc
  <1>4. pc[t] = "malloc" /\ drawable[t] \in Drawables /\ window[t] \in Drawables \cup {None}
    BY <1>1, <1>2, Moved, ShapesParts DEF Idle, Types
  <1>5. Idle' /\ LockInv' /\ AnsweredInv'
    BY <1>2, <1>3, IdleKept, LockKept, AnsweredKept DEF Inside, Malloc
  <1>6. CASE to = "leave"
    <2>1. UNCHANGED <<m, heap>>
      BY <1>1, <1>2, <1>6 DEF Malloc, Step, Types
    <2>2. Types'
      BY <1>1, <1>2, <1>3, <2>1 DEF Malloc, Step, Types, Flags, Places
    <2>3. OwnerInv'
      BY <1>2, <1>3, <1>6, <2>1, OwnerKept
    <2>4. KnownInv'
      BY <1>3, <2>1, KnownKept DEF Listed
    <2> QED BY <1>5, <2>2, <2>3, <2>4, ShapesParts
  <1>7. CASE to = "insert"
    <2>1. PICK b \in Blocks : /\ heap[b] = None
                              /\ m' = [m EXCEPT ![t] = b]
                              /\ heap' = [heap EXCEPT ![b] = [x11 |-> window[t],
                                                              glx |-> drawable[t]]]
      <3>1. /\ \E b \in Blocks : heap[b] = None
            /\ m' = [m EXCEPT ![t] = CHOOSE b \in Blocks : heap[b] = None]
            /\ heap' = [heap EXCEPT ![m'[t]] = [x11 |-> window[t], glx |-> drawable[t]]]
        BY <1>1, <1>2, <1>4, <1>7 DEF Malloc, Step, Types
      <3> DEFINE b == CHOOSE b \in Blocks : heap[b] = None
      <3>2. b \in Blocks /\ heap[b] = None
        BY <3>1
      <3> HIDE DEF b
      <3>3. m'[t] = b
        BY <1>1, <3>1 DEF Types, b
      <3> QED BY <3>1, <3>2, <3>3 DEF b
    <2>2. /\ pc'[t] = "insert"
          /\ \A u \in Threads \ {t} : pc'[u] = pc[u] /\ m'[u] = m[u]
          /\ m'[t] = b /\ b # None
      BY <1>1, <1>2, <1>7, <2>1, Moved, WinMapAssumption DEF Types
    <2>3. /\ heap'[b] # None /\ heap'[b].glx = drawable[t]
          /\ \A c \in Blocks \ {b} : heap'[c] = heap[c]
      <3>1. [x11 |-> window[t], glx |-> drawable[t]] \in Entries
        BY <1>4 DEF Entries
      <3> QED BY <1>1, <2>1, <3>1, WinMapAssumption DEF Types
    <2>4. Types'
      <3>1. [x11 |-> window[t], glx |-> drawable[t]] \in Entries
        BY <1>4 DEF Entries
      <3> QED BY <1>1, <1>2, <1>3, <2>1, <3>1 DEF Malloc, Step, Types, Flags, Places
    <2>5. Listed' = Listed /\ b \notin Listed /\ Listed \subseteq Blocks
      BY <1>1, <1>3, <2>1, InToSet DEF Listed, ToSet, OwnerInv, Types
    <2>6. OwnerInv'
      <3>1. \A u \in Threads \ {t} : Has(u)' <=> Has(u)
        BY <2>2 DEF Has
      <3>2. Has(t)'
        BY <2>2 DEF Has
      <3>3. \A u \in Threads \ {t} : Has(u) => m[u] # b /\ m[u] \in Blocks
        BY <1>1, <2>1 DEF OwnerInv, Has, Types
      <3>4. IsInjective(winmap)'
        BY <1>3 DEF OwnerInv
      <3>5. \A c \in Listed' : heap'[c] # None
        BY <2>3, <2>5 DEF OwnerInv
      <3>6. \A u \in Threads : pc'[u] \in {"insert", "link"} => m'[u] # None
        BY <2>2 DEF OwnerInv
      <3>7. \A u \in Threads : Has(u)' =>
              m'[u] \notin Listed' /\ heap'[m'[u]] # None /\ heap'[m'[u]].glx = drawable'[u]
        BY <1>3, <2>2, <2>3, <2>5, <3>1, <3>3 DEF OwnerInv
      <3>8. \A u, v \in Threads : Has(u)' /\ Has(v)' /\ m'[u] = m'[v] => u = v
        BY <2>2, <3>1, <3>3 DEF OwnerInv
      <3>9. \A c \in Blocks \ Listed' : heap'[c] # None =>
              \E u \in Threads : Has(u)' /\ m'[u] = c
        <4> SUFFICES ASSUME NEW c \in Blocks \ Listed', heap'[c] # None
                     PROVE  \E u \in Threads : Has(u)' /\ m'[u] = c
          OBVIOUS
        <4>1. CASE c = b
          BY <2>2, <3>2, <4>1
        <4>2. CASE c # b
          <5>1. PICK u \in Threads : Has(u) /\ m[u] = c
            BY <2>3, <2>5, <4>2 DEF OwnerInv
          <5>2. u # t
            BY <1>4, <5>1 DEF Has
          <5> QED BY <2>2, <3>1, <5>1, <5>2
        <4> QED BY <4>1, <4>2
      <3>10. \A u \in Threads : pc'[u] = "deref" =>
               m'[u] \in Listed' /\ heap'[m'[u]].glx = drawable'[u]
        BY <1>3, <2>2, <2>3, <2>5 DEF OwnerInv
      <3> QED BY <3>4, <3>5, <3>6, <3>7, <3>8, <3>9, <3>10 DEF OwnerInv
    <2>7. KnownInv'
      BY <1>3, <2>3, <2>5 DEF KnownInv
    <2> QED BY <1>5, <2>4, <2>6, <2>7, ShapesParts
  <1> QED BY <1>6, <1>7

(* LIST_INSERT_HEAD(): from the hands of a thread into the list.           *)
LEMMA MapLink ==
  ASSUME MapInv, NEW t \in Threads, Link(t)
  PROVE  MapInv'
  <1> USE DEF MapInv, xlib, history, server
  <1>1. Types
    BY ShapesParts
  <1>2. Step(t, "link", "leave") /\ UNCHANGED <<heap, drawable, live, known>>
    BY DEF Link
  <1>3. /\ pc[t] = "link" /\ pc'[t] = "leave" /\ m'[t] = None
        /\ \A u \in Threads \ {t} : pc'[u] = pc[u] /\ m'[u] = m[u]
    BY <1>1, <1>2, Moved DEF Link, Types
  <1>4. Has(t) /\ m[t] \in Blocks \ Listed /\ heap[m[t]] # None
        /\ heap[m[t]].glx = drawable[t]
    BY <1>1, <1>3 DEF OwnerInv, Has, Types
  <1>5. winmap' \in Seq(Blocks) /\ IsInjective(winmap') /\ Listed' = Listed \cup {m[t]}
    BY <1>1, <1>4, Prepended DEF Link, Types, OwnerInv, Listed
  <1>6. Idle' /\ LockInv' /\ AnsweredInv'
    BY <1>2, IdleKept, LockKept, AnsweredKept DEF Inside, Link
  <1>7. Types'
    BY <1>1, <1>2, <1>5 DEF Link, Step, Types, Flags, Places
  <1>8. \A u \in Threads : Has(u)' <=> Has(u) /\ u # t
    BY <1>3 DEF Has
  <1>9. OwnerInv'
    <2>1. \A c \in Listed' : heap'[c] # None
      BY <1>2, <1>4, <1>5 DEF OwnerInv
    <2>2. \A u \in Threads : pc'[u] \in {"insert", "link"} => m'[u] # None
      BY <1>3 DEF OwnerInv
    <2>3. \A u \in Threads : Has(u)' =>
            m'[u] \notin Listed' /\ heap'[m'[u]] # None /\ heap'[m'[u]].glx = drawable'[u]
      BY <1>2, <1>3, <1>4, <1>5, <1>8 DEF OwnerInv
    <2>4. \A u, v \in Threads : Has(u)' /\ Has(v)' /\ m'[u] = m'[v] => u = v
      BY <1>3, <1>8 DEF OwnerInv
    <2>5. \A c \in Blocks \ Listed' : heap'[c] # None =>
            \E u \in Threads : Has(u)' /\ m'[u] = c
      <3> SUFFICES ASSUME NEW c \in Blocks \ Listed', heap'[c] # None
                   PROVE  \E u \in Threads : Has(u)' /\ m'[u] = c
        OBVIOUS
      <3>1. PICK u \in Threads : Has(u) /\ m[u] = c
        BY <1>2, <1>5 DEF OwnerInv
      <3>2. u # t
        BY <1>5, <3>1
      <3> QED BY <1>3, <1>8, <3>1, <3>2
    <2>6. \A u \in Threads : pc'[u] = "deref" =>
            m'[u] \in Listed' /\ heap'[m'[u]].glx = drawable'[u]
      BY <1>2, <1>3, <1>5 DEF OwnerInv
    <2> QED BY <1>5, <2>1, <2>2, <2>3, <2>4, <2>5, <2>6 DEF OwnerInv
  <1>10. KnownInv'
    <2>1. drawable[t] # None
      BY <1>1, <1>3, ShapesParts DEF Idle
    <2> QED BY <1>2, <1>4, <1>5, <2>1 DEF KnownInv
  <1> QED BY <1>6, <1>7, <1>9, <1>10, ShapesParts

(* LIST_REMOVE(): from the list into the hands of a thread.                *)
LEMMA MapSeek ==
  ASSUME MapInv, NEW t \in Threads, Seek(t)
  PROVE  /\ MapInv'
         /\ Listed' = Listed \ {FindX11(drawable[t])}
  <1> DEFINE b == FindX11(drawable[t])
  <1> USE DEF MapInv, xlib, history, server
  <1>1. Types
    BY ShapesParts
  <1>2. Step(t, "seek", "free") /\ UNCHANGED <<heap, drawable, live, known>>
    BY DEF Seek
  <1>3. b \in Listed \cup {None} /\ Listed \subseteq Blocks /\ b \in Blocks \cup {None}
        /\ None \notin Listed
    BY <1>1, Found, InToSet, WinMapAssumption DEF Types, Listed, ToSet
  <1>4. b # None => heap[b] # None /\ heap[b].glx = drawable[t]
    BY Found
  <1>5. winmap' \in Seq(Blocks) /\ IsInjective(winmap') /\ Listed' = Listed \ {b}
    <2>1. CASE b = None
      <3>1. winmap' = winmap
        BY <2>1, Found DEF Seek
      <3> QED BY <1>1, <1>3, <2>1, <3>1 DEF Listed, OwnerInv, Types
    <2>2. CASE b # None
      <3>1. /\ Place(drawable[t]) \in DOMAIN winmap
            /\ b = winmap[Place(drawable[t])]
            /\ winmap' = RemoveAt(winmap, Place(drawable[t]))
        BY <2>2, Found DEF Seek
      <3> QED BY <1>1, <3>1, Removed DEF Listed, OwnerInv, Types
    <2> QED BY <2>1, <2>2
  <1>6. m' = [m EXCEPT ![t] = b]
    BY DEF Seek
  <1> HIDE DEF b
  <1>7. /\ pc[t] = "seek" /\ pc'[t] = "free" /\ m'[t] = b
        /\ \A u \in Threads \ {t} : pc'[u] = pc[u] /\ m'[u] = m[u]
    BY <1>1, <1>2, <1>6, Moved DEF Types
  <1>8. Idle' /\ LockInv' /\ AnsweredInv'
    BY <1>2, IdleKept, LockKept, AnsweredKept DEF Inside, Seek
  <1>9. Types'
    <2>1. UNCHANGED <<failed, handler, window, orig, blamed, mishap, pending>>
          /\ lock' = FALSE
      BY DEF Seek
    <2>2. pc' \in [Threads -> Places]
      BY <1>2, Moved DEF Places
    <2>3. m' \in [Threads -> Blocks \cup {None}]
      BY <1>1, <1>3, <1>6 DEF Types
    <2> QED BY <1>1, <1>2, <1>5, <2>1, <2>2, <2>3 DEF Types, Flags
  <1>10. \A u \in Threads : Has(u)' <=> IF u = t THEN b # None ELSE Has(u)
    BY <1>7 DEF Has
  <1>11. OwnerInv'
    <2>1. \A c \in Listed' : heap'[c] # None
      BY <1>2, <1>5 DEF OwnerInv
    <2>2. \A u \in Threads : pc'[u] \in {"insert", "link"} => m'[u] # None
      BY <1>7 DEF OwnerInv
    <2>3. \A u \in Threads : Has(u)' =>
            m'[u] \notin Listed' /\ heap'[m'[u]] # None /\ heap'[m'[u]].glx = drawable'[u]
      BY <1>2, <1>4, <1>5, <1>7, <1>10 DEF OwnerInv
    <2>4. \A u \in Threads : Has(u) => m[u] \notin Listed
      BY DEF OwnerInv
    <2>5. \A u, v \in Threads : Has(u)' /\ Has(v)' /\ m'[u] = m'[v] => u = v
      BY <1>3, <1>7, <1>10, <2>4 DEF OwnerInv
    <2>6. \A c \in Blocks \ Listed' : heap'[c] # None =>
            \E u \in Threads : Has(u)' /\ m'[u] = c
      <3> SUFFICES ASSUME NEW c \in Blocks \ Listed', heap'[c] # None
                   PROVE  \E u \in Threads : Has(u)' /\ m'[u] = c
        OBVIOUS
      <3>1. CASE c = b
        <4>1. b # None
          BY <3>1, WinMapAssumption
        <4> QED BY <1>7, <1>10, <3>1, <4>1
      <3>2. CASE c # b
        <4>1. PICK u \in Threads : Has(u) /\ m[u] = c
          BY <1>2, <1>5, <3>2 DEF OwnerInv
        <4>2. u # t
          BY <1>7, <4>1 DEF Has
        <4> QED BY <1>7, <1>10, <4>1, <4>2
      <3> QED BY <3>1, <3>2
    <2>7. \A u \in Threads : pc'[u] = "deref" =>
            m'[u] \in Listed' /\ heap'[m'[u]].glx = drawable'[u]
      <3>1. \A u \in Threads : pc[u] # "deref"
        BY <1>7 DEF LockInv, Inside
      <3> QED BY <1>7, <3>1
    <2> QED BY <1>5, <2>1, <2>2, <2>3, <2>5, <2>6, <2>7 DEF OwnerInv
  <1>12. KnownInv'
    BY <1>2, <1>5 DEF KnownInv
  <1> QED BY <1>5, <1>8, <1>9, <1>11, <1>12, ShapesParts DEF b

(* And from there back to the heap.                                        *)
LEMMA MapFree ==
  ASSUME MapInv, NEW t \in Threads, Free(t)
  PROVE  MapInv'
  <1> USE DEF MapInv, xlib, history, server
  <1>1. Types
    BY ShapesParts
  <1>2. Step(t, "free", "leave") /\ UNCHANGED <<lock, winmap, drawable, live, known>>
    BY DEF Free
  <1>3. /\ pc[t] = "free" /\ pc'[t] = "leave" /\ m'[t] = None
        /\ \A u \in Threads \ {t} : pc'[u] = pc[u] /\ m'[u] = m[u]
    BY <1>1, <1>2, Moved DEF Free, Types
  <1>4. \A c \in Blocks : heap'[c] = IF c = m[t] THEN None ELSE heap[c]
    BY DEF Free
  <1>5. m[t] \notin Listed /\ Listed' = Listed /\ Listed \subseteq Blocks
    <2>1. Listed \subseteq Blocks /\ None \notin Listed
      BY <1>1, InToSet, WinMapAssumption DEF Types, Listed, ToSet
    <2>2. m[t] # None => Has(t)
      BY <1>3 DEF Has
    <2> QED BY <1>2, <2>1, <2>2 DEF OwnerInv, Listed
  <1>6. Idle' /\ LockInv' /\ AnsweredInv'
    BY <1>2, IdleKept, LockKept, AnsweredKept DEF Inside, Free
  <1>7. Types'
    BY <1>1, <1>2 DEF Free, Step, Types, Flags, Places
  <1>8. \A u \in Threads : Has(u)' <=> Has(u) /\ u # t
    BY <1>3 DEF Has
  <1>9. \A u \in Threads \ {t} : Has(u) => m[u] # m[t] /\ m[u] \in Blocks
    BY <1>1, <1>3 DEF OwnerInv, Has, Types
  <1>10. OwnerInv'
    <2>1. \A c \in Listed' : heap'[c] # None
      BY <1>4, <1>5 DEF OwnerInv
    <2>2. \A u \in Threads : pc'[u] \in {"insert", "link"} => m'[u] # None
      BY <1>3 DEF OwnerInv
    <2>3. \A u \in Threads : Has(u)' =>
            m'[u] \notin Listed' /\ heap'[m'[u]] # None /\ heap'[m'[u]].glx = drawable'[u]
      BY <1>2, <1>3, <1>4, <1>5, <1>8, <1>9 DEF OwnerInv
    <2>4. \A u, v \in Threads : Has(u)' /\ Has(v)' /\ m'[u] = m'[v] => u = v
      BY <1>3, <1>8 DEF OwnerInv
    <2>5. \A c \in Blocks \ Listed' : heap'[c] # None =>
            \E u \in Threads : Has(u)' /\ m'[u] = c
      <3> SUFFICES ASSUME NEW c \in Blocks \ Listed', heap'[c] # None
                   PROVE  \E u \in Threads : Has(u)' /\ m'[u] = c
        OBVIOUS
      <3>1. c # m[t] /\ heap[c] # None
        BY <1>4
      <3>2. PICK u \in Threads : Has(u) /\ m[u] = c
        BY <1>5, <3>1 DEF OwnerInv
      <3> QED BY <1>3, <1>8, <3>1, <3>2
    <2>6. \A u \in Threads : pc'[u] = "deref" =>
            m'[u] \in Listed' /\ heap'[m'[u]].glx = drawable'[u]
      BY <1>2, <1>3, <1>4, <1>5 DEF OwnerInv
    <2>7. IsInjective(winmap)'
      BY <1>2 DEF OwnerInv
    <2> QED BY <2>1, <2>2, <2>3, <2>4, <2>5, <2>6, <2>7 DEF OwnerInv
  <1>11. KnownInv'
    BY <1>2, <1>4, <1>5 DEF KnownInv
  <1> QED BY <1>6, <1>7, <1>10, <1>11, ShapesParts

LEMMA MapNext == MapInv /\ [Next]_vars => MapInv'
  <1> SUFFICES ASSUME MapInv, [Next]_vars PROVE MapInv'
    OBVIOUS
  <1>1. ASSUME NEW t \in Threads, HookNext(t) PROVE MapInv'
    BY <1>1, MapLock, MapFind, MapOutside, MapErrors, MapMalloc, MapLink, MapSeek,
       MapFree
       DEF HookNext
  <1>2. ASSUME NEW t \in Threads, AppNext(t) PROVE MapInv'
    BY <1>2, MapCalls
  <1>3. CASE UNCHANGED vars
    BY <1>3 DEF vars, shared, xlib, locals, server, history, MapInv, Shapes, TypeOK,
       LockInv, OwnerInv, Has, Listed, KnownInv, AnsweredInv
  <1> QED BY <1>1, <1>2, <1>3 DEF Next

LEMMA MapInvariant == Spec => []MapInv
  BY MapInit, MapNext, PTL DEF Spec

(* For any number of threads and blocks: an entry in use is in the list,   *)
(* once, or in one thread's hands; none is freed twice or read after it    *)
(* has been freed, whatever the application does.                          *)
THEOREM BlocksOwned == Spec => []EntriesOwned
  <1>1. ASSUME MapInv PROVE EntriesOwned
    <2> USE <1>1 DEF MapInv
    <2>1. \A t \in Threads, b \in Blocks : Holds(t, b) <=> Has(t) /\ m[t] = b
      BY WinMapAssumption DEF Holds, Has
    <2>2. ASSUME NEW b \in Blocks, heap[b] = None
          PROVE  b \notin Listed /\ {t \in Threads : Holds(t, b)} = {}
      BY <2>1, <2>2 DEF OwnerInv
    <2>3. ASSUME NEW b \in Listed \cap Blocks
          PROVE  Cardinality({t \in Threads : Holds(t, b)}) = 0
      <3>1. {t \in Threads : Holds(t, b)} = {}
        BY <2>1 DEF OwnerInv
      <3> QED BY <3>1, FS_EmptySet
    <2>4. ASSUME NEW b \in Blocks \ Listed, heap[b] # None
          PROVE  Cardinality({t \in Threads : Holds(t, b)}) = 1
      <3>1. PICK t \in Threads : Has(t) /\ m[t] = b
        BY <2>4 DEF OwnerInv
      <3>2. {u \in Threads : Holds(u, b)} = {t}
        BY <2>1, <3>1 DEF OwnerInv
      <3> QED BY <3>2, FS_Singleton
    <2> QED BY <2>2, <2>3, <2>4 DEF EntriesOwned, Shapes, OwnerInv, Listed
  <1> QED BY <1>1, MapInvariant, PTL


-----------------------------------------------------------------------------
(* As long as the application is careful                                   *)

(* A listed block is a block, and says of which drawable it is.            *)
LEMMA ListedEntries ==
  ASSUME MapInv
  PROVE  /\ Listed \subseteq Blocks
         /\ \A b \in Listed : heap[b] # None /\ heap[b].glx \in Drawables
  <1>1. Listed \subseteq Blocks
    BY InToSet DEF Listed, ToSet, MapInv, Shapes, TypeOK
  <1> QED BY <1>1 DEF MapInv, Shapes, TypeOK, OwnerInv, Entries

(* Most steps change nothing that carefulness is about.                    *)
LEMMA CarefulKept ==
  ASSUME MapInv, CarefulInv, NEW t \in Threads, NEW from, NEW to, Step(t, from, to),
         UNCHANGED <<winmap, live>>, \A b \in Listed : heap'[b] = heap[b],
         \A u \in Threads \ {t} : drawable'[u] = drawable[u],
         \/ drawable'[t] = drawable[t]
         \/ drawable'[t] = None /\ to \notin Swapping \cup Registering,
         to \in Swapping \cup Registering => from \in Swapping \cup Registering,
         to \in Asking \cup Registering =>
           \/ from \in Asking \cup Registering
           \/ \A b \in Listed : heap[b].glx # drawable[t],
         from \in {"forget", "seek"} =>
           to \in {"forget", "seek"} /\ drawable'[t] = drawable[t]
  PROVE  CarefulInv'
  <1> USE DEF CarefulInv, MapInv
  <1>1. Listed' = Listed
    BY DEF Listed
  <1>2. /\ pc[t] = from /\ pc'[t] = to
        /\ \A u \in Threads \ {t} : pc'[u] = pc[u]
    BY Moved
  <1>3. AloneInv'
    BY DEF AloneInv
  <1>4. LiveInv'
    BY <1>2 DEF LiveInv
  <1>5. OnceInv'
    <2>1. \A b, c \in Listed' : heap'[b].glx = heap'[c].glx => b = c
      BY <1>1 DEF OnceInv
    <2>2. ASSUME NEW u \in Threads, pc'[u] \in Asking \cup Registering
          PROVE  \A b \in Listed' : heap'[b].glx # drawable'[u]
      <3>1. CASE u # t
        BY <1>1, <1>2, <2>2, <3>1 DEF OnceInv
      <3>2. CASE u = t
        <4>1. drawable'[t] = drawable[t]
          BY <1>2, <2>2, <3>2 DEF Swapping
        <4> QED BY <1>1, <1>2, <2>2, <3>2, <4>1 DEF OnceInv
      <3> QED BY <3>1, <3>2
    <2> QED BY <2>1, <2>2 DEF OnceInv
  <1>6. ForgottenInv'
    <2>1. \A u \in Threads : pc[u] \in {"forget", "seek"} =>
            pc'[u] \in {"forget", "seek"} /\ drawable'[u] = drawable[u]
      BY <1>2
    <2> QED BY <1>1, <2>1 DEF ForgottenInv
  <1> QED BY <1>3, <1>4, <1>5, <1>6

LEMMA CarefulErrors ==
  ASSUME MapInv, CarefulInv, NEW t \in Threads, Arrive(t) \/ AppError(t)
  PROVE  CarefulInv'
  BY MapErrors DEF shared, locals, CarefulInv, AloneInv, LiveInv, OnceInv, ForgottenInv, Listed

LEMMA CarefulCalls ==
  ASSUME MapInv, CarefulInv, ~careless', NEW t \in Threads, AppNext(t)
  PROVE  CarefulInv'
  <1> USE DEF CarefulInv, MapInv, shared, server
  <1>1. ASSUME NEW d \in Drawables, NEW to, Step(t, "app", to),
               to \notin Asking \cup {"insert", "link"},
               drawable' = [drawable EXCEPT ![t] = d], UNCHANGED <<winmap, heap>>
        PROVE  /\ pc[t] = "app" /\ pc'[t] = to /\ drawable'[t] = d
               /\ \A u \in Threads \ {t} : pc'[u] = pc[u] /\ drawable'[u] = drawable[u]
               /\ Listed' = Listed
    BY <1>1, Moved DEF Listed, Shapes
  <1>2. ASSUME NEW d \in Drawables, Swap(t, d) PROVE CarefulInv'
    <2>1. /\ pc[t] = "app" /\ pc'[t] = "swap" /\ drawable'[t] = d
          /\ \A u \in Threads \ {t} : pc'[u] = pc[u] /\ drawable'[u] = drawable[u]
          /\ Listed' = Listed
      BY <1>1, <1>2 DEF Swap, Asking
    <2>2. UNCHANGED <<heap, live>> /\ \A u \in Threads : drawable[u] # d
      BY <1>2 DEF Swap, careless
    <2>3. d \in live /\ (d \in GlxWindows => Parent[d] \in live)
      BY <1>2 DEF Swap, Usable
    <2>4. AloneInv'
      BY <2>1, <2>2 DEF AloneInv
    <2>5. LiveInv'
      BY <2>1, <2>2, <2>3 DEF LiveInv
    <2>6. OnceInv'
      BY <2>1, <2>2 DEF OnceInv, Asking, Registering
    <2>7. ForgottenInv'
      <3>1. \A u \in Threads : pc[u] \in {"forget", "seek"} =>
              pc'[u] \in {"forget", "seek"} /\ drawable'[u] = drawable[u]
        BY <2>1
      <3> QED BY <2>1, <2>2, <3>1 DEF ForgottenInv
    <2> QED BY <2>4, <2>5, <2>6, <2>7
  <1>3. ASSUME NEW d \in Drawables, Destroy(t, d) PROVE CarefulInv'
    <2>1. /\ pc[t] = "app" /\ pc'[t] = "forget" /\ drawable'[t] = d
          /\ \A u \in Threads \ {t} : pc'[u] = pc[u] /\ drawable'[u] = drawable[u]
          /\ Listed' = Listed
      BY <1>1, <1>3 DEF Destroy, Asking
    <2>2. heap' = heap /\ live' = live \ {d} /\ \A u \in Threads : ~Uses(u, d)
      BY <1>3 DEF Destroy, careless
    <2>3. AloneInv'
      BY <2>1, <2>2 DEF AloneInv, Uses
    <2>4. LiveInv'
      BY <2>1, <2>2 DEF LiveInv, Uses, Swapping, Asking, Registering
    <2>5. OnceInv'
      BY <2>1, <2>2 DEF OnceInv, Asking, Registering
    <2>6. ForgottenInv'
      <3>1. \A u \in Threads : pc[u] \in {"forget", "seek"} =>
              pc'[u] \in {"forget", "seek"} /\ drawable'[u] = drawable[u]
        BY <2>1
      <3> QED BY <2>1, <2>2, <3>1 DEF ForgottenInv
    <2> QED BY <2>3, <2>4, <2>5, <2>6
  <1>4. ASSUME NEW g \in GlxWindows, CreateWindow(t, g) PROVE CarefulInv'
    <2>1. g \in Drawables /\ g # None
      BY WinMapAssumption DEF Drawables
    <2>2. /\ pc[t] = "app" /\ pc'[t] = "malloc" /\ drawable'[t] = g
          /\ \A u \in Threads \ {t} : pc'[u] = pc[u] /\ drawable'[u] = drawable[u]
          /\ Listed' = Listed
      BY <1>1, <1>4, <2>1 DEF CreateWindow, Asking
    <2>3. /\ heap' = heap /\ live' = live \cup {g} /\ Parent[g] \in live
          /\ g \notin live \cup known
      BY <1>4 DEF CreateWindow
    <2>4. AloneInv'
      BY <2>1, <2>2, <2>3 DEF AloneInv, KnownInv
    <2>5. LiveInv'
      BY <2>2, <2>3 DEF LiveInv
    <2>6. OnceInv'
      <3>1. \A b \in Listed : heap[b].glx # g
        BY <2>3 DEF KnownInv
      <3> QED BY <2>2, <2>3, <3>1 DEF OnceInv
    <2>7. ForgottenInv'
      <3>1. \A u \in Threads : pc[u] \in {"forget", "seek"} =>
              pc'[u] \in {"forget", "seek"} /\ drawable'[u] = drawable[u]
        BY <2>2
      <3> QED BY <2>2, <2>3, <3>1 DEF ForgottenInv
    <2> QED BY <2>4, <2>5, <2>6, <2>7
  <1>5. CASE AppError(t)
    BY <1>5, CarefulErrors
  <1> QED BY <1>2, <1>3, <1>4, <1>5 DEF AppNext

LEMMA CarefulHook ==
  ASSUME MapInv, CarefulInv, NEW t \in Threads, HookNext(t)
  PROVE  CarefulInv'
  <1> USE DEF shared, server, locals, Swapping, Asking, Registering
  <1>0. Shapes
    BY DEF MapInv
  <1>1. CASE Lock(t)
    <2>1. PICK from \in {"swap", "insert", "forget"} : pc[t] = from
      BY <1>1 DEF Lock, AfterLock
    <2>2. Step(t, from, AfterLock[from])
      BY <1>1, <2>1 DEF Lock, Step
    <2>3. AfterLock[from] = CASE from = "swap" -> "find" [] from = "insert" -> "link"
                              [] from = "forget" -> "seek"
      BY <2>1 DEF AfterLock
    <2> QED BY <1>1, <2>1, <2>2, <2>3, CarefulKept DEF Lock
  <1>2. CASE Find(t)
    <2>1. PICK to \in {"sync", "deref"} :
            Step(t, "find", to) /\ (to = "sync" => FindX11(drawable[t]) = None)
      BY <1>2 DEF Find
    <2>2. to = "sync" => \A b \in Listed : heap[b].glx # drawable[t]
      BY <1>0, <2>1, Found, ListedEntries
    <2>3. UNCHANGED <<winmap, heap, drawable, live>>
      BY <1>2 DEF Find
    <2> QED BY <2>1, <2>2, <2>3, CarefulKept
  <1>3. CASE Deref(t)
    BY <1>3, CarefulKept DEF Deref
  <1>4. CASE Measure(t)
    BY <1>4, CarefulKept DEF Measure
  <1>14. CASE XSync(t)
    BY <1>14, CarefulKept DEF XSync
  <1>15. CASE Arrive(t)
    BY <1>15, CarefulErrors
  <1>5. CASE SetHandler(t)
    BY <1>5, CarefulKept DEF SetHandler
  <1>6. CASE Ask(t)
    BY <1>6, CarefulKept DEF Ask
  <1>7. CASE RestoreHandler(t)
    BY <1>7, CarefulKept DEF RestoreHandler
  <1>8. CASE Judge(t)
    BY <1>8, CarefulKept DEF Judge
  <1>9. CASE Malloc(t)
    <2>1. UNCHANGED <<winmap, drawable, live>> /\ pc[t] = "malloc"
      BY <1>9 DEF Malloc, Step
    <2>2. ASSUME NEW b \in Listed PROVE heap'[b] = heap[b]
      <3>1. CASE heap' = heap
        BY <3>1
      <3>2. CASE heap' # heap
        <4>1. /\ \E c \in Blocks : heap[c] = None
              /\ m' = [m EXCEPT ![t] = CHOOSE c \in Blocks : heap[c] = None]
              /\ heap' = [heap EXCEPT ![m'[t]] = [x11 |-> window[t], glx |-> drawable[t]]]
          BY <1>9, <3>2 DEF Malloc
        <4>2. heap[m'[t]] = None
          BY <1>0, <4>1 DEF Shapes
        <4>3. b # m'[t]
          BY <4>2, ListedEntries
        <4> QED BY <4>1, <4>3
      <3> QED BY <3>1, <3>2
    <2>3. PICK to \in {"insert", "leave"} : Step(t, "malloc", to)
      BY <1>9 DEF Malloc
    <2> QED BY <2>1, <2>2, <2>3, CarefulKept
  <1>10. CASE Free(t)
    <2>1. Step(t, "free", "leave") /\ UNCHANGED <<winmap, drawable, live>>
      BY <1>10 DEF Free
    <2>2. ASSUME NEW b \in Listed PROVE heap'[b] = heap[b]
      <3>1. b \in Blocks /\ b # None
        BY ListedEntries, WinMapAssumption
      <3>2. b # m[t]
        BY <1>0, <2>1, <3>1, Moved DEF MapInv, OwnerInv, Has
      <3> QED BY <1>10, <3>1, <3>2 DEF Free
    <2> QED BY <2>1, <2>2, CarefulKept
  <1>11. CASE Leave(t)
    <2>1. Step(t, "leave", "app") /\ UNCHANGED <<winmap, heap, live>>
      BY <1>11 DEF Leave
    <2>2. drawable'[t] = None /\ \A u \in Threads \ {t} : drawable'[u] = drawable[u]
      BY <1>0, <1>11 DEF Leave, Shapes
    <2> QED BY <2>1, <2>2, CarefulKept
  <1>12. CASE Link(t)
    <2> USE DEF CarefulInv, MapInv
    <2>1. /\ pc[t] = "link" /\ pc'[t] = "leave"
          /\ \A u \in Threads \ {t} : pc'[u] = pc[u]
          /\ UNCHANGED <<heap, drawable, live>>
      BY <1>12, Moved DEF Link
    <2>2. m[t] \in Blocks \ Listed /\ heap[m[t]].glx = drawable[t] /\ drawable[t] \in Drawables
      BY <2>1 DEF OwnerInv, Has, Shapes, TypeOK
    <2>3. Listed' = Listed \cup {m[t]}
      BY <1>12, <2>2, Prepended DEF Link, Shapes, TypeOK, OwnerInv, Listed
    <2>4. /\ \A b \in Listed : heap[b].glx # drawable[t]
          /\ drawable[t] \in live /\ drawable[t] # None
      BY <2>1, <2>2, WinMapAssumption DEF OnceInv, LiveInv
    <2>5. AloneInv' /\ LiveInv'
      BY <2>1 DEF AloneInv, LiveInv
    <2>6. OnceInv'
      BY <2>1, <2>2, <2>3, <2>4 DEF OnceInv, AloneInv
    <2>7. ForgottenInv'
      BY <2>1, <2>2, <2>3, <2>4 DEF ForgottenInv
    <2> QED BY <2>5, <2>6, <2>7
  <1>13. CASE Seek(t)
    <2> USE DEF CarefulInv
    <2>1. /\ pc[t] = "seek" /\ pc'[t] = "free"
          /\ \A u \in Threads \ {t} : pc'[u] = pc[u]
          /\ UNCHANGED <<heap, drawable, live>>
      BY <1>0, <1>13, Moved DEF Seek
    <2>2. Listed' = Listed \ {FindX11(drawable[t])}
      BY <1>13, MapSeek
    <2>3. \A b \in Listed : heap[b].glx = drawable[t] => b = FindX11(drawable[t])
      BY <1>0, Found, ListedEntries, WinMapAssumption DEF OnceInv
    <2>4. AloneInv' /\ LiveInv'
      BY <2>1 DEF AloneInv, LiveInv
    <2>5. OnceInv'
      BY <2>1, <2>2 DEF OnceInv
    <2>6. ForgottenInv'
      BY <2>1, <2>2, <2>3 DEF ForgottenInv
    <2> QED BY <2>4, <2>5, <2>6
  <1> QED BY <1>1, <1>2, <1>3, <1>4, <1>5, <1>6, <1>7, <1>8, <1>9, <1>10, <1>11, <1>12,
             <1>13, <1>14, <1>15 DEF HookNext


-----------------------------------------------------------------------------
(* As long as no two measurements overlap, besides                         *)

(* Most steps change nothing of what is entered or read.                   *)
LEMMA RightKept ==
  ASSUME Shapes, RightInv, NEW t \in Threads, NEW from, NEW to, Step(t, from, to),
         to \notin {"malloc", "measure"}, UNCHANGED heap,
         \A u \in Threads \ {t} : drawable'[u] = drawable[u] /\ window'[u] = window[u]
  PROVE  RightInv'
  <1>1. \A u \in Threads : pc'[u] \in {"malloc", "measure"} =>
          pc'[u] = pc[u] /\ drawable'[u] = drawable[u] /\ window'[u] = window[u]
    BY Moved
  <1>2. \A u \in Threads : pc'[u] = "measure" =>
          (Reads(u)' <=> Reads(u))
    BY <1>1 DEF Reads, Uses
  <1> QED BY <1>1, <1>2 DEF RightInv, Right

LEMMA HandlerKept ==
  ASSUME Shapes, HandlerInv, NEW t \in Threads, NEW from, NEW to, Step(t, from, to),
         {from, to} \cap {"ask", "restore", "judge"} = {},
         UNCHANGED <<failed, handler, blamed>>,
         \A u \in Threads \ {t} : drawable'[u] = drawable[u] /\ orig'[u] = orig[u]
  PROVE  HandlerInv'
  <1>1. from \notin {"ask", "restore", "judge"} /\ to \notin {"ask", "restore", "judge"}
    OBVIOUS
  <1>2. \A u \in Threads : Measuring(u)' <=> Measuring(u)
    BY <1>1, Moved DEF Measuring
  <1>3. \A u \in Threads : pc'[u] \in {"ask", "restore", "judge"} =>
          pc'[u] = pc[u] /\ drawable'[u] = drawable[u] /\ orig'[u] = orig[u]
    BY <1>1, Moved
  <1> QED BY <1>2, <1>3 DEF HandlerInv

(* A window that a careful application has measured is there.              *)
LEMMA UsedLive ==
  ASSUME Shapes, LiveInv, NEW t \in Threads, pc[t] \in Swapping \cup Registering,
         NEW d, Uses(t, d)
  PROVE  d \in live
  BY DEF LiveInv, Uses

(* An error that arrives is one more, and no change of the handler.        *)
LEMMA InnocentErrors ==
  ASSUME MapInv, RightInv, HandlerInv, NEW t \in Threads, Arrive(t) \/ AppError(t)
  PROVE  RightInv' /\ HandlerInv'
  <1>1. UNCHANGED <<heap, pc, drawable, window, handler, orig, blamed>>
    BY MapErrors DEF shared, locals
  <1>2. failed => failed'
    BY DEF Arrive, AppError, Deliver
  <1>3. RightInv'
    BY <1>1 DEF RightInv, Right, Reads, Uses
  <1>4. HandlerInv'
    BY <1>1, <1>2 DEF HandlerInv, Measuring
  <1> QED BY <1>3, <1>4

LEMMA InnocentCalls ==
  ASSUME MapInv, RightInv, HandlerInv, NEW t \in Threads, AppNext(t)
  PROVE  RightInv' /\ HandlerInv'
  <1> USE DEF MapInv, shared, xlib, history
  <1>1. ASSUME NEW d \in Drawables, Swap(t, d) \/ Destroy(t, d) PROVE RightInv' /\ HandlerInv'
    <2>1. PICK to \in {"swap", "forget"} : Step(t, "app", to)
      BY <1>1 DEF Swap, Destroy
    <2>2. UNCHANGED <<heap, failed, handler, window, orig, blamed>>
      BY <1>1 DEF Swap, Destroy
    <2>3. \A u \in Threads \ {t} : drawable'[u] = drawable[u]
      BY <1>1 DEF Swap, Destroy, Shapes
    <2>4. RightInv'
      BY <2>1, <2>2, <2>3, RightKept
    <2>5. HandlerInv'
      BY <2>1, <2>2, <2>3, HandlerKept
    <2> QED BY <2>4, <2>5
  <1>2. ASSUME NEW g \in GlxWindows, CreateWindow(t, g) PROVE RightInv' /\ HandlerInv'
    <2>1. Step(t, "app", "malloc") /\ UNCHANGED <<heap, failed, handler, orig, blamed>>
      BY <1>2 DEF CreateWindow
    <2>2. /\ drawable'[t] = g /\ window'[t] = Parent[g]
          /\ \A u \in Threads \ {t} : drawable'[u] = drawable[u] /\ window'[u] = window[u]
      BY <1>2 DEF CreateWindow, Shapes
    <2>3. Right([x11 |-> window'[t], glx |-> drawable'[t]])
      BY <2>2, WinMapAssumption DEF Right
    <2>4. RightInv'
      <3>1. \A u \in Threads \ {t} : pc'[u] = pc[u]
        BY <2>1, Moved
      <3>2. pc'[t] = "malloc"
        BY <2>1, Moved
      <3>3. \A u \in Threads \ {t} : Reads(u)' <=> Reads(u)
        BY <2>2 DEF Reads, Uses
      <3>4. \A b \in Blocks : heap'[b] # None => Right(heap'[b])
        BY <2>1 DEF RightInv
      <3>5. ASSUME NEW u \in Threads
            PROVE  /\ pc'[u] = "malloc" => Right([x11 |-> window'[u], glx |-> drawable'[u]])
                   /\ pc'[u] = "measure" /\ window'[u] # None => Reads(u)'
        <4>1. CASE u = t
          BY <2>3, <3>2, <4>1
        <4>2. CASE u # t
          BY <2>2, <3>1, <3>3, <4>2 DEF RightInv
        <4> QED BY <4>1, <4>2
      <3> QED BY <3>4, <3>5 DEF RightInv, Right
    <2>5. HandlerInv'
      BY <2>1, <2>2, HandlerKept
    <2> QED BY <2>4, <2>5
  <1> QED BY <1>1, <1>2, InnocentErrors DEF AppNext

(* The steps that only move the list: the entries stay what they are.      *)
LEMMA InnocentList ==
  ASSUME MapInv, RightInv, HandlerInv, NEW t \in Threads,
         Lock(t) \/ Find(t) \/ XSync(t) \/ Link(t) \/ Seek(t) \/ Leave(t)
  PROVE  RightInv' /\ HandlerInv'
  <1> USE DEF MapInv, xlib, history, locals
  <1>1. UNCHANGED <<heap, failed, handler, window, orig, blamed>>
    BY DEF Lock, Find, XSync, Link, Seek, Leave, shared
  <1>2. \A u \in Threads \ {t} : drawable'[u] = drawable[u]
    BY DEF Lock, Find, XSync, Link, Seek, Leave, Shapes
  <1>3. PICK from \in {"swap", "insert", "forget", "find", "sync", "link", "seek", "leave"},
             to \in {"find", "link", "seek", "sync", "set", "deref", "leave", "free", "app"} :
               Step(t, from, to)
    <2>1. CASE Lock(t)
      <3>1. pc[t] \in {"swap", "insert", "forget"}
        BY <2>1 DEF Lock, AfterLock
      <3>2. AfterLock[pc[t]] \in {"find", "link", "seek"}
        BY <3>1 DEF AfterLock
      <3> QED BY <2>1, <3>1, <3>2 DEF Lock, Step
    <2>2. CASE Find(t)
      BY <2>2 DEF Find
    <2>3. CASE XSync(t) \/ Link(t) \/ Seek(t) \/ Leave(t)
      BY <2>3 DEF XSync, Link, Seek, Leave
    <2> QED BY <2>1, <2>2, <2>3
  <1>4. RightInv'
    BY <1>1, <1>2, <1>3, RightKept
  <1>5. HandlerInv'
    BY <1>1, <1>2, <1>3, HandlerKept
  <1> QED BY <1>4, <1>5

(* The steps that read and write entries.                                  *)
LEMMA InnocentEntries ==
  ASSUME MapInv, RightInv, HandlerInv, NEW t \in Threads,
         Deref(t) \/ Malloc(t) \/ Free(t)
  PROVE  RightInv' /\ HandlerInv'
  <1> USE DEF MapInv, xlib, history, locals
  <1>1. UNCHANGED <<failed, handler, drawable, orig, blamed>>
    BY DEF Deref, Malloc, Free
  <1>2. PICK from \in {"deref", "malloc", "free"}, to \in {"measure", "insert", "leave"} :
          Step(t, from, to)
    BY DEF Deref, Malloc, Free
  <1>3. HandlerInv'
    BY <1>1, <1>2, HandlerKept
  <1>4. \A u \in Threads \ {t} : pc'[u] = pc[u] /\ window'[u] = window[u]
    BY <1>2, Moved DEF Deref, Malloc, Free, Shapes
  <1>5. \A u \in Threads \ {t} : Reads(u)' <=> Reads(u)
    BY <1>1, <1>4 DEF Reads, Uses
  <1>6. pc'[t] # "malloc"
    BY <1>2, Moved
  <1>7. \A b \in Blocks : heap'[b] # None => Right(heap'[b])
    <2>1. CASE Deref(t)
      BY <2>1 DEF Deref, shared, RightInv
    <2>2. CASE Malloc(t)
      <3>1. CASE heap' = heap
        BY <3>1 DEF RightInv
      <3>2. CASE heap' # heap
        <4>1. heap' = [heap EXCEPT ![m'[t]] = [x11 |-> window[t], glx |-> drawable[t]]]
              /\ pc[t] = "malloc"
          BY <2>2, <3>2 DEF Malloc, Step
        <4>2. Right([x11 |-> window[t], glx |-> drawable[t]])
          BY <4>1 DEF RightInv
        <4> QED BY <4>1, <4>2 DEF RightInv, Shapes, TypeOK
      <3> QED BY <3>1, <3>2
    <2>3. CASE Free(t)
      BY <2>3 DEF Free, RightInv
    <2> QED BY <2>1, <2>2, <2>3
  <1>8. ASSUME pc'[t] = "measure", window'[t] # None
        PROVE  Reads(t)'
    <2>1. Deref(t)
      BY <1>8, Moved DEF Deref, Malloc, Free
    <2>2. window'[t] = heap[m[t]].x11 /\ pc[t] = "deref"
      BY <2>1 DEF Deref, Step, Shapes
    <2>3. m[t] \in Listed /\ heap[m[t]].glx = drawable[t]
      BY <2>2 DEF OwnerInv
    <2>4. Right(heap[m[t]]) /\ drawable[t] \in Drawables
      BY <2>3, ListedEntries DEF RightInv
    <2>5. CASE drawable[t] \in Windows
      BY <1>1, <1>8, <2>2, <2>3, <2>4, <2>5 DEF Right, Reads, Uses
    <2>6. CASE drawable[t] \in GlxWindows
      BY <1>1, <1>8, <2>2, <2>3, <2>4, <2>6, WinMapAssumption DEF Right, Reads, Uses
    <2>7. CASE drawable[t] \in Others
      BY <1>8, <2>2, <2>3, <2>4, <2>7 DEF Right
    <2> QED BY <2>4, <2>5, <2>6, <2>7 DEF Drawables
  <1>9. RightInv'
    <2>1. ASSUME NEW u \in Threads
          PROVE  /\ pc'[u] = "malloc" => Right([x11 |-> window'[u], glx |-> drawable'[u]])
                 /\ pc'[u] = "measure" /\ window'[u] # None => Reads(u)'
      <3>1. CASE u = t
        BY <1>6, <1>8, <3>1
      <3>2. CASE u # t
        BY <1>1, <1>4, <1>5, <3>2 DEF RightInv
      <3> QED BY <3>1, <3>2
    <2> QED BY <1>7, <2>1 DEF RightInv, Right
  <1> QED BY <1>3, <1>9

(* A window out of the map is there: measuring it is no error.             *)
LEMMA InnocentMeasure ==
  ASSUME MapInv, LiveInv, RightInv, HandlerInv, NEW t \in Threads, Measure(t)
  PROVE  RightInv' /\ HandlerInv'
  <1> USE DEF MapInv, shared
  <1>1. Step(t, "measure", "leave") /\ UNCHANGED <<heap, handler, drawable, orig>>
        /\ pc[t] = "measure"
    BY DEF Measure, Step
  <1>2. window[t] # None => window[t] \in live \cap Windows
    BY <1>1, UsedLive DEF RightInv, Reads, Swapping
  <1>3. UNCHANGED <<failed, blamed>>
    BY <1>2 DEF Measure, GetWindowSize
  <1>4. \A u \in Threads \ {t} : window'[u] = window[u]
    BY DEF Measure, Shapes
  <1>5. RightInv'
    BY <1>1, <1>4, RightKept
  <1>6. HandlerInv'
    BY <1>1, <1>3, HandlerKept
  <1> QED BY <1>5, <1>6

(* What get_window_size_safe() is told is about its own drawable.          *)
LEMMA InnocentAsk ==
  ASSUME MapInv, LiveInv, RightInv, HandlerInv, Innocent, Innocent', NEW t \in Threads,
         SetHandler(t) \/ Ask(t) \/ RestoreHandler(t) \/ Judge(t)
  PROVE  RightInv' /\ HandlerInv'
  <1> USE DEF MapInv, shared, locals, history, server, xlib
  <1>1. UNCHANGED <<heap, drawable>>
    BY DEF SetHandler, Ask, RestoreHandler, Judge
  <1>2. PICK from \in {"set", "ask", "restore", "judge"},
             to \in {"ask", "restore", "judge", "malloc"} : Step(t, from, to)
    BY DEF SetHandler, Ask, RestoreHandler, Judge
  <1>3. /\ \A u \in Threads \ {t} : pc'[u] = pc[u] /\ window'[u] = window[u]
                                    /\ orig'[u] = orig[u]
    BY <1>2, Moved DEF SetHandler, Ask, RestoreHandler, Judge, Shapes
  <1>4. \A u \in Threads \ {t} : ~Measuring(u) /\ ~Measuring(u)'
    <2>1. \A u \in Threads \ {t} : ~Measuring(u)
      <3>1. CASE SetHandler(t)
        BY <3>1 DEF SetHandler, AfterOverlap, Innocent
      <3>2. CASE ~SetHandler(t)
        BY <3>2, Moved DEF Ask, RestoreHandler, Judge, Step, HandlerInv, Measuring
      <3> QED BY <3>1, <3>2
    <2> QED BY <1>3, <2>1 DEF Measuring
  <1>5. \A u \in Threads \ {t} : pc'[u] \notin {"ask", "restore", "judge"}
    BY <1>4 DEF Measuring
  <1>6. CASE SetHandler(t)
    <2>1. Step(t, "set", "ask") /\ UNCHANGED <<window, blamed>> /\ pc'[t] = "ask"
      BY <1>6, Moved DEF SetHandler
    <2>2. handler = "app"
      <3>1. ~Measuring(t)
        BY <2>1, Moved DEF Measuring
      <3> QED BY <1>4, <3>1 DEF HandlerInv
    <2>3. handler' = "grab" /\ orig'[t] = "app"
      BY <1>6, <2>2 DEF SetHandler, Shapes
    <2>4. Measuring(t)'
      BY <2>1 DEF Measuring
    <2>5. HandlerInv'
      BY <1>4, <1>5, <2>1, <2>3, <2>4 DEF HandlerInv
    <2>6. RightInv'
      BY <1>1, <2>1, RightKept
    <2> QED BY <2>5, <2>6
  <1>7. CASE Ask(t)
    <2>1. /\ Step(t, "ask", "restore") /\ UNCHANGED <<window, handler, orig>>
          /\ pc[t] = "ask" /\ pc'[t] = "restore"
      BY <1>7, Moved DEF Ask
    <2>2. handler = "grab" /\ orig[t] = "app"
      BY <2>1 DEF HandlerInv
    <2>3. drawable[t] \in live
      BY <2>1 DEF LiveInv, Swapping, Asking
    <2>4. blamed' = blamed /\ (drawable[t] \notin Windows => failed')
      BY <1>7, <2>2, <2>3 DEF Ask, GetWindowSize
    <2>5. Measuring(t)'
      BY <2>1 DEF Measuring
    <2>6. HandlerInv'
      BY <1>1, <1>4, <1>5, <2>1, <2>2, <2>4, <2>5 DEF HandlerInv
    <2>7. RightInv'
      BY <1>1, <2>1, RightKept
    <2> QED BY <2>6, <2>7
  <1>8. CASE RestoreHandler(t)
    <2>1. /\ Step(t, "restore", "judge") /\ UNCHANGED <<window, failed, blamed>>
          /\ pc[t] = "restore" /\ pc'[t] = "judge" /\ handler' = orig[t]
      BY <1>8, Moved DEF RestoreHandler
    <2>2. handler' = "app" /\ (drawable'[t] \notin Windows => failed')
      BY <1>1, <2>1 DEF HandlerInv
    <2>3. Measuring(t)'
      BY <2>1 DEF Measuring
    <2>4. HandlerInv'
      BY <1>4, <1>5, <2>1, <2>2, <2>3 DEF HandlerInv
    <2>5. RightInv'
      BY <1>1, <2>1, RightKept
    <2> QED BY <2>4, <2>5
  <1>9. CASE Judge(t)
    <2>1. /\ UNCHANGED <<handler, failed, blamed>>
          /\ pc[t] = "judge" /\ pc'[t] = "malloc"
          /\ window'[t] = IF failed THEN None ELSE drawable[t]
      BY <1>9 DEF Judge, Step, Shapes
    <2>2. drawable[t] \notin Windows => failed
      BY <2>1 DEF HandlerInv
    <2>3. Right([x11 |-> window'[t], glx |-> drawable'[t]])
      BY <1>1, <2>1, <2>2, WinMapAssumption DEF Right
    <2>4. HandlerInv'
      BY <1>5, <2>1 DEF HandlerInv, Measuring
    <2>5. \A u \in Threads \ {t} : Reads(u)' <=> Reads(u)
      BY <1>1, <1>3 DEF Reads, Uses
    <2>6. ASSUME NEW u \in Threads
          PROVE  /\ pc'[u] = "malloc" => Right([x11 |-> window'[u], glx |-> drawable'[u]])
                 /\ pc'[u] = "measure" /\ window'[u] # None => Reads(u)'
      <3>1. CASE u = t
        BY <2>1, <2>3, <3>1
      <3>2. CASE u # t
        BY <1>1, <1>3, <2>5, <3>2 DEF RightInv
      <3> QED BY <3>1, <3>2
    <2>7. RightInv'
      BY <1>1, <2>6 DEF RightInv, Right
    <2> QED BY <2>4, <2>7
  <1> QED BY <1>6, <1>7, <1>8, <1>9

-----------------------------------------------------------------------------
(* As long as no error of another thread has come in between               *)

(* What happens gets no better.                                            *)
LEMMA Worse ==
  ASSUME MapInv, [Next]_vars
  PROVE  /\ careless => careless'
         /\ Innocent' => Innocent
         /\ mishap' = "none" => mishap = "none"
  <1> USE DEF careless, Innocent, Mishaps
  <1>1. mishap \in Mishaps
    BY DEF MapInv, Shapes, TypeOK
  <1>2. ASSUME NEW t \in Threads, HookNext(t) \/ AppNext(t)
        PROVE  mishap' \in {mishap, "careless"} \/ (Innocent /\ mishap' # "none")
    <2>1. CASE UNCHANGED mishap
      BY <2>1
    <2>2. CASE mishap' # mishap
      <3>1. \/ SetHandler(t) \/ Arrive(t) \/ AppError(t)
            \/ \E d \in Drawables : Swap(t, d) \/ Destroy(t, d)
        BY <1>2, <2>2 DEF HookNext, AppNext, Lock, Find, Deref, Measure, XSync, Ask,
           RestoreHandler, Judge, Malloc, Link, Seek, Free, Leave, CreateWindow, history
      <3>2. CASE SetHandler(t)
        BY <2>2, <3>2 DEF SetHandler, AfterOverlap
      <3>3. CASE Arrive(t) \/ AppError(t)
        BY <2>2, <3>3 DEF Arrive, AppError, Deliver
      <3>4. ASSUME NEW d \in Drawables, Swap(t, d) \/ Destroy(t, d)
            PROVE  mishap' = "careless"
        BY <2>2, <3>4 DEF Swap, Destroy
      <3> QED BY <3>1, <3>2, <3>3, <3>4
    <2> QED BY <2>1, <2>2
  <1>3. CASE UNCHANGED vars
    BY <1>3 DEF vars, history
  <1> QED BY <1>1, <1>2, <1>3 DEF Next

(* Most steps change nothing that has been seen.                           *)
LEMMA SeenKept ==
  ASSUME Shapes, SeenInv, NEW t \in Threads, NEW from, NEW to, Step(t, from, to),
         {from, to} \cap {"ask", "restore", "judge", "malloc"} = {},
         UNCHANGED <<failed, heap>>,
         \A u \in Threads \ {t} : drawable'[u] = drawable[u] /\ window'[u] = window[u]
  PROVE  SeenInv'
  <1>1. \A u \in Threads : pc'[u] \in {"ask", "restore", "judge", "malloc"} =>
          pc'[u] = pc[u] /\ drawable'[u] = drawable[u] /\ window'[u] = window[u]
    <2> TAKE u \in Threads
    <2>1. CASE u = t
      BY <2>1, Moved
    <2>2. CASE u # t
      BY <2>2, Moved
    <2> QED BY <2>1, <2>2
  <1> QED BY <1>1 DEF SeenInv

(* While a thread measures, no error arrives but one of another thread.    *)
LEMMA SeenErrors ==
  ASSUME MapInv, HandlerInv, SeenInv, Innocent, mishap' = "none", NEW t \in Threads,
         Arrive(t) \/ AppError(t)
  PROVE  SeenInv'
  <1>1. UNCHANGED <<heap, pc, drawable, window>>
    BY MapErrors DEF shared, locals
  <1>2. ~Measuring(t)
    <2>1. CASE Arrive(t)
      BY <2>1 DEF Arrive, MapInv, AnsweredInv, Measuring
    <2>2. CASE AppError(t)
      BY <2>2 DEF AppError, Step, Measuring
    <2> QED BY <2>1, <2>2
  <1>3. failed' = failed
    BY <1>2 DEF Arrive, AppError, Deliver
  <1> QED BY <1>1, <1>3 DEF SeenInv

LEMMA SeenCalls ==
  ASSUME MapInv, HandlerInv, SeenInv, Innocent, mishap' = "none", NEW t \in Threads,
         AppNext(t)
  PROVE  SeenInv'
  <1> USE DEF MapInv, shared, xlib
  <1>1. ASSUME NEW d \in Drawables, Swap(t, d) \/ Destroy(t, d) PROVE SeenInv'
    <2>1. PICK to \in {"swap", "forget"} : Step(t, "app", to)
      BY <1>1 DEF Swap, Destroy
    <2>2. UNCHANGED <<heap, failed, window>>
      BY <1>1 DEF Swap, Destroy
    <2>3. \A u \in Threads \ {t} : drawable'[u] = drawable[u]
      BY <1>1 DEF Swap, Destroy, Shapes
    <2> QED BY <2>1, <2>2, <2>3, SeenKept
  <1>2. ASSUME NEW g \in GlxWindows, CreateWindow(t, g) PROVE SeenInv'
    <2>1. /\ Step(t, "app", "malloc") /\ UNCHANGED <<heap, failed>>
          /\ drawable'[t] = g /\ g \notin Windows
          /\ \A u \in Threads \ {t} : drawable'[u] = drawable[u] /\ window'[u] = window[u]
      BY <1>2, WinMapAssumption DEF CreateWindow, Shapes
    <2>2. pc'[t] = "malloc" /\ \A u \in Threads \ {t} : pc'[u] = pc[u]
      BY <2>1, Moved
    <2> QED BY <2>1, <2>2 DEF SeenInv
  <1> QED BY <1>1, <1>2, SeenErrors DEF AppNext

LEMMA SeenHook ==
  ASSUME MapInv, LiveInv, RightInv, HandlerInv, SeenInv, Innocent, mishap' = "none",
         NEW t \in Threads, HookNext(t)
  PROVE  SeenInv'
  <1> USE DEF MapInv, shared, xlib, locals, history, server
  <1>1. CASE Lock(t)
    <2>1. PICK from \in {"swap", "insert", "forget"} : pc[t] = from
      BY <1>1 DEF Lock, AfterLock
    <2>2. AfterLock[from] \in {"find", "link", "seek"} /\ Step(t, from, AfterLock[from])
      BY <1>1, <2>1 DEF Lock, AfterLock, Step
    <2> QED BY <1>1, <2>1, <2>2, SeenKept DEF Lock
  <1>2. CASE Find(t)
    <2>1. PICK to \in {"sync", "deref"} : Step(t, "find", to)
      BY <1>2 DEF Find
    <2> QED BY <1>2, <2>1, SeenKept DEF Find
  <1>3. CASE Deref(t)
    <2>1. \A u \in Threads \ {t} : window'[u] = window[u]
      BY <1>3 DEF Deref, Shapes
    <2> QED BY <1>3, <2>1, SeenKept DEF Deref
  <1>4. CASE Measure(t)
    <2>1. pc[t] = "measure" /\ \A u \in Threads \ {t} : window'[u] = window[u]
      BY <1>4 DEF Measure, Step, Shapes
    <2>2. window[t] # None => window[t] \in live \cap Windows
      BY <2>1, UsedLive DEF RightInv, Reads, Swapping
    <2>3. UNCHANGED failed
      BY <1>4, <2>2 DEF Measure, GetWindowSize
    <2> QED BY <1>4, <2>1, <2>3, SeenKept DEF Measure
  <1>5. CASE XSync(t)
    BY <1>5, SeenKept DEF XSync
  <1>6. CASE Arrive(t)
    BY <1>6, SeenErrors
  <1>7. CASE Link(t) \/ Seek(t) \/ Leave(t)
    <2>1. UNCHANGED <<failed, heap, window>>
          /\ \A u \in Threads \ {t} : drawable'[u] = drawable[u]
      BY <1>7 DEF Link, Seek, Leave, Shapes
    <2>2. PICK from \in {"link", "seek", "leave"}, to \in {"leave", "free", "app"} :
            Step(t, from, to)
      BY <1>7 DEF Link, Seek, Leave
    <2> QED BY <2>1, <2>2, SeenKept
  <1>8. CASE Free(t)
    <2>1. Step(t, "free", "leave") /\ UNCHANGED <<failed, drawable, window>>
      BY <1>8 DEF Free
    <2>2. pc'[t] = "leave" /\ \A u \in Threads \ {t} : pc'[u] = pc[u]
      BY <2>1, Moved
    <2>3. \A b \in Blocks : heap'[b] # None => heap'[b] = heap[b]
      BY <1>8 DEF Free
    <2> QED BY <2>1, <2>2, <2>3 DEF SeenInv
  <1>9. CASE Malloc(t)
    <2>1. /\ UNCHANGED <<failed, drawable>> /\ pc[t] = "malloc"
          /\ \A u \in Threads \ {t} : window'[u] = window[u]
      BY <1>9 DEF Malloc, Step, Shapes
    <2>2. pc'[t] \in {"insert", "leave"} /\ \A u \in Threads \ {t} : pc'[u] = pc[u]
      BY <1>9, Moved DEF Malloc
    <2>3. ASSUME NEW b \in Blocks, heap'[b] # None, heap'[b].glx \in Windows
          PROVE  heap'[b].x11 = heap'[b].glx
      <3>1. CASE heap' = heap
        BY <2>3, <3>1 DEF SeenInv
      <3>2. CASE heap' # heap
        <4>1. heap' = [heap EXCEPT ![m'[t]] = [x11 |-> window[t], glx |-> drawable[t]]]
          BY <1>9, <3>2 DEF Malloc
        <4>2. CASE b = m'[t]
          BY <2>1, <2>3, <4>1, <4>2 DEF SeenInv, Shapes, TypeOK
        <4>3. CASE b # m'[t]
          BY <2>3, <4>1, <4>3 DEF SeenInv
        <4> QED BY <4>2, <4>3
      <3> QED BY <3>1, <3>2
    <2> QED BY <2>1, <2>2, <2>3 DEF SeenInv
  <1>10. ASSUME SetHandler(t) \/ Ask(t) \/ RestoreHandler(t) \/ Judge(t) PROVE SeenInv'
    <2>1. UNCHANGED <<heap, drawable>>
      BY <1>10 DEF SetHandler, Ask, RestoreHandler, Judge
    <2>2. \A u \in Threads \ {t} : pc'[u] = pc[u] /\ window'[u] = window[u]
      BY <1>10, Moved DEF SetHandler, Ask, RestoreHandler, Judge, Shapes
    <2>3. \A u \in Threads \ {t} : pc'[u] \notin {"ask", "restore", "judge"}
      <3>1. CASE SetHandler(t)
        BY <2>2, <3>1 DEF SetHandler, AfterOverlap, Measuring
      <3>2. CASE ~SetHandler(t)
        BY <1>10, <2>2, <3>2, Moved DEF Ask, RestoreHandler, Judge, HandlerInv, Measuring
      <3> QED BY <3>1, <3>2
    <2>4. CASE SetHandler(t)
      <3>1. pc'[t] = "ask" /\ ~failed'
        BY <2>4, Moved DEF SetHandler
      <3> QED BY <2>1, <2>2, <2>3, <3>1 DEF SeenInv
    <2>5. CASE Ask(t)
      <3>1. pc[t] = "ask" /\ pc'[t] = "restore"
        BY <2>5, Moved DEF Ask
      <3>2. ~failed /\ handler = "grab" /\ drawable[t] \in live
        BY <3>1 DEF SeenInv, HandlerInv, LiveInv, Swapping, Asking
      <3>3. drawable[t] \in Windows => ~failed'
        BY <2>5, <3>2 DEF Ask, GetWindowSize
      <3> QED BY <2>1, <2>2, <2>3, <3>1, <3>3 DEF SeenInv
    <2>6. CASE RestoreHandler(t)
      <3>1. pc[t] = "restore" /\ pc'[t] = "judge" /\ failed' = failed
        BY <2>6, Moved DEF RestoreHandler
      <3> QED BY <2>1, <2>2, <2>3, <3>1 DEF SeenInv
    <2>7. CASE Judge(t)
      <3>1. /\ pc[t] = "judge" /\ pc'[t] = "malloc"
            /\ window'[t] = IF failed THEN None ELSE drawable[t]
        BY <2>7, Moved DEF Judge, Shapes
      <3>2. drawable[t] \in Windows => window'[t] = drawable[t]
        BY <3>1 DEF SeenInv
      <3> QED BY <2>1, <2>2, <2>3, <3>1, <3>2 DEF SeenInv
    <2> QED BY <1>10, <2>4, <2>5, <2>6, <2>7
  <1> QED BY <1>1, <1>2, <1>3, <1>4, <1>5, <1>6, <1>7, <1>8, <1>9, <1>10 DEF HookNext

-----------------------------------------------------------------------------

LEMMA EntryInit == Init => EntryInv
  <1> SUFFICES ASSUME Init PROVE EntryInv
    OBVIOUS
  <1>1. \A t \in Threads : pc[t] = "app" /\ drawable[t] = None
    BY DEF Init
  <1>2. Listed = {}
    BY DEF Init, Listed, ToSet
  <1>3. CarefulInv
    BY <1>1, <1>2 DEF CarefulInv, AloneInv, LiveInv, OnceInv, ForgottenInv,
                      Swapping, Asking, Registering
  <1>4. RightInv /\ HandlerInv /\ SeenInv
    BY <1>1 DEF Init, RightInv, HandlerInv, SeenInv, Measuring
  <1> QED BY <1>3, <1>4, MapInit DEF EntryInv

LEMMA EntryNext == EntryInv /\ [Next]_vars => EntryInv'
  <1> SUFFICES ASSUME EntryInv, [Next]_vars PROVE EntryInv'
    OBVIOUS
  <1>1. MapInv /\ MapInv'
    BY MapNext DEF EntryInv
  <1>2. /\ careless => careless'
        /\ Innocent' => Innocent
        /\ mishap' = "none" => mishap = "none"
    BY <1>1, Worse
  <1>3. ASSUME ~careless' PROVE CarefulInv'
    <2>1. CarefulInv
      BY <1>2, <1>3 DEF EntryInv
    <2>2. CASE UNCHANGED vars
      BY <2>1, <2>2 DEF vars, shared, locals, server, CarefulInv, AloneInv, LiveInv, OnceInv,
                        ForgottenInv, Listed
    <2> QED BY <1>1, <1>3, <2>1, <2>2, CarefulCalls, CarefulHook DEF Next
  <1>4. ASSUME Innocent
        PROVE  LiveInv /\ RightInv /\ HandlerInv
    BY <1>4 DEF EntryInv, CarefulInv, Innocent, careless
  <1>5. ASSUME Innocent' PROVE RightInv' /\ HandlerInv'
    <2>1. Innocent /\ LiveInv /\ RightInv /\ HandlerInv
      BY <1>2, <1>4, <1>5
    <2>2. ASSUME NEW t \in Threads, HookNext(t) PROVE RightInv' /\ HandlerInv'
      BY <1>1, <1>5, <2>1, <2>2, InnocentList, InnocentEntries, InnocentMeasure, InnocentAsk,
         InnocentErrors DEF HookNext
    <2>3. ASSUME NEW t \in Threads, AppNext(t) PROVE RightInv' /\ HandlerInv'
      BY <1>1, <2>1, <2>3, InnocentCalls
    <2>4. CASE UNCHANGED vars
      <3>1. UNCHANGED <<heap, pc, drawable, window, failed, handler, orig, blamed>>
        BY <2>4 DEF vars, shared, xlib, locals, history
      <3>2. RightInv'
        BY <2>1, <3>1 DEF RightInv, Right, Reads, Uses
      <3>3. HandlerInv'
        BY <2>1, <3>1 DEF HandlerInv, Measuring
      <3> QED BY <3>2, <3>3
    <2> QED BY <2>2, <2>3, <2>4 DEF Next
  <1>6. ASSUME mishap' = "none" PROVE SeenInv'
    <2>1. Innocent /\ SeenInv
      BY <1>2, <1>6 DEF EntryInv, Innocent
    <2>2. CASE UNCHANGED vars
      BY <2>1, <2>2 DEF vars, shared, xlib, locals, SeenInv
    <2> QED BY <1>1, <1>4, <1>6, <2>1, <2>2, SeenCalls, SeenHook DEF Next
  <1> QED BY <1>1, <1>3, <1>5, <1>6 DEF EntryInv

LEMMA EntryInvariant == Spec => []EntryInv
  BY EntryInit, EntryNext, PTL DEF Spec

(* As long as nothing in use is destroyed and no two measurements overlap, *)
(* the map says the right window of every drawable it knows, or none; and  *)
(* of a window it says none only if an error of another thread of the      *)
(* application has arrived during a measurement, whatever errors the       *)
(* measuring thread has made itself before.                                *)
THEOREM MapSaysTrue == Spec => []EntriesTrue
  <1>1. ASSUME EntryInv, Innocent, NEW b \in Listed
        PROVE  /\ heap[b].glx \in Windows =>
                    \/ heap[b].x11 = heap[b].glx
                    \/ mishap = "strayed" /\ heap[b].x11 = None
               /\ heap[b].glx \in GlxWindows => heap[b].x11 \in {None, Parent[heap[b].glx]}
               /\ heap[b].glx \in Others => heap[b].x11 = None
    <2>1. b \in Blocks /\ heap[b] # None /\ Right(heap[b])
      BY <1>1, ListedEntries DEF EntryInv, RightInv
    <2>2. CASE mishap = "none"
      BY <1>1, <2>1, <2>2 DEF EntryInv, SeenInv, Right
    <2>3. CASE mishap = "strayed"
      BY <2>1, <2>3 DEF Right
    <2> QED BY <1>1, <2>2, <2>3 DEF Innocent
  <1>2. EntryInv => EntriesTrue
    BY <1>1 DEF EntriesTrue, Listed
  <1> QED BY <1>2, EntryInvariant, PTL

(* Nor does the application then get an error that glgrab has caused, and  *)
(* its handler is back as soon as nothing is being measured.               *)
THEOREM ErrorsKeptAway == Spec => []AppSparedErrors
  <1>1. EntryInv => AppSparedErrors
    BY DEF EntryInv, HandlerInv, AppSparedErrors
  <1> QED BY <1>1, EntryInvariant, PTL

(* What has been destroyed is in the map no longer than its destruction    *)
(* takes, if the application does not destroy what is in use.              *)
THEOREM MapForgets == Spec => []DestroyedForgotten
  <1>1. EntryInv => DestroyedForgotten
    BY DEF EntryInv, CarefulInv, ForgottenInv, DestroyedForgotten, Listed
  <1> QED BY <1>1, EntryInvariant, PTL


=============================================================================
