---------------------------- MODULE MrbFileProof ----------------------------
(* Proofs about the life of the buffer's file, for any number of sessions  *)
(* and readers and any geometry.                                           *)
EXTENDS MrbFile, TLAPS

Building == {"truncate", "map", "mirror", "close", "store"}

(* What a session has done to its own file, by its program counter.        *)
SessionInv(s) ==
  /\ wpc[s] \in Building \cup {"unlink", "ready", "down"} => wfd[s] = s
  /\ wpc[s] \in {"map", "mirror", "close", "store", "ready"} =>
       file[s].size = FileSize
  /\ wpc[s] \in Building \cup {"script", "open", "unlink"} => ~file[s].active
  /\ wpc[s] \in {"script", "open", "failed"} => path # s
  /\ file[s].active => file[s].set = Fields

(* What a reader knows of the file it has opened.                          *)
ReaderInv(r) ==
  /\ rpc[r] \in {"fstat", "pread", "map", "mirror", "close"} =>
       rfd[r] \in Sessions
  /\ rpc[r] \in {"map", "mirror", "close"} =>
       file[rfd[r]].set = Fields /\ rmax[r] = MaxItem
  /\ rq[r] # NoQueue => rpc[r] = "opened"

IInv ==
  /\ TypeOK
  /\ \A s \in Sessions : SessionInv(s)
  /\ \A r \in Readers : ReaderInv(r)
  /\ OpenedMatchesWriter

-----------------------------------------------------------------------------

LEMMA InitInv == Init => IInv
  BY MrbFileAssumption
  DEF Init, IInv, TypeOK, SessionInv, ReaderInv, OpenedMatchesWriter, Building,
      NewFile, NoQueue, Fields

File == [size : {0, FileSize}, set : SUBSET Fields, active : BOOLEAN]

(* One field of one file is changed: what becomes of the others.           *)

LEMMA SizeChanged ==
  ASSUME NEW f \in [Sessions -> File], NEW s \in Sessions
  PROVE  LET g == [f EXCEPT ![s].size = FileSize]
         IN  /\ g \in [Sessions -> File]
             /\ \A t \in Sessions : g[t].set = f[t].set
  BY DEF File

LEMMA SetChanged ==
  ASSUME NEW f \in [Sessions -> File], NEW s \in Sessions, NEW x \in Fields
  PROVE  LET g == [f EXCEPT ![s].set = @ \cup {x}]
         IN  /\ g \in [Sessions -> File]
             /\ \A t \in Sessions : f[t].set = Fields => g[t].set = Fields
  BY DEF File, Fields

LEMMA ActiveChanged ==
  ASSUME NEW f \in [Sessions -> File], NEW s \in Sessions, NEW b \in BOOLEAN
  PROVE  LET g == [f EXCEPT ![s].active = b]
         IN  /\ g \in [Sessions -> File]
             /\ \A t \in Sessions : g[t].set = f[t].set
  BY DEF File

(* What a step of a session has to establish: readers only rely on a       *)
(* complete header staying complete.                                       *)
LEMMA SessionStep ==
  ASSUME IInv, NEW s \in Sessions, SessionNext(s)
  PROVE  /\ TypeOK'
         /\ \A t \in Sessions : SessionInv(t)'
         /\ \A t \in Sessions : file[t].set = Fields => file'[t].set = Fields
         /\ UNCHANGED reader
  <1> DEFINE Kept == \A t \in Sessions : file[t].set = Fields => file'[t].set = Fields
             Inv == \A t \in Sessions : SessionInv(t)'
  <1> USE DEF Step, reader
  <1>0. /\ TypeOK /\ \A t \in Sessions : SessionInv(t)
        /\ file \in [Sessions -> File]
    BY DEF IInv, TypeOK, File
  <1>1. CASE ScriptTests(s)
    BY <1>0, <1>1, MrbFileAssumption DEF ScriptTests, SessionInv, Building, TypeOK
  <1>2. CASE Open(s)
    BY <1>0, <1>2, MrbFileAssumption DEF Open, SessionInv, Building, TypeOK
  <1>3. CASE OpenFails(s)
    BY <1>0, <1>3, MrbFileAssumption DEF OpenFails, SessionInv, Building, TypeOK
  <1>4. CASE Truncate(s)
    <2>1. file' = [file EXCEPT ![s].size = FileSize]
      BY <1>0, <1>4 DEF Truncate, SessionInv, Building
    <2>2. file' \in [Sessions -> File] /\ Kept
      BY <1>0, <2>1, SizeChanged
    <2>3. TypeOK' /\ UNCHANGED reader
      BY <1>0, <1>4, <2>2 DEF Truncate, File, TypeOK
    <2>4. Inv
      BY <1>0, <1>4, <2>1 DEF Truncate, SessionInv, Building, File, TypeOK
    <2> QED BY <2>2, <2>3, <2>4
  <1>5. CASE MapAndClose(s)
    BY <1>0, <1>5, MrbFileAssumption DEF MapAndClose, SessionInv, Building, TypeOK
  <1>6. CASE CallFails(s)
    BY <1>0, <1>6, MrbFileAssumption DEF CallFails, SessionInv, Building, TypeOK
  <1>7. CASE Unlink(s)
    BY <1>0, <1>7, MrbFileAssumption DEF Unlink, SessionInv, Building, TypeOK
  <1>8. CASE StoreField(s)
    <2>1. \E x \in Fields : file' = [file EXCEPT ![s].set = @ \cup {x}]
      BY <1>0, <1>8 DEF StoreField, SessionInv, Building
    <2>2. file' \in [Sessions -> File] /\ Kept
      BY <1>0, <2>1, SetChanged
    <2>3. TypeOK' /\ UNCHANGED reader
      BY <1>0, <1>8, <2>2 DEF StoreField, File, TypeOK
    <2>4. Inv
      BY <1>0, <1>8, <2>1 DEF StoreField, SessionInv, Building, File, TypeOK
    <2> QED BY <2>2, <2>3, <2>4
  <1>9. CASE StoreActive(s)
    <2>1. file' = [file EXCEPT ![s].active = TRUE]
      BY <1>0, <1>9 DEF StoreActive, SessionInv, Building
    <2>2. file' \in [Sessions -> File] /\ Kept
      BY <1>0, <2>1, ActiveChanged
    <2>3. TypeOK' /\ UNCHANGED reader
      BY <1>0, <1>9, <2>2 DEF StoreActive, File, TypeOK
    <2>4. Inv
      BY <1>0, <1>9, <2>1 DEF StoreActive, SessionInv, Building, File, TypeOK
    <2> QED BY <2>2, <2>3, <2>4
  <1>10. CASE Shutdown(s)
    <2>1. file' = [file EXCEPT ![s].active = FALSE]
      BY <1>0, <1>10 DEF Shutdown, SessionInv, Building
    <2>2. file' \in [Sessions -> File] /\ Kept
      BY <1>0, <2>1, ActiveChanged
    <2>3. TypeOK' /\ UNCHANGED reader
      BY <1>0, <1>10, <2>2 DEF Shutdown, File, TypeOK
    <2>4. Inv
      BY <1>0, <1>10, <2>1 DEF Shutdown, SessionInv, Building, File, TypeOK
    <2> QED BY <2>2, <2>3, <2>4
  <1>11. CASE Exit(s)
    BY <1>0, <1>11, MrbFileAssumption DEF Exit, SessionInv, Building, TypeOK
  <1>12. CASE TrapRemoves(s)
    BY <1>0, <1>12, MrbFileAssumption DEF TrapRemoves, SessionInv, Building, TypeOK
  <1> QED BY <1>1, <1>2, <1>3, <1>4, <1>5, <1>6, <1>7, <1>8, <1>9, <1>10, <1>11, <1>12 DEF SessionNext

LEMMA ReaderStep ==
  ASSUME IInv, NEW r \in Readers, ReaderNext(r)
  PROVE  /\ TypeOK'
         /\ \A q \in Readers : ReaderInv(q)'
         /\ OpenedMatchesWriter'
         /\ UNCHANGED <<path, file, session>>
  <1> USE MrbFileAssumption DEF Goto, Returns, session, NoQueue, FileSize
  <1>0. /\ TypeOK /\ OpenedMatchesWriter
        /\ \A s \in Sessions : SessionInv(s)
        /\ \A q \in Readers : ReaderInv(q)
    BY DEF IInv
  <1>1. CASE ReaderOpen(r)
    <2>1. TypeOK' /\ UNCHANGED <<path, file, session>>
      BY <1>0, <1>1 DEF ReaderOpen, TypeOK, ReaderInv
    <2>2. \A q \in Readers : ReaderInv(q)'
      BY <1>0, <1>1 DEF ReaderOpen, TypeOK, ReaderInv
    <2>3. OpenedMatchesWriter'
      BY <1>0, <1>1 DEF ReaderOpen, TypeOK, ReaderInv, OpenedMatchesWriter, Fields
    <2> QED BY <2>1, <2>2, <2>3
  <1>2. CASE ReaderFails(r)
    <2>1. TypeOK' /\ UNCHANGED <<path, file, session>>
      BY <1>0, <1>2 DEF ReaderFails, TypeOK, ReaderInv
    <2>2. \A q \in Readers : ReaderInv(q)'
      BY <1>0, <1>2 DEF ReaderFails, TypeOK, ReaderInv
    <2>3. OpenedMatchesWriter'
      BY <1>0, <1>2 DEF ReaderFails, TypeOK, ReaderInv, OpenedMatchesWriter, Fields
    <2> QED BY <2>1, <2>2, <2>3
  <1>3. CASE Fstat(r)
    <2>1. TypeOK' /\ UNCHANGED <<path, file, session>>
      BY <1>0, <1>3 DEF Fstat, TypeOK, ReaderInv
    <2>2. \A q \in Readers : ReaderInv(q)'
      BY <1>0, <1>3 DEF Fstat, TypeOK, ReaderInv
    <2>3. OpenedMatchesWriter'
      BY <1>0, <1>3 DEF Fstat, TypeOK, ReaderInv, OpenedMatchesWriter, Fields
    <2> QED BY <2>1, <2>2, <2>3
  <1>4. CASE PreadShort(r)
    <2>1. TypeOK' /\ UNCHANGED <<path, file, session>>
      BY <1>0, <1>4 DEF PreadShort, TypeOK, ReaderInv
    <2>2. \A q \in Readers : ReaderInv(q)'
      BY <1>0, <1>4 DEF PreadShort, TypeOK, ReaderInv
    <2>3. OpenedMatchesWriter'
      BY <1>0, <1>4 DEF PreadShort, TypeOK, ReaderInv, OpenedMatchesWriter, Fields
    <2> QED BY <2>1, <2>2, <2>3
  <1>5. CASE PreadInactive(r)
    <2>1. TypeOK' /\ UNCHANGED <<path, file, session>>
      BY <1>0, <1>5 DEF PreadInactive, TypeOK, ReaderInv
    <2>2. \A q \in Readers : ReaderInv(q)'
      BY <1>0, <1>5 DEF PreadInactive, TypeOK, ReaderInv
    <2>3. OpenedMatchesWriter'
      BY <1>0, <1>5 DEF PreadInactive, TypeOK, ReaderInv, OpenedMatchesWriter, Fields
    <2> QED BY <2>1, <2>2, <2>3
  <1>6. CASE PreadActive(r)
    <2>1. TypeOK' /\ UNCHANGED <<path, file, session>>
      BY <1>0, <1>6 DEF PreadActive, TypeOK, ReaderInv
    <2>2. \A q \in Readers : ReaderInv(q)'
      <3>1. rfd[r] \in Sessions /\ file[rfd[r]].active /\ rpc[r] = "pread"
        BY <1>0, <1>6 DEF PreadActive, ReaderInv
      <3>2. file[rfd[r]].set = Fields
        BY <1>0, <3>1 DEF SessionInv
      <3>3. rmax' = [rmax EXCEPT ![r] = MaxItem]
        BY <1>6, <3>2 DEF PreadActive, Fields
      <3> QED
        BY <1>0, <1>6, <3>1, <3>2, <3>3 DEF PreadActive, TypeOK, ReaderInv
    <2>3. OpenedMatchesWriter'
      BY <1>0, <1>6 DEF PreadActive, TypeOK, ReaderInv, OpenedMatchesWriter, Fields
    <2> QED BY <2>1, <2>2, <2>3
  <1>7. CASE ReaderMap(r)
    <2>1. TypeOK' /\ UNCHANGED <<path, file, session>>
      BY <1>0, <1>7 DEF ReaderMap, TypeOK, ReaderInv
    <2>2. \A q \in Readers : ReaderInv(q)'
      BY <1>0, <1>7 DEF ReaderMap, TypeOK, ReaderInv
    <2>3. OpenedMatchesWriter'
      BY <1>0, <1>7 DEF ReaderMap, TypeOK, ReaderInv, OpenedMatchesWriter, Fields
    <2> QED BY <2>1, <2>2, <2>3
  <1>8. CASE ReaderOpened(r)
    <2>1. TypeOK' /\ UNCHANGED <<path, file, session>>
      BY <1>0, <1>8 DEF ReaderOpened, TypeOK, ReaderInv
    <2>2. \A q \in Readers : ReaderInv(q)'
      BY <1>0, <1>8 DEF ReaderOpened, TypeOK, ReaderInv
    <2>3. OpenedMatchesWriter'
      <3>1. rmax[r] = MaxItem /\ file[rfd[r]].set = Fields
        BY <1>0, <1>8 DEF ReaderOpened, ReaderInv
      <3>2. ASSUME rstat[r] = FileSize
            PROVE  rq'[r] = [size |-> Size, max |-> MaxItem, bits |-> TRUE]
        <4> DEFINE bits == rstat[r] # 0 /\ "bits" \in file[rfd[r]].set
        <4>1. rq'[r] = [size |-> rstat[r] - 1, max |-> rmax[r], bits |-> bits]
          BY <1>0, <1>8 DEF ReaderOpened, TypeOK
        <4>2. rstat[r] # 0 /\ rstat[r] - 1 = Size
          BY <3>2
        <4>3. bits = TRUE
          BY <3>1, <4>2 DEF Fields
        <4> QED BY <3>1, <4>1, <4>2, <4>3
      <3>3. /\ rstat' = rstat
            /\ \A q \in Readers \ {r} : rq'[q] = rq[q]
        BY <1>0, <1>8 DEF ReaderOpened, TypeOK
      <3> QED BY <1>0, <3>2, <3>3 DEF OpenedMatchesWriter
    <2> QED BY <2>1, <2>2, <2>3
  <1>9. CASE ReaderClose(r)
    <2>1. TypeOK' /\ UNCHANGED <<path, file, session>>
      BY <1>0, <1>9 DEF ReaderClose, TypeOK, ReaderInv
    <2>2. \A q \in Readers : ReaderInv(q)'
      BY <1>0, <1>9 DEF ReaderClose, TypeOK, ReaderInv
    <2>3. OpenedMatchesWriter'
      BY <1>0, <1>9 DEF ReaderClose, TypeOK, ReaderInv, OpenedMatchesWriter, Fields
    <2> QED BY <2>1, <2>2, <2>3
  <1> QED BY <1>1, <1>2, <1>3, <1>4, <1>5, <1>6, <1>7, <1>8, <1>9 DEF ReaderNext

(* The invariant is preserved by every step.                               *)
LEMMA NextInv == IInv /\ [Next]_vars => IInv'
  <1> SUFFICES ASSUME IInv, [Next]_vars PROVE IInv'
    OBVIOUS
  <1>1. ASSUME NEW s \in Sessions, SessionNext(s) PROVE IInv'
    <2>1. TypeOK' /\ UNCHANGED reader /\ \A t \in Sessions : SessionInv(t)'
      BY <1>1, SessionStep
    <2>2. \A t \in Sessions : file[t].set = Fields => file'[t].set = Fields
      BY <1>1, SessionStep
    <2>3. \A r \in Readers : ReaderInv(r)'
      BY <2>1, <2>2 DEF IInv, ReaderInv, reader
    <2>4. OpenedMatchesWriter'
      BY <2>1 DEF IInv, OpenedMatchesWriter, reader
    <2> QED BY <2>1, <2>3, <2>4 DEF IInv
  <1>2. ASSUME NEW r \in Readers, ReaderNext(r) PROVE IInv'
    <2>1. UNCHANGED <<path, file, session>>
      BY <1>2, ReaderStep
    <2>2. \A s \in Sessions : SessionInv(s)'
      BY <2>1 DEF IInv, SessionInv, session
    <2> QED BY <1>2, <2>2, ReaderStep DEF IInv
  <1>3. CASE UNCHANGED vars
    BY <1>3 DEF IInv, TypeOK, SessionInv, ReaderInv, OpenedMatchesWriter, vars,
       session, reader
  <1> QED BY <1>1, <1>2, <1>3 DEF Next, Finished

LEMMA Invariance == Spec => []IInv
  BY InitInv, NextInv, PTL DEF Spec

-----------------------------------------------------------------------------

(* Every variable stays in its range: in particular a file has either no   *)
(* size or its full size, and never another one.                           *)
THEOREM FileTypeCorrect == Spec => []TypeOK
  BY Invariance, PTL DEF IInv

(* mrb_open() that saw the size of the file agrees with mrb_create() on    *)
(* the layout of the buffer.                                               *)
THEOREM OpenedMatches == Spec => []OpenedMatchesWriter
  BY Invariance, PTL DEF IInv

(* A mrb_create() that has failed has left no file at the path.            *)
THEOREM FailedCreateLeavesNothing == Spec => []FailedCreateUnlinked
  <1>1. IInv => FailedCreateUnlinked
    BY DEF IInv, SessionInv, FailedCreateUnlinked
  <1> QED BY <1>1, Invariance, PTL

(* Nobody but its owner touches a buffer in use, and the owner only ends   *)
(* its use.                                                                *)
THEOREM NeverRebuilt == Spec => ActiveNotRebuilt
  <1> DEFINE Kept(s) == file[s].active =>
               file'[s] \in {file[s], [file[s] EXCEPT !.active = FALSE]}
  <1>1. ASSUME IInv, [Next]_vars PROVE \A s \in Sessions : Kept(s)
    <2>1. TypeOK /\ \A s \in Sessions : SessionInv(s)
      BY <1>1 DEF IInv
    <2>2. ASSUME NEW t \in Sessions, SessionNext(t)
          PROVE  \A s \in Sessions : Kept(s)
      <3>1. CASE Truncate(t) \/ StoreField(t) \/ StoreActive(t)
        BY <2>1, <3>1 DEF SessionInv, Building, TypeOK, Truncate, StoreField,
           StoreActive, Step
      <3>2. CASE Shutdown(t)
        BY <2>1, <3>2 DEF SessionInv, Building, TypeOK, Shutdown, Step
      <3>3. CASE UNCHANGED file
        BY <3>3
      <3> QED BY <2>2, <3>1, <3>2, <3>3 DEF SessionNext, ScriptTests, Open,
             OpenFails, MapAndClose, CallFails, Unlink, Exit, TrapRemoves
    <2>3. ASSUME NEW r \in Readers, ReaderNext(r)
          PROVE  \A s \in Sessions : Kept(s)
      BY <1>1, <2>3, ReaderStep
    <2> QED BY <1>1, <2>2, <2>3 DEF Next, Finished, vars
  <1> QED BY <1>1, Invariance, PTL DEF Spec, ActiveNotRebuilt

=============================================================================
