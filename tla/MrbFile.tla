------------------------------ MODULE MrbFile -------------------------------
(* The file behind a ring buffer: who creates it, who opens it and who     *)
(* removes it.  A session is one run of the glgrab script (glgrab.in) and  *)
(* of the application it starts, which calls mrb_create() (mrb_write.c)    *)
(* and mrb_shutdown(); a reader is a process that calls mrb_open() and     *)
(* mrb_close() (mrb_read.c).  All of them were given the same path.        *)
(*                                                                         *)
(* A step is one system call or one store to the shared header.  Any       *)
(* system call may fail.  A file is named by the session that created it.  *)
(* Sizes are counted in pages; the header takes the first page.            *)
EXTENDS Integers

CONSTANTS
  Sessions, Readers,
  NoFile,    (* the path leads nowhere                                    *)
  Size,      (* pages of the ring                                         *)
  MaxItem    (* pages of the mirror                                       *)

ASSUME MrbFileAssumption ==
  /\ NoFile \notin Sessions
  /\ Size \in Nat \ {0}
  /\ MaxItem \in Nat

VARIABLES
  path,      (* the file the path leads to                                *)
  file,      (* the contents of every file                                *)
  wpc,       (* where a session is                                        *)
  wfd,       (* the file a session has opened                             *)
  rpc,       (* where a reader is                                         *)
  rfd,       (* the file a reader has opened                              *)
  errno,     (* of a reader: is it set?                                   *)
  rstat,     (* mrb_open(): st.st_size                                    *)
  rmax,      (* mrb_open(): header.max_item_size                          *)
  rq         (* what mrb_open() has filled in of struct mrb               *)

session == <<wpc, wfd>>
reader  == <<rpc, rfd, errno, rstat, rmax, rq>>
vars    == <<path, file, session, reader>>

-----------------------------------------------------------------------------

(* Header fields written before active: align_bits and off_bits,           *)
(* max_item_size, tail.  ftruncate() leaves them zero.                     *)
Fields   == {"bits", "max", "tail"}
FileSize == Size + 1
NewFile  == [size |-> 0, set |-> {}, active |-> FALSE]
NoQueue  == [size |-> 0, max |-> 0, bits |-> FALSE]

Init ==
  /\ path = NoFile
  /\ file = [s \in Sessions |-> NewFile]
  /\ wpc = [s \in Sessions |-> "script"]
  /\ wfd = [s \in Sessions |-> NoFile]
  /\ rpc = [r \in Readers |-> "open"]
  /\ rfd = [r \in Readers |-> NoFile]
  /\ errno \in [Readers -> BOOLEAN]
  /\ rstat = [r \in Readers |-> 0]
  /\ rmax = [r \in Readers |-> 0]
  /\ rq = [r \in Readers |-> NoQueue]

-----------------------------------------------------------------------------
(* A session                                                               *)

Step(s, from, to) ==
  /\ wpc[s] = from
  /\ wpc' = [wpc EXCEPT ![s] = to]
  /\ UNCHANGED reader

(* The script goes on only if there is no file at the path.                *)
ScriptTests(s) ==
  /\ Step(s, "script", IF path = NoFile THEN "open" ELSE "end")
  /\ UNCHANGED <<path, file, wfd>>

Open_Truncates(s) ==
  /\ Step(s, "open", "truncate")
  /\ wfd' = [wfd EXCEPT ![s] = IF path = NoFile THEN s ELSE path]
  /\ path' = wfd'[s]
  /\ file' = [file EXCEPT ![path'] = NewFile]

(* open(O_CREAT | O_EXCL)                                                  *)
Open(s) ==
  /\ path = NoFile
  /\ Step(s, "open", "truncate")
  /\ wfd' = [wfd EXCEPT ![s] = s]
  /\ path' = s
  /\ UNCHANGED file

(* EEXIST if there is a file, or any other error.                          *)
OpenFails(s) ==
  /\ Step(s, "open", "failed")
  /\ UNCHANGED <<path, file, wfd>>

Truncate(s) ==
  /\ Step(s, "truncate", "map")
  /\ file' = [file EXCEPT ![wfd[s]].size = FileSize]
  /\ UNCHANGED <<path, wfd>>

(* mmap() of the file and, if there is to be a mirror, of the ring again;  *)
(* close().                                                                *)
MapAndClose(s) ==
  /\ \/ Step(s, "map", IF MaxItem # 0 THEN "mirror" ELSE "close")
     \/ Step(s, "mirror", "close")
     \/ Step(s, "close", "store")
  /\ UNCHANGED <<path, file, wfd>>

(* A failure after open(): whatever was mapped is unmapped, and close().   *)
CallFails(s) ==
  /\ \E pc \in {"truncate", "map", "mirror", "close"} : Step(s, pc, "unlink")
  /\ UNCHANGED <<path, file, wfd>>

Unlink_Forgotten(s) ==
  /\ Step(s, "unlink", "failed")
  /\ UNCHANGED <<path, file, wfd>>

(* unlink() of our own new file does not fail.                             *)
Unlink(s) ==
  /\ Step(s, "unlink", "failed")
  /\ path' = NoFile
  /\ UNCHANGED <<file, wfd>>

(* Plain stores: the compiler may put them in any order.                   *)
StoreField(s) ==
  /\ Step(s, "store", "store")
  /\ \E f \in Fields \ file[wfd[s]].set :
       file' = [file EXCEPT ![wfd[s]].set = @ \cup {f}]
  /\ UNCHANGED <<path, wfd>>

StoreActive_TooEarly(s) ==
  /\ Step(s, "store", "ready")
  /\ "tail" \in file[wfd[s]].set
  /\ file' = [file EXCEPT ![wfd[s]].active = TRUE]
  /\ UNCHANGED <<path, wfd>>

(* A store with release semantics, after all of them: mrb_create() is done.*)
StoreActive(s) ==
  /\ Step(s, "store", "ready")
  /\ file[wfd[s]].set = Fields
  /\ file' = [file EXCEPT ![wfd[s]].active = TRUE]
  /\ UNCHANGED <<path, wfd>>

(* mrb_shutdown()                                                          *)
Shutdown(s) ==
  /\ Step(s, "ready", "down")
  /\ file' = [file EXCEPT ![wfd[s]].active = FALSE]
  /\ UNCHANGED <<path, wfd>>

(* The application exits or is killed, at any point.  A script without -k  *)
(* goes on to its EXIT trap, one with -k has been replaced by it.          *)
Exit(s) ==
  /\ \E to \in {"trap", "end"} :
       \E from \in {"open", "truncate", "map", "mirror", "close", "unlink",
                    "store", "ready", "down", "failed"} : Step(s, from, to)
  /\ UNCHANGED <<path, file, wfd>>

(* rm -f                                                                   *)
TrapRemoves(s) ==
  /\ Step(s, "trap", "end")
  /\ path' = NoFile
  /\ UNCHANGED <<file, wfd>>

SessionNext(s) ==
  \/ ScriptTests(s) \/ Open(s) \/ OpenFails(s) \/ Truncate(s)
  \/ MapAndClose(s) \/ CallFails(s) \/ Unlink(s)
  \/ StoreField(s) \/ StoreActive(s)
  \/ Shutdown(s) \/ Exit(s) \/ TrapRemoves(s)

-----------------------------------------------------------------------------
(* A reader                                                                *)

Goto(r, from, to) ==
  /\ rpc[r] = from
  /\ rpc' = [rpc EXCEPT ![r] = to]
  /\ UNCHANGED <<path, file, session>>

(* mrb_open() returns errno when it fails.  Whoever is told an error may   *)
(* try again; whoever is told 0 believes that the buffer is open.          *)
Returns(e) == IF e THEN "open" ELSE "opened"

ReaderOpen(r) ==
  /\ path # NoFile
  /\ Goto(r, "open", "fstat")
  /\ rfd' = [rfd EXCEPT ![r] = path]
  /\ UNCHANGED <<errno, rstat, rmax, rq>>

(* The call at pc fails and sets errno; the caller may try again.          *)
ReaderFails(r) ==
  /\ \E pc \in {"open", "fstat", "pread", "map", "mirror", "close"} :
       Goto(r, pc, Returns(TRUE))
  /\ errno' = [errno EXCEPT ![r] = TRUE]
  /\ UNCHANGED <<rfd, rstat, rmax, rq>>

Fstat(r) ==
  /\ Goto(r, "fstat", "pread")
  /\ rstat' = [rstat EXCEPT ![r] = file[rfd[r]].size]
  /\ UNCHANGED <<rfd, errno, rmax, rq>>

(* The file has not got its size yet: nothing is read, which is no error   *)
(* for pread(), and errno is whatever it was.                              *)
PreadShort(r) ==
  /\ Goto(r, "pread", Returns(errno[r]))
  /\ file[rfd[r]].size = 0
  /\ UNCHANGED <<rfd, errno, rstat, rmax, rq>>

(* EAGAIN                                                                  *)
PreadInactive(r) ==
  /\ Goto(r, "pread", Returns(TRUE))
  /\ file[rfd[r]].size # 0
  /\ ~file[rfd[r]].active
  /\ errno' = [errno EXCEPT ![r] = TRUE]
  /\ UNCHANGED <<rfd, rstat, rmax, rq>>

PreadActive_Unchecked(r) ==
  /\ Goto(r, "pread", "map")
  /\ file[rfd[r]].size # 0
  /\ rmax' = [rmax EXCEPT ![r] =
                IF "max" \in file[rfd[r]].set THEN MaxItem ELSE 0]
  /\ UNCHANGED <<rfd, errno, rstat, rq>>

(* The whole header lies in one cache line and is copied at once.          *)
PreadActive(r) ==
  /\ Goto(r, "pread", "map")
  /\ file[rfd[r]].size # 0
  /\ file[rfd[r]].active
  /\ rmax' = [rmax EXCEPT ![r] =
                IF "max" \in file[rfd[r]].set THEN MaxItem ELSE 0]
  /\ UNCHANGED <<rfd, errno, rstat, rq>>

(* mmap() refuses to map nothing: see ReaderFails.                         *)
ReaderMap(r) ==
  /\ \/ /\ rstat[r] + rmax[r] # 0
        /\ Goto(r, "map", IF rmax[r] # 0 THEN "mirror" ELSE "close")
     \/ Goto(r, "mirror", "close")
  /\ UNCHANGED <<rfd, errno, rstat, rmax, rq>>

(* close() and the rest of mrb_open(), which takes align_bits and off_bits *)
(* from the mapping.  If st_size was 0 the mirror lies over the header.    *)
ReaderOpened(r) ==
  /\ Goto(r, "close", "opened")
  /\ rq' = [rq EXCEPT ![r] =
              [size |-> rstat[r] - 1, max |-> rmax[r],
               bits |-> rstat[r] # 0 /\ "bits" \in file[rfd[r]].set]]
  /\ UNCHANGED <<rfd, errno, rstat, rmax>>

(* mrb_close(), or the end of the process.                                 *)
ReaderClose(r) ==
  /\ \/ Goto(r, "opened", "end")
     \/ Goto(r, "open", "end")
  /\ rq' = [rq EXCEPT ![r] = NoQueue]
  /\ UNCHANGED <<rfd, errno, rstat, rmax>>

ReaderNext(r) ==
  \/ ReaderOpen(r) \/ ReaderFails(r) \/ Fstat(r)
  \/ PreadShort(r) \/ PreadInactive(r) \/ PreadActive(r)
  \/ ReaderMap(r) \/ ReaderOpened(r) \/ ReaderClose(r)

Finished ==
  /\ \A s \in Sessions : wpc[s] = "end"
  /\ \A r \in Readers : rpc[r] = "end"
  /\ UNCHANGED vars

Next ==
  \/ \E s \in Sessions : SessionNext(s)
  \/ \E r \in Readers : ReaderNext(r)
  \/ Finished

Spec == Init /\ [][Next]_vars

-----------------------------------------------------------------------------
(* Properties                                                              *)

(* Every variable stays in its range; a file has its full size or none.    *)
TypeOK ==
  /\ path \in Sessions \cup {NoFile}
  /\ file \in [Sessions -> [size : {0, FileSize}, set : SUBSET Fields,
                            active : BOOLEAN]]
  /\ wpc \in [Sessions -> {"script", "open", "truncate", "map", "mirror",
                           "close", "store", "ready", "down", "unlink",
                           "failed", "trap", "end"}]
  /\ wfd \in [Sessions -> Sessions \cup {NoFile}]
  /\ rpc \in [Readers -> {"open", "fstat", "pread", "map", "mirror", "close",
                          "opened", "end"}]
  /\ rfd \in [Readers -> Sessions \cup {NoFile}]
  /\ errno \in [Readers -> BOOLEAN]
  /\ rstat \in [Readers -> {0, FileSize}]
  /\ rmax \in [Readers -> {0, MaxItem}]
  /\ rq \in [Readers -> [size : {-1, 0, Size}, max : {0, MaxItem},
                         bits : BOOLEAN]]

(* Two sessions that raced past the script's test: the one that comes      *)
(* second never touches the header of a buffer in use.                     *)
ActiveNotRebuilt ==
  [][\A s \in Sessions :
       file[s].active => file'[s] \in {file[s], [file[s] EXCEPT !.active = FALSE]}
  ]_vars

(* What a reader was told of the buffer's layout is what the writer works  *)
(* with, provided fstat() did not come before ftruncate(): the whole       *)
(* header had been written when active was seen, though nothing locks it.  *)
OpenedMatchesWriter ==
  \A r \in Readers :
    rq[r] # NoQueue /\ rstat[r] = FileSize =>
      rq[r] = [size |-> Size, max |-> MaxItem, bits |-> TRUE]

(* A failed mrb_create() leaves nothing behind that would keep the next    *)
(* one from succeeding.                                                    *)
FailedCreateUnlinked ==
  \A s \in Sessions : wpc[s] = "failed" => path # s

=============================================================================
