------------------------------ MODULE WinMapInv ------------------------------
(* An inductive invariant of the window map: who owns a block, what the    *)
(* map says of drawables, and whose error handler Xlib calls.              *)
EXTENDS WinMap

Places == {"app", "swap", "find", "deref", "measure", "sync", "set", "ask", "restore",
           "judge", "malloc", "insert", "link", "forget", "seek", "free", "leave"}

(* TypeOK, and that what threads have is a function of the thread.         *)
Shapes ==
  /\ TypeOK
  /\ pc \in [Threads -> Places]
  /\ {drawable, window} \subseteq [Threads -> Drawables \cup {None}]
  /\ m \in [Threads -> Blocks \cup {None}]
  /\ orig \in [Threads -> {"app", "grab"}]

-----------------------------------------------------------------------------
(* Whatever the application does                                           *)

Listed == ToSet(winmap)

(* The lock is had by one thread at a time.                                *)
Inside == {"find", "deref", "link", "seek"}

LockInv ==
  /\ \A t \in Threads : pc[t] \in Inside => lock
  /\ \A t, u \in Threads : {pc[t], pc[u]} \subseteq Inside => t = u

(* A block in use is in the list or in a thread's hands, never in both.    *)
Has(t) == m[t] # None /\ pc[t] \in {"insert", "link", "free"}

OwnerInv ==
  /\ IsInjective(winmap)
  /\ \A b \in Listed : heap[b] # None
  /\ \A t \in Threads : pc[t] \in {"insert", "link"} => m[t] # None
  /\ \A t \in Threads : Has(t) =>
       m[t] \notin Listed /\ heap[m[t]] # None /\ heap[m[t]].glx = drawable[t]
  /\ \A t, u \in Threads : Has(t) /\ Has(u) /\ m[t] = m[u] => t = u
  /\ \A b \in Blocks \ Listed : heap[b] # None => \E t \in Threads : Has(t) /\ m[t] = b
  /\ \A t \in Threads : pc[t] = "deref" =>
       m[t] \in Listed /\ heap[m[t]].glx = drawable[t]

(* What is spoken of is there, or has been.                                *)
KnownInv ==
  /\ \A t \in Threads : drawable[t] # None => drawable[t] \in live \cup known
  /\ \A b \in Listed : heap[b].glx \in live \cup known

(* A thread that measures has been told of its earlier errors.             *)
AnsweredInv ==
  \A t \in pending : pc[t] \notin {"set", "ask", "restore", "judge"}

MapInv == Shapes /\ LockInv /\ OwnerInv /\ KnownInv /\ AnsweredInv

-----------------------------------------------------------------------------
(* As long as the application is careful                                   *)

AloneInv ==
  \A t, u \in Threads : drawable[t] = drawable[u] /\ drawable[t] # None => t = u

Asking      == {"sync", "set", "ask", "restore", "judge"}
Registering == {"malloc", "insert", "link"}
Swapping    == {"swap", "find", "deref", "measure"} \cup Asking

(* What is measured or registered is there, and what it lies on.           *)
LiveInv ==
  \A t \in Threads : pc[t] \in Swapping \cup Registering =>
    /\ drawable[t] \in live
    /\ drawable[t] \in GlxWindows => Parent[drawable[t]] \in live

(* A drawable is registered once.                                          *)
OnceInv ==
  /\ \A b, c \in Listed : heap[b].glx = heap[c].glx => b = c
  /\ \A t \in Threads : pc[t] \in Asking \cup Registering =>
       \A b \in Listed : heap[b].glx # drawable[t]

ForgottenInv ==
  \A b \in Listed :
    \/ heap[b].glx \in live
    \/ \E t \in Threads : drawable[t] = heap[b].glx /\ pc[t] \in {"forget", "seek"}

CarefulInv == AloneInv /\ LiveInv /\ OnceInv /\ ForgottenInv

-----------------------------------------------------------------------------
(* As long as no two measurements overlap, besides                         *)

Right(e) ==
  /\ e.glx \in Windows => e.x11 \in {None, e.glx}
  /\ e.glx \in GlxWindows => e.x11 \in {None, Parent[e.glx]}
  /\ e.glx \in Others => e.x11 = None

(* What a thread measures is a window that its drawable is, or lies on.    *)
Reads(t) == window[t] \in Windows /\ Uses(t, window[t])

(* What is entered and read is right.                                      *)
RightInv ==
  /\ \A b \in Blocks : heap[b] # None => Right(heap[b])
  /\ \A t \in Threads :
       /\ pc[t] = "malloc" => Right([x11 |-> window[t], glx |-> drawable[t]])
       /\ pc[t] = "measure" /\ window[t] # None => Reads(t)

(* One thread measures, and finds out what is no window.                   *)
HandlerInv ==
  /\ ~blamed
  /\ \A t, u \in Threads : Measuring(t) /\ Measuring(u) => t = u
  /\ (\A t \in Threads : ~Measuring(t)) => handler = "app"
  /\ \A t \in Threads :
       /\ pc[t] \in {"ask", "restore"} => handler = "grab" /\ orig[t] = "app"
       /\ pc[t] = "judge" => handler = "app"
       /\ pc[t] \in {"restore", "judge"} /\ drawable[t] \notin Windows => failed

-----------------------------------------------------------------------------
(* As long as no error of another thread has come in between               *)

(* A window that is swapped is found out to be one.                        *)
SeenInv ==
  /\ \A b \in Blocks : heap[b] # None /\ heap[b].glx \in Windows =>
       heap[b].x11 = heap[b].glx
  /\ \A t \in Threads :
       /\ pc[t] = "malloc" /\ drawable[t] \in Windows => window[t] = drawable[t]
       /\ pc[t] = "ask" => ~failed
       /\ pc[t] \in {"restore", "judge"} /\ drawable[t] \in Windows => ~failed

EntryInv ==
  /\ MapInv
  /\ ~careless => CarefulInv
  /\ Innocent => RightInv /\ HandlerInv
  /\ mishap = "none" => SeenInv

=============================================================================
