----------------------------- MODULE CaptureInv ------------------------------
(* An inductive invariant of the grabber's adoption: whose context it is   *)
(* that a thread has adopted, and whose objects the grabber holds.         *)
EXTENDS Capture

(* A handle is not given away again while the hook that has destroyed its  *)
(* context has yet to forget it.                                           *)
ForgottenInTime == ClearsFirst \/ ~ReusesEarly

-----------------------------------------------------------------------------
(* Exclusion                                                               *)

(* A current context is there, and current in one thread only.             *)
ContextInv ==
  /\ \A t \in Threads : cur[t] \in alive \cup {NoCtx}
  /\ \A t, u \in Threads : cur[t] = cur[u] /\ cur[t] # NoCtx => t = u
  /\ \A t \in Threads : pc[t] \in {"clear", "destroy"} => victim[t] \in Contexts
  /\ \A t \in Threads : pc[t] = "adopt" => cur[t] # NoCtx

(* Of those who are inside, the one that creates the buffer is told apart. *)
InitInv ==
  \A t \in Threads : Holds(t) => (pc[t] = "create" <=> state = "initializing")

(* Who is inside got there through the state word; the buffer is mapped    *)
(* in the states that stand for it, and in no other one.                   *)
LockInv ==
  /\ TypeOK
  /\ ContextInv
  /\ Exclusive
  /\ InitInv
  /\ mapped <=> state \in {"ready", "using"}

-----------------------------------------------------------------------------
(* Ownership, as long as no context in use has been destroyed              *)

(* Places of a thread between the adoption and the end of the shot.        *)
Preparing == {"init", "create", "reset", "generate"}
Adopting  == Preparing \cup {"measure", "take", "copy", "shoot"}

(* Only the adopted context passes.                                        *)
AdoptedInv ==
  \A t \in Threads : pc[t] \in Adopting => ctx = cur[t] /\ ctx # NoCtx

(* What is being destroyed is nobody's, and each by one thread only.       *)
VictimInv ==
  /\ doomed = {}
  /\ \A t \in Threads : pc[t] \in {"clear", "destroy"} =>
       /\ UsedBy(victim[t]) = {}
       /\ victim[t] \in alive <=> ClearsFirst \/ pc[t] = "destroy"
       /\ ClearsFirst /\ pc[t] = "destroy" => ctx # victim[t]
  /\ \A t, u \in Threads :
       /\ {pc[t], pc[u]} \subseteq {"clear", "destroy"}
       /\ victim[t] = victim[u]
       => t = u

(* The adopted context is there, or about to be forgotten.                 *)
ForgetInv ==
  \/ ctx \in alive \cup {NoCtx}
  \/ \E t \in Threads : pc[t] = "clear" /\ victim[t] = ctx

(* Once the grabber has been reset for the adopted context, what it holds  *)
(* belongs to that context.                                                *)
SettledInv ==
  /\ ctx \in alive
  /\ state \in {"ready", "using"}
  /\ \A t \in Threads : pc[t] \notin Preparing \cup {"shutdown"}
  => /\ fbo = ctx
     /\ frame # NoFrame => frame.owner = ctx /\ frame.mapped

OwnInv == AdoptedInv /\ VictimInv /\ ForgetInv /\ SettledInv

ObjectInv ==
  /\ LockInv
  /\ ~careless => OwnInv

=============================================================================
