------------------------------ MODULE AuditInv ------------------------------
(* An inductive invariant of the rtld-audit helper: what those who hold a  *)
(* pointer rely on, and what a call has behind it wherever it stands.      *)
EXTENDS Audit

AnyPointer == UNION {Pointers(f) : f \in Functions}
AnyPlace   == AnyPointer \cup {Past(f) : f \in Functions}
                         \cup {Back(p) : p \in AnyPointer}

Calls == [of : Functions, arg : Functions \cup {Null}, by : Apps,
          at : AnyPlace, passed : 0..Endless, due : BOOLEAN]

(* TypeOK, and that the variables are functions.                           *)
Shapes ==
  /\ TypeOK
  /\ real \in [Functions -> AnyPointer]
  /\ held \in [Holders -> [Functions -> AnyPointer]]
  /\ call \in [Threads -> Calls \cup {Null}]

(* f has been asked for, so that its pointer is set: to a function that    *)
(* calls no other one, if that is what all have answered.                  *)
Asked(f) == straight[f] => real[f] \in BaseDefs(f)

(* Only fakes are handed out.                                              *)
HeldInv ==
  \A o \in Holders, f \in Functions :
    held[o][f] # Null => held[o][f] = Fake(f) /\ Asked(f)

Backs(c) == {Back(p) : p \in Pointers(c.arg)}

(* A call that has left the fake has passed it, and a GetProcAddress that  *)
(* has returned from all its fakes returns a fake.                         *)
Passed(c) ==
  /\ c.due => c.of \in bound
  /\ c.of \in Getters \/ c.due =>
       c.at = Fake(c.of) \/ c.passed > 0 \/ c.at = Back(Fake(c.arg))
  /\ c.of \in Getters /\ c.at \in Backs(c) /\ c.passed = 0 =>
       c.at = Back(Fake(c.arg)) /\ Asked(c.arg)

(* A call of a function for which only straight answers have been given    *)
(* is in the fake once.                                                    *)
Straight(c) ==
  straight[c.of] =>
    /\ c.at # Null
    /\ c.at \notin Defs(c.of) \ BaseDefs(c.of)
    /\ c.at = Fake(c.of) => c.passed = 0
    /\ c.passed <= 1

CallInv ==
  \A t \in Threads : call[t] # Null =>
    Asked(call[t].of) /\ Passed(call[t]) /\ Straight(call[t])

AuditInvariant == Shapes /\ HeldInv /\ CallInv

=============================================================================
