------------------------------ MODULE Mitigation ------------------------------
(***************************************************************************)
(* The headline promise of the commander, with nothing of how it is kept:  *)
(* a destructive action of an incident hits the world at most once, is     *)
(* recorded as COMMITTED once, and only after it did.  Both may also never *)
(* happen: the model may not choose it, or the leash may forbid it.        *)
(***************************************************************************)
CONSTANT Actions

VARIABLE status   \* status[a]: how far the mitigation a has come

Init == status = [a \in Actions |-> "none"]

Apply(a) ==
  /\ status[a] = "none"
  /\ status' = [status EXCEPT ![a] = "applied"]

Record(a) ==
  /\ status[a] = "applied"
  /\ status' = [status EXCEPT ![a] = "recorded"]

Next == \E a \in Actions : Apply(a) \/ Record(a)

Spec == Init /\ [][Next]_status

\* What has been done does not stay unrecorded.
FairSpec == Spec /\ \A a \in Actions : WF_status(Record(a))
===============================================================================
