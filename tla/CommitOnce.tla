------------------------------ MODULE CommitOnce ------------------------------
(***************************************************************************)
(* What AuditLog.claim_commit promises, whatever the backend: the claims   *)
(* of an idempotency key take turns.  A claim that finds a COMMITTED       *)
(* record of it is told False; one that finds none keeps every other       *)
(* claim from finding the same, writes the record, and is told True.  A    *)
(* claim may also raise, having written the record or not, and its caller  *)
(* may die at any point.  The record of a reconciled action is written     *)
(* without a claim, at any time.                                           *)
(***************************************************************************)
CONSTANTS Procs, Keys, NoKey

VARIABLES
  committed,   \* the keys that have a COMMITTED record
  target,      \* target[p]: the key p is claiming, or NoKey
  answer       \* answer[p]: what the pending claim of p was told, or has found

vars == <<committed, target, answer>>

Answers == {"none", "free", "won", "lost", "raised"}

TypeOK ==
  /\ committed \subseteq Keys
  /\ target \in [Procs -> Keys \cup {NoKey}]
  /\ answer \in [Procs -> Answers]

Init ==
  /\ committed = {}
  /\ target = [p \in Procs |-> NoKey]
  /\ answer = [p \in Procs |-> "none"]

Ask(p, k) ==
  /\ target[p] = NoKey
  /\ target' = [target EXCEPT ![p] = k]
  /\ UNCHANGED <<committed, answer>>

Undecided(p) == target[p] # NoKey /\ answer[p] = "none"

FindFree(p) ==
  /\ Undecided(p)
  /\ target[p] \notin committed
  /\ \A q \in Procs : target[q] = target[p] => answer[q] # "free"
  /\ answer' = [answer EXCEPT ![p] = "free"]
  /\ UNCHANGED <<committed, target>>

Win(p) ==
  /\ answer[p] = "free"
  /\ committed' = committed \cup {target[p]}
  /\ answer' = [answer EXCEPT ![p] = "won"]
  /\ UNCHANGED target

Lose(p) ==
  /\ Undecided(p)
  /\ target[p] \in committed
  /\ answer' = [answer EXCEPT ![p] = "lost"]
  /\ UNCHANGED <<committed, target>>

Raise(p) ==
  /\ answer[p] = "free"
  /\ \/ committed' = committed
     \/ committed' = committed \cup {target[p]}
  /\ answer' = [answer EXCEPT ![p] = "raised"]
  /\ UNCHANGED target

\* The claim is over: it returned, raised, or its process died.
Leave(p) ==
  /\ target[p] # NoKey
  /\ target' = [target EXCEPT ![p] = NoKey]
  /\ answer' = [answer EXCEPT ![p] = "none"]
  /\ UNCHANGED committed

\* A record written without a claim (AuditLog.write of a reconciled action).
Record(k) ==
  /\ committed' = committed \cup {k}
  /\ UNCHANGED <<target, answer>>

Next ==
  \/ \E p \in Procs :
       \/ \E k \in Keys : Ask(p, k)
       \/ FindFree(p) \/ Win(p) \/ Lose(p) \/ Raise(p) \/ Leave(p)
  \/ \E k \in Keys : Record(k)

Spec == Init /\ [][Next]_vars
===============================================================================
