--------------------------- MODULE FileBackendProofs ---------------------------
(***************************************************************************)
(* The critical section of claim_commit is exclusive, and hands out one    *)
(* win per key, for any number of callers and keys; claim_commit           *)
(* implements CommitOnce, beside plain writes of COMMITTED records.        *)
(***************************************************************************)
EXTENDS FileBackend, TLAPS

USE BackendAssumption

-------------------------------------------------------------------------------
(* Lemmas about the trail *)

\* What one appended line changes: it can only add committed keys.
LEMMA AppendCommits ==
  ASSUME audit \in Seq(Entries), NEW s \in Statuses, NEW k \in Keys,
         audit' = Append(audit, Entry(s, k))
  PROVE  /\ audit' \in Seq(Entries)
         /\ Len(audit') = Len(audit) + 1
         /\ \A i \in DOMAIN audit : audit'[i] = audit[i]
         /\ \A j \in Keys :
              is_committed(j)' <=> is_committed(j) \/ (s = "COMMITTED" /\ j = k)
<1>1. Entry(s, k) \in Entries
  BY DEF Entry, Entries
<1>2. /\ audit' \in Seq(Entries)
      /\ Len(audit') = Len(audit) + 1
      /\ DOMAIN audit = 1..Len(audit)
      /\ DOMAIN audit' = 1..(Len(audit) + 1)
      /\ \A i \in 1..Len(audit) : audit'[i] = audit[i]
      /\ audit'[Len(audit) + 1] = Entry(s, k)
  BY <1>1
<1>3. Len(audit) \in Nat
  OBVIOUS
<1>4. ASSUME NEW j \in Keys
      PROVE  is_committed(j)' <=> is_committed(j) \/ (s = "COMMITTED" /\ j = k)
  <2>1. is_committed(j)' => is_committed(j) \/ (s = "COMMITTED" /\ j = k)
    BY <1>2, <1>3 DEF is_committed, Entry
  <2>2. is_committed(j) => is_committed(j)'
    BY <1>2, <1>3 DEF is_committed
  <2>3. s = "COMMITTED" /\ j = k => is_committed(j)'
    BY <1>2, <1>3 DEF is_committed, Entry
  <2>4. QED
    BY <2>1, <2>2, <2>3
<1>5. QED
  BY <1>2, <1>4

-------------------------------------------------------------------------------
(* Type correctness *)

\* Every reachable state is of the declared type, whatever the callers do.
THEOREM TypeCorrect == Spec => []TypeOK
<1>1. Init => TypeOK
  BY DEF Init, TypeOK
<1>2. TypeOK /\ [Next]_vars => TypeOK'
  <2> SUFFICES ASSUME TypeOK, [Next]_vars
               PROVE  TypeOK'
    OBVIOUS
  <2>1. CASE UNCHANGED vars
    BY <2>1 DEF TypeOK, vars
  <2>2. ASSUME NEW p \in Procs, NEW k \in Keys, OpenLock(p, k)
        PROVE  TypeOK'
    BY <2>2 DEF TypeOK, OpenLock, Goto
  <2>3. ASSUME NEW p \in Procs, NEW k \in Keys, WritePending(p, k)
        PROVE  TypeOK'
    BY <2>3, AppendCommits DEF TypeOK, WritePending, Statuses
  <2>4. ASSUME NEW p \in Procs, NEW k \in Keys, FindUncommitted(p, k)
        PROVE  TypeOK'
    BY <2>4 DEF TypeOK, FindUncommitted, Goto
  <2>5. ASSUME NEW p \in Procs, Flock(p)
        PROVE  TypeOK'
    BY <2>5 DEF TypeOK, Flock, Goto
  <2>6. ASSUME NEW p \in Procs, CheckLost(p)
        PROVE  TypeOK'
    BY <2>6 DEF TypeOK, CheckLost, Goto
  <2>7. ASSUME NEW p \in Procs, CheckFree(p)
        PROVE  TypeOK'
    BY <2>7 DEF TypeOK, CheckFree, Goto
  <2>8. ASSUME NEW p \in Procs, AppendCommitted(p)
        PROVE  TypeOK'
    <3>1. key[p] \in Keys
      BY <2>8 DEF TypeOK, AppendCommitted
    <3>2. audit' \in Seq(Entries)
      BY <2>8, <3>1, AppendCommits DEF TypeOK, AppendCommitted, Statuses
    <3>3. QED
      BY <2>8, <3>1, <3>2 DEF TypeOK, AppendCommitted, Goto
  <2>9. ASSUME NEW p \in Procs, AppendRaises(p)
        PROVE  TypeOK'
    <3>1. key[p] \in Keys
      BY <2>9 DEF TypeOK, AppendRaises
    <3>2. audit' \in Seq(Entries)
      BY <2>9, <3>1, AppendCommits DEF TypeOK, AppendRaises, Statuses
    <3>3. QED
      BY <2>9, <3>2 DEF TypeOK, AppendRaises, Goto
  <2>10. ASSUME NEW p \in Procs, Unlock(p)
        PROVE  TypeOK'
    BY <2>10 DEF TypeOK, Unlock, Goto
  <2>11. ASSUME NEW p \in Procs, RecordReconciled(p)
        PROVE  TypeOK'
    <3>1. key[p] \in Keys
      BY <2>11 DEF TypeOK, RecordReconciled
    <3>2. audit' \in Seq(Entries)
      BY <2>11, <3>1, AppendCommits DEF TypeOK, RecordReconciled, Statuses
    <3>3. QED
      BY <2>11, <3>2 DEF TypeOK, RecordReconciled, Goto
  <2>12. ASSUME NEW p \in Procs, Crash(p)
        PROVE  TypeOK'
    BY <2>12 DEF TypeOK, Crash, Goto
  <2>13. QED
    BY <2>1, <2>2, <2>3, <2>4, <2>5, <2>6, <2>7, <2>8, <2>9, <2>10, <2>11, <2>12
       DEF Next, Proceed
<1>3. QED
  BY <1>1, <1>2, PTL DEF Spec
-------------------------------------------------------------------------------
(* The critical section *)

\* Why flock excludes although every caller opens the lock file anew: the file is
\* created once, so all the descriptors in use name one inode, and the callers in
\* the section are those that hold its flock.
LockInv ==
  /\ \A p \in Procs : (pc[p] \in {"flock", "check", "append", "unlock"}) <=> fd[p] # 0
  /\ \A p \in Procs : fd[p] # 0 => fd[p] = lockPath
  /\ \A p \in Procs : held[p] <=> InSection(p)
  /\ \A p, q \in Procs : held[p] /\ held[q] => p = q

LEMMA LockInvInductive == Spec => []LockInv
<1>1. Init => LockInv
  BY DEF Init, LockInv, InSection
<1>2. TypeOK /\ LockInv /\ [Next]_vars => LockInv'
  <2> SUFFICES ASSUME TypeOK, LockInv, [Next]_vars
               PROVE  LockInv'
    OBVIOUS
  <2> USE DEF LockInv, InSection, TypeOK
  <2>1. CASE UNCHANGED vars
    BY <2>1 DEF vars
  <2>2. ASSUME NEW p \in Procs, NEW k \in Keys, OpenLock(p, k)
        PROVE  LockInv'
    BY <2>2 DEF OpenLock, Goto
  <2>3. ASSUME NEW p \in Procs, NEW k \in Keys, WritePending(p, k)
        PROVE  LockInv'
    BY <2>3 DEF WritePending
  <2>4. ASSUME NEW p \in Procs, NEW k \in Keys, FindUncommitted(p, k)
        PROVE  LockInv'
    BY <2>4 DEF FindUncommitted, Goto
  <2>5. ASSUME NEW p \in Procs, Flock(p)
        PROVE  LockInv'
    BY <2>5 DEF Flock, LockFree, Goto
  <2>6. ASSUME NEW p \in Procs, CheckLost(p) \/ CheckFree(p)
        PROVE  LockInv'
    BY <2>6 DEF CheckLost, CheckFree, Goto
  <2>7. ASSUME NEW p \in Procs, AppendCommitted(p) \/ AppendRaises(p)
        PROVE  LockInv'
    <3>1. /\ pc[p] = "append"
          /\ pc' = [pc EXCEPT ![p] = "unlock"]
          /\ UNCHANGED <<lockPath, fd, held>>
      BY <2>7 DEF AppendCommitted, AppendRaises, Goto
    <3>2. QED
      BY <3>1
  <2>8. ASSUME NEW p \in Procs, Unlock(p) \/ Crash(p)
        PROVE  LockInv'
    <3>1. /\ pc' = [pc EXCEPT ![p] = "idle"]
          /\ fd' = [fd EXCEPT ![p] = 0]
          /\ held' = [held EXCEPT ![p] = FALSE]
          /\ UNCHANGED lockPath
      BY <2>8 DEF Unlock, Crash, Goto
    <3>2. QED
      BY <3>1
  <2>9. ASSUME NEW p \in Procs, RecordReconciled(p)
        PROVE  LockInv'
    BY <2>9 DEF RecordReconciled, Goto
  <2>10. QED
    BY <2>1, <2>2, <2>3, <2>4, <2>5, <2>6, <2>7, <2>8, <2>9 DEF Next, Proceed
<1>3. QED
  BY <1>1, <1>2, TypeCorrect, PTL DEF Spec

\* claim_commit's check and append are never interleaved with another claim's.
THEOREM MutualExclusionHolds == Spec => []MutualExclusion
<1>1. LockInv => MutualExclusion
  BY DEF LockInv, MutualExclusion
<1>2. QED
  BY <1>1, LockInvInductive, PTL

-------------------------------------------------------------------------------
(* One win per key *)

\* A won key has its record, so the caller about to append has won nothing: this
\* holds beside plain writes of COMMITTED, which can only make a claim lose.
WinInv ==
  /\ \A k \in Keys : wins[k] <= 1
  /\ \A k \in Keys : wins[k] # 0 => is_committed(k)
  /\ \A p \in Procs : pc[p] = "append" => wins[key[p]] = 0
  /\ \A p \in Procs : (result[p] # "none") <=> (pc[p] = "unlock")
  /\ \A p \in Procs : result[p] = "lost" => is_committed(key[p])

\* A step that appends nothing leaves every key's record where it was.
LEMMA SameTrail ==
  ASSUME UNCHANGED audit
  PROVE  \A k \in Keys : is_committed(k)' <=> is_committed(k)
BY DEF is_committed

LEMMA WinInvInductive == Spec => []WinInv
<1>1. Init => WinInv
  BY DEF Init, WinInv
<1>2. TypeOK /\ LockInv /\ WinInv /\ [Next]_vars => WinInv'
  <2> SUFFICES ASSUME TypeOK, LockInv, WinInv, [Next]_vars
               PROVE  WinInv'
    OBVIOUS
  <2> USE DEF TypeOK, WinInv
  <2>1. CASE UNCHANGED vars
    BY <2>1, SameTrail DEF vars
  <2>2. ASSUME NEW p \in Procs, NEW k \in Keys, OpenLock(p, k)
        PROVE  WinInv'
    BY <2>2, SameTrail DEF OpenLock, Goto
  <2>3. ASSUME NEW p \in Procs, NEW k \in Keys, WritePending(p, k)
        PROVE  WinInv'
    <3>1. \A j \in Keys : is_committed(j)' <=> is_committed(j)
      BY <2>3, AppendCommits DEF WritePending, Statuses
    <3>2. QED
      BY <2>3, <3>1 DEF WritePending
  <2>4. ASSUME NEW p \in Procs, NEW k \in Keys, FindUncommitted(p, k)
        PROVE  WinInv'
    BY <2>4, SameTrail DEF FindUncommitted, Goto
  <2>5. ASSUME NEW p \in Procs, Flock(p)
        PROVE  WinInv'
    BY <2>5, SameTrail DEF Flock, Goto
  <2>6. ASSUME NEW p \in Procs, CheckLost(p)
        PROVE  WinInv'
    BY <2>6, SameTrail DEF CheckLost, Goto
  <2>7. ASSUME NEW p \in Procs, CheckFree(p)
        PROVE  WinInv'
    BY <2>7, SameTrail DEF CheckFree, Goto
  <2>8. ASSUME NEW p \in Procs, AppendCommitted(p)
        PROVE  WinInv'
    <3>1. /\ pc[p] = "append" /\ key[p] \in Keys
          /\ pc' = [pc EXCEPT ![p] = "unlock"]
          /\ audit' = Append(audit, Entry("COMMITTED", key[p]))
          /\ wins' = [wins EXCEPT ![key[p]] = wins[key[p]] + 1]
          /\ result' = [result EXCEPT ![p] = "won"]
          /\ key' = key
      BY <2>8 DEF AppendCommitted, Goto
    <3>2. \A j \in Keys : is_committed(j)' <=> is_committed(j) \/ j = key[p]
      BY <3>1, AppendCommits DEF Statuses
    <3>3. \A q \in Procs : pc[q] = "append" => q = p
      BY <3>1 DEF LockInv, InSection
    <3>4. \A k \in Keys : wins'[k] <= 1 /\ (wins'[k] # 0 => is_committed(k)')
      BY <3>1, <3>2
    <3>5. \A q \in Procs : pc'[q] # "append"
      BY <3>1, <3>3
    <3>6. \A q \in Procs : (result'[q] # "none") <=> (pc'[q] = "unlock")
      BY <3>1
    <3>7. \A q \in Procs : result'[q] = "lost" => is_committed(key[q])'
      <4> SUFFICES ASSUME NEW q \in Procs, result'[q] = "lost"
                   PROVE  is_committed(key[q])'
        OBVIOUS
      <4>1. result[q] = "lost" /\ pc[q] = "unlock" /\ key[q] \in Keys
        BY <3>1
      <4>2. key'[q] = key[q]
        BY <3>1
      <4>3. is_committed(key[q])
        BY <4>1
      <4>4. QED
        BY <3>2, <4>1, <4>2, <4>3 DEF is_committed
    <3>8. QED
      BY <3>4, <3>5, <3>6, <3>7
  <2>9. ASSUME NEW p \in Procs, AppendRaises(p)
        PROVE  WinInv'
    <3>1. /\ pc[p] = "append" /\ key[p] \in Keys
          /\ pc' = [pc EXCEPT ![p] = "unlock"]
          /\ result' = [result EXCEPT ![p] = "raised"]
          /\ UNCHANGED <<key, wins>>
      BY <2>9 DEF AppendRaises, Goto
    <3>2. \A j \in Keys : is_committed(j) => is_committed(j)'
      BY <2>9, <3>1, SameTrail, AppendCommits DEF AppendRaises, Statuses
    <3>3. QED
      BY <3>1, <3>2
  <2>10. ASSUME NEW p \in Procs, Unlock(p)
        PROVE  WinInv'
    BY <2>10, SameTrail DEF Unlock, Goto
  <2>11. ASSUME NEW p \in Procs, RecordReconciled(p)
        PROVE  WinInv'
    <3>1. /\ pc[p] = "record" /\ key[p] \in Keys
          /\ audit' = Append(audit, Entry("COMMITTED", key[p]))
      BY <2>11 DEF RecordReconciled
    <3>2. \A j \in Keys : is_committed(j) => is_committed(j)'
      BY <3>1, AppendCommits DEF Statuses
    <3>3. QED
      BY <2>11, <3>1, <3>2 DEF RecordReconciled, Goto
  <2>12. ASSUME NEW p \in Procs, Crash(p)
        PROVE  WinInv'
    BY <2>12, SameTrail DEF Crash, Goto
  <2>13. QED
    BY <2>1, <2>2, <2>3, <2>4, <2>5, <2>6, <2>7, <2>8, <2>9, <2>10, <2>11, <2>12
       DEF Next, Proceed
<1>3. QED
  BY <1>1, <1>2, TypeCorrect, LockInvInductive, PTL DEF Spec

\* claim_commit tells at most one caller per key that it won, for any number of
\* callers, beside crashes, I/O errors and plain COMMITTED writes.
THEOREM OneWinnerHolds == Spec => []OneWinner
<1>1. WinInv => OneWinner
  BY DEF WinInv, OneWinner
<1>2. QED
  BY <1>1, WinInvInductive, PTL

\* A claim that returns False returns it because of a record that is there.
THEOREM LoserFindsRecordHolds == Spec => []LoserFindsRecord
<1>1. WinInv => LoserFindsRecord
  BY DEF WinInv, LoserFindsRecord
<1>2. QED
  BY <1>1, WinInvInductive, PTL

-------------------------------------------------------------------------------
(* The trail only grows *)

\* No step of any caller removes or rewrites a line of audit.jsonl.
THEOREM AppendOnlyHolds == Spec => AppendOnly
<1> DEFINE Grows == /\ Len(audit') >= Len(audit)
                    /\ \A i \in DOMAIN audit : audit'[i] = audit[i]
<1>1. TypeOK /\ [Next]_vars => [Grows]_vars
  <2> SUFFICES ASSUME TypeOK, Next
               PROVE  Grows
    OBVIOUS
  <2>1. Len(audit) \in Nat
    BY DEF TypeOK
  <2>2. CASE UNCHANGED audit
    BY <2>1, <2>2
  <2>3. ASSUME NEW s \in Statuses, NEW k \in Keys, audit' = Append(audit, Entry(s, k))
        PROVE  Grows
    BY <2>1, <2>3, AppendCommits DEF TypeOK
  <2>4. \/ UNCHANGED audit
        \/ \E s \in Statuses, k \in Keys : audit' = Append(audit, Entry(s, k))
    BY DEF TypeOK, Statuses, Next, Proceed, OpenLock, WritePending, FindUncommitted,
           Flock, CheckLost, CheckFree, AppendCommitted, AppendRaises, Unlock,
           RecordReconciled, Crash
  <2>5. QED
    BY <2>2, <2>3, <2>4
<1>2. QED
  BY <1>1, TypeCorrect, PTL DEF Spec, AppendOnly
-------------------------------------------------------------------------------
(* Refinement of CommitOnce *)

\* The states of Promise, spelled out.
CommittedKeys == {k \in Keys : is_committed(k)}
ClaimTargets == [p \in Procs |-> IF Claiming(p) THEN key[p] ELSE NoKey]
Answer == [p \in Procs |-> IF pc[p] = "append" THEN "free" ELSE result[p]]

\* The claims of a key take turns, for any number of callers, under crashes and I/O
\* errors, and beside plain COMMITTED writes: every step of claim_commit is a step of
\* CommitOnce or none.
THEOREM ClaimIsAtomic == Spec => ImplementsCommitOnce
<1> USE DEF CommittedKeys, ClaimTargets, Answer, Claiming
<1>1. Init => Promise!Init
  BY DEF Init, Promise!Init, is_committed
<1>2. TypeOK /\ LockInv /\ WinInv /\ [Next]_vars => [Promise!Next]_(Promise!vars)
  <2> SUFFICES ASSUME TypeOK, LockInv, WinInv, [Next]_vars
               PROVE  [Promise!Next]_(Promise!vars)
    OBVIOUS
  <2>a. /\ key \in [Procs -> Keys \cup {NoKey}]
        /\ pc \in [Procs -> {"idle", "flock", "check", "append", "unlock", "record"}]
        /\ result \in [Procs -> {"none", "won", "lost", "raised"}]
        /\ \A p \in Procs : pc[p] # "idle" => key[p] \in Keys
        /\ \A p \in Procs : (result[p] # "none") <=> (pc[p] = "unlock")
    BY DEF TypeOK, WinInv
  <2>b. ASSUME UNCHANGED audit
        PROVE  UNCHANGED CommittedKeys
    BY <2>b, SameTrail
  <2>c. ASSUME UNCHANGED <<CommittedKeys, ClaimTargets, Answer>>
        PROVE  UNCHANGED Promise!vars
    BY <2>c DEF Promise!vars
  <2>d. ASSUME NEW s \in Statuses, NEW k \in Keys, audit' = Append(audit, Entry(s, k))
        PROVE  CommittedKeys' = CommittedKeys \cup (IF s = "COMMITTED" THEN {k} ELSE {})
    <3>1. \A j \in Keys :
            is_committed(j)' <=> is_committed(j) \/ (s = "COMMITTED" /\ j = k)
      BY <2>d, AppendCommits DEF TypeOK
    <3>2. QED
      BY <3>1
  <2>1. CASE UNCHANGED vars
    <3>1. UNCHANGED <<CommittedKeys, ClaimTargets, Answer>>
      BY <2>1, <2>b DEF vars
    <3>2. QED
      BY <3>1, <2>c
  <2>2. ASSUME NEW p \in Procs, NEW k \in Keys, OpenLock(p, k)
        PROVE  Promise!Ask(p, k)
    <3>1. ClaimTargets[p] = NoKey
      BY <2>2 DEF OpenLock
    <3>2. ClaimTargets' = [ClaimTargets EXCEPT ![p] = k]
      BY <2>2, <2>a DEF OpenLock, Goto
    <3>3. UNCHANGED <<CommittedKeys, Answer>>
      BY <2>2, <2>a, <2>b DEF OpenLock, Goto
    <3>4. QED
      BY <3>1, <3>2, <3>3 DEF Promise!Ask
  <2>3. ASSUME NEW p \in Procs, NEW k \in Keys, WritePending(p, k)
        PROVE  UNCHANGED Promise!vars
    <3>1. UNCHANGED CommittedKeys
      BY <2>3, <2>d DEF WritePending, Statuses
    <3>2. UNCHANGED <<ClaimTargets, Answer>>
      BY <2>3 DEF WritePending
    <3>3. QED
      BY <3>1, <3>2, <2>c
  <2>4. ASSUME NEW p \in Procs, NEW k \in Keys, Flock(p) \/ FindUncommitted(p, k)
        PROVE  UNCHANGED Promise!vars
    <3>1. /\ \/ pc[p] = "flock" /\ pc' = [pc EXCEPT ![p] = "check"] /\ key' = key
             \/ /\ pc[p] = "idle" /\ pc' = [pc EXCEPT ![p] = "record"]
                /\ key' = [key EXCEPT ![p] = k]
          /\ UNCHANGED <<audit, result>>
      BY <2>4 DEF Flock, FindUncommitted, Goto
    <3>2. UNCHANGED <<ClaimTargets, Answer>>
      BY <3>1, <2>a
    <3>3. QED
      BY <3>1, <3>2, <2>b, <2>c
  <2>5. ASSUME NEW p \in Procs, CheckFree(p)
        PROVE  Promise!FindFree(p)
    <3>1. /\ pc[p] = "check" /\ pc' = [pc EXCEPT ![p] = "append"]
          /\ UNCHANGED <<audit, key, result>>
          /\ key[p] \in Keys /\ ~is_committed(key[p])
      BY <2>5, <2>a DEF CheckFree, Goto
    <3>2. UNCHANGED <<CommittedKeys, ClaimTargets>>
      BY <3>1, <2>a, <2>b
    <3>3. Answer' = [Answer EXCEPT ![p] = "free"] /\ Answer[p] = "none"
      BY <3>1, <2>a
    <3>4. \A q \in Procs : Answer[q] # "free"
      BY <3>1, <2>a DEF LockInv, InSection
    <3>5. ClaimTargets[p] = key[p] /\ key[p] # NoKey
      BY <3>1
    <3>6. QED
      BY <3>1, <3>2, <3>3, <3>4, <3>5 DEF Promise!FindFree, Promise!Undecided
  <2>6. ASSUME NEW p \in Procs, CheckLost(p)
        PROVE  Promise!Lose(p)
    <3>1. /\ pc[p] = "check" /\ pc' = [pc EXCEPT ![p] = "unlock"]
          /\ result' = [result EXCEPT ![p] = "lost"]
          /\ UNCHANGED <<audit, key>>
          /\ key[p] \in Keys /\ is_committed(key[p])
      BY <2>6, <2>a DEF CheckLost, Goto
    <3>2. UNCHANGED <<CommittedKeys, ClaimTargets>>
      BY <3>1, <2>a, <2>b
    <3>3. Answer' = [Answer EXCEPT ![p] = "lost"] /\ Answer[p] = "none"
      BY <3>1, <2>a
    <3>4. ClaimTargets[p] = key[p] /\ key[p] # NoKey
      BY <3>1
    <3>5. QED
      BY <3>1, <3>2, <3>3, <3>4 DEF Promise!Lose, Promise!Undecided
  <2>7. ASSUME NEW p \in Procs, AppendCommitted(p)
        PROVE  Promise!Win(p)
    <3>1. /\ pc[p] = "append" /\ pc' = [pc EXCEPT ![p] = "unlock"]
          /\ result' = [result EXCEPT ![p] = "won"]
          /\ audit' = Append(audit, Entry("COMMITTED", key[p]))
          /\ UNCHANGED key
          /\ key[p] \in Keys
      BY <2>7, <2>a DEF AppendCommitted, Goto
    <3>2. CommittedKeys' = CommittedKeys \cup {ClaimTargets[p]}
      BY <3>1, <2>d DEF Statuses
    <3>3. UNCHANGED ClaimTargets
      BY <3>1, <2>a
    <3>4. Answer' = [Answer EXCEPT ![p] = "won"] /\ Answer[p] = "free"
      BY <3>1, <2>a
    <3>5. QED
      BY <3>2, <3>3, <3>4 DEF Promise!Win
  <2>8. ASSUME NEW p \in Procs, AppendRaises(p)
        PROVE  Promise!Raise(p)
    <3>1. /\ pc[p] = "append" /\ pc' = [pc EXCEPT ![p] = "unlock"]
          /\ result' = [result EXCEPT ![p] = "raised"]
          /\ UNCHANGED audit \/ audit' = Append(audit, Entry("COMMITTED", key[p]))
          /\ UNCHANGED key
          /\ key[p] \in Keys
      BY <2>8, <2>a DEF AppendRaises, Goto
    <3>2. UNCHANGED CommittedKeys \/ CommittedKeys' = CommittedKeys \cup {ClaimTargets[p]}
      BY <3>1, <2>b, <2>d DEF Statuses
    <3>3. UNCHANGED ClaimTargets
      BY <3>1, <2>a
    <3>4. Answer' = [Answer EXCEPT ![p] = "raised"] /\ Answer[p] = "free"
      BY <3>1, <2>a
    <3>5. QED
      BY <3>2, <3>3, <3>4 DEF Promise!Raise
  <2>9. ASSUME NEW p \in Procs, RecordReconciled(p)
        PROVE  \E k \in Keys : Promise!Record(k)
    <3>1. /\ pc[p] = "record" /\ pc' = [pc EXCEPT ![p] = "idle"]
          /\ key' = [key EXCEPT ![p] = NoKey]
          /\ audit' = Append(audit, Entry("COMMITTED", key[p]))
          /\ UNCHANGED result
          /\ key[p] \in Keys
      BY <2>9, <2>a DEF RecordReconciled, Goto
    <3>2. CommittedKeys' = CommittedKeys \cup {key[p]}
      BY <3>1, <2>d DEF Statuses
    <3>3. UNCHANGED <<ClaimTargets, Answer>>
      BY <3>1, <2>a
    <3>4. QED
      BY <3>1, <3>2, <3>3 DEF Promise!Record
  <2>10. ASSUME NEW p \in Procs, Unlock(p) \/ Crash(p)
         PROVE  Promise!Leave(p) \/ UNCHANGED Promise!vars
    <3>1. /\ pc[p] # "idle" /\ pc' = [pc EXCEPT ![p] = "idle"]
          /\ key' = [key EXCEPT ![p] = NoKey]
          /\ result' = [result EXCEPT ![p] = "none"]
          /\ UNCHANGED audit
      BY <2>10 DEF Unlock, Crash, Goto
    <3>2. CASE Claiming(p)
      <4>1. ClaimTargets[p] # NoKey
        BY <3>1, <3>2, <2>a
      <4>2. ClaimTargets' = [ClaimTargets EXCEPT ![p] = NoKey]
        BY <3>1, <2>a
      <4>3. Answer' = [Answer EXCEPT ![p] = "none"]
        BY <3>1, <2>a
      <4>4. QED
        BY <3>1, <4>1, <4>2, <4>3, <2>b DEF Promise!Leave
    <3>3. CASE ~Claiming(p)
      <4>1. UNCHANGED <<ClaimTargets, Answer>>
        BY <3>1, <3>3, <2>a
      <4>2. QED
        BY <3>1, <4>1, <2>b, <2>c
    <3>4. QED
      BY <3>2, <3>3
  <2>11. QED
    <3>1. CASE \E p \in Procs : \E k \in Keys : Promise!Ask(p, k)
      BY <3>1 DEF Promise!Next
    <3>2. CASE \E p \in Procs : \/ Promise!FindFree(p) \/ Promise!Win(p) \/ Promise!Lose(p)
                                \/ Promise!Raise(p) \/ Promise!Leave(p)
      BY <3>2 DEF Promise!Next
    <3>3. CASE \E k \in Keys : Promise!Record(k)
      BY <3>3 DEF Promise!Next
    <3>4. ASSUME NEW p \in Procs, NEW k \in Keys,
                 OpenLock(p, k) \/ WritePending(p, k) \/ FindUncommitted(p, k)
          PROVE  [Promise!Next]_(Promise!vars)
      BY <3>4, <3>1, <2>2, <2>3, <2>4
    <3>5. ASSUME NEW p \in Procs, Flock(p) \/ Proceed(p) \/ Crash(p)
          PROVE  [Promise!Next]_(Promise!vars)
      <4>1. CASE Flock(p)
        <5>1. Keys = {} => pc[p] = "idle"
          BY <2>a
        <5>2. QED
          BY <4>1, <5>1, <2>4 DEF Flock
      <4>2. CASE Proceed(p)
        BY <4>2, <3>2, <3>3, <2>5, <2>6, <2>7, <2>8, <2>9, <2>10 DEF Proceed
      <4>3. CASE Crash(p)
        BY <4>3, <3>2, <2>10
      <4>4. QED
        BY <3>5, <4>1, <4>2, <4>3
    <3>6. QED
      BY <3>4, <3>5, <2>1 DEF Next
<1>3. QED
  BY <1>1, <1>2, TypeCorrect, LockInvInductive, WinInvInductive, PTL
     DEF Spec, ImplementsCommitOnce, Promise!Spec
===============================================================================
