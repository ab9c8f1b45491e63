--------------------------- MODULE DynamoLedgerProofs ---------------------------
(***************************************************************************)
(* For any number of hosts and keys, however stale the reads and however   *)
(* often the SDK repeats a put: one win per key, no line overwritten, and  *)
(* no line dropped by a call that returned as written.                     *)
(***************************************************************************)
EXTENDS DynamoLedger, TLAPS

USE LedgerAssumption

-------------------------------------------------------------------------------
(* Lemmas about the trail *)

\* What one appended line changes: every line before it stays where it is.
LEMMA AppendKeeps ==
  ASSUME audit \in Seq(Entries), NEW e \in Entries, audit' = Append(audit, e)
  PROVE  /\ audit' \in Seq(Entries)
         /\ Len(audit') = Len(audit) + 1
         /\ \A i \in DOMAIN audit : i \in DOMAIN audit' /\ audit'[i] = audit[i]
         /\ \E i \in DOMAIN audit' : audit'[i] = e
<1>1. /\ audit' \in Seq(Entries)
      /\ Len(audit') = Len(audit) + 1
      /\ DOMAIN audit = 1..Len(audit)
      /\ DOMAIN audit' = 1..(Len(audit) + 1)
      /\ \A i \in 1..Len(audit) : audit'[i] = audit[i]
      /\ audit'[Len(audit) + 1] = e
  OBVIOUS
<1>2. Len(audit) \in Nat
  OBVIOUS
<1>3. QED
  BY <1>1, <1>2

\* A put that met a taken number goes back to counting, within its attempts, or is over.
LEMMA CountAgainStep ==
  ASSUME TypeOK, NEW p \in Procs, pc[p] = "put", CountAgain(p)
  PROVE  /\ pc' \in [Procs -> {"idle", "count", "put", "return"}]
         /\ attempts' \in [Procs -> Nat]
         /\ result' \in [Procs -> {"none", "won", "lost", "written", "raised"}]
         /\ \A q \in Procs : pc'[q] # "idle" => pc[q] # "idle"
         /\ \A q \in Procs :
              pc'[q] \in {"count", "put"}
                => pc[q] \in {"count", "put"} /\ attempts'[q] < MAX_ATTEMPTS
<1>1. attempts' = [attempts EXCEPT ![p] = attempts[p] + 1] /\ attempts[p] \in Nat
  BY DEF CountAgain, TypeOK
<1>2. CASE attempts[p] + 1 < MAX_ATTEMPTS
  <2>1. pc' = [pc EXCEPT ![p] = "count"] /\ result' = result
    BY <1>2 DEF CountAgain, Goto
  <2>2. QED
    BY <1>1, <1>2, <2>1 DEF TypeOK
<1>3. CASE ~(attempts[p] + 1 < MAX_ATTEMPTS)
  <2>1. /\ pc' = [pc EXCEPT ![p] = "return"]
        /\ result' = [result EXCEPT ![p] = "raised"]
    BY <1>3 DEF CountAgain, Goto
  <2>2. QED
    BY <1>1, <2>1 DEF TypeOK
<1>4. QED
  BY <1>2, <1>3

-------------------------------------------------------------------------------
(* Type correctness *)

\* Every reachable state is of the declared type, and no append has more than
\* MAX_ATTEMPTS attempts behind it.
THEOREM LedgerTypeCorrect == Spec => []TypeOK
<1>1. Init => TypeOK
  BY DEF Init, TypeOK
<1>2. TypeOK /\ [Next]_vars => TypeOK'
  <2> SUFFICES ASSUME TypeOK, [Next]_vars
               PROVE  TypeOK'
    OBVIOUS
  <2>1. CASE UNCHANGED vars
    BY <2>1 DEF TypeOK, vars, locals
  <2>2. ASSUME NEW p \in Procs, NEW k \in Keys, ClaimMarker(p, k)
        PROVE  TypeOK'
    BY <2>2 DEF TypeOK, ClaimMarker, Appending, Goto
  <2>3. ASSUME NEW p \in Procs, NEW k \in Keys, ClaimLost(p, k)
        PROVE  TypeOK'
    BY <2>3 DEF TypeOK, ClaimLost, Goto
  <2>4. ASSUME NEW p \in Procs, NEW k \in Keys, WritePending(p, k)
        PROVE  TypeOK'
    BY <2>4 DEF TypeOK, WritePending, Appending, Goto
  <2>5. ASSUME NEW p \in Procs, NEW k \in Keys, WriteReconciled(p, k)
        PROVE  TypeOK'
    BY <2>5 DEF TypeOK, WriteReconciled, Appending, Goto
  <2>6. ASSUME NEW p \in Procs, NextSeq(p)
        PROVE  TypeOK'
    BY <2>6 DEF TypeOK, NextSeq, Goto
  <2>7. ASSUME NEW p \in Procs, PutLine(p)
        PROVE  TypeOK'
    <3>1. Entry(status[p], key[p]) \in Entries
      BY <2>7 DEF TypeOK, PutLine, Entry, Entries
    <3>2. audit' \in Seq(Entries)
      BY <2>7, <3>1, AppendKeeps DEF TypeOK, PutLine
    <3>3. QED
      BY <2>7, <3>2 DEF TypeOK, PutLine, Written, locals, Goto
  <2>8. ASSUME NEW p \in Procs, PutTaken(p)
        PROVE  TypeOK'
    BY <2>8, CountAgainStep DEF TypeOK, PutTaken, CountAgain
  <2>9. ASSUME NEW p \in Procs, PutRepeated(p)
        PROVE  TypeOK'
    <3>1. Entry(status[p], key[p]) \in Entries
      BY <2>9 DEF TypeOK, PutRepeated, Entry, Entries
    <3>2. audit' \in Seq(Entries)
      BY <2>9, <3>1, AppendKeeps DEF TypeOK, PutRepeated
    <3>3. QED
      BY <2>9, <3>2, CountAgainStep DEF TypeOK, PutRepeated, CountAgain
  <2>10. ASSUME NEW p \in Procs, AppendRaises(p)
        PROVE  TypeOK'
    BY <2>10 DEF TypeOK, AppendRaises, locals, Goto
  <2>11. ASSUME NEW p \in Procs, Return(p)
        PROVE  TypeOK'
    BY <2>11 DEF TypeOK, Return, Leave, Goto
  <2>12. ASSUME NEW p \in Procs, Crash(p)
        PROVE  TypeOK'
    BY <2>12 DEF TypeOK, Crash, Leave, Goto
  <2>13. QED
    BY <2>1, <2>2, <2>3, <2>4, <2>5, <2>6, <2>7, <2>8, <2>9, <2>10, <2>11, <2>12 DEF Next, Proceed
<1>3. QED
  BY <1>1, <1>2, PTL DEF Spec

-------------------------------------------------------------------------------
(* One winner *)

\* p has put the marker of its claim and is appending the line.
Claiming(p) == claims[p] /\ pc[p] \in {"count", "put"}

\* Why a key is won once although the win is told after the append, long after the
\* conditional put that decides it: the marker of a claim is there for good, so while
\* its one claimant appends nobody has won, and afterwards nobody claims.
ClaimInv ==
  /\ \A k \in Keys : wins[k] = 0 \/ (wins[k] = 1 /\ k \in markers)
  /\ \A p \in Procs : Claiming(p) => key[p] \in markers /\ wins[key[p]] = 0
  /\ \A p, q \in Procs : Claiming(p) /\ Claiming(q) /\ key[p] = key[q] => p = q

LEMMA ClaimInvInductive == Spec => []ClaimInv
<1>1. Init => ClaimInv
  BY DEF Init, ClaimInv, Claiming
<1>2. TypeOK /\ ClaimInv /\ [Next]_vars => ClaimInv'
  <2> SUFFICES ASSUME TypeOK, ClaimInv, [Next]_vars
               PROVE  ClaimInv'
    OBVIOUS
  <2> USE DEF ClaimInv, Claiming, TypeOK
  <2>1. CASE UNCHANGED vars
    BY <2>1 DEF vars, locals
  <2>2. ASSUME NEW p \in Procs, NEW k \in Keys, ClaimMarker(p, k)
        PROVE  ClaimInv'
    BY <2>2 DEF ClaimMarker, Appending, Goto
  <2>3. ASSUME NEW p \in Procs, NEW k \in Keys, ClaimLost(p, k)
        PROVE  ClaimInv'
    BY <2>3 DEF ClaimLost, Goto
  <2>4. ASSUME NEW p \in Procs, NEW k \in Keys, WritePending(p, k)
        PROVE  ClaimInv'
    BY <2>4 DEF WritePending, Appending, Goto
  <2>5. ASSUME NEW p \in Procs, NEW k \in Keys, WriteReconciled(p, k)
        PROVE  ClaimInv'
    BY <2>5 DEF WriteReconciled, Appending, Goto
  <2>6. ASSUME NEW p \in Procs, NextSeq(p)
        PROVE  ClaimInv'
    BY <2>6 DEF NextSeq, Goto
  <2>7. ASSUME NEW p \in Procs, PutLine(p)
        PROVE  ClaimInv'
    BY <2>7 DEF PutLine, Written, locals, Goto
  <2>8. ASSUME NEW p \in Procs, PutTaken(p)
        PROVE  ClaimInv'
    BY <2>8, CountAgainStep DEF PutTaken, CountAgain
  <2>9. ASSUME NEW p \in Procs, PutRepeated(p)
        PROVE  ClaimInv'
    BY <2>9, CountAgainStep DEF PutRepeated, CountAgain
  <2>10. ASSUME NEW p \in Procs, AppendRaises(p)
        PROVE  ClaimInv'
    BY <2>10 DEF AppendRaises, locals, Goto
  <2>11. ASSUME NEW p \in Procs, Return(p)
        PROVE  ClaimInv'
    BY <2>11 DEF Return, Leave, Goto
  <2>12. ASSUME NEW p \in Procs, Crash(p)
        PROVE  ClaimInv'
    BY <2>12 DEF Crash, Leave, Goto
  <2>13. QED
    BY <2>1, <2>2, <2>3, <2>4, <2>5, <2>6, <2>7, <2>8, <2>9, <2>10, <2>11, <2>12 DEF Next, Proceed
<1>3. QED
  BY <1>1, <1>2, LedgerTypeCorrect, PTL DEF Spec

\* "only one concurrent writer can succeed": whatever the hosts, the crashes and the
\* repeated puts, claim_commit returns True to at most one caller per key.
THEOREM LedgerOneWinner == Spec => []OneWinner
<1>1. ClaimInv => OneWinner
  BY DEF ClaimInv, OneWinner
<1>2. QED
  BY <1>1, ClaimInvInductive, PTL

-------------------------------------------------------------------------------
(* The trail *)

\* A step leaves the trail alone or appends one line to it.
LEMMA TrailStep ==
  ASSUME TypeOK, [Next]_vars
  PROVE  UNCHANGED audit \/ \E e \in Entries : audit' = Append(audit, e)
<1>1. ASSUME NEW p \in Procs, PutLine(p) \/ PutRepeated(p)
      PROVE  \E e \in Entries : audit' = Append(audit, e)
  BY <1>1 DEF TypeOK, PutLine, PutRepeated, Entry, Entries
<1>2. QED
  BY <1>1 DEF Next, vars, ClaimMarker, ClaimLost, WritePending, WriteReconciled, Proceed,
              NextSeq, PutTaken, AppendRaises, Return, Crash, Leave

\* No line is overwritten or removed, although each is put at a number that was
\* counted earlier.
THEOREM LedgerAppendOnly == Spec => AppendOnly
<1>1. TypeOK /\ [Next]_vars
        => [/\ Len(audit') >= Len(audit)
            /\ \A i \in DOMAIN audit : audit'[i] = audit[i]]_vars
  <2> SUFFICES ASSUME TypeOK, [Next]_vars
               PROVE  /\ Len(audit') >= Len(audit)
                      /\ \A i \in DOMAIN audit : audit'[i] = audit[i]
    OBVIOUS
  <2>1. audit \in Seq(Entries) /\ Len(audit) \in Nat
    BY DEF TypeOK
  <2>2. CASE UNCHANGED audit
    BY <2>1, <2>2
  <2>3. ASSUME NEW e \in Entries, audit' = Append(audit, e)
        PROVE  /\ Len(audit') >= Len(audit)
               /\ \A i \in DOMAIN audit : audit'[i] = audit[i]
    BY <2>1, <2>3, AppendKeeps
  <2>4. QED
    BY <2>2, <2>3, TrailStep
<1>2. QED
  BY <1>1, LedgerTypeCorrect, PTL DEF Spec, AppendOnly

\* A line that is on the trail stays there.
LEMMA TrailKeeps ==
  ASSUME TypeOK, [Next]_vars, NEW s, NEW k, OnTrail(s, k)
  PROVE  OnTrail(s, k)'
<1>1. audit \in Seq(Entries)
  BY DEF TypeOK
<1>2. CASE UNCHANGED audit
  BY <1>2 DEF OnTrail
<1>3. ASSUME NEW e \in Entries, audit' = Append(audit, e)
      PROVE  OnTrail(s, k)'
  <2>1. PICK i \in DOMAIN audit : audit[i] = Entry(s, k)
    BY DEF OnTrail
  <2>2. i \in DOMAIN audit' /\ audit'[i] = audit[i]
    BY <1>1, <1>3, AppendKeeps
  <2>3. QED
    BY <2>1, <2>2 DEF OnTrail, Entry
<1>4. QED
  BY <1>2, <1>3, TrailStep

\* A call that is about to return as written stands at "return".
WrittenInv ==
  \A p \in Procs : result[p] # "none" => pc[p] = "return"

LEMMA WrittenInvInductive == Spec => [](WrittenInv /\ ReturnedIsWritten)
<1>1. Init => WrittenInv /\ ReturnedIsWritten
  BY DEF Init, WrittenInv, ReturnedIsWritten
<1>2. TypeOK /\ WrittenInv /\ ReturnedIsWritten /\ [Next]_vars
        => (WrittenInv /\ ReturnedIsWritten)'
  <2> SUFFICES ASSUME TypeOK, WrittenInv, ReturnedIsWritten, [Next]_vars
               PROVE  WrittenInv' /\ ReturnedIsWritten'
    OBVIOUS
  <2> USE DEF WrittenInv, ReturnedIsWritten, TypeOK
  <2>1. CASE UNCHANGED vars
    BY <2>1, TrailKeeps DEF vars, locals
  <2>2. ASSUME NEW p \in Procs, NEW k \in Keys, ClaimMarker(p, k)
        PROVE  WrittenInv' /\ ReturnedIsWritten'
    BY <2>2, TrailKeeps DEF ClaimMarker, Appending, Goto
  <2>3. ASSUME NEW p \in Procs, NEW k \in Keys, ClaimLost(p, k)
        PROVE  WrittenInv' /\ ReturnedIsWritten'
    BY <2>3, TrailKeeps DEF ClaimLost, Goto
  <2>4. ASSUME NEW p \in Procs, NEW k \in Keys, WritePending(p, k)
        PROVE  WrittenInv' /\ ReturnedIsWritten'
    BY <2>4, TrailKeeps DEF WritePending, Appending, Goto
  <2>5. ASSUME NEW p \in Procs, NEW k \in Keys, WriteReconciled(p, k)
        PROVE  WrittenInv' /\ ReturnedIsWritten'
    BY <2>5, TrailKeeps DEF WriteReconciled, Appending, Goto
  <2>6. ASSUME NEW p \in Procs, NextSeq(p)
        PROVE  WrittenInv' /\ ReturnedIsWritten'
    BY <2>6, TrailKeeps DEF NextSeq, Goto
  <2>7. ASSUME NEW p \in Procs, PutLine(p)
        PROVE  WrittenInv' /\ ReturnedIsWritten'
    <3>1. Entry(status[p], key[p]) \in Entries
      BY <2>7 DEF PutLine, Entry, Entries
    <3>2. OnTrail(status[p], key[p])'
      BY <2>7, <3>1, AppendKeeps DEF PutLine, OnTrail, Entry, Written, locals
    <3>3. QED
      BY <2>7, <3>2, TrailKeeps DEF PutLine, Written, locals, Goto
  <2>8. ASSUME NEW p \in Procs, PutTaken(p)
        PROVE  WrittenInv' /\ ReturnedIsWritten'
    BY <2>8, TrailKeeps DEF PutTaken, CountAgain, Goto
  <2>9. ASSUME NEW p \in Procs, PutRepeated(p)
        PROVE  WrittenInv' /\ ReturnedIsWritten'
    BY <2>9, TrailKeeps DEF PutRepeated, CountAgain, Goto
  <2>10. ASSUME NEW p \in Procs, AppendRaises(p)
        PROVE  WrittenInv' /\ ReturnedIsWritten'
    BY <2>10, TrailKeeps DEF AppendRaises, locals, Goto
  <2>11. ASSUME NEW p \in Procs, Return(p)
        PROVE  WrittenInv' /\ ReturnedIsWritten'
    BY <2>11, TrailKeeps DEF Return, Leave, Goto
  <2>12. ASSUME NEW p \in Procs, Crash(p)
        PROVE  WrittenInv' /\ ReturnedIsWritten'
    BY <2>12, TrailKeeps DEF Crash, Leave, Goto
  <2>13. QED
    BY <2>1, <2>2, <2>3, <2>4, <2>5, <2>6, <2>7, <2>8, <2>9, <2>10, <2>11, <2>12 DEF Next, Proceed
<1>3. QED
  BY <1>1, <1>2, LedgerTypeCorrect, PTL DEF Spec

\* No audit event is dropped in silence: the line of a call that returned is there.
THEOREM LedgerReturnedIsWritten == Spec => []ReturnedIsWritten
BY WrittenInvInductive, PTL
===============================================================================
