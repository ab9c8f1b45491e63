--------------------------- MODULE DurableStateProofs ---------------------------
(***************************************************************************)
(* Types for any number of objects; and for one object at a time, which    *)
(* may die or fail in the middle of any flush: what has returned is        *)
(* durable, and the state file goes through the history of IncidentRecord. *)
(***************************************************************************)
EXTENDS DurableState, TLAPS

USE DurableAssumption

\* Every operation makes of a record a record, and one that the history allows.
LEMMA OperationsChange ==
  ASSUME NEW r \in Record!Records
  PROVE  /\ \A k \in Keys : [r EXCEPT !.pending_action = k] \in Record!Changes(r)
         /\ r.pending_action # NoKey
              => [r EXCEPT !.actions_committed = Append(@, r.pending_action),
                           !.pending_action = NoKey] \in Record!Changes(r)
         /\ [r EXCEPT !.timeline = @ + 1] \in Record!Changes(r)
         /\ \A p \in Record!ALLOWED_TRANSITIONS[r.phase] :
              [r EXCEPT !.phase = p] \in Record!Changes(r)
BY DEF Record!Changes, Record!Committed

LEMMA TransitionsStayInPhases ==
  ASSUME NEW q \in Record!Phases
  PROVE  Record!ALLOWED_TRANSITIONS[q] \subseteq Record!Phases
BY DEF Record!Phases, Record!ALLOWED_TRANSITIONS

LEMMA ChangesAreRecords ==
  ASSUME NEW r \in Record!Records
  PROVE  Record!Changes(r) \subseteq Record!Records
<1>1. /\ r.actions_committed \in Seq(Keys)
      /\ r.timeline \in Nat
      /\ r.phase \in Record!Phases
      /\ r.pending_action \in Keys \cup {NoKey}
  BY DEF Record!Records
<1>2. \A k \in Keys : [r EXCEPT !.pending_action = k] \in Record!Records
  BY DEF Record!Records
<1>3. r.pending_action # NoKey => Record!Committed(r) \in Record!Records
  <2> SUFFICES ASSUME r.pending_action # NoKey
               PROVE  Record!Committed(r) \in Record!Records
    OBVIOUS
  <2>1. Append(r.actions_committed, r.pending_action) \in Seq(Keys)
    BY <1>1
  <2>2. QED
    BY <2>1 DEF Record!Records, Record!Committed
<1>4. [r EXCEPT !.timeline = @ + 1] \in Record!Records
  BY <1>1 DEF Record!Records
<1>5. \A p \in Record!ALLOWED_TRANSITIONS[r.phase] : [r EXCEPT !.phase = p] \in Record!Records
  BY <1>1, TransitionsStayInPhases DEF Record!Records
<1>6. QED
  BY <1>2, <1>3, <1>4, <1>5 DEF Record!Changes

-------------------------------------------------------------------------------
(* Every operation in memory is a change the history allows *)

Operation(h) ==
  \/ \E k \in Keys : SetPending(h, k)
  \/ Commit(h) \/ Note(h)
  \/ \E p \in Record!Phases : SetPhase(h, p)

LEMMA OperationIsChange ==
  ASSUME TypeOK, NEW h \in Handles, Operation(h)
  PROVE  /\ pc[h] = "open"
         /\ pc' = [pc EXCEPT ![h] = "write"]
         /\ file' = file
         /\ \E new \in Record!Changes(data[h]) : data' = [data EXCEPT ![h] = new]
<1>1. data[h] \in Record!Records
  BY DEF TypeOK
<1>2. ASSUME NEW k \in Keys, SetPending(h, k)
      PROVE  \E new \in Record!Changes(data[h]) : Change(h, new)
  BY <1>1, <1>2, OperationsChange DEF SetPending
<1>3. CASE Commit(h)
  <2>1. [data[h] EXCEPT !.actions_committed = Append(@, data[h].pending_action),
                        !.pending_action = NoKey] \in Record!Changes(data[h])
    BY <1>1, <1>3, OperationsChange DEF Commit
  <2>2. \E new \in Record!Changes(data[h]) : Change(h, new)
    BY <1>3, <2>1 DEF Commit
  <2>3. QED
    BY <2>2 DEF Change
<1>4. CASE Note(h)
  <2>1. \E new \in Record!Changes(data[h]) : Change(h, new)
    BY <1>1, <1>4, OperationsChange DEF Note
  <2>2. QED
    BY <2>1 DEF Change
<1>5. ASSUME NEW p \in Record!Phases, SetPhase(h, p)
      PROVE  \E new \in Record!Changes(data[h]) : Change(h, new)
  BY <1>1, <1>5, OperationsChange DEF SetPhase
<1>6. QED
  BY <1>2, <1>3, <1>4, <1>5 DEF Operation, Change

-------------------------------------------------------------------------------
(* Type correctness *)

\* For any number of objects, open at once or not: the state file is always one whole
\* record, whoever dies in the middle of a flush.
THEOREM StateTypeCorrect == Spec => []TypeOK
<1>1. Init => TypeOK
  BY DEF Init, TypeOK, Record!EmptyState, Record!Records, Record!Phases,
         Record!ALLOWED_TRANSITIONS
<1>2. TypeOK /\ [Next]_vars => TypeOK'
  <2> SUFFICES ASSUME TypeOK, [Next]_vars PROVE TypeOK'
    OBVIOUS
  <2>1. CASE UNCHANGED vars
    BY <2>1 DEF vars, TypeOK
  <2>2. ASSUME NEW h \in Handles, Open(h) PROVE TypeOK'
    BY <2>2 DEF Open, TypeOK
  <2>3. ASSUME NEW h \in Handles, Operation(h) PROVE TypeOK'
    <3>1. data[h] \in Record!Records
      BY DEF TypeOK
    <3>2. PICK new \in Record!Changes(data[h]) : data' = [data EXCEPT ![h] = new]
      BY <2>3, OperationIsChange
    <3>3. new \in Record!Records
      BY <3>1, ChangesAreRecords
    <3>4. QED
      BY <2>3, <3>2, <3>3, OperationIsChange DEF TypeOK
  <2>4. ASSUME NEW h \in Handles, Write(h) PROVE TypeOK'
    BY <2>4 DEF Write, TypeOK
  <2>5. ASSUME NEW h \in Handles, Replace(h) PROVE TypeOK'
    BY <2>5 DEF Replace, TypeOK
  <2>6. ASSUME NEW h \in Handles, SaveRaises(h) PROVE TypeOK'
    BY <2>6 DEF SaveRaises, TypeOK
  <2>7. ASSUME NEW h \in Handles, Close(h) PROVE TypeOK'
    BY <2>7 DEF Close, TypeOK
  <2>8. QED
    BY <2>1, <2>2, <2>3, <2>4, <2>5, <2>6, <2>7 DEF Next, Operation
<1>3. QED
  BY <1>1, <1>2, PTL DEF Spec

-------------------------------------------------------------------------------
(* One object at a time *)

\* What a flush is about to write is one operation away from what the file holds.
FlushInv ==
  \A h \in Handles :
    pc[h] \in {"write", "replace"} => data[h] \in Record!Changes(file)

LEMMA OneObjectStep ==
  ASSUME NEW w, Handles = {w}, TypeOK, ReturnedIsDurable, FlushInv, [Next]_vars
  PROVE  ReturnedIsDurable' /\ FlushInv' /\ [Record!Next]_file
<1> USE DEF ReturnedIsDurable, FlushInv
<1>1. CASE UNCHANGED vars
  BY <1>1 DEF vars
<1>2. ASSUME NEW h \in Handles, Open(h)
      PROVE  ReturnedIsDurable' /\ FlushInv' /\ [Record!Next]_file
  BY <1>2 DEF Open, TypeOK
<1>3. ASSUME NEW h \in Handles, Operation(h)
      PROVE  ReturnedIsDurable' /\ FlushInv' /\ [Record!Next]_file
  <2>1. /\ pc[h] = "open"
        /\ pc' = [pc EXCEPT ![h] = "write"]
        /\ file' = file
    BY <1>3, OperationIsChange
  <2>2. PICK new \in Record!Changes(data[h]) : data' = [data EXCEPT ![h] = new]
    BY <1>3, OperationIsChange
  <2>3. new \in Record!Changes(file)
    BY <2>1, <2>2
  <2>4. data'[h] \in Record!Changes(file)
    BY <2>2, <2>3 DEF TypeOK
  <2>5. FlushInv'
    BY <2>1, <2>4 DEF Record!Changes, Record!Committed, Record!ALLOWED_TRANSITIONS
  <2>6. ReturnedIsDurable'
    BY <2>1 DEF TypeOK
  <2>7. QED
    BY <2>1, <2>5, <2>6
<1>4. ASSUME NEW h \in Handles, Write(h)
      PROVE  ReturnedIsDurable' /\ FlushInv' /\ [Record!Next]_file
  BY <1>4 DEF Write, TypeOK, Record!Changes, Record!Committed, Record!ALLOWED_TRANSITIONS
<1>5. ASSUME NEW h \in Handles, Replace(h)
      PROVE  ReturnedIsDurable' /\ FlushInv' /\ [Record!Next]_file
  <2>1. file' \in Record!Changes(file)
    BY <1>5 DEF Replace
  <2>2. QED
    BY <1>5, <2>1 DEF Replace, TypeOK, Record!Next
<1>6. ASSUME NEW h \in Handles, SaveRaises(h)
      PROVE  ReturnedIsDurable' /\ FlushInv' /\ [Record!Next]_file
  BY <1>6 DEF SaveRaises, TypeOK
<1>7. ASSUME NEW h \in Handles, Close(h)
      PROVE  ReturnedIsDurable' /\ FlushInv' /\ [Record!Next]_file
  BY <1>7 DEF Close, TypeOK
<1>8. QED
  BY <1>1, <1>2, <1>3, <1>4, <1>5, <1>6, <1>7 DEF Next, Operation

LEMMA OneObjectInit == Init => ReturnedIsDurable /\ FlushInv
BY DEF Init, ReturnedIsDurable, FlushInv

\* An operation that returned to the one run of an incident is in the state file, and
\* one that raised or was cut off by a crash is not, before the next object is opened.
THEOREM ReturnedIsDurableHolds ==
  ASSUME NEW w, Handles = {w}
  PROVE  Spec => []ReturnedIsDurable
<1>1. TypeOK /\ ReturnedIsDurable /\ FlushInv /\ [Next]_vars => ReturnedIsDurable' /\ FlushInv'
  BY OneObjectStep
<1>2. QED
  BY <1>1, OneObjectInit, StateTypeCorrect, PTL DEF Spec

\* With one run of an incident at a time, the state file goes through the history of
\* IncidentRecord, over crashes and failed flushes.
THEOREM StateImplementsRecord ==
  ASSUME NEW w, Handles = {w}
  PROVE  Spec => ImplementsIncidentRecord
<1>1. Init => Record!Init
  BY DEF Init, Record!Init
<1>2. TypeOK /\ ReturnedIsDurable /\ FlushInv /\ [Next]_vars
        => ReturnedIsDurable' /\ FlushInv' /\ [Record!Next]_file
  BY OneObjectStep
<1>3. QED
  BY <1>1, <1>2, OneObjectInit, StateTypeCorrect, PTL
     DEF Spec, ImplementsIncidentRecord, Record!Spec
===============================================================================
