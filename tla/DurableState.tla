------------------------------ MODULE DurableState ------------------------------
(***************************************************************************)
(* state.py's DurableState over FileBackend, and the phases of             *)
(* lifecycle.py: every object holds a copy of the state file, changes it   *)
(* in memory, and flushes the whole of it into a temporary file that       *)
(* replaces the state file.  The process of an object may die at any       *)
(* point, and the flush may raise; either ends the object.  Any number of  *)
(* objects of one incident may be open: nothing keeps two runs apart.      *)
(***************************************************************************)
EXTENDS Naturals, Sequences

CONSTANTS
  Handles,    \* the DurableState objects of an incident, opened again and again
  Keys,       \* idempotency keys
  NoKey,      \* no pending action
  MaxLength   \* bound of the model: how long the two lists of the state may grow

ASSUME DurableAssumption ==
  /\ NoKey \notin Keys
  /\ MaxLength \in Nat

VARIABLES
  file,   \* the state file
  data,   \* data[h]: the object's copy
  pc      \* pc[h]: "closed", "open", or where its flush stands

vars == <<file, data, pc>>

Record == INSTANCE IncidentRecord WITH record <- file

\* What a reader may find in a file that is written in place: an object cut short.
Torn == [phase |-> "triage"]

TypeOK ==
  /\ file \in Record!Records
  /\ data \in [Handles -> Record!Records]
  /\ pc \in [Handles -> {"closed", "open", "write", "replace"}]

\* No state file yet: load_state answers with the empty state.
Init ==
  /\ file = Record!EmptyState
  /\ data = [h \in Handles |-> Record!EmptyState]
  /\ pc = [h \in Handles |-> "closed"]

\* DurableState(incident_id): loads the file.
Open(h) ==
  /\ pc[h] = "closed"
  /\ data' = [data EXCEPT ![h] = file]
  /\ pc' = [pc EXCEPT ![h] = "open"]
  /\ UNCHANGED file

-------------------------------------------------------------------------------
(* The operations: a change in memory, then _flush *)

Change(h, new) ==
  /\ pc[h] = "open"
  /\ data' = [data EXCEPT ![h] = new]
  /\ pc' = [pc EXCEPT ![h] = "write"]
  /\ UNCHANGED file

SetPending(h, k) == Change(h, [data[h] EXCEPT !.pending_action = k])

\* Every caller commits the action it has pending.
Commit(h) ==
  /\ data[h].pending_action # NoKey
  /\ Len(data[h].actions_committed) < MaxLength
  /\ Change(h, [data[h] EXCEPT !.actions_committed = Append(@, data[h].pending_action),
                               !.pending_action = NoKey])

\* A build whose note waits for the next flush.
NoteUnflushed(h) ==
  /\ pc[h] = "open"
  /\ data[h].timeline < MaxLength
  /\ data' = [data EXCEPT ![h].timeline = @ + 1]
  /\ UNCHANGED <<file, pc>>

Note(h) ==
  /\ data[h].timeline < MaxLength
  /\ Change(h, [data[h] EXCEPT !.timeline = @ + 1])

\* A build that looks only at whether the new phase is known.
SetPhaseUnvalidated(h, p) == Change(h, [data[h] EXCEPT !.phase = p])

\* validate_transition judges by the object's copy; a refused one changes nothing.
SetPhase(h, p) ==
  /\ p \in Record!ALLOWED_TRANSITIONS[data[h].phase]
  /\ Change(h, [data[h] EXCEPT !.phase = p])

-------------------------------------------------------------------------------
(* save_state *)

\* A build that opens the state file itself with "w".
WriteInPlace(h) ==
  /\ pc[h] = "write"
  /\ file' = Torn
  /\ pc' = [pc EXCEPT ![h] = "replace"]
  /\ UNCHANGED data

\* json.dump, flush and fsync of a temporary file that no one else opens.
Write(h) ==
  /\ pc[h] = "write"
  /\ pc' = [pc EXCEPT ![h] = "replace"]
  /\ UNCHANGED <<file, data>>

\* os.replace, and the operation returns.
Replace(h) ==
  /\ pc[h] = "replace"
  /\ file' = data[h]
  /\ pc' = [pc EXCEPT ![h] = "open"]
  /\ UNCHANGED data

\* Any of it raises: the temporary file is removed, and the exception ends the run
\* that owns the object.
SaveRaises(h) ==
  /\ pc[h] \in {"write", "replace"}
  /\ pc' = [pc EXCEPT ![h] = "closed"]
  /\ UNCHANGED <<file, data>>

\* The run returns, or its process dies: a temporary file may stay, and is never read.
Close(h) ==
  /\ pc[h] # "closed"
  /\ pc' = [pc EXCEPT ![h] = "closed"]
  /\ UNCHANGED <<file, data>>

Next ==
  \E h \in Handles :
    \/ Open(h)
    \/ \E k \in Keys : SetPending(h, k)
    \/ Commit(h) \/ Note(h)
    \/ \E p \in Record!Phases : SetPhase(h, p)
    \/ Write(h) \/ Replace(h) \/ SaveRaises(h)
    \/ Close(h)

Spec == Init /\ [][Next]_vars

-------------------------------------------------------------------------------
(* Properties *)

\* With one object of the incident open at a time: an operation that has returned is in
\* the file, so a crash at any later point cannot take it back, and a failed one is
\* nowhere.
ReturnedIsDurable == \A h \in Handles : pc[h] = "open" => data[h] = file

\* ...and over deaths and failed flushes in the middle of anything, the file goes
\* through the record's history: whole operations, one at a time, commits only from
\* the pending slot, phases only along the lifecycle.
ImplementsIncidentRecord == Record!Spec
===============================================================================
