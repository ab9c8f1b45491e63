---------------------------- MODULE IncidentRecord ----------------------------
(***************************************************************************)
(* The record of an incident as one run of it should leave it behind: a    *)
(* single durable value that changes by whole operations, never by parts   *)
(* of one, and by one operation at a time.                                 *)
(***************************************************************************)
EXTENDS Naturals, Sequences

CONSTANTS Keys, NoKey

VARIABLE record

\* The lifecycle: closed and failed are terminal.
ALLOWED_TRANSITIONS ==
  [triage |-> {"mitigating", "failed"},
   mitigating |-> {"resolved", "triage", "failed"},
   resolved |-> {"closed", "mitigating", "failed"},
   closed |-> {},
   failed |-> {}]

Phases == DOMAIN ALLOWED_TRANSITIONS

Records == [phase : Phases, actions_committed : Seq(Keys),
            pending_action : Keys \cup {NoKey}, timeline : Nat]

EmptyState ==
  [phase |-> "triage", actions_committed |-> <<>>, pending_action |-> NoKey, timeline |-> 0]

\* An action is committed only from the pending slot it was checkpointed in.
Committed(r) ==
  [r EXCEPT !.actions_committed = Append(@, r.pending_action), !.pending_action = NoKey]

\* The records one operation away from r.
Changes(r) ==
  {[r EXCEPT !.pending_action = k] : k \in Keys}
    \cup (IF r.pending_action = NoKey THEN {} ELSE {Committed(r)})
    \cup {[r EXCEPT !.timeline = @ + 1]}
    \cup {[r EXCEPT !.phase = p] : p \in ALLOWED_TRANSITIONS[r.phase]}

Init == record = EmptyState

Next == record' \in Changes(record)

Spec == Init /\ [][Next]_record
===============================================================================
