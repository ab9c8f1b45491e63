------------------------------ MODULE ScriptedRun ------------------------------
(***************************************************************************)
(* Deadman.run: the scripted incident of mock mode.  Diagnose and decide,  *)
(* a governed metrics read, the revert of PR-1337, the kill switch, a      *)
(* re-plan under a deeper outage, the cordon of prod-node-7, the kill      *)
(* switch again.  The runs of an incident share one mock World, as in      *)
(* scripts/prove_exactly_once.py and the tests.                            *)
(***************************************************************************)
EXTENDS IncidentRun

CONSTANTS diag_key, revert_key, cordon_key

ASSUME ScriptAssumption ==
  /\ ~RealMode
  /\ Destructive = {revert_key, cordon_key} /\ revert_key # cordon_key
  /\ Keys = Destructive \cup {diag_key}
  /\ diag_key \notin Destructive
  /\ Guarded = {}   \* the cordon names no namespace
  /\ KILL_SWITCH_MIN_ATTEMPTS = 3

VARIABLE warm   \* warm[w]: the semantic cache of the run of w holds an answer

vars == <<runVars, warm>>

TypeOK ==
  /\ RunTypeOK
  /\ warm \in [Workers -> BOOLEAN]
  /\ \A w \in Workers : attempts[w] <= 3

Init == RunInit /\ warm = [w \in Workers |-> FALSE]

-------------------------------------------------------------------------------
(* Reason *)

\* ai.complete answers; the tier it fell back to may cost the authority.
Answered(w) ==
  /\ \E deep \in BOOLEAN : degraded' = [degraded EXCEPT ![w] = @ \/ deep]
  /\ warm' = [warm EXCEPT ![w] = TRUE]

\* diagnose and decide: both answer, or the first finds every tier down.
Diagnose(w) ==
  /\ pc[w] = "reason"
  /\ \/ Answered(w)
     \/ degraded' = [degraded EXCEPT ![w] = TRUE] /\ UNCHANGED warm
  /\ Goto(w, "read")
  /\ UNCHANGED <<world, calls, state, resume, revoked, attempts, crashes>>

\* scope = self._scope(), and the metrics read.
CallRead(w) ==
  /\ pc[w] = "read"
  /\ AllowedScope(w)
  /\ key' = [key EXCEPT ![w] = diag_key]
  /\ attempts' = [attempts EXCEPT ![w] = @ + 1]
  /\ Goto(w, "execute")
  /\ UNCHANGED <<world, ret, tries, blocks, state, resume, degraded, crashes, warm>>

\* A build that fetches the metrics again when their guardrail has caught them.
ReadReturnsRefetch(w) ==
  /\ pc[w] = "returned"
  /\ key[w] = diag_key
  /\ Goto(w, IF ret[w] = "GuardrailBlock" THEN "read" ELSE "revert")
  /\ UNCHANGED <<world, calls, state, resume, leash, crashes, warm>>

\* A corrupt result is noted, like any other.
ReadReturns(w) ==
  /\ pc[w] = "returned"
  /\ key[w] = diag_key
  /\ Goto(w, "revert")
  /\ UNCHANGED <<world, calls, state, resume, leash, crashes, warm>>

-------------------------------------------------------------------------------
(* Phase A: the revert *)

\* A build that takes a PENDING line for a COMMITTED one.
SkipRevertPending(w) ==
  /\ pc[w] = "revert"
  /\ is_committed(revert_key) \/ revert_key \in pending
  /\ Goto(w, "phaseA")
  /\ UNCHANGED <<world, calls, state, resume, leash, crashes, warm>>

SkipRevert(w) ==
  /\ pc[w] = "revert"
  /\ is_committed(revert_key)
  /\ Goto(w, "phaseA")
  /\ UNCHANGED <<world, calls, state, resume, leash, crashes, warm>>

CheckpointRevert(w) ==
  /\ pc[w] = "revert"
  /\ ~is_committed(revert_key)
  /\ SetPending(w, revert_key)
  /\ attempts' = [attempts EXCEPT ![w] = @ + 1]
  /\ Goto(w, "grant")
  /\ UNCHANGED <<world, calls, resume, degraded, revoked, crashes, warm>>

\* act_scope = scope | {"github.revert_pr"} if self.world.is_reverted("PR-1337")
CallRevert(w) ==
  /\ pc[w] = "grant"
  /\ key' = [key EXCEPT ![w] = revert_key]
  /\ \E reverted \in SystemOfRecord(revert_key) :
       scope' = [scope EXCEPT ![w] = IF reverted THEN "FULL_SCOPE" ELSE @]
  /\ Goto(w, "execute")
  /\ UNCHANGED <<world, ret, tries, blocks, state, resume, leash, crashes, warm>>

\* state.commit, whether the call was EXECUTED or SKIPPED_IDEMPOTENT.
RevertReturns(w) ==
  /\ pc[w] = "returned"
  /\ key[w] = revert_key
  /\ ret[w] # "ScopeDenied"
  /\ StateCommit(w, revert_key)
  /\ Goto(w, "phaseA")
  /\ UNCHANGED <<world, calls, resume, leash, crashes, warm>>

\* except ScopeDenied: noted.  The pending action stays.
RevertDenied(w) ==
  /\ pc[w] = "returned"
  /\ key[w] = revert_key
  /\ ret[w] = "ScopeDenied"
  /\ Goto(w, "phaseA")
  /\ UNCHANGED <<world, calls, state, resume, leash, crashes, warm>>

PhaseARate(w) ==
  /\ pc[w] = "phaseA"
  /\ KillSwitch(w)
  /\ Goto(w, "replan")
  /\ UNCHANGED <<world, calls, state, resume, degraded, attempts, crashes, warm>>

-------------------------------------------------------------------------------
(* Phase B: the cordon *)

Replan(w) ==
  /\ pc[w] = "replan"
  /\ Answered(w)
  /\ Goto(w, "cordon")
  /\ UNCHANGED <<world, calls, state, resume, revoked, attempts, crashes>>

\* With a cold cache the re-plan may raise ModelOutage, which nothing here catches.
ReplanRaises(w) ==
  /\ pc[w] = "replan"
  /\ ~warm[w]
  /\ Forget(w)
  /\ warm' = [warm EXCEPT ![w] = FALSE]
  /\ UNCHANGED crashes

\* scope2 = self._scope()
Rescope(w) ==
  /\ pc[w] = "cordon"
  /\ AllowedScope(w)
  /\ Goto(w, "checkpoint")
  /\ UNCHANGED <<world, key, ret, tries, blocks, state, resume, degraded, attempts, crashes,
                 warm>>

\* Checkpointed only when in scope and not committed; the call is made regardless.
CallCordon(w) ==
  /\ pc[w] = "checkpoint"
  /\ IF scope[w] = "FULL_SCOPE" /\ ~is_committed(cordon_key)
     THEN SetPending(w, cordon_key)
     ELSE UNCHANGED state
  /\ key' = [key EXCEPT ![w] = cordon_key]
  /\ attempts' = [attempts EXCEPT ![w] = @ + 1]
  /\ Goto(w, "execute")
  /\ UNCHANGED <<world, scope, ret, tries, blocks, resume, degraded, revoked, crashes, warm>>

\* EXECUTED, SKIPPED or denied: the phase-B rate, the scoreboard.  No state.commit.
CordonReturns(w) ==
  /\ pc[w] = "returned"
  /\ key[w] = cordon_key
  /\ KillSwitch(w)
  /\ Goto(w, "finish")
  /\ UNCHANGED <<world, calls, state, resume, degraded, attempts, crashes, warm>>

Finish(w) ==
  /\ pc[w] = "finish"
  /\ Forget(w)
  /\ warm' = [warm EXCEPT ![w] = FALSE]
  /\ UNCHANGED crashes

\* A crash, or the KillSignal that chaos raises after a side effect.
Die(w) ==
  /\ Crash(w)
  /\ warm' = [warm EXCEPT ![w] = FALSE]

Work(w) ==
  \/ Start(w) /\ UNCHANGED warm
  \/ Diagnose(w) \/ CallRead(w) \/ ReadReturns(w)
  \/ SkipRevert(w) \/ CheckpointRevert(w) \/ CallRevert(w)
  \/ RevertReturns(w) \/ RevertDenied(w) \/ PhaseARate(w)
  \/ Replan(w) \/ ReplanRaises(w) \/ Rescope(w) \/ CallCordon(w) \/ CordonReturns(w)
  \/ Calls(w) /\ UNCHANGED warm
  \/ Finish(w)

Next ==
  \E w \in Workers :
    \/ Deliver(w) /\ UNCHANGED warm
    \/ Work(w)
    \/ Die(w)

Spec == Init /\ [][Next]_vars

-------------------------------------------------------------------------------
(* Properties *)

\* "incident resolved": a run that reaches its end has the revert and the cordon
\* applied and recorded, by itself or by an earlier run, unless its authority is revoked.
ResolvedUnlessLeashed ==
  \A w \in Workers : pc[w] = "finish" =>
    revoked[w] \/ \A k \in Destructive : Applied(k) /\ is_committed(k)

===============================================================================
