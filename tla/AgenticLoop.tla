------------------------------ MODULE AgenticLoop ------------------------------
(***************************************************************************)
(* Deadman.run_agentic: the reason-act-observe loop in which the model     *)
(* chooses every tool.  One iteration: ai.complete, parse_action, then     *)
(* either nothing (a safe hold, an unknown tool, invalid arguments, an     *)
(* action already committed) or one governed call, checkpointed first when *)
(* it is destructive.                                                      *)
(***************************************************************************)
EXTENDS IncidentRun

CONSTANTS
  MaxSteps,  \* max_steps
  ReadKey    \* ReadKey[s]: the key of a non-destructive call made in step s

ASSUME LoopAssumption ==
  /\ MaxSteps \in Nat
  /\ ReadKey \in [0..MaxSteps - 1 -> Keys \ Destructive]

VARIABLE step   \* step[w]: the loop index of the run of w

vars == <<runVars, step>>

TypeOK ==
  /\ RunTypeOK
  /\ step \in [Workers -> 0..MaxSteps]
  /\ pc \in [Workers -> {"idle", "load", "resume", "reconcile", "record", "reason",
                         "decide", "checkpoint", "execute", "call", "result",
                         "returned", "finish"}]

Init == RunInit /\ step = [w \in Workers |-> 0]

\* On to the next iteration, whose locals are its own.
Continue(w) ==
  /\ step' = [step EXCEPT ![w] = @ + 1]
  /\ key' = [key EXCEPT ![w] = NoKey]
  /\ ret' = [ret EXCEPT ![w] = "none"]
  /\ tries' = [tries EXCEPT ![w] = 0]
  /\ Goto(w, "reason")
  /\ UNCHANGED <<scope, blocks>>

-------------------------------------------------------------------------------
(* Reason: one completion a step *)

\* ai.complete answers, from a tier that may be deep enough to cost the authority.
Complete(w) ==
  /\ pc[w] = "reason"
  /\ \E deep \in BOOLEAN : degraded' = [degraded EXCEPT ![w] = @ \/ deep]
  /\ Goto(w, "decide")
  /\ UNCHANGED <<world, calls, state, resume, revoked, attempts, crashes, step>>

\* except ModelOutage: break.  Only the mock gateway raises it, and only before its
\* first answer: that one warms the semantic cache of the run.
ModelOutage(w) ==
  /\ ~RealMode
  /\ pc[w] = "reason"
  /\ step[w] = 0
  /\ degraded' = [degraded EXCEPT ![w] = TRUE]
  /\ Goto(w, "finish")
  /\ UNCHANGED <<world, calls, state, resume, revoked, attempts, crashes, step>>

\* GatewayGuardrailBlock, BedrockOutage, an HTTP error: nothing here catches them.
ModelRaises(w) ==
  /\ RealMode
  /\ pc[w] = "reason"
  /\ Forget(w)
  /\ step' = [step EXCEPT ![w] = 0]
  /\ UNCHANGED crashes

\* A build whose loop runs one step over its budget.
ReasonOverBudget(w) ==
  /\ step[w] <= MaxSteps
  /\ Complete(w) \/ ModelOutage(w) \/ ModelRaises(w)

\* for step in range(max_steps)
Reason(w) ==
  /\ step[w] < MaxSteps
  /\ Complete(w) \/ ModelOutage(w) \/ ModelRaises(w)

BudgetSpent(w) ==
  /\ pc[w] = "reason"
  /\ step[w] = MaxSteps
  /\ Goto(w, "finish")
  /\ UNCHANGED <<world, calls, state, resume, leash, crashes, step>>

-------------------------------------------------------------------------------
(* Decide *)

DeclareDone(w) ==
  /\ pc[w] = "decide"
  /\ Goto(w, "finish")
  /\ UNCHANGED <<world, calls, state, resume, leash, crashes, step>>

\* A build in which a safe hold does not count toward the budget.
SafeHoldForFree(w) ==
  /\ pc[w] = "decide"
  /\ Goto(w, "reason")
  /\ UNCHANGED <<world, calls, state, resume, leash, crashes, step>>

\* Unparseable, no tool, unknown tool, missing arguments: the step is spent.
SafeHold(w) ==
  /\ pc[w] = "decide"
  /\ Continue(w)
  /\ UNCHANGED <<world, state, resume, leash, crashes>>

\* A diagnostic: keyed by the loop index, not checkpointed.
ChooseRead(w) ==
  /\ pc[w] = "decide"
  /\ key' = [key EXCEPT ![w] = ReadKey[step[w]]]
  /\ AllowedScope(w)
  /\ attempts' = [attempts EXCEPT ![w] = @ + 1]
  /\ Goto(w, "execute")
  /\ UNCHANGED <<world, ret, tries, blocks, state, resume, degraded, crashes, step>>

\* A destructive action: if self.audit.is_committed(key), tell the model, move on.
ChooseCommitted(w) ==
  /\ pc[w] = "decide"
  /\ \E k \in Destructive : is_committed(k)
  /\ Continue(w)
  /\ UNCHANGED <<world, state, resume, leash, crashes>>

ChooseDestructive(w, k) ==
  /\ pc[w] = "decide"
  /\ ~is_committed(k)
  /\ key' = [key EXCEPT ![w] = k]
  /\ Goto(w, "checkpoint")
  /\ UNCHANGED <<world, scope, ret, tries, blocks, state, resume, leash, crashes, step>>

\* A build that takes the scope once, when the run starts.
CheckpointOldScope(w) ==
  /\ pc[w] = "checkpoint"
  /\ SetPending(w, key[w])
  /\ attempts' = [attempts EXCEPT ![w] = @ + 1]
  /\ Goto(w, "execute")
  /\ UNCHANGED <<world, key, scope, ret, tries, blocks, resume, degraded, revoked, crashes,
                 step>>

\* A build that checkpoints only what is in memory until the call is over.
CheckpointInMemory(w) ==
  /\ pc[w] = "checkpoint"
  /\ AllowedScope(w)
  /\ SetPendingLazily(w, key[w])
  /\ attempts' = [attempts EXCEPT ![w] = @ + 1]
  /\ Goto(w, "execute")
  /\ UNCHANGED <<world, key, ret, tries, blocks, resume, degraded, crashes, step>>

\* scope = self._scope(), then set_pending, flushed before the call is made.
Checkpoint(w) ==
  /\ pc[w] = "checkpoint"
  /\ AllowedScope(w)
  /\ SetPending(w, key[w])
  /\ attempts' = [attempts EXCEPT ![w] = @ + 1]
  /\ Goto(w, "execute")
  /\ UNCHANGED <<world, key, ret, tries, blocks, resume, degraded, crashes, step>>

-------------------------------------------------------------------------------
(* Observe *)

\* EXECUTED and destructive: state.commit.
CommitExecuted(w) ==
  /\ pc[w] = "returned"
  /\ ret[w] = "EXECUTED" /\ key[w] \in Destructive
  /\ StateCommit(w, key[w])
  /\ Continue(w)
  /\ UNCHANGED <<world, resume, leash, crashes>>

\* Anything else that returned, and ScopeDenied: noted.  The pending action stays.
NoteOutcome(w) ==
  /\ pc[w] = "returned"
  /\ \/ ret[w] \in {"SKIPPED_IDEMPOTENT", "ScopeDenied"}
     \/ ret[w] = "EXECUTED" /\ key[w] \notin Destructive
  /\ Continue(w)
  /\ UNCHANGED <<world, state, resume, leash, crashes>>

\* GuardrailBlock: noted, and the block rate may trip the kill switch.
NoteBlock(w) ==
  /\ pc[w] = "returned"
  /\ ret[w] = "GuardrailBlock"
  /\ KillSwitch(w)
  /\ Continue(w)
  /\ UNCHANGED <<world, state, resume, degraded, attempts, crashes>>

\* Neither an MCPGatewayError nor a TypeError is caught: the run ends, its pending action
\* on file.
CallRaises(w) ==
  /\ pc[w] = "returned"
  /\ ret[w] \in {"MCPGatewayError", "TypeError"}
  /\ Forget(w)
  /\ step' = [step EXCEPT ![w] = 0]
  /\ UNCHANGED crashes

\* The scoreboard is returned; the commander object and its leash are dropped.
Finish(w) ==
  /\ pc[w] = "finish"
  /\ Forget(w)
  /\ step' = [step EXCEPT ![w] = 0]
  /\ UNCHANGED crashes

Die(w) ==
  /\ Crash(w)
  /\ step' = [step EXCEPT ![w] = 0]

Work(w) ==
  \/ Start(w) /\ UNCHANGED step
  \/ Reason(w) \/ BudgetSpent(w)
  \/ DeclareDone(w) \/ SafeHold(w) \/ ChooseRead(w) \/ ChooseCommitted(w)
  \/ \E k \in Destructive : ChooseDestructive(w, k)
  \/ Checkpoint(w)
  \/ Calls(w) /\ UNCHANGED step
  \/ CommitExecuted(w) \/ NoteOutcome(w) \/ NoteBlock(w) \/ CallRaises(w)
  \/ Finish(w)

Next ==
  \/ \E w \in Workers :
       \/ Deliver(w) /\ UNCHANGED step
       \/ Work(w)
       \/ Die(w)
  \/ Straggles /\ UNCHANGED step

Spec == Init /\ [][Next]_vars

\* A thread of the pool keeps running, and the alert source delivers an alert again
\* until a run of the incident ends with an answer.
Fairness == \A w \in Workers : WF_vars(Work(w)) /\ WF_vars(Deliver(w) /\ UNCHANGED step)

FairSpec == Spec /\ Fairness
-------------------------------------------------------------------------------
(* Properties *)

\* A run ends, by its budget at the latest: no outcome of a call leaves it in its loop.
RunTerminates == \A w \in Workers : pc[w] # "idle" ~> pc[w] = "idle"
===============================================================================
