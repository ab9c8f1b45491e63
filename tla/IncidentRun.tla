------------------------------ MODULE IncidentRun ------------------------------
(***************************************************************************)
(* What the two commander loops share: DurableState (the state file of an  *)
(* incident and the copy every run loads of it), delivery of an alert, the *)
(* resume path that reconciles a pending action, the auto-leash, and the   *)
(* death of a run at any point.                                            *)
(***************************************************************************)
EXTENDS MCPGateway

CONSTANTS
  NoKey,            \* no pending action
  LiveReadable,     \* the keys RealWorld can query live (not asg.scale)
  Mentions,         \* Mentions[k]: the keys of the same tool whose text contains
                    \* the target of k, which RealWorld takes for k
  KILL_SWITCH_MIN_ATTEMPTS,   \* 3 in the code: attempts before the block rate counts
  MaxCrashes,       \* bound of the model: how many runs die
  WindowCrashes     \* may a run die between the two writes of a reconciliation?

ASSUME RunAssumption ==
  /\ NoKey \notin Keys
  /\ LiveReadable \subseteq Destructive
  /\ Mentions \in [Destructive -> SUBSET Destructive]
  /\ \A k \in Destructive : k \in Mentions[k]
  /\ KILL_SWITCH_MIN_ATTEMPTS \in Nat \ {0}
  /\ MaxCrashes \in Nat
  /\ WindowCrashes \in BOOLEAN

VARIABLES
  durable,   \* the state file: pending_action's key and the actions_committed
  memory,    \* memory[w]: DurableState.data of the run of w
  resume,    \* resume[w]: the resume argument of that run
  degraded,  \* degraded[w]: ai.max_depth >= AUTONOMY_REVOKE_AT_DEPTH
  revoked,   \* revoked[w]: AgentGateway.revoked
  attempts,  \* attempts[w]: tool attempts counted for the kill switch
  crashes    \* bound of the model: runs that have died

state == <<durable, memory>>
leash == <<degraded, revoked, attempts>>
runVars == <<world, pc, calls, state, resume, leash, crashes>>

States == [pending : Keys \cup {NoKey}, actions_committed : SUBSET Keys]
EmptyState == [pending |-> NoKey, actions_committed |-> {}]

RunTypeOK ==
  /\ pending \subseteq Keys
  /\ committed \in [Keys -> 0..Many]
  /\ effects \in [Keys -> 0..Many]
  /\ seen \subseteq Keys
  /\ late \subseteq Keys
  /\ key \in [Workers -> Keys \cup {NoKey}]
  /\ scope \in [Workers -> Scopes]
  /\ ret \in [Workers -> Outcomes \cup {"none"}]
  /\ tries \in [Workers -> 0..MAX_RETRIES]
  /\ blocks \in [Workers -> Nat]
  /\ durable \in States
  /\ memory \in [Workers -> States]
  /\ resume \in [Workers -> BOOLEAN]
  /\ degraded \in [Workers -> BOOLEAN]
  /\ revoked \in [Workers -> BOOLEAN]
  /\ attempts \in [Workers -> Nat]
  /\ crashes \in 0..MaxCrashes

RunInit ==
  /\ pending = {}
  /\ committed = [k \in Keys |-> 0]
  /\ effects = [k \in Keys |-> 0]
  /\ seen = {}
  /\ late = {}
  /\ pc = [w \in Workers |-> "idle"]
  /\ key = [w \in Workers |-> NoKey]
  /\ scope = [w \in Workers |-> "FULL_SCOPE"]
  /\ ret = [w \in Workers |-> "none"]
  /\ tries = [w \in Workers |-> 0]
  /\ blocks = [w \in Workers |-> 0]
  /\ durable = EmptyState
  /\ memory = [w \in Workers |-> EmptyState]
  /\ resume = [w \in Workers |-> FALSE]
  /\ degraded = [w \in Workers |-> FALSE]
  /\ revoked = [w \in Workers |-> FALSE]
  /\ attempts = [w \in Workers |-> 0]
  /\ crashes = 0

-------------------------------------------------------------------------------
(* DurableState: every change is made in memory, then the whole is flushed *)

\* A build in which set_pending waits for the next flush.
SetPendingLazily(w, k) ==
  /\ memory' = [memory EXCEPT ![w].pending = k]
  /\ UNCHANGED durable

SetPending(w, k) ==
  /\ memory' = [memory EXCEPT ![w].pending = k]
  /\ durable' = memory'[w]

StateCommit(w, k) ==
  /\ memory' = [memory EXCEPT ![w] =
                  [pending |-> NoKey, actions_committed |-> @.actions_committed \cup {k}]]
  /\ durable' = memory'[w]

-------------------------------------------------------------------------------
(* The auto-leash *)

\* _scope(): allowed_scope(max_depth), which latches the revocation.
AllowedScope(w) ==
  /\ revoked' = [revoked EXCEPT ![w] = @ \/ degraded[w]]
  /\ scope' = [scope EXCEPT ![w] = IF revoked'[w] THEN "READ_ONLY" ELSE "FULL_SCOPE"]

\* trip_kill_switch(guardrail_blocks / attempts), once there are enough attempts; the
\* threshold is one half.
KillSwitch(w) ==
  revoked' = [revoked EXCEPT ![w] =
    @ \/ (attempts[w] >= KILL_SWITCH_MIN_ATTEMPTS /\ 2 * blocks[w] >= attempts[w])]

-------------------------------------------------------------------------------
(* Delivery and resume *)

\* What the process of w forgets when its run ends or dies.
Forget(w) ==
  /\ Goto(w, "idle")
  /\ key' = [key EXCEPT ![w] = NoKey]
  /\ scope' = [scope EXCEPT ![w] = "FULL_SCOPE"]
  /\ ret' = [ret EXCEPT ![w] = "none"]
  /\ tries' = [tries EXCEPT ![w] = 0]
  /\ blocks' = [blocks EXCEPT ![w] = 0]
  /\ memory' = [memory EXCEPT ![w] = EmptyState]
  /\ resume' = [resume EXCEPT ![w] = FALSE]
  /\ degraded' = [degraded EXCEPT ![w] = FALSE]
  /\ revoked' = [revoked EXCEPT ![w] = FALSE]
  /\ attempts' = [attempts EXCEPT ![w] = 0]
  /\ UNCHANGED <<world, durable>>

\* A build whose webhook always starts fresh.
DeliverFresh(w) ==
  /\ pc[w] = "idle"
  /\ Goto(w, "load")
  /\ UNCHANGED <<world, calls, state, resume, leash, crashes>>

\* webhook._run_incident: resume = DurableState(incident_id).pending is not None.
Deliver(w) ==
  /\ pc[w] = "idle"
  /\ resume' = [resume EXCEPT ![w] = durable.pending # NoKey]
  /\ Goto(w, "load")
  /\ UNCHANGED <<world, calls, state, leash, crashes>>

\* Deadman.__init__: the run loads the state file again, into its own copy.
Load(w) ==
  /\ pc[w] = "load"
  /\ memory' = [memory EXCEPT ![w] = durable]
  /\ Goto(w, IF resume[w] THEN "resume" ELSE "reason")
  /\ UNCHANGED <<world, calls, durable, resume, leash, crashes>>

\* Nothing pending, or already COMMITTED: skip.  The pending action stays.
ResumeSkips(w) ==
  /\ pc[w] = "resume"
  /\ memory[w].pending # NoKey => is_committed(memory[w].pending)
  /\ Goto(w, "reason")
  /\ UNCHANGED <<world, calls, state, resume, leash, crashes>>

\* PENDING but not COMMITTED: ask the system of record.
ResumeReconciles(w) ==
  /\ pc[w] = "resume"
  /\ memory[w].pending # NoKey
  /\ ~is_committed(memory[w].pending)
  /\ Goto(w, "reconcile")
  /\ UNCHANGED <<world, calls, state, resume, leash, crashes>>

\* A build that takes every pending action for applied.
BelievePending(k) == {TRUE}

\* What _reconcile_pending can answer.  The mock World knows; RealWorld is a fresh
\* object, believes a COMMITTED line that mentions the target, and otherwise asks
\* the live system, where it can, taking any failure for "not applied".
SystemOfRecord(k) ==
  CASE ~RealMode -> {effects[k] > 0}
    [] RealMode /\ (\E m \in Mentions[k] : is_committed(m)) -> {TRUE}
    [] OTHER -> {(k \in LiveReadable /\ effects[k] > 0), FALSE}

\* Applied: state.commit flushes first; its audit line is the next step.
ReconcileApplied(w) ==
  /\ pc[w] = "reconcile"
  /\ TRUE \in SystemOfRecord(memory[w].pending)
  /\ StateCommit(w, memory[w].pending)
  /\ key' = [key EXCEPT ![w] = memory[w].pending]
  /\ Goto(w, "record")
  /\ UNCHANGED <<world, scope, ret, tries, blocks, resume, leash, crashes>>

\* A build whose resume forgets the audit line of a reconciled action.
RecordNothing(w) ==
  /\ pc[w] = "record"
  /\ key' = [key EXCEPT ![w] = NoKey]
  /\ Goto(w, "reason")
  /\ UNCHANGED <<world, scope, ret, tries, blocks, state, resume, leash, crashes>>

\* audit.write({"status": "COMMITTED", ...}): no claim, no lock.
RecordReconciled(w) ==
  /\ pc[w] = "record"
  /\ committed' = [committed EXCEPT ![key[w]] = Bump(@)]
  /\ key' = [key EXCEPT ![w] = NoKey]
  /\ Goto(w, "reason")
  /\ UNCHANGED <<pending, effects, seen, late, scope, ret, tries, blocks, state, resume,
                 leash, crashes>>

\* Not applied, or inconclusive: the run goes on, the pending action stays.
ReconcileNotApplied(w) ==
  /\ pc[w] = "reconcile"
  /\ FALSE \in SystemOfRecord(memory[w].pending)
  /\ Goto(w, "reason")
  /\ UNCHANGED <<world, calls, state, resume, leash, crashes>>

Start(w) ==
  \/ Load(w) \/ ResumeSkips(w) \/ ResumeReconciles(w)
  \/ ReconcileApplied(w) \/ RecordReconciled(w) \/ ReconcileNotApplied(w)

\* SIGKILL, an OOM kill, a deployment: memory is gone, files and the world stay.
Crash(w) ==
  /\ pc[w] # "idle"
  /\ crashes < MaxCrashes
  /\ WindowCrashes \/ pc[w] # "record"
  /\ crashes' = crashes + 1
  /\ Forget(w)

\* The commander gives way to MCPGateway.execute.
Calls(w) == Execute(w) /\ UNCHANGED <<state, resume, leash, crashes>>

\* A request of any run, ended or not, reaches the gateway late.
Straggles == (\E k \in late : Arrives(k)) /\ UNCHANGED <<state, resume, leash, crashes>>
-------------------------------------------------------------------------------
(* Properties *)

Applied(k) == effects[k] > 0

\* How far each mitigation has come.
Progress ==
  [k \in Destructive |->
    CASE effects[k] = 0 /\ committed[k] = 0 -> "none"
      [] effects[k] = 1 /\ committed[k] = 0 -> "applied"
      [] effects[k] = 1 /\ committed[k] = 1 -> "recorded"
      [] OTHER -> "broken"]

Mitigations == INSTANCE Mitigation WITH Actions <- Destructive, status <- Progress

\* "Survives provider death and resumes exactly-once": with one run at a time, which
\* may die anywhere but between the two writes of a reconciliation, and a world that
\* can be asked, every destructive action is applied at most once, then recorded once.
ExactlyOnce == Mitigations!Spec

\* ...and, deliveries continuing, an action that hit the world does get its record.
RecordedEventually == Mitigations!FairSpec

\* An action that hit the world without a COMMITTED line is the one pending action of
\* the state file, where the next process will look: the single slot is never given
\* to another action too early.
Recoverable ==
  \A k \in Destructive :
    Applied(k) /\ ~is_committed(k)
      => durable.pending = k \/ \E w \in Workers : pc[w] = "record" /\ key[w] = k

\* "checkpoint BEFORE execute": nothing hits the world before both the state file and
\* the audit log name it.
WriteAhead ==
  [][\A k \in Destructive :
       effects'[k] # effects[k] => durable.pending = k /\ k \in pending]_runVars

\* "auto-leash": no destructive call is under way in a run whose brain has fallen back
\* too far, or whose guardrail block rate has tripped the kill switch.
LeashHolds ==
  \A w \in Workers :
    pc[w] \in {"call", "result"} /\ key[w] \in Destructive => ~revoked[w] /\ ~degraded[w]

\* A COMMITTED line of a destructive action tells of one that hit the world.
CommittedApplied == \A k \in Destructive : is_committed(k) => Applied(k)

\* What a run, its copy of the state or the state file takes for done.
Reported(k) ==
  \/ k \in durable.actions_committed
  \/ \E w \in Workers :
       \/ k \in memory[w].actions_committed
       \/ pc[w] = "returned" /\ key[w] = k /\ ret[w] \in {"EXECUTED", "SKIPPED_IDEMPOTENT"}

\* call_tool "never silently succeeds": whatever attempt is lost, late or answered from a
\* record, whichever run claims, reconciles or skips, what a run is told is done, or what
\* is on file as committed, has hit the world.
ReportedApplied == \A k \in Destructive : Reported(k) => Applied(k)

\* No destructive action hits the world twice.
NoDoubleExecution == \A k \in Destructive : effects[k] <= 1
===============================================================================
