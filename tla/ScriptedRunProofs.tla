-------------------------- MODULE ScriptedRunProofs --------------------------
(***************************************************************************)
(* The scripted incident and the scripts that drive it.                    *)
(*                                                                         *)
(* Any number of runs at once, which may die anywhere (RunInv): the types, *)
(* and a run that reaches its end with its authority has resolved the      *)
(* incident.                                                               *)
(*                                                                         *)
(* One run at a time (OneRun, and SoloInv without a death between the two  *)
(* writes of a reconciliation): every destructive action is applied at     *)
(* most once, then recorded.                                               *)
(*                                                                         *)
(* The scripts (Story): what a proof script calls a PASS is one, and the   *)
(* replay of the demo ends with the boards of the two agents.              *)
(***************************************************************************)
EXTENDS Scripts, TLAPS

USE GatewayAssumption, RunAssumption, ScriptAssumption

-------------------------------------------------------------------------------
(* Any number of runs *)

\* The labels between the commander's call and its return.
Calling == {"execute", "call", "result", "returned"}

Labels ==
  {"idle", "load", "resume", "reconcile", "record", "reason", "read", "revert", "grant",
   "phaseA", "replan", "cordon", "checkpoint", "finish"} \cup Calling

CallOf(w, k) == pc[w] \in Calling /\ key[w] = k

\* A run has a key when it needs one, and a pending action is a destructive one.
Place(w) ==
  /\ pc[w] \in Calling => key[w] \in Keys
  /\ memory[w].pending \in Destructive \cup {NoKey}
  /\ pc[w] = "reconcile" => memory[w].pending # NoKey
  /\ pc[w] \in {"result", "record"} /\ key[w] \in Destructive => Applied(key[w])
  /\ pc[w] = "record" => key[w] \in Destructive

\* Every attempt is counted once, on the way from one call to the next.
Counted(w) ==
  /\ pc[w] \in {"idle", "load", "resume", "reconcile", "record", "reason", "read"}
       => attempts[w] = 0
  /\ CallOf(w, diag_key) \/ pc[w] = "revert" => attempts[w] = 1
  /\ CallOf(w, revert_key) \/ pc[w] \in {"grant", "phaseA", "replan", "cordon", "checkpoint"}
       => attempts[w] <= 2

\* Past a destructive call, its action is on record, or the authority is gone.
Resolved(w) ==
  /\ scope[w] = "READ_ONLY" => revoked[w]
  /\ pc[w] = "returned" /\ key[w] \in Destructive =>
       \/ ret[w] = "ScopeDenied" /\ revoked[w]
       \/ ret[w] \in {"EXECUTED", "SKIPPED_IDEMPOTENT"} /\ is_committed(key[w])
  /\ pc[w] \in {"phaseA", "replan", "cordon", "checkpoint", "finish"} \/ CallOf(w, cordon_key)
       => revoked[w] \/ is_committed(revert_key)
  /\ pc[w] = "finish" => revoked[w] \/ is_committed(cordon_key)

\* The inductive invariant of any number of runs.
RunInv ==
  /\ TypeOK /\ pc \in [Workers -> Labels]
  /\ durable.pending \in Destructive \cup {NoKey}
  /\ CommittedApplied
  /\ \A w \in Workers : Place(w) /\ Counted(w) /\ Resolved(w)

\* No run has begun.
LEMMA InitialRun == Init => RunInv
<1>. SUFFICES ASSUME Init PROVE RunInv
  OBVIOUS
<1>. USE DEF Init, RunInit
<1>1. TypeOK /\ pc \in [Workers -> Labels]
  BY DEF TypeOK, RunTypeOK, Scopes, Outcomes, States, EmptyState, Labels
<1>2. CommittedApplied /\ durable.pending \in Destructive \cup {NoKey}
  BY DEF CommittedApplied, Applied, is_committed, EmptyState
<1>3. ASSUME NEW w \in Workers PROVE Place(w) /\ Counted(w) /\ Resolved(w)
  BY DEF Place, Counted, Resolved, CallOf, Calling, Labels, EmptyState
<1>. QED  BY <1>1, <1>2, <1>3 DEF RunInv

\* A run moves alone, and what is done or recorded stays so.
Frame(w) ==
  /\ \A v \in Workers \ {w} :
       /\ pc'[v] = pc[v] /\ key'[v] = key[v] /\ ret'[v] = ret[v] /\ scope'[v] = scope[v]
       /\ revoked'[v] = revoked[v] /\ attempts'[v] = attempts[v]
       /\ memory'[v] = memory[v]
  /\ \A k \in Keys : (Applied(k) => Applied(k)') /\ (is_committed(k) => is_committed(k)')

\* What holds of a run is not disturbed by the steps of another.
LEMMA OthersStand ==
  ASSUME RunInv, NEW w \in Workers, Frame(w), NEW v \in Workers \ {w}
  PROVE  (Place(v) /\ Counted(v) /\ Resolved(v))'
<1>. USE DEF RunInv, Frame, CallOf
<1>1. Place(v)'
  BY DEF Place
<1>2. Counted(v)'
  BY DEF Counted
<1>3. Resolved(v)'
  BY DEF Resolved, Place
<1>. QED  BY <1>1, <1>2, <1>3

\* What a step of the run of w has to show.
Sound(w) ==
  /\ Frame(w)
  /\ (TypeOK /\ pc \in [Workers -> Labels] /\ CommittedApplied)'
  /\ durable'.pending \in Destructive \cup {NoKey}
  /\ (Place(w) /\ Counted(w) /\ Resolved(w))'

\* So the run that moves is the only one to look at.
LEMMA SoundStepKeeps ==
  ASSUME RunInv, NEW w \in Workers, Sound(w)
  PROVE  RunInv'
<1>1. ASSUME NEW v \in Workers PROVE (Place(v) /\ Counted(v) /\ Resolved(v))'
  BY OthersStand DEF Sound
<1>. QED  BY <1>1 DEF RunInv, Sound

\* The types of what Frame, Place and Resolved speak of.
LEMMA TypesOfRun ==
  ASSUME TypeOK
  PROVE  /\ key \in [Workers -> Keys \cup {NoKey}]
         /\ ret \in [Workers -> Outcomes \cup {"none"}]
         /\ scope \in [Workers -> Scopes] /\ revoked \in [Workers -> BOOLEAN]
         /\ attempts \in [Workers -> Nat] /\ memory \in [Workers -> States]
         /\ effects \in [Keys -> 0..Many] /\ committed \in [Keys -> 0..Many]
BY DEF TypeOK, RunTypeOK

\* The steps of the script, and those that start and end a run.
Own(w) ==
  \/ Diagnose(w) \/ CallRead(w) \/ ReadReturns(w)
  \/ SkipRevert(w) \/ CheckpointRevert(w) \/ CallRevert(w)
  \/ RevertReturns(w) \/ RevertDenied(w) \/ PhaseARate(w)
  \/ Replan(w) \/ ReplanRaises(w) \/ Rescope(w) \/ CallCordon(w) \/ CordonReturns(w)
  \/ Finish(w) \/ Die(w)
  \/ Deliver(w) /\ UNCHANGED warm

\* Loading the state file and reconciling what it has pending.
LEMMA StartSound ==
  ASSUME RunInv, NEW w \in Workers, Start(w), UNCHANGED warm
  PROVE  Sound(w)
<1>. USE DEF world, calls, state, leash, Goto, Return
<1>a. /\ TypeOK /\ pc \in [Workers -> Labels] /\ CommittedApplied
      /\ durable.pending \in Destructive \cup {NoKey}
      /\ Place(w) /\ Counted(w) /\ Resolved(w)
  BY DEF RunInv
<1>1. CASE Load(w) /\ UNCHANGED warm
  <2>1. (TypeOK /\ pc \in [Workers -> Labels])'
    BY <1>1, <1>a, SMTT(30) DEF Load, EmptyState, TypeOK, RunTypeOK, Labels,
       Calling, Place, Counted, States, Outcomes, Scopes, CallOf
  <2>2. Frame(w) /\ CommittedApplied' /\ durable'.pending \in Destructive \cup {NoKey}
    BY <1>1, <1>a, TypesOfRun, SMTT(30) DEF Load, EmptyState, Frame,
       CommittedApplied, Applied, is_committed, Place, States
  <2>3. (Place(w) /\ Counted(w) /\ Resolved(w))'
    BY <1>1, <1>a, TypesOfRun, SMTT(30) DEF Load, EmptyState, Place, Counted,
       Resolved, CallOf, Calling, CommittedApplied, Applied, is_committed, States,
       Scopes
  <2>. QED  BY <2>1, <2>2, <2>3 DEF Sound
<1>2. CASE ResumeSkips(w) /\ UNCHANGED warm
  <2>1. (TypeOK /\ pc \in [Workers -> Labels])'
    BY <1>2, <1>a, SMTT(30) DEF ResumeSkips, TypeOK, RunTypeOK, Labels, Calling,
       Place, Counted, States, Outcomes, Scopes, CallOf
  <2>2. Frame(w) /\ CommittedApplied' /\ durable'.pending \in Destructive \cup {NoKey}
    BY <1>2, <1>a, TypesOfRun, SMTT(30) DEF ResumeSkips, Frame, CommittedApplied,
       Applied, is_committed, Place, States
  <2>3. (Place(w) /\ Counted(w) /\ Resolved(w))'
    BY <1>2, <1>a, TypesOfRun, SMTT(30) DEF ResumeSkips, Place, Counted, Resolved,
       CallOf, Calling, CommittedApplied, Applied, is_committed, States, Scopes
  <2>. QED  BY <2>1, <2>2, <2>3 DEF Sound
<1>3. CASE ResumeReconciles(w) /\ UNCHANGED warm
  <2>1. (TypeOK /\ pc \in [Workers -> Labels])'
    BY <1>3, <1>a, SMTT(30) DEF ResumeReconciles, TypeOK, RunTypeOK, Labels,
       Calling, Place, Counted, States, Outcomes, Scopes, CallOf
  <2>2. Frame(w) /\ CommittedApplied' /\ durable'.pending \in Destructive \cup {NoKey}
    BY <1>3, <1>a, TypesOfRun, SMTT(30) DEF ResumeReconciles, Frame,
       CommittedApplied, Applied, is_committed, Place, States
  <2>3. (Place(w) /\ Counted(w) /\ Resolved(w))'
    BY <1>3, <1>a, TypesOfRun, SMTT(30) DEF ResumeReconciles, Place, Counted,
       Resolved, CallOf, Calling, CommittedApplied, Applied, is_committed, States,
       Scopes
  <2>. QED  BY <2>1, <2>2, <2>3 DEF Sound
<1>4. CASE ReconcileApplied(w) /\ UNCHANGED warm
  <2>1. (TypeOK /\ pc \in [Workers -> Labels])'
    BY <1>4, <1>a, SMTT(30) DEF ReconcileApplied, StateCommit, SystemOfRecord,
       TypeOK, RunTypeOK, Labels, Calling, Place, Counted, States, Outcomes, Scopes,
       CallOf
  <2>2. Frame(w) /\ CommittedApplied' /\ durable'.pending \in Destructive \cup {NoKey}
    BY <1>4, <1>a, TypesOfRun, SMTT(30) DEF ReconcileApplied, StateCommit,
       SystemOfRecord, Frame, CommittedApplied, Applied, is_committed, Place, States
  <2>3. (Place(w) /\ Counted(w) /\ Resolved(w))'
    <3>1. memory[w].pending \in Destructive /\ Applied(memory[w].pending)
      BY <1>4, <1>a DEF ReconcileApplied, SystemOfRecord, Place, Applied
    <3>2. /\ pc'[w] = "record" /\ key'[w] = memory[w].pending
          /\ memory'[w].pending = NoKey
          /\ UNCHANGED <<effects, committed, ret, scope, revoked, attempts>>
      BY <1>4, <1>a, TypesOfRun DEF ReconcileApplied, StateCommit
    <3>. QED
      BY <1>4, <1>a, <3>1, <3>2 DEF ReconcileApplied, Place, Counted, Resolved, CallOf,
         Calling, Applied
  <2>. QED  BY <2>1, <2>2, <2>3 DEF Sound
<1>5. CASE RecordReconciled(w) /\ UNCHANGED warm
  <2>1. (TypeOK /\ pc \in [Workers -> Labels])'
    BY <1>5, <1>a, SMTT(30) DEF RecordReconciled, Bump, TypeOK, RunTypeOK, Labels,
       Calling, Place, Counted, States, Outcomes, Scopes, CallOf
  <2>2. Frame(w) /\ CommittedApplied' /\ durable'.pending \in Destructive \cup {NoKey}
    BY <1>5, <1>a, TypesOfRun, SMTT(30) DEF RecordReconciled, Bump, Frame,
       CommittedApplied, Applied, is_committed, Place, States
  <2>3. (Place(w) /\ Counted(w) /\ Resolved(w))'
    BY <1>5, <1>a, TypesOfRun, SMTT(30) DEF RecordReconciled, Bump, Place, Counted,
       Resolved, CallOf, Calling, CommittedApplied, Applied, is_committed, States,
       Scopes
  <2>. QED  BY <2>1, <2>2, <2>3 DEF Sound
<1>6. CASE ReconcileNotApplied(w) /\ UNCHANGED warm
  <2>1. (TypeOK /\ pc \in [Workers -> Labels])'
    BY <1>6, <1>a, SMTT(30) DEF ReconcileNotApplied, TypeOK, RunTypeOK, Labels,
       Calling, Place, Counted, States, Outcomes, Scopes, CallOf
  <2>2. Frame(w) /\ CommittedApplied' /\ durable'.pending \in Destructive \cup {NoKey}
    BY <1>6, <1>a, TypesOfRun, SMTT(30) DEF ReconcileNotApplied, Frame,
       CommittedApplied, Applied, is_committed, Place, States
  <2>3. (Place(w) /\ Counted(w) /\ Resolved(w))'
    BY <1>6, <1>a, TypesOfRun, SMTT(30) DEF ReconcileNotApplied, Place, Counted,
       Resolved, CallOf, Calling, CommittedApplied, Applied, is_committed, States,
       Scopes
  <2>. QED  BY <2>1, <2>2, <2>3 DEF Sound
<1>. QED
  BY <1>1, <1>2, <1>3, <1>4, <1>5, <1>6 DEF Start

\* A governed call: in mock mode, with nothing for the validator to refuse.
LEMMA CallSound ==
  ASSUME RunInv, NEW w \in Workers, Calls(w), UNCHANGED warm
  PROVE  Sound(w)
<1>. USE DEF world, calls, state, leash, Goto, Return
<1>a. /\ TypeOK /\ pc \in [Workers -> Labels] /\ CommittedApplied
      /\ durable.pending \in Destructive \cup {NoKey}
      /\ Place(w) /\ Counted(w) /\ Resolved(w)
  BY DEF RunInv
<1>1. CASE ExecuteDenied(w) /\ UNCHANGED <<state, resume, leash, crashes, warm>>
  <2>1. (TypeOK /\ pc \in [Workers -> Labels])'
    BY <1>1, <1>a, SMTT(30) DEF ExecuteDenied, Denied, TypeOK, RunTypeOK, Labels,
       Calling, Place, Counted, States, Outcomes, Scopes, CallOf
  <2>2. Frame(w) /\ CommittedApplied' /\ durable'.pending \in Destructive \cup {NoKey}
    BY <1>1, <1>a, TypesOfRun, SMTT(30) DEF ExecuteDenied, Denied, Frame,
       CommittedApplied, Applied, is_committed, Place, States
  <2>3. (Place(w) /\ Counted(w) /\ Resolved(w))'
    BY <1>1, <1>a, TypesOfRun, SMTT(30) DEF ExecuteDenied, Denied, Place, Counted,
       Resolved, CallOf, Calling, CommittedApplied, Applied, is_committed, States,
       Scopes
  <2>. QED  BY <2>1, <2>2, <2>3 DEF Sound
<1>2. CASE ExecuteSkipped(w) /\ UNCHANGED <<state, resume, leash, crashes, warm>>
  <2>1. (TypeOK /\ pc \in [Workers -> Labels])'
    BY <1>2, <1>a, SMTT(30) DEF ExecuteSkipped, Denied, TypeOK, RunTypeOK, Labels,
       Calling, Place, Counted, States, Outcomes, Scopes, CallOf
  <2>2. Frame(w) /\ CommittedApplied' /\ durable'.pending \in Destructive \cup {NoKey}
    BY <1>2, <1>a, TypesOfRun, SMTT(30) DEF ExecuteSkipped, Denied, Frame,
       CommittedApplied, Applied, is_committed, Place, States
  <2>3. (Place(w) /\ Counted(w) /\ Resolved(w))'
    BY <1>2, <1>a, TypesOfRun, SMTT(30) DEF ExecuteSkipped, Denied, Place, Counted,
       Resolved, CallOf, Calling, CommittedApplied, Applied, is_committed, States,
       Scopes
  <2>. QED  BY <2>1, <2>2, <2>3 DEF Sound
<1>3. CASE PreToolPasses(w) /\ UNCHANGED <<state, resume, leash, crashes, warm>>
  <2>1. (TypeOK /\ pc \in [Workers -> Labels])'
    BY <1>3, <1>a, SMTT(30) DEF PreToolPasses, Denied, TypeOK, RunTypeOK, Labels,
       Calling, Place, Counted, States, Outcomes, Scopes, CallOf
  <2>2. Frame(w) /\ CommittedApplied' /\ durable'.pending \in Destructive \cup {NoKey}
    BY <1>3, <1>a, TypesOfRun, SMTT(30) DEF PreToolPasses, Denied, Frame,
       CommittedApplied, Applied, is_committed, Place, States
  <2>3. (Place(w) /\ Counted(w) /\ Resolved(w))'
    BY <1>3, <1>a, TypesOfRun, SMTT(30) DEF PreToolPasses, Denied, Place, Counted,
       Resolved, CallOf, Calling, CommittedApplied, Applied, is_committed, States,
       Scopes
  <2>. QED  BY <2>1, <2>2, <2>3 DEF Sound
<1>4. CASE MockCall(w) /\ UNCHANGED <<state, resume, leash, crashes, warm>>
  <2>1. (TypeOK /\ pc \in [Workers -> Labels])'
    BY <1>4, <1>a, SMTT(30) DEF MockCall, Apply, Bump, TypeOK, RunTypeOK, Labels,
       Calling, Place, Counted, States, Outcomes, Scopes, CallOf
  <2>2. Frame(w) /\ CommittedApplied' /\ durable'.pending \in Destructive \cup {NoKey}
    BY <1>4, <1>a, TypesOfRun, SMTT(30) DEF MockCall, Apply, Bump, Frame,
       CommittedApplied, Applied, is_committed, Place, States
  <2>3. (Place(w) /\ Counted(w) /\ Resolved(w))'
    BY <1>4, <1>a, TypesOfRun, SMTT(30) DEF MockCall, Apply, Bump, Place, Counted,
       Resolved, CallOf, Calling, CommittedApplied, Applied, is_committed, States,
       Scopes
  <2>. QED  BY <2>1, <2>2, <2>3 DEF Sound
<1>5. CASE PostToolBlocks(w) /\ UNCHANGED <<state, resume, leash, crashes, warm>>
  <2>1. (TypeOK /\ pc \in [Workers -> Labels])'
    BY <1>5, <1>a, SMTT(30) DEF PostToolBlocks, ResultBlocked, TypeOK, RunTypeOK,
       Labels, Calling, Place, Counted, States, Outcomes, Scopes, CallOf
  <2>2. Frame(w) /\ CommittedApplied' /\ durable'.pending \in Destructive \cup {NoKey}
    BY <1>5, <1>a, TypesOfRun, SMTT(30) DEF PostToolBlocks, ResultBlocked, Frame,
       CommittedApplied, Applied, is_committed, Place, States
  <2>3. (Place(w) /\ Counted(w) /\ Resolved(w))'
    BY <1>5, <1>a, TypesOfRun, SMTT(30) DEF PostToolBlocks, ResultBlocked, Place,
       Counted, Resolved, CallOf, Calling, CommittedApplied, Applied, is_committed,
       States, Scopes
  <2>. QED  BY <2>1, <2>2, <2>3 DEF Sound
<1>6. CASE Claim(w) /\ UNCHANGED <<state, resume, leash, crashes, warm>>
  <2>1. (TypeOK /\ pc \in [Workers -> Labels])'
    <3>1. /\ key[w] \in Keys /\ committed' \in [Keys -> 0..Many]
          /\ ret' \in [Workers -> Outcomes \cup {"none"}]
          /\ pc' \in [Workers -> Labels]
      BY <1>6, <1>a DEF Claim, Bump, TypeOK, RunTypeOK, Labels, Calling, Place, Outcomes
    <3>. QED
      BY <1>6, <1>a, <3>1 DEF Claim, TypeOK, RunTypeOK
  <2>2. Frame(w) /\ CommittedApplied' /\ durable'.pending \in Destructive \cup {NoKey}
    <3>1. /\ key[w] \in Keys /\ UNCHANGED <<effects, durable, key>>
          /\ key[w] \in Destructive => Applied(key[w])
          /\ \A k \in Keys \ {key[w]} : committed'[k] = committed[k]
          /\ is_committed(key[w])'
      BY <1>6, <1>a, TypesOfRun DEF Claim, Bump, Place, Calling, is_committed
    <3>2. \A k \in Keys : is_committed(k) => is_committed(k)'
      BY <3>1 DEF is_committed
    <3>3. CommittedApplied'
      BY <1>a, <3>1 DEF CommittedApplied, Applied, is_committed
    <3>4. \A v \in Workers \ {w} :
            /\ pc'[v] = pc[v] /\ key'[v] = key[v] /\ ret'[v] = ret[v] /\ scope'[v] = scope[v]
            /\ revoked'[v] = revoked[v] /\ attempts'[v] = attempts[v]
            /\ memory'[v] = memory[v]
      BY <1>6, <1>a, TypesOfRun DEF Claim
    <3>5. Frame(w)
      BY <3>1, <3>2, <3>4 DEF Frame, Applied
    <3>. QED
      BY <1>a, <3>1, <3>3, <3>5
  <2>3. (Place(w) /\ Counted(w) /\ Resolved(w))'
    BY <1>6, <1>a, TypesOfRun, SMTT(30) DEF Claim, Bump, Place, Counted, Resolved,
       CallOf, Calling, CommittedApplied, Applied, is_committed, States, Scopes
  <2>. QED  BY <2>1, <2>2, <2>3 DEF Sound
<1>. QED
  BY <1>1, <1>2, <1>3, <1>4, <1>5, <1>6 DEF Calls, Execute, PreToolBlocks, PreToolRaises,
     CallLost, AnswerLost,
     CallRefused, CallSucceeds, CallReplayed

\* The steps of the script, the end of a run and the next delivery.
LEMMA OwnSound ==
  ASSUME RunInv, NEW w \in Workers, Own(w)
  PROVE  Sound(w)
<1>. USE DEF world, calls, state, leash, Goto, Return
<1>a. /\ TypeOK /\ pc \in [Workers -> Labels] /\ CommittedApplied
      /\ durable.pending \in Destructive \cup {NoKey}
      /\ Place(w) /\ Counted(w) /\ Resolved(w)
  BY DEF RunInv
<1>1. CASE Diagnose(w)
  <2>1. (TypeOK /\ pc \in [Workers -> Labels])'
    <3>1. degraded' \in [Workers -> BOOLEAN] /\ warm' \in [Workers -> BOOLEAN]
      BY <1>1, <1>a DEF Diagnose, Answered, TypeOK, RunTypeOK
    <3>. QED
      BY <1>1, <1>a, <3>1 DEF Diagnose, TypeOK, RunTypeOK, Labels
  <2>2. Frame(w) /\ CommittedApplied' /\ durable'.pending \in Destructive \cup {NoKey}
    BY <1>1, <1>a, TypesOfRun, SMTT(30) DEF Diagnose, Answered, Frame,
       CommittedApplied, Applied, is_committed, Place, States
  <2>3. (Place(w) /\ Counted(w) /\ Resolved(w))'
    BY <1>1, <1>a, TypesOfRun, SMTT(30) DEF Diagnose, Answered, Place, Counted,
       Resolved, CallOf, Calling, CommittedApplied, Applied, is_committed, States,
       Scopes
  <2>. QED  BY <2>1, <2>2, <2>3 DEF Sound
<1>2. CASE CallRead(w)
  <2>1. (TypeOK /\ pc \in [Workers -> Labels])'
    BY <1>2, <1>a, SMTT(30) DEF CallRead, AllowedScope, TypeOK, RunTypeOK, Labels,
       Calling, Place, Counted, States, Outcomes, Scopes, CallOf
  <2>2. Frame(w) /\ CommittedApplied' /\ durable'.pending \in Destructive \cup {NoKey}
    BY <1>2, <1>a, TypesOfRun, SMTT(30) DEF CallRead, AllowedScope, Frame,
       CommittedApplied, Applied, is_committed, Place, States
  <2>3. (Place(w) /\ Counted(w) /\ Resolved(w))'
    BY <1>2, <1>a, TypesOfRun, SMTT(30) DEF CallRead, AllowedScope, Place, Counted,
       Resolved, CallOf, Calling, CommittedApplied, Applied, is_committed, States,
       Scopes
  <2>. QED  BY <2>1, <2>2, <2>3 DEF Sound
<1>3. CASE ReadReturns(w)
  <2>1. (TypeOK /\ pc \in [Workers -> Labels])'
    BY <1>3, <1>a, SMTT(30) DEF ReadReturns, TypeOK, RunTypeOK, Labels, Calling,
       Place, Counted, States, Outcomes, Scopes, CallOf
  <2>2. Frame(w) /\ CommittedApplied' /\ durable'.pending \in Destructive \cup {NoKey}
    BY <1>3, <1>a, TypesOfRun, SMTT(30) DEF ReadReturns, Frame, CommittedApplied,
       Applied, is_committed, Place, States
  <2>3. (Place(w) /\ Counted(w) /\ Resolved(w))'
    BY <1>3, <1>a, TypesOfRun, SMTT(30) DEF ReadReturns, Place, Counted, Resolved,
       CallOf, Calling, CommittedApplied, Applied, is_committed, States, Scopes
  <2>. QED  BY <2>1, <2>2, <2>3 DEF Sound
<1>4. CASE SkipRevert(w)
  <2>1. (TypeOK /\ pc \in [Workers -> Labels])'
    BY <1>4, <1>a, SMTT(30) DEF SkipRevert, TypeOK, RunTypeOK, Labels, Calling,
       Place, Counted, States, Outcomes, Scopes, CallOf
  <2>2. Frame(w) /\ CommittedApplied' /\ durable'.pending \in Destructive \cup {NoKey}
    BY <1>4, <1>a, TypesOfRun, SMTT(30) DEF SkipRevert, Frame, CommittedApplied,
       Applied, is_committed, Place, States
  <2>3. (Place(w) /\ Counted(w) /\ Resolved(w))'
    BY <1>4, <1>a, TypesOfRun, SMTT(30) DEF SkipRevert, Place, Counted, Resolved,
       CallOf, Calling, CommittedApplied, Applied, is_committed, States, Scopes
  <2>. QED  BY <2>1, <2>2, <2>3 DEF Sound
<1>5. CASE CheckpointRevert(w)
  <2>1. (TypeOK /\ pc \in [Workers -> Labels])'
    BY <1>5, <1>a, SMTT(30) DEF CheckpointRevert, SetPending, TypeOK, RunTypeOK,
       Labels, Calling, Place, Counted, States, Outcomes, Scopes, CallOf
  <2>2. Frame(w) /\ CommittedApplied' /\ durable'.pending \in Destructive \cup {NoKey}
    BY <1>5, <1>a, TypesOfRun, SMTT(30) DEF CheckpointRevert, SetPending, Frame,
       CommittedApplied, Applied, is_committed, Place, States
  <2>3. (Place(w) /\ Counted(w) /\ Resolved(w))'
    BY <1>5, <1>a, TypesOfRun, SMTT(30) DEF CheckpointRevert, SetPending, Place,
       Counted, Resolved, CallOf, Calling, CommittedApplied, Applied, is_committed,
       States, Scopes
  <2>. QED  BY <2>1, <2>2, <2>3 DEF Sound
<1>6. CASE CallRevert(w)
  <2>1. (TypeOK /\ pc \in [Workers -> Labels])'
    BY <1>6, <1>a, SMTT(30) DEF CallRevert, SystemOfRecord, TypeOK, RunTypeOK,
       Labels, Calling, Place, Counted, States, Outcomes, Scopes, CallOf
  <2>2. Frame(w) /\ CommittedApplied' /\ durable'.pending \in Destructive \cup {NoKey}
    BY <1>6, <1>a, TypesOfRun, SMTT(30) DEF CallRevert, SystemOfRecord, Frame,
       CommittedApplied, Applied, is_committed, Place, States
  <2>3. (Place(w) /\ Counted(w) /\ Resolved(w))'
    BY <1>6, <1>a, TypesOfRun, SMTT(30) DEF CallRevert, SystemOfRecord, Place,
       Counted, Resolved, CallOf, Calling, CommittedApplied, Applied, is_committed,
       States, Scopes
  <2>. QED  BY <2>1, <2>2, <2>3 DEF Sound
<1>7. CASE RevertReturns(w)
  <2>1. (TypeOK /\ pc \in [Workers -> Labels])'
    BY <1>7, <1>a, SMTT(30) DEF RevertReturns, StateCommit, TypeOK, RunTypeOK,
       Labels, Calling, Place, Counted, States, Outcomes, Scopes, CallOf
  <2>2. Frame(w) /\ CommittedApplied' /\ durable'.pending \in Destructive \cup {NoKey}
    BY <1>7, <1>a, TypesOfRun, SMTT(30) DEF RevertReturns, StateCommit, Frame,
       CommittedApplied, Applied, is_committed, Place, States
  <2>3. (Place(w) /\ Counted(w) /\ Resolved(w))'
    BY <1>7, <1>a, TypesOfRun, SMTT(30) DEF RevertReturns, StateCommit, Place,
       Counted, Resolved, CallOf, Calling, CommittedApplied, Applied, is_committed,
       States, Scopes
  <2>. QED  BY <2>1, <2>2, <2>3 DEF Sound
<1>8. CASE RevertDenied(w)
  <2>1. (TypeOK /\ pc \in [Workers -> Labels])'
    BY <1>8, <1>a, SMTT(30) DEF RevertDenied, TypeOK, RunTypeOK, Labels, Calling,
       Place, Counted, States, Outcomes, Scopes, CallOf
  <2>2. Frame(w) /\ CommittedApplied' /\ durable'.pending \in Destructive \cup {NoKey}
    BY <1>8, <1>a, TypesOfRun, SMTT(30) DEF RevertDenied, Frame, CommittedApplied,
       Applied, is_committed, Place, States
  <2>3. (Place(w) /\ Counted(w) /\ Resolved(w))'
    BY <1>8, <1>a, TypesOfRun, SMTT(30) DEF RevertDenied, Place, Counted, Resolved,
       CallOf, Calling, CommittedApplied, Applied, is_committed, States, Scopes
  <2>. QED  BY <2>1, <2>2, <2>3 DEF Sound
<1>9. CASE PhaseARate(w)
  <2>1. (TypeOK /\ pc \in [Workers -> Labels])'
    BY <1>9, <1>a, SMTT(30) DEF PhaseARate, KillSwitch, TypeOK, RunTypeOK, Labels,
       Calling, Place, Counted, States, Outcomes, Scopes, CallOf
  <2>2. Frame(w) /\ CommittedApplied' /\ durable'.pending \in Destructive \cup {NoKey}
    BY <1>9, <1>a, TypesOfRun, SMTT(30) DEF PhaseARate, KillSwitch, Frame,
       CommittedApplied, Applied, is_committed, Place, States
  <2>3. (Place(w) /\ Counted(w) /\ Resolved(w))'
    BY <1>9, <1>a, TypesOfRun, SMTT(30) DEF PhaseARate, KillSwitch, Place, Counted,
       Resolved, CallOf, Calling, CommittedApplied, Applied, is_committed, States,
       Scopes
  <2>. QED  BY <2>1, <2>2, <2>3 DEF Sound
<1>10. CASE Replan(w)
  <2>1. (TypeOK /\ pc \in [Workers -> Labels])'
    BY <1>10, <1>a, SMTT(30) DEF Replan, Answered, TypeOK, RunTypeOK, Labels,
       Calling, Place, Counted, States, Outcomes, Scopes, CallOf
  <2>2. Frame(w) /\ CommittedApplied' /\ durable'.pending \in Destructive \cup {NoKey}
    BY <1>10, <1>a, TypesOfRun, SMTT(30) DEF Replan, Answered, Frame,
       CommittedApplied, Applied, is_committed, Place, States
  <2>3. (Place(w) /\ Counted(w) /\ Resolved(w))'
    BY <1>10, <1>a, TypesOfRun, SMTT(30) DEF Replan, Answered, Place, Counted,
       Resolved, CallOf, Calling, CommittedApplied, Applied, is_committed, States,
       Scopes
  <2>. QED  BY <2>1, <2>2, <2>3 DEF Sound
<1>11. CASE ReplanRaises(w)
  <2>1. (TypeOK /\ pc \in [Workers -> Labels])'
    BY <1>11, <1>a, SMTT(30) DEF ReplanRaises, Forget, EmptyState, TypeOK,
       RunTypeOK, Labels, Calling, Place, Counted, States, Outcomes, Scopes, CallOf
  <2>2. Frame(w) /\ CommittedApplied' /\ durable'.pending \in Destructive \cup {NoKey}
    BY <1>11, <1>a, TypesOfRun, SMTT(30) DEF ReplanRaises, Forget, EmptyState,
       Frame, CommittedApplied, Applied, is_committed, Place, States
  <2>3. (Place(w) /\ Counted(w) /\ Resolved(w))'
    BY <1>11, <1>a, TypesOfRun, SMTT(30) DEF ReplanRaises, Forget, EmptyState,
       Place, Counted, Resolved, CallOf, Calling, CommittedApplied, Applied,
       is_committed, States, Scopes
  <2>. QED  BY <2>1, <2>2, <2>3 DEF Sound
<1>12. CASE Rescope(w)
  <2>1. (TypeOK /\ pc \in [Workers -> Labels])'
    BY <1>12, <1>a, SMTT(30) DEF Rescope, AllowedScope, TypeOK, RunTypeOK, Labels,
       Calling, Place, Counted, States, Outcomes, Scopes, CallOf
  <2>2. Frame(w) /\ CommittedApplied' /\ durable'.pending \in Destructive \cup {NoKey}
    BY <1>12, <1>a, TypesOfRun, SMTT(30) DEF Rescope, AllowedScope, Frame,
       CommittedApplied, Applied, is_committed, Place, States
  <2>3. (Place(w) /\ Counted(w) /\ Resolved(w))'
    BY <1>12, <1>a, TypesOfRun, SMTT(30) DEF Rescope, AllowedScope, Place, Counted,
       Resolved, CallOf, Calling, CommittedApplied, Applied, is_committed, States,
       Scopes
  <2>. QED  BY <2>1, <2>2, <2>3 DEF Sound
<1>13. CASE CallCordon(w)
  <2>1. (TypeOK /\ pc \in [Workers -> Labels])'
    BY <1>13, <1>a, SMTT(30) DEF CallCordon, SetPending, TypeOK, RunTypeOK, Labels,
       Calling, Place, Counted, States, Outcomes, Scopes, CallOf
  <2>2. Frame(w) /\ CommittedApplied' /\ durable'.pending \in Destructive \cup {NoKey}
    BY <1>13, <1>a, TypesOfRun, SMTT(30) DEF CallCordon, SetPending, Frame,
       CommittedApplied, Applied, is_committed, Place, States
  <2>3. (Place(w) /\ Counted(w) /\ Resolved(w))'
    BY <1>13, <1>a, TypesOfRun, SMTT(30) DEF CallCordon, SetPending, Place, Counted,
       Resolved, CallOf, Calling, CommittedApplied, Applied, is_committed, States,
       Scopes
  <2>. QED  BY <2>1, <2>2, <2>3 DEF Sound
<1>14. CASE CordonReturns(w)
  <2>1. (TypeOK /\ pc \in [Workers -> Labels])'
    BY <1>14, <1>a, SMTT(30) DEF CordonReturns, KillSwitch, TypeOK, RunTypeOK,
       Labels, Calling, Place, Counted, States, Outcomes, Scopes, CallOf
  <2>2. Frame(w) /\ CommittedApplied' /\ durable'.pending \in Destructive \cup {NoKey}
    BY <1>14, <1>a, TypesOfRun, SMTT(30) DEF CordonReturns, KillSwitch, Frame,
       CommittedApplied, Applied, is_committed, Place, States
  <2>3. (Place(w) /\ Counted(w) /\ Resolved(w))'
    BY <1>14, <1>a, TypesOfRun, SMTT(30) DEF CordonReturns, KillSwitch, Place,
       Counted, Resolved, CallOf, Calling, CommittedApplied, Applied, is_committed,
       States, Scopes
  <2>. QED  BY <2>1, <2>2, <2>3 DEF Sound
<1>15. CASE Finish(w)
  <2>1. (TypeOK /\ pc \in [Workers -> Labels])'
    BY <1>15, <1>a, SMTT(30) DEF Finish, Forget, EmptyState, TypeOK, RunTypeOK,
       Labels, Calling, Place, Counted, States, Outcomes, Scopes, CallOf
  <2>2. Frame(w) /\ CommittedApplied' /\ durable'.pending \in Destructive \cup {NoKey}
    BY <1>15, <1>a, TypesOfRun, SMTT(30) DEF Finish, Forget, EmptyState, Frame,
       CommittedApplied, Applied, is_committed, Place, States
  <2>3. (Place(w) /\ Counted(w) /\ Resolved(w))'
    BY <1>15, <1>a, TypesOfRun, SMTT(30) DEF Finish, Forget, EmptyState, Place,
       Counted, Resolved, CallOf, Calling, CommittedApplied, Applied, is_committed,
       States, Scopes
  <2>. QED  BY <2>1, <2>2, <2>3 DEF Sound
<1>16. CASE Die(w)
  <2>1. (TypeOK /\ pc \in [Workers -> Labels])'
    BY <1>16, <1>a, SMTT(30) DEF Die, Crash, Forget, EmptyState, TypeOK, RunTypeOK,
       Labels, Calling, Place, Counted, States, Outcomes, Scopes, CallOf
  <2>2. Frame(w) /\ CommittedApplied' /\ durable'.pending \in Destructive \cup {NoKey}
    BY <1>16, <1>a, TypesOfRun, SMTT(30) DEF Die, Crash, Forget, EmptyState, Frame,
       CommittedApplied, Applied, is_committed, Place, States
  <2>3. (Place(w) /\ Counted(w) /\ Resolved(w))'
    BY <1>16, <1>a, TypesOfRun, SMTT(30) DEF Die, Crash, Forget, EmptyState, Place,
       Counted, Resolved, CallOf, Calling, CommittedApplied, Applied, is_committed,
       States, Scopes
  <2>. QED  BY <2>1, <2>2, <2>3 DEF Sound
<1>17. CASE Deliver(w) /\ UNCHANGED warm
  <2>1. (TypeOK /\ pc \in [Workers -> Labels])'
    BY <1>17, <1>a, SMTT(30) DEF Deliver, TypeOK, RunTypeOK, Labels, Calling, Place,
       Counted, States, Outcomes, Scopes, CallOf
  <2>2. Frame(w) /\ CommittedApplied' /\ durable'.pending \in Destructive \cup {NoKey}
    BY <1>17, <1>a, TypesOfRun, SMTT(30) DEF Deliver, Frame, CommittedApplied,
       Applied, is_committed, Place, States
  <2>3. (Place(w) /\ Counted(w) /\ Resolved(w))'
    BY <1>17, <1>a, TypesOfRun, SMTT(30) DEF Deliver, Place, Counted, Resolved,
       CallOf, Calling, CommittedApplied, Applied, is_committed, States, Scopes
  <2>. QED  BY <2>1, <2>2, <2>3 DEF Sound
<1>. QED
  BY <1>1, <1>2, <1>3, <1>4, <1>5, <1>6, <1>7, <1>8, <1>9, <1>10, <1>11, <1>12, <1>13,
     <1>14, <1>15, <1>16, <1>17 DEF Own

\* RunInv is inductive.
LEMMA RunStepKeeps == RunInv /\ [Next]_vars => RunInv'
<1>. SUFFICES ASSUME RunInv, [Next]_vars PROVE RunInv'
  OBVIOUS
<1>1. CASE UNCHANGED vars
  BY <1>1 DEF vars, runVars, world, calls, state, leash, RunInv, TypeOK, RunTypeOK,
              CommittedApplied, Applied, is_committed, Place, Counted, Resolved, CallOf
<1>2. ASSUME NEW w \in Workers, Work(w) \/ Die(w) \/ (Deliver(w) /\ UNCHANGED warm)
      PROVE  RunInv'
  <2>1. Sound(w)
    BY <1>2, StartSound, CallSound, OwnSound DEF Work, Own
  <2>. QED  BY <2>1, SoundStepKeeps
<1>. QED  BY <1>1, <1>2 DEF Next

\* RunInv holds of every reachable state.
LEMMA RunInvariant == Spec => []RunInv
BY InitialRun, RunStepKeeps, PTL DEF Spec

\* "incident resolved": any number of runs at once, dying anywhere: one that reaches its
\* end with its authority has both actions applied and on record.
THEOREM ResolvedAtScale == Spec => []ResolvedUnlessLeashed
<1>1. RunInv => ResolvedUnlessLeashed
  BY DEF RunInv, Resolved, ResolvedUnlessLeashed, CommittedApplied
<1>. QED  BY <1>1, RunInvariant, PTL

-------------------------------------------------------------------------------
(* One run at a time *)

\* What hit the world and is not on record.
Unrecorded(k) == Applied(k) /\ ~is_committed(k)

\* The copy of the state file is true, and names the action before it is called.
OneRun(w) ==
  /\ pc[w] \notin {"idle", "load"} => memory[w] = durable
  /\ pc[w] = "load" => resume[w] = (durable.pending # NoKey)
  /\ pc[w] = "reconcile" => ~is_committed(durable.pending)
  /\ pc[w] = "record" => ~is_committed(key[w])
  /\ pc[w] = "grant" => durable.pending = revert_key /\ ~is_committed(revert_key)
  /\ pc[w] = "execute" /\ key[w] \in Destructive /\ ~Denied(w) /\ ~is_committed(key[w])
       => durable.pending = key[w]
  /\ pc[w] \in {"call", "result"} /\ key[w] \in Destructive
       => durable.pending = key[w] /\ ~is_committed(key[w]) /\ key[w] \in pending

\* Until it is recorded, an action that hit the world is the pending one of the state
\* file, which every run that starts looks at first, or the one a run is about to record.
SoloInv(w) ==
  /\ \A k \in Destructive : committed[k] <= effects[k] /\ effects[k] <= 1
  /\ \A k \in Destructive : Unrecorded(k) =>
       \/ pc[w] \in {"idle", "load", "resume", "reconcile"} /\ durable.pending = k
       \/ pc[w] \in {"result", "record"} /\ key[w] = k

\* A run that starts has the state file as it is.
LEMMA StartKeepsOneRun ==
  ASSUME NEW w, Workers = {w}, RunInv, OneRun(w),
         Start(w), UNCHANGED warm
  PROVE  OneRun(w)'
<1>. USE DEF world, calls, state, leash, Goto, Return, OneRun, is_committed
<1>a. TypeOK /\ pc \in [Workers -> Labels] /\ Place(w) /\ CommittedApplied
      /\ durable.pending \in Destructive \cup {NoKey}
  BY DEF RunInv
<1>1. CASE Load(w) /\ UNCHANGED warm
  BY <1>1, <1>a, TypesOfRun, SMTT(30) DEF Load, EmptyState, Denied, States, Scopes,
     Place
<1>2. CASE ResumeSkips(w) /\ UNCHANGED warm
  BY <1>2, <1>a, TypesOfRun, SMTT(30) DEF ResumeSkips, Denied, States, Scopes, Place
<1>3. CASE ResumeReconciles(w) /\ UNCHANGED warm
  BY <1>3, <1>a, TypesOfRun, SMTT(30) DEF ResumeReconciles, Denied, States, Scopes,
     Place
<1>4. CASE ReconcileApplied(w) /\ UNCHANGED warm
  BY <1>4, <1>a, TypesOfRun, SMTT(30) DEF ReconcileApplied, StateCommit,
     SystemOfRecord, Denied, States, Scopes, Place
<1>5. CASE RecordReconciled(w) /\ UNCHANGED warm
  BY <1>5, <1>a, TypesOfRun, SMTT(30) DEF RecordReconciled, Bump, Denied, States,
     Scopes, Place
<1>6. CASE ReconcileNotApplied(w) /\ UNCHANGED warm
  BY <1>6, <1>a, TypesOfRun, SMTT(30) DEF ReconcileNotApplied, SystemOfRecord,
     Denied, States, Scopes, Place
<1>. QED
  BY <1>1, <1>2, <1>3, <1>4, <1>5, <1>6 DEF Start

\* The key of a call stays the pending one until its claim.
LEMMA CallKeepsOneRun ==
  ASSUME NEW w, Workers = {w}, RunInv, OneRun(w),
         Calls(w), UNCHANGED warm
  PROVE  OneRun(w)'
<1>. USE DEF world, calls, state, leash, Goto, Return, OneRun, is_committed
<1>a. TypeOK /\ pc \in [Workers -> Labels] /\ Place(w) /\ CommittedApplied
      /\ durable.pending \in Destructive \cup {NoKey}
  BY DEF RunInv
<1>1. CASE ExecuteDenied(w) /\ UNCHANGED <<state, resume, leash, crashes, warm>>
  BY <1>1, <1>a, TypesOfRun, SMTT(30) DEF ExecuteDenied, Denied, Place, States,
     Scopes
<1>2. CASE ExecuteSkipped(w) /\ UNCHANGED <<state, resume, leash, crashes, warm>>
  BY <1>2, <1>a, TypesOfRun, SMTT(30) DEF ExecuteSkipped, Denied, Place, States,
     Scopes
<1>3. CASE PreToolPasses(w) /\ UNCHANGED <<state, resume, leash, crashes, warm>>
  BY <1>3, <1>a, TypesOfRun, SMTT(30) DEF PreToolPasses, Denied, Place, States,
     Scopes
<1>4. CASE MockCall(w) /\ UNCHANGED <<state, resume, leash, crashes, warm>>
  BY <1>4, <1>a, TypesOfRun, SMTT(30) DEF MockCall, Apply, Bump, Denied, States,
     Scopes, Place
<1>5. CASE PostToolBlocks(w) /\ UNCHANGED <<state, resume, leash, crashes, warm>>
  BY <1>5, <1>a, TypesOfRun, SMTT(30) DEF PostToolBlocks, ResultBlocked, Denied,
     States, Scopes, Place
<1>6. CASE Claim(w) /\ UNCHANGED <<state, resume, leash, crashes, warm>>
  BY <1>6, <1>a, TypesOfRun, SMTT(30) DEF Claim, Bump, Denied, States, Scopes, Place
<1>. QED
  BY <1>1, <1>2, <1>3, <1>4, <1>5, <1>6 DEF Calls, Execute, PreToolBlocks, PreToolRaises,
     CallLost, AnswerLost, CallRefused,
     CallSucceeds, CallReplayed

\* The script names a destructive action in the state file before it calls it.
LEMMA OwnKeepsOneRun ==
  ASSUME NEW w, Workers = {w}, RunInv, OneRun(w),
         Own(w)
  PROVE  OneRun(w)'
<1>. USE DEF world, calls, state, leash, Goto, Return, OneRun, is_committed
<1>a. TypeOK /\ pc \in [Workers -> Labels] /\ Place(w) /\ CommittedApplied
      /\ durable.pending \in Destructive \cup {NoKey}
  BY DEF RunInv
<1>1. CASE Diagnose(w)
  BY <1>1, <1>a, TypesOfRun, SMTT(30) DEF Diagnose, Denied, States, Scopes, Place
<1>2. CASE CallRead(w)
  BY <1>2, <1>a, TypesOfRun, SMTT(30) DEF CallRead, AllowedScope, Denied, States,
     Scopes, Place
<1>3. CASE ReadReturns(w)
  BY <1>3, <1>a, TypesOfRun, SMTT(30) DEF ReadReturns, Denied, States, Scopes, Place
<1>4. CASE SkipRevert(w)
  BY <1>4, <1>a, TypesOfRun, SMTT(30) DEF SkipRevert, Denied, States, Scopes, Place
<1>5. CASE CheckpointRevert(w)
  BY <1>5, <1>a, TypesOfRun, SMTT(30) DEF CheckpointRevert, SetPending, Denied,
     States, Scopes, Place
<1>6. CASE CallRevert(w)
  BY <1>6, <1>a, TypesOfRun, SMTT(30) DEF CallRevert, Denied, States, Scopes, Place
<1>7. CASE RevertReturns(w)
  BY <1>7, <1>a, TypesOfRun, SMTT(30) DEF RevertReturns, StateCommit, Denied,
     States, Scopes, Place
<1>8. CASE RevertDenied(w)
  BY <1>8, <1>a, TypesOfRun, SMTT(30) DEF RevertDenied, Denied, States, Scopes,
     Place
<1>9. CASE PhaseARate(w)
  BY <1>9, <1>a, TypesOfRun, SMTT(30) DEF PhaseARate, Denied, States, Scopes, Place
<1>10. CASE Replan(w)
  BY <1>10, <1>a, TypesOfRun, SMTT(30) DEF Replan, Answered, Denied, States, Scopes,
     Place
<1>11. CASE ReplanRaises(w)
  BY <1>11, <1>a, TypesOfRun, SMTT(30) DEF ReplanRaises, Forget, EmptyState, Denied,
     States, Scopes, Place
<1>12. CASE Rescope(w)
  BY <1>12, <1>a, TypesOfRun, SMTT(30) DEF Rescope, AllowedScope, Denied, States,
     Scopes, Place
<1>13. CASE CallCordon(w)
  BY <1>13, <1>a, TypesOfRun, SMTT(30) DEF CallCordon, SetPending, Denied, States,
     Scopes, Place
<1>14. CASE CordonReturns(w)
  BY <1>14, <1>a, TypesOfRun, SMTT(30) DEF CordonReturns, Denied, States, Scopes,
     Place
<1>15. CASE Finish(w)
  BY <1>15, <1>a, TypesOfRun, SMTT(30) DEF Finish, Forget, EmptyState, Denied,
     States, Scopes, Place
<1>16. CASE Die(w)
  BY <1>16, <1>a, TypesOfRun, SMTT(30) DEF Die, Crash, Forget, EmptyState, Denied,
     States, Scopes, Place
<1>17. CASE Deliver(w) /\ UNCHANGED warm
  <2>1. pc'[w] = "load" /\ durable' = durable
    BY <1>17, <1>a DEF Deliver
  <2>2. resume'[w] = (durable.pending # NoKey)
    BY <1>17, <1>a DEF Deliver, TypeOK, RunTypeOK
  <2>. QED
    BY <2>1, <2>2
<1>. QED
  BY <1>1, <1>2, <1>3, <1>4, <1>5, <1>6, <1>7, <1>8, <1>9, <1>10, <1>11, <1>12, <1>13,
     <1>14, <1>15, <1>16, <1>17 DEF Own

\* A run that starts settles what is pending before anything else.
LEMMA StartKeepsSoloInv ==
  ASSUME NEW w, Workers = {w}, ~WindowCrashes, RunInv, OneRun(w), SoloInv(w),
         Start(w), UNCHANGED warm
  PROVE  SoloInv(w)'
<1>. USE DEF world, calls, state, leash, Goto, Return, SoloInv, Unrecorded, Applied,
             is_committed
<1>a. TypeOK /\ pc \in [Workers -> Labels] /\ Place(w) /\ CommittedApplied
      /\ durable.pending \in Destructive \cup {NoKey}
  BY DEF RunInv
<1>1. CASE Load(w) /\ UNCHANGED warm
  <2>1. CASE resume[w]
    BY <1>1, <1>a, <2>1 DEF Load
  <2>2. CASE ~resume[w]
    <3>1. durable.pending = NoKey
      BY <1>1, <2>2 DEF Load, OneRun
    <3>2. \A k \in Destructive : ~Unrecorded(k)
      BY <1>1, <3>1 DEF Load
    <3>. QED  BY <1>1, <1>a, <3>2 DEF Load
  <2>. QED  BY <2>1, <2>2
<1>2. CASE ResumeSkips(w) /\ UNCHANGED warm
  BY <1>2, <1>a, TypesOfRun, SMTT(30) DEF ResumeSkips, OneRun, Place, States, Scopes
<1>3. CASE ResumeReconciles(w) /\ UNCHANGED warm
  BY <1>3, <1>a, TypesOfRun, SMTT(30) DEF ResumeReconciles, OneRun, Place, States,
     Scopes
<1>4. CASE ReconcileApplied(w) /\ UNCHANGED warm
  BY <1>4, <1>a, TypesOfRun, SMTT(30) DEF ReconcileApplied, StateCommit,
     SystemOfRecord, OneRun, Place, States, Scopes
<1>5. CASE RecordReconciled(w) /\ UNCHANGED warm
  BY <1>5, <1>a, TypesOfRun, SMTT(30) DEF RecordReconciled, Bump, OneRun, Place,
     States, Scopes
<1>6. CASE ReconcileNotApplied(w) /\ UNCHANGED warm
  <2>1. ~Applied(durable.pending)
    BY <1>6 DEF ReconcileNotApplied, SystemOfRecord, OneRun
  <2>2. \A k \in Destructive : ~Unrecorded(k)
    BY <1>6, <2>1 DEF ReconcileNotApplied
  <2>. QED
    BY <1>6, <1>a, <2>2 DEF ReconcileNotApplied
<1>. QED
  BY <1>1, <1>2, <1>3, <1>4, <1>5, <1>6 DEF Start

\* What a call does to the world is the first time, and claimed before the next.
LEMMA CallKeepsSoloInv ==
  ASSUME NEW w, Workers = {w}, ~WindowCrashes, RunInv, OneRun(w), SoloInv(w),
         Calls(w), UNCHANGED warm
  PROVE  SoloInv(w)'
<1>. USE DEF world, calls, state, leash, Goto, Return, SoloInv, Unrecorded, Applied,
             is_committed
<1>a. TypeOK /\ pc \in [Workers -> Labels] /\ Place(w) /\ CommittedApplied
      /\ durable.pending \in Destructive \cup {NoKey}
  BY DEF RunInv
<1>1. CASE ExecuteDenied(w) /\ UNCHANGED <<state, resume, leash, crashes, warm>>
  BY <1>1, <1>a, TypesOfRun, SMTT(30) DEF ExecuteDenied, Denied, OneRun, Place,
     States, Scopes
<1>2. CASE ExecuteSkipped(w) /\ UNCHANGED <<state, resume, leash, crashes, warm>>
  BY <1>2, <1>a, TypesOfRun, SMTT(30) DEF ExecuteSkipped, Denied, OneRun, Place,
     States, Scopes
<1>3. CASE PreToolPasses(w) /\ UNCHANGED <<state, resume, leash, crashes, warm>>
  BY <1>3, <1>a, TypesOfRun, SMTT(30) DEF PreToolPasses, Denied, OneRun, Place,
     States, Scopes
<1>4. CASE MockCall(w) /\ UNCHANGED <<state, resume, leash, crashes, warm>>
  BY <1>4, <1>a, TypesOfRun, SMTT(30) DEF MockCall, Apply, Bump, OneRun, Place,
     States, Scopes
<1>5. CASE PostToolBlocks(w) /\ UNCHANGED <<state, resume, leash, crashes, warm>>
  BY <1>5, <1>a, TypesOfRun, SMTT(30) DEF PostToolBlocks, ResultBlocked, OneRun,
     Place, States, Scopes
<1>6. CASE Claim(w) /\ UNCHANGED <<state, resume, leash, crashes, warm>>
  BY <1>6, <1>a, TypesOfRun, SMTT(30) DEF Claim, Bump, OneRun, Place, States, Scopes
<1>. QED
  BY <1>1, <1>2, <1>3, <1>4, <1>5, <1>6 DEF Calls, Execute, PreToolBlocks, PreToolRaises,
     CallLost, AnswerLost, CallRefused,
     CallSucceeds, CallReplayed

\* Nothing is unrecorded outside a call, unless the run has ended there.
LEMMA OwnKeepsSoloInv ==
  ASSUME NEW w, Workers = {w}, ~WindowCrashes, RunInv, OneRun(w), SoloInv(w),
         Own(w)
  PROVE  SoloInv(w)'
<1>. USE DEF world, calls, state, leash, Goto, Return, SoloInv, Unrecorded, Applied,
             is_committed
<1>a. TypeOK /\ pc \in [Workers -> Labels] /\ Place(w) /\ CommittedApplied
      /\ durable.pending \in Destructive \cup {NoKey}
  BY DEF RunInv
<1>1. CASE Diagnose(w)
  BY <1>1, <1>a, TypesOfRun, SMTT(30) DEF Diagnose, OneRun, Place, States, Scopes
<1>2. CASE CallRead(w)
  BY <1>2, <1>a, TypesOfRun, SMTT(30) DEF CallRead, AllowedScope, OneRun, Place,
     States, Scopes
<1>3. CASE ReadReturns(w)
  BY <1>3, <1>a, TypesOfRun, SMTT(30) DEF ReadReturns, OneRun, Place, States, Scopes
<1>4. CASE SkipRevert(w)
  BY <1>4, <1>a, TypesOfRun, SMTT(30) DEF SkipRevert, OneRun, Place, States, Scopes
<1>5. CASE CheckpointRevert(w)
  BY <1>5, <1>a, TypesOfRun, SMTT(30) DEF CheckpointRevert, SetPending, OneRun,
     Place, States, Scopes
<1>6. CASE CallRevert(w)
  BY <1>6, <1>a, TypesOfRun, SMTT(30) DEF CallRevert, OneRun, Place, States, Scopes
<1>7. CASE RevertReturns(w)
  BY <1>7, <1>a, TypesOfRun, SMTT(30) DEF RevertReturns, StateCommit, OneRun, Place,
     States, Scopes
<1>8. CASE RevertDenied(w)
  BY <1>8, <1>a, TypesOfRun, SMTT(30) DEF RevertDenied, OneRun, Place, States,
     Scopes
<1>9. CASE PhaseARate(w)
  BY <1>9, <1>a, TypesOfRun, SMTT(30) DEF PhaseARate, OneRun, Place, States, Scopes
<1>10. CASE Replan(w)
  BY <1>10, <1>a, TypesOfRun, SMTT(30) DEF Replan, Answered, OneRun, Place, States,
     Scopes
<1>11. CASE ReplanRaises(w)
  BY <1>11, <1>a, TypesOfRun, SMTT(30) DEF ReplanRaises, Forget, EmptyState, OneRun,
     Place, States, Scopes
<1>12. CASE Rescope(w)
  BY <1>12, <1>a, TypesOfRun, SMTT(30) DEF Rescope, AllowedScope, OneRun, Place,
     States, Scopes
<1>13. CASE CallCordon(w)
  BY <1>13, <1>a, TypesOfRun, SMTT(30) DEF CallCordon, SetPending, OneRun, Place,
     States, Scopes
<1>14. CASE CordonReturns(w)
  BY <1>14, <1>a, TypesOfRun, SMTT(30) DEF CordonReturns, OneRun, Place, States,
     Scopes
<1>15. CASE Finish(w)
  BY <1>15, <1>a, TypesOfRun, SMTT(30) DEF Finish, Forget, EmptyState, OneRun,
     Place, States, Scopes
<1>16. CASE Die(w)
  BY <1>16, <1>a, TypesOfRun, SMTT(30) DEF Die, Crash, Forget, EmptyState, OneRun,
     Place, States, Scopes
<1>17. CASE Deliver(w) /\ UNCHANGED warm
  BY <1>17, <1>a, TypesOfRun, SMTT(30) DEF Deliver, OneRun, Place, States, Scopes
<1>. QED
  BY <1>1, <1>2, <1>3, <1>4, <1>5, <1>6, <1>7, <1>8, <1>9, <1>10, <1>11, <1>12, <1>13,
     <1>14, <1>15, <1>16, <1>17 DEF Own

\* OneRun is inductive, given RunInv.
LEMMA StepKeepsOneRun ==
  ASSUME NEW w, Workers = {w}, RunInv, OneRun(w), [Next]_vars
  PROVE  OneRun(w)'
<1>1. CASE UNCHANGED vars
  BY <1>1 DEF vars, runVars, world, calls, state, leash, OneRun, Denied, is_committed
<1>2. CASE Work(w) \/ Die(w) \/ (Deliver(w) /\ UNCHANGED warm)
  BY <1>2, StartKeepsOneRun, CallKeepsOneRun, OwnKeepsOneRun DEF Work, Own
<1>. QED  BY <1>1, <1>2 DEF Next

\* SoloInv is inductive, given both.
LEMMA StepKeepsSolo ==
  ASSUME NEW w, Workers = {w}, ~WindowCrashes, RunInv, OneRun(w), SoloInv(w), [Next]_vars
  PROVE  SoloInv(w)'
<1>1. CASE UNCHANGED vars
  BY <1>1 DEF vars, runVars, world, calls, state, leash, SoloInv, Unrecorded, Applied,
              is_committed
<1>2. CASE Work(w) \/ Die(w) \/ (Deliver(w) /\ UNCHANGED warm)
  BY <1>2, StartKeepsSoloInv, CallKeepsSoloInv, OwnKeepsSoloInv DEF Work, Own
<1>. QED  BY <1>1, <1>2 DEF Next

\* The two steps that Mitigation sees: a side effect on an action that has had none ...
LEMMA ApplyAdvances ==
  ASSUME effects \in [Keys -> 0..Many], NEW k \in Destructive,
         effects[k] = 0, committed[k] = 0,
         effects' = [effects EXCEPT ![k] = Bump(@)], UNCHANGED committed
  PROVE  Mitigations!Next
<1>1. effects' = [effects EXCEPT ![k] = 1]
  <2>1. Bump(0) = 1
    BY DEF Bump
  <2>. QED  BY <2>1
<1>2. /\ effects'[k] = 1 /\ committed'[k] = 0
      /\ \A j \in Destructive \ {k} : effects'[j] = effects[j] /\ committed'[j] = committed[j]
  BY <1>1
<1>3. Progress'[k] = "applied" /\ Progress[k] = "none"
  BY <1>2 DEF Progress
<1>4. \A j \in Destructive \ {k} : Progress'[j] = Progress[j]
  BY <1>2 DEF Progress
<1>5. Progress' = [Progress EXCEPT ![k] = "applied"]
  <2>1. /\ Progress = [j \in Destructive |-> Progress[j]]
        /\ Progress' = [j \in Destructive |-> Progress'[j]]
    BY DEF Progress
  <2>. QED  BY <1>3, <1>4, <2>1
<1>. QED
  BY <1>3, <1>5 DEF Mitigations!Next, Mitigations!Apply

\* ... an action that is applied, and a line that records it.
LEMMA RecordAdvances ==
  ASSUME committed \in [Keys -> 0..Many], NEW k \in Destructive,
         effects[k] = 1, committed[k] = 0,
         committed' = [committed EXCEPT ![k] = Bump(@)], UNCHANGED effects
  PROVE  Mitigations!Next
<1>1. committed' = [committed EXCEPT ![k] = 1]
  <2>1. Bump(0) = 1
    BY DEF Bump
  <2>. QED  BY <2>1
<1>2. /\ effects'[k] = 1 /\ committed'[k] = 1
      /\ \A j \in Destructive \ {k} : effects'[j] = effects[j] /\ committed'[j] = committed[j]
  BY <1>1
<1>3. Progress'[k] = "recorded" /\ Progress[k] = "applied"
  BY <1>2 DEF Progress
<1>4. \A j \in Destructive \ {k} : Progress'[j] = Progress[j]
  BY <1>2 DEF Progress
<1>5. Progress' = [Progress EXCEPT ![k] = "recorded"]
  <2>1. /\ Progress = [j \in Destructive |-> Progress[j]]
        /\ Progress' = [j \in Destructive |-> Progress'[j]]
    BY DEF Progress
  <2>. QED  BY <1>3, <1>4, <2>1
<1>. QED
  BY <1>3, <1>5 DEF Mitigations!Next, Mitigations!Record

\* Every other step leaves the world and its record alone.
LEMMA OthersStandStill ==
  ASSUME NEW w, Workers = {w}, [Next]_vars, ~MockCall(w), ~Claim(w), ~RecordReconciled(w)
  PROVE  UNCHANGED <<effects, committed>>
<1>1. CASE UNCHANGED vars
  BY <1>1 DEF vars, runVars, world
<1>2. CASE Start(w)
  BY <1>2 DEF Start, Load, ResumeSkips, ResumeReconciles, ReconcileApplied,
              ReconcileNotApplied, world
<1>3. CASE Calls(w)
  BY <1>3 DEF Calls, Execute, ExecuteDenied, ExecuteSkipped, PreToolBlocks, PreToolRaises,
              PreToolPasses, CallLost, AnswerLost, CallRefused, CallSucceeds, CallReplayed,
              PostToolBlocks, ResultBlocked, world
<1>4. CASE Own(w)
  BY <1>4 DEF Own, Diagnose, CallRead, ReadReturns, SkipRevert, CheckpointRevert, CallRevert,
              RevertReturns, RevertDenied, PhaseARate, Replan, ReplanRaises, Rescope,
              CallCordon, CordonReturns, Finish, Die, Crash, Deliver, Forget, world
<1>. QED
  BY <1>1, <1>2, <1>3, <1>4 DEF Next, Work, Own

\* A step of the one run is a step of Mitigation, or none.
LEMMA RunStepAdvances ==
  ASSUME NEW w, Workers = {w}, RunInv, OneRun(w), SoloInv(w), [Next]_vars
  PROVE  [Mitigations!Next]_Progress
<1>a. /\ effects \in [Keys -> 0..Many] /\ committed \in [Keys -> 0..Many] /\ Place(w)
      /\ CommittedApplied
  BY DEF RunInv, TypeOK, RunTypeOK
<1>1. CASE MockCall(w)
  <2>1. CASE key[w] \in Destructive
    <3>1. effects[key[w]] = 0 /\ committed[key[w]] = 0
      BY <1>1, <1>a, <2>1 DEF MockCall, OneRun, SoloInv, Unrecorded, Applied, is_committed
    <3>. QED
      BY <1>1, <1>a, <2>1, <3>1, ApplyAdvances DEF MockCall, Apply
  <2>2. CASE key[w] \notin Destructive
    BY <1>1, <2>2 DEF MockCall, Apply, Progress
  <2>. QED  BY <2>1, <2>2
<1>2. CASE RecordReconciled(w) \/ (Claim(w) /\ ~is_committed(key[w]))
  <2>1. /\ committed' = [committed EXCEPT ![key[w]] = Bump(@)] /\ UNCHANGED effects
        /\ pc[w] \in {"record", "result"} /\ key[w] \in Keys
    BY <1>2, <1>a DEF RecordReconciled, Claim, Place, Calling
  <2>2. CASE key[w] \in Destructive
    <3>1. effects[key[w]] = 1 /\ committed[key[w]] = 0
      BY <1>a, <2>1, <2>2 DEF Place, OneRun, SoloInv, Applied, is_committed
    <3>. QED  BY <1>a, <2>1, <2>2, <3>1, RecordAdvances
  <2>3. CASE key[w] \notin Destructive
    <3>1. \A k \in Destructive : committed'[k] = committed[k]
      BY <1>a, <2>1, <2>3
    <3>. QED  BY <2>1, <3>1 DEF Progress
  <2>. QED  BY <2>2, <2>3
<1>3. CASE Claim(w) /\ is_committed(key[w])
  BY <1>3 DEF Claim, Progress
<1>4. CASE ~MockCall(w) /\ ~RecordReconciled(w) /\ ~Claim(w)
  BY <1>4, OthersStandStill DEF Progress
<1>. QED  BY <1>1, <1>2, <1>3, <1>4

\* OneRun and SoloInv hold of every state of one run at a time.
LEMMA SoloInvariant ==
  ASSUME NEW w, Workers = {w}, ~WindowCrashes
  PROVE  Spec => [](RunInv /\ OneRun(w) /\ SoloInv(w))
<1>1. Init => RunInv /\ OneRun(w) /\ SoloInv(w)
  <2>1. Init => OneRun(w) /\ SoloInv(w)
    BY DEF Init, RunInit, OneRun, SoloInv, Unrecorded, Applied, is_committed
  <2>. QED  BY <2>1, InitialRun
<1>2. RunInv /\ OneRun(w) /\ SoloInv(w) /\ [Next]_vars => (RunInv /\ OneRun(w) /\ SoloInv(w))'
  BY RunStepKeeps, StepKeepsOneRun, StepKeepsSolo
<1>. QED  BY <1>1, <1>2, PTL DEF Spec

\* The checkpoint of the cordon replaces that of the revert in the one pending slot: by
\* then the revert is on record, or was never applied.
THEOREM RecoverableScripted ==
  ASSUME NEW w, Workers = {w}, ~WindowCrashes
  PROVE  Spec => []Recoverable
<1>1. RunInv /\ OneRun(w) /\ SoloInv(w) => Recoverable
  BY DEF OneRun, SoloInv, Unrecorded, Recoverable
<1>. QED  BY <1>1, SoloInvariant, PTL

-------------------------------------------------------------------------------
(* The scripts *)

\* The chaos of a script, with the tiers it has taken down and the kill it has in store.
ScriptChaos(tiers, k) ==
  IF script = "demo"
  THEN [down_regions |-> {"us-east-1"}, down_tiers |-> tiers, all_bedrock_down |-> FALSE,
        slow_tiers |-> {0}, corrupt_output |-> TRUE, kill_after |-> k]
  ELSE [Calm EXCEPT !.down_tiers = tiers, !.kill_after = k]

\* Nothing has happened yet.
Fresh(w) ==
  /\ pc[w] = "idle"
  /\ durable = EmptyState
  /\ \A k \in Keys : effects[k] = 0 /\ committed[k] = 0

\* What the process of w has done and lost so far: nothing.
Blank(w) ==
  ~degraded[w] /\ ~revoked[w] /\ scope[w] = "FULL_SCOPE" /\ blocks[w] = 0

\* Chaos corrupts the metrics of the demo, which are then not claimed.
DiagLost == script = "demo" => committed[diag_key] = 0

\* The first life: on its way to the revert, with all its authority.
FirstLife(w) ==
  /\ chaos = ScriptChaos({}, revert_key)
  /\ \/ pc[w] \in {"load", "reason", "read", "revert", "grant"}
     \/ CallOf(w, diag_key)
     \/ CallOf(w, revert_key) /\ pc[w] # "returned"
  /\ ~degraded[w] /\ ~revoked[w] /\ scope[w] = "FULL_SCOPE"
  /\ max_depth \in 0..1
  /\ committed[revert_key] = 0
  /\ effects[revert_key] = IF pc[w] = "result" /\ key[w] = revert_key THEN 1 ELSE 0
  /\ durable.pending # revert_key <=> ~(pc[w] = "grant" \/ CallOf(w, revert_key))
  /\ pc[w] = "load" => durable.pending = NoKey

\* Killed after the side effect, with the checkpoint on file.
MidRollback(w) ==
  /\ pc[w] = "idle"
  /\ durable.pending = revert_key
  /\ effects[revert_key] = 1 /\ committed[revert_key] = 0

\* The revert is applied once, recorded once, and not pending.
Settled ==
  /\ effects[revert_key] = 1
  /\ committed[revert_key] = 1
  /\ revert_key \in durable.actions_committed
  /\ durable.pending # revert_key

\* The second life settles what the first has left, then leaves the revert alone.
SecondLife(w) ==
  /\ chaos.kill_after = NoKey
  /\ \/ /\ pc[w] \in {"load", "resume", "reconcile"}
        /\ durable.pending = revert_key
        /\ effects[revert_key] = 1 /\ committed[revert_key] = 0
     \/ /\ pc[w] = "record" /\ key[w] = revert_key
        /\ durable.pending = NoKey /\ revert_key \in durable.actions_committed
        /\ effects[revert_key] = 1 /\ committed[revert_key] = 0
     \/ /\ \/ pc[w] \in {"idle", "reason", "read", "revert", "phaseA", "replan", "cordon",
                         "checkpoint", "finish"}
           \/ CallOf(w, diag_key) \/ CallOf(w, cordon_key)
        /\ Settled

\* How deep the second life of the demo has had to fall back: to the tier left by the
\* blackout and the storm, then past that one too.
DemoLife(w) ==
  LET deep == pc[w] \in {"cordon", "checkpoint", "finish"} \/ CallOf(w, cordon_key)
      early == pc[w] \in {"load", "resume", "reconcile", "record", "reason"}
  IN  /\ pc[w] # "idle"
      /\ chaos = ScriptChaos(IF deep THEN {1} ELSE {}, NoKey)
      /\ max_depth = IF early THEN 0 ELSE IF deep THEN 2 ELSE 1
      /\ degraded[w] <=> deep
      /\ pc[w] # "cordon" /\ deep => scope[w] = "READ_ONLY"
      /\ ~deep => scope[w] = "FULL_SCOPE" /\ ~revoked[w]
      /\ blocks[w] = IF early \/ pc[w] = "read" \/ (CallOf(w, diag_key) /\ pc[w] # "returned")
                     THEN 0 ELSE 1
      /\ CallOf(w, cordon_key) => pc[w] \in {"execute", "returned"}
      /\ ~early => warm[w]

\* The boards that the two agents come to.
NaiveBoard == [Scoreboard EXCEPT !.double_executions = 1]
DeadmanBoard ==
  [survived |-> TRUE, fallback_depth |-> 2, double_executions |-> 0,
   guardrail_blocks |-> 1, drain_authority |-> "OFF"]

\* What the nine beats have revealed after n of them.
ShownAfter(n) ==
  [naive |-> IF n >= 8 THEN NaiveBoard ELSE Scoreboard,
   deadman |->
     [survived |-> IF n >= 7 THEN TRUE ELSE FALSE,
      fallback_depth |-> IF n >= 4 THEN 2 ELSE IF n = 3 THEN 1 ELSE 0,
      double_executions |-> 0,
      guardrail_blocks |-> IF n >= 5 THEN 1 ELSE 0,
      drain_authority |-> IF n >= 4 THEN "OFF" ELSE "ON"],
   beat |-> n]

\* Nothing has been set, shown or judged yet.
Untold ==
  /\ chaos = Calm /\ max_depth = 0
  /\ shown = [naive |-> Scoreboard, deadman |-> Scoreboard, beat |-> 0]
  /\ verdict = "none"

\* The memory of NaiveAgent, and what it has applied, at each stage of its two lives.
NaiveLife ==
  [start   |-> [done_in_memory |-> FALSE, applied |-> 0],
   restart |-> [done_in_memory |-> TRUE, applied |-> 1],
   again   |-> [done_in_memory |-> FALSE, applied |-> 1]]

\* The demo, stage by stage.
DemoStory(w) ==
  /\ verdict = "none" /\ DiagLost
  /\ \/ /\ stage \in DOMAIN NaiveLife
        /\ Fresh(w) /\ Blank(w) /\ Untold
        /\ naive = NaiveLife[stage]
        /\ board = [naive |-> Scoreboard, deadman |-> Scoreboard]
     \/ /\ naive.applied = 2 /\ board.naive = NaiveBoard
        /\ \/ /\ stage \in {"deadman", "running", "killed", "resumed"}
              /\ board = [naive |-> NaiveBoard, deadman |-> Scoreboard]
              /\ shown = ShownAfter(0)
              /\ stage = "deadman" => Fresh(w) /\ Blank(w) /\ Untold
              /\ stage = "running" => FirstLife(w)
              /\ stage = "killed" =>
                   MidRollback(w) /\ Blank(w) /\ chaos = ScriptChaos({}, NoKey)
                   /\ max_depth \in 0..1
              /\ stage = "resumed" => SecondLife(w) /\ DemoLife(w)
           \/ /\ stage = "replay"
              /\ board = [naive |-> NaiveBoard, deadman |-> DeadmanBoard]
              /\ shown.beat \in 0..Len(_BEATS) /\ shown = ShownAfter(shown.beat)
              /\ chaos = ScriptChaos({1}, NoKey) /\ max_depth = 2

\* The proof script, stage by stage: no outage, so that no completion falls back.
ProofStory(w) ==
  /\ shown.beat = 0 /\ naive.applied = 0 /\ max_depth = 0
  /\ verdict = "PASS" => stage = "judge"
  /\ \/ stage = "start" /\ Fresh(w) /\ Blank(w) /\ Untold
     \/ stage = "running" /\ FirstLife(w)
     \/ stage = "killed" /\ MidRollback(w) /\ Blank(w) /\ chaos = ScriptChaos({}, NoKey)
     \/ /\ stage = "resumed" /\ SecondLife(w)
        /\ \E tiers \in {{}, {1}} : chaos = ScriptChaos(tiers, NoKey)
     \/ /\ stage = "judge" /\ Settled
        /\ \E tiers \in {{}, {1}} : chaos = ScriptChaos(tiers, NoKey)

\* The children of the process-death script leave the locals of a run alone.
DeathStory(w) ==
  /\ pc[w] = "idle"
  /\ effects[cordon_key] = 0 /\ committed[cordon_key] = 0
  /\ chaos = Calm /\ max_depth = 0 /\ shown.beat = 0
  /\ codes \in [A : {"none", "137", "signal"}, B : {"none", "0", "error", "signal"}]
  /\ verdict = "PASS" => stage = "judge" /\ codes.B = "0"
  /\ naive.applied = 0
  /\ durable.pending \in {NoKey, revert_key}
  /\ memory[w].pending \in {NoKey, revert_key}
  /\ committed[revert_key] <= effects[revert_key] /\ effects[revert_key] <= 1
  /\ codes.B = "0" => stage = "judge" /\ Settled
  /\ \/ stage = "start" /\ Fresh(w)
     \/ /\ stage \in {"A.audit", "A.revert"}
        /\ durable.pending = revert_key /\ effects[revert_key] = 0
     \/ /\ stage = "A.exit"
        /\ durable.pending = revert_key /\ effects[revert_key] = 1 /\ committed[revert_key] = 0
     \/ /\ stage = "B.load"
        /\ committed[revert_key] = 0
        /\ effects[revert_key] = 1 => durable.pending = revert_key
     \/ /\ stage = "B.revert"
        /\ memory[w] = durable /\ durable.pending = revert_key
        /\ effects[revert_key] = 0
     \/ /\ stage = "B.commit"
        /\ memory[w] = durable /\ durable.pending = revert_key
        /\ effects[revert_key] = 1 /\ committed[revert_key] = 0
     \/ /\ stage = "B.audit"
        /\ durable.pending = NoKey /\ revert_key \in durable.actions_committed
        /\ effects[revert_key] = 1 /\ committed[revert_key] = 0
     \/ stage = "B.exit" /\ Settled
     \/ stage = "judge"

\* Each driver has its story; alerts drive the runs without one.
Story(w) ==
  /\ script \in {"alerts"} \cup Drivers
  /\ verdict \in {"none", "PASS", "FAIL"}
  /\ script = "alerts" => stage = "start" /\ Untold /\ naive.applied = 0
  /\ script = "demo" => DemoStory(w)
  /\ script = "proof" => ProofStory(w)
  /\ script = "process_death" => DeathStory(w)

\* The tier that answers: the storm and the blackout leave the second, the outage of that
\* one the third; without them the first answers.
LEMMA TierUnderChaos ==
  ASSUME NEW tiers \in {{}, {1}}, NEW k
  PROVE  Tier(ScriptChaos(tiers, k)) =
           IF script = "demo" THEN (IF tiers = {} THEN 1 ELSE 2) ELSE 0
<1>. DEFINE c == ScriptChaos(tiers, k)
            live == {t \in FALLBACK_CHAIN : tier_healthy(c, t) /\ t \notin c.slow_tiers}
            first == IF script = "demo" THEN (IF tiers = {} THEN 1 ELSE 2) ELSE 0
            First(t) == \A u \in live \cup {SEMANTIC_CACHE_TIER} : t <= u
<1>1. \A t \in FALLBACK_CHAIN :
        t \in live <=> IF script = "demo" THEN t # 0 /\ t \notin tiers ELSE t \notin tiers
  BY DEF ScriptChaos, Calm, tier_healthy, Region, FALLBACK_CHAIN
<1>2. live \subseteq 0..4 /\ first \in live
  BY <1>1 DEF FALLBACK_CHAIN
<1>3. \A u \in live : first <= u
  BY <1>1 DEF FALLBACK_CHAIN
<1>4. \A t \in live \cup {SEMANTIC_CACHE_TIER} : First(t) <=> t = first
  BY <1>2, <1>3 DEF SEMANTIC_CACHE_TIER
<1>5. Tier(c) = CHOOSE t \in live \cup {SEMANTIC_CACHE_TIER} : First(t)
  BY DEF Tier
<1>. HIDE DEF live, first, First, c
<1>6. (CHOOSE t \in live \cup {SEMANTIC_CACHE_TIER} : First(t)) = first
  BY <1>2, <1>4
<1>7. Tier(c) = first
  BY <1>5, <1>6
<1>. QED  BY <1>7 DEF first, c

\* Every script starts at the beginning of its story.
LEMMA InitialStory ==
  ASSUME NEW w, Workers = {w}, ScriptsInit
  PROVE  RunInv /\ OneRun(w) /\ SoloInv(w) /\ Story(w)
<1>0. Init
  BY DEF ScriptsInit
<1>1. RunInv
  BY <1>0, InitialRun
<1>2. OneRun(w) /\ SoloInv(w)
  BY <1>0 DEF Init, RunInit, OneRun, SoloInv, Unrecorded, Applied, is_committed
<1>3. Fresh(w) /\ Blank(w) /\ Untold /\ DiagLost
  BY DEF ScriptsInit, Init, RunInit, Fresh, Blank, Untold, DiagLost, EmptyState
<1>4. /\ stage = "start" /\ verdict = "none" /\ codes = [A |-> "none", B |-> "none"]
      /\ memory[w] = EmptyState
      /\ naive = NaiveLife["start"] /\ naive.applied = 0
      /\ board = [naive |-> Scoreboard, deadman |-> Scoreboard]
      /\ shown.beat = 0 /\ chaos = Calm /\ max_depth = 0
      /\ script \in {"alerts"} \cup Drivers
  BY DEF ScriptsInit, Init, RunInit, NaiveLife
<1>5. DemoStory(w)
  BY <1>3, <1>4 DEF DemoStory, NaiveLife, Untold
<1>6. ProofStory(w)
  BY <1>3, <1>4 DEF ProofStory, Untold
<1>7. DeathStory(w)
  BY <1>3, <1>4 DEF DeathStory, Untold, Fresh, EmptyState
<1>. QED
  BY <1>1, <1>2, <1>3, <1>4, <1>5, <1>6, <1>7 DEF Story

\* The types of the locals of a run that the scripts look at.
TypesOfLocals ==
  /\ key \in [Workers -> Keys \cup {NoKey}]
  /\ ret \in [Workers -> Outcomes \cup {"none"}]
  /\ scope \in [Workers -> Scopes] /\ revoked \in [Workers -> BOOLEAN]
  /\ degraded \in [Workers -> BOOLEAN] /\ resume \in [Workers -> BOOLEAN]
  /\ attempts \in [Workers -> Nat] /\ blocks \in [Workers -> Nat]
  /\ warm \in [Workers -> BOOLEAN]
  /\ memory \in [Workers -> States] /\ durable \in States
  /\ effects \in [Keys -> 0..Many] /\ committed \in [Keys -> 0..Many]

\* They are part of the type invariant.
LEMMA TypesOfScript == TypeOK => TypesOfLocals
BY DEF TypeOK, RunTypeOK, TypesOfLocals

\* The first life of a script's run goes no other way than to the revert.
LEMMA FirstLifeStep ==
  ASSUME NEW w, Workers = {w}, RunInv, OneRun(w), script \in {"demo", "proof"},
         FirstLife(w), DiagLost, Step(w)
  PROVE  /\ FirstLife(w)' /\ DiagLost' /\ UNCHANGED <<stage, board>>
         /\ script = "proof" /\ max_depth = 0 => max_depth' = 0
<1>. USE DEF world, calls, state, leash, Goto, Return, FirstLife, DiagLost, CallOf, Calling,
             is_committed, TypesOfLocals
<1>a. /\ TypeOK /\ pc \in [Workers -> Labels] /\ Place(w) /\ TypesOfLocals
  BY TypesOfScript DEF RunInv
<1>b. /\ ~KillSignal(w) /\ ServedUnderChaos(w) /\ BlockedUnderChaos(w)
      /\ UNCHANGED script /\ Work(w) /\ pc[w] # "finish"
  BY DEF Step
<1>c. /\ chaos' = ScriptChaos({}, revert_key)' /\ UNCHANGED <<stage, board>>
      /\ chaos.kill_after = revert_key
      /\ chaos.corrupt_output = (script = "demo")
      /\ pc[w] # "reason" => UNCHANGED max_depth
  BY <1>b DEF Step, ServedUnderChaos, ScriptChaos, Calm
<1>d. ~(pc[w] = "result" /\ key[w] = revert_key)
  BY <1>b, <1>c DEF KillSignal
<1>1. CASE Load(w)
  BY <1>1, <1>a, <1>b, <1>c, <1>d DEF Load, OneRun, BlockedUnderChaos
<1>2. CASE Diagnose(w)
  <2>1. pc[w] = "reason" /\ chaos' = chaos
    BY <1>2, <1>b DEF Diagnose, ServedUnderChaos
  <2>2. Tier(chaos') \in 0..1
    BY <2>1, TierUnderChaos
  <2>3. max_depth' \in 0..1 /\ ~degraded'[w]
    BY <1>b, <2>1, <2>2 DEF ServedUnderChaos, AUTONOMY_REVOKE_AT_DEPTH
  <2>4. script = "proof" /\ max_depth = 0 => max_depth' = 0
    <3>1. script = "proof" => Tier(chaos') = 0
      BY <2>1, TierUnderChaos
    <3>. QED  BY <1>b, <2>1, <3>1 DEF ServedUnderChaos
  <2>5. /\ pc'[w] = "read" /\ UNCHANGED <<world, calls, state, resume, revoked, attempts>>
    BY <1>2, <1>a DEF Diagnose
  <2>. QED
    BY <1>a, <1>b, <1>c, <2>1, <2>3, <2>4, <2>5
<1>3. CASE CallRead(w)
  BY <1>3, <1>a, <1>b, <1>c, <1>d DEF CallRead, AllowedScope, BlockedUnderChaos
<1>4. CASE ReadReturns(w)
  BY <1>4, <1>a, <1>b, <1>c, <1>d DEF ReadReturns, BlockedUnderChaos
<1>5. CASE CheckpointRevert(w)
  BY <1>5, <1>a, <1>b, <1>c, <1>d DEF CheckpointRevert, SetPending,
     BlockedUnderChaos
<1>6. CASE CallRevert(w)
  BY <1>6, <1>a, <1>b, <1>c, <1>d DEF CallRevert, BlockedUnderChaos
<1>7. CASE ExecuteDenied(w) /\ UNCHANGED <<state, resume, leash, crashes, warm>>
  BY <1>7, <1>a, <1>b, <1>c, <1>d DEF ExecuteDenied, Denied, BlockedUnderChaos
<1>8. CASE ExecuteSkipped(w) /\ UNCHANGED <<state, resume, leash, crashes, warm>>
  BY <1>8, <1>a, <1>b, <1>c, <1>d DEF ExecuteSkipped, Denied, BlockedUnderChaos
<1>9. CASE PreToolPasses(w) /\ UNCHANGED <<state, resume, leash, crashes, warm>>
  BY <1>9, <1>a, <1>b, <1>c, <1>d DEF PreToolPasses, Denied, BlockedUnderChaos
<1>10. CASE MockCall(w) /\ UNCHANGED <<state, resume, leash, crashes, warm>>
  BY <1>10, <1>a, <1>b, <1>c, <1>d DEF MockCall, Apply, Bump, BlockedUnderChaos
<1>11. CASE PostToolBlocks(w) /\ UNCHANGED <<state, resume, leash, crashes, warm>>
  BY <1>11, <1>a, <1>b, <1>c, <1>d DEF PostToolBlocks, ResultBlocked,
     BlockedUnderChaos
<1>12. CASE Claim(w) /\ UNCHANGED <<state, resume, leash, crashes, warm>>
  BY <1>12, <1>a, <1>b, <1>c, <1>d DEF Claim, Bump, BlockedUnderChaos
<1>13. CASE \/ ResumeSkips(w) \/ ResumeReconciles(w) \/ ReconcileApplied(w)
         \/ RecordReconciled(w) \/ ReconcileNotApplied(w) \/ SkipRevert(w)
         \/ RevertReturns(w) \/ RevertDenied(w) \/ PhaseARate(w) \/ Replan(w)
         \/ ReplanRaises(w) \/ Rescope(w) \/ CallCordon(w) \/ CordonReturns(w) \/ Finish(w)
  <2>1. \/ pc[w] \in {"resume", "reconcile", "record", "phaseA", "replan", "cordon",
                     "checkpoint", "finish"}
        \/ pc[w] = "revert" /\ committed[revert_key] > 0
        \/ pc[w] = "returned" /\ key[w] \in Destructive
    BY <1>13 DEF ResumeSkips, ResumeReconciles, ReconcileApplied, RecordReconciled,
       ReconcileNotApplied, SkipRevert, RevertReturns, RevertDenied, PhaseARate, Replan,
       ReplanRaises, Rescope, CallCordon, CordonReturns, Finish
  <2>. QED  BY <2>1
<1>. QED
  BY <1>b, <1>1, <1>2, <1>3, <1>4, <1>5, <1>6, <1>7, <1>8, <1>9, <1>10, <1>11, <1>12, <1>13
     DEF Work, Start, Calls, Execute, PreToolBlocks, PreToolRaises, CallLost, AnswerLost,
     CallRefused, CallSucceeds, CallReplayed

\* The steps of the second life, and those it never takes: the first thing it does is to
\* settle the revert, which it skips from then on.
LEMMA SecondLifeStep ==
  ASSUME NEW w, Workers = {w}, RunInv, OneRun(w), SecondLife(w), Work(w),
         UNCHANGED chaos \/ chaos'.kill_after = NoKey
  PROVE  SecondLife(w)'
<1>. USE DEF world, calls, state, leash, Goto, Return, CallOf, Calling, is_committed,
             TypesOfLocals
<1>a. /\ TypeOK /\ pc \in [Workers -> Labels] /\ Place(w) /\ TypesOfLocals
  BY TypesOfScript DEF RunInv
<1>b. chaos'.kill_after = NoKey
  BY DEF SecondLife
<1>c. revert_key \in Keys /\ revert_key # NoKey /\ revert_key # cordon_key
      /\ revert_key # diag_key
  OBVIOUS
<1>1. CASE Load(w)
  BY <1>1, <1>a, <1>b, <1>c DEF Load, OneRun, SecondLife
<1>2. CASE ResumeReconciles(w)
  BY <1>2, <1>a, <1>b, <1>c DEF ResumeReconciles, SecondLife
<1>3. CASE ReconcileApplied(w)
  BY <1>3, <1>a, <1>b, <1>c DEF ReconcileApplied, OneRun, StateCommit, SecondLife
<1>4. CASE RecordReconciled(w)
  BY <1>4, <1>a, <1>b, <1>c DEF RecordReconciled, Bump, Settled, SecondLife
<1>5. CASE Diagnose(w)
  BY <1>5, <1>a, <1>b, <1>c DEF Diagnose, SecondLife, Settled
<1>6. CASE CallRead(w)
  BY <1>6, <1>a, <1>b, <1>c DEF CallRead, AllowedScope, SecondLife, Settled
<1>7. CASE ReadReturns(w)
  BY <1>7, <1>a, <1>b, <1>c DEF ReadReturns, SecondLife, Settled
<1>8. CASE SkipRevert(w)
  BY <1>8, <1>a, <1>b, <1>c DEF SkipRevert, SecondLife, Settled
<1>9. CASE PhaseARate(w)
  BY <1>9, <1>a, <1>b, <1>c DEF PhaseARate, SecondLife, Settled
<1>10. CASE Replan(w)
  BY <1>10, <1>a, <1>b, <1>c DEF Replan, SecondLife, Settled
<1>11. CASE ReplanRaises(w)
  BY <1>11, <1>a, <1>b, <1>c DEF ReplanRaises, Forget, SecondLife, Settled
<1>12. CASE Rescope(w)
  BY <1>12, <1>a, <1>b, <1>c DEF Rescope, AllowedScope, SecondLife, Settled
<1>13. CASE CallCordon(w)
  <2>1. /\ pc[w] = "checkpoint" /\ pc'[w] = "execute" /\ key'[w] = cordon_key
        /\ UNCHANGED <<effects, committed>>
    BY <1>13, <1>a DEF CallCordon
  <2>2. /\ durable'.pending # revert_key
        /\ durable'.actions_committed = durable.actions_committed
    <3>1. memory[w] = durable /\ durable.pending # revert_key
      BY <2>1 DEF OneRun, SecondLife, Settled
    <3>2. CASE UNCHANGED state
      BY <3>1, <3>2
    <3>3. CASE SetPending(w, cordon_key)
      BY <1>a, <1>c, <3>1, <3>3 DEF SetPending, States
    <3>. QED  BY <1>13, <3>2, <3>3 DEF CallCordon
  <2>. QED
    BY <1>b, <2>1, <2>2 DEF SecondLife, Settled
<1>14. CASE CordonReturns(w)
  BY <1>14, <1>a, <1>b, <1>c DEF CordonReturns, SecondLife, Settled
<1>15. CASE Finish(w)
  BY <1>15, <1>a, <1>b, <1>c DEF Finish, Forget, SecondLife, Settled
<1>16. CASE ExecuteDenied(w) /\ UNCHANGED <<state, resume, leash, crashes, warm>>
  BY <1>16, <1>a, <1>b, <1>c DEF ExecuteDenied, Denied, SecondLife, Settled
<1>17. CASE ExecuteSkipped(w) /\ UNCHANGED <<state, resume, leash, crashes, warm>>
  BY <1>17, <1>a, <1>b, <1>c DEF ExecuteSkipped, Denied, SecondLife, Settled
<1>18. CASE PreToolPasses(w) /\ UNCHANGED <<state, resume, leash, crashes, warm>>
  BY <1>18, <1>a, <1>b, <1>c DEF PreToolPasses, Denied, SecondLife, Settled
<1>19. CASE MockCall(w) /\ UNCHANGED <<state, resume, leash, crashes, warm>>
  BY <1>19, <1>a, <1>b, <1>c DEF MockCall, Apply, Bump, SecondLife, Settled
<1>20. CASE PostToolBlocks(w) /\ UNCHANGED <<state, resume, leash, crashes, warm>>
  BY <1>20, <1>a, <1>b, <1>c DEF PostToolBlocks, ResultBlocked, SecondLife, Settled
<1>21. CASE Claim(w) /\ UNCHANGED <<state, resume, leash, crashes, warm>>
  BY <1>21, <1>a, <1>b, <1>c DEF Claim, Bump, SecondLife, Settled
<1>22. CASE \/ ResumeSkips(w) \/ ReconcileNotApplied(w) \/ CheckpointRevert(w)
          \/ CallRevert(w) \/ RevertReturns(w) \/ RevertDenied(w)
  <2>1. \/ pc[w] = "resume" /\ memory[w].pending # revert_key
        \/ pc[w] = "resume" /\ committed[revert_key] > 0
        \/ pc[w] = "reconcile" /\ memory[w].pending # revert_key
        \/ pc[w] = "reconcile" /\ effects[revert_key] = 0
        \/ pc[w] = "revert" /\ ~(committed[revert_key] > 0)
        \/ pc[w] = "grant"
        \/ pc[w] = "returned" /\ key[w] = revert_key
    <3>1. ReconcileNotApplied(w) => pc[w] = "reconcile" /\ ~Applied(memory[w].pending)
      BY DEF ReconcileNotApplied, SystemOfRecord, Applied
    <3>2. ~Applied(revert_key) => effects[revert_key] = 0
      BY <1>a, <1>c DEF Applied
    <3>. QED
      BY <1>22, <1>a, <3>1, <3>2 DEF ResumeSkips, CheckpointRevert, CallRevert, RevertReturns,
         RevertDenied
  <2>. QED  BY <1>a, <1>c, <2>1 DEF OneRun, SecondLife, Settled
<1>. QED
  BY <1>1, <1>2, <1>3, <1>4, <1>5, <1>6, <1>7, <1>8, <1>9, <1>10, <1>11, <1>12, <1>13,
     <1>14, <1>15, <1>16, <1>17, <1>18, <1>19, <1>20, <1>21, <1>22 DEF Work, Start, Calls,
     Execute, PreToolBlocks, PreToolRaises, CallLost, AnswerLost,
     CallRefused, CallSucceeds, CallReplayed

\* The second life of the demo falls back once for its diagnosis and once more for its
\* re-plan, which costs it the cordon.
LEMMA DemoLifeStep ==
  ASSUME NEW w, Workers = {w}, RunInv, OneRun(w), script = "demo",
         SecondLife(w), DemoLife(w), DiagLost, Step(w), pc[w] # "finish"
  PROVE  DemoLife(w)' /\ DiagLost'
<1>. USE DEF world, calls, state, leash, Goto, Return, CallOf, Calling, is_committed,
             TypesOfLocals, DiagLost
<1>a. /\ TypeOK /\ pc \in [Workers -> Labels] /\ Place(w) /\ Counted(w) /\ TypesOfLocals
  BY TypesOfScript DEF RunInv
<1>b. /\ ServedUnderChaos(w) /\ BlockedUnderChaos(w) /\ UNCHANGED script /\ Work(w)
  BY DEF Step
<1>c. /\ revert_key \in Keys /\ cordon_key \in Keys /\ diag_key \in Keys
      /\ revert_key # cordon_key /\ revert_key # diag_key /\ cordon_key # diag_key
  OBVIOUS
<1>d. chaos.corrupt_output
  BY DEF DemoLife, ScriptChaos
<1>e. pc[w] # "replan" =>
        /\ chaos' = chaos
        /\ \A tiers, k : chaos = ScriptChaos(tiers, k) => chaos' = ScriptChaos(tiers, k)'
  BY <1>b DEF ServedUnderChaos, ScriptChaos, Calm
<1>f. pc[w] \notin {"reason", "replan"} => UNCHANGED max_depth
  BY <1>b DEF ServedUnderChaos
<1>1. CASE Load(w)
  BY <1>1, <1>a, <1>b, <1>c, <1>d, <1>e, <1>f DEF Load, OneRun, DemoLife, SecondLife
<1>2. CASE ResumeReconciles(w)
  BY <1>2, <1>a, <1>b, <1>c, <1>d, <1>e, <1>f DEF ResumeReconciles, DemoLife,
     SecondLife
<1>3. CASE ReconcileApplied(w)
  BY <1>3, <1>a, <1>b, <1>c, <1>d, <1>e, <1>f DEF ReconcileApplied, OneRun,
     StateCommit, DemoLife, SecondLife
<1>4. CASE RecordReconciled(w)
  BY <1>4, <1>a, <1>b, <1>c, <1>d, <1>e, <1>f DEF RecordReconciled, Bump, DemoLife,
     SecondLife
<1>5. CASE CallRead(w)
  BY <1>5, <1>a, <1>b, <1>c, <1>d, <1>e, <1>f DEF CallRead, AllowedScope, DemoLife,
     SecondLife
<1>6. CASE ReadReturns(w)
  BY <1>6, <1>a, <1>b, <1>c, <1>d, <1>e, <1>f DEF ReadReturns, DemoLife, SecondLife
<1>7. CASE SkipRevert(w)
  BY <1>7, <1>a, <1>b, <1>c, <1>d, <1>e, <1>f DEF SkipRevert, DemoLife, SecondLife
<1>8. CASE PhaseARate(w)
  BY <1>8, <1>a, <1>b, <1>c, <1>d, <1>e, <1>f DEF PhaseARate, KillSwitch, Counted,
     DemoLife, SecondLife
<1>9. CASE Rescope(w)
  BY <1>9, <1>a, <1>b, <1>c, <1>d, <1>e, <1>f DEF Rescope, AllowedScope, DemoLife,
     SecondLife
<1>10. CASE CallCordon(w)
  BY <1>10, <1>a, <1>b, <1>c, <1>d, <1>e, <1>f DEF CallCordon, OneRun, SetPending,
     DemoLife, SecondLife
<1>11. CASE CordonReturns(w)
  BY <1>11, <1>a, <1>b, <1>c, <1>d, <1>e, <1>f DEF CordonReturns, KillSwitch,
     DemoLife, SecondLife
<1>12. CASE ExecuteDenied(w) /\ UNCHANGED <<state, resume, leash, crashes, warm>>
  BY <1>12, <1>a, <1>b, <1>c, <1>d, <1>e, <1>f DEF ExecuteDenied, Denied,
     BlockedUnderChaos, DemoLife, SecondLife
<1>13. CASE ExecuteSkipped(w) /\ UNCHANGED <<state, resume, leash, crashes, warm>>
  BY <1>13, <1>a, <1>b, <1>c, <1>d, <1>e, <1>f DEF ExecuteSkipped, Denied,
     BlockedUnderChaos, DemoLife, SecondLife
<1>14. CASE PreToolPasses(w) /\ UNCHANGED <<state, resume, leash, crashes, warm>>
  BY <1>14, <1>a, <1>b, <1>c, <1>d, <1>e, <1>f DEF PreToolPasses, Denied,
     BlockedUnderChaos, DemoLife, SecondLife
<1>15. CASE MockCall(w) /\ UNCHANGED <<state, resume, leash, crashes, warm>>
  BY <1>15, <1>a, <1>b, <1>c, <1>d, <1>e, <1>f DEF MockCall, Apply, Bump,
     BlockedUnderChaos, DemoLife, SecondLife
<1>16. CASE PostToolBlocks(w) /\ UNCHANGED <<state, resume, leash, crashes, warm>>
  BY <1>16, <1>a, <1>b, <1>c, <1>d, <1>e, <1>f DEF PostToolBlocks, ResultBlocked,
     BlockedUnderChaos, DemoLife, SecondLife
<1>17. CASE Claim(w) /\ UNCHANGED <<state, resume, leash, crashes, warm>>
  BY <1>17, <1>a, <1>b, <1>c, <1>d, <1>e, <1>f DEF Claim, Bump, BlockedUnderChaos,
     DemoLife, SecondLife
<1>18. CASE Diagnose(w)
  <2>1. pc[w] = "reason" /\ chaos = ScriptChaos({}, NoKey) /\ max_depth = 0
    BY <1>18 DEF Diagnose, DemoLife
  <2>2. Tier(chaos') = 1
    BY <1>e, <2>1, TierUnderChaos
  <2>3. max_depth' = 1 /\ ~degraded'[w]
    BY <1>b, <2>1, <2>2 DEF ServedUnderChaos, AUTONOMY_REVOKE_AT_DEPTH
  <2>4. warm'[w]
    BY <1>18, <1>a, <2>3 DEF Diagnose, Answered
  <2>5. /\ pc'[w] = "read" /\ UNCHANGED <<world, calls, state, resume, revoked, attempts>>
    BY <1>18, <1>a DEF Diagnose
  <2>. QED
    <3>1. chaos' = ScriptChaos({}, NoKey)' /\ scope'[w] = "FULL_SCOPE" /\ ~revoked'[w]
      BY <1>e, <2>1, <2>5 DEF DemoLife
    <3>2. blocks'[w] = 0
      BY <2>1, <2>5 DEF DemoLife
    <3>. QED  BY <2>3, <2>4, <2>5, <3>1, <3>2 DEF DemoLife
<1>19. CASE Replan(w)
  <2>1. pc[w] = "replan" /\ chaos = ScriptChaos({}, NoKey) /\ max_depth = 1
    BY <1>19 DEF Replan, DemoLife
  <2>2. chaos' = ScriptChaos({1}, NoKey) /\ chaos' = ScriptChaos({1}, NoKey)'
    <3>1. chaos' = [chaos EXCEPT !.down_tiers = @ \cup {1}]
      BY <1>b, <2>1 DEF ServedUnderChaos
    <3>2. chaos = [down_regions |-> {"us-east-1"}, down_tiers |-> {},
                   all_bedrock_down |-> FALSE, slow_tiers |-> {0}, corrupt_output |-> TRUE,
                   kill_after |-> NoKey]
      BY <2>1 DEF ScriptChaos
    <3>3. chaos' = [down_regions |-> {"us-east-1"}, down_tiers |-> {1},
                    all_bedrock_down |-> FALSE, slow_tiers |-> {0}, corrupt_output |-> TRUE,
                    kill_after |-> NoKey]
      BY <3>1, <3>2
    <3>4. chaos' = ScriptChaos({1}, NoKey)
      BY <3>3 DEF ScriptChaos
    <3>5. ScriptChaos({1}, NoKey)' = ScriptChaos({1}, NoKey)
      BY <1>b DEF ScriptChaos
    <3>. QED  BY <3>4, <3>5
  <2>3. Tier(chaos') = 2
    BY <2>2, TierUnderChaos
  <2>4. max_depth' = 2 /\ degraded'[w]
    <3>1. /\ max_depth' = (IF max_depth < 2 THEN 2 ELSE max_depth)
          /\ max_depth' >= AUTONOMY_REVOKE_AT_DEPTH => degraded'[w]
      <4>1. ServedUnderChaos(w) /\ pc[w] \in {"reason", "replan"}
        BY <1>b, <2>1
      <4>2. /\ max_depth' = (IF max_depth < Tier(chaos') THEN Tier(chaos') ELSE max_depth)
            /\ degraded'[w] = (max_depth' >= AUTONOMY_REVOKE_AT_DEPTH)
        BY <4>1, Zenon DEF ServedUnderChaos
      <4>. QED  BY <2>3, <4>2
    <3>2. max_depth' = 2 /\ max_depth' >= AUTONOMY_REVOKE_AT_DEPTH
      BY <2>1, <3>1 DEF AUTONOMY_REVOKE_AT_DEPTH
    <3>. QED  BY <3>1, <3>2
  <2>5. /\ pc'[w] = "cordon" /\ warm'[w]
        /\ UNCHANGED <<world, calls, state, resume, revoked, attempts>>
    BY <1>19, <1>a DEF Replan, Answered
  <2>. QED
    BY <1>a, <1>b, <2>1, <2>2, <2>4, <2>5 DEF DemoLife
<1>20. CASE \/ ResumeSkips(w) \/ ReconcileNotApplied(w) \/ CheckpointRevert(w)
          \/ CallRevert(w) \/ RevertReturns(w) \/ RevertDenied(w) \/ ReplanRaises(w)
  <2>1. \/ pc[w] = "resume" /\ memory[w].pending # revert_key
        \/ pc[w] = "resume" /\ committed[revert_key] > 0
        \/ pc[w] = "reconcile" /\ memory[w].pending # revert_key
        \/ pc[w] = "reconcile" /\ effects[revert_key] = 0
        \/ pc[w] = "revert" /\ ~(committed[revert_key] > 0)
        \/ pc[w] = "grant"
        \/ pc[w] = "returned" /\ key[w] = revert_key
        \/ pc[w] = "replan" /\ ~warm[w]
    <3>1. ReconcileNotApplied(w) => pc[w] = "reconcile" /\ ~Applied(memory[w].pending)
      BY DEF ReconcileNotApplied, SystemOfRecord, Applied
    <3>2. ~Applied(revert_key) => effects[revert_key] = 0
      BY <1>a, <1>c DEF Applied
    <3>. QED
      BY <1>20, <1>a, <3>1, <3>2 DEF ResumeSkips, CheckpointRevert, CallRevert, RevertReturns,
         RevertDenied, ReplanRaises
  <2>. QED  BY <1>a, <1>c, <2>1 DEF OneRun, SecondLife, Settled, DemoLife
<1>. QED
  BY <1>b, <1>1, <1>2, <1>3, <1>4, <1>5, <1>6, <1>7, <1>8, <1>9, <1>10, <1>11, <1>12, <1>13,
     <1>14, <1>15, <1>16, <1>17, <1>18, <1>19, <1>20 DEF Work, Start, Calls, Execute,
     PreToolBlocks, PreToolRaises, CallLost, AnswerLost,
     CallRefused, CallSucceeds, CallReplayed, Finish

\* ... and ends with the board that the replay will show.
LEMMA DemoLifeEnds ==
  ASSUME NEW w, Workers = {w}, script = "demo", SecondLife(w), DemoLife(w), DiagLost, Step(w),
         pc[w] = "finish"
  PROVE  /\ board' = [board EXCEPT !.deadman = DeadmanBoard] /\ stage' = "replay"
         /\ chaos' = ScriptChaos({1}, NoKey)' /\ max_depth' = 2 /\ DiagLost'
<1>1. /\ effects[revert_key] = 1 /\ max_depth = 2 /\ blocks[w] = 1
      /\ scope[w] = "READ_ONLY" /\ chaos = ScriptChaos({1}, NoKey)
  BY DEF SecondLife, Settled, DemoLife, CallOf, Calling
<1>2. FinalScoreboard(w) = DeadmanBoard
  BY <1>1 DEF FinalScoreboard, DeadmanBoard
<1>3. /\ Work(w) /\ ServedUnderChaos(w) /\ UNCHANGED script
      /\ board' = [board EXCEPT !.deadman = FinalScoreboard(w)] /\ stage' = "replay"
  BY DEF Step
<1>4. chaos' = chaos /\ UNCHANGED max_depth
  BY <1>3 DEF ServedUnderChaos
<1>5. UNCHANGED committed
  BY <1>3, OthersStandStill DEF Next, MockCall, Claim, RecordReconciled
<1>. QED
  BY <1>1, <1>2, <1>3, <1>4, <1>5 DEF ScriptChaos, DiagLost, Calm

-------------------------------------------------------------------------------
(* The children of the process-death script *)

\* A write, a side effect or the exit of a child.
ChildStep(w) == ChildA(w) \/ ChildBLoads(w) \/ ChildB(w)

\* Whatever is not the work of a child is a step of a run, or none.
LEMMA RunOrChild ==
  ASSUME NEW w, Workers = {w}, [ScriptsNext]_scriptVars, ~ChildStep(w)
  PROVE  [Next]_vars
<1>1. CASE UNCHANGED scriptVars
  BY <1>1 DEF scriptVars
<1>2. CASE NaiveAct \/ Emit \/ Judged
  BY <1>2 DEF NaiveAct, Emit, Judged
<1>3. CASE \E c, at, next : ChildKilled(c, at, next)
  BY <1>3 DEF ChildKilled, ChildVars, vars, runVars, world, calls, state, leash
<1>4. CASE Begin(w) \/ Step(w) \/ Killed(w) \/ Resume(w)
  BY <1>4 DEF Begin, Step, Killed, Resume, Next
<1>. QED
  BY <1>1, <1>2, <1>3, <1>4 DEF ScriptsNext, ChildStep

\* A child does what a run would, one write after the other.
LEMMA ChildSound ==
  ASSUME NEW w, Workers = {w}, RunInv, DeathStory(w), ChildStep(w)
  PROVE  Sound(w) /\ OneRun(w)'
<1>. USE DEF state, ChildVars
<1>a. /\ TypeOK /\ pc \in [Workers -> Labels] /\ CommittedApplied /\ TypesOfLocals
      /\ durable.pending \in Destructive \cup {NoKey}
      /\ Place(w) /\ Counted(w) /\ Resolved(w)
  BY TypesOfScript DEF RunInv
<1>b. /\ pc[w] = "idle" /\ revert_key \in Keys /\ revert_key # NoKey
      /\ durable \in States /\ memory \in [Workers -> States]
  BY <1>a DEF DeathStory, TypesOfLocals
<1>1. /\ durable' \in States /\ memory' \in [Workers -> States]
      /\ durable'.pending \in {NoKey, revert_key}
      /\ memory'[w].pending \in {NoKey, revert_key}
  <2>1. CASE SetPending(w, revert_key)
    BY <1>b, <2>1 DEF SetPending, States
  <2>2. CASE StateCommit(w, memory[w].pending) /\ memory[w].pending = revert_key
    BY <1>b, <2>2 DEF StateCommit, States
  <2>3. CASE memory' = [memory EXCEPT ![w] = durable] /\ UNCHANGED durable
    BY <1>b, <2>3 DEF DeathStory
  <2>4. CASE UNCHANGED state
    BY <1>b, <2>4 DEF DeathStory
  <2>. QED
    BY <2>1, <2>2, <2>3, <2>4 DEF ChildStep, ChildA, ChildBLoads, ChildB, At, DeathStory
<1>2. /\ effects' \in [Keys -> 0..Many] /\ committed' \in [Keys -> 0..Many]
      /\ pending' \subseteq Keys
      /\ \A k \in Keys : effects[k] <= effects'[k] /\ committed[k] <= committed'[k]
  <2>1. \A n \in 0..Many : Bump(n) \in 0..Many /\ n <= Bump(n)
    BY DEF Bump
  <2>2. \/ UNCHANGED effects
        \/ effects' = [effects EXCEPT ![revert_key] = Bump(effects[revert_key])]
    BY DEF ChildStep, ChildA, ChildBLoads, ChildB, Apply
  <2>3. \/ UNCHANGED committed
        \/ committed' = [committed EXCEPT ![revert_key] = Bump(committed[revert_key])]
    BY DEF ChildStep, ChildA, ChildBLoads, ChildB
  <2>4. effects' \in [Keys -> 0..Many] /\ \A k \in Keys : effects[k] <= effects'[k]
    BY <1>a, <2>1, <2>2 DEF TypesOfLocals
  <2>5. committed' \in [Keys -> 0..Many] /\ \A k \in Keys : committed[k] <= committed'[k]
    BY <1>a, <2>1, <2>3 DEF TypesOfLocals
  <2>6. pending' \subseteq Keys
    BY <1>a, <1>b DEF ChildStep, ChildA, ChildBLoads, ChildB, TypeOK, RunTypeOK
  <2>. QED  BY <2>4, <2>5, <2>6
<1>3. UNCHANGED <<seen, late, pc, calls, resume, leash, crashes, warm>>
  BY DEF ChildStep, ChildA, ChildBLoads, ChildB
<1>4. CommittedApplied'
  <2>1. \A k \in Destructive \ {revert_key} : committed'[k] = committed[k]
    BY <1>a DEF ChildStep, ChildA, ChildBLoads, ChildB, TypesOfLocals
  <2>2. is_committed(revert_key)' => Applied(revert_key)'
    BY <1>a, <1>b, <1>2 DEF ChildStep, ChildA, ChildBLoads, ChildB, DeathStory, At,
       TypesOfLocals, is_committed, Applied, CommittedApplied
  <2>3. \A k \in Destructive : Applied(k) => Applied(k)'
    BY <1>a, <1>2 DEF Applied, TypesOfLocals
  <2>. QED  BY <1>a, <2>1, <2>2, <2>3 DEF CommittedApplied, is_committed
<1>5. (TypeOK /\ pc \in [Workers -> Labels])'
  BY <1>a, <1>1, <1>2, <1>3 DEF TypeOK, RunTypeOK, calls, leash
<1>6. Frame(w)
  <2>1. \A k \in Keys : (Applied(k) => Applied(k)') /\ (is_committed(k) => is_committed(k)')
    BY <1>a, <1>2 DEF Applied, is_committed, TypesOfLocals
  <2>. QED  BY <2>1 DEF Frame
<1>7. (Place(w) /\ Counted(w) /\ Resolved(w))'
  BY <1>a, <1>b, <1>1, <1>3 DEF Place, Counted, Resolved, CallOf, Calling, calls, leash
<1>8. OneRun(w)'
  BY <1>b, <1>3 DEF OneRun, Calling
<1>. QED  BY <1>1, <1>4, <1>5, <1>6, <1>7, <1>8 DEF Sound

\* From one stage to the next, a child leaves behind what the next stage counts on.
LEMMA ChildKeepsStory ==
  ASSUME NEW w, Workers = {w}, RunInv, DeathStory(w), ChildStep(w)
  PROVE  DeathStory(w)' /\ UNCHANGED <<script, verdict>>
<1>. USE DEF state, ChildVars, calls, leash, At
<1>a. TypesOfLocals
  BY TypesOfScript DEF RunInv
<1>b. /\ revert_key \in Keys /\ cordon_key \in Keys /\ revert_key # NoKey
      /\ revert_key # cordon_key
  OBVIOUS
<1>c. Bump(0) = 1
  BY DEF Bump
<1>1. CASE ChildA(w)
  <2>1. CASE stage = "start"
    BY <1>1, <1>a, <1>b, <1>c, <2>1 DEF ChildA, SetPending, Apply, DeathStory, Fresh, Settled,
       TypesOfLocals, States
  <2>2. CASE stage = "A.audit"
    BY <1>1, <1>a, <1>b, <1>c, <2>2 DEF ChildA, SetPending, Apply, DeathStory, Fresh, Settled,
       TypesOfLocals, States
  <2>3. CASE stage = "A.revert"
    BY <1>1, <1>a, <1>b, <1>c, <2>3 DEF ChildA, SetPending, Apply, DeathStory, Fresh, Settled,
       TypesOfLocals, States
  <2>4. CASE stage = "A.exit"
    BY <1>1, <1>a, <1>b, <1>c, <2>4 DEF ChildA, SetPending, Apply, DeathStory, Fresh, Settled,
       TypesOfLocals, States
  <2>. QED  BY <1>1, <2>1, <2>2, <2>3, <2>4 DEF ChildA
<1>2. CASE ChildBLoads(w)
  BY <1>2, <1>a, <1>b, <1>c DEF ChildBLoads, DeathStory, Settled, TypesOfLocals, States
<1>3. CASE ChildB(w)
  <2>1. CASE stage = "B.revert"
    BY <1>3, <1>a, <1>b, <1>c, <2>1 DEF ChildB, StateCommit, Apply, DeathStory, Settled,
       TypesOfLocals,
       States
  <2>2. CASE stage = "B.commit"
    BY <1>3, <1>a, <1>b, <1>c, <2>2 DEF ChildB, StateCommit, Apply, DeathStory, Settled,
       TypesOfLocals,
       States
  <2>3. CASE stage = "B.audit"
    BY <1>3, <1>a, <1>b, <1>c, <2>3 DEF ChildB, StateCommit, Apply, DeathStory, Settled,
       TypesOfLocals,
       States
  <2>4. CASE stage = "B.exit"
    BY <1>3, <1>a, <1>b, <1>c, <2>4 DEF ChildB, StateCommit, Apply, DeathStory, Settled,
       TypesOfLocals,
       States
  <2>. QED  BY <1>3, <2>1, <2>2, <2>3, <2>4 DEF ChildB
<1>. QED  BY <1>1, <1>2, <1>3 DEF ChildStep

\* A child applies and records the revert once, in this order.
LEMMA ChildAdvances ==
  ASSUME NEW w, Workers = {w}, RunInv, DeathStory(w), ChildStep(w)
  PROVE  [Mitigations!Next]_Progress
<1>a. TypesOfLocals
  BY TypesOfScript DEF RunInv
<1>1. CASE UNCHANGED <<effects, committed>>
  BY <1>1 DEF Progress
<1>2. CASE Apply(revert_key) /\ UNCHANGED committed
           /\ effects[revert_key] = 0 /\ committed[revert_key] = 0
  BY <1>2, <1>a, ApplyAdvances DEF Apply, TypesOfLocals
<1>3. CASE committed' = [committed EXCEPT ![revert_key] = Bump(@)] /\ UNCHANGED effects
           /\ effects[revert_key] = 1 /\ committed[revert_key] = 0
  BY <1>3, <1>a, RecordAdvances DEF TypesOfLocals
<1>. QED
  BY <1>a, <1>1, <1>2, <1>3 DEF ChildStep, ChildA, ChildBLoads, ChildB, At, DeathStory,
     TypesOfLocals

-------------------------------------------------------------------------------
(* The steps of the demo and of the proof script *)

\* Before the first beat both boards are blank.
LEMMA NothingShown ==
  ShownAfter(0) = [naive |-> Scoreboard, deadman |-> Scoreboard, beat |-> 0]
<1>1. ShownAfter(0).naive = Scoreboard /\ ShownAfter(0).deadman = Scoreboard
  BY DEF ShownAfter, Scoreboard
<1>. QED  BY <1>1 DEF ShownAfter

\* Its second life makes NaiveAgent apply the revert once more.
LEMMA NaiveTellsStory ==
  ASSUME NEW w, Workers = {w}, script = "demo", DemoStory(w), NaiveAct
  PROVE  DemoStory(w)'
<1>a. /\ stage \in DOMAIN NaiveLife /\ Fresh(w) /\ Blank(w) /\ Untold /\ DiagLost
      /\ naive = NaiveLife[stage] /\ verdict = "none"
      /\ board = [naive |-> Scoreboard, deadman |-> Scoreboard]
  BY DEF DemoStory, NaiveAct, At, NaiveLife
<1>b. /\ UNCHANGED <<script, chaos, max_depth, shown, verdict>>
      /\ Fresh(w)' /\ Blank(w)' /\ Untold' /\ DiagLost'
  BY <1>a DEF NaiveAct, Fresh, Blank, Untold, DiagLost, vars, runVars, world, calls, state,
     leash
<1>1. CASE stage = "start"
  <2>1. naive' = NaiveLife["restart"] /\ stage' = "restart" /\ UNCHANGED board
    BY <1>1, <1>a DEF NaiveAct, At, Mitigate, NaiveLife
  <2>. QED  BY <1>a, <1>b, <2>1 DEF DemoStory, NaiveLife
<1>2. CASE stage = "restart"
  <2>1. naive' = NaiveLife["again"] /\ stage' = "again" /\ UNCHANGED board
    BY <1>2, <1>a DEF NaiveAct, At, Restart, NaiveLife
  <2>. QED  BY <1>a, <1>b, <2>1 DEF DemoStory, NaiveLife
<1>3. CASE stage = "again"
  <2>1. naive'.applied = 2 /\ stage' = "deadman"
        /\ board' = [board EXCEPT !.naive.double_executions = 1]
    BY <1>3, <1>a DEF NaiveAct, At, Mitigate, NaiveLife
  <2>2. board' = [naive |-> NaiveBoard, deadman |-> Scoreboard]
    <3>1. board'.naive = [board.naive EXCEPT !.double_executions = 1]
          /\ board' = [naive |-> board'.naive, deadman |-> board.deadman]
      BY <1>a, <2>1
    <3>. QED  BY <1>a, <3>1 DEF NaiveBoard
  <2>3. shown' = ShownAfter(0)
    BY <1>a, <1>b, NothingShown DEF Untold
  <2>4. board'.naive = NaiveBoard
    BY <2>2
  <2>. QED  BY <1>a, <1>b, <2>1, <2>2, <2>3, <2>4 DEF DemoStory
<1>. QED  BY <1>a, <1>1, <1>2, <1>3 DEF NaiveLife

\* The Chaos objects that the scripts set.
Chaoses ==
  [down_regions : SUBSET {"us-east-1"}, down_tiers : SUBSET {1}, all_bedrock_down : BOOLEAN,
   slow_tiers : SUBSET {0}, corrupt_output : BOOLEAN, kill_after : {NoKey, revert_key}]

\* Two of them are one when their fields agree.
LEMMA SameChaos ==
  \A c, d \in Chaoses :
    /\ c.down_regions = d.down_regions /\ c.down_tiers = d.down_tiers
    /\ c.slow_tiers = d.slow_tiers /\ c.kill_after = d.kill_after
    /\ c.all_bedrock_down <=> d.all_bedrock_down
    /\ c.corrupt_output <=> d.corrupt_output
    => c = d
<1>. SUFFICES ASSUME NEW c \in Chaoses, NEW d \in Chaoses,
                     c.down_regions = d.down_regions, c.down_tiers = d.down_tiers,
                     c.all_bedrock_down <=> d.all_bedrock_down, c.slow_tiers = d.slow_tiers,
                     c.corrupt_output <=> d.corrupt_output, c.kill_after = d.kill_after
              PROVE  c = d
  BY Zenon
<1>. QED  BY DEF Chaoses

\* The chaos that a script sets before the first life.
LEMMA ChaosSet ==
  ASSUME script \in {"demo", "proof"}
  PROVE  DeadmanChaos = ScriptChaos({}, revert_key)
<1>. DEFINE c == DeadmanChaos
            d == ScriptChaos({}, revert_key)
<1>1. c \in Chaoses
  <2>1. Calm \in Chaoses
    BY DEF Calm, Chaoses
  <2>2. ASSUME NEW a \in Chaoses
        PROVE  /\ correlated_blackout(a) \in Chaoses /\ rate_limit_storm(a) \in Chaoses
               /\ kill_process_after(a, revert_key) \in Chaoses
               /\ [a EXCEPT !.corrupt_output = TRUE] \in Chaoses
    BY DEF Chaoses, correlated_blackout, rate_limit_storm, kill_process_after
  <2>. QED  BY <2>1, <2>2, Zenon DEF DeadmanChaos
<1>2. d \in Chaoses
  BY DEF ScriptChaos, Chaoses, Calm
<1>3. /\ c.down_regions = d.down_regions /\ c.down_tiers = d.down_tiers
      /\ c.slow_tiers = d.slow_tiers /\ c.kill_after = d.kill_after
      /\ c.all_bedrock_down <=> d.all_bedrock_down
      /\ c.corrupt_output <=> d.corrupt_output
  <2>1. CASE script = "demo"
    <3>1. /\ c.down_regions = {"us-east-1"} /\ c.down_tiers = {} /\ ~c.all_bedrock_down
          /\ c.slow_tiers = {0} /\ c.corrupt_output /\ c.kill_after = revert_key
      BY <2>1 DEF DeadmanChaos, Calm, correlated_blackout, rate_limit_storm, kill_process_after
    <3>2. /\ d.down_regions = {"us-east-1"} /\ d.down_tiers = {} /\ ~d.all_bedrock_down
          /\ d.slow_tiers = {0} /\ d.corrupt_output /\ d.kill_after = revert_key
      BY <2>1 DEF ScriptChaos
    <3>. HIDE DEF c, d
    <3>. QED  BY <3>1, <3>2
  <2>2. CASE script = "proof"
    <3>1. /\ c.down_regions = {} /\ c.down_tiers = {} /\ ~c.all_bedrock_down
          /\ c.slow_tiers = {} /\ ~c.corrupt_output /\ c.kill_after = revert_key
      BY <2>2 DEF DeadmanChaos, Calm, kill_process_after
    <3>2. /\ d.down_regions = {} /\ d.down_tiers = {} /\ ~d.all_bedrock_down
          /\ d.slow_tiers = {} /\ ~d.corrupt_output /\ d.kill_after = revert_key
      BY <2>2 DEF ScriptChaos, Calm
    <3>. HIDE DEF c, d
    <3>. QED  BY <3>1, <3>2
  <2>. QED  BY <2>1, <2>2
<1>. HIDE DEF c, d
<1>4. c = d
  BY <1>1, <1>2, <1>3, SameChaos, Zenon
<1>. QED  BY <1>4 DEF c, d

\* A script begins the first life of its run.
LEMMA BeginStartsFirstLife ==
  ASSUME NEW w, Workers = {w}, RunInv, script \in {"demo", "proof"},
         Fresh(w), Blank(w), Untold, Begin(w)
  PROVE  FirstLife(w)'
<1>1. chaos' = ScriptChaos({}, revert_key)'
  BY ChaosSet DEF Begin, ScriptChaos
<1>2. /\ pc'[w] = "load" /\ UNCHANGED <<world, calls, state, leash, max_depth>>
  BY DEF Begin, Deliver, Goto, RunInv
<1>3. /\ durable'.pending = NoKey /\ effects'[revert_key] = 0 /\ committed'[revert_key] = 0
      /\ revert_key # NoKey
  BY <1>2 DEF Fresh, EmptyState, world, state
<1>. QED
  BY <1>1, <1>2, <1>3 DEF FirstLife, Blank, Untold, CallOf, Calling, calls, leash

\* KillSignal finds the revert applied and its checkpoint on file.
LEMMA KilledMidRollback ==
  ASSUME NEW w, Workers = {w}, RunInv, FirstLife(w), Killed(w)
  PROVE  MidRollback(w)' /\ Blank(w)' /\ chaos' = ScriptChaos({}, NoKey)'
         /\ UNCHANGED <<effects, committed, durable>>
<1>1. /\ pc[w] = "result" /\ key[w] = revert_key
      /\ chaos' = [chaos EXCEPT !.kill_after = NoKey]
  BY DEF Killed, KillSignal, FirstLife, ScriptChaos, Calm
<1>2. chaos' = ScriptChaos({}, NoKey)'
  <2>1. UNCHANGED script /\ chaos = ScriptChaos({}, revert_key)
    BY DEF Killed, FirstLife
  <2>2. CASE script = "demo"
    <3>. DEFINE d == ScriptChaos({}, NoKey)'
    <3>1. /\ chaos' \in Chaoses /\ chaos'.down_regions = {"us-east-1"}
          /\ chaos'.down_tiers = {} /\ ~chaos'.all_bedrock_down /\ chaos'.slow_tiers = {0}
          /\ chaos'.corrupt_output /\ chaos'.kill_after = NoKey
      BY <1>1, <2>1, <2>2 DEF ScriptChaos, Chaoses
    <3>2. /\ d \in Chaoses /\ d.down_regions = {"us-east-1"}
          /\ d.down_tiers = {} /\ ~d.all_bedrock_down /\ d.slow_tiers = {0}
          /\ d.corrupt_output /\ d.kill_after = NoKey
      BY <2>1, <2>2 DEF ScriptChaos, Chaoses
    <3>. HIDE DEF d
    <3>3. /\ chaos'.down_regions = d.down_regions /\ chaos'.down_tiers = d.down_tiers
          /\ chaos'.slow_tiers = d.slow_tiers /\ chaos'.kill_after = d.kill_after
          /\ chaos'.all_bedrock_down <=> d.all_bedrock_down
          /\ chaos'.corrupt_output <=> d.corrupt_output
      BY <3>1, <3>2
    <3>4. chaos' = d
      BY <3>1, <3>2, <3>3, SameChaos, Zenon
    <3>. QED  BY <3>4 DEF d
  <2>3. CASE script # "demo"
    BY <1>1, <2>1, <2>3 DEF ScriptChaos, Calm
  <2>. QED  BY <2>2, <2>3
<1>3. Forget(w)
  BY DEF Killed, Die, Crash
<1>4. pc'[w] = "idle" /\ Blank(w)'
  BY <1>3, TypesOfScript DEF Forget, Goto, Blank, RunInv, TypesOfLocals
<1>. QED
  BY <1>1, <1>2, <1>3, <1>4 DEF MidRollback, FirstLife, CallOf, Calling, Forget, world

\* The script delivers the incident again, and the run starts from the checkpoint.
LEMMA ResumeStartsSecondLife ==
  ASSUME NEW w, Workers = {w}, RunInv, MidRollback(w), Blank(w),
         chaos = ScriptChaos({}, NoKey), Resume(w)
  PROVE  /\ SecondLife(w)' /\ (script = "demo" => DemoLife(w)')
         /\ chaos' = ScriptChaos({}, NoKey)' /\ UNCHANGED committed
<1>1. /\ pc'[w] = "load" /\ max_depth' = 0
      /\ UNCHANGED <<world, calls, state, leash, chaos, script>>
  BY DEF Resume, Deliver, Goto, RunInv
<1>2. chaos' = ScriptChaos({}, NoKey)' /\ chaos'.kill_after = NoKey
  BY <1>1 DEF ScriptChaos, Calm
<1>3. SecondLife(w)'
  BY <1>1, <1>2 DEF SecondLife, MidRollback, world, state
<1>4. DemoLife(w)'
  BY <1>1, <1>2 DEF DemoLife, Blank, CallOf, Calling, calls, leash
<1>. QED  BY <1>1, <1>2, <1>3, <1>4 DEF world

\* The proof script has no outage: its run is served by the first tier throughout.
LEMMA ProofLifeStep ==
  ASSUME NEW w, Workers = {w}, script = "proof", Step(w), max_depth = 0,
         NEW tiers \in {{}, {1}}, chaos = ScriptChaos(tiers, NoKey)
  PROVE  /\ max_depth' = 0
         /\ \E t \in {{}, {1}} : chaos' = ScriptChaos(t, NoKey)'
<1>1. ServedUnderChaos(w) /\ UNCHANGED script
  BY DEF Step
<1>2. PICK t \in {{}, {1}} : chaos' = ScriptChaos(t, NoKey)
  <2>1. CASE chaos' = chaos
    BY <2>1
  <2>2. CASE chaos' = [chaos EXCEPT !.down_tiers = @ \cup {1}]
    <3>1. chaos.down_tiers \cup {1} = {1}
      BY DEF ScriptChaos, Calm
    <3>2. chaos' = [chaos EXCEPT !.down_tiers = {1}]
      BY <2>2, <3>1
    <3>3. chaos' = [down_regions |-> {}, down_tiers |-> {1}, all_bedrock_down |-> FALSE,
                    slow_tiers |-> {}, corrupt_output |-> FALSE, kill_after |-> NoKey]
      BY <3>2 DEF ScriptChaos, Calm
    <3>4. chaos' = ScriptChaos({1}, NoKey)
      BY <3>3 DEF ScriptChaos, Calm
    <3>. QED  BY <3>4
  <2>. QED  BY <1>1, <2>1, <2>2 DEF ServedUnderChaos
<1>3. Tier(chaos') = 0
  BY <1>2, TierUnderChaos
<1>4. max_depth' = 0
  BY <1>1, <1>3 DEF ServedUnderChaos
<1>. QED  BY <1>1, <1>2, <1>4 DEF ScriptChaos

-------------------------------------------------------------------------------
(* The replay *)

\* The scoreboards that the demo shows of Deadman.
Boards ==
  [survived : BOOLEAN, fallback_depth : 0..2, double_executions : 0..1,
   guardrail_blocks : 0..1, drain_authority : {"ON", "OFF"}]

\* Two of them are one when their fields agree.
LEMMA SameBoard ==
  ASSUME NEW b \in Boards, NEW c \in Boards,
         b.survived <=> c.survived, b.fallback_depth = c.fallback_depth,
         b.double_executions = c.double_executions,
         b.guardrail_blocks = c.guardrail_blocks, b.drain_authority = c.drain_authority
  PROVE  b = c
BY DEF Boards

\* What is shown after n beats is made of two boards.
LEMMA BoardsShown ==
  ASSUME NEW n \in 0..9
  PROVE  /\ ShownAfter(n) = [naive |-> ShownAfter(n).naive, deadman |-> ShownAfter(n).deadman,
                             beat |-> n]
         /\ ShownAfter(n).deadman \in Boards
<1>1. IF n >= 7 THEN TRUE ELSE FALSE \in BOOLEAN
  OBVIOUS
<1>. QED
BY <1>1 DEF ShownAfter, Boards

\* What a beat changes on the board of Deadman.
BeatBoard(n, b) ==
  CASE n = 3 -> [b EXCEPT !.fallback_depth = 1]
    [] n = 4 -> [b EXCEPT !.fallback_depth = 2, !.drain_authority = "OFF"]
    [] n = 5 -> [b EXCEPT !.guardrail_blocks = 1]
    [] n = 7 -> [b EXCEPT !.survived = TRUE, !.double_executions = 0]
    [] OTHER -> b

\* Beat by beat, the board of Deadman comes to be what ShownAfter says.
LEMMA BeatAdvancesBoard ==
  ASSUME NEW n \in 0..8
  PROVE  BeatBoard(n + 1, ShownAfter(n).deadman) = ShownAfter(n + 1).deadman
<1>. DEFINE b == BeatBoard(n + 1, ShownAfter(n).deadman)
            c == ShownAfter(n + 1).deadman
<1>1. b \in Boards /\ c \in Boards
  <2>1. ASSUME NEW d \in Boards PROVE BeatBoard(n + 1, d) \in Boards
    <3>1. [d EXCEPT !.fallback_depth = 1] \in Boards
      BY <2>1 DEF Boards
    <3>2. [d EXCEPT !.fallback_depth = 2, !.drain_authority = "OFF"] \in Boards
      <4>1. [d EXCEPT !.fallback_depth = 2] \in Boards
        BY <2>1 DEF Boards
      <4>2. \A e \in Boards : [e EXCEPT !.drain_authority = "OFF"] \in Boards
        BY DEF Boards
      <4>. QED  BY <4>1, <4>2, Zenon
    <3>3. [d EXCEPT !.guardrail_blocks = 1] \in Boards
      BY <2>1 DEF Boards
    <3>4. [d EXCEPT !.survived = TRUE, !.double_executions = 0] \in Boards
      <4>1. [d EXCEPT !.survived = TRUE] \in Boards
        BY <2>1 DEF Boards
      <4>2. \A e \in Boards : [e EXCEPT !.double_executions = 0] \in Boards
        BY DEF Boards
      <4>. QED  BY <4>1, <4>2, Zenon
    <3>. QED  BY <2>1, <3>1, <3>2, <3>3, <3>4 DEF BeatBoard
  <2>. QED  BY <2>1, BoardsShown
<1>2. /\ b.fallback_depth = c.fallback_depth /\ b.double_executions = c.double_executions
      /\ b.guardrail_blocks = c.guardrail_blocks /\ b.drain_authority = c.drain_authority
  BY DEF BeatBoard, ShownAfter
<1>3. b.survived <=> c.survived
  BY DEF BeatBoard, ShownAfter
<1>. QED  BY <1>1, <1>2, <1>3, SameBoard

\* The replay reveals what the two agents have come to, and its last beat nothing new.
LEMMA EmitShows ==
  ASSUME NEW n \in 0..8, shown = ShownAfter(n), Emit,
         board = [naive |-> NaiveBoard, deadman |-> DeadmanBoard]
  PROVE  shown' = ShownAfter(n + 1) /\ (n = 8 => shown' = [shown EXCEPT !.beat = @ + 1])
<1>. DEFINE r == Revealed(_BEATS[n + 1])
<1>1. /\ shown.beat = n /\ shown' = [r EXCEPT !.beat = @ + 1]
      /\ shown = [naive |-> shown.naive, deadman |-> shown.deadman, beat |-> n]
  BY BoardsShown DEF Emit, ShownAfter
<1>2. CASE n + 1 \in 1..7
  <2>1. r = [naive |-> shown.naive, deadman |-> BeatBoard(n + 1, shown.deadman), beat |-> n]
    <3>1. CASE n + 1 = 3
      BY <1>1, <3>1 DEF Revealed, _BEATS, BeatBoard
    <3>2. CASE n + 1 = 4
      <4>1. ASSUME NEW t, t = [shown EXCEPT !.deadman.fallback_depth = 2],
                   NEW b, b = [shown.deadman EXCEPT !.fallback_depth = 2]
            PROVE  [t EXCEPT !.deadman.drain_authority = "OFF"] =
                     [naive |-> shown.naive,
                      deadman |-> [b EXCEPT !.drain_authority = "OFF"], beat |-> n]
        <5>1. t = [naive |-> shown.naive, deadman |-> b, beat |-> n]
          BY <1>1, <4>1
        <5>. QED  BY <5>1
      <4>2. r = [shown EXCEPT !.deadman.fallback_depth = 2, !.deadman.drain_authority = "OFF"]
        BY <3>2 DEF Revealed, _BEATS
      <4>3. BeatBoard(n + 1, shown.deadman) =
              [shown.deadman EXCEPT !.fallback_depth = 2, !.drain_authority = "OFF"]
        BY <3>2 DEF BeatBoard
      <4>4. [shown EXCEPT !.deadman.fallback_depth = 2, !.deadman.drain_authority = "OFF"] =
              [naive |-> shown.naive,
               deadman |->
                 [shown.deadman EXCEPT !.fallback_depth = 2, !.drain_authority = "OFF"],
               beat |-> n]
        BY <4>1, Zenon
      <4>. HIDE DEF r
      <4>. QED  BY <4>2, <4>3, <4>4, Zenon
    <3>3. CASE n + 1 = 5
      BY <1>1, <3>3 DEF Revealed, _BEATS, BeatBoard
    <3>4. CASE n + 1 = 7
      <4>1. ASSUME NEW t, t = [shown EXCEPT !.deadman.survived = TRUE],
                   NEW b, b = [shown.deadman EXCEPT !.survived = TRUE]
            PROVE  [t EXCEPT !.deadman.double_executions = 0] =
                     [naive |-> shown.naive,
                      deadman |-> [b EXCEPT !.double_executions = 0], beat |-> n]
        <5>1. t = [naive |-> shown.naive, deadman |-> b, beat |-> n]
          BY <1>1, <4>1
        <5>. QED  BY <5>1
      <4>2. r = [shown EXCEPT !.deadman.survived = TRUE, !.deadman.double_executions = 0]
        BY <3>4 DEF Revealed, _BEATS
      <4>3. BeatBoard(n + 1, shown.deadman) =
              [shown.deadman EXCEPT !.survived = TRUE, !.double_executions = 0]
        BY <3>4 DEF BeatBoard
      <4>4. [shown EXCEPT !.deadman.survived = TRUE, !.deadman.double_executions = 0] =
              [naive |-> shown.naive,
               deadman |-> [shown.deadman EXCEPT !.survived = TRUE, !.double_executions = 0],
               beat |-> n]
        BY <4>1, Zenon
      <4>. HIDE DEF r
      <4>. QED  BY <4>2, <4>3, <4>4, Zenon
    <3>5. CASE n + 1 \in {1, 2, 6}
      BY <1>1, <3>5 DEF Revealed, _BEATS, BeatBoard
    <3>. QED  BY <1>2, <3>1, <3>2, <3>3, <3>4, <3>5
  <2>2. shown.naive = Scoreboard /\ ShownAfter(n + 1).naive = Scoreboard
    BY <1>2 DEF ShownAfter
  <2>. QED
    BY <1>1, <1>2, <2>1, <2>2, BoardsShown, BeatAdvancesBoard
<1>3. CASE n + 1 = 8
  <2>1. r = [naive |-> [shown.naive EXCEPT !.double_executions = 1],
             deadman |-> shown.deadman, beat |-> n]
    BY <1>1, <1>3 DEF Revealed, _BEATS
  <2>2. shown.naive = Scoreboard /\ ShownAfter(n + 1).naive = NaiveBoard
    BY <1>3 DEF ShownAfter
  <2>3. ShownAfter(n + 1).deadman = shown.deadman
    BY <1>3, BeatAdvancesBoard DEF BeatBoard
  <2>. QED
    BY <1>1, <1>3, <2>1, <2>2, <2>3, BoardsShown DEF NaiveBoard
<1>4. CASE n + 1 = 9
  <2>1. r = [naive |-> NaiveBoard, deadman |-> DeadmanBoard, beat |-> n]
    BY <1>1, <1>4 DEF Revealed, _BEATS
  <2>2. shown.naive = NaiveBoard /\ ShownAfter(n + 1).naive = NaiveBoard
    BY <1>4 DEF ShownAfter
  <2>3. shown.deadman = DeadmanBoard /\ ShownAfter(n + 1).deadman = DeadmanBoard
    <3>1. DeadmanBoard \in Boards
      BY DEF DeadmanBoard, Boards
    <3>2. \A m \in {8, 9} : ShownAfter(m).deadman \in Boards
      BY BoardsShown
    <3>3. \A m \in {8, 9} : ShownAfter(m).deadman = DeadmanBoard
      <4>1. ASSUME NEW m \in {8, 9}
            PROVE  LET b == ShownAfter(m).deadman
                   IN  /\ b.survived <=> DeadmanBoard.survived
                       /\ b.fallback_depth = DeadmanBoard.fallback_depth
                       /\ b.double_executions = DeadmanBoard.double_executions
                       /\ b.guardrail_blocks = DeadmanBoard.guardrail_blocks
                       /\ b.drain_authority = DeadmanBoard.drain_authority
        BY DEF ShownAfter, DeadmanBoard
      <4>. QED  BY <3>1, <3>2, <4>1, SameBoard
    <3>. QED  BY <1>4, <3>3
  <2>4. shown' = [naive |-> NaiveBoard, deadman |-> DeadmanBoard, beat |-> n + 1]
    BY <1>1, <2>1
  <2>. QED
    BY <1>1, <1>4, <2>2, <2>3, <2>4, BoardsShown
<1>. QED  BY <1>2, <1>3, <1>4

\* The backend that is shown of Deadman names the tier it is said to have fallen back to.
TierNamed == labels.deadman.backend[1] = shown.deadman.fallback_depth

\* What a beat makes of the backend of Deadman agrees with the depth that it reveals.
LEMMA EmitNamesTier ==
  ASSUME NEW n \in 0..8, shown = ShownAfter(n), shown' = ShownAfter(n + 1), Emit, TierNamed,
         max_depth = 2
  PROVE  TierNamed'
<1>. DEFINE beat == _BEATS[n + 1]
<1>1. labels'.deadman.backend = DeadmanBackend(beat)
  <2>1. shown.beat = n
    BY DEF ShownAfter
  <2>2. labels' = Labelled(beat)
    BY <2>1 DEF Emit
  <2>. QED  BY <2>2 DEF Labelled
<1>2. labels.deadman.backend[1] = ShownAfter(n).deadman.fallback_depth
  BY DEF TierNamed
<1>3. DeadmanBackend(beat)[1] = ShownAfter(n + 1).deadman.fallback_depth
  <2>1. CASE n + 1 \in {2, 3, 4, 9}
    BY <2>1 DEF DeadmanBackend, ShownAfter, _BEATS
  <2>2. CASE n + 1 \in {1, 5, 6, 7, 8}
    <3>1. DeadmanBackend(beat) = labels.deadman.backend
      <4>1. beat \in {"cold_open", "corrupt_output", "kill_mid_rollback", "recovery",
                      "naive_double_exec"}
        BY <2>2 DEF _BEATS
      <4>. HIDE DEF beat
      <4>. QED  BY <4>1 DEF DeadmanBackend
    <3>2. ShownAfter(n + 1).deadman.fallback_depth = ShownAfter(n).deadman.fallback_depth
      BY <2>2 DEF ShownAfter
    <3>. QED  BY <1>2, <3>1, <3>2
  <2>. QED  BY <2>1, <2>2
<1>. QED  BY <1>1, <1>3 DEF TierNamed

-------------------------------------------------------------------------------
(* The story goes on *)

\* The story speaks of the variables of Scripts alone.
LEMMA StoryStutters ==
  ASSUME NEW w, Story(w), UNCHANGED scriptVars
  PROVE  Story(w)'
<1>1. UNCHANGED <<pending, committed, effects, pc, key, scope, ret, blocks, durable, memory,
                  degraded, revoked, warm>>
  BY DEF scriptVars, vars, runVars, world, calls, state, leash
<1>2. UNCHANGED <<script, stage, chaos, max_depth, naive, board, shown, codes, verdict>>
  BY DEF scriptVars, driver
<1>3. /\ Fresh(w) <=> Fresh(w)'
      /\ Blank(w) <=> Blank(w)'
      /\ DiagLost <=> DiagLost'
      /\ MidRollback(w) <=> MidRollback(w)'
      /\ Settled <=> Settled'
      /\ \A k \in Keys : CallOf(w, k) <=> CallOf(w, k)'
  BY <1>1, <1>2 DEF Fresh, Blank, DiagLost, MidRollback, Settled, CallOf
<1>4. Untold <=> Untold'
  BY <1>2 DEF Untold
<1>5. \A tiers, k : ScriptChaos(tiers, k)' = ScriptChaos(tiers, k)
  BY <1>2 DEF ScriptChaos
<1>6. FirstLife(w) <=> FirstLife(w)'
  BY <1>1, <1>2, <1>3, <1>5 DEF FirstLife
<1>7. SecondLife(w) <=> SecondLife(w)'
  BY <1>1, <1>2, <1>3 DEF SecondLife
<1>8. DemoLife(w) <=> DemoLife(w)'
  BY <1>1, <1>2, <1>3, <1>5 DEF DemoLife
<1>9. DemoStory(w) <=> DemoStory(w)'
  BY <1>2, <1>3, <1>4, <1>5, <1>6, <1>7, <1>8 DEF DemoStory
<1>10. ProofStory(w) <=> ProofStory(w)'
  BY <1>2, <1>3, <1>4, <1>5, <1>6, <1>7 DEF ProofStory
<1>11. DeathStory(w) <=> DeathStory(w)'
  BY <1>1, <1>2, <1>3 DEF DeathStory
<1>. QED  BY <1>2, <1>4, <1>9, <1>10, <1>11 DEF Story

\* Without a script, a run has no story.
LEMMA AlertsGoOn ==
  ASSUME NEW w, Workers = {w}, script = "alerts", Story(w), ScriptsNext
  PROVE  Story(w)'
<1>1. UNCHANGED <<script, driver>>
  BY DEF Story, ScriptsNext, NaiveAct, Begin, Step, Killed, Resume, ChildA, ChildBLoads,
     ChildB, Emit, ChildKilled, Judged, At
<1>. QED  BY <1>1 DEF Story, driver, Untold, Calm

\* The demo: both lives of NaiveAgent, both lives of Deadman, the replay.
LEMMA DemoGoesOn ==
  ASSUME NEW w, Workers = {w}, RunInv, OneRun(w), script = "demo", DemoStory(w), ScriptsNext
  PROVE  DemoStory(w)' /\ UNCHANGED <<script, verdict>>
<1>1. \/ NaiveAct \/ Begin(w) \/ Step(w) \/ Killed(w) \/ Resume(w) \/ Emit
  BY DEF ScriptsNext, ChildA, ChildBLoads, ChildB, ChildKilled, Judged, At
<1>2. UNCHANGED <<script, verdict>>
  BY <1>1 DEF NaiveAct, Begin, Step, Killed, Resume, Emit
<1>3. CASE NaiveAct
  BY <1>2, <1>3, NaiveTellsStory
<1>4. CASE Begin(w)
  <2>1. /\ stage = "deadman" /\ stage' = "running"
        /\ UNCHANGED <<naive, board, shown, committed>>
    BY <1>4 DEF Begin, At, Deliver, world
  <2>2. /\ Fresh(w) /\ Blank(w) /\ Untold /\ shown = ShownAfter(0) /\ DiagLost
        /\ naive.applied = 2 /\ board = [naive |-> NaiveBoard, deadman |-> Scoreboard]
    BY <2>1 DEF DemoStory, NaiveLife
  <2>3. FirstLife(w)' /\ DiagLost'
    BY <1>2, <1>4, <2>1, <2>2, BeginStartsFirstLife DEF DiagLost
  <2>. QED  BY <1>2, <2>1, <2>2, <2>3 DEF DemoStory
<1>5. CASE Step(w)
  <2>1. /\ UNCHANGED <<naive, shown>> /\ stage \in {"running", "resumed"} /\ Work(w)
        /\ naive.applied = 2 /\ board = [naive |-> NaiveBoard, deadman |-> Scoreboard]
        /\ shown = ShownAfter(0) /\ DiagLost /\ verdict = "none"
    BY <1>5 DEF Step, DemoStory, NaiveLife
  <2>2. CASE stage = "running"
    <3>1. FirstLife(w)' /\ DiagLost' /\ UNCHANGED <<stage, board>>
      BY <1>5, <2>1, <2>2, FirstLifeStep DEF DemoStory, NaiveLife
    <3>. QED  BY <1>2, <2>1, <2>2, <3>1 DEF DemoStory
  <2>3. CASE stage = "resumed" /\ pc[w] # "finish"
    <3>1. SecondLife(w) /\ DemoLife(w)
      BY <2>3 DEF DemoStory, NaiveLife
    <3>2. DemoLife(w)' /\ DiagLost' /\ UNCHANGED <<stage, board>>
      BY <1>5, <2>1, <2>3, <3>1, DemoLifeStep DEF Step
    <3>3. chaos'.kill_after = NoKey
      BY <3>2 DEF DemoLife, ScriptChaos, Calm
    <3>4. SecondLife(w)'
      BY <2>1, <3>1, <3>3, SecondLifeStep
    <3>. QED  BY <1>2, <2>1, <2>3, <3>2, <3>4 DEF DemoStory
  <2>4. CASE stage = "resumed" /\ pc[w] = "finish"
    <3>1. SecondLife(w) /\ DemoLife(w)
      BY <2>4 DEF DemoStory, NaiveLife
    <3>2. /\ board' = [board EXCEPT !.deadman = DeadmanBoard] /\ stage' = "replay"
          /\ chaos' = ScriptChaos({1}, NoKey)' /\ max_depth' = 2 /\ DiagLost'
      BY <1>5, <2>1, <2>4, <3>1, DemoLifeEnds
    <3>3. /\ board' = [naive |-> NaiveBoard, deadman |-> DeadmanBoard]
          /\ board'.naive = NaiveBoard
      BY <2>1, <3>2
    <3>4. shown'.beat = 0 /\ shown' = ShownAfter(0) /\ 0 \in 0..Len(_BEATS)
      BY <2>1 DEF ShownAfter, _BEATS
    <3>. QED  BY <1>2, <2>1, <3>2, <3>3, <3>4 DEF DemoStory
  <2>. QED  BY <2>1, <2>2, <2>3, <2>4
<1>6. CASE Killed(w)
  <2>1. /\ stage = "running" /\ stage' = "killed"
        /\ UNCHANGED <<naive, board, shown, max_depth>>
    BY <1>6 DEF Killed, At
  <2>2. /\ FirstLife(w) /\ shown = ShownAfter(0) /\ DiagLost
        /\ naive.applied = 2 /\ board = [naive |-> NaiveBoard, deadman |-> Scoreboard]
    BY <2>1 DEF DemoStory, NaiveLife
  <2>3. /\ MidRollback(w)' /\ Blank(w)' /\ chaos' = ScriptChaos({}, NoKey)' /\ DiagLost'
        /\ max_depth \in 0..1
    BY <1>2, <1>6, <2>2, KilledMidRollback DEF DiagLost, FirstLife
  <2>. QED  BY <1>2, <2>1, <2>2, <2>3 DEF DemoStory
<1>7. CASE Resume(w)
  <2>1. /\ stage = "killed" /\ stage' = "resumed" /\ UNCHANGED <<naive, board, shown>>
    BY <1>7 DEF Resume, At
  <2>2. /\ MidRollback(w) /\ Blank(w) /\ chaos = ScriptChaos({}, NoKey)
        /\ shown = ShownAfter(0) /\ DiagLost /\ naive.applied = 2
        /\ board = [naive |-> NaiveBoard, deadman |-> Scoreboard]
    BY <2>1 DEF DemoStory, NaiveLife
  <2>3. SecondLife(w)' /\ DemoLife(w)' /\ DiagLost'
    BY <1>2, <1>7, <2>2, ResumeStartsSecondLife DEF DiagLost
  <2>. QED  BY <1>2, <2>1, <2>2, <2>3 DEF DemoStory
<1>8. CASE Emit
  <2>1. /\ stage = "replay" /\ shown.beat < Len(_BEATS)
        /\ UNCHANGED <<naive, board, stage, chaos, max_depth, committed>>
    BY <1>8 DEF Emit, vars, runVars, world
  <2>2. /\ shown.beat \in 0..8 /\ shown = ShownAfter(shown.beat) /\ DiagLost
        /\ naive.applied = 2 /\ board = [naive |-> NaiveBoard, deadman |-> DeadmanBoard]
        /\ chaos = ScriptChaos({1}, NoKey) /\ max_depth = 2 /\ board.naive = NaiveBoard
    BY <2>1 DEF DemoStory, NaiveLife, _BEATS
  <2>3. shown' = ShownAfter(shown.beat + 1)
    BY <1>8, <2>2, EmitShows
  <2>4. shown'.beat = shown.beat + 1 /\ shown'.beat \in 0..Len(_BEATS)
    BY <2>2, <2>3 DEF ShownAfter, _BEATS
  <2>5. chaos' = ScriptChaos({1}, NoKey)' /\ DiagLost'
    BY <1>2, <2>1, <2>2 DEF ScriptChaos, DiagLost, Calm
  <2>. QED  BY <1>2, <2>1, <2>2, <2>3, <2>4, <2>5 DEF DemoStory
<1>. QED  BY <1>1, <1>2, <1>3, <1>4, <1>5, <1>6, <1>7, <1>8

\* The proof script: both lives of Deadman, and the verdict.
LEMMA ProofGoesOn ==
  ASSUME NEW w, Workers = {w}, RunInv, OneRun(w), script = "proof", Story(w), ScriptsNext
  PROVE  Story(w)'
<1>a. ProofStory(w) /\ verdict \in {"none", "PASS", "FAIL"} /\ shown.beat = 0
      /\ naive.applied = 0 /\ max_depth = 0
  BY DEF Story, ProofStory
<1>1. \/ Begin(w) \/ Step(w) \/ Killed(w) \/ Resume(w) \/ Judged
  BY DEF ScriptsNext, NaiveAct, Emit, ChildA, ChildBLoads, ChildB, ChildKilled, At
<1>2. UNCHANGED <<script, naive, shown>>
  BY <1>1 DEF Begin, Step, Killed, Resume, Judged
<1>3. CASE Begin(w)
  <2>1. /\ stage = "start" /\ stage' = "running" /\ UNCHANGED <<max_depth, verdict>>
    BY <1>3 DEF Begin, At
  <2>2. /\ Fresh(w) /\ Blank(w) /\ Untold
    BY <1>a, <2>1 DEF ProofStory
  <2>3. FirstLife(w)'
    BY <1>3, <2>2, BeginStartsFirstLife
  <2>4. ProofStory(w)'
    BY <1>a, <1>2, <2>1, <2>2, <2>3 DEF ProofStory, Untold
  <2>. QED  BY <1>a, <1>2, <2>1, <2>4 DEF Story, Drivers
<1>4. CASE Step(w)
  <2>1. /\ UNCHANGED verdict /\ stage \in {"running", "resumed"} /\ Work(w)
        /\ verdict # "PASS"
    BY <1>a, <1>4 DEF Step, ProofStory
  <2>2. CASE stage = "running"
    <3>1. FirstLife(w) /\ DiagLost
      BY <1>a, <2>2 DEF ProofStory, DiagLost
    <3>2. FirstLife(w)' /\ UNCHANGED stage /\ max_depth' = 0
      BY <1>a, <1>4, <3>1, FirstLifeStep
    <3>. QED  BY <1>a, <1>2, <2>1, <2>2, <3>2 DEF ProofStory, Story, Drivers
  <2>3. CASE stage = "resumed"
    <3>1. PICK tiers \in {{}, {1}} : chaos = ScriptChaos(tiers, NoKey)
      BY <1>a, <2>3 DEF ProofStory
    <3>2. max_depth' = 0 /\ \E t \in {{}, {1}} : chaos' = ScriptChaos(t, NoKey)'
      BY <1>a, <1>4, <3>1, ProofLifeStep
    <3>3. SecondLife(w) /\ chaos'.kill_after = NoKey
      BY <1>a, <2>3, <3>2 DEF ProofStory, ScriptChaos, Calm
    <3>4. SecondLife(w)'
      BY <2>1, <3>3, SecondLifeStep
    <3>5. CASE pc[w] # "finish"
      <4>1. UNCHANGED stage
        BY <1>4, <3>5 DEF Step
      <4>. QED  BY <1>a, <1>2, <2>1, <2>3, <3>2, <3>4, <4>1 DEF ProofStory, Story, Drivers
    <3>6. CASE pc[w] = "finish"
      <4>1. stage' = "judge"
        BY <1>4, <3>6 DEF Step
      <4>2. UNCHANGED <<effects, committed, durable>> /\ Settled
        BY <1>4, <3>3, <3>6 DEF Step, Work, SecondLife, Settled, CallOf, Calling, Finish,
           Forget, world, Start, Load, ResumeSkips, ResumeReconciles, ReconcileApplied,
           RecordReconciled, ReconcileNotApplied, Diagnose, CallRead, ReadReturns,
           SkipRevert, CheckpointRevert, CallRevert, RevertReturns, RevertDenied,
           PhaseARate, Replan, ReplanRaises, Rescope, CallCordon, CordonReturns, Calls,
           Execute, ExecuteDenied, ExecuteSkipped, PreToolBlocks, PreToolRaises,
           PreToolPasses, MockCall, CallLost, AnswerLost, CallRefused, CallSucceeds,
           CallReplayed, PostToolBlocks, ResultBlocked, Claim
      <4>3. Settled'
        BY <4>2 DEF Settled
      <4>. QED  BY <1>a, <1>2, <2>1, <3>2, <4>1, <4>3 DEF ProofStory, Story, Drivers
    <3>. QED  BY <3>5, <3>6
  <2>. QED  BY <2>1, <2>2, <2>3
<1>5. CASE Killed(w)
  <2>1. /\ stage = "running" /\ stage' = "killed" /\ UNCHANGED <<max_depth, verdict>>
    BY <1>5 DEF Killed, At
  <2>2. FirstLife(w) /\ verdict # "PASS"
    BY <1>a, <2>1 DEF ProofStory
  <2>3. /\ MidRollback(w)' /\ Blank(w)' /\ chaos' = ScriptChaos({}, NoKey)'
    BY <1>5, <2>2, KilledMidRollback
  <2>. QED  BY <1>a, <1>2, <2>1, <2>2, <2>3 DEF ProofStory, Story, Drivers
<1>6. CASE Resume(w)
  <2>1. /\ stage = "killed" /\ stage' = "resumed" /\ UNCHANGED verdict /\ max_depth' = 0
    BY <1>6 DEF Resume, At
  <2>2. /\ MidRollback(w) /\ Blank(w) /\ chaos = ScriptChaos({}, NoKey)
        /\ verdict # "PASS"
    BY <1>a, <2>1 DEF ProofStory
  <2>3. SecondLife(w)' /\ chaos' = ScriptChaos({}, NoKey)'
    BY <1>6, <2>2, ResumeStartsSecondLife
  <2>. QED  BY <1>a, <1>2, <2>1, <2>2, <2>3 DEF ProofStory, Story, Drivers
<1>7. CASE Judged
  <2>1. /\ stage = "judge" /\ verdict' \in {"PASS", "FAIL"}
        /\ UNCHANGED <<stage, chaos, max_depth, effects, committed, durable>>
    BY <1>7 DEF Judged, Judge, vars, runVars, world, state
  <2>2. Settled' /\ \E tiers \in {{}, {1}} : chaos' = ScriptChaos(tiers, NoKey)'
    BY <1>a, <1>2, <2>1 DEF ProofStory, Settled, ScriptChaos
  <2>. QED  BY <1>a, <1>2, <2>1, <2>2 DEF ProofStory, Story, Drivers
<1>. QED  BY <1>1, <1>3, <1>4, <1>5, <1>6, <1>7

\* The process-death script: the children, and the kernel that may kill them.
LEMMA DeathGoesOn ==
  ASSUME NEW w, Workers = {w}, RunInv, script = "process_death", Story(w), ScriptsNext
  PROVE  Story(w)'
<1>a. DeathStory(w) /\ verdict \in {"none", "PASS", "FAIL"}
  BY DEF Story
<1>1. \/ ChildStep(w) \/ Judged
      \/ ChildKilled("A", {"start", "A.audit", "A.revert", "A.exit"}, "B.load")
      \/ ChildKilled("B", {"B.load", "B.revert", "B.commit", "B.audit", "B.exit"}, "judge")
  BY <1>a DEF ScriptsNext, NaiveAct, Emit, Begin, Step, Killed, Resume, At, ChildStep,
     DeathStory
<1>2. CASE ChildStep(w)
  BY <1>a, <1>2, ChildKeepsStory DEF Story, Drivers
<1>3. CASE \/ ChildKilled("A", {"start", "A.audit", "A.revert", "A.exit"}, "B.load")
           \/ ChildKilled("B", {"B.load", "B.revert", "B.commit", "B.audit", "B.exit"}, "judge")
  <2>1. /\ UNCHANGED <<effects, committed, durable, memory, pc, script, chaos, max_depth,
                       naive, shown, verdict>>
    BY <1>3 DEF ChildKilled, ChildVars, state
  <2>2. CASE ChildKilled("A", {"start", "A.audit", "A.revert", "A.exit"}, "B.load")
    <3>1. /\ stage \in {"start", "A.audit", "A.revert", "A.exit"} /\ stage' = "B.load"
          /\ codes' = [codes EXCEPT !.A = "signal"]
      BY <2>2 DEF ChildKilled
    <3>2. codes' \in [A : {"none", "137", "signal"}, B : {"none", "0", "error", "signal"}]
          /\ codes'.B = codes.B
      BY <1>a, <3>1 DEF DeathStory
    <3>3. /\ committed[revert_key] = 0
          /\ effects[revert_key] = 1 => durable.pending = revert_key
      <4>1. effects[revert_key] \in Nat /\ committed[revert_key] \in Nat
        BY TypesOfScript DEF RunInv, TypesOfLocals
      <4>. QED  BY <1>a, <3>1, <4>1 DEF DeathStory, Fresh
    <3>4. DeathStory(w)'
      BY <1>a, <2>1, <3>1, <3>2, <3>3 DEF DeathStory
    <3>. QED
      BY <1>a, <2>1, <3>4 DEF Story, Drivers
  <2>3. CASE ChildKilled("B", {"B.load", "B.revert", "B.commit", "B.audit", "B.exit"}, "judge")
    <3>1. /\ stage \in {"B.load", "B.revert", "B.commit", "B.audit", "B.exit"}
          /\ stage' = "judge" /\ codes' = [codes EXCEPT !.B = "signal"]
      BY <2>3 DEF ChildKilled
    <3>. QED
      BY <1>a, <2>1, <3>1 DEF Story, Drivers, DeathStory
  <2>. QED  BY <1>3, <2>2, <2>3
<1>4. CASE Judged
  <2>1. /\ stage = "judge" /\ verdict' \in {"PASS", "FAIL"}
        /\ UNCHANGED <<stage, chaos, max_depth, effects, committed, durable, memory, pc, codes,
                       naive, shown, script>>
        /\ verdict' = "PASS" => codes = [A |-> "137", B |-> "0"]
    BY <1>4 DEF Judged, Judge, vars, runVars, world, state
  <2>2. DeathStory(w)'
    BY <1>a, <2>1 DEF DeathStory, Settled, Fresh
  <2>. QED  BY <1>a, <2>1, <2>2 DEF Story, Drivers
<1>. QED  BY <1>1, <1>2, <1>3, <1>4

\* Story is inductive, given RunInv and OneRun.
LEMMA StoryGoesOn ==
  ASSUME NEW w, Workers = {w}, RunInv, OneRun(w), Story(w), [ScriptsNext]_scriptVars
  PROVE  Story(w)'
<1>1. CASE UNCHANGED scriptVars
  BY <1>1, StoryStutters
<1>2. CASE ScriptsNext /\ script = "demo"
  BY <1>2, DemoGoesOn DEF Story
<1>. QED
  BY <1>1, <1>2, AlertsGoOn, ProofGoesOn, DeathGoesOn DEF Story, Drivers

\* What Emit finds: the replay of the demo, some beats in.
LEMMA EmitFinds ==
  ASSUME NEW w, Story(w), Emit
  PROVE  /\ shown.beat \in 0..8 /\ shown = ShownAfter(shown.beat)
         /\ board = [naive |-> NaiveBoard, deadman |-> DeadmanBoard] /\ max_depth = 2
<1>1. script = "demo" /\ stage = "replay" /\ DemoStory(w) /\ shown.beat < 9
  BY DEF Emit, Story, _BEATS
<1>. QED  BY <1>1 DEF DemoStory, NaiveLife, _BEATS

\* No other step touches what is shown.
LEMMA OnlyEmitShows ==
  ASSUME [ScriptsNext]_scriptVars, ~Emit
  PROVE  UNCHANGED <<shown, labels>>
BY DEF ScriptsNext, scriptVars, driver, NaiveAct, Begin, Step, Killed, Resume, ChildA,
   ChildBLoads, ChildB, ChildVars, ChildKilled, Judged

\* TierNamed is inductive, given Story.
LEMMA TierNamedStep ==
  ASSUME NEW w, Story(w), TierNamed, [ScriptsNext]_scriptVars
  PROVE  TierNamed'
<1>1. CASE Emit
  BY <1>1, EmitFinds, EmitShows, EmitNamesTier
<1>2. CASE ~Emit
  BY <1>2, OnlyEmitShows DEF TierNamed
<1>. QED  BY <1>1, <1>2

\* Everything that holds of one run at a time, whoever drives it.
DrivenInv(w) ==
  /\ RunInv /\ OneRun(w) /\ Story(w) /\ TierNamed
  /\ ~WindowCrashes /\ script # "process_death" => SoloInv(w)

\* DrivenInv is inductive: a step is that of a run or that of a child.
LEMMA DrivenStep ==
  ASSUME NEW w, Workers = {w}, DrivenInv(w), [ScriptsNext]_scriptVars
  PROVE  DrivenInv(w)'
<1>. USE DEF DrivenInv
<1>1. Story(w)' /\ TierNamed'
  BY StoryGoesOn, TierNamedStep
<1>2. CASE ChildStep(w)
  <2>1. script = "process_death" /\ DeathStory(w)
    BY <1>2 DEF ChildStep, ChildA, ChildBLoads, ChildB, At, Story
  <2>2. UNCHANGED script
    BY <1>2, <2>1, ChildKeepsStory
  <2>3. Sound(w) /\ OneRun(w)'
    BY <1>2, <2>1, ChildSound
  <2>. QED  BY <1>1, <2>1, <2>2, <2>3, SoundStepKeeps
<1>3. CASE ~ChildStep(w)
  <2>1. [Next]_vars
    BY <1>3, RunOrChild
  <2>2. RunInv' /\ OneRun(w)'
    BY <2>1, RunStepKeeps, StepKeepsOneRun
  <2>3. ~WindowCrashes /\ script # "process_death" => SoloInv(w)'
    BY <2>1, StepKeepsSolo
  <2>4. script' = script
    BY DEF ScriptsNext, scriptVars, NaiveAct, Begin, Step, Killed, Resume, ChildA,
       ChildBLoads, ChildB, ChildVars, Emit, ChildKilled, Judged
  <2>. QED  BY <1>1, <2>2, <2>3, <2>4
<1>. QED  BY <1>2, <1>3

\* DrivenInv holds of every state of the scripts.
LEMMA DrivenInvariant ==
  ASSUME NEW w, Workers = {w}
  PROVE  ScriptsSpec => []DrivenInv(w)
<1>1. ScriptsInit => DrivenInv(w)
  <2>1. ASSUME ScriptsInit PROVE TierNamed
    <3>1. labels.deadman.backend = <<0, "">>
      BY <2>1, Zenon DEF ScriptsInit
    <3>2. shown.deadman.fallback_depth = 0
      <4>1. shown.deadman = Scoreboard
        BY <2>1, Zenon DEF ScriptsInit
      <4>. QED  BY <4>1 DEF Scoreboard
    <3>3. <<0, "">>[1] = 0
      OBVIOUS
    <3>4. labels.deadman.backend[1] = <<0, "">>[1]
      BY <3>1, Zenon
    <3>. QED  BY <3>2, <3>3, <3>4, Zenon DEF TierNamed
  <2>. QED  BY <2>1, InitialStory DEF DrivenInv
<1>2. DrivenInv(w) /\ [ScriptsNext]_scriptVars => DrivenInv(w)'
  BY DrivenStep
<1>. QED  BY <1>1, <1>2, PTL DEF ScriptsSpec

-------------------------------------------------------------------------------
(* What the scripts show *)

\* The types, with the chaos that the scripts set and the depth that it costs.
THEOREM ScriptsTypeCorrect ==
  ASSUME NEW w, Workers = {w}
  PROVE  ScriptsSpec => []ScriptsTypeOK
<1>1. ASSUME DrivenInv(w) PROVE ScriptsTypeOK
  <2>1. /\ TypeOK /\ verdict \in {"none", "PASS", "FAIL"} /\ Story(w)
    BY <1>1 DEF DrivenInv, RunInv, Story
  <2>2. \A tiers \in {{}, {1}}, k \in {NoKey, revert_key} :
          /\ ScriptChaos(tiers, k).down_tiers \subseteq FALLBACK_CHAIN
          /\ ScriptChaos(tiers, k).kill_after \in {NoKey, revert_key}
    BY DEF ScriptChaos, Calm, FALLBACK_CHAIN
  <2>3. Calm.down_tiers \subseteq FALLBACK_CHAIN /\ Calm.kill_after \in {NoKey, revert_key}
    BY DEF Calm, FALLBACK_CHAIN
  <2>4. \/ chaos = Calm
        \/ \E tiers \in {{}, {1}}, k \in {NoKey, revert_key} : chaos = ScriptChaos(tiers, k)
    <3>1. CASE script = "demo"
      BY <2>1, <3>1 DEF Story, DemoStory, Untold, FirstLife, DemoLife
    <3>2. CASE script = "proof"
      BY <2>1, <3>2 DEF Story, ProofStory, Untold, FirstLife
    <3>. QED  BY <2>1, <3>1, <3>2 DEF Story, Drivers, DeathStory, Untold
  <2>5. max_depth \in 0..2
    BY <2>1 DEF Story, Drivers, DemoStory, ProofStory, DeathStory, Untold, FirstLife, DemoLife
  <2>6. naive.applied \in 0..2
    BY <2>1 DEF Story, Drivers, DemoStory, ProofStory, DeathStory, NaiveLife
  <2>. QED
    BY <2>1, <2>2, <2>3, <2>4, <2>5, <2>6 DEF ScriptsTypeOK, SEMANTIC_CACHE_TIER
<1>. QED  BY <1>1, DrivenInvariant, PTL

\* The two proof scripts: a PASS is printed for a revert that is applied once, recorded
\* and not left pending, whichever child died where.
THEOREM PassHolds ==
  ASSUME NEW w, Workers = {w}
  PROVE  ScriptsSpec => []PassMeansExactlyOnce
<1>1. DrivenInv(w) => PassMeansExactlyOnce
  BY DEF DrivenInv, Story, Drivers, DemoStory, ProofStory, DeathStory, Untold, Settled,
     PassMeansExactlyOnce
<1>. QED  BY <1>1, DrivenInvariant, PTL

\* The replay of the demo: the true boards of the two agents carry the numbers, the survival
\* and the authority that the hand-written beats have already shown, and name the same tier.
THEOREM ReplayHolds ==
  ASSUME NEW w, Workers = {w}
  PROVE  ScriptsSpec => ReplayTellsTruth
<1>. DEFINE Last == /\ shown' = [shown EXCEPT !.beat = @ + 1]
                    /\ labels'.deadman.backend[1] = labels.deadman.backend[1]
<1>1. ASSUME DrivenInv(w), ScriptsNext, ~UNCHANGED scriptVars, shown'.beat = Len(_BEATS)
      PROVE  Last
  <2>1. Story(w) /\ TierNamed /\ TierNamed' /\ Len(_BEATS) = 9
    BY <1>1, TierNamedStep DEF DrivenInv, _BEATS
  <2>2. CASE Emit
    <3>1. /\ shown.beat \in 0..8 /\ shown = ShownAfter(shown.beat)
          /\ board = [naive |-> NaiveBoard, deadman |-> DeadmanBoard]
      BY <2>1, <2>2, EmitFinds
    <3>2. shown' = ShownAfter(shown.beat + 1)
      BY <2>2, <3>1, EmitShows
    <3>3. shown.beat = 8
      BY <1>1, <2>1, <3>1, <3>2 DEF ShownAfter
    <3>4. shown' = [shown EXCEPT !.beat = @ + 1]
      BY <2>2, <3>1, <3>3, EmitShows
    <3>5. shown'.deadman = shown.deadman
      BY <3>1, <3>2, <3>3 DEF ShownAfter
    <3>. QED  BY <2>1, <3>4, <3>5 DEF TierNamed
  <2>3. CASE ~Emit
    <3>1. shown' = shown
      BY <1>1, <2>3, OnlyEmitShows
    <3>2. script = "demo" /\ stage = "replay"
      BY <1>1, <2>1, <3>1 DEF Story, Drivers, DemoStory, ProofStory, DeathStory, Untold,
         ShownAfter, NaiveLife
    <3>. QED
      BY <1>1, <2>3, <3>2 DEF ScriptsNext, NaiveAct, Begin, Step, Killed, Resume, ChildA,
         ChildBLoads, ChildB, ChildKilled, Judged, At
  <2>. QED  BY <2>2, <2>3
<1>2. DrivenInv(w) /\ [ScriptsNext]_scriptVars =>
        [shown'.beat = Len(_BEATS) => Last]_scriptVars
  BY <1>1
<1>. QED  BY <1>2, DrivenInvariant, PTL DEF ScriptsSpec, ReplayTellsTruth

\* "resumes exactly-once": one run at a time, which may die anywhere but between the two
\* writes of a reconciliation, or the two children of the process-death script, which may
\* die anywhere: every destructive action is applied at most once, then recorded once.
THEOREM ExactlyOnceDriven ==
  ASSUME NEW w, Workers = {w}, ~WindowCrashes
  PROVE  ScriptsSpec => ExactlyOnce
<1>1. ScriptsInit => Mitigations!Init
  <2>1. ScriptsInit => Init
    BY DEF ScriptsInit
  <2>. QED  BY <2>1 DEF Init, RunInit, Mitigations!Init, Progress
<1>2. ASSUME DrivenInv(w), [ScriptsNext]_scriptVars PROVE [Mitigations!Next]_Progress
  <2>1. CASE ChildStep(w)
    <3>1. DeathStory(w)
      BY <1>2, <2>1 DEF ChildStep, ChildA, ChildBLoads, ChildB, At, DrivenInv, Story
    <3>. QED  BY <1>2, <2>1, <3>1, ChildAdvances DEF DrivenInv
  <2>2. CASE ~ChildStep(w) /\ script = "process_death"
    <3>1. DeathStory(w)
      BY <1>2, <2>2 DEF DrivenInv, Story
    <3>2. UNCHANGED <<effects, committed>>
      BY <1>2, <2>2, <3>1 DEF ScriptsNext, scriptVars, vars, runVars, world, NaiveAct, Emit,
         Begin, Step, Killed, Resume, At, ChildStep, DeathStory, ChildKilled, Judged
    <3>. QED  BY <3>2 DEF Progress
  <2>3. CASE ~ChildStep(w) /\ script # "process_death"
    BY <1>2, <2>3, RunOrChild, RunStepAdvances DEF DrivenInv
  <2>. QED  BY <2>1, <2>2, <2>3
<1>. QED
  BY <1>1, <1>2, DrivenInvariant, PTL DEF ScriptsSpec, ExactlyOnce, Mitigations!Spec
===============================================================================
