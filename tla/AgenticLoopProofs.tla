-------------------------- MODULE AgenticLoopProofs --------------------------
(***************************************************************************)
(* The agentic loop, for any number of actions, steps, retries and deaths. *)
(*                                                                         *)
(* Any number of runs at once, in mock and real mode (LoopInv): the types, *)
(* the leash, and, when no target is part of another, the truth of the     *)
(* COMMITTED lines and of everything a run is told or keeps on file.       *)
(*                                                                         *)
(* One run at a time, in mock mode, which dies anywhere but between the    *)
(* two writes of a reconciliation (AloneInv): the promise of Mitigation,   *)
(* checkpoint before execute, and an unrecorded action that stays on file. *)
(*                                                                         *)
(* The loop that texts drive (DecisionInv): it implements the other, and   *)
(* nothing hits the world that the validators have not passed.             *)
(***************************************************************************)
EXTENDS DecisionLoop, TLAPS

USE GatewayAssumption, RunAssumption, LoopAssumption

-------------------------------------------------------------------------------
(* Any number of runs *)

\* A run that calls has a key, and a run that reconciles a pending one.
KeysKnown ==
  \A w \in Workers :
    /\ pc[w] \in {"checkpoint", "execute", "call", "result", "returned", "record"}
         => key[w] \in Keys
    /\ pc[w] = "reconcile" => memory[w].pending \in Keys

\* Whatever a completion leads to, the budget has a step for it.
StepsLeft ==
  \A w \in Workers :
    pc[w] \in {"decide", "checkpoint", "execute", "call", "result", "returned"}
      => step[w] < MaxSteps

\* The scope of a call was taken after the last completion, and nothing of this run
\* can revoke it until the call is over.
LeashTaken ==
  \A w \in Workers :
    /\ pc[w] \in {"execute", "call", "result"} /\ scope[w] = "FULL_SCOPE"
         => ~revoked[w] /\ ~degraded[w]
    /\ pc[w] \in {"call", "result"} /\ key[w] \in Destructive => scope[w] = "FULL_SCOPE"

\* What the gateway remembers has hit the world.
SeenApplied == \A k \in Destructive : k \in seen => Applied(k)

\* The target of an action occurs in the keys of no other.
TargetsApart == \A k \in Destructive : Mentions[k] = {k}

\* A run about to claim or to record an action has seen it hit the world.
RecordsTrue ==
  /\ \A w \in Workers : pc[w] = "result" /\ key[w] \in Destructive => Applied(key[w])
  /\ TargetsApart =>
       /\ CommittedApplied
       /\ \A w \in Workers : pc[w] = "record" /\ key[w] \in Destructive => Applied(key[w])

LoopInv ==
  TypeOK /\ KeysKnown /\ StepsLeft /\ LeashTaken /\ SeenApplied /\ RecordsTrue

\* The types of what a run decides by, and of what it did.
LocalTypes ==
  /\ pc = [w \in Workers |-> pc[w]]
  /\ key \in [Workers -> Keys \cup {NoKey}]
  /\ scope \in [Workers -> Scopes]
  /\ memory \in [Workers -> States]
  /\ revoked \in [Workers -> BOOLEAN] /\ degraded \in [Workers -> BOOLEAN]
  /\ step \in [Workers -> 0..MaxSteps]

WorldTypes ==
  effects \in [Keys -> Nat] /\ committed \in [Keys -> Nat]

\* The types of what ends a call, and of what starts a step.
ReturnTypes ==
  /\ ret \in [Workers -> Outcomes \cup {"none"}]
  /\ pc \in [Workers -> {"idle", "load", "resume", "reconcile", "record", "reason",
                         "decide", "checkpoint", "execute", "call", "result",
                         "returned", "finish"}]

StepTypes ==
  /\ ReturnTypes
  /\ step \in [Workers -> 0..MaxSteps]
  /\ key \in [Workers -> Keys \cup {NoKey}]
  /\ tries \in [Workers -> 0..MAX_RETRIES]

LEMMA TypesOfParts == TypeOK => LocalTypes /\ WorldTypes
BY DEF TypeOK, RunTypeOK, LocalTypes, WorldTypes

LEMMA RetryTypes ==
  ASSUME TypeOK, NEW w \in Workers, RetryOrRaise(w)
  PROVE  tries' \in [Workers -> 0..MAX_RETRIES] /\ ReturnTypes'
<1>. USE DEF TypeOK, RunTypeOK, ReturnTypes
<1>1. CASE tries[w] < MAX_RETRIES
  <2>1. UNCHANGED <<pc, ret>> /\ tries' = [tries EXCEPT ![w] = @ + 1]
    BY <1>1 DEF RetryOrRaise
  <2>. QED  BY <1>1, <2>1
<1>2. CASE ~(tries[w] < MAX_RETRIES)
  BY <1>2 DEF RetryOrRaise, Return, Goto, Outcomes
<1>. QED  BY <1>1, <1>2

LEMMA ContinueTypes ==
  ASSUME TypeOK, NEW w \in Workers, step[w] < MaxSteps, Continue(w)
  PROVE  StepTypes' /\ UNCHANGED <<scope, blocks>>
<1>. USE DEF TypeOK, RunTypeOK, Continue, Goto
<1>1. step' \in [Workers -> 0..MaxSteps]
  BY SMT
<1>2. ReturnTypes'
  BY DEF ReturnTypes
<1>3. key' \in [Workers -> Keys \cup {NoKey}] /\ tries' \in [Workers -> 0..MAX_RETRIES]
  OBVIOUS
<1>. QED  BY <1>1, <1>2, <1>3 DEF StepTypes

LEMMA InitialLoop == Init => LoopInv
<1>. SUFFICES ASSUME Init PROVE LoopInv
  OBVIOUS
<1>. USE DEF Init, RunInit
<1>1. TypeOK
  BY DEF TypeOK, RunTypeOK, Scopes, Outcomes, States, EmptyState
<1>2. KeysKnown /\ StepsLeft /\ LeashTaken
  BY DEF KeysKnown, StepsLeft, LeashTaken
<1>3. SeenApplied /\ RecordsTrue
  BY DEF SeenApplied, RecordsTrue, CommittedApplied, Applied, is_committed
<1>. QED  BY <1>1, <1>2, <1>3 DEF LoopInv

\* The steps of the loop up to a call, and those after one.
Choice(w) ==
  \/ Reason(w) \/ BudgetSpent(w)
  \/ DeclareDone(w) \/ SafeHold(w) \/ ChooseRead(w) \/ ChooseCommitted(w)
  \/ \E k \in Destructive : ChooseDestructive(w, k)
  \/ Checkpoint(w)

Outcome(w) ==
  \/ CommitExecuted(w) \/ NoteOutcome(w) \/ NoteBlock(w) \/ CallRaises(w) \/ Finish(w)
  \/ Deliver(w) /\ UNCHANGED step
  \/ Die(w)

\* Loading the state file and reconciling what it has pending.
LEMMA StartKeepsLoop ==
  ASSUME LoopInv, NEW w \in Workers, Start(w), UNCHANGED step
  PROVE  LoopInv'
<1>. USE DEF world, calls, state, leash, Goto, Return
<1>a. TypeOK /\ LocalTypes /\ WorldTypes
  BY TypesOfParts DEF LoopInv
<1>b. KeysKnown /\ StepsLeft /\ LeashTaken /\ SeenApplied /\ RecordsTrue
  BY DEF LoopInv
<1>1. CASE Load(w)
  <2>1. TypeOK'
    BY <1>1, <1>a, <1>b, SMTT(30) DEF Load, EmptyState, RunTypeOK, States, TypeOK
  <2>2. (KeysKnown /\ StepsLeft /\ LeashTaken)'
    BY <1>1, <1>a, <1>b, SMTT(30) DEF Load, EmptyState, KeysKnown, LeashTaken,
                                      LocalTypes, Scopes, States, StepsLeft
  <2>3. (SeenApplied /\ RecordsTrue)'
    BY <1>1, <1>a, <1>b, SMTT(30) DEF Load, Applied, CommittedApplied, EmptyState,
                                      SeenApplied, LocalTypes, RecordsTrue, States,
                                      TargetsApart, WorldTypes, is_committed
  <2>. QED  BY <2>1, <2>2, <2>3 DEF LoopInv
<1>2. CASE ResumeSkips(w)
  <2>1. TypeOK'
    BY <1>2, <1>a, <1>b, SMTT(30) DEF ResumeSkips, RunTypeOK, TypeOK
  <2>2. (KeysKnown /\ StepsLeft /\ LeashTaken)'
    BY <1>2, <1>a, <1>b, SMTT(30) DEF ResumeSkips, KeysKnown, LeashTaken, LocalTypes,
                                      Scopes, StepsLeft
  <2>3. (SeenApplied /\ RecordsTrue)'
    BY <1>2, <1>a, <1>b, SMTT(30) DEF ResumeSkips, Applied, CommittedApplied, SeenApplied,
                                      LocalTypes, RecordsTrue, TargetsApart, WorldTypes,
                                      is_committed
  <2>. QED  BY <2>1, <2>2, <2>3 DEF LoopInv
<1>3. CASE ResumeReconciles(w)
  <2>1. TypeOK'
    BY <1>3, <1>a, <1>b, SMTT(30) DEF ResumeReconciles, RunTypeOK, States, TypeOK
  <2>2. (KeysKnown /\ StepsLeft /\ LeashTaken)'
    BY <1>3, <1>a, <1>b, SMTT(30) DEF ResumeReconciles, KeysKnown, LeashTaken,
                                      LocalTypes, Scopes, States, StepsLeft
  <2>3. (SeenApplied /\ RecordsTrue)'
    BY <1>3, <1>a, <1>b, SMTT(30) DEF ResumeReconciles, Applied, CommittedApplied,
                                      SeenApplied, LocalTypes, RecordsTrue, States,
                                      TargetsApart, WorldTypes, is_committed
  <2>. QED  BY <2>1, <2>2, <2>3 DEF LoopInv
<1>4. CASE ReconcileApplied(w)
  <2>1. TypeOK'
    <3>. USE <1>a, <1>b DEF TypeOK, RunTypeOK
    <3>1. memory[w].pending \in Keys
      BY <1>4 DEF ReconcileApplied, KeysKnown
    <3>2. durable' \in States /\ memory' \in [Workers -> States]
      BY <1>4, <3>1 DEF ReconcileApplied, StateCommit, States
    <3>. QED
      BY <1>4, <3>1, <3>2 DEF ReconcileApplied
  <2>2. (KeysKnown /\ StepsLeft /\ LeashTaken)'
    BY <1>4, <1>a, <1>b, SMTT(30) DEF ReconcileApplied, KeysKnown, LeashTaken,
                                      LocalTypes, Scopes, StateCommit, States,
                                      StepsLeft, SystemOfRecord
  <2>3. (SeenApplied /\ RecordsTrue)'
    <3>. USE <1>a, <1>b DEF TypeOK, RunTypeOK, LocalTypes, WorldTypes
    <3>1. /\ UNCHANGED <<effects, committed, seen>>
          /\ pc' = [pc EXCEPT ![w] = "record"]
          /\ key' = [key EXCEPT ![w] = memory[w].pending]
      BY <1>4 DEF ReconcileApplied
    <3>2. ASSUME TargetsApart, memory[w].pending \in Destructive
          PROVE  Applied(memory[w].pending)
      <4>. DEFINE k == memory[w].pending
      <4>1. CASE RealMode /\ is_committed(k)
        BY <3>2, <4>1 DEF RecordsTrue, CommittedApplied
      <4>2. CASE ~(RealMode /\ is_committed(k))
        <5>1. TRUE \in SystemOfRecord(k)
          BY <1>4 DEF ReconcileApplied
        <5>2. RealMode => ~\E m \in Mentions[k] : is_committed(m)
          BY <3>2, <4>2 DEF TargetsApart
        <5>. QED  BY <5>1, <5>2 DEF SystemOfRecord, Applied
      <4>. QED  BY <4>1, <4>2
    <3>. QED
      BY <3>1, <3>2 DEF SeenApplied, RecordsTrue, CommittedApplied, Applied, is_committed,
                        TargetsApart
  <2>. QED  BY <2>1, <2>2, <2>3 DEF LoopInv
<1>5. CASE RecordReconciled(w)
  <2>1. TypeOK'
    <3>. USE <1>a, <1>b DEF TypeOK, RunTypeOK
    <3>1. key[w] \in Keys
      BY <1>5 DEF RecordReconciled, KeysKnown
    <3>2. Bump(committed[key[w]]) \in 0..Many
      BY <3>1 DEF Bump
    <3>3. committed' \in [Keys -> 0..Many]
      BY <1>5, <3>1, <3>2 DEF RecordReconciled
    <3>. QED
      BY <1>5, <3>3 DEF RecordReconciled
  <2>2. (KeysKnown /\ StepsLeft /\ LeashTaken)'
    BY <1>5, <1>a, <1>b, SMTT(30) DEF RecordReconciled, KeysKnown, LeashTaken,
                                      LocalTypes, Scopes, StepsLeft
  <2>3. (SeenApplied /\ RecordsTrue)'
    BY <1>5, <1>a, <1>b, SMTT(30) DEF RecordReconciled, Applied, Bump, CommittedApplied,
                                      SeenApplied, KeysKnown, LocalTypes, RecordsTrue,
                                      TargetsApart, WorldTypes, is_committed
  <2>. QED  BY <2>1, <2>2, <2>3 DEF LoopInv
<1>6. CASE ReconcileNotApplied(w)
  <2>1. TypeOK'
    BY <1>6, <1>a, <1>b, SMTT(30) DEF ReconcileNotApplied, RunTypeOK, TypeOK
  <2>2. (KeysKnown /\ StepsLeft /\ LeashTaken)'
    BY <1>6, <1>a, <1>b, SMTT(30) DEF ReconcileNotApplied, KeysKnown, LeashTaken,
                                      LocalTypes, Scopes, StepsLeft
  <2>3. (SeenApplied /\ RecordsTrue)'
    BY <1>6, <1>a, <1>b, SMTT(30) DEF ReconcileNotApplied, Applied, CommittedApplied,
                                      SeenApplied, LocalTypes, RecordsTrue, TargetsApart,
                                      WorldTypes, is_committed
  <2>. QED  BY <2>1, <2>2, <2>3 DEF LoopInv
<1>. QED
  BY <1>1, <1>2, <1>3, <1>4, <1>5, <1>6 DEF Start

\* A governed call, from the scope check to the claim.
LEMMA ExecuteKeepsLoop ==
  ASSUME LoopInv, NEW w \in Workers,
         Execute(w), UNCHANGED <<state, resume, leash, crashes, step>>
  PROVE  LoopInv'
<1>. USE DEF world, calls, state, leash, Goto, Return
<1>a. TypeOK /\ LocalTypes /\ WorldTypes
  BY TypesOfParts DEF LoopInv
<1>b. KeysKnown /\ StepsLeft /\ LeashTaken /\ SeenApplied /\ RecordsTrue
  BY DEF LoopInv
<1>1. CASE ExecuteDenied(w)
  <2>1. TypeOK'
    BY <1>1, <1>a, <1>b, SMTT(30) DEF ExecuteDenied, Denied, Outcomes, RunTypeOK, TypeOK
  <2>2. (KeysKnown /\ StepsLeft /\ LeashTaken)'
    BY <1>1, <1>a, <1>b, SMTT(30) DEF ExecuteDenied, Denied, KeysKnown, LeashTaken,
                                      LocalTypes, Scopes, StepsLeft
  <2>3. (SeenApplied /\ RecordsTrue)'
    BY <1>1, <1>a, <1>b, SMTT(30) DEF ExecuteDenied, Applied, CommittedApplied, Denied,
                                      SeenApplied, LocalTypes, RecordsTrue, TargetsApart,
                                      WorldTypes, is_committed
  <2>. QED  BY <2>1, <2>2, <2>3 DEF LoopInv
<1>2. CASE ExecuteSkipped(w)
  <2>1. TypeOK'
    BY <1>2, <1>a, <1>b, SMTT(30) DEF ExecuteSkipped, Denied, Outcomes, RunTypeOK,
                                      TypeOK
  <2>2. (KeysKnown /\ StepsLeft /\ LeashTaken)'
    BY <1>2, <1>a, <1>b, SMTT(30) DEF ExecuteSkipped, Denied, KeysKnown, LeashTaken,
                                      LocalTypes, Scopes, StepsLeft
  <2>3. (SeenApplied /\ RecordsTrue)'
    BY <1>2, <1>a, <1>b, SMTT(30) DEF ExecuteSkipped, Applied, CommittedApplied, Denied,
                                      SeenApplied, LocalTypes, RecordsTrue, TargetsApart,
                                      WorldTypes, is_committed
  <2>. QED  BY <2>1, <2>2, <2>3 DEF LoopInv
<1>3. CASE PreToolBlocks(w)
  <2>1. TypeOK'
    BY <1>3, <1>a, <1>b, SMTT(30) DEF PreToolBlocks, Denied, Outcomes, RunTypeOK, TypeOK
  <2>2. (KeysKnown /\ StepsLeft /\ LeashTaken)'
    BY <1>3, <1>a, <1>b, SMTT(30) DEF PreToolBlocks, Denied, KeysKnown, LeashTaken,
                                      LocalTypes, Scopes, StepsLeft
  <2>3. (SeenApplied /\ RecordsTrue)'
    BY <1>3, <1>a, <1>b, SMTT(30) DEF PreToolBlocks, Applied, CommittedApplied, Denied,
                                      SeenApplied, LocalTypes, RecordsTrue, TargetsApart,
                                      WorldTypes, is_committed
  <2>. QED  BY <2>1, <2>2, <2>3 DEF LoopInv
<1>4. CASE PreToolRaises(w)
  <2>1. TypeOK'
    BY <1>4, <1>a, <1>b, SMTT(30) DEF PreToolRaises, Denied, Outcomes, RunTypeOK, TypeOK
  <2>2. (KeysKnown /\ StepsLeft /\ LeashTaken)'
    BY <1>4, <1>a, <1>b, SMTT(30) DEF PreToolRaises, Denied, KeysKnown, LeashTaken,
                                      LocalTypes, Scopes, StepsLeft
  <2>3. (SeenApplied /\ RecordsTrue)'
    BY <1>4, <1>a, <1>b, SMTT(30) DEF PreToolRaises, Applied, CommittedApplied, Denied,
                                      SeenApplied, LocalTypes, RecordsTrue, TargetsApart,
                                      WorldTypes, is_committed
  <2>. QED  BY <2>1, <2>2, <2>3 DEF LoopInv
<1>5. CASE PreToolPasses(w)
  <2>1. TypeOK'
    BY <1>5, <1>a, <1>b, SMTT(30) DEF PreToolPasses, Denied, KeysKnown, RunTypeOK,
                                      TypeOK
  <2>2. (KeysKnown /\ StepsLeft /\ LeashTaken)'
    BY <1>5, <1>a, <1>b, SMTT(30) DEF PreToolPasses, Denied, KeysKnown, LeashTaken,
                                      LocalTypes, Scopes, StepsLeft
  <2>3. (SeenApplied /\ RecordsTrue)'
    BY <1>5, <1>a, <1>b, SMTT(30) DEF PreToolPasses, Applied, CommittedApplied, Denied,
                                      SeenApplied, LocalTypes, RecordsTrue, TargetsApart,
                                      WorldTypes, is_committed
  <2>. QED  BY <2>1, <2>2, <2>3 DEF LoopInv
<1>6. CASE MockCall(w)
  <2>1. TypeOK'
    BY <1>6, <1>a, <1>b, SMTT(30) DEF MockCall, Apply, Bump, RunTypeOK, TypeOK
  <2>2. (KeysKnown /\ StepsLeft /\ LeashTaken)'
    BY <1>6, <1>a, <1>b, SMTT(30) DEF MockCall, Apply, KeysKnown, LeashTaken,
                                      LocalTypes, Scopes, StepsLeft
  <2>3. (SeenApplied /\ RecordsTrue)'
    BY <1>6, <1>a, <1>b, SMTT(30) DEF MockCall, Applied, Apply, Bump, CommittedApplied,
                                      SeenApplied, KeysKnown, LocalTypes, RecordsTrue,
                                      TargetsApart, WorldTypes, is_committed
  <2>. QED  BY <2>1, <2>2, <2>3 DEF LoopInv
<1>7. CASE CallLost(w)
  <2>1. TypeOK'
    <3>. USE <1>a, <1>b DEF TypeOK, RunTypeOK
    <3>1. tries' \in [Workers -> 0..MAX_RETRIES] /\ ReturnTypes'
      BY <1>7, RetryTypes DEF CallLost
    <3>2. late' \subseteq Keys
      BY <1>7 DEF CallLost, KeysKnown
    <3>. QED
      BY <1>7, <3>1, <3>2 DEF CallLost, ReturnTypes
  <2>2. (KeysKnown /\ StepsLeft /\ LeashTaken)'
    BY <1>7, <1>a, <1>b, SMTT(30) DEF CallLost, KeysKnown, LeashTaken, LocalTypes,
                                      RetryOrRaise, Scopes, StepsLeft
  <2>3. (SeenApplied /\ RecordsTrue)'
    BY <1>7, <1>a, <1>b, SMTT(30) DEF CallLost, Applied, CommittedApplied, SeenApplied,
                                      LocalTypes, RecordsTrue, RetryOrRaise,
                                      TargetsApart, WorldTypes, is_committed
  <2>. QED  BY <2>1, <2>2, <2>3 DEF LoopInv
<1>8. CASE AnswerLost(w)
  <2>1. TypeOK'
    <3>. USE <1>a, <1>b DEF TypeOK, RunTypeOK
    <3>1. tries' \in [Workers -> 0..MAX_RETRIES] /\ ReturnTypes'
      BY <1>8, RetryTypes DEF AnswerLost
    <3>2. key[w] \in Keys
      BY <1>8 DEF AnswerLost, KeysKnown
    <3>3. effects' \in [Keys -> 0..Many] /\ seen' \subseteq Keys
      BY <1>8, <3>2 DEF AnswerLost, Executes, Apply, Bump
    <3>. QED
      BY <1>8, <3>1, <3>3 DEF AnswerLost, ReturnTypes
  <2>2. (KeysKnown /\ StepsLeft /\ LeashTaken)'
    BY <1>8, <1>a, <1>b, SMTT(30) DEF AnswerLost, Apply, Executes, KeysKnown,
                                      LeashTaken, LocalTypes, Replayed, RetryOrRaise,
                                      Scopes, StepsLeft
  <2>3. (SeenApplied /\ RecordsTrue)'
    BY <1>8, <1>a, <1>b, SMTT(30) DEF AnswerLost, Applied, Apply, Bump,
                                      CommittedApplied, Executes, SeenApplied, KeysKnown,
                                      LocalTypes, RecordsTrue, Replayed, RetryOrRaise,
                                      TargetsApart, WorldTypes, is_committed
  <2>. QED  BY <2>1, <2>2, <2>3 DEF LoopInv
<1>9. CASE CallRefused(w)
  <2>1. TypeOK'
    BY <1>9, <1>a, <1>b, SMTT(30) DEF CallRefused, Outcomes, RunTypeOK, TypeOK
  <2>2. (KeysKnown /\ StepsLeft /\ LeashTaken)'
    BY <1>9, <1>a, <1>b, SMTT(30) DEF CallRefused, KeysKnown, LeashTaken, LocalTypes,
                                      Scopes, StepsLeft
  <2>3. (SeenApplied /\ RecordsTrue)'
    BY <1>9, <1>a, <1>b, SMTT(30) DEF CallRefused, Applied, CommittedApplied, SeenApplied,
                                      LocalTypes, RecordsTrue, TargetsApart, WorldTypes,
                                      is_committed
  <2>. QED  BY <2>1, <2>2, <2>3 DEF LoopInv
<1>10. CASE CallSucceeds(w)
  <2>1. TypeOK'
    BY <1>10, <1>a, <1>b, SMTT(30) DEF CallSucceeds, Apply, Bump, Executes, KeysKnown,
                                       Replayed, RunTypeOK, TypeOK
  <2>2. (KeysKnown /\ StepsLeft /\ LeashTaken)'
    BY <1>10, <1>a, <1>b, SMTT(30) DEF CallSucceeds, Apply, Executes, KeysKnown,
                                       LeashTaken, LocalTypes, Replayed, Scopes,
                                       StepsLeft
  <2>3. (SeenApplied /\ RecordsTrue)'
    BY <1>10, <1>a, <1>b, SMTT(30) DEF CallSucceeds, Applied, Apply, Bump,
                                       CommittedApplied, Executes, SeenApplied, KeysKnown,
                                       LocalTypes, RecordsTrue, Replayed, TargetsApart,
                                       WorldTypes, is_committed
  <2>. QED  BY <2>1, <2>2, <2>3 DEF LoopInv
<1>11. CASE CallReplayed(w)
  <2>1. TypeOK'
    BY <1>11, <1>a, <1>b, SMTT(30) DEF CallReplayed, Outcomes, RunTypeOK, TypeOK
  <2>2. (KeysKnown /\ StepsLeft /\ LeashTaken)'
    BY <1>11, <1>a, <1>b, SMTT(30) DEF CallReplayed, KeysKnown, LeashTaken, LocalTypes,
                                       Scopes, StepsLeft
  <2>3. (SeenApplied /\ RecordsTrue)'
    BY <1>11, <1>a, <1>b, SMTT(30) DEF CallReplayed, Applied, CommittedApplied,
                                       SeenApplied, LocalTypes, RecordsTrue, TargetsApart,
                                       WorldTypes, is_committed
  <2>. QED  BY <2>1, <2>2, <2>3 DEF LoopInv
<1>12. CASE PostToolBlocks(w)
  <2>1. TypeOK'
    BY <1>12, <1>a, <1>b, SMTT(30) DEF PostToolBlocks, Outcomes, ResultBlocked,
                                       RunTypeOK, TypeOK
  <2>2. (KeysKnown /\ StepsLeft /\ LeashTaken)'
    BY <1>12, <1>a, <1>b, SMTT(30) DEF PostToolBlocks, KeysKnown, LeashTaken,
                                       LocalTypes, ResultBlocked, Scopes, StepsLeft
  <2>3. (SeenApplied /\ RecordsTrue)'
    BY <1>12, <1>a, <1>b, SMTT(30) DEF PostToolBlocks, Applied, CommittedApplied,
                                       SeenApplied, LocalTypes, RecordsTrue,
                                       ResultBlocked, TargetsApart, WorldTypes,
                                       is_committed
  <2>. QED  BY <2>1, <2>2, <2>3 DEF LoopInv
<1>13. CASE Claim(w)
  <2>1. TypeOK'
    <3>. USE <1>a, <1>b DEF TypeOK, RunTypeOK
    <3>1. key[w] \in Keys
      BY <1>13 DEF Claim, KeysKnown
    <3>2. committed' \in [Keys -> 0..Many]
      <4>1. Bump(committed[key[w]]) \in 0..Many
        BY <3>1 DEF Bump
      <4>2. CASE committed' = committed
        BY <4>2
      <4>3. CASE committed' = [committed EXCEPT ![key[w]] = Bump(@)]
        BY <3>1, <4>1, <4>3
      <4>. QED  BY <1>13, <4>2, <4>3 DEF Claim
    <3>3. ReturnTypes'
      BY <1>13 DEF Claim, ReturnTypes, Outcomes
    <3>. QED
      BY <1>13, <3>2, <3>3 DEF Claim, ReturnTypes
  <2>2. (KeysKnown /\ StepsLeft /\ LeashTaken)'
    BY <1>13, <1>a, <1>b, SMTT(30) DEF Claim, KeysKnown, LeashTaken, LocalTypes, Scopes,
                                       StepsLeft
  <2>3. (SeenApplied /\ RecordsTrue)'
    <3>. USE <1>a, <1>b DEF TypeOK, RunTypeOK, LocalTypes, WorldTypes
    <3>1. /\ UNCHANGED <<effects, seen, key>>
          /\ pc' = [pc EXCEPT ![w] = "returned"]
          /\ \A k \in Keys : is_committed(k)' => is_committed(k) \/ k = key[w]
      BY <1>13 DEF Claim, is_committed, Bump
    <3>2. key[w] \in Destructive => Applied(key[w])
      BY <1>13 DEF Claim, RecordsTrue
    <3>3. SeenApplied'
      BY <3>1 DEF SeenApplied, Applied
    <3>4. RecordsTrue'
      BY <3>1, <3>2 DEF RecordsTrue, CommittedApplied, Applied, TargetsApart
    <3>. QED  BY <3>3, <3>4
  <2>. QED  BY <2>1, <2>2, <2>3 DEF LoopInv
<1>. QED
  BY <1>1, <1>2, <1>3, <1>4, <1>5, <1>6, <1>7, <1>8, <1>9, <1>10, <1>11, <1>12, <1>13
     DEF Execute

\* A completion, and what the loop makes of the choice in it.
LEMMA ChoiceKeepsLoop ==
  ASSUME LoopInv, NEW w \in Workers, Choice(w)
  PROVE  LoopInv'
<1>. USE DEF world, calls, state, leash, Goto, Return
<1>a. TypeOK /\ LocalTypes /\ WorldTypes
  BY TypesOfParts DEF LoopInv
<1>b. KeysKnown /\ StepsLeft /\ LeashTaken /\ SeenApplied /\ RecordsTrue
  BY DEF LoopInv
<1>1. CASE step[w] < MaxSteps /\ Complete(w)
  <2>1. TypeOK'
    BY <1>1, <1>a, <1>b, SMTT(30) DEF Complete, RunTypeOK, TypeOK
  <2>2. (KeysKnown /\ StepsLeft /\ LeashTaken)'
    BY <1>1, <1>a, <1>b, SMTT(30) DEF Complete, KeysKnown, LeashTaken, LocalTypes,
                                      Scopes, StepsLeft
  <2>3. (SeenApplied /\ RecordsTrue)'
    BY <1>1, <1>a, <1>b, SMTT(30) DEF Complete, Applied, CommittedApplied, SeenApplied,
                                      LocalTypes, RecordsTrue, TargetsApart, WorldTypes,
                                      is_committed
  <2>. QED  BY <2>1, <2>2, <2>3 DEF LoopInv
<1>2. CASE step[w] < MaxSteps /\ ModelOutage(w)
  <2>1. TypeOK'
    BY <1>2, <1>a, <1>b, SMTT(30) DEF ModelOutage, RunTypeOK, TypeOK
  <2>2. (KeysKnown /\ StepsLeft /\ LeashTaken)'
    BY <1>2, <1>a, <1>b, SMTT(30) DEF ModelOutage, KeysKnown, LeashTaken, LocalTypes,
                                      Scopes, StepsLeft
  <2>3. (SeenApplied /\ RecordsTrue)'
    BY <1>2, <1>a, <1>b, SMTT(30) DEF ModelOutage, Applied, CommittedApplied, SeenApplied,
                                      LocalTypes, RecordsTrue, TargetsApart, WorldTypes,
                                      is_committed
  <2>. QED  BY <2>1, <2>2, <2>3 DEF LoopInv
<1>3. CASE step[w] < MaxSteps /\ ModelRaises(w)
  <2>1. TypeOK'
    <3>. USE <1>a, <1>b DEF TypeOK, RunTypeOK
    <3>1. /\ key' \in [Workers -> Keys \cup {NoKey}] /\ scope' \in [Workers -> Scopes]
          /\ ret' \in [Workers -> Outcomes \cup {"none"}]
          /\ tries' \in [Workers -> 0..MAX_RETRIES]
      BY <1>3 DEF ModelRaises, Forget, Scopes
    <3>2. /\ memory' \in [Workers -> States] /\ resume' \in [Workers -> BOOLEAN]
          /\ revoked' \in [Workers -> BOOLEAN] /\ degraded' \in [Workers -> BOOLEAN]
      BY <1>3 DEF ModelRaises, Forget, EmptyState, States
    <3>3. /\ blocks' \in [Workers -> Nat] /\ attempts' \in [Workers -> Nat]
          /\ step' \in [Workers -> 0..MaxSteps]
      BY <1>3 DEF ModelRaises, Forget
    <3>. QED
      BY <1>3, <3>1, <3>2, <3>3 DEF ModelRaises, Forget
  <2>2. (KeysKnown /\ StepsLeft /\ LeashTaken)'
    BY <1>3, <1>a, <1>b, SMTT(30) DEF ModelRaises, Forget, KeysKnown, LeashTaken,
                                      LocalTypes, Scopes, StepsLeft
  <2>3. (SeenApplied /\ RecordsTrue)'
    BY <1>3, <1>a, <1>b, SMTT(30) DEF ModelRaises, Applied, CommittedApplied, Forget,
                                      SeenApplied, LocalTypes, RecordsTrue, TargetsApart,
                                      WorldTypes, is_committed
  <2>. QED  BY <2>1, <2>2, <2>3 DEF LoopInv
<1>4. CASE BudgetSpent(w)
  <2>1. TypeOK'
    BY <1>4, <1>a, <1>b, SMTT(30) DEF BudgetSpent, RunTypeOK, TypeOK
  <2>2. (KeysKnown /\ StepsLeft /\ LeashTaken)'
    BY <1>4, <1>a, <1>b, SMTT(30) DEF BudgetSpent, KeysKnown, LeashTaken, LocalTypes,
                                      Scopes, StepsLeft
  <2>3. (SeenApplied /\ RecordsTrue)'
    BY <1>4, <1>a, <1>b, SMTT(30) DEF BudgetSpent, Applied, CommittedApplied, SeenApplied,
                                      LocalTypes, RecordsTrue, TargetsApart, WorldTypes,
                                      is_committed
  <2>. QED  BY <2>1, <2>2, <2>3 DEF LoopInv
<1>5. CASE DeclareDone(w)
  <2>1. TypeOK'
    BY <1>5, <1>a, <1>b, SMTT(30) DEF DeclareDone, RunTypeOK, TypeOK
  <2>2. (KeysKnown /\ StepsLeft /\ LeashTaken)'
    BY <1>5, <1>a, <1>b, SMTT(30) DEF DeclareDone, KeysKnown, LeashTaken, LocalTypes,
                                      Scopes, StepsLeft
  <2>3. (SeenApplied /\ RecordsTrue)'
    BY <1>5, <1>a, <1>b, SMTT(30) DEF DeclareDone, Applied, CommittedApplied, SeenApplied,
                                      LocalTypes, RecordsTrue, TargetsApart, WorldTypes,
                                      is_committed
  <2>. QED  BY <2>1, <2>2, <2>3 DEF LoopInv
<1>6. CASE SafeHold(w)
  <2>1. TypeOK'
    <3>. USE <1>a, <1>b DEF TypeOK, RunTypeOK
    <3>1. StepTypes' /\ UNCHANGED <<scope, blocks>>
      BY <1>6, ContinueTypes DEF SafeHold, StepsLeft
    <3>. QED
      BY <1>6, <3>1 DEF SafeHold, StepTypes, ReturnTypes
  <2>2. (KeysKnown /\ StepsLeft /\ LeashTaken)'
    BY <1>6, <1>a, <1>b, SMTT(30) DEF SafeHold, Continue, KeysKnown, LeashTaken,
                                      LocalTypes, Scopes, StepsLeft
  <2>3. (SeenApplied /\ RecordsTrue)'
    BY <1>6, <1>a, <1>b, SMTT(30) DEF SafeHold, Applied, CommittedApplied, Continue,
                                      SeenApplied, LocalTypes, RecordsTrue, TargetsApart,
                                      WorldTypes, is_committed
  <2>. QED  BY <2>1, <2>2, <2>3 DEF LoopInv
<1>7. CASE ChooseRead(w)
  <2>1. TypeOK'
    <3>. USE <1>a, <1>b DEF TypeOK, RunTypeOK
    <3>1. ReadKey[step[w]] \in Keys
      BY <1>7 DEF ChooseRead, StepsLeft
    <3>2. key' \in [Workers -> Keys \cup {NoKey}]
      BY <1>7, <3>1 DEF ChooseRead
    <3>3. revoked' \in [Workers -> BOOLEAN] /\ scope' \in [Workers -> Scopes]
      BY <1>7 DEF ChooseRead, AllowedScope, Scopes
    <3>4. attempts' \in [Workers -> Nat]
      BY <1>7 DEF ChooseRead
    <3>. QED
      BY <1>7, <3>2, <3>3, <3>4 DEF ChooseRead
  <2>2. (KeysKnown /\ StepsLeft /\ LeashTaken)'
    BY <1>7, <1>a, <1>b, SMTT(30) DEF ChooseRead, AllowedScope, KeysKnown, LeashTaken,
                                      LocalTypes, Scopes, StepsLeft
  <2>3. (SeenApplied /\ RecordsTrue)'
    BY <1>7, <1>a, <1>b, SMTT(30) DEF ChooseRead, AllowedScope, Applied,
                                      CommittedApplied, SeenApplied, LocalTypes,
                                      RecordsTrue, TargetsApart, WorldTypes,
                                      is_committed
  <2>. QED  BY <2>1, <2>2, <2>3 DEF LoopInv
<1>8. CASE ChooseCommitted(w)
  <2>1. TypeOK'
    <3>. USE <1>a, <1>b DEF TypeOK, RunTypeOK
    <3>1. StepTypes' /\ UNCHANGED <<scope, blocks>>
      BY <1>8, ContinueTypes DEF ChooseCommitted, StepsLeft
    <3>. QED
      BY <1>8, <3>1 DEF ChooseCommitted, StepTypes, ReturnTypes
  <2>2. (KeysKnown /\ StepsLeft /\ LeashTaken)'
    BY <1>8, <1>a, <1>b, SMTT(30) DEF ChooseCommitted, Continue, KeysKnown, LeashTaken,
                                      LocalTypes, Scopes, StepsLeft
  <2>3. (SeenApplied /\ RecordsTrue)'
    BY <1>8, <1>a, <1>b, SMTT(30) DEF ChooseCommitted, Applied, CommittedApplied,
                                      Continue, SeenApplied, LocalTypes, RecordsTrue,
                                      TargetsApart, WorldTypes, is_committed
  <2>. QED  BY <2>1, <2>2, <2>3 DEF LoopInv
<1>9. ASSUME NEW k \in Destructive, ChooseDestructive(w, k) PROVE LoopInv'
  <2>1. TypeOK'
    BY <1>9, <1>a, <1>b, SMTT(30) DEF ChooseDestructive, RunTypeOK, TypeOK
  <2>2. (KeysKnown /\ StepsLeft /\ LeashTaken)'
    BY <1>9, <1>a, <1>b, SMTT(30) DEF ChooseDestructive, KeysKnown, LeashTaken,
                                      LocalTypes, Scopes, StepsLeft
  <2>3. (SeenApplied /\ RecordsTrue)'
    BY <1>9, <1>a, <1>b, SMTT(30) DEF ChooseDestructive, Applied, CommittedApplied,
                                      SeenApplied, LocalTypes, RecordsTrue, TargetsApart,
                                      WorldTypes, is_committed
  <2>. QED  BY <2>1, <2>2, <2>3 DEF LoopInv
<1>10. CASE Checkpoint(w)
  <2>1. TypeOK'
    <3>. USE <1>a, <1>b DEF TypeOK, RunTypeOK
    <3>1. key[w] \in Keys
      BY <1>10 DEF Checkpoint, KeysKnown
    <3>2. durable' \in States /\ memory' \in [Workers -> States]
      BY <1>10, <3>1 DEF Checkpoint, SetPending, States
    <3>3. revoked' \in [Workers -> BOOLEAN] /\ scope' \in [Workers -> Scopes]
      BY <1>10 DEF Checkpoint, AllowedScope, Scopes
    <3>4. attempts' \in [Workers -> Nat]
      BY <1>10 DEF Checkpoint
    <3>. QED
      BY <1>10, <3>2, <3>3, <3>4 DEF Checkpoint
  <2>2. (KeysKnown /\ StepsLeft /\ LeashTaken)'
    BY <1>10, <1>a, <1>b, SMTT(30) DEF Checkpoint, AllowedScope, KeysKnown, LeashTaken,
                                       LocalTypes, Scopes, SetPending, StepsLeft
  <2>3. (SeenApplied /\ RecordsTrue)'
    BY <1>10, <1>a, <1>b, SMTT(30) DEF Checkpoint, AllowedScope, Applied,
                                       CommittedApplied, SeenApplied, LocalTypes,
                                       RecordsTrue, SetPending, TargetsApart,
                                       WorldTypes, is_committed
  <2>. QED  BY <2>1, <2>2, <2>3 DEF LoopInv
<1>. QED
  BY <1>1, <1>2, <1>3, <1>4, <1>5, <1>6, <1>7, <1>8, <1>9, <1>10 DEF Choice, Reason

\* What a call came to, and the ends and beginnings of a run.
LEMMA OutcomeKeepsLoop ==
  ASSUME LoopInv, NEW w \in Workers, Outcome(w)
  PROVE  LoopInv'
<1>. USE DEF world, calls, state, leash, Goto, Return
<1>a. TypeOK /\ LocalTypes /\ WorldTypes
  BY TypesOfParts DEF LoopInv
<1>b. KeysKnown /\ StepsLeft /\ LeashTaken /\ SeenApplied /\ RecordsTrue
  BY DEF LoopInv
<1>1. CASE CommitExecuted(w)
  <2>1. TypeOK'
    <3>. USE <1>a, <1>b DEF TypeOK, RunTypeOK
    <3>1. StepTypes' /\ UNCHANGED <<scope, blocks>>
      BY <1>1, ContinueTypes DEF CommitExecuted, StepsLeft
    <3>2. durable' \in States /\ memory' \in [Workers -> States]
      BY <1>1 DEF CommitExecuted, StateCommit, States, KeysKnown
    <3>. QED
      BY <1>1, <3>1, <3>2 DEF CommitExecuted, StepTypes, ReturnTypes
  <2>2. (KeysKnown /\ StepsLeft /\ LeashTaken)'
    BY <1>1, <1>a, <1>b, SMTT(30) DEF CommitExecuted, Continue, KeysKnown, LeashTaken,
                                      LocalTypes, Scopes, StateCommit, StepsLeft
  <2>3. (SeenApplied /\ RecordsTrue)'
    BY <1>1, <1>a, <1>b, SMTT(30) DEF CommitExecuted, Applied, CommittedApplied,
                                      Continue, SeenApplied, LocalTypes, RecordsTrue,
                                      StateCommit, TargetsApart, WorldTypes,
                                      is_committed
  <2>. QED  BY <2>1, <2>2, <2>3 DEF LoopInv
<1>2. CASE NoteOutcome(w)
  <2>1. TypeOK'
    <3>. USE <1>a, <1>b DEF TypeOK, RunTypeOK
    <3>1. StepTypes' /\ UNCHANGED <<scope, blocks>>
      BY <1>2, ContinueTypes DEF NoteOutcome, StepsLeft
    <3>. QED
      BY <1>2, <3>1 DEF NoteOutcome, StepTypes, ReturnTypes
  <2>2. (KeysKnown /\ StepsLeft /\ LeashTaken)'
    BY <1>2, <1>a, <1>b, SMTT(30) DEF NoteOutcome, Continue, KeysKnown, LeashTaken,
                                      LocalTypes, Scopes, StepsLeft
  <2>3. (SeenApplied /\ RecordsTrue)'
    BY <1>2, <1>a, <1>b, SMTT(30) DEF NoteOutcome, Applied, CommittedApplied, Continue,
                                      SeenApplied, LocalTypes, RecordsTrue, TargetsApart,
                                      WorldTypes, is_committed
  <2>. QED  BY <2>1, <2>2, <2>3 DEF LoopInv
<1>3. CASE NoteBlock(w)
  <2>1. TypeOK'
    <3>. USE <1>a, <1>b DEF TypeOK, RunTypeOK
    <3>1. StepTypes' /\ UNCHANGED <<scope, blocks>>
      BY <1>3, ContinueTypes DEF NoteBlock, StepsLeft
    <3>2. revoked' \in [Workers -> BOOLEAN]
      BY <1>3 DEF NoteBlock, KillSwitch
    <3>. QED
      BY <1>3, <3>1, <3>2 DEF NoteBlock, StepTypes, ReturnTypes
  <2>2. (KeysKnown /\ StepsLeft /\ LeashTaken)'
    BY <1>3, <1>a, <1>b, SMTT(30) DEF NoteBlock, Continue, KeysKnown, KillSwitch,
                                      LeashTaken, LocalTypes, Scopes, StepsLeft
  <2>3. (SeenApplied /\ RecordsTrue)'
    BY <1>3, <1>a, <1>b, SMTT(30) DEF NoteBlock, Applied, CommittedApplied, Continue,
                                      SeenApplied, KillSwitch, LocalTypes, RecordsTrue,
                                      TargetsApart, WorldTypes, is_committed
  <2>. QED  BY <2>1, <2>2, <2>3 DEF LoopInv
<1>4. CASE CallRaises(w)
  <2>1. TypeOK'
    BY <1>4, <1>a, <1>b, SMTT(30) DEF CallRaises, EmptyState, Forget, RunTypeOK, Scopes,
                                      States, TypeOK
  <2>2. (KeysKnown /\ StepsLeft /\ LeashTaken)'
    BY <1>4, <1>a, <1>b, SMTT(30) DEF CallRaises, Forget, KeysKnown, LeashTaken,
                                      LocalTypes, Scopes, StepsLeft
  <2>3. (SeenApplied /\ RecordsTrue)'
    BY <1>4, <1>a, <1>b, SMTT(30) DEF CallRaises, Applied, CommittedApplied, Forget,
                                      SeenApplied, LocalTypes, RecordsTrue, TargetsApart,
                                      WorldTypes, is_committed
  <2>. QED  BY <2>1, <2>2, <2>3 DEF LoopInv
<1>5. CASE Finish(w)
  <2>1. TypeOK'
    BY <1>5, <1>a, <1>b, SMTT(30) DEF Finish, EmptyState, Forget, RunTypeOK, Scopes,
                                      States, TypeOK
  <2>2. (KeysKnown /\ StepsLeft /\ LeashTaken)'
    BY <1>5, <1>a, <1>b, SMTT(30) DEF Finish, Forget, KeysKnown, LeashTaken, LocalTypes,
                                      Scopes, StepsLeft
  <2>3. (SeenApplied /\ RecordsTrue)'
    BY <1>5, <1>a, <1>b, SMTT(30) DEF Finish, Applied, CommittedApplied, Forget,
                                      SeenApplied, LocalTypes, RecordsTrue, TargetsApart,
                                      WorldTypes, is_committed
  <2>. QED  BY <2>1, <2>2, <2>3 DEF LoopInv
<1>6. CASE Deliver(w) /\ UNCHANGED step
  <2>1. TypeOK'
    BY <1>6, <1>a, <1>b, SMTT(30) DEF Deliver, RunTypeOK, TypeOK
  <2>2. (KeysKnown /\ StepsLeft /\ LeashTaken)'
    BY <1>6, <1>a, <1>b, SMTT(30) DEF Deliver, KeysKnown, LeashTaken, LocalTypes,
                                      Scopes, StepsLeft
  <2>3. (SeenApplied /\ RecordsTrue)'
    BY <1>6, <1>a, <1>b, SMTT(30) DEF Deliver, Applied, CommittedApplied, SeenApplied,
                                      LocalTypes, RecordsTrue, TargetsApart, WorldTypes,
                                      is_committed
  <2>. QED  BY <2>1, <2>2, <2>3 DEF LoopInv
<1>7. CASE Die(w)
  <2>1. TypeOK'
    BY <1>7, <1>a, <1>b, SMTT(30) DEF Die, Crash, EmptyState, Forget, RunTypeOK, Scopes,
                                      States, TypeOK
  <2>2. (KeysKnown /\ StepsLeft /\ LeashTaken)'
    BY <1>7, <1>a, <1>b, SMTT(30) DEF Die, Crash, Forget, KeysKnown, LeashTaken,
                                      LocalTypes, Scopes, StepsLeft
  <2>3. (SeenApplied /\ RecordsTrue)'
    BY <1>7, <1>a, <1>b, SMTT(30) DEF Die, Applied, CommittedApplied, Crash, Forget,
                                      SeenApplied, LocalTypes, RecordsTrue, TargetsApart,
                                      WorldTypes, is_committed
  <2>. QED  BY <2>1, <2>2, <2>3 DEF LoopInv
<1>. QED
  BY <1>1, <1>2, <1>3, <1>4, <1>5, <1>6, <1>7 DEF Outcome

\* A request of any run that gets through after it was given up.
LEMMA StragglerKeepsLoop ==
  ASSUME LoopInv, Straggles, UNCHANGED step
  PROVE  LoopInv'
<1>. USE DEF LoopInv, TypeOK, RunTypeOK, world, calls, state, leash
<1>1. PICK k \in late : Arrives(k)
  BY DEF Straggles
<1>2. k \in Keys /\ UNCHANGED <<calls, state, resume, leash, crashes, pending, committed, pc>>
  BY <1>1 DEF Straggles, Arrives
<1>3. /\ effects' \in [Keys -> 0..Many] /\ seen' \subseteq Keys /\ late' \subseteq Keys
      /\ \A d \in Destructive : Applied(d) => Applied(d)'
  <2>1. CASE Replayed(k)
    BY <1>1, <2>1 DEF Arrives, Applied
  <2>2. CASE ~Replayed(k)
    <3>1. /\ seen' = seen \cup {k} /\ late' = late \ {k}
          /\ effects' = IF k \in Destructive THEN [effects EXCEPT ![k] = Bump(@)] ELSE effects
      BY <1>1, <2>2 DEF Arrives, Executes, Apply
    <3>2. Bump(effects[k]) \in 1..Many
      BY <1>2 DEF Bump
    <3>3. CASE k \in Destructive
      BY <1>2, <3>1, <3>2, <3>3 DEF Applied
    <3>4. CASE k \notin Destructive
      BY <1>2, <3>1, <3>4 DEF Applied
    <3>. QED  BY <3>3, <3>4
  <2>. QED  BY <2>1, <2>2
<1>4. SeenApplied'
  BY <1>1, <1>2, SMTT(20) DEF Arrives, Executes, Replayed, Apply, Bump, SeenApplied, Applied
<1>5. TypeOK'
  BY <1>2, <1>3
<1>6. (KeysKnown /\ StepsLeft /\ LeashTaken)'
  BY <1>2 DEF KeysKnown, StepsLeft, LeashTaken
<1>7. RecordsTrue'
  BY <1>2, <1>3 DEF RecordsTrue, CommittedApplied, is_committed, TargetsApart
<1>. QED  BY <1>4, <1>5, <1>6, <1>7

LEMMA StepKeepsLoop == LoopInv /\ [Next]_vars => LoopInv'
<1>. SUFFICES ASSUME LoopInv, [Next]_vars PROVE LoopInv'
  OBVIOUS
<1>1. CASE UNCHANGED vars
  <2>1. UNCHANGED <<world, pc, calls, state, resume, leash, crashes, step>>
    BY <1>1 DEF vars, runVars
  <2>2. TypeOK'
    BY <2>1 DEF LoopInv, TypeOK, RunTypeOK, world, calls, state, leash
  <2>. QED
    BY <2>1, <2>2 DEF LoopInv, world, calls, state, leash, KeysKnown, StepsLeft, LeashTaken,
                      SeenApplied, RecordsTrue, CommittedApplied, Applied, is_committed,
                      TargetsApart
<1>2. CASE Straggles /\ UNCHANGED step
  BY <1>2, StragglerKeepsLoop
<1>3. ASSUME NEW w \in Workers, (Deliver(w) /\ UNCHANGED step) \/ Work(w) \/ Die(w)
      PROVE  LoopInv'
  <2>1. CASE Start(w) /\ UNCHANGED step
    BY <2>1, StartKeepsLoop
  <2>2. CASE Calls(w) /\ UNCHANGED step
    BY <2>2, ExecuteKeepsLoop DEF Calls
  <2>3. CASE Choice(w)
    BY <2>3, ChoiceKeepsLoop
  <2>4. CASE Outcome(w)
    BY <2>4, OutcomeKeepsLoop
  <2>. QED  BY <1>3, <2>1, <2>2, <2>3, <2>4 DEF Work, Choice, Outcome
<1>. QED  BY <1>1, <1>2, <1>3 DEF Next

LEMMA LoopInvariant == Spec => []LoopInv
BY InitialLoop, StepKeepsLoop, PTL DEF Spec

\* Every variable of the composed loop keeps its type: the budget is never overrun and no
\* call is retried more than MAX_RETRIES times.
THEOREM LoopTypeCorrect == Spec => []TypeOK
<1>1. LoopInv => TypeOK
  BY DEF LoopInv
<1>. QED  BY <1>1, LoopInvariant, PTL

\* "auto-leash": no destructive call is under way in a run whose brain has fallen back
\* too far or whose kill switch has tripped, however many runs there are.
THEOREM LeashHoldsAlways == Spec => []LeashHolds
<1>1. LoopInv => LeashHolds
  BY DEF LoopInv, LeashTaken, LeashHolds
<1>. QED  BY <1>1, LoopInvariant, PTL

\* Where no target is part of the text of another key, every COMMITTED line of a
\* destructive action tells of one that hit the world.
THEOREM CommittedAppliedHolds ==
  ASSUME TargetsApart
  PROVE  Spec => []CommittedApplied
<1>1. LoopInv => CommittedApplied
  BY DEF LoopInv, RecordsTrue
<1>. QED  BY <1>1, LoopInvariant, PTL

\* What has hit the world stays so.
LEMMA AppliedStays ==
  ASSUME LoopInv, [Next]_vars, NEW k \in Destructive, Applied(k)
  PROVE  Applied(k)'
<1>1. effects \in [Keys -> Nat] /\ k \in Keys
  BY DEF LoopInv, TypeOK, RunTypeOK
<1>2. ASSUME NEW d, Apply(d) PROVE Applied(k)'
  BY <1>1, <1>2 DEF Apply, Bump, Applied
<1>3. CASE UNCHANGED effects
  BY <1>3 DEF Applied
<1>4. CASE Straggles
  <2>1. PICK d \in late : Arrives(d)
    BY <1>4 DEF Straggles
  <2>2. Apply(d) \/ UNCHANGED effects
    BY <2>1 DEF Arrives, Executes
  <2>3. QED
    BY <2>2, <1>2, <1>3
<1>5. ASSUME NEW w \in Workers, Calls(w) PROVE Applied(k)'
  <2>1. Apply(key[w]) \/ UNCHANGED effects
    BY <1>5 DEF Calls, Execute, ExecuteDenied, ExecuteSkipped, PreToolBlocks, PreToolRaises,
                PreToolPasses, MockCall, CallLost, AnswerLost, CallRefused, CallSucceeds,
                CallReplayed, PostToolBlocks, ResultBlocked, Claim, Executes, world
  <2>2. QED
    BY <2>1, <1>2, <1>3
<1>6. ASSUME NEW w \in Workers, Start(w) \/ Choice(w) \/ Outcome(w) PROVE Applied(k)'
  <2>1. CASE Start(w)
    BY <2>1, <1>3 DEF Start, Load, ResumeSkips, ResumeReconciles, ReconcileApplied,
                      RecordReconciled, ReconcileNotApplied, world
  <2>2. CASE Choice(w)
    BY <2>2, <1>3 DEF Choice, Reason, Complete, ModelOutage, ModelRaises, BudgetSpent,
                      DeclareDone, SafeHold, ChooseRead, ChooseCommitted, ChooseDestructive, Checkpoint,
                      Forget, world
  <2>3. CASE Outcome(w)
    BY <2>3, <1>3 DEF Outcome, CommitExecuted, NoteOutcome, NoteBlock, CallRaises, Finish,
                      Deliver, Die, Crash, Forget, world
  <2>4. QED
    BY <1>6, <2>1, <2>2, <2>3
<1>7. CASE UNCHANGED vars
  BY <1>7, <1>3 DEF vars, runVars, world
<1>8. QED
  BY <1>4, <1>5, <1>6, <1>7 DEF Next, Work, Choice, Outcome

\* It is enough to look at what a step adds to the reports of one run and of the file.
LEMMA ReportsFollow ==
  ASSUME LoopInv, [Next]_vars, ReportedApplied, NEW w \in Workers,
         \A v \in Workers \ {w} : /\ pc'[v] = pc[v] /\ key'[v] = key[v]
                                  /\ ret'[v] = ret[v] /\ memory'[v] = memory[v],
         \A k \in Destructive :
           \/ k \in durable'.actions_committed
           \/ k \in memory'[w].actions_committed
           \/ /\ pc'[w] = "returned" /\ key'[w] = k
              /\ ret'[w] \in {"EXECUTED", "SKIPPED_IDEMPOTENT"}
           => Reported(k) \/ Applied(k)'
  PROVE  ReportedApplied'
<1>1. SUFFICES ASSUME NEW k \in Destructive, Reported(k)' PROVE Applied(k)'
  BY DEF ReportedApplied
<1>2. Reported(k) \/ Applied(k)'
  BY <1>1 DEF Reported
<1>3. QED
  BY <1>2, AppliedStays DEF ReportedApplied

\* The state file and a run are told of what has been applied only.
LEMMA ReportsKept ==
  ASSUME TargetsApart, LoopInv, LoopInv', [Next]_vars, ReportedApplied
  PROVE  ReportedApplied'
<1> USE DEF world, calls, state, leash, Goto, Return
<1>a. /\ LocalTypes /\ ret = [w \in Workers |-> ret[w]]
      /\ durable.actions_committed \in SUBSET Keys
  BY TypesOfParts DEF LoopInv, TypeOK, RunTypeOK, States
<1>b. /\ \A w \in Workers : pc[w] = "result" /\ key[w] \in Destructive => Applied(key[w])
      /\ \A k \in Destructive : is_committed(k) \/ k \in seen => Applied(k)
  BY DEF LoopInv, RecordsTrue, CommittedApplied, SeenApplied
<1>1. CASE UNCHANGED vars \/ Straggles
  <2>1. UNCHANGED <<durable, memory, pc, key, ret>>
    BY <1>1 DEF vars, runVars, Straggles, Arrives
  <2>2. \A k \in Destructive : Reported(k)' => Reported(k)
    BY <2>1 DEF Reported
  <2>3. QED
    BY <2>2, AppliedStays DEF ReportedApplied
<1>2. ASSUME NEW w \in Workers, Load(w) PROVE ReportedApplied'
  BY <1>2, <1>a, ReportsFollow DEF Load, LocalTypes, Reported
<1>3. ASSUME NEW w \in Workers, ReconcileApplied(w) PROVE ReportedApplied'
  <2>1. /\ pc'[w] = "record" /\ key'[w] = memory[w].pending
        /\ memory' = [memory EXCEPT ![w] =
              [pending |-> NoKey,
               actions_committed |-> memory[w].actions_committed \cup {memory[w].pending}]]
        /\ durable' = memory'[w] /\ UNCHANGED ret
        /\ \A v \in Workers \ {w} : pc'[v] = pc[v] /\ key'[v] = key[v]
    BY <1>3, <1>a DEF ReconcileApplied, StateCommit, LocalTypes
  <2>2. ASSUME NEW k \in Destructive, k = memory[w].pending PROVE Applied(k)'
    BY <2>1, <2>2 DEF LoopInv, RecordsTrue, TargetsApart, Applied
  <2>3. memory'[w].actions_committed = memory[w].actions_committed \cup {memory[w].pending}
    BY <2>1, <1>a DEF LocalTypes
  <2>4. \A k \in Destructive :
          k \in memory'[w].actions_committed => Reported(k) \/ Applied(k)'
    BY <2>2, <2>3 DEF Reported
  <2>5. \A v \in Workers \ {w} : ret'[v] = ret[v] /\ memory'[v] = memory[v]
    BY <2>1
  <2>6. QED
    BY <2>1, <2>4, <2>5, ReportsFollow
<1>4. ASSUME NEW w \in Workers, CommitExecuted(w) PROVE ReportedApplied'
  BY <1>4, <1>a, ReportsFollow DEF CommitExecuted, StateCommit, Continue, LocalTypes, Reported
<1>5. ASSUME NEW w \in Workers, ExecuteSkipped(w) \/ CallReplayed(w) \/ Claim(w),
             UNCHANGED state
      PROVE  ReportedApplied'
  <2>1. key[w] \in Destructive => Applied(key[w])
    BY <1>5, <1>b DEF ExecuteSkipped, CallReplayed, Claim, Replayed
  <2>2. /\ UNCHANGED <<effects, key, durable, memory>>
        /\ \A v \in Workers \ {w} : pc'[v] = pc[v] /\ ret'[v] = ret[v]
    BY <1>5, <1>a DEF ExecuteSkipped, CallReplayed, Claim, LocalTypes
  <2>3. key[w] \in Destructive => Applied(key[w])'
    BY <2>1, <2>2 DEF Applied
  <2>4. QED
    BY <2>2, <2>3, ReportsFollow DEF Reported
<1>6. ASSUME NEW w \in Workers, Forget(w) PROVE ReportedApplied'
  BY <1>6, <1>a, ReportsFollow DEF Forget, EmptyState, LocalTypes, Reported
<1>7. ASSUME NEW w \in Workers, UNCHANGED state,
             \A v \in Workers \ {w} : /\ pc'[v] = pc[v] /\ key'[v] = key[v]
                                      /\ ret'[v] = ret[v],
             pc'[w] # "returned" \/ ret'[w] \notin {"EXECUTED", "SKIPPED_IDEMPOTENT"}
      PROVE  ReportedApplied'
  BY <1>7, ReportsFollow DEF Reported
<1>8. ASSUME NEW w \in Workers, Start(w) PROVE ReportedApplied'
  <2>1. CASE ResumeSkips(w) \/ ResumeReconciles(w) \/ RecordReconciled(w) \/ ReconcileNotApplied(w)
    BY <2>1, <1>a, <1>7 DEF ResumeSkips, ResumeReconciles, RecordReconciled,
                            ReconcileNotApplied, LocalTypes
  <2>2. QED
    BY <1>8, <1>2, <1>3, <2>1 DEF Start
<1>9. ASSUME NEW w \in Workers, Calls(w) PROVE ReportedApplied'
  <2>1. CASE ExecuteDenied(w) \/ PreToolBlocks(w) \/ PreToolRaises(w) \/ PreToolPasses(w)
             \/ MockCall(w) \/ CallRefused(w) \/ CallSucceeds(w) \/ PostToolBlocks(w)
    BY <1>9, <2>1, <1>a, <1>7
       DEF Calls, ExecuteDenied, PreToolBlocks, PreToolRaises, PreToolPasses, MockCall,
           CallRefused, CallSucceeds, PostToolBlocks, ResultBlocked, LocalTypes
  <2>2. CASE CallLost(w) \/ AnswerLost(w)
    BY <1>9, <2>2, <1>a, <1>7 DEF Calls, CallLost, AnswerLost, RetryOrRaise, LocalTypes
  <2>3. QED
    BY <1>9, <1>5, <2>1, <2>2 DEF Calls, Execute
<1>10. ASSUME NEW w \in Workers, Choice(w) PROVE ReportedApplied'
  <2>1. CASE Complete(w) \/ ModelOutage(w) \/ BudgetSpent(w) \/ DeclareDone(w)
             \/ SafeHold(w) \/ ChooseRead(w) \/ ChooseCommitted(w)
             \/ \E k \in Destructive : ChooseDestructive(w, k)
    BY <2>1, <1>a, <1>7 DEF Complete, ModelOutage, BudgetSpent, DeclareDone, SafeHold,
                            ChooseRead, ChooseCommitted, ChooseDestructive, Continue,
                            LocalTypes
  <2>2. CASE Checkpoint(w)
    <3>1. /\ pc'[w] = "execute"
          /\ \A v \in Workers \ {w} : /\ pc'[v] = pc[v] /\ key'[v] = key[v]
                                      /\ ret'[v] = ret[v] /\ memory'[v] = memory[v]
      BY <2>2, <1>a DEF Checkpoint, SetPending, LocalTypes
    <3>2. durable' = memory'[w] /\ memory'[w] = [memory[w] EXCEPT !.pending = key[w]]
      BY <2>2, <1>a DEF Checkpoint, SetPending, LocalTypes
    <3>3. memory'[w].actions_committed = memory[w].actions_committed
      BY <3>2, <1>a DEF LocalTypes, States
    <3>4. QED
      BY <3>1, <3>2, <3>3, ReportsFollow DEF Reported
  <2>3. QED
    BY <1>10, <1>6, <2>1, <2>2 DEF Choice, Reason, ModelRaises
<1>11. ASSUME NEW w \in Workers, Outcome(w) PROVE ReportedApplied'
  <2>1. CASE NoteOutcome(w) \/ NoteBlock(w) \/ Deliver(w)
    BY <2>1, <1>a, <1>7 DEF NoteOutcome, NoteBlock, Deliver, Continue, LocalTypes
  <2>2. QED
    BY <1>11, <1>4, <1>6, <2>1 DEF Outcome, CallRaises, Finish, Die, Crash
<1>12. QED
  BY <1>1, <1>8, <1>9, <1>10, <1>11 DEF Next, Work, Choice, Outcome

\* Where no target is part of the text of another key, what any run is told is done, and
\* what any copy of the state lists as committed, has hit the world, whatever attempts
\* are lost, late or repeated and whichever runs die.
THEOREM ReportedAppliedHolds ==
  ASSUME TargetsApart
  PROVE  Spec => []ReportedApplied
<1>1. Init => ReportedApplied
  BY DEF Init, RunInit, EmptyState, ReportedApplied, Reported
<1>2. LoopInv /\ LoopInv' /\ ReportedApplied /\ [Next]_vars => ReportedApplied'
  BY ReportsKept
<1>3. QED
  BY <1>1, <1>2, LoopInvariant, PTL DEF Spec

-------------------------------------------------------------------------------
(* One run at a time, in mock mode *)

Unrecorded(k) == Applied(k) /\ ~is_committed(k)

\* Until it is recorded an action that hit the world is the pending one of the state
\* file, which every run that starts looks at first, or the one a run is about to record.
\* No other action is called meanwhile.
AloneInv(w) ==
  /\ late = {}
  /\ \A k \in Destructive : committed[k] <= effects[k] /\ effects[k] <= 1
  /\ pc[w] \notin {"idle", "load"} => memory[w] = durable
  /\ pc[w] = "load" => resume[w] = (durable.pending # NoKey)
  /\ pc[w] = "reconcile" => ~is_committed(durable.pending)
  /\ pc[w] \in {"execute", "call", "result"} /\ key[w] \in Destructive
       => durable.pending = key[w]
  /\ pc[w] = "call" => key[w] \in pending
  /\ pc[w] \in {"call", "result", "record"} /\ key[w] \in Destructive
       => ~is_committed(key[w])
  /\ pc[w] = "record" => Applied(key[w])
  /\ \A k \in Destructive : Unrecorded(k) =>
       \/ pc[w] \in {"idle", "load", "resume", "reconcile"} /\ durable.pending = k
       \/ pc[w] \in {"result", "record"} /\ key[w] = k

LEMMA InitialAlone ==
  ASSUME Init, NEW w \in Workers
  PROVE  AloneInv(w)
BY DEF Init, RunInit, EmptyState, AloneInv, Unrecorded, Applied, is_committed

\* A run that starts settles what is pending before anything else.
LEMMA StartKeepsAlone ==
  ASSUME NEW w, Workers = {w}, ~RealMode, ~WindowCrashes, LoopInv, AloneInv(w),
         Start(w), UNCHANGED step
  PROVE  AloneInv(w)'
<1>. USE DEF LoopInv, TypeOK, RunTypeOK, AloneInv, world, calls, state, leash, Goto, Return
<1>1. CASE Load(w)
  <2>1. CASE resume[w]
    BY <1>1, <2>1 DEF Load, Unrecorded, Applied, is_committed
  <2>2. CASE ~resume[w]
    <3>1. durable.pending = NoKey
      BY <1>1, <2>2 DEF Load
    <3>2. \A k \in Destructive : ~Unrecorded(k)
      BY <1>1, <3>1 DEF Load
    <3>. QED  BY <1>1, <2>2, <3>2 DEF Load, Unrecorded, Applied, is_committed
  <2>. QED  BY <2>1, <2>2
<1>2. CASE ResumeSkips(w)
  BY <1>2, SMTT(20) DEF ResumeSkips, States, Unrecorded, Applied, is_committed
<1>3. CASE ResumeReconciles(w)
  BY <1>3, SMTT(20) DEF ResumeReconciles, States, Unrecorded, Applied, is_committed
<1>4. CASE ReconcileApplied(w)
  <2>1. memory[w].pending = durable.pending /\ Applied(durable.pending)
    BY <1>4 DEF ReconcileApplied, SystemOfRecord, Applied
  <2>2. /\ durable.pending \in Keys
        /\ key'[w] = durable.pending /\ pc'[w] = "record" /\ memory'[w] = durable'
    BY <1>4, <2>1 DEF ReconcileApplied, KeysKnown, StateCommit
  <2>. QED
    BY <1>4, <2>1, <2>2 DEF ReconcileApplied, Unrecorded, Applied, is_committed
<1>5. CASE RecordReconciled(w)
  <2>1. /\ key[w] \in Keys /\ committed[key[w]] \in 0..Many
        /\ key[w] \in Destructive => effects[key[w]] = 1 /\ committed[key[w]] = 0
    BY <1>5 DEF RecordReconciled, KeysKnown, Applied, is_committed
  <2>2. /\ committed'[key[w]] = Bump(committed[key[w]])
        /\ \A k \in Keys : k # key[w] => committed'[k] = committed[k]
        /\ UNCHANGED effects
    BY <1>5, <2>1 DEF RecordReconciled, is_committed
  <2>3. Bump(committed[key[w]]) > 0 /\ Bump(0) = 1
    BY <2>1 DEF Bump
  <2>4. \A k \in Destructive : committed'[k] <= effects'[k] /\ effects'[k] <= 1
    BY <2>1, <2>2, <2>3
  <2>5. \A k \in Destructive : ~Unrecorded(k)'
    BY <1>5, <2>1, <2>2, <2>3 DEF RecordReconciled, Unrecorded, Applied, is_committed
  <2>. QED  BY <1>5, <2>1, <2>2, <2>4, <2>5 DEF RecordReconciled
<1>6. CASE ReconcileNotApplied(w)
  <2>1. memory[w].pending = durable.pending /\ ~Applied(durable.pending)
    BY <1>6 DEF ReconcileNotApplied, SystemOfRecord, Applied
  <2>2. \A k \in Destructive : ~Unrecorded(k)
    BY <1>6, <2>1 DEF ReconcileNotApplied, Unrecorded
  <2>. QED
    BY <1>6, <2>2 DEF ReconcileNotApplied, Unrecorded, Applied, is_committed
<1>. QED
  BY <1>1, <1>2, <1>3, <1>4, <1>5, <1>6 DEF Start

\* A governed call: the world first, its record after.
LEMMA ExecuteKeepsAlone ==
  ASSUME NEW w, Workers = {w}, ~RealMode, ~WindowCrashes, LoopInv, AloneInv(w),
         Execute(w), UNCHANGED <<state, resume, leash, crashes, step>>
  PROVE  AloneInv(w)'
<1>. USE DEF LoopInv, TypeOK, RunTypeOK, AloneInv, world, calls, state, leash, Goto, Return
<1>1. CASE ExecuteDenied(w)
  BY <1>1, SMTT(20) DEF ExecuteDenied, Denied, Unrecorded, Applied, is_committed
<1>2. CASE ExecuteSkipped(w)
  BY <1>2, SMTT(20) DEF ExecuteSkipped, Denied, Unrecorded, Applied, is_committed
<1>3. CASE PreToolBlocks(w)
  BY <1>3, SMTT(20) DEF PreToolBlocks, Denied, Unrecorded, Applied, is_committed
<1>4. CASE PreToolRaises(w)
  BY <1>4, SMTT(20) DEF PreToolRaises, Denied, Unrecorded, Applied, is_committed
<1>5. CASE PreToolPasses(w)
  BY <1>5, SMTT(20) DEF PreToolPasses, Denied, Unrecorded, Applied, is_committed
<1>6. CASE MockCall(w)
  BY <1>6, SMTT(20) DEF MockCall, Apply, Bump, KeysKnown, Unrecorded, Applied,
                        is_committed
<1>7. CASE PostToolBlocks(w)
  BY <1>7, SMTT(20) DEF PostToolBlocks, ResultBlocked, Unrecorded, Applied, is_committed
<1>8. CASE Claim(w)
  <2>1. CASE is_committed(key[w])
    BY <1>8, <2>1 DEF Claim, Unrecorded, Applied, is_committed
  <2>2. CASE ~is_committed(key[w])
    <3>1. /\ key[w] \in Keys /\ committed[key[w]] \in 0..Many
          /\ key[w] \in Destructive => effects[key[w]] = 1 /\ committed[key[w]] = 0
      BY <1>8, <2>2 DEF Claim, KeysKnown, RecordsTrue, Applied, is_committed
    <3>2. /\ committed'[key[w]] = Bump(committed[key[w]])
          /\ \A k \in Keys : k # key[w] => committed'[k] = committed[k]
          /\ UNCHANGED effects
      BY <1>8, <2>2, <3>1 DEF Claim, is_committed
    <3>3. Bump(committed[key[w]]) > 0 /\ Bump(0) = 1
      BY <3>1 DEF Bump
    <3>4. \A k \in Destructive : committed'[k] <= effects'[k] /\ effects'[k] <= 1
      BY <3>1, <3>2, <3>3
    <3>5. \A k \in Destructive : ~Unrecorded(k)'
      BY <1>8, <2>2, <3>1, <3>2, <3>3 DEF Claim, Unrecorded, Applied, is_committed
    <3>. QED  BY <1>8, <2>2, <3>1, <3>2, <3>4, <3>5 DEF Claim
  <2>. QED  BY <2>1, <2>2
<1>. QED
  BY <1>1, <1>2, <1>3, <1>4, <1>5, <1>6, <1>7, <1>8 DEF Execute, CallLost, AnswerLost,
     CallRefused, CallSucceeds, CallReplayed

\* Nothing is unrecorded when the model chooses, so the slot may be given to its choice.
LEMMA ChoiceKeepsAlone ==
  ASSUME NEW w, Workers = {w}, ~RealMode, ~WindowCrashes, LoopInv, AloneInv(w),
         Choice(w)
  PROVE  AloneInv(w)'
<1>. USE DEF LoopInv, TypeOK, RunTypeOK, AloneInv, world, calls, state, leash, Goto, Return
<1>1. CASE Complete(w)
  BY <1>1, SMTT(20) DEF Complete, Unrecorded, Applied, is_committed
<1>2. CASE ModelOutage(w)
  BY <1>2, SMTT(20) DEF ModelOutage, Unrecorded, Applied, is_committed
<1>3. CASE BudgetSpent(w)
  BY <1>3, SMTT(20) DEF BudgetSpent, Unrecorded, Applied, is_committed
<1>4. CASE DeclareDone(w)
  BY <1>4, SMTT(20) DEF DeclareDone, Unrecorded, Applied, is_committed
<1>5. CASE SafeHold(w)
  BY <1>5, SMTT(20) DEF SafeHold, Continue, Unrecorded, Applied, is_committed
<1>6. CASE ChooseRead(w)
  <2>1. ReadKey[step[w]] \in Keys \ Destructive
    BY <1>6 DEF ChooseRead, StepsLeft
  <2>2. key'[w] \notin Destructive /\ pc'[w] = "execute"
    BY <1>6, <2>1 DEF ChooseRead
  <2>. QED
    BY <1>6, <2>2 DEF ChooseRead, Unrecorded, Applied, is_committed
<1>7. CASE ChooseCommitted(w)
  BY <1>7, SMTT(20) DEF ChooseCommitted, Continue, Unrecorded, Applied, is_committed
<1>8. ASSUME NEW k \in Destructive, ChooseDestructive(w, k) PROVE AloneInv(w)'
  BY <1>8, SMTT(20) DEF ChooseDestructive, Unrecorded, Applied, is_committed
<1>9. CASE Checkpoint(w)
  BY <1>9, SMTT(20) DEF Checkpoint, AllowedScope, SetPending, KeysKnown, Unrecorded,
                        Applied, is_committed
<1>. QED
  BY <1>1, <1>2, <1>3, <1>4, <1>5, <1>6, <1>7, <1>8, <1>9 DEF Choice, Reason, ModelRaises

\* A run that ends or dies leaves what is unrecorded pending.
LEMMA OutcomeKeepsAlone ==
  ASSUME NEW w, Workers = {w}, ~RealMode, ~WindowCrashes, LoopInv, AloneInv(w),
         Outcome(w)
  PROVE  AloneInv(w)'
<1>. USE DEF LoopInv, TypeOK, RunTypeOK, AloneInv, world, calls, state, leash, Goto, Return
<1>1. CASE CommitExecuted(w)
  BY <1>1, SMTT(20) DEF CommitExecuted, Continue, StateCommit, KeysKnown, Unrecorded,
                        Applied, is_committed
<1>2. CASE NoteOutcome(w)
  BY <1>2, SMTT(20) DEF NoteOutcome, Continue, Unrecorded, Applied, is_committed
<1>3. CASE NoteBlock(w)
  BY <1>3, SMTT(20) DEF NoteBlock, Continue, KillSwitch, Unrecorded, Applied,
                        is_committed
<1>4. CASE CallRaises(w)
  BY <1>4, SMTT(20) DEF CallRaises, Forget, Unrecorded, Applied, is_committed
<1>5. CASE Finish(w)
  BY <1>5, SMTT(20) DEF Finish, Forget, Unrecorded, Applied, is_committed
<1>6. CASE Deliver(w) /\ UNCHANGED step
  BY <1>6, SMTT(20) DEF Deliver, States, Unrecorded, Applied, is_committed
<1>7. CASE Die(w)
  BY <1>7, SMTT(20) DEF Die, Crash, Forget, Unrecorded, Applied, is_committed
<1>. QED
  BY <1>1, <1>2, <1>3, <1>4, <1>5, <1>6, <1>7 DEF Outcome

\* The three steps that Mitigation sees, and the write-ahead order of the first.
LEMMA CallAdvances ==
  ASSUME NEW w, Workers = {w}, ~RealMode, LoopInv, AloneInv(w), MockCall(w)
  PROVE  /\ Mitigations!Next \/ UNCHANGED Progress
         /\ \A k \in Destructive :
              effects'[k] # effects[k] => durable.pending = k /\ k \in pending
<1>1. /\ pc[w] = "call" /\ key[w] \in Keys /\ UNCHANGED committed
      /\ effects \in [Keys -> 0..Many] /\ committed \in [Keys -> 0..Many]
      /\ effects' = IF key[w] \in Destructive THEN [effects EXCEPT ![key[w]] = Bump(@)]
                                           ELSE effects
  BY DEF MockCall, Apply, LoopInv, KeysKnown, TypeOK, RunTypeOK
<1>2. CASE key[w] \notin Destructive
  BY <1>1, <1>2 DEF Progress
<1>3. CASE key[w] \in Destructive
  <2>1. effects[key[w]] = 0 /\ committed[key[w]] = 0
    BY <1>1, <1>3 DEF AloneInv, Unrecorded, Applied, is_committed
  <2>2. effects' = [effects EXCEPT ![key[w]] = 1]
    <3>1. Bump(0) = 1
      BY DEF Bump
    <3>. QED  BY <1>1, <1>3, <2>1, <3>1
  <2>3. Progress[key[w]] = "none" /\ Progress' = [Progress EXCEPT ![key[w]] = "applied"]
    <3>1. /\ effects'[key[w]] = 1 /\ committed'[key[w]] = 0
          /\ \A k \in Destructive \ {key[w]} :
               effects'[k] = effects[k] /\ committed'[k] = committed[k]
      BY <1>1, <2>1, <2>2
    <3>2. Progress'[key[w]] = "applied" /\ Progress[key[w]] = "none"
      BY <1>3, <2>1, <3>1 DEF Progress
    <3>3. \A k \in Destructive \ {key[w]} : Progress'[k] = Progress[k]
      BY <3>1 DEF Progress
    <3>. QED  BY <1>3, <3>2, <3>3 DEF Progress
  <2>4. Mitigations!Next
    BY <1>3, <2>3 DEF Mitigations!Next, Mitigations!Apply
  <2>. QED
    BY <1>1, <1>3, <2>2, <2>4 DEF AloneInv
<1>. QED  BY <1>2, <1>3

LEMMA RecordAdvances ==
  ASSUME NEW w, Workers = {w}, LoopInv, AloneInv(w),
         pc[w] \in {"result", "record"}, ~is_committed(key[w]),
         committed' = [committed EXCEPT ![key[w]] = Bump(@)], UNCHANGED effects
  PROVE  Mitigations!Next \/ UNCHANGED Progress
<1>1. /\ key[w] \in Keys
      /\ effects \in [Keys -> 0..Many] /\ committed \in [Keys -> 0..Many]
  BY DEF LoopInv, KeysKnown, TypeOK, RunTypeOK
<1>2. CASE key[w] \notin Destructive
  BY <1>1, <1>2 DEF Progress
<1>3. CASE key[w] \in Destructive
  <2>1. effects[key[w]] = 1 /\ committed[key[w]] = 0
    BY <1>1, <1>3 DEF LoopInv, RecordsTrue, AloneInv, Applied, is_committed
  <2>2. committed' = [committed EXCEPT ![key[w]] = 1]
    <3>1. Bump(0) = 1
      BY DEF Bump
    <3>. QED  BY <2>1, <3>1
  <2>3. Progress[key[w]] = "applied" /\ Progress' = [Progress EXCEPT ![key[w]] = "recorded"]
    <3>1. /\ effects'[key[w]] = 1 /\ committed'[key[w]] = 1
          /\ \A k \in Destructive \ {key[w]} :
               effects'[k] = effects[k] /\ committed'[k] = committed[k]
      BY <1>1, <2>1, <2>2
    <3>2. Progress'[key[w]] = "recorded" /\ Progress[key[w]] = "applied"
      BY <1>3, <2>1, <3>1 DEF Progress
    <3>3. \A k \in Destructive \ {key[w]} : Progress'[k] = Progress[k]
      BY <3>1 DEF Progress
    <3>. QED  BY <1>3, <3>2, <3>3 DEF Progress
  <2>. QED
    BY <1>3, <2>3 DEF Mitigations!Next, Mitigations!Record
<1>. QED  BY <1>2, <1>3

\* Every other step leaves the world and its record alone.
LEMMA OthersStandStill ==
  ASSUME NEW w \in Workers, ~RealMode, late = {}, [Next]_vars, Workers = {w},
         ~MockCall(w), ~Claim(w), ~RecordReconciled(w)
  PROVE  UNCHANGED <<effects, committed>>
<1>1. CASE UNCHANGED vars
  BY <1>1 DEF vars, runVars, world
<1>2. CASE Start(w)
  BY <1>2 DEF Start, Load, ResumeSkips, ResumeReconciles, ReconcileApplied,
              ReconcileNotApplied, world
<1>3. CASE Calls(w)
  BY <1>3 DEF Calls, Execute, ExecuteDenied, ExecuteSkipped, PreToolBlocks, PreToolRaises,
              PreToolPasses, CallLost, AnswerLost, CallRefused, CallSucceeds, CallReplayed,
              PostToolBlocks, ResultBlocked, world
<1>4. CASE Choice(w)
  BY <1>4 DEF Choice, Reason, Complete, ModelOutage, ModelRaises, BudgetSpent, DeclareDone,
              SafeHold, ChooseRead, ChooseCommitted, ChooseDestructive, Checkpoint, Forget, world
<1>5. CASE Outcome(w)
  BY <1>5 DEF Outcome, CommitExecuted, NoteOutcome, NoteBlock, CallRaises, Finish, Deliver,
              Die, Crash, Forget, world
<1>. QED
  BY <1>1, <1>2, <1>3, <1>4, <1>5 DEF Next, Straggles, Work, Choice, Outcome

LEMMA StepKeepsAlone ==
  ASSUME NEW w, Workers = {w}, ~RealMode, ~WindowCrashes, LoopInv, AloneInv(w), [Next]_vars
  PROVE  AloneInv(w)'
<1>1. CASE UNCHANGED vars
  BY <1>1 DEF vars, runVars, world, calls, state, leash, AloneInv, Unrecorded, Applied,
              is_committed
<1>2. CASE Start(w) /\ UNCHANGED step
  BY <1>2, StartKeepsAlone
<1>3. CASE Calls(w) /\ UNCHANGED step
  BY <1>3, ExecuteKeepsAlone DEF Calls
<1>4. CASE Choice(w)
  BY <1>4, ChoiceKeepsAlone
<1>5. CASE Outcome(w)
  BY <1>5, OutcomeKeepsAlone
<1>. QED
  BY <1>1, <1>2, <1>3, <1>4, <1>5 DEF Next, Straggles, Work, Choice, Outcome, AloneInv

LEMMA StepAdvances ==
  ASSUME NEW w, Workers = {w}, ~RealMode, LoopInv, AloneInv(w), [Next]_vars
  PROVE  /\ Mitigations!Next \/ UNCHANGED Progress
         /\ \A k \in Destructive :
              effects'[k] # effects[k] => durable.pending = k /\ k \in pending
<1>1. CASE MockCall(w)
  BY <1>1, CallAdvances
<1>2. CASE RecordReconciled(w)
  <2>1. ~is_committed(key[w]) \/ key[w] \notin Destructive
    BY <1>2 DEF RecordReconciled, AloneInv
  <2>2. key[w] \in Keys
    BY <1>2 DEF RecordReconciled, LoopInv, KeysKnown
  <2>3. CASE key[w] \notin Destructive
    BY <1>2, <2>2, <2>3 DEF RecordReconciled, Progress, LoopInv, TypeOK, RunTypeOK
  <2>4. CASE ~is_committed(key[w])
    BY <1>2, <2>4, RecordAdvances DEF RecordReconciled
  <2>. QED  BY <1>2, <2>1, <2>3, <2>4 DEF RecordReconciled
<1>3. CASE Claim(w)
  <2>1. CASE is_committed(key[w])
    BY <1>3, <2>1 DEF Claim, Progress
  <2>2. CASE ~is_committed(key[w])
    BY <1>3, <2>2, RecordAdvances DEF Claim
  <2>. QED  BY <1>3, <2>1, <2>2 DEF Claim
<1>4. CASE ~MockCall(w) /\ ~RecordReconciled(w) /\ ~Claim(w)
  BY <1>4, OthersStandStill DEF AloneInv, Progress
<1>. QED  BY <1>1, <1>2, <1>3, <1>4

LEMMA AloneInvariant ==
  ASSUME NEW w, Workers = {w}, ~RealMode, ~WindowCrashes
  PROVE  Spec => [](LoopInv /\ AloneInv(w))
<1>1. Init => AloneInv(w)
  BY InitialAlone
<1>2. LoopInv /\ AloneInv(w) /\ [Next]_vars => AloneInv(w)'
  BY StepKeepsAlone
<1>. QED  BY <1>1, <1>2, LoopInvariant, PTL DEF Spec

\* "Survives provider death and resumes exactly-once": a commander that runs alone, and
\* dies any number of times but not between the two writes of a reconciliation, applies
\* every destructive action at most once, and then records it once.
THEOREM ExactlyOnceAlone ==
  ASSUME NEW w, Workers = {w}, ~RealMode, ~WindowCrashes
  PROVE  Spec => ExactlyOnce
<1>1. Init => Mitigations!Init
  BY DEF Init, RunInit, Mitigations!Init, Progress
<1>2. LoopInv /\ AloneInv(w) /\ [Next]_vars => [Mitigations!Next]_Progress
  BY StepAdvances
<1>. QED
  BY <1>1, <1>2, AloneInvariant, PTL DEF Spec, ExactlyOnce, Mitigations!Spec

\* "checkpoint BEFORE execute": nothing hits the world before the state file and the
\* audit log name it.
THEOREM WriteAheadAlone ==
  ASSUME NEW w, Workers = {w}, ~RealMode, ~WindowCrashes
  PROVE  Spec => WriteAhead
<1>1. LoopInv /\ AloneInv(w) /\ [Next]_vars =>
        [\A k \in Destructive :
           effects'[k] # effects[k] => durable.pending = k /\ k \in pending]_runVars
  BY StepAdvances
<1>. QED
  BY <1>1, AloneInvariant, PTL DEF Spec, WriteAhead

\* The single pending slot is never given to another action too early: what hit the world
\* and is not recorded is pending, or being recorded.
THEOREM RecoverableAlone ==
  ASSUME NEW w, Workers = {w}, ~RealMode, ~WindowCrashes
  PROVE  Spec => []Recoverable
<1>1. LoopInv /\ AloneInv(w) => Recoverable
  BY DEF AloneInv, Unrecorded, Recoverable
<1>. QED
  BY <1>1, AloneInvariant, PTL

-------------------------------------------------------------------------------
(* The loop driven by texts *)

USE KeysAssumption

\* The call of a is destructive; the control points of a call, up to its result.
Destroys(a) == REGISTRY[a.tool].destructive
Calling == {"checkpoint", "execute", "call", "result"}

\* What a run is calling: a known tool, a destructive one under the key of its target
\* and with its arguments, and past the validator once it is under way.
CallKept(w) ==
  LET a == action[w]
  IN  /\ a = Action(a.tool, a.args, a.done)
      /\ a.tool \in DOMAIN REGISTRY \cup {None}
      /\ pc[w] \in Calling =>
           /\ a.tool \in DOMAIN REGISTRY
           /\ Destroys(a) => /\ key[w] \in Destructive /\ key[w] = KeyOf(a)
                             /\ validate_args(a.tool, a.args) /\ a.args # None
           /\ ~Destroys(a) => key[w] \notin Destructive
      /\ pc[w] = "call" /\ Destroys(a) => pre_tool_validate(a.tool, a.args) = "pass"

\* What hit the world was such a call.
AppliedKept ==
  \A k \in Destructive :
    /\ Applied(k) <=> applied[k] # None
    /\ Applied(k) => SafeCall(k, applied[k])

DecisionInv ==
  /\ DOMAIN action = Workers
  /\ \A w \in Workers : CallKept(w)
  /\ AppliedKept

\* Of the tools the validators know by name, those on metrics and logs, and the posting
\* of a status, destroy nothing.
LEMMA KnownTools ==
  /\ {"cw_get_metrics", "logs_query", "statuspage_post"} \subseteq DOMAIN REGISTRY
  /\ \A tool \in {"cw_get_metrics", "logs_query", "statuspage_post"} :
       ~REGISTRY[tool].destructive
  /\ "asg_scale" \in DOMAIN REGISTRY
  /\ "replicas" \in REGISTRY["asg_scale"].required
BY DEF REGISTRY, Tool

\* A text yields an action; one with a tool has arguments.
LEMMA DecisionsAreActions ==
  ASSUME NEW a \in Decisions
  PROVE  /\ a = Action(a.tool, a.args, a.done)
         /\ a.tool # None => a.args # None
BY DEF Decisions, parse_action, Action, Hold

\* What the validator passes is a call that may hit the world under its key.
LEMMA PassedIsSafe ==
  ASSUME NEW tool \in DOMAIN REGISTRY, NEW args,
         validate_args(tool, args), pre_tool_validate(tool, args) = "pass"
  PROVE  SafeCall(<<tool, idempotency_target(tool, args)>>, args)
<1>1. CASE tool = "asg_scale"
  <2>1. "replicas" \in DOMAIN args
    BY <1>1, KnownTools DEF validate_args
  <2>2. Counts(args["replicas"]) => ~(args["replicas"].num < MIN_REPLICA_FLOOR)
    <3>1. ScaleVerdict(args) = "pass"
      BY <1>1 DEF pre_tool_validate
    <3>2. Get(args, "replicas", Int(0, "0")) = args["replicas"]
      BY <2>1 DEF Get
    <3>. QED
      BY <3>1, <3>2 DEF ScaleVerdict, Counts
  <2>. QED
    BY <1>1, <2>2 DEF SafeCall, validate_args
<1>2. CASE tool = "k8s_cordon_drain"
  <2>1. ASSUME InCriticalNamespace(args)
        PROVE  "elevation" \in DOMAIN args /\ Truthy(args["elevation"])
    <3>1. Get(args, "namespace", Str("")) = args["namespace"]
      BY <2>1 DEF InCriticalNamespace, Get
    <3>2. Truthy(Get(args, "elevation", Other("null")))
      BY <1>2, <2>1, <3>1 DEF pre_tool_validate, DrainVerdict, InCriticalNamespace
    <3>3. ~Truthy(Other("null"))
      BY DEF Truthy, Other, Sized
    <3>. QED
      BY <3>2, <3>3 DEF Get
  <2>. QED
    BY <1>2, <2>1 DEF SafeCall, validate_args
<1>3. CASE tool \notin {"asg_scale", "k8s_cordon_drain"}
  BY <1>3 DEF SafeCall, validate_args
<1>. QED
  BY <1>1, <1>2, <1>3

LEMMA InitialDecision == DecisionInit => DecisionInv
<1>. SUFFICES ASSUME DecisionInit PROVE DecisionInv
  OBVIOUS
<1>1. ASSUME NEW w \in Workers PROVE CallKept(w)
  BY DEF DecisionInit, Init, RunInit, CallKept, Hold, Action, Calling
<1>2. AppliedKept
  BY DEF DecisionInit, Init, RunInit, AppliedKept, Applied
<1>. QED
  BY <1>1, <1>2 DEF DecisionInit, DecisionInv

\* A step of a run is not a step of another.
Alone(w) ==
  /\ DOMAIN action' = Workers
  /\ \A v \in Workers \ {w} :
       pc'[v] = pc[v] /\ key'[v] = key[v] /\ action'[v] = action[v]

\* A step at whose end the run has no call under way, and that leaves the world alone.
Quiet(w) ==
  /\ pc'[w] \notin Calling
  /\ action'[w] \in {action[w], Hold}
  /\ UNCHANGED <<effects, applied>>

LEMMA QuietKeeps ==
  ASSUME DecisionInv, NEW w \in Workers, Alone(w), Quiet(w)
  PROVE  DecisionInv'
<1>1. ASSUME NEW v \in Workers PROVE CallKept(v)'
  <2>1. CASE v # w
    BY <1>1, <2>1 DEF DecisionInv, Alone, CallKept
  <2>2. CASE v = w /\ action'[w] = action[w]
    BY <2>2 DEF DecisionInv, Quiet, CallKept, Calling
  <2>3. CASE v = w /\ action'[w] = Hold
    BY <2>3 DEF Quiet, CallKept, Calling, Hold, Action
  <2>. QED
    BY <2>1, <2>2, <2>3 DEF Quiet
<1>2. AppliedKept'
  BY DEF DecisionInv, Quiet, AppliedKept, Applied
<1>. QED
  BY <1>1, <1>2 DEF DecisionInv, Alone

\* The steps of a run outside its call, and those that end one.
Apart(w) ==
  \/ Start(w) /\ UNCHANGED <<step, action, applied>>
  \/ (Reason(w) \/ BudgetSpent(w)) /\ UNCHANGED <<action, applied>>
  \/ (DeclareDone(w) \/ SafeHold(w) \/ ChooseCommitted(w)) /\ UNCHANGED <<action, applied>>
  \/ (CommitExecuted(w) \/ NoteOutcome(w) \/ NoteBlock(w) \/ CallRaises(w)) /\ Drop(w)
  \/ Finish(w) /\ Drop(w)
  \/ Deliver(w) /\ UNCHANGED <<step, action, applied>>
  \/ Die(w) /\ Drop(w)
  \/ (ExecuteDenied(w) \/ ExecuteSkipped(w)) /\ UNCHANGED <<action, applied>>
  \/ (PreToolBlocks(w) \/ PreToolRaises(w)) /\ UNCHANGED <<action, applied>>
  \/ (ResultBlocked(w) \/ Claim(w)) /\ UNCHANGED <<action, applied>>

LEMMA ApartKeeps ==
  ASSUME LoopInv, DecisionInv, NEW w \in Workers, Apart(w)
  PROVE  DecisionInv'
<1>a. LocalTypes /\ DOMAIN action = Workers
  BY TypesOfParts DEF LoopInv, DecisionInv
<1>. USE DEF LocalTypes, Alone, Quiet, Calling, Goto, Return, world, calls, Drop
<1>1. CASE Start(w) /\ UNCHANGED <<step, action, applied>>
  <2>1. Alone(w) /\ Quiet(w)
    BY <1>1, <1>a DEF Start, Load, ResumeSkips, ResumeReconciles, ReconcileApplied,
                      RecordReconciled, ReconcileNotApplied
  <2>. QED  BY <2>1, QuietKeeps
<1>2. CASE (Reason(w) \/ BudgetSpent(w)) /\ UNCHANGED <<action, applied>>
  <2>1. Alone(w) /\ Quiet(w)
    BY <1>2, <1>a DEF Reason, Complete, ModelOutage, ModelRaises, BudgetSpent, Forget
  <2>. QED  BY <2>1, QuietKeeps
<1>3. CASE /\ DeclareDone(w) \/ SafeHold(w) \/ ChooseCommitted(w)
           /\ UNCHANGED <<action, applied>>
  <2>1. Alone(w) /\ Quiet(w)
    BY <1>3, <1>a DEF DeclareDone, SafeHold, ChooseCommitted, Continue
  <2>. QED  BY <2>1, QuietKeeps
<1>4. CASE /\ CommitExecuted(w) \/ NoteOutcome(w) \/ NoteBlock(w) \/ CallRaises(w)
           /\ Drop(w)
  <2>1. Alone(w) /\ Quiet(w)
    BY <1>4, <1>a DEF CommitExecuted, NoteOutcome, NoteBlock, CallRaises, Continue, Forget
  <2>. QED  BY <2>1, QuietKeeps
<1>5. CASE (Finish(w) \/ Die(w)) /\ Drop(w)
  <2>1. Alone(w) /\ Quiet(w)
    BY <1>5, <1>a DEF Finish, Die, Crash, Forget
  <2>. QED  BY <2>1, QuietKeeps
<1>6. CASE Deliver(w) /\ UNCHANGED <<step, action, applied>>
  <2>1. Alone(w) /\ Quiet(w)
    BY <1>6, <1>a DEF Deliver
  <2>. QED  BY <2>1, QuietKeeps
<1>7. CASE /\ \/ ExecuteDenied(w) \/ ExecuteSkipped(w) \/ PreToolBlocks(w)
              \/ PreToolRaises(w) \/ ResultBlocked(w) \/ Claim(w)
           /\ UNCHANGED <<action, applied>>
  <2>1. Alone(w) /\ Quiet(w)
    BY <1>7, <1>a DEF ExecuteDenied, ExecuteSkipped, PreToolBlocks, PreToolRaises,
                      ResultBlocked, Claim
  <2>. QED  BY <2>1, QuietKeeps
<1>. QED
  BY <1>1, <1>2, <1>3, <1>4, <1>5, <1>6, <1>7 DEF Apart

\* The call of a text is that of a known tool, with the arguments it requires.
LEMMA ChooseKeeps ==
  ASSUME LoopInv, DecisionInv, NEW w \in Workers, NEW a \in Decisions,
         ~a.done, Valid(a), Choose(w, a), UNCHANGED applied
  PROVE  DecisionInv'
<1>a. /\ LocalTypes /\ DOMAIN action = Workers /\ AppliedKept
      /\ \A v \in Workers : CallKept(v)
  BY TypesOfParts DEF LoopInv, DecisionInv
<1>b. /\ a = Action(a.tool, a.args, a.done) /\ a.args # None
      /\ a.tool \in DOMAIN REGISTRY
  BY DecisionsAreActions, KeysAssumption DEF Valid
<1>1. /\ Alone(w) /\ UNCHANGED <<effects, applied>>
      /\ action'[w] = a /\ pc'[w] \in {"checkpoint", "execute"}
      /\ IF Destroys(a) THEN key'[w] = KeyOf(a) ELSE key'[w] = ReadKey[step[w]]
  BY <1>a DEF LocalTypes, Alone, Choose, Destroys, ChooseDestructive, ChooseRead, Goto,
              AllowedScope, world, calls
<1>2. CallKept(w)'
  <2>1. CASE Destroys(a)
    BY <1>1, <1>b, <2>1, KeysAssumption DEF CallKept, Destroys, Valid, KeyOf, Calling
  <2>2. CASE ~Destroys(a)
    <3>1. pc[w] = "decide"
      BY <2>2 DEF Choose, Destroys, ChooseRead
    <3>2. ReadKey[step[w]] \in Keys \ Destructive
      BY <1>a, <3>1 DEF LoopInv, StepsLeft, LocalTypes
    <3>. QED  BY <1>1, <1>b, <2>2, <3>2 DEF CallKept, Destroys, Calling
  <2>. QED  BY <2>1, <2>2
<1>3. ASSUME NEW v \in Workers \ {w} PROVE CallKept(v)'
  BY <1>a, <1>1 DEF Alone, CallKept
<1>4. AppliedKept'
  BY <1>a, <1>1 DEF AppliedKept, Applied
<1>. QED
  BY <1>1, <1>2, <1>3, <1>4 DEF DecisionInv, Alone

\* Under way, the call keeps its key and, if it is destructive, its arguments.
LEMMA UnderWayKeeps ==
  ASSUME LoopInv, DecisionInv, NEW w \in Workers,
         \/ Checkpoint(w) /\ UNCHANGED <<action, applied>>
         \/ /\ pre_tool_validate(action[w].tool, action[w].args) = "pass"
            /\ PreToolPasses(w) /\ UNCHANGED applied
            /\ action' = [action EXCEPT ![w].args = Redacted(action[w].tool, action[w].args)]
  PROVE  DecisionInv'
<1>. DEFINE a == action[w]
<1>a. /\ LocalTypes /\ DOMAIN action = Workers /\ AppliedKept
      /\ \A v \in Workers : CallKept(v)
  BY TypesOfParts DEF LoopInv, DecisionInv
<1>1. /\ Alone(w) /\ UNCHANGED <<effects, applied>>
      /\ pc[w] \in Calling /\ pc'[w] \in Calling /\ key'[w] = key[w]
      /\ pc'[w] = "call" => pre_tool_validate(a.tool, a.args) = "pass"
  BY <1>a DEF LocalTypes, Alone, Checkpoint, PreToolPasses, AllowedScope, Goto, Calling,
              world, calls
<1>2. /\ action'[w] = Action(a.tool, action'[w].args, a.done)
      /\ Destroys(a) => action'[w].args = a.args
  <2>1. a = Action(a.tool, a.args, a.done) /\ a.tool \in DOMAIN REGISTRY
    BY <1>a, <1>1 DEF CallKept
  <2>2. CASE UNCHANGED action
    BY <2>1, <2>2
  <2>3. CASE action' = [action EXCEPT ![w].args = Redacted(a.tool, a.args)]
    <3>1. action'[w] = Action(a.tool, Redacted(a.tool, a.args), a.done)
      BY <1>a, <2>1, <2>3 DEF Action
    <3>2. Destroys(a) => Redacted(a.tool, a.args) = a.args
      BY KnownTools DEF Destroys, Redacted
    <3>. QED  BY <3>1, <3>2 DEF Action
  <2>. QED  BY <2>2, <2>3
<1>3. CallKept(w)'
  <2>1. action'[w].tool = a.tool
    BY <1>2 DEF Action
  <2>2. CallKept(w)
    BY <1>a
  <2>. QED
    BY <1>1, <1>2, <2>1, <2>2 DEF CallKept, Destroys, KeyOf, Action
<1>4. ASSUME NEW v \in Workers \ {w} PROVE CallKept(v)'
  BY <1>a, <1>1 DEF Alone, CallKept
<1>5. AppliedKept'
  BY <1>a, <1>1 DEF AppliedKept, Applied
<1>. QED
  BY <1>1, <1>3, <1>4, <1>5 DEF DecisionInv, Alone

\* What hits the world is a call that the validator has passed, under its own key.
LEMMA ActKeeps ==
  ASSUME LoopInv, DecisionInv, NEW w \in Workers, Act(w)
  PROVE  DecisionInv'
<1>. DEFINE a == action[w]
<1>a. /\ LocalTypes /\ DOMAIN action = Workers /\ AppliedKept
      /\ \A v \in Workers : CallKept(v)
      /\ effects \in [Keys -> 0..Many]
  BY TypesOfParts DEF LoopInv, DecisionInv, TypeOK, RunTypeOK
<1>1. /\ Alone(w) /\ pc[w] = "call" /\ pc'[w] = "result" /\ UNCHANGED <<key, action>>
      /\ effects' = IF key[w] \in Destructive THEN [effects EXCEPT ![key[w]] = Bump(@)]
                                           ELSE effects
      /\ applied' = [k \in Destructive |-> IF k = key[w] THEN a.args ELSE applied[k]]
  BY <1>a DEF LocalTypes, Alone, Act, MockCall, Apply, Goto, calls
<1>2. ASSUME NEW v \in Workers PROVE CallKept(v)'
  BY <1>a, <1>1 DEF Alone, CallKept, Calling
<1>3. AppliedKept'
  <2>1. ASSUME NEW k \in Destructive, k # key[w]
        PROVE  effects'[k] = effects[k] /\ applied'[k] = applied[k]
    BY <1>a, <1>1, <2>1, GatewayAssumption
  <2>2. ASSUME key[w] \in Destructive
        PROVE  Applied(key[w])' /\ applied'[key[w]] # None /\ SafeCall(key[w], applied'[key[w]])
    <3>1. applied'[key[w]] = a.args
      BY <1>1, <2>2
    <3>2. /\ a.tool \in DOMAIN REGISTRY /\ Destroys(a) /\ key[w] = KeyOf(a)
          /\ validate_args(a.tool, a.args) /\ a.args # None
          /\ pre_tool_validate(a.tool, a.args) = "pass"
      BY <1>a, <1>1, <2>2 DEF CallKept, Calling
    <3>3. SafeCall(key[w], a.args)
      BY <3>2, PassedIsSafe DEF KeyOf
    <3>4. effects'[key[w]] > 0
      BY <1>a, <1>1, <2>2, GatewayAssumption DEF Bump
    <3>5. Applied(key[w])'
      BY <1>1, <3>4 DEF Applied
    <3>. QED  BY <3>1, <3>2, <3>3, <3>5
  <2>. QED
    BY <1>a, <1>1, <2>1, <2>2 DEF AppliedKept, Applied
<1>. QED
  BY <1>1, <1>2, <1>3 DEF DecisionInv, Alone

\* Whatever the texts, the steps that follow from them are steps of the agentic loop: a
\* post-tool block, in particular, is never that of a destructive result.
LEMMA DecisionIsLoopStep ==
  ASSUME DecisionInv, [DecisionNext]_decisionVars
  PROVE  [Next]_vars
<1>1. CASE UNCHANGED decisionVars
  BY <1>1 DEF decisionVars
<1>2. ASSUME NEW w \in Workers, Decide(w) PROVE Work(w)
  <2>1. PICK a \in Decisions :
          \/ DeclareDone(w) \/ SafeHold(w) \/ ChooseCommitted(w)
          \/ ~a.done /\ Valid(a) /\ Choose(w, a)
    BY <1>2 DEF Decide
  <2>2. CASE ~a.done /\ Valid(a) /\ Choose(w, a)
    BY <2>2, KeysAssumption DEF Choose, Work
  <2>. QED  BY <2>1, <2>2 DEF Work
<1>3. ASSUME NEW w \in Workers, Govern(w) PROVE Calls(w) /\ UNCHANGED step
  <2>1. PreTool(w) => Execute(w)
    BY DEF PreTool, Execute
  <2>2. PostTool(w) => Execute(w)
    <3>1. ASSUME NEW raw, NEW corrupt,
                 post_tool_blocks(action[w].tool, raw, corrupt), ResultBlocked(w)
          PROVE  PostToolBlocks(w)
      <4>1. ~Destroys(action[w])
        BY <3>1, KnownTools DEF post_tool_blocks, Destroys
      <4>2. pc[w] = "result"
        BY <3>1 DEF ResultBlocked
      <4>. QED  BY <3>1, <4>1, <4>2 DEF DecisionInv, CallKept, Calling, PostToolBlocks
    <3>. QED  BY <3>1 DEF PostTool, Execute
  <2>. QED
    BY <1>3, <2>1, <2>2 DEF Govern, Act, Execute, Calls
<1>4. ASSUME NEW w \in Workers, DecisionWork(w) PROVE Work(w)
  BY <1>2, <1>3, <1>4 DEF DecisionWork, Work
<1>. QED
  BY <1>1, <1>4 DEF DecisionNext, Next

LEMMA StepKeepsDecision ==
  ASSUME LoopInv, DecisionInv, [DecisionNext]_decisionVars
  PROVE  DecisionInv'
<1>1. CASE UNCHANGED decisionVars
  BY <1>1 DEF decisionVars, vars, runVars, world, calls, DecisionInv, CallKept, AppliedKept,
              Applied
<1>2. ASSUME NEW w \in Workers, Decide(w) PROVE DecisionInv'
  <2>1. PICK a \in Decisions :
          \/ Apart(w)
          \/ ~a.done /\ Valid(a) /\ Choose(w, a) /\ UNCHANGED applied
    BY <1>2 DEF Decide, Apart
  <2>. QED  BY <2>1, ApartKeeps, ChooseKeeps
<1>3. ASSUME NEW w \in Workers, Govern(w) PROVE DecisionInv'
  <2>1. CASE (ExecuteDenied(w) \/ ExecuteSkipped(w)) /\ UNCHANGED <<action, applied>>
    BY <2>1, ApartKeeps DEF Apart
  <2>2. CASE PreTool(w) /\ UNCHANGED applied
    BY <2>2, ApartKeeps, UnderWayKeeps DEF PreTool, Apart
  <2>3. CASE Act(w)
    BY <2>3, ActKeeps
  <2>4. CASE PostTool(w) /\ UNCHANGED <<action, applied>>
    BY <2>4, ApartKeeps DEF PostTool, Apart
  <2>. QED  BY <1>3, <2>1, <2>2, <2>3, <2>4 DEF Govern
<1>4. ASSUME NEW w \in Workers,
             \/ Deliver(w) /\ UNCHANGED <<step, action, applied>>
             \/ DecisionWork(w)
             \/ Die(w) /\ Drop(w)
      PROVE  DecisionInv'
  BY <1>2, <1>3, <1>4, ApartKeeps, UnderWayKeeps DEF DecisionWork, Apart
<1>. QED
  BY <1>1, <1>4 DEF DecisionNext

LEMMA DecisionInvariant == DecisionSpec => Spec /\ [](LoopInv /\ DecisionInv)
<1>1. DecisionInit => LoopInv /\ DecisionInv
  BY InitialLoop, InitialDecision DEF DecisionInit
<1>2. LoopInv /\ DecisionInv /\ [DecisionNext]_decisionVars => (LoopInv /\ DecisionInv)'
  BY DecisionIsLoopStep, StepKeepsDecision, StepKeepsLoop
<1>3. DecisionInit => Init
  BY DEF DecisionInit
<1>4. LoopInv /\ DecisionInv /\ [DecisionNext]_decisionVars => [Next]_vars
  BY DecisionIsLoopStep
<1>. QED
  BY <1>1, <1>2, <1>3, <1>4, PTL DEF DecisionSpec, Spec

\* The loop driven by texts implements the one whose calls and guardrail verdicts come
\* from nowhere: what is proved of AgenticLoop holds of it, behind any parser and validator.
THEOREM DecisionImplementsLoop == DecisionSpec => Spec
BY DecisionInvariant, PTL

\* The types; and a destructive key has arguments on record once it has hit the world.
THEOREM DecisionTypeCorrect == DecisionSpec => []DecisionTypeOK
<1>1. LoopInv /\ DecisionInv => DecisionTypeOK
  BY DEF LoopInv, DecisionInv, CallKept, AppliedKept, DecisionTypeOK
<1>. QED  BY <1>1, DecisionInvariant, PTL

\* "block-scale-to-zero", "prod-drain-needs-elevation": whatever the model answers, no
\* scaling below the floor and no drain of a critical namespace without an elevation hits
\* the world, and what hits it as k is what k names.
THEOREM SafelyAppliedHolds == DecisionSpec => []SafelyApplied
<1>1. DecisionInv => SafelyApplied
  BY DEF DecisionInv, AppliedKept, SafelyApplied
<1>. QED  BY <1>1, DecisionInvariant, PTL

\* A commander that runs alone keeps its promises whatever texts drive it.
THEOREM DecisionPromisesAlone ==
  ASSUME NEW w, Workers = {w}, ~RealMode, ~WindowCrashes
  PROVE  DecisionSpec => ExactlyOnce /\ WriteAhead /\ []Recoverable
BY DecisionInvariant, ExactlyOnceAlone, WriteAheadAlone, RecoverableAlone, PTL
===============================================================================
