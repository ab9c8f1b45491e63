------------------------------ MODULE DecisionLoop ------------------------------
(***************************************************************************)
(* The loop of AgenticLoop with what the model really writes: a text is    *)
(* parsed, its call looked up in the registry and keyed by its target, and *)
(* the arguments decide what the validators of the gateway do with it.     *)
(* The steps are those of AgenticLoop and MCPGateway; what there happens   *)
(* at random follows here from a text.                                     *)
(***************************************************************************)
EXTENDS AgenticLoop, Guardrails

CONSTANT Texts   \* what the model may answer

\* comp.text, parsed.
Decisions == {parse_action(text) : text \in Texts}

\* action_key(incident_id, action.tool, target)
KeyOf(a) == <<a.tool, idempotency_target(a.tool, a.args)>>

Valid(a) == a.tool \in DOMAIN REGISTRY /\ validate_args(a.tool, a.args)

\* Destructive holds the keys of the destructive calls that the texts ask for.
ASSUME KeysAssumption ==
  /\ None \notin DOMAIN REGISTRY
  /\ \A k \in Destructive : k[1] \in DOMAIN REGISTRY /\ REGISTRY[k[1]].destructive
  /\ \A a \in Decisions :
       ~a.done /\ Valid(a) /\ REGISTRY[a.tool].destructive => KeyOf(a) \in Destructive

VARIABLES
  action,   \* action[w]: the Action whose call is under way
  applied   \* history: applied[k]: the arguments with which key k last hit the world

decisionVars == <<vars, action, applied>>

DecisionTypeOK ==
  /\ TypeOK
  /\ \A w \in Workers : action[w].tool \in DOMAIN REGISTRY \cup {None}
  /\ \A k \in Destructive : Applied(k) <=> applied[k] # None

DecisionInit ==
  /\ Init
  /\ action = [w \in Workers |-> Hold]
  /\ applied = [k \in Destructive |-> None]

-------------------------------------------------------------------------------
(* One step of the loop *)

\* The call of a is chosen: checkpointed next, if it is destructive.
Choose(w, a) ==
  /\ action' = [action EXCEPT ![w] = a]
  /\ IF REGISTRY[a.tool].destructive THEN ChooseDestructive(w, KeyOf(a)) ELSE ChooseRead(w)

Skips(a) == REGISTRY[a.tool].destructive /\ is_committed(KeyOf(a))

\* A call that is neither declared done, nor held back, nor already committed is made.
Decide(w) ==
  \E a \in Decisions :
    /\ \/ a.done /\ DeclareDone(w) /\ UNCHANGED action
       \/ ~a.done /\ ~Valid(a) /\ SafeHold(w) /\ UNCHANGED action
       \/ ~a.done /\ Valid(a) /\ Skips(a) /\ ChooseCommitted(w) /\ UNCHANGED action
       \/ ~a.done /\ Valid(a) /\ ~Skips(a) /\ Choose(w, a)
    /\ UNCHANGED applied

\* _pre_tool, and the payload it has redacted in place.
PreTool(w) ==
  LET a == action[w]
      verdict == pre_tool_validate(a.tool, a.args)
  IN  \/ verdict = "block" /\ PreToolBlocks(w) /\ UNCHANGED action
      \/ verdict = "raise" /\ PreToolRaises(w) /\ UNCHANGED action
      \/ /\ verdict = "pass"
         /\ PreToolPasses(w)
         /\ action' = [action EXCEPT ![w].args = Redacted(a.tool, a.args)]

\* self.world.<verb>(args...)
Act(w) ==
  /\ MockCall(w)
  /\ applied' = [k \in Destructive |-> IF k = key[w] THEN action[w].args ELSE applied[k]]
  /\ UNCHANGED action

\* raw is args["_returns"], whatever the model put there; corrupt is up to the chaos.
PostTool(w) ==
  \E blocked \in {post_tool_blocks(action[w].tool, raw, corrupt) :
                     raw \in Payloads, corrupt \in BOOLEAN} :
    IF blocked THEN ResultBlocked(w) ELSE Claim(w)

Govern(w) ==
  /\ \/ (ExecuteDenied(w) \/ ExecuteSkipped(w)) /\ UNCHANGED <<action, applied>>
     \/ PreTool(w) /\ UNCHANGED applied
     \/ Act(w)
     \/ PostTool(w) /\ UNCHANGED <<action, applied>>
  /\ UNCHANGED <<state, resume, leash, crashes, step>>

\* The locals of a run and of an iteration are gone with it.
Drop(w) == action' = [action EXCEPT ![w] = Hold] /\ UNCHANGED applied

DecisionWork(w) ==
  \/ Start(w) /\ UNCHANGED <<step, action, applied>>
  \/ (Reason(w) \/ BudgetSpent(w)) /\ UNCHANGED <<action, applied>>
  \/ Decide(w)
  \/ Checkpoint(w) /\ UNCHANGED <<action, applied>>
  \/ Govern(w)
  \/ (CommitExecuted(w) \/ NoteOutcome(w) \/ NoteBlock(w) \/ CallRaises(w)) /\ Drop(w)
  \/ Finish(w) /\ Drop(w)

DecisionNext ==
  \E w \in Workers :
    \/ Deliver(w) /\ UNCHANGED <<step, action, applied>>
    \/ DecisionWork(w)
    \/ Die(w) /\ Drop(w)

DecisionSpec ==
  /\ DecisionInit /\ [][DecisionNext]_decisionVars
  /\ \A w \in Workers :
       /\ WF_decisionVars(DecisionWork(w))
       /\ WF_decisionVars(Deliver(w) /\ UNCHANGED <<step, action, applied>>)
-------------------------------------------------------------------------------
(* Properties *)

InCriticalNamespace(args) ==
  /\ "namespace" \in DOMAIN args
  /\ args["namespace"].type = "str"
  /\ args["namespace"].text \in PROD_CRITICAL_NAMESPACES

\* A call that may hit the world as k: the one k names, with all the arguments it
\* requires, not below the floor, and elevated where that is asked for.
SafeCall(k, args) ==
  /\ REGISTRY[k[1]].required \subseteq DOMAIN args
  /\ idempotency_target(k[1], args) = k[2]
  /\ k[1] = "asg_scale" /\ Counts(args["replicas"])
       => ~(args["replicas"].num < MIN_REPLICA_FLOOR)
  /\ k[1] = "k8s_cordon_drain" /\ InCriticalNamespace(args)
       => "elevation" \in DOMAIN args /\ Truthy(args["elevation"])

\* "block-scale-to-zero", "prod-drain-needs-elevation": whatever the model writes, and
\* whatever dies on the way, what hit the world is a call that may.
SafelyApplied == \A k \in Destructive : Applied(k) => SafeCall(k, applied[k])
===============================================================================
