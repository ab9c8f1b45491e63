------------------------------ MODULE MCPGateway ------------------------------
(***************************************************************************)
(* MCPGateway.execute: the governed path of every tool call.  Scope check, *)
(* audit fast path, pre-tool guardrail, PENDING record, the call itself    *)
(* (in-process in mock mode; over HTTP with retries in real mode),         *)
(* post-tool guardrail, claim_commit.                                      *)
(*                                                                         *)
(* A worker is one thread inside a commander run; all workers here work on *)
(* one incident and share its audit log and the world.  The commander's    *)
(* own steps are in IncidentRun, AgenticLoop and ScriptedRun, which extend *)
(* this module: they set pc[w] to "execute" to call, and find pc[w] at     *)
(* "returned" with the outcome in ret[w].                                  *)
(*                                                                         *)
(* claim_commit is one step here: FileBackend shows that it is.            *)
(***************************************************************************)
EXTENDS Naturals, FiniteSets

CONSTANTS
  Workers,        \* concurrent runs on the incident, each restarted at will
  Keys,           \* idempotency keys of the tool calls a run can make
  Destructive,    \* those of config.DESTRUCTIVE_TOOLS
  Guarded,        \* those pre_tool_validate may refuse or choke on (asg.scale,
                  \* cordon_drain), by arguments that only DecisionLoop models
  RealMode,       \* config.is_real()
  GatewayDedups,  \* external: the gateway honours Idempotency-Key
  MAX_RETRIES,    \* realmode_mcp._MAX_RETRIES
  Many            \* bound of the model: counts saturate here ("Many or more")

ASSUME GatewayAssumption ==
  /\ Destructive \subseteq Keys
  /\ Guarded \subseteq Destructive
  /\ RealMode \in BOOLEAN
  /\ GatewayDedups \in BOOLEAN
  /\ MAX_RETRIES \in Nat
  /\ Many \in Nat /\ Many > 1

VARIABLES
  pending,    \* the keys with a PENDING line in the audit log
  committed,  \* committed[k]: the number of COMMITTED lines of k
  effects,    \* effects[k]: how often the side effect of k hit the world
  seen,       \* external: the keys the gateway has executed
  late,       \* external: the keys of requests given up on that are still under way
  pc,         \* pc[w]: where worker w stands
  key,        \* key[w]: the idempotency key of its current call
  scope,      \* scope[w]: the allowed_scope argument of that call
  ret,        \* ret[w]: the ToolResult or the exception of its last call
  tries,      \* tries[w]: attempts already made over HTTP
  blocks      \* blocks[w]: MCPGateway.guardrail_blocks of its run

world == <<pending, committed, effects, seen, late>>
calls == <<key, scope, ret, tries, blocks>>

Scopes == {"FULL_SCOPE", "READ_ONLY"}
Outcomes == {"EXECUTED", "SKIPPED_IDEMPOTENT", "ScopeDenied", "GuardrailBlock",
             "TypeError", "MCPGatewayError"}

\* A count that has reached Many stays there.
Bump(n) == IF n < Many THEN n + 1 ELSE n

is_committed(k) == committed[k] > 0

Goto(w, label) == pc' = [pc EXCEPT ![w] = label]

Return(w, outcome) ==
  /\ ret' = [ret EXCEPT ![w] = outcome]
  /\ Goto(w, "returned")

-------------------------------------------------------------------------------
(* Before the call *)

Denied(w) == key[w] \in Destructive /\ scope[w] = "READ_ONLY"

\* Cedar default-deny: a destructive verb out of scope is audited and refused.
ExecuteDenied(w) ==
  /\ pc[w] = "execute"
  /\ Denied(w)
  /\ Return(w, "ScopeDenied")
  /\ UNCHANGED <<world, key, scope, tries, blocks>>

\* if self.audit.is_committed(key): the side effect is skipped.
ExecuteSkipped(w) ==
  /\ pc[w] = "execute"
  /\ ~Denied(w)
  /\ is_committed(key[w])
  /\ Return(w, "SKIPPED_IDEMPOTENT")
  /\ UNCHANGED <<world, key, scope, tries, blocks>>

\* _pre_tool raises: the call is counted, and neither audited nor made.
PreToolBlocks(w) ==
  /\ pc[w] = "execute"
  /\ ~Denied(w)
  /\ ~is_committed(key[w])
  /\ key[w] \in Guarded
  /\ blocks' = [blocks EXCEPT ![w] = @ + 1]
  /\ Return(w, "GuardrailBlock")
  /\ UNCHANGED <<world, key, scope, tries>>

\* pre_tool_validate compares or hashes an argument that cannot be: the TypeError is no
\* GuardrailBlock, so it is neither counted nor caught here.
PreToolRaises(w) ==
  /\ pc[w] = "execute"
  /\ ~Denied(w)
  /\ ~is_committed(key[w])
  /\ key[w] \in Guarded
  /\ Return(w, "TypeError")
  /\ UNCHANGED <<world, key, scope, tries, blocks>>

\* A build that records PENDING once the result is there, with the commit.
PreToolPassesSilently(w) ==
  /\ pc[w] = "execute"
  /\ ~Denied(w)
  /\ ~is_committed(key[w])
  /\ tries' = [tries EXCEPT ![w] = 0]
  /\ Goto(w, "call")
  /\ UNCHANGED <<world, key, scope, ret, blocks>>

PreToolPasses(w) ==
  /\ pc[w] = "execute"
  /\ ~Denied(w)
  /\ ~is_committed(key[w])
  /\ pending' = pending \cup {key[w]}
  /\ tries' = [tries EXCEPT ![w] = 0]
  /\ Goto(w, "call")
  /\ UNCHANGED <<committed, effects, seen, late, key, scope, ret, blocks>>

-------------------------------------------------------------------------------
(* The call *)

Apply(k) ==
  effects' = IF k \in Destructive THEN [effects EXCEPT ![k] = Bump(@)] ELSE effects

\* _execute_mock: self.world.<verb>(...).  A KillSignal right after it is a Crash.
MockCall(w) ==
  /\ ~RealMode
  /\ pc[w] = "call"
  /\ Apply(key[w])
  /\ Goto(w, "result")
  /\ UNCHANGED <<pending, committed, seen, late, calls>>

\* A build that takes the silence after its last attempt for a replay.
RetryOrSkip(w) ==
  IF tries[w] < MAX_RETRIES
  THEN /\ tries' = [tries EXCEPT ![w] = @ + 1]
       /\ UNCHANGED <<pc, ret>>
  ELSE /\ Return(w, "SKIPPED_IDEMPOTENT")
       /\ UNCHANGED tries

\* Both transports of realmode_mcp: a timeout, a refused connection or a retryable
\* status either tries again or, after the last attempt, raises MCPGatewayError.
RetryOrRaise(w) ==
  IF tries[w] < MAX_RETRIES
  THEN /\ tries' = [tries EXCEPT ![w] = @ + 1]
       /\ UNCHANGED <<pc, ret>>
  ELSE /\ Return(w, "MCPGatewayError")
       /\ UNCHANGED tries

\* The gateway knows the key.
Replayed(k) == GatewayDedups /\ k \in seen

\* The gateway executes the request.
Executes(k) ==
  /\ Apply(k)
  /\ seen' = seen \cup {k}

\* The client does not wait for the request any longer, or it was throttled or failed
\* upstream; in the first case it may still be under way.
CallLost(w) ==
  /\ RealMode
  /\ pc[w] = "call"
  /\ late' \in {late, late \cup {key[w]}}
  /\ RetryOrRaise(w)
  /\ UNCHANGED <<pending, committed, effects, seen, key, scope, blocks>>

\* A request nobody waits for gets through after all.
Arrives(k) ==
  /\ k \in late
  /\ late' = late \ {k}
  /\ IF Replayed(k) THEN UNCHANGED <<effects, seen>> ELSE Executes(k)
  /\ UNCHANGED <<pending, committed, pc, calls>>

\* The request executed and its answer was lost: the client cannot tell.
AnswerLost(w) ==
  /\ RealMode
  /\ pc[w] = "call"
  /\ ~Replayed(key[w])
  /\ Executes(key[w])
  /\ RetryOrRaise(w)
  /\ UNCHANGED <<pending, committed, late, key, scope, blocks>>

\* A non-retryable status: refused upstream, nothing executed.
CallRefused(w) ==
  /\ RealMode
  /\ pc[w] = "call"
  /\ Return(w, "MCPGatewayError")
  /\ UNCHANGED <<world, key, scope, tries, blocks>>

CallSucceeds(w) ==
  /\ RealMode
  /\ pc[w] = "call"
  /\ ~Replayed(key[w])
  /\ Executes(key[w])
  /\ Goto(w, "result")
  /\ UNCHANGED <<pending, committed, late, calls>>

\* 409 or idempotent_replay: audited as skipped, and not claimed.
CallReplayed(w) ==
  /\ RealMode
  /\ pc[w] = "call"
  /\ Replayed(key[w])
  /\ Return(w, "SKIPPED_IDEMPOTENT")
  /\ UNCHANGED <<world, key, scope, tries, blocks>>

-------------------------------------------------------------------------------
(* After the call *)

\* _post_tool raises: the call has been made, and is neither claimed nor told.
ResultBlocked(w) ==
  /\ pc[w] = "result"
  /\ blocks' = [blocks EXCEPT ![w] = @ + 1]
  /\ Return(w, "GuardrailBlock")
  /\ UNCHANGED <<world, key, scope, tries>>

\* It inspects metrics and log payloads only: a destructive result passes.
PostToolBlocks(w) == key[w] \notin Destructive /\ ResultBlocked(w)

\* claim_commit: one caller per key wins, every other folds into SKIPPED.
Claim(w) ==
  /\ pc[w] = "result"
  /\ \/ /\ ~is_committed(key[w])
        /\ committed' = [committed EXCEPT ![key[w]] = Bump(@)]
        /\ Return(w, "EXECUTED")
     \/ /\ is_committed(key[w])
        /\ UNCHANGED committed
        /\ Return(w, "SKIPPED_IDEMPOTENT")
  /\ UNCHANGED <<pending, effects, seen, late, key, scope, tries, blocks>>

Execute(w) ==
  \/ ExecuteDenied(w) \/ ExecuteSkipped(w)
  \/ PreToolBlocks(w) \/ PreToolRaises(w) \/ PreToolPasses(w)
  \/ MockCall(w)
  \/ CallLost(w) \/ AnswerLost(w) \/ CallRefused(w) \/ CallSucceeds(w) \/ CallReplayed(w)
  \/ PostToolBlocks(w) \/ Claim(w)
===============================================================================
