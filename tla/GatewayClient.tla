------------------------------ MODULE GatewayClient ------------------------------
(***************************************************************************)
(* realmode_mcp.call_tool over its two transports, the requests it leaves  *)
(* under way when it gives up on an answer, the gateway that recognises    *)
(* their Idempotency-Key (external), the tool server behind it, and        *)
(* RealWorld's live query, which is a call like any other.                 *)
(*                                                                         *)
(* A caller is one call_tool: of the commander, of its redelivery, or of   *)
(* the reconciliation in between, in any order and at once.                *)
(***************************************************************************)
EXTENDS SafeTools, FiniteSets

CONSTANTS
  Callers,
  Keys,          \* the <<tool, target>> pairs of the actions
  NoKey,
  MAX_RETRIES    \* _MAX_RETRIES

ASSUME ClientAssumption ==
  /\ NoKey \notin Keys
  /\ MAX_RETRIES \in Nat
  /\ Keys \subseteq
       {"github_revert_pr", "k8s_cordon_drain", "asg_scale", "statuspage_post"} \X STRING

VARIABLES
  settings,   \* TFY_MCP_TRANSPORT, the shape of the gateway URL, fastmcp installed
  phase,      \* phase[c]: "idle", "send", "wait" or "done"
  key,        \* key[c]: the action c is about
  want,       \* want[c]: to have it done ("call") or to look ("query")
  attempt,    \* attempt[c]: the attempts c has behind it
  answer,     \* answer[c]: the answer on its way to c
  outcome,    \* outcome[c]: what call_tool, or the query, returned or raised
  inflight,   \* the requests on their way to the gateway
  seen,       \* external: the Idempotency-Keys the gateway has executed
  runs        \* history: runs[k]: how often the action of k has run

client == <<phase, key, want, attempt, answer, outcome>>
vars == <<settings, client, inflight, seen, runs, serverVars>>

Transports == {"auto", "rest", "mcp"}
Wants == {"call", "query"}

\* What an answer says, as far as the client tells answers apart.
NoAnswer == [says |-> "nothing", dict |-> FALSE, body |-> NoKey]
Answers == {"ok", "409", "replay", "retryable", "refused"}
Outcomes == {"EXECUTED", "SKIPPED_IDEMPOTENT", "MCPGatewayError", "APPLIED", "NOT_APPLIED"}

Requests ==
  [caller : Callers, key : Keys, want : Wants, attempt : 0..MAX_RETRIES]

TypeOK ==
  /\ settings \in [transport : Transports, url_is_mcp : BOOLEAN, fastmcp : BOOLEAN]
  /\ phase \in [Callers -> {"idle", "send", "wait", "done"}]
  /\ key \in [Callers -> Keys \cup {NoKey}]
  /\ want \in [Callers -> Wants]
  /\ attempt \in [Callers -> 0..MAX_RETRIES]
  /\ \A c \in Callers : answer[c].says \in Answers \cup {"nothing"}
  /\ outcome \in [Callers -> Outcomes \cup {"none"}]
  /\ inflight \subseteq Requests
  /\ runs \in [Keys -> Nat]

Init ==
  /\ settings \in [transport : Transports, url_is_mcp : BOOLEAN, fastmcp : BOOLEAN]
  /\ phase = [c \in Callers |-> "idle"]
  /\ key = [c \in Callers |-> NoKey]
  /\ want = [c \in Callers |-> "call"]
  /\ attempt = [c \in Callers |-> 0]
  /\ answer = [c \in Callers |-> NoAnswer]
  /\ outcome = [c \in Callers |-> "none"]
  /\ inflight = {}
  /\ seen = {}
  /\ runs = [k \in Keys |-> 0]
  /\ ServerInit

selected_transport ==
  IF settings.transport # "auto" THEN settings.transport
  ELSE IF settings.url_is_mcp THEN "mcp" ELSE "rest"

-------------------------------------------------------------------------------
(* The client *)

CallTool(c, k) ==
  /\ phase[c] = "idle"
  /\ phase' = [phase EXCEPT ![c] = "send"]
  /\ key' = [key EXCEPT ![c] = k]
  /\ want' = [want EXCEPT ![c] = "call"]
  /\ UNCHANGED <<settings, attempt, answer, outcome, inflight, seen, runs, serverVars>>

\* RealWorld.is_reverted and is_cordoned, when neither memory nor the audit log knows.
LiveQuery(c, k) ==
  /\ phase[c] = "idle"
  /\ Visible(k)
  /\ phase' = [phase EXCEPT ![c] = "send"]
  /\ key' = [key EXCEPT ![c] = k]
  /\ want' = [want EXCEPT ![c] = "query"]
  /\ UNCHANGED <<settings, attempt, answer, outcome, inflight, seen, runs, serverVars>>

\* A build that makes a key for every attempt.
KeyPerAttempt(r) == <<r.key, r.attempt>>

\* The Idempotency-Key header, and x-deadman-idempotency-key: one for all attempts.
IdempotencyKey(r) == r.key

Request(c) ==
  [caller |-> c, key |-> key[c], want |-> want[c], attempt |-> attempt[c]]

\* An attempt leaves the client: the package of the transport is there.
Send(c) ==
  /\ phase[c] = "send"
  /\ selected_transport = "mcp" => settings.fastmcp
  /\ inflight' = inflight \cup {Request(c)}
  /\ phase' = [phase EXCEPT ![c] = "wait"]
  /\ UNCHANGED <<settings, key, want, attempt, answer, outcome, seen, runs, serverVars>>

\* call_tool returns or raises; _live_query takes any exception for "not applied".
End(c, result) ==
  /\ outcome' = [outcome EXCEPT ![c] = IF want[c] = "call" THEN result ELSE "NOT_APPLIED"]
  /\ phase' = [phase EXCEPT ![c] = "done"]
  /\ answer' = [answer EXCEPT ![c] = NoAnswer]
  /\ UNCHANGED attempt

\* A build that tries again for as long as there is no answer.
RetryForGood(c) ==
  /\ phase' = [phase EXCEPT ![c] = "send"]
  /\ answer' = [answer EXCEPT ![c] = NoAnswer]
  /\ UNCHANGED <<attempt, outcome>>

\* A build whose loop counts one attempt too many.
RetryOnceMore(c) ==
  IF attempt[c] <= MAX_RETRIES
  THEN /\ attempt' = [attempt EXCEPT ![c] = @ + 1]
       /\ phase' = [phase EXCEPT ![c] = "send"]
       /\ answer' = [answer EXCEPT ![c] = NoAnswer]
       /\ UNCHANGED outcome
  ELSE End(c, "MCPGatewayError")

\* continue, or the MCPGatewayError after the last attempt.
Retry(c) ==
  IF attempt[c] < MAX_RETRIES
  THEN /\ attempt' = [attempt EXCEPT ![c] = @ + 1]
       /\ phase' = [phase EXCEPT ![c] = "send"]
       /\ answer' = [answer EXCEPT ![c] = NoAnswer]
       /\ UNCHANGED outcome
  ELSE End(c, "MCPGatewayError")

\* No connection, or no fastmcp: an exception without a response, like a lost answer.
Unsent(c) ==
  /\ phase[c] = "send"
  /\ Retry(c)
  /\ UNCHANGED <<settings, key, want, inflight, seen, runs, serverVars>>

\* The client waits no longer; the request or its answer may still be under way.  Over
\* REST it does so after 30 seconds; over MCP the code sets no limit, and a connection
\* may break or never do.
TimeOut(c) ==
  /\ phase[c] = "wait"
  /\ Retry(c)
  /\ UNCHANGED <<settings, key, want, inflight, seen, runs, serverVars>>

\* _run_coro in a thread of its own ends without a result or an error: call_tool returns
\* None, which its caller trips over.
RunCoroEmpty(c) ==
  /\ phase[c] = "wait"
  /\ selected_transport = "mcp"
  /\ End(c, "MCPGatewayError")
  /\ UNCHANGED <<settings, key, want, inflight, seen, runs, serverVars>>

\* 409, or a body, if it is a dict, that says so.
Idempotent(a) == a.says = "409" \/ (a.says = "replay" /\ a.dict)

\* body["reverted"] is True, body["state"] or body["cordoned"]; a body that is no dict
\* is inconclusive.
Confirms(c, a) ==
  /\ a.dict
  /\ IF key[c][1] = "github_revert_pr"
     THEN a.body.reverted \/ a.body.state \in {"reverted", "rolled_back"}
     ELSE a.body.cordoned \/ a.body.unschedulable

ReceiveAnswer(c) ==
  /\ phase[c] = "wait"
  /\ answer[c].says \in {"ok", "409", "replay"}
  /\ outcome' = [outcome EXCEPT ![c] =
       IF want[c] = "call"
       THEN IF Idempotent(answer[c]) THEN "SKIPPED_IDEMPOTENT" ELSE "EXECUTED"
       ELSE IF Confirms(c, answer[c]) THEN "APPLIED" ELSE "NOT_APPLIED"]
  /\ phase' = [phase EXCEPT ![c] = "done"]
  /\ answer' = [answer EXCEPT ![c] = NoAnswer]
  /\ UNCHANGED <<settings, key, want, attempt, inflight, seen, runs, serverVars>>

\* 429, 5xx; over MCP also an error of the tool, which carries no status at all.
ReceiveRetryable(c) ==
  /\ phase[c] = "wait"
  /\ answer[c].says = "retryable"
  /\ Retry(c)
  /\ UNCHANGED <<settings, key, want, inflight, seen, runs, serverVars>>

\* Any other status ends the call at once.
ReceiveRefusal(c) ==
  /\ phase[c] = "wait"
  /\ answer[c].says = "refused"
  /\ End(c, "MCPGatewayError")
  /\ UNCHANGED <<settings, key, want, inflight, seen, runs, serverVars>>

-------------------------------------------------------------------------------
(* The gateway, external *)

\* An answer reaches its caller if that still waits for this attempt.
Reply(r, says, dict, body) ==
  answer' = IF /\ phase[r.caller] = "wait"
               /\ attempt[r.caller] = r.attempt
            THEN [answer EXCEPT ![r.caller] = [says |-> says, dict |-> dict, body |-> body]]
            ELSE answer

Delivered(r) ==
  /\ r \in inflight
  /\ inflight' = inflight \ {r}
  /\ UNCHANGED <<settings, phase, key, want, attempt, outcome>>

\* A key it has not executed yet goes through to the tool, which answers, or is cut off
\* from the client by a 504.
Execute(r) ==
  /\ Delivered(r)
  /\ r.want = "call"
  /\ IdempotencyKey(r) \notin seen
  /\ seen' = seen \cup {IdempotencyKey(r)}
  /\ Run(r.key)
  /\ runs' = [runs EXCEPT ![r.key] = @ + 1]
  /\ \E says \in {"ok", "retryable"} : Reply(r, says, TRUE, NoKey)

\* A key it has executed is answered from its record: 409, or a body that says so, which
\* call_tool's docstring takes for a dict with the flag its transport looks for.
Replay(r) ==
  /\ Delivered(r)
  /\ r.want = "call"
  /\ IdempotencyKey(r) \in seen
  /\ \E says \in {"409", "replay"} : Reply(r, says, TRUE, NoKey)
  /\ UNCHANGED <<seen, runs, serverVars>>

\* A key that begins with readcheck:: is a read, answered anew every time.  Over MCP the
\* body may be a list of contents.
Look(r) ==
  /\ Delivered(r)
  /\ r.want = "query"
  /\ \E dict \in BOOLEAN : Reply(r, "ok", dict, Looks(r.key))
  /\ UNCHANGED <<seen, runs, serverVars>>

\* Throttled, failed before the tool ran, denied by policy.
TurnAway(r) ==
  /\ Delivered(r)
  /\ \E says \in {"retryable", "refused"} : Reply(r, says, FALSE, NoKey)
  /\ UNCHANGED <<seen, runs, serverVars>>

\* The request is lost on its way.
Lose(r) ==
  /\ Delivered(r)
  /\ UNCHANGED <<answer, seen, runs, serverVars>>

ClientStep(c) ==
  \/ Send(c) \/ Unsent(c) \/ TimeOut(c) \/ RunCoroEmpty(c)
  \/ ReceiveAnswer(c) \/ ReceiveRetryable(c) \/ ReceiveRefusal(c)

Gateway(r) == Execute(r) \/ Replay(r) \/ Look(r) \/ TurnAway(r) \/ Lose(r)

Next ==
  \/ \E c \in Callers, k \in Keys : CallTool(c, k) \/ LiveQuery(c, k)
  \/ \E c \in Callers : ClientStep(c)
  \/ \E r \in inflight : Gateway(r)

Spec == Init /\ [][Next]_vars

\* What the thread of a call does of itself, and with an answer that is there.
Proceeds(c) ==
  Send(c) \/ Unsent(c) \/ ReceiveAnswer(c) \/ ReceiveRetryable(c) \/ ReceiveRefusal(c)

\* The thread of a call goes on.  Only requests.post is given a timeout; a wait over MCP,
\* and _run_coro's join of the thread that waits, may last for ever.
FairSpec ==
  /\ Spec
  /\ \A c \in Callers : /\ WF_vars(Proceeds(c))
                        /\ WF_vars(selected_transport = "rest" /\ TimeOut(c))
-------------------------------------------------------------------------------
(* Properties *)

\* "exactly-once idempotency": whatever is retried, delayed, answered late or asked
\* again, an action runs once at most, one call at most is told that it executed it,
\* "never silently succeeds", and a live query is told "applied" only of what is.
Promise == INSTANCE ToolCall WITH asked <- key, wants <- want, told <- outcome

ImplementsToolCall == Promise!Spec

\* Every call returns or raises, whatever the gateway does or fails to do, unless it
\* waits for good, over MCP, for an answer that does not come.
WaitsForGood(c) ==
  [](selected_transport = "mcp" /\ phase[c] = "wait" /\ answer[c].says = "nothing")

CallReturns ==
  \A c \in Callers : phase[c] = "send" ~> (phase[c] = "done" \/ WaitsForGood(c))
===============================================================================
