# Verification of DEADMAN

DEADMAN is an incident-response agent that is expected to be killed in the middle of a
mitigation. A webhook takes an alert; a commander asks a model what to do and executes tools
through a governed gateway; what it did and what it was about to do is in durable state, so
that a fresh process resumes and no destructive action happens twice. While the model falls
back to weaker tiers, authority over destructive tools is taken away.

This directory holds TLA+ models of that code (`src/deadman/`, and the scripts and the example
tool server beside it), TLC runs on small instances, and theorems proved with TLAPS. Paths below
are relative to `src/deadman/` unless they say otherwise.

## 1. The system

| Part | State | Operations | Hard because | Correct when |
|---|---|---|---|---|
| AuditLog on files (`state.py` 76–157) | append-only `audit.jsonl`, a lock file | `append_audit`, `is_committed`, `claim_commit`, `sweep`, `reset` | threads and processes race; flock locks inodes; crashes close descriptors | one winner per key; a loser finds a record; the lock is always given up |
| AuditLog on DynamoDB (`state.py` 217–381) | `AUDIT#n` items, `COMMIT#key` markers | the same | several hosts; stale reads; counted sequence numbers; repeated puts | one winner per key; no line lost or overwritten; appends end |
| DurableState, lifecycle (`state.py` 411–459, `lifecycle.py`) | one blob per incident, a copy per run | `set_pending`, `commit`, `note`, `set_phase` | crash or error inside a flush; several copies | what returned is on disk; whole, legal operations only |
| MCPGateway (`mcp_gateway.py`) | `guardrail_blocks`, the audit log | `execute` | ten exits, a process death between any two lines | denied, skipped, blocked, executed and claimed mean what they say |
| Guardrails (`guardrails.py`) | none | `pre_tool_validate`, `post_tool_validate`, redaction | arguments of any type; a result refused after its effect | nothing unsafe lands, nothing that landed is hidden |
| Planner, tool registry (`planner.py`, `tools.py`) | none | `parse_action`, `validate_args`, `idempotency_target` | text of any shape; keys made of one argument | what lands is the call that was keyed; a bad answer costs a step and no more |
| Gateway client (`realmode_mcp.py`) | none | `call_tool` over REST or MCP, with retries | lost and late answers, requests that outlive their caller, replays | an action runs once, nobody is told more than is true, every call ends unless MCP never answers |
| Tool server (`src/mcp_servers/deadman_safe_tools.py`) | reverted, cordoned, scaled, posted | the tools and the two that look | keeps no keys | what it tells is what was done |
| Commander (`commander.py`) | the loop's locals, leash, memory copy of the state | `run` (scripted), `run_agentic` (model-driven), resume | dies anywhere; resumes; one pending slot | exactly-once; write-ahead; leash respected; runs end |
| AI gateway (`ai_gateway.py`, `bedrock_ai.py`, `realmode_ai.py`, `chaos.py`) | `max_depth`, `semantic_cache` | `complete` over three backends | fallbacks and recoveries in any order; headers are all one backend tells | depth noted follows what an answer tells of its tier; answers as long as one was ever given |
| Agent gateway (`agent_gateway.py`) | two latches | `allowed_scope`, `trip_kill_switch` | called again and again with moving inputs | authority follows the brain and never comes back |
| Webhook (`webhook.py`), limiter (`ratelimit.py`) | `_in_flight`, `_shutting_down`, buckets | `POST /incident`, drain, `allow`, `retry_after` | lazy refill, eviction, runs in threads while the loop drains | a token bucket per client; no run cut off silently; shutdown ends |
| World, RealWorld (`world.py`) | effects; nothing in a fresh process | tools, reconciliation queries | live queries fail; targets matched as text | says "applied" only of what was |
| Demonstrations (`webhook.py` 416–594, `src/scripts/`) | scoreboards, exit codes, a second process | the demo and its stream, two proofs by killing | children die where the script did not plan it; beats written by hand | PASS and the final numbers tell the truth |
| Config, observability, UI, infra | – | environment, counters, presentation | – | not modelled, see section 7 |

How they interact: `webhook._run_incident` looks at the durable state, builds a commander and
runs it in a worker thread. The commander calls `ai.complete`, turns `ai.max_depth` into a
scope through the agent gateway, checkpoints a destructive action with `set_pending`, and calls
`MCPGateway.execute`, which writes PENDING, calls the tool (in-process or over HTTP) and then
`claim_commit`s. Back in the commander, `state.commit` clears the pending slot. The two durable
things, the state blob and the audit log, are written separately, and much of what can go wrong
is in between.

## 2. Modules

Abstract specifications:

* `CommitOnce` – the promise of `claim_commit`: claims take turns, so that what one has found
  free is still free when it wins, while reconciled actions are recorded beside them.
* `ToolCall` – the promise of `call_tool` and the live query: an action that several calls ask for
  runs at most once, one call at most is told that it executed it, and "applied" is told only of
  what is.
* `Mitigation` – the promise of the commander: a destructive action goes from nothing to
  applied to recorded, each once.
* `IncidentRecord` – the promise of DurableState: a record that changes by whole operations
  along the lifecycle.
* `TokenBucket` – the promise of the limiter: a bucket per client that fills with the clock.

Models of the code:

| Module | Models | Correspondence |
|---|---|---|
| `FileBackend` | `state.py` 76–157 | one action per line of `claim_commit` that can be interrupted; inodes numbered so that a private lock file would show |
| `DynamoLedger` | `state.py` 217–381 | one action per request; a count is any number up to the true one |
| `IncidentRecord`, `DurableState` | `state.py` 62–109, 411–459, `lifecycle.py` | `Change` is the memory half of each operation, `Write`/`Replace`/`SaveRaises` the flush; the timeline is its length |
| `MCPGateway` | `mcp_gateway.py`, `realmode_mcp.py` 109–235 | one action per exit of `execute` and per outcome of a request; a request whose client has given up stays in `late` and may `Arrive`; `claim_commit` is one step, as `FileBackend` justifies |
| `IncidentRun` (extends it) | what both loops share | delivery, load, resume and reconciliation, leash, kill switch, `Crash` at any point |
| `AgenticLoop` (extends that) | `commander.py` `run_agentic` | one action per outcome of a step; the model's choice is free |
| `Planner`, `Guardrails` | `planner.py`, `tools.py`, `guardrails.py` | one operator per function; a text is a sequence of pieces (prose, brace groups, JSON), an argument a typed value, a payload its shape |
| `DecisionLoop` (extends `AgenticLoop`, `Guardrails`) | `commander.py` 401–505 with what the model writes | the actions of `AgenticLoop` and `MCPGateway`, each taken when the text and its arguments say so |
| `ScriptedRun` (extends `IncidentRun`) | `commander.py` `run` | one action per stage of the scripted incident |
| `Scripts` (extends that) | `NaiveAgent`, `chaos.py`, `run_demo.py`, both proof scripts, `webhook.py` 416–594 | a script drives `ScriptedRun` under the chaos it sets up; the two processes of the subprocess proof run on the same durable state |
| `SafeTools` | `src/mcp_servers/deadman_safe_tools.py` | one action per tool that changes something |
| `GatewayClient` (extends that) | `realmode_mcp.py`, `world.py` 144–224 | one caller per `call_tool`; `Send`, `TimeOut` and each kind of answer are steps, requests live in `inflight`; the gateway that keeps keys is external |
| `AIGateway` | `ai_gateway.py`, `agent_gateway.py`, the two model clients | one action per kind of completion; the tiers that answer are any set |
| `Webhook` | `webhook.py` 79–112, 357–395, `ratelimit.py` | one action per piece of a coroutine between two awaits |

`MCAgenticLoop`, `MCDecisionLoop`, `MCGatewayClient` and `MCScriptedRun` give values that a cfg
cannot. The `*Proofs` modules hold the theorems. Each property is preceded by the sentence it formalises.
Operators commented "A build that ..." are plausible wrong versions of the definition below
them; no specification uses them, and each makes one of the properties fail.

Two layers meet by refinement or by an argument stated in the module: a run uses `claim_commit`
as one step because `FileBackend` implements `CommitOnce`; `IncidentRun` uses `set_pending` and
`commit` as one step because a crash inside the flush leaves the file either before or after
(`DurableState`), and a crash before the step is possible in `IncidentRun` as well; the depth is
a Boolean in the runs because `AIGateway` shows that only the side of the limit matters.
`MCPGateway` sees a call over HTTP as one request that executes or is replayed, at once or late,
with the outcomes `GatewayClient` has. Every step of `DecisionLoop` is a step of `AgenticLoop`, or
one that blocks the result of a metrics or log read.

## 3. What the runs check

| Run | Question | Properties | States |
|---|---|---|---|
| `file_backend` | Three callers, two keys, plain writes, crashes, errors: one winner, an atomic claim, an end | `TypeOK`, `OneWinner`, `ImplementsCommitOnce`, `ClaimReturns` | 102,930 |
| `dynamo_ledger` | Two hosts, stale counts, repeated puts | `TypeOK`, `OneWinner`, `ReturnedIsWritten`, `AppendOnly`, `AppendReturns` | 168,335 |
| `durable_state` | A crash or an error anywhere in a flush | `TypeOK`, `ReturnedIsDurable`, `ImplementsIncidentRecord` | 4,722 |
| `ai_gateway` | Any sequence of tiers, caches, errors, scope checks and headers of every kind | `TypeOK`, `AuthorityFollowsWitness`, `OutageMeansNeverAnswered`, `NeverRegranted` | 357 |
| `webhook` | Limit, eviction, Retry-After, shutdown at any moment | `TypeOK`, `WaitingIsEnough`, `NoRunCutOff`, `ImplementsTokenBucket`, `DrainEnds` | 958,991 |
| `agentic_real` | Two runs at once over an unreliable network, requests that outlive their run, a gateway that dedupes: is what is told or kept on file as done true? | `CommittedApplied`, `ReportedApplied` | 1,466,812 |
| `decision` | The loop driven by texts and arguments of every shape, one run at a time, killed and redelivered: exactly-once, the pending slot, the leash; is what lands safe and keyed as it was asked for, is it recorded in the end, does every run end? | `DecisionTypeOK`, `Recoverable`, `LeashHolds`, `SafelyApplied`, `ExactlyOnce`, `WriteAhead`, `RecordedEventually`, `RunTerminates` | 108,950 |
| `gateway_client` | Two callers on either transport, time-outs, late answers and requests, down to the tool server | `TypeOK`, `ImplementsToolCall`, `CallReturns` | 106,746 |
| `scripted` | The scripted incident killed three times, or driven by the demo and the two proofs | `ScriptsTypeOK`, `ResolvedUnlessLeashed`, `PassMeansExactlyOnce`, `ExactlyOnce`, `ReplayTellsTruth` | 4,771 |
| `ai_gateway_target` | Finding 3 | `AuthorityFollowsBrain` is violated | |
| `agentic_window` | Finding 1 | `NoDoubleExecution` is violated | |
| `agentic_substring` | Finding 2 | `CommittedApplied` is violated | |

### Bounds, and why they are enough

* `file_backend`: three callers, so that one can be inside, one waiting and one opening a new
  descriptor; two keys, so that a claim can be confused with another's. PENDING lines stop being
  added once the trail has `MaxAudit` lines; claims and reconciled records are never held back.
  Two of the callers may reconcile, so that a plain write can meet a claim and another plain write.
* `dynamo_ledger`: one key, two callers, three attempts (`range(5)` in the code: what matters is
  that a last attempt exists and that a loser of one round can win the next).
* `durable_state`: one handle, opened again after every close; two keys, lists of up to two.
* `agentic_*`: one or two destructive actions, one diagnostic per step.
  `agentic_real` has two workers, one destructive key and one retry, so that a retry of each can
  fall between any two steps of the other, and a request given up by one may arrive in any state
  of the other. Counts saturate at `Many` = 2: "twice" is all the properties ask.
  The two workers are symmetric: no definition tells one from the other, and the run checks
  invariants only.
* `decision`: one scaling and one drain, so that either can be pending while the other is asked
  for; two steps and a crash, before or after the effect; some twenty answers, at least one for
  every branch of the planner, of `validate_args` and of both validators. The kill switch looks from
  `KILL_SWITCH_MIN_ATTEMPTS` = 1 attempt on, so that a block in the first step is felt by the call of
  the second; the code's 3 is the value of the other runs.
* `gateway_client`: two callers, so that a redelivery or a query can meet the retries of the first;
  two actions, one of which can be looked up; one retry, because a second attempt is what can meet
  the first. A call ends and its caller makes no other, hence `CHECK_DEADLOCK FALSE`.
* `scripted`: three deaths, one in each phase and one in a resumed run; the scripts stop when they
  have printed their verdict, hence `CHECK_DEADLOCK FALSE`.
* `MaxCrashes` bounds deaths; deliveries are not bounded, so every bounded death is followed by
  as many resumes as one likes.
* `WindowCrashes` = FALSE keeps a process alive between the two writes of a reconciliation. It
  is off where the property is known to fail there (finding 1), and on in `agentic_real`, where
  what is told and kept on file must be true through the gap as well.
* `ai_gateway`: no bound; the chains are those of `config.py`, the headers of every kind that
  `realmode_ai.py` distinguishes, those it fails to recognise and missing ones included.
* `webhook`: a token is 3 units, the rate 2 units a tick and the burst 6, so that refills do not
  hit whole tokens and a wait is rounded; cleanup every tick and eviction after 3 ticks stand
  for 60 s and 300 s; the clock stops at 5, after an eviction and a second burst. The server
  really stops after its drain, hence `CHECK_DEADLOCK FALSE`.

### Fairness

* `FileBackend`: weak fairness of a caller that has the lock or nothing to wait for; strong
  fairness of `flock`, since the kernel queues waiters.
* `DynamoLedger`, `DecisionLoop`: weak fairness of a thread in its synchronous code. `DecisionLoop`
  adds that an alert is delivered again while the incident has no answer, which is what alerting
  sources do and what `webhook.py` 298–301 relies on. Crashes are never fair.
* `GatewayClient`: weak fairness of a caller in its own code and with an answer that is there, and
  of the time-out over REST (`timeout=30`, `realmode_mcp.py` 129). None for a time-out over MCP,
  where the code sets none (257–258), nor for `_run_coro`, whose join has none. None for the
  gateway: it may never answer. `CallReturns` therefore says that a call ends unless it waits for
  good, over MCP, for an answer that never comes.
* `Webhook`: the clock moves and the event loop polls. No fairness for a run: it may hang.

## 4. Findings

1. **A reconciled action can be forgotten** (`agentic_window`). On resume the commander finds the
   pending action applied, flushes `state.commit`, which clears the pending slot, and only then
   writes the COMMITTED line (`commander.py` 206–207, 359–364). A second death between the two
   leaves an applied action that is neither pending nor committed, and the next run executes it
   again. The reverse order would leave a pending action with a COMMITTED line, which the resume
   path already skips.
2. **Targets are matched as substrings** (`agentic_substring`). `RealWorld.is_reverted` and its
   siblings look for the target inside committed keys (`world.py` 155), so `PR-13` is taken for
   reverted once `PR-1337` is. A pending revert of `PR-13` is then recorded as COMMITTED without
   ever being executed.
3. **A deep fallback may cost no authority** (`ai_gateway_target`). Behind the TFY gateway only the
   headers of an answer tell who gave it. `_depth_from_headers` (`realmode_ai.py` 60–87) announces a
   match of target ids, and the ids of `src/infra/ai_gateway.yaml` (`llama-usw2`) meet none of its
   rules: the answer is read as depth 0 and the run keeps its authority. The same holds of an answer
   without such headers. What does hold, for headers of every kind, is `AuthorityFollowsWitness`:
   authority follows the deepest tier that the process has itself walked to or been shown.

### Observations

Seen while modelling; they follow from the models or from reading, and no run is kept for them.

* Two deliveries of one incident run concurrently with separate copies of the state. Without a
  gateway that dedupes by `Idempotency-Key` (as `src/mcp_servers/deadman_safe_tools.py`) both can
  execute the in-flight action, against `webhook.py` 300–301; with one, it is the gateway that
  keeps the second request from the tool. `src/README.md` 266–268 names the provider's deduplication the primary guarantee.
* With two handles open, `DurableState` loses updates: the later flush writes a whole stale copy.
  `state.py` 22 names a version for optimistic locking; no code compares it. A terminal phase can
  be left in the same way. Run `DurableState` with `Handles = {h1, h2}` to see it.
* The key of a diagnostic read is the target and the loop index, which starts at 0 in every run:
  a later run of the incident skips its reads as replays (`commander.py` 455–457 says never).
* On DynamoDB a process that dies between marker and AUDIT line leaves a committed key that the
  postmortem trail never shows (`state.py` 359–360 says the trail stays complete). Conversely, the
  resume path writes a COMMITTED line without a marker, and a later claim of that key wins.
* On DynamoDB the SDK repeats a marker put whose answer was lost, and the repeat meets the marker of
  the first (`state.py` 371): the one claimant is told that it lost, and the key has no winner.
  `OneWinner` says that there is at most one.
* Over MCP a gateway that accepts a request and never answers holds the call, the thread of
  `_run_coro` and the run for ever: no time-out is set on the way (`realmode_mcp.py` 257–258).
* A live query that fails counts as "not applied", and the action is executed again (against
  `src/README.md` 272–275); only the gateway's deduplication prevents a second effect.
* `commander.py` 248–250 restores authority for an action that is applied and not committed. The
  resume path leaves that state behind it, except through the gap of finding 1, and there the
  restored authority is what lets the action execute a second time.
* The scripted cordon stays pending after it is committed, so the next delivery resumes for it.
* The mock cache's answer for an unknown prompt, commented "closest prior", is the oldest one.
* `BedrockOutage` is not a `ModelOutage` and ends `run_agentic` with an exception.
* `os.replace` is not followed by an fsync of the directory; the models cover the death of a
  process, not of a machine.
* Eviction of an idle bucket is sound when it would be full by then, `burst <= rate * 300 s`,
  an assumption of `Webhook`. The default burst, `max(1, 2 * rate)`, satisfies it for rates of at
  least one request in 300 s; a lower rate or a larger configured burst does not, and eviction
  then hands out tokens early.
* Nothing refuses a request during the drain. The drain waits for such requests as well
  (`NoRunCutOff`), so arrivals can use up its deadline.
* `_extract_json` (`planner.py` 105–112) says "Keep scanning" when its first braces hold no JSON,
  and leaves the loop instead: an action after braces in the prose is a safe hold. `{"done":
  "false"}` counts as done, as any string does that is not empty.
* `pre_tool_validate` compares `replicas` and hashes `namespace` as they come (`guardrails.py` 111,
  120): a string or a list raises a TypeError that no handler of the loop catches, and the run ends
  with the action pending. It was not made, and the next run finds that out (`decision`). NaN is
  below no floor and passes. A drain that names no namespace, or that sets `elevation` itself,
  passes the rule for critical namespaces.
* The key of a scaling is the group without the replicas (`tools.py` 144): a second, different
  scaling of one incident is skipped as committed. A target with `::` in it is looked up by its
  last piece (`commander.py` 204, 357).
* The key of a status update is made of its message before it is redacted (`commander.py` 441, 457;
  `guardrails.py` 128), so the audit log keeps what the update no longer shows.
* The REST transport knows a replay by 409 or `idempotent_replay`, the MCP transport by four flags
  (`realmode_mcp.py` 150, 360–368), and neither if the answer is no dict, as a list of MCP contents
  is: the caller of such a replay is told EXECUTED. `GatewayClient` assumes dicts there, as the
  docstring of `call_tool` does.
* Over MCP an error of the tool, or a missing `fastmcp`, has no status and is retried like a broken
  connection. `_run_coro` inside a running event loop returns None when its thread ends without a
  result or an `Exception`, and `execute` then fails on `result.get`.
* Two live queries of one target have one key (`readcheck::` and the target): they rely on a
  gateway that answers reads anew.
* A replayed call is never claimed (`mcp_gateway.py` 176–179). In real mode an action whose first
  answer was lost is left pending and without a COMMITTED line until a later run reconciles it, and
  a later action of the same run takes its pending slot. `RecordedEventually` is a property of
  mock mode only.
* The beats of the demo show the leash (1:10) before the kill (2:10). The real run is killed with all
  its authority and loses it in its second life. `ReplayTellsTruth` compares where the beats lead,
  not their order. The last event also replaces the timelines, and the spelling of the backends
  (`tier-2 (llama4)` becomes `tier-2`, `us-east-1 (degraded)` becomes `claude@us-east-1`).
* The beat "recovery" of the demo says that the audit log shows COMMITTED (`webhook.py` 483); what
  happens is that it does not, and the world is asked. The switches of `/api/demo/chaos` feed no run.
* `run_demo.py` and `prove_exactly_once.py` reset incidents with fixed ids: two executions at once
  take each other's state away. `Scripts` runs one at a time.
* `run` and `run_agentic` spell the key of one action differently; an incident handled by both is
  not deduplicated between them.

## 5. What is proved

All theorems hold for every value of the constants that the named assumptions allow.

| Module | Theorem | Statement | Argument |
|---|---|---|---|
| `FileBackendProofs` | `TypeCorrect` | `[]TypeOK` | inductive as it stands |
| | `MutualExclusionHolds` | `[]MutualExclusion` | `LockInv`: whoever is in the section holds the lock on the inode the path names, which is never replaced |
| | `OneWinnerHolds`, `LoserFindsRecordHolds` | `[]OneWinner`, `[]LoserFindsRecord` | `WinInv`: a win or a loss implies a record, and who is about to append has a key without a winner |
| | `AppendOnlyHolds` | `AppendOnly` | each step appends or leaves the trail |
| | `ClaimIsAtomic` | `Spec => ImplementsCommitOnce`, reconcilers included | `CheckedInv`: what was checked under the lock still holds of other claims at the append; a plain write beside it is a step of its own |
| `DynamoLedgerProofs` | `LedgerTypeCorrect` | `[]TypeOK` | inductive |
| | `LedgerOneWinner` | `[]OneWinner` | `ClaimInv`: per key, the wins told and the one claimant still appending together are at most one, and both need the marker |
| | `LedgerAppendOnly`, `LedgerReturnedIsWritten` | `AppendOnly`, `[]ReturnedIsWritten` | `TrailStep`, `TrailKeeps`: a put writes at the end only, and lines stay |
| `DurableStateProofs` | `StateTypeCorrect` | `[]TypeOK` | `ChangesAreRecords`: each operation yields a record |
| | `ReturnedIsDurableHolds`, `StateImplementsRecord` | `[]ReturnedIsDurable`, `ImplementsIncidentRecord`, for one handle | `FlushInv`: while a flush is under way the copy is one operation ahead of the file |
| `AgenticLoopProofs` | `LoopTypeCorrect` | `[]TypeOK` | part of `LoopInv`; the budget needs `StepsLeft`, the calls `KeysKnown` |
| | `LeashHoldsAlways` | `[]LeashHolds`, any number of runs | `LeashTaken`: the scope of a call was taken after the last completion, and nothing of this run revokes it before the call is over |
| | `CommittedAppliedHolds` | `[]CommittedApplied`, if no target is part of another key (`TargetsApart`) | `RecordsTrue`: a run about to claim or to record has seen the action applied. Finding 2 is what the premise excludes |
| | `ReportedAppliedHolds` | `[]ReportedApplied`, under the same premise, any number of runs, in both modes | `SeenApplied`: a key that the gateway remembers is of an action that ran, so neither a replay nor a claim tells more than is true; applied stays applied (`AppliedStays`), and each step that tells or files something is looked at once (`ReportsFollow`) |
| | `ExactlyOnceAlone`, `WriteAheadAlone`, `RecoverableAlone` | `ExactlyOnce`, `[]WriteAhead`, `[]Recoverable`, for one run at a time in mock mode that does not die inside a reconciliation | `AloneInv`: an applied action without a record is the pending one of the state file, or the one a run is about to record, and no other is called meanwhile. Finding 1 is what the last premise excludes |
| | `DecisionImplementsLoop` | `DecisionSpec => Spec`: all of the above holds of the loop driven by texts, in mock mode | every step of a text is one of the loop; what it adds never blocks a destructive call after it |
| | `DecisionTypeCorrect`, `SafelyAppliedHolds` | `[]DecisionTypeOK`, `[]SafelyApplied`, any number of runs | `DecisionInv`: from the decision to the call, the arguments a run holds are those its key was made of, and past the validators they are such that the call may hit the world (`CallKept`); what did hit it was such a call (`AppliedKept`) |
| | `DecisionPromisesAlone` | `ExactlyOnce`, `WriteAhead`, `[]Recoverable` of `DecisionSpec`, under the premises of `ExactlyOnceAlone` | from the refinement |
| `ScriptedRunProofs` | `ResolvedAtScale` | `Spec => []ResolvedUnlessLeashed`, any number of runs, dying anywhere | `RunInv`: which call a label means (`Place`), and that past each phase of a run with its authority the action of that phase is on record (`Resolved`) |
| | `RecoverableScripted` | `Spec => []Recoverable`, one run at a time that does not die inside a reconciliation | `OneRun`: the copy in memory is the file, and the file names an action before it is called; `SoloInv`: an applied action without a record is the pending one, or the one about to be recorded |
| | `ExactlyOnceDriven` | `ScriptsSpec => ExactlyOnce`, under the same premises | `DrivenInv`: the above while a script drives the run; the two children of the process-death script, which may die anywhere, have `DeathStory` in the place of `SoloInv` |
| | `PassHolds`, `ReplayHolds`, `ScriptsTypeCorrect` | `[]PassMeansExactlyOnce`, `ReplayTellsTruth`, `[]ScriptsTypeOK` of `ScriptsSpec`, with deaths anywhere | `Story`: what each script has done by each of its stages, how far its run or its children have come by then, and which chaos it has set; at the verdict it says `Settled`, in the replay that the boards are the ones the beats lead to; `TierNamed`: the backend shown of Deadman is of the tier it is said to have fallen back to |
| `AIGatewayProofs` | `GatewayTypeCorrect` | `[]TypeOK` | inductive |
| | `LeashFollowsWitness` | `[]AuthorityFollowsWitness`, headers of every kind | `LeashInv`: depth noted and the deepest tier witnessed lie on the same side of the limit (a family name tells tier 1 for tier 0) |
| | `LeashFollowsBrain` | `AuthorityFollowsBrain` of the in-process walk and of direct Bedrock | these walk the tiers themselves, so what they witness is what happened. Finding 3 is what the premise excludes |
| | `RevocationLatches` | `NeverRegranted` | a revoked run has no full scope, and no step clears the latch |
| | `OutageOnlyBeforeAnswers` | `[]OutageMeansNeverAnswered` | `OutageInv`: a run that was answered in-process has something in its cache, which only grows |
| `GatewayClientProofs` | `ClientTypeCorrect` | `[]TypeOK` | part of `ClientInv` |
| | `CallToolKeepsPromise` | `Spec => ImplementsToolCall`, any number of callers, attempts and requests under way | `ClientInv`: the gateway knows exactly the keys that have run (`LedgerOK`), the server shows only what has run (`ServerOK`), an answer under way is true and stays so (`AnswerOK`), one caller at most per key is told that it executed (`WinnersOK`) |
| `WebhookProofs` | `LimiterImplementsTokenBucket` | `Spec => ImplementsTokenBucket` | `RegistryInv` and three facts of arithmetic: capping twice is capping once, an idle bucket is full, so eviction and lazy refill are invisible |
| | `DoorTypeCorrect`, `NoRunCutOffHolds` | `[]TypeOK`, `[]NoRunCutOff`, any finite set of requests | `DoorInv`: the count is the cardinality of the runs in flight, so the drain finds it 0 only when there is none |
| | `WaitingIsEnoughHolds` | `[]WaitingIsEnough`, if a bucket holds one token | `PromiseInv`: a client told to wait has a token, or what its bucket fills with until then makes one; a tick takes from the wait what it adds to the bucket |

In each case the invariant alone is not inductive: mutual exclusion says nothing of who holds
which inode, one winner nothing of who is about to win, a COMMITTED line that is true
nothing of who is about to write one. What the strengthening adds is in the last column.

`MutualExclusion`, `LoserFindsRecord` and `AppendOnly` of `FileBackend` and `TypeOK` of
`AgenticLoop` are theorems without a run of their own: the first three follow from what
`file_backend` checks, and `AgenticLoop` runs with the properties that say more.

The premises, and what in the code justifies them:

* `Workers = {w}` (one run at a time, one script): two runs at once on one incident can execute an
  action twice in mock mode, as the observations say, so the theorems without this premise are the
  ones that hold at any scale.
* `~WindowCrashes` (no death between the two writes of a reconciliation): finding 1 is what happens
  otherwise. `PassHolds` and `ReplayHolds` do not need it: the demo and the in-process proof choose
  where their run dies, and the verdict on two children counts what has come of them.
* `Unit <= Burst`: a bucket that holds less than a token never lets anyone in; the default is
  `max(1.0, 2 * rate)`.
* `IsFiniteSet(Requests)`, part of `WebhookAssumption`: handlers in flight are counted.
* `ScriptAssumption`: the two destructive actions of the scripted incident are distinct, and they
  are the only ones.
* `TargetsApart`: finding 2 is what happens otherwise. `backend # "tfy"` in `LeashFollowsBrain`:
  finding 3 is.

Only model-checked: every liveness property (`ClaimReturns`, `AppendReturns`, `RecordedEventually`,
`RunTerminates`, `DrainEnds`, `CallReturns`), because liveness under fairness is outside what the
installed provers do.

## 6. Abstractions to know about

* Keys, prompts, clients are atoms; a record's timeline is its length; ids do not appear. Distinct
  actions have distinct keys, except where `Mentions` says otherwise (finding 2).
* In `AgenticLoop` the model chooses any registered tool, or nothing useful, at every step. In
  `DecisionLoop` it writes a text, and the choice is what the planner makes of it: a text is a
  sequence of prose, brace groups and JSON values, and JSON itself is not parsed character by
  character. Arguments keep their types, because the validators treat types differently.
* The patterns by which a secret is recognised are a set of texts and a set of names of fields.
* In mock mode all runs of an incident share one `World`, as in
  `src/scripts/prove_exactly_once.py` and the tests; the mock webhook makes a new one per request.
  `ScriptedRun`, and `Scripts` with it, model mock mode only.
* The network may lose a request or its answer at any attempt, up to `MAX_RETRIES`, and a request
  may get through after its client has given up or died: `inflight` in `GatewayClient`, `late` in
  the loops. What the gateway does with a repeated key is the constant `GatewayDedups`. The gateway
  itself is external code; that it runs a tool and remembers its key in one step is assumed.
* `Webhook`: one event loop, so what a coroutine does between two awaits is one step; awaiting an
  uncontended `asyncio.Lock` does not yield. An ASGI server may stop accepting before the lifespan
  hook runs; the model lets requests in until the end, which is more. Float rounding of tokens is
  not modelled: tokens are whole fractions.
* What a viewer of the demo is shown is split in two: the numbers, survival and authority of a board
  (`shown`), and the backend and timeline beside it (`labels`), whose notes are named by their beat.
  `state_losses` is counted and never sent.
* DynamoDB's conditional puts are atomic, its reads stale by any amount, its SDK may repeat a put.
* Audit lines and state blobs are whole: a line torn by a machine's crash does not occur.

## 7. Not modelled, and why

* Configuration and readiness (`config.py`): reads the environment once. The chains and the limits
  that matter are constants and definitions of the modules.
* Observability, the web UI, `src/infra/`: nothing of them feeds back into behaviour.
* Of the webhook: the health and postmortem endpoints and `/api/demo/chaos`, which read or set
  something no run looks at.
* Of the clients: `list_tools`, a listing for a reader, and `resolve_model_id`, a cache of names.
* Of the durable stores: `sweep` and `reset`, which remove files or items of an incident while it
  may be in use; a line torn by a crash; counts of more than one page; the three separate lookups of
  `is_committed` on DynamoDB, of which the model takes the answer as one stale read; `ttl_epoch`.
* Of the scripts: `bedrock_failover_demo.py`, `real_doctor.py` and `demo_drive.py` print what
  components answer, or only call the HTTP endpoints.

## 8. Plan

What was planned and is here: the two ledgers, the durable record, both loops with their shared
gateway and lifecycle, the model gateway, the webhook, the HTTP client down to the tool server, the
planner and the guardrails, the demonstrations. What is left, in this order:

1. `FileBackend` with `sweep`, `reset` and torn lines: the lock file deleted under a claim, and a
   trail that no longer parses.
2. `DynamoLedger` with the lookups of `is_committed`, paged counts and `reset`.
3. Both loops on one incident, with their two spellings of a key, and two handles in `IncidentRun`.
4. What becomes of an action that was replayed in real mode: when its COMMITTED line appears.
5. Proofs: every invariant, action property and refinement that a run checks has its theorem; the
   next ones are about what items 1 to 4 add.
