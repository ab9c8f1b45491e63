-------------------------------- MODULE Scripts --------------------------------
(***************************************************************************)
(* What drives the scripted incident besides an alert: the demo of the     *)
(* webhook and of scripts/run_demo.py, which runs NaiveAgent beside        *)
(* Deadman under chaos and replays the story beat by beat, and the two     *)
(* proof scripts, whose PASS the project rests on: prove_exactly_once.py,  *)
(* which catches a KillSignal, and prove_exactly_once_subprocess.py, whose *)
(* children A and B are processes that really die.                         *)
(***************************************************************************)
EXTENDS ScriptedRun, Sequences

VARIABLES
  script,     \* who drives: "alerts" (ScriptedRun as it is), or one of Drivers
  stage,      \* where the script stands
  chaos,      \* the Chaos object of its run
  max_depth,  \* AIGateway.max_depth of its run
  naive,      \* NaiveAgent: done_in_memory, and the revert_prs of its World
  board,      \* the final scoreboards of both agents
  shown,      \* the scoreboards of the last event of the stream, and its beat
  labels,     \* the backend and the timeline that this event shows with each of them
  codes,      \* how the children A and B ended
  mid,        \* the revert_prs that the parent has counted between the two
  verdict     \* what the proof script prints

driver == <<stage, chaos, max_depth, naive, board, shown, labels, codes, mid, verdict>>
scriptVars == <<vars, script, driver>>

Drivers == {"demo", "proof", "process_death"}

\* What a board says in numbers, and of survival and authority.  Its backend and notes
\* are among the labels; state_losses is never sent.
Scoreboard ==
  [survived |-> FALSE, fallback_depth |-> 0, double_executions |-> 0,
   guardrail_blocks |-> 0, drain_authority |-> "ON"]

-------------------------------------------------------------------------------
(* Chaos *)

Calm == [down_regions |-> {}, down_tiers |-> {}, all_bedrock_down |-> FALSE,
         slow_tiers |-> {}, corrupt_output |-> FALSE, kill_after |-> NoKey]

correlated_blackout(c) == [c EXCEPT !.down_regions = @ \cup {"us-east-1"}]
rate_limit_storm(c) == [c EXCEPT !.slow_tiers = @ \cup {0}]
kill_bedrock(c) == [c EXCEPT !.all_bedrock_down = TRUE]
kill_process_after(c, k) == [c EXCEPT !.kill_after = k]

FALLBACK_CHAIN == 0..4
SEMANTIC_CACHE_TIER == 5
AUTONOMY_REVOKE_AT_DEPTH == 2

Region(t) == IF t = 0 THEN "us-east-1" ELSE "us-west-2"

tier_healthy(c, t) ==
  ~c.all_bedrock_down /\ t \notin c.down_tiers /\ Region(t) \notin c.down_regions

\* The tier that answers: the first that is healthy and not slow, or else the cache.
Tier(c) ==
  LET live == {t \in FALLBACK_CHAIN : tier_healthy(c, t) /\ t \notin c.slow_tiers}
  IN CHOOSE t \in live \cup {SEMANTIC_CACHE_TIER} :
       \A u \in live \cup {SEMANTIC_CACHE_TIER} : t <= u

NaiveChaos == kill_bedrock(correlated_blackout(Calm))

DeadmanChaos ==
  kill_process_after(
    IF script = "demo"
    THEN [rate_limit_storm(correlated_blackout(Calm)) EXCEPT !.corrupt_output = TRUE]
    ELSE Calm,
    revert_key)

ScriptsInit ==
  /\ Init
  /\ script \in {"alerts"} \cup Drivers
  /\ stage = "start"
  /\ chaos = Calm
  /\ max_depth = 0
  /\ naive = [done_in_memory |-> FALSE, applied |-> 0]
  /\ board = [naive |-> Scoreboard, deadman |-> Scoreboard]
  /\ shown = [naive |-> Scoreboard, deadman |-> Scoreboard, beat |-> 0]
  /\ labels = [naive |-> [backend |-> "us-east-1 (raw)", timeline |-> <<>>],
               deadman |-> [backend |-> <<0, "">>, timeline |-> <<>>]]
  /\ codes = [A |-> "none", B |-> "none"]
  /\ mid = 0
  /\ verdict = "none"

ScriptsTypeOK ==
  /\ TypeOK
  /\ max_depth \in 0..SEMANTIC_CACHE_TIER
  /\ chaos.down_tiers \subseteq FALLBACK_CHAIN
  /\ chaos.kill_after \in {NoKey, revert_key}
  /\ naive.applied \in 0..2
  /\ verdict \in {"none", "PASS", "FAIL"}

At(s, from, to) == script = s /\ stage = from /\ stage' = to

-------------------------------------------------------------------------------
(* NaiveAgent *)

\* _mitigate: fires unless this process remembers that it has.
Mitigate ==
  naive' = [done_in_memory |-> TRUE,
            applied |-> naive.applied + (IF naive.done_in_memory THEN 0 ELSE 1)]

\* A build whose naive agent keeps its memory across the restart.
RestartRemembering == UNCHANGED naive

Restart == naive' = [naive EXCEPT !.done_in_memory = FALSE]

\* The outage takes it down after the mitigation; its second life counts the effects.
NaiveAct ==
  /\ ~tier_healthy(NaiveChaos, 0)
  /\ \/ At("demo", "start", "restart") /\ Mitigate /\ UNCHANGED board
     \/ At("demo", "restart", "again") /\ Restart /\ UNCHANGED board
     \/ /\ At("demo", "again", "deadman")
        /\ Mitigate
        /\ board' = [board EXCEPT !.naive.double_executions = naive'.applied - 1]
  /\ UNCHANGED <<vars, script, chaos, max_depth, shown, labels, codes, mid, verdict>>

-------------------------------------------------------------------------------
(* Deadman, killed by chaos and run again with resume=True *)

Begin(w) ==
  /\ \/ At("demo", "deadman", "running")
     \/ At("proof", "start", "running")
  /\ Deliver(w)
  /\ chaos' = DeadmanChaos
  /\ UNCHANGED <<warm, script, max_depth, naive, board, shown, labels, codes, mid,
                 verdict>>

\* KillSignal: after the side effect, before _post_tool and the claim.
KillSignal(w) == pc[w] = "result" /\ key[w] = chaos.kill_after

\* A completion is served by the tier chaos leaves; phase B takes tier 1 down first.
ServedUnderChaos(w) ==
  /\ chaos' = IF pc[w] = "replan" THEN [chaos EXCEPT !.down_tiers = @ \cup {1}] ELSE chaos
  /\ IF pc[w] \in {"reason", "replan"}
     THEN /\ max_depth' = (IF max_depth < Tier(chaos') THEN Tier(chaos') ELSE max_depth)
          /\ degraded'[w] = (max_depth' >= AUTONOMY_REVOKE_AT_DEPTH)
     ELSE UNCHANGED max_depth

\* Post-Tool blocks exactly what chaos corrupts.
BlockedUnderChaos(w) ==
  pc[w] = "result" =>
    (ret'[w] = "GuardrailBlock" <=> chaos.corrupt_output /\ key[w] \notin Destructive)

\* The scoreboard of a run that reaches its end.
FinalScoreboard(w) ==
  [survived |-> TRUE, fallback_depth |-> max_depth,
   double_executions |-> IF effects[revert_key] = 0 THEN 0 ELSE effects[revert_key] - 1,
   guardrail_blocks |-> blocks[w],
   drain_authority |-> IF scope[w] = "READ_ONLY" THEN "OFF" ELSE "ON"]

\* A step of run.  The proof script takes a run that ends unkilled for an error.
Step(w) ==
  /\ script \in {"demo", "proof"}
  /\ stage \in {"running", "resumed"}
  /\ ~KillSignal(w)
  /\ Work(w)
  /\ ServedUnderChaos(w)
  /\ BlockedUnderChaos(w)
  /\ IF pc[w] = "finish"
     THEN /\ board' = [board EXCEPT !.deadman = FinalScoreboard(w)]
          /\ stage' = IF script = "demo" THEN "replay" ELSE "judge"
     ELSE UNCHANGED <<board, stage>>
  /\ UNCHANGED <<script, naive, shown, labels, codes, mid, verdict>>

Killed(w) ==
  /\ At(script, "running", "killed")
  /\ KillSignal(w)
  /\ Die(w)
  /\ chaos' = [chaos EXCEPT !.kill_after = NoKey]
  /\ UNCHANGED <<script, max_depth, naive, board, shown, labels, codes, mid,
                 verdict>>

Resume(w) ==
  /\ At(script, "killed", "resumed")
  /\ Deliver(w)
  /\ max_depth' = 0
  /\ UNCHANGED <<warm, script, chaos, naive, board, shown, labels, codes, mid,
                 verdict>>

-------------------------------------------------------------------------------
(* /api/demo/stream *)

_BEATS == <<"cold_open", "correlated_blackout", "rate_limit_storm", "all_bedrock_down",
            "corrupt_output", "kill_mid_rollback", "recovery", "naive_double_exec", "done">>

\* What a beat reveals of the two boards: written by hand, before the true ones.
Revealed(beat) ==
  CASE beat = "rate_limit_storm" -> [shown EXCEPT !.deadman.fallback_depth = 1]
    [] beat = "all_bedrock_down" ->
         [shown EXCEPT !.deadman.fallback_depth = 2, !.deadman.drain_authority = "OFF"]
    [] beat = "corrupt_output" -> [shown EXCEPT !.deadman.guardrail_blocks = 1]
    [] beat = "recovery" ->
         [shown EXCEPT !.deadman.survived = TRUE, !.deadman.double_executions = 0]
    [] beat = "naive_double_exec" -> [shown EXCEPT !.naive.double_executions = 1]
    [] beat = "done" -> [naive |-> board.naive, deadman |-> board.deadman, beat |-> shown.beat]
    [] OTHER -> shown

\* The beats whose note goes on the timeline of an agent.
NotedFor ==
  [naive |-> {"correlated_blackout", "all_bedrock_down", "naive_double_exec"},
   deadman |-> {"cold_open", "correlated_blackout", "rate_limit_storm", "all_bedrock_down",
                "corrupt_output", "kill_mid_rollback", "recovery"}]

\* Every event carries the notes so far, the last one those of the run.
Timeline(agent, beat) ==
  CASE beat = "done" -> <<"notes of the run">>
    [] beat \in NotedFor[agent] -> Append(labels[agent].timeline, beat)
    [] OTHER -> labels[agent].timeline

NaiveBackend(beat) ==
  CASE beat = "correlated_blackout" -> "us-east-1 (degraded)"
    [] beat = "done" -> "claude@us-east-1"
    [] OTHER -> labels.naive.backend

\* The tier, and what a beat adds to its name; a run names the tier alone.
DeadmanBackend(beat) ==
  CASE beat = "correlated_blackout" -> <<0, "(degraded)">>
    [] beat = "rate_limit_storm" -> <<1, "(us-west-2)">>
    [] beat = "all_bedrock_down" -> <<2, "(llama4)">>
    [] beat = "done" -> <<max_depth, "">>
    [] OTHER -> labels.deadman.backend

Labelled(beat) ==
  [naive |-> [backend |-> NaiveBackend(beat), timeline |-> Timeline("naive", beat)],
   deadman |-> [backend |-> DeadmanBackend(beat), timeline |-> Timeline("deadman", beat)]]

Emit ==
  /\ script = "demo" /\ stage = "replay"
  /\ shown.beat < Len(_BEATS)
  /\ shown' = [Revealed(_BEATS[shown.beat + 1]) EXCEPT !.beat = @ + 1]
  /\ labels' = Labelled(_BEATS[shown.beat + 1])
  /\ UNCHANGED <<vars, script, stage, chaos, max_depth, naive, board, codes, mid, verdict>>

-------------------------------------------------------------------------------
(* prove_exactly_once_subprocess.py *)

ChildVars == <<seen, late, pc, calls, resume, leash, crashes, warm, script, chaos, max_depth,
               naive, board, shown, labels, verdict>>

\* child_a: the checkpoint, the PENDING line, the side effect, and os._exit(137), after
\* which the parent reads the system of record.
ChildA(w) ==
  /\ \/ /\ At("process_death", "start", "A.audit")
        /\ SetPending(w, revert_key)
        /\ UNCHANGED <<pending, committed, effects, codes, mid>>
     \/ /\ At("process_death", "A.audit", "A.revert")
        /\ pending' = pending \cup {revert_key}
        /\ UNCHANGED <<state, committed, effects, codes, mid>>
     \/ /\ At("process_death", "A.revert", "A.exit")
        /\ Apply(revert_key)
        /\ UNCHANGED <<state, pending, committed, codes, mid>>
     \/ /\ At("process_death", "A.exit", "B.load")
        /\ codes' = [codes EXCEPT !.A = "137"]
        /\ mid' = effects[revert_key]
        /\ UNCHANGED <<state, pending, committed, effects>>
  /\ UNCHANGED ChildVars

\* child_b: rehydrates, and asserts that A left a pending action ...
ChildBLoads(w) ==
  /\ script = "process_death" /\ stage = "B.load"
  /\ memory' = [memory EXCEPT ![w] = durable]
  /\ IF durable.pending = NoKey
     THEN codes' = [codes EXCEPT !.B = "error"] /\ stage' = "judge"
     ELSE UNCHANGED codes /\ stage' = IF effects[revert_key] > 0 THEN "B.commit" ELSE "B.revert"
  /\ UNCHANGED <<durable, pending, committed, effects, mid, ChildVars>>

\* ... then reconciles what the system of record shows, and re-runs what it does not
\* (A writes no COMMITTED line, so that the key is never found committed).
ChildB(w) ==
  /\ \/ /\ At("process_death", "B.revert", "B.commit")
        /\ Apply(revert_key)
        /\ UNCHANGED <<state, committed, codes>>
     \/ /\ At("process_death", "B.commit", "B.audit")
        /\ StateCommit(w, memory[w].pending)
        /\ UNCHANGED <<committed, effects, codes>>
     \/ /\ At("process_death", "B.audit", "B.exit")
        /\ committed' = [committed EXCEPT ![revert_key] = Bump(@)]
        /\ UNCHANGED <<state, effects, codes>>
     \/ /\ At("process_death", "B.exit", "judge")
        /\ codes' = [codes EXCEPT !.B = "0"]
        /\ UNCHANGED <<state, effects, committed>>
  /\ UNCHANGED <<pending, mid, ChildVars>>

\* The kernel kills a child: the parent sees the signal as its code, and goes on.
ChildKilled(c, at, next) ==
  /\ script = "process_death" /\ stage \in at
  /\ codes' = [codes EXCEPT ![c] = "signal"]
  /\ stage' = next
  /\ mid' = IF c = "A" THEN effects[revert_key] ELSE mid
  /\ UNCHANGED <<state, pending, committed, effects, ChildVars>>

\* A build whose parent looks at the system of record alone.
JudgeByCount(ok) == verdict' = IF effects[revert_key] = 1 THEN "PASS" ELSE "FAIL"

\* The failures a script collects, and its count of revert_pr.
Judge(ok) == verdict' = IF ok /\ effects[revert_key] = 1 THEN "PASS" ELSE "FAIL"

\* The parent also fails a proof whose children happened to get one pid.
Judged ==
  /\ script \in {"proof", "process_death"} /\ stage = "judge" /\ verdict = "none"
  /\ \E pids_differ \in BOOLEAN :
       Judge(IF script = "proof" THEN chaos.kill_after = NoKey
             ELSE codes = [A |-> "137", B |-> "0"] /\ mid = 1 /\ pids_differ)
  /\ UNCHANGED <<vars, script, stage, chaos, max_depth, naive, board, shown, labels, codes,
                 mid>>

-------------------------------------------------------------------------------

ScriptsNext ==
  \/ script = "alerts" /\ Next /\ UNCHANGED <<script, driver>>
  \/ NaiveAct
  \/ \E w \in Workers :
       \/ Begin(w) \/ Step(w) \/ Killed(w) \/ Resume(w)
       \/ ChildA(w) \/ ChildBLoads(w) \/ ChildB(w)
  \/ Emit
  \/ ChildKilled("A", {"start", "A.audit", "A.revert", "A.exit"}, "B.load")
  \/ ChildKilled("B", {"B.load", "B.revert", "B.commit", "B.audit", "B.exit"}, "judge")
  \/ Judged

ScriptsSpec == ScriptsInit /\ [][ScriptsNext]_scriptVars

-------------------------------------------------------------------------------
(* Properties *)

\* "NAIVE double_executions=1, DEADMAN double_executions=0": the hand-written beats
\* lead to the numbers, the survival and the authority that the two agents, really run,
\* have come to, and to the tier that answered: the event that puts their true boards on
\* the screen changes none of them.  It does replace the timelines, and what the beats
\* say of a backend besides its tier; the order of the beats is the demo's own.
ReplayTellsTruth ==
  [][shown'.beat = Len(_BEATS) =>
       /\ shown' = [shown EXCEPT !.beat = @ + 1]
       /\ labels'.deadman.backend[1] = labels.deadman.backend[1]]_scriptVars

\* A proof script that prints PASS has seen a revert that was applied once, is recorded
\* in the audit log and the state file, and is not left pending, whichever child died
\* where.
PassMeansExactlyOnce ==
  verdict = "PASS" =>
    /\ effects[revert_key] = 1
    /\ committed[revert_key] = 1
    /\ revert_key \in durable.actions_committed
    /\ durable.pending # revert_key
===============================================================================
