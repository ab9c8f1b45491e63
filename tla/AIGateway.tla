------------------------------ MODULE AIGateway ------------------------------
(***************************************************************************)
(* The brain of one run and its leash: ai_gateway.py's complete with its   *)
(* three backends (the in-process tier walk with the semantic cache,       *)
(* direct Bedrock, the TFY gateway, of which only headers tell the depth), *)
(* and agent_gateway.py, which turns the depth into authority.             *)
(***************************************************************************)
EXTENDS Naturals

CONSTANTS
  Backends,   \* the backends a run may be configured with
  Prompts,    \* what the loops ask
  Headers     \* how answers of the TFY gateway tell who served them

ASSUME GatewayAssumption ==
  /\ Backends \subseteq {"mock", "bedrock", "tfy"}
  /\ Headers \subseteq {"depth", "backend", "tier", "target", "none"}

VARIABLES
  backend,         \* config.MODE and config.LLM_BACKEND of the process
  max_depth,       \* AIGateway.max_depth
  semantic_cache,  \* the prompts with a cached answer
  reply,           \* how the last completion ended
  revoked,         \* AgentGateway.revoked
  kill_switch,     \* AgentGateway._kill_switch_tripped
  scope,           \* what _scope() handed out since the last completion
  deepest,         \* history: the deepest fallback the run has really been through
  witnessed,       \* history: the deepest of those that the process could know of
  answered         \* history: a live tier has answered this run

brain == <<max_depth, semantic_cache, reply, deepest, witnessed, answered>>
vars == <<backend, brain, revoked, kill_switch, scope>>

AUTONOMY_REVOKE_AT_DEPTH == 2
SEMANTIC_CACHE_TIER == 5
FALLBACK_CHAIN == 0..4
BEDROCK_FALLBACK_CHAIN == 0..3

Replies == {"none", "live", "cache", "outage", "raised"}

TypeOK ==
  /\ backend \in Backends
  /\ max_depth \in 0..SEMANTIC_CACHE_TIER
  /\ semantic_cache \subseteq Prompts
  /\ reply \in Replies
  /\ revoked \in BOOLEAN
  /\ kill_switch \in BOOLEAN
  /\ scope \in {"none", "FULL_SCOPE", "READ_ONLY"}
  /\ deepest \in 0..SEMANTIC_CACHE_TIER
  /\ witnessed \in 0..deepest
  /\ answered \in BOOLEAN

Init ==
  /\ backend \in Backends
  /\ max_depth = 0
  /\ semantic_cache = {}
  /\ reply = "none"
  /\ revoked = FALSE
  /\ kill_switch = FALSE
  /\ scope = "none"
  /\ deepest = 0
  /\ witnessed = 0
  /\ answered = FALSE

Deeper(a, b) == IF a < b THEN b ELSE a

\* A build that remembers the depth of the last completion only.
DeepenToLast(d) == max_depth' = d

\* A build that adds the fallbacks of a run up.
DeepenBy(d) == max_depth' = max_depth + d

\* self.max_depth = max(self.max_depth, depth)
Deepen(d) == max_depth' = Deeper(max_depth, d)

\* A completion that came from tier t, and that showed the process tier w, whatever the
\* code makes of it.
Served(t, w, how) ==
  /\ deepest' = Deeper(deepest, t)
  /\ witnessed' = Deeper(witnessed, w)
  /\ answered' = (answered \/ how = "live")
  /\ reply' = how
  /\ scope' = "none"
  /\ UNCHANGED <<backend, revoked, kill_switch>>

\* The first tier of the chain among those that answer in time.
First(chain, up, t) == t \in up /\ up \subseteq chain /\ \A u \in up : t <= u

-------------------------------------------------------------------------------
(* The in-process walk *)

\* A build that warms the cache only while the primary tier answers.
WarmFromPrimary(p, t) ==
  semantic_cache' = semantic_cache \cup (IF t > 0 THEN {} ELSE {p})

Warm(p, t) == semantic_cache' = semantic_cache \cup {p}

MockServes(p) ==
  /\ backend = "mock"
  /\ \E up \in SUBSET FALLBACK_CHAIN, t \in FALLBACK_CHAIN :
       /\ First(FALLBACK_CHAIN, up, t)
       /\ Deepen(t)
       /\ Warm(p, t)
       /\ Served(t, t, "live")

\* Every tier is down or slow: the answer cached for p, or else that of another prompt.
MockFromCache ==
  /\ backend = "mock"
  /\ semantic_cache # {}
  /\ max_depth' = SEMANTIC_CACHE_TIER
  /\ UNCHANGED semantic_cache
  /\ Served(SEMANTIC_CACHE_TIER, SEMANTIC_CACHE_TIER, "cache")

\* ModelOutage: every tier is down and the cache is cold.
MockOutage ==
  /\ backend = "mock"
  /\ semantic_cache = {}
  /\ max_depth' = SEMANTIC_CACHE_TIER
  /\ UNCHANGED semantic_cache
  /\ Served(SEMANTIC_CACHE_TIER, SEMANTIC_CACHE_TIER, "outage")

-------------------------------------------------------------------------------
(* The network backends *)

BedrockServes ==
  /\ backend = "bedrock"
  /\ \E up \in SUBSET BEDROCK_FALLBACK_CHAIN, t \in BEDROCK_FALLBACK_CHAIN :
       /\ First(BEDROCK_FALLBACK_CHAIN, up, t)
       /\ Deepen(t)
       /\ Served(t, t, "live")
  /\ UNCHANGED semantic_cache

\* _family_tier_map: tiers 0 and 1 are one model in two regions, and the later wins.
FamilyTier(t) == IF t = 0 THEN 1 ELSE t

\* _depth_from_headers: a hop count, the name of the model, or an id with the number of
\* the tier.  The target ids of infra/ai_gateway.yaml match none, as no header does.
DepthFromHeaders(t, h) ==
  CASE h \in {"depth", "tier"} -> t
    [] h = "backend" -> FamilyTier(t)
    [] OTHER -> 0

\* What an answer lets a reader of its headers know: nothing, if they name a target that
\* is none of the chain's families, or nothing at all.
Shows(t, h) == IF h \in {"depth", "backend", "tier"} THEN t ELSE 0

\* The TFY gateway walks the chain itself, and answers with headers.
TfyServes ==
  /\ backend = "tfy"
  /\ \E t \in FALLBACK_CHAIN, h \in Headers :
       /\ Deepen(DepthFromHeaders(t, h))
       /\ Served(t, Shows(t, h), "live")
  /\ UNCHANGED semantic_cache

\* x-tfy-cache: hit.
TfyFromCache ==
  /\ backend = "tfy"
  /\ Deepen(SEMANTIC_CACHE_TIER)
  /\ Served(SEMANTIC_CACHE_TIER, SEMANTIC_CACHE_TIER, "cache")
  /\ UNCHANGED semantic_cache

\* BedrockOutage, an OpenAI error, a guardrail block: no depth is noted.
CompleteRaises ==
  /\ backend # "mock"
  /\ reply' = "raised"
  /\ scope' = "none"
  /\ UNCHANGED <<backend, max_depth, semantic_cache, deepest, witnessed, answered, revoked,
                 kill_switch>>

complete ==
  \/ \E p \in Prompts : MockServes(p)
  \/ MockFromCache \/ MockOutage
  \/ BedrockServes
  \/ TfyServes \/ TfyFromCache
  \/ CompleteRaises

-------------------------------------------------------------------------------
(* AgentGateway *)

\* A build that judges by the depth alone.
AllowedScopeByDepth ==
  /\ revoked' = (max_depth >= AUTONOMY_REVOKE_AT_DEPTH)
  /\ scope' = IF revoked' THEN "READ_ONLY" ELSE "FULL_SCOPE"
  /\ UNCHANGED <<backend, brain, kill_switch>>

AllowedScope ==
  /\ revoked' = (kill_switch \/ revoked \/ max_depth >= AUTONOMY_REVOKE_AT_DEPTH)
  /\ scope' = IF revoked' THEN "READ_ONLY" ELSE "FULL_SCOPE"
  /\ UNCHANGED <<backend, brain, kill_switch>>

\* The commander has seen half of its calls blocked; the call of this scope is over.
TripKillSwitch ==
  /\ kill_switch' = TRUE
  /\ revoked' = TRUE
  /\ scope' = "none"
  /\ UNCHANGED <<backend, brain>>

Next ==
  \/ complete
  \/ AllowedScope
  \/ TripKillSwitch

Spec == Init /\ [][Next]_vars

-------------------------------------------------------------------------------
(* Properties *)

\* "Couples AUTHORITY to CONFIDENCE": whatever sequence of tiers, caches, headers and
\* errors the run has been through, a scope is read-only if and only if the process has
\* met, or an answer has shown it, a fallback beyond the limit, or the kill switch has
\* tripped.
AuthorityFollowsWitness ==
  scope # "none" =>
    (scope = "READ_ONLY" <=> kill_switch \/ witnessed >= AUTONOMY_REVOKE_AT_DEPTH)

\* "Authority degrades in lockstep with confidence", and a served answer is matched
\* "against the FALLBACK_CHAIN family hints or target ids": the scope follows the tier
\* that really served the run.  It does not where a header names a target id.
AuthorityFollowsBrain ==
  scope # "none" =>
    (scope = "READ_ONLY" <=> kill_switch \/ deepest >= AUTONOMY_REVOKE_AT_DEPTH)

\* "a recovering brain cannot silently re-acquire destructive authority".
NeverRegranted == [][revoked => revoked' /\ scope' # "FULL_SCOPE"]_vars

\* The in-process brain gives up only when the run has never had an answer: after
\* one, at any tier, the runbook brain has something to say.
OutageMeansNeverAnswered == reply = "outage" => ~answered
===============================================================================
