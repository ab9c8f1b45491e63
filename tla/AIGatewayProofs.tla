---------------------------- MODULE AIGatewayProofs ----------------------------
(***************************************************************************)
(* The leash, for every backend, every set of header kinds and every       *)
(* sequence of completions.                                                *)
(***************************************************************************)
EXTENDS AIGateway, TLAPS

USE GatewayAssumption

\* The depth the code has noted and the depth it could know of lie on one side of the
\* limit, and nothing but these two reasons revokes.
LeashInv ==
  /\ max_depth \in Nat /\ witnessed \in Nat
  /\ max_depth >= AUTONOMY_REVOKE_AT_DEPTH <=> witnessed >= AUTONOMY_REVOKE_AT_DEPTH
  /\ kill_switch \in BOOLEAN /\ revoked \in BOOLEAN
  /\ kill_switch => revoked
  /\ revoked => kill_switch \/ max_depth >= AUTONOMY_REVOKE_AT_DEPTH
  /\ AuthorityFollowsWitness

\* A completion keeps the leash if the depth noted for it is on the same side of the
\* limit as the tier it showed.
LEMMA CompletionKeepsLeash ==
  ASSUME LeashInv, NEW t, NEW w \in Nat, NEW d \in Nat, NEW how,
         d >= AUTONOMY_REVOKE_AT_DEPTH <=> w >= AUTONOMY_REVOKE_AT_DEPTH,
         max_depth' = Deeper(max_depth, d), Served(t, w, how)
  PROVE  LeashInv'
<1>1. /\ scope' = "none"
      /\ revoked' = revoked /\ kill_switch' = kill_switch
      /\ witnessed' = Deeper(witnessed, w)
  BY DEF Served
<1>2. /\ max_depth' \in Nat /\ witnessed' \in Nat
      /\ max_depth' >= AUTONOMY_REVOKE_AT_DEPTH <=> witnessed' >= AUTONOMY_REVOKE_AT_DEPTH
      /\ max_depth >= AUTONOMY_REVOKE_AT_DEPTH => max_depth' >= AUTONOMY_REVOKE_AT_DEPTH
  BY <1>1 DEF LeashInv, Deeper, AUTONOMY_REVOKE_AT_DEPTH
<1>3. QED
  BY <1>1, <1>2 DEF LeashInv, AuthorityFollowsWitness

\* _depth_from_headers reads a depth on the same side of the limit as the tier that the
\* headers show: the tiers that share a model are on one side.
LEMMA HeadersKeepSide ==
  ASSUME NEW t \in FALLBACK_CHAIN, NEW h \in Headers
  PROVE  /\ DepthFromHeaders(t, h) \in Nat
         /\ Shows(t, h) \in Nat
         /\ DepthFromHeaders(t, h) >= AUTONOMY_REVOKE_AT_DEPTH
              <=> Shows(t, h) >= AUTONOMY_REVOKE_AT_DEPTH
<1>1. t \in Nat
  BY DEF FALLBACK_CHAIN
<1>2. CASE h \in {"depth", "tier"}
  BY <1>1, <1>2 DEF DepthFromHeaders, Shows
<1>3. CASE h = "backend"
  BY <1>1, <1>3 DEF DepthFromHeaders, Shows, FamilyTier, AUTONOMY_REVOKE_AT_DEPTH
<1>4. CASE h \notin {"depth", "tier", "backend"}
  BY <1>4 DEF DepthFromHeaders, Shows
<1>5. QED
  BY <1>2, <1>3, <1>4

LEMMA LeashInvInductive == Spec => []LeashInv
<1>1. Init => LeashInv
  <2> SUFFICES ASSUME Init PROVE LeashInv
    OBVIOUS
  <2>1. /\ max_depth = 0 /\ witnessed = 0 /\ scope = "none"
        /\ kill_switch = FALSE /\ revoked = FALSE
    BY DEF Init
  <2>2. AuthorityFollowsWitness
    BY <2>1 DEF AuthorityFollowsWitness
  <2>3. /\ max_depth \in Nat /\ witnessed \in Nat
        /\ max_depth >= AUTONOMY_REVOKE_AT_DEPTH <=> witnessed >= AUTONOMY_REVOKE_AT_DEPTH
    BY <2>1
  <2>4. QED
    BY <2>1, <2>2, <2>3 DEF LeashInv
<1>2. LeashInv /\ [Next]_vars => LeashInv'
  <2> SUFFICES ASSUME LeashInv, [Next]_vars PROVE LeashInv'
    OBVIOUS
  <2>1. CASE UNCHANGED vars
    BY <2>1 DEF vars, brain, LeashInv, AuthorityFollowsWitness
  <2>2. ASSUME NEW p \in Prompts, MockServes(p) PROVE LeashInv'
    <3>1. PICK t \in FALLBACK_CHAIN : Deepen(t) /\ Served(t, t, "live")
      BY <2>2 DEF MockServes
    <3>2. QED
      BY <3>1, CompletionKeepsLeash DEF FALLBACK_CHAIN, Deepen
  <2>3. CASE MockFromCache \/ MockOutage
    <3>1. /\ max_depth' = SEMANTIC_CACHE_TIER
          /\ \E how : Served(SEMANTIC_CACHE_TIER, SEMANTIC_CACHE_TIER, how)
      BY <2>3 DEF MockFromCache, MockOutage
    <3>2. /\ witnessed' = Deeper(witnessed, SEMANTIC_CACHE_TIER)
          /\ scope' = "none" /\ revoked' = revoked /\ kill_switch' = kill_switch
      BY <3>1 DEF Served
    <3>3. QED
      BY <3>1, <3>2 DEF LeashInv, AuthorityFollowsWitness, Deeper, SEMANTIC_CACHE_TIER,
                        AUTONOMY_REVOKE_AT_DEPTH
  <2>4. CASE BedrockServes
    <3>1. PICK t \in BEDROCK_FALLBACK_CHAIN : Deepen(t) /\ Served(t, t, "live")
      BY <2>4 DEF BedrockServes
    <3>2. QED
      BY <3>1, CompletionKeepsLeash DEF BEDROCK_FALLBACK_CHAIN, Deepen
  <2>5. CASE TfyServes
    <3>1. PICK t \in FALLBACK_CHAIN, h \in Headers :
            Deepen(DepthFromHeaders(t, h)) /\ Served(t, Shows(t, h), "live")
      BY <2>5 DEF TfyServes
    <3>2. QED
      BY <3>1, HeadersKeepSide, CompletionKeepsLeash DEF Deepen
  <2>6. CASE TfyFromCache
    <3>1. SEMANTIC_CACHE_TIER \in Nat
      BY DEF SEMANTIC_CACHE_TIER
    <3>2. QED
      BY <2>6, <3>1, CompletionKeepsLeash DEF TfyFromCache, Deepen
  <2>7. CASE CompleteRaises
    BY <2>7 DEF CompleteRaises, LeashInv, AuthorityFollowsWitness
  <2>8. CASE AllowedScope
    BY <2>8 DEF AllowedScope, brain, LeashInv, AuthorityFollowsWitness
  <2>9. CASE TripKillSwitch
    BY <2>9 DEF TripKillSwitch, brain, LeashInv, AuthorityFollowsWitness
  <2>10. QED
    BY <2>1, <2>2, <2>3, <2>4, <2>5, <2>6, <2>7, <2>8, <2>9 DEF Next, complete
<1>3. QED
  BY <1>1, <1>2, PTL DEF Spec

\* Authority follows what the process could know of its brain, over any number of
\* completions and whatever the headers of the TFY gateway name.
THEOREM LeashFollowsWitness == Spec => []AuthorityFollowsWitness
<1>1. LeashInv => AuthorityFollowsWitness
  BY DEF LeashInv
<1>2. QED
  BY <1>1, LeashInvInductive, PTL

\* A process that walks the tiers itself knows all there is to know.
WalksItself == backend # "tfy" => witnessed = deepest

LEMMA WalkWitnessed == Spec => []WalksItself
<1>1. Init => WalksItself
  BY DEF Init, WalksItself
<1>2. WalksItself /\ [Next]_vars => WalksItself'
  <2> SUFFICES ASSUME WalksItself, [Next]_vars PROVE WalksItself'
    OBVIOUS
  <2>1. CASE UNCHANGED vars
    BY <2>1 DEF vars, brain, WalksItself
  <2>2. ASSUME NEW t, NEW how, Served(t, t, how) PROVE WalksItself'
    BY <2>2 DEF Served, WalksItself
  <2>3. CASE (\E p \in Prompts : MockServes(p)) \/ MockFromCache \/ MockOutage
    BY <2>2, <2>3 DEF MockServes, MockFromCache, MockOutage
  <2>4. CASE BedrockServes \/ TfyFromCache
    BY <2>2, <2>4 DEF BedrockServes, TfyFromCache
  <2>5. CASE TfyServes
    BY <2>5 DEF TfyServes, Served, WalksItself
  <2>6. CASE CompleteRaises \/ AllowedScope \/ TripKillSwitch
    BY <2>6 DEF CompleteRaises, AllowedScope, TripKillSwitch, brain, WalksItself
  <2>7. QED
    BY <2>1, <2>3, <2>4, <2>5, <2>6 DEF Next, complete
<1>3. QED
  BY <1>1, <1>2, PTL DEF Spec

\* In-process and on direct Bedrock, authority follows the tier that really served the
\* run: what a header that names no tier can break, only the TFY gateway has.
THEOREM LeashFollowsBrain == Spec => [](backend # "tfy" => AuthorityFollowsBrain)
<1>1. LeashInv /\ WalksItself => (backend # "tfy" => AuthorityFollowsBrain)
  BY DEF LeashInv, WalksItself, AuthorityFollowsWitness, AuthorityFollowsBrain
<1>2. QED
  BY <1>1, LeashInvInductive, WalkWitnessed, PTL

\* Revocation latches, whatever the headers say.
THEOREM RevocationLatches == Spec => NeverRegranted
<1> DEFINE Step == revoked => revoked' /\ scope' # "FULL_SCOPE"
          Inv == revoked => scope # "FULL_SCOPE"
<1>1. Init => Inv
  BY DEF Init
<1>2. Inv /\ [Next]_vars => Inv' /\ [Step]_vars
  <2> SUFFICES ASSUME Inv, [Next]_vars PROVE Inv' /\ (UNCHANGED vars \/ Step)
    OBVIOUS
  <2>1. CASE UNCHANGED vars
    BY <2>1 DEF vars
  <2>2. CASE complete
    <3>1. revoked' = revoked /\ scope' = "none"
      BY <2>2 DEF complete, MockServes, MockFromCache, MockOutage, BedrockServes, TfyServes,
                  TfyFromCache, CompleteRaises, Served
    <3>2. QED
      BY <3>1
  <2>3. CASE AllowedScope
    BY <2>3 DEF AllowedScope
  <2>4. CASE TripKillSwitch
    BY <2>4 DEF TripKillSwitch
  <2>5. QED
    BY <2>1, <2>2, <2>3, <2>4 DEF Next
<1>3. QED
  BY <1>1, <1>2, PTL DEF Spec, NeverRegranted

-------------------------------------------------------------------------------
(* Types, and the brain that has nothing to say *)

LEMMA DeeperStays ==
  ASSUME NEW a \in 0..SEMANTIC_CACHE_TIER, NEW b \in 0..SEMANTIC_CACHE_TIER
  PROVE  Deeper(a, b) \in 0..SEMANTIC_CACHE_TIER
BY DEF Deeper, SEMANTIC_CACHE_TIER

LEMMA DeeperTogether ==
  ASSUME NEW a \in Nat, NEW b \in Nat, NEW x \in 0..a, NEW y \in 0..b
  PROVE  Deeper(x, y) \in 0..Deeper(a, b)
BY DEF Deeper

\* A completion is well typed if the tier that served it and the depth noted for it are,
\* and it shows no deeper tier than that.
LEMMA CompletionTyped ==
  ASSUME TypeOK, NEW t \in 0..SEMANTIC_CACHE_TIER, NEW w \in 0..t, NEW how \in Replies,
         max_depth' \in 0..SEMANTIC_CACHE_TIER, semantic_cache' \subseteq Prompts,
         Served(t, w, how)
  PROVE  TypeOK'
<1>1. deepest' \in 0..SEMANTIC_CACHE_TIER
  BY DeeperStays DEF TypeOK, Served
<1>2. witnessed' \in 0..deepest'
  <2>1. deepest \in Nat /\ t \in Nat /\ witnessed \in 0..deepest
    BY DEF TypeOK, SEMANTIC_CACHE_TIER
  <2>2. QED
    BY <2>1, DeeperTogether DEF Served
<1>3. answered' \in BOOLEAN
  BY DEF TypeOK, Served
<1>4. QED
  BY <1>1, <1>2, <1>3 DEF TypeOK, Served

LEMMA CompleteTyped ==
  ASSUME TypeOK, complete
  PROVE  TypeOK'
<1>0. \A t \in 0..SEMANTIC_CACHE_TIER : t \in 0..t
  BY DEF SEMANTIC_CACHE_TIER
<1>1. \A t \in FALLBACK_CHAIN \cup BEDROCK_FALLBACK_CHAIN : t \in 0..SEMANTIC_CACHE_TIER
  BY DEF FALLBACK_CHAIN, BEDROCK_FALLBACK_CHAIN, SEMANTIC_CACHE_TIER
<1>2. SEMANTIC_CACHE_TIER \in 0..SEMANTIC_CACHE_TIER
  BY DEF SEMANTIC_CACHE_TIER
<1>3. \A how \in {"live", "cache", "outage", "raised"} : how \in Replies
  BY DEF Replies
<1>4. \A d \in 0..SEMANTIC_CACHE_TIER : Deepen(d) => max_depth' \in 0..SEMANTIC_CACHE_TIER
  BY DeeperStays DEF Deepen, TypeOK
<1>5. ASSUME NEW p \in Prompts, MockServes(p) PROVE TypeOK'
  <2>1. PICK t \in FALLBACK_CHAIN : Deepen(t) /\ Warm(p, t) /\ Served(t, t, "live")
    BY <1>5 DEF MockServes
  <2>2. semantic_cache' \subseteq Prompts
    BY <2>1 DEF Warm, TypeOK
  <2>3. QED
    BY <2>1, <2>2, <1>1, <1>0, <1>3, <1>4, CompletionTyped
<1>6. CASE MockFromCache
  BY <1>6, <1>0, <1>2, <1>3, CompletionTyped DEF MockFromCache, TypeOK
<1>7. CASE MockOutage
  BY <1>7, <1>0, <1>2, <1>3, CompletionTyped DEF MockOutage, TypeOK
<1>8. CASE BedrockServes
  <2>1. PICK t \in BEDROCK_FALLBACK_CHAIN : Deepen(t) /\ Served(t, t, "live")
    BY <1>8 DEF BedrockServes
  <2>2. semantic_cache' \subseteq Prompts
    BY <1>8 DEF BedrockServes, TypeOK
  <2>3. QED
    BY <2>1, <2>2, <1>1, <1>0, <1>3, <1>4, CompletionTyped
<1>9. CASE TfyServes
  <2>1. PICK t \in FALLBACK_CHAIN, h \in Headers :
          Deepen(DepthFromHeaders(t, h)) /\ Served(t, Shows(t, h), "live")
    BY <1>9 DEF TfyServes
  <2>2. DepthFromHeaders(t, h) \in 0..SEMANTIC_CACHE_TIER
    <3>1. FamilyTier(t) \in 0..SEMANTIC_CACHE_TIER
      BY DEF FamilyTier, FALLBACK_CHAIN, SEMANTIC_CACHE_TIER
    <3>2. CASE h \in {"depth", "tier"}
      BY <3>2, <1>1 DEF DepthFromHeaders
    <3>3. CASE h = "backend"
      BY <3>3, <3>1 DEF DepthFromHeaders
    <3>4. CASE h \notin {"depth", "tier", "backend"}
      BY <3>4 DEF DepthFromHeaders, SEMANTIC_CACHE_TIER
    <3>5. QED
      BY <3>2, <3>3, <3>4
  <2>3. semantic_cache' \subseteq Prompts
    BY <1>9 DEF TfyServes, TypeOK
  <2>4. Shows(t, h) \in 0..t
    BY DEF Shows, FALLBACK_CHAIN
  <2>5. QED
    BY <2>1, <2>2, <2>3, <2>4, <1>1, <1>3, <1>4, CompletionTyped
<1>10. CASE TfyFromCache
  BY <1>10, <1>0, <1>2, <1>3, <1>4, CompletionTyped DEF TfyFromCache, TypeOK
<1>11. CASE CompleteRaises
  BY <1>11 DEF CompleteRaises, TypeOK, Replies
<1>12. QED
  BY <1>5, <1>6, <1>7, <1>8, <1>9, <1>10, <1>11 DEF complete

\* Every reachable state is of the declared type: the depth a run has noted never leaves
\* the tiers, whatever the headers of an answer say.
THEOREM GatewayTypeCorrect == Spec => []TypeOK
<1>1. Init => TypeOK
  <2>1. 0 \in 0..SEMANTIC_CACHE_TIER /\ 0 \in 0..0
    BY DEF SEMANTIC_CACHE_TIER
  <2>2. Init => revoked \in BOOLEAN /\ kill_switch \in BOOLEAN /\ answered \in BOOLEAN
    BY Zenon DEF Init
  <2>3. Init => /\ reply \in Replies
                /\ scope \in {"none", "FULL_SCOPE", "READ_ONLY"}
                /\ semantic_cache \subseteq Prompts
    BY DEF Init, Replies
  <2>4. QED
    BY <2>1, <2>2, <2>3, Zenon DEF Init, TypeOK
<1>2. TypeOK /\ [Next]_vars => TypeOK'
  <2> SUFFICES ASSUME TypeOK, [Next]_vars PROVE TypeOK'
    OBVIOUS
  <2>1. CASE UNCHANGED vars
    BY <2>1 DEF vars, brain, TypeOK
  <2>2. CASE complete
    BY <2>2, CompleteTyped
  <2>3. CASE AllowedScope
    <3>1. revoked' \in BOOLEAN /\ scope' \in {"none", "FULL_SCOPE", "READ_ONLY"}
      BY <2>3 DEF AllowedScope
    <3>2. QED
      BY <2>3, <3>1 DEF AllowedScope, brain, TypeOK
  <2>4. CASE TripKillSwitch
    BY <2>4 DEF TripKillSwitch, brain, TypeOK
  <2>5. QED
    BY <2>1, <2>2, <2>3, <2>4 DEF Next
<1>3. QED
  BY <1>1, <1>2, PTL DEF Spec

\* What keeps an outage from following an answer: an in-process run that has been
\* answered has something in its cache, and the cache only grows.
OutageInv ==
  /\ backend = "mock" /\ answered => semantic_cache # {}
  /\ OutageMeansNeverAnswered

\* The in-process brain gives up only in a run that has never been answered.
THEOREM OutageOnlyBeforeAnswers == Spec => []OutageMeansNeverAnswered
<1>1. Init => OutageInv
  BY DEF Init, OutageInv, OutageMeansNeverAnswered
<1>2. OutageInv /\ [Next]_vars => OutageInv'
  <2> SUFFICES ASSUME OutageInv, [Next]_vars PROVE OutageInv'
    OBVIOUS
  <2>1. CASE UNCHANGED vars
    BY <2>1 DEF vars, brain, OutageInv, OutageMeansNeverAnswered
  <2>2. ASSUME NEW p \in Prompts, MockServes(p) PROVE OutageInv'
    <3>1. semantic_cache' # {} /\ reply' = "live"
      BY <2>2 DEF MockServes, Warm, Served
    <3>2. QED
      BY <3>1 DEF OutageInv, OutageMeansNeverAnswered
  <2>3. CASE MockFromCache
    BY <2>3 DEF MockFromCache, Served, OutageInv, OutageMeansNeverAnswered
  <2>4. CASE MockOutage
    BY <2>4 DEF MockOutage, Served, OutageInv, OutageMeansNeverAnswered
  <2>5. CASE BedrockServes \/ TfyServes \/ TfyFromCache
    <3>1. backend' # "mock" /\ reply' \in {"live", "cache"}
      BY <2>5 DEF BedrockServes, TfyServes, TfyFromCache, Served
    <3>2. QED
      BY <3>1 DEF OutageInv, OutageMeansNeverAnswered
  <2>6. CASE CompleteRaises
    BY <2>6 DEF CompleteRaises, OutageInv, OutageMeansNeverAnswered
  <2>7. CASE AllowedScope \/ TripKillSwitch
    BY <2>7 DEF AllowedScope, TripKillSwitch, brain, OutageInv, OutageMeansNeverAnswered
  <2>8. QED
    BY <2>1, <2>2, <2>3, <2>4, <2>5, <2>6, <2>7 DEF Next, complete
<1>3. OutageInv => OutageMeansNeverAnswered
  BY DEF OutageInv
<1>4. QED
  BY <1>1, <1>2, <1>3, PTL DEF Spec
===============================================================================
