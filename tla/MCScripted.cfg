SPECIFICATION ScriptsSpec
CONSTANTS
  diag_key = diag_key
  revert_key = revert_key
  cordon_key = cordon_key
  NoKey = NoKey
  Workers = {w1}
  Keys = {diag_key, revert_key, cordon_key}
  Destructive = {revert_key, cordon_key}
  Guarded = {}
  RealMode = FALSE
  GatewayDedups = FALSE
  MAX_RETRIES = 0
  Many = 2
  KILL_SWITCH_MIN_ATTEMPTS = 3
  MaxCrashes = 3
  WindowCrashes = FALSE
  LiveReadable = {revert_key, cordon_key}
  Mentions <- MCMentions
CHECK_DEADLOCK FALSE
INVARIANTS
  ScriptsTypeOK
  ResolvedUnlessLeashed
  PassMeansExactlyOnce
PROPERTIES
  ExactlyOnce
  ReplayTellsTruth
