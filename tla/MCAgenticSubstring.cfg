SPECIFICATION Spec
CONSTANTS
  revert = revert
  scale = scale
  read0 = read0
  read1 = read1
  read2 = read2
  read3 = read3
  NoKey = NoKey
  Workers = {w1}
  Keys = {revert, scale, read0, read1, read2, read3}
  Destructive = {revert, scale}
  Guarded = {}
  RealMode = TRUE
  GatewayDedups = TRUE
  MAX_RETRIES = 2
  Many = 2
  MaxSteps = 2
  KILL_SWITCH_MIN_ATTEMPTS = 3
  MaxCrashes = 1
  WindowCrashes = FALSE
  LiveReadable = {revert, scale}
  Mentions <- MCSubstring
  ReadKey <- MCReadKey
INVARIANT
  CommittedApplied
