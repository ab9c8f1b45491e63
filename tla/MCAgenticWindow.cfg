SPECIFICATION Spec
CONSTANTS
  revert = revert
  scale = scale
  read0 = read0
  read1 = read1
  read2 = read2
  read3 = read3
  NoKey = NoKey
  Workers = {w1}
  Keys = {revert, scale, read0, read1, read2, read3}
  Destructive = {revert, scale}
  Guarded = {scale}
  RealMode = FALSE
  GatewayDedups = FALSE
  MAX_RETRIES = 0
  Many = 2
  MaxSteps = 2
  KILL_SWITCH_MIN_ATTEMPTS = 3
  MaxCrashes = 2
  WindowCrashes = TRUE
  LiveReadable = {revert}
  Mentions <- MCDistinct
  ReadKey <- MCReadKey
INVARIANT
  NoDoubleExecution
