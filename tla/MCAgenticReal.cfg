SPECIFICATION Spec
CONSTANTS
  revert = revert
  scale = scale
  read0 = read0
  read1 = read1
  read2 = read2
  read3 = read3
  NoKey = NoKey
  Workers = {w1, w2}
  Keys = {revert, read0}
  Destructive = {revert}
  Guarded = {revert}
  RealMode = TRUE
  GatewayDedups = TRUE
  MAX_RETRIES = 1
  Many = 2
  MaxSteps = 1
  KILL_SWITCH_MIN_ATTEMPTS = 3
  MaxCrashes = 1
  WindowCrashes = TRUE
  LiveReadable = {revert}
  Mentions <- MCDistinct
  ReadKey <- MCReadKey
SYMMETRY MCSymmetry
INVARIANTS
  CommittedApplied
  ReportedApplied
