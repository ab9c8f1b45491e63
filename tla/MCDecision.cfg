SPECIFICATION DecisionSpec
CONSTANTS
  read0 = read0
  read1 = read1
  read2 = read2
  NoKey = NoKey
  None = None
  Workers = {w1}
  Keys <- MCKeys
  Destructive <- MCDestructive
  Guarded <- MCDestructive
  RealMode = FALSE
  GatewayDedups = FALSE
  MAX_RETRIES = 0
  Many = 2
  MaxSteps = 2
  KILL_SWITCH_MIN_ATTEMPTS = 1
  MaxCrashes = 1
  WindowCrashes = FALSE
  LiveReadable = {}
  Mentions <- MCDistinct
  ReadKey <- MCReadKey
  MIN_REPLICA_FLOOR = 2
  PROD_CRITICAL_NAMESPACES = {"prod"}
  Secrets = {"token=1"}
  SecretFields = {"api_key"}
  Texts <- MCTexts
INVARIANTS
  DecisionTypeOK
  Recoverable
  LeashHolds
  SafelyApplied
PROPERTIES
  ExactlyOnce
  WriteAhead
  RecordedEventually
  RunTerminates
