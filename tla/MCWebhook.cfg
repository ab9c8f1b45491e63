SPECIFICATION FairSpec
CONSTANTS
  Clients = {c1, c2}
  c1 = c1
  c2 = c2
  Requests = {r1, r2}
  r1 = r1
  r2 = r2
  NoClient = NoClient
  Unit = 3
  Rate = 2
  Burst = 6
  CLEANUP_INTERVAL = 1
  IDLE_EVICTION = 3
  DRAIN_TIMEOUT = 2
  MaxTime = 5
INVARIANTS TypeOK WaitingIsEnough NoRunCutOff
PROPERTIES ImplementsTokenBucket DrainEnds
CHECK_DEADLOCK FALSE
