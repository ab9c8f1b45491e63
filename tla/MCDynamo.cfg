SPECIFICATION FairSpec
CONSTANTS
  NoKey = NoKey
  Procs = {p1, p2}
  Keys = {k1}
  Reconcilers = {p1}
  SdkRetries = TRUE
  MAX_ATTEMPTS = 3
  MaxAudit = 2
INVARIANTS
  TypeOK
  OneWinner
  ReturnedIsWritten
PROPERTIES
  AppendOnly
  AppendReturns
