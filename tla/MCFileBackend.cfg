SPECIFICATION FairSpec
CONSTANTS
  NoKey = NoKey
  Procs = {p1, p2, p3}
  Keys = {k1, k2}
  Reconcilers = {p1, p2}
  MaxAudit = 1
INVARIANTS
  TypeOK
  OneWinner
PROPERTIES
  ImplementsCommitOnce
  ClaimReturns
