SPECIFICATION FairSpec
CONSTANTS
  Callers = {c1, c2}
  c1 = c1
  c2 = c2
  NoKey = NoKey
  Keys <- MCKeys
  MAX_RETRIES = 1
INVARIANT TypeOK
PROPERTIES
  ImplementsToolCall
  CallReturns
CHECK_DEADLOCK FALSE
