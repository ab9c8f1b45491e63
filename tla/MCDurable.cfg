SPECIFICATION Spec
CONSTANTS
  Handles = {h1}
  h1 = h1
  Keys = {k1, k2}
  k1 = k1
  k2 = k2
  NoKey = NoKey
  MaxLength = 2
INVARIANTS TypeOK ReturnedIsDurable
PROPERTY ImplementsIncidentRecord
