SPECIFICATION Spec
CONSTANTS
  Backends = {"mock", "bedrock", "tfy"}
  Prompts = {p1, p2}
  p1 = p1
  p2 = p2
  Headers = {"depth", "backend", "tier", "target", "none"}
INVARIANTS TypeOK AuthorityFollowsWitness OutageMeansNeverAnswered
PROPERTY NeverRegranted
