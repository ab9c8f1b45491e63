SPECIFICATION Spec
CONSTANTS
  Backends = {"tfy"}
  Prompts = {p1}
  p1 = p1
  Headers = {"depth", "backend", "tier", "target"}
INVARIANT AuthorityFollowsBrain
