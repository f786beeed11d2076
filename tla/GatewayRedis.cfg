SPECIFICATION DeploymentSpec
CONSTANTS
  h1 = h1  h2 = h2  c1 = c1  c2 = c2  s1 = s1  s2 = s2
  agent = agent  operator = operator  i1 = i1
  p1 = p1  p2 = p2  r1 = r1  r2 = r2
  None = None
  Handler = {h1, h2}
  Credential = {c1}
  Session = {s1}
  Actor = {agent}
  Agent = {}
  IdKey = {i1}
  Hash = {p1, p2}
  Response = {r1, r2}
  TTL = 1
  MaxResends = 1
  Owner <- OneOwner
  Policy <- NoPolicies
  Request <- RedisRequests
SYMMETRY Symmetry
INVARIANTS
  RepliesAgree
PROPERTIES
  ImplementsGateway
