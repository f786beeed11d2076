SPECIFICATION Spec
CONSTANTS
  h1 = h1  h2 = h2  c1 = c1  c2 = c2  s1 = s1  s2 = s2
  agent = agent  operator = operator  i1 = i1
  p1 = p1  p2 = p2  r1 = r1  r2 = r2
  None = None
  Handler = {h1, h2}
  Credential = {c1}
  Session = {s1}
  Actor = {agent}
  Agent = {agent}
  IdKey = {i1}
  Hash = {p1}
  Response = {r1}
  Owner <- OneOwner
  Policy <- RightsPolicies
  Request <- RightsRequests
SYMMETRY Symmetry
INVARIANTS
  TypeOK
  RevokedKeysDoNotMutate
  WithinDelegation
  TouristContainment
  StatelessIgnoresSessions
