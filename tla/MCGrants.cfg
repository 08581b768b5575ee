CONSTANTS
  q1 = q1
  q2 = q2
  q3 = q3
  p1 = p1
  p2 = p2
  v1 = v1
  s1 = s1
  s2 = s2
  None = none
  Process <- TwoProcs
  Attempt <- ThreeRequests
  Value <- OneValue
  Drift <- OneLate
  Until <- ShortLife
  Skew = 3
  MaxTtl = 5
  MaxDelay = 1
  MaxTime = 4
  Server <- TwoServers
  Request <- ThreeRequests
  MaxTokens = 3
  MaxFaults = 1
SPECIFICATION Spec
SYMMETRY SymGrants
CHECK_DEADLOCK FALSE
INVARIANTS
  ClaimsTypeOK
  SoleHolder
  GrantTypeOK
  OneTokenSet
  SameAnswer
  RevokedBuysNothing
  ReplayCaught
PROPERTIES
  OnceSpec
