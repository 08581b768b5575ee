CONSTANTS
  Parts = {"lists"}
  n1 = n1
  n2 = n2
  d1 = d1
  d2 = d2
  va = va
  vb = vb
  m1 = m1
  m2 = m2
  e1 = e1
  e2 = e2
  e3 = e3
  h1 = h1
  r1 = r1
  r2 = r2
  Absent = absent
  Node <- TwoNodes
  Dn <- OneDn
  Member <- TwoMembers
  Author <- ByEach
  Home <- AtD1
  Uuid <- ThreeUuids
  Born <- FarApart
  Window = 1
  Seeded <- OneSeeded
  InOrder = TRUE
  MaxChanges = 3
  MaxTroubles = 1
  Minter <- TwoMinters
  Handle <- OneHandle
  Party <- TwoParties
  MaxWrites = 3
  MaxMishaps = 1
  f1 = f1
  f2 = f2
  f3 = f3
  b1 = b1
  b2 = b2
  b3 = b3
  p1 = p1
  p2 = p2
  c1 = c1
  z1 = z1
  Spend <- Spends3
  Challenge = {z1}
  NoChallenge = nochallenge
  MaxCount = 2
  Signer <- TwoSigners
  Build <- Builds3
  Serial = {c1}
  Ahead <- OneAhead
  MaxRounds = 2
  MaxInstant = 2
  Key = {1, 2}
  Holder = {n1, n2}
  Kinds = {"minted", "change", "heartbeat", "acquire", "join"}
  Worker <- TwoMinters
  Exchange <- Exchanges3
  MaxLosses = 1
SPECIFICATION Spec
CHECK_DEADLOCK FALSE
INVARIANTS
  NewerListHigher
