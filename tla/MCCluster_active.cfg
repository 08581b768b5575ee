CONSTANTS
  n1 = n1
  n2 = n2
  c1 = c1
  c2 = c2
  Node <- TwoNodes
  Lease = {"service", "purge"}
  Service = "service"
  Role = {"purge"}
  EarlyRole = {"purge"}
  FrontConn <- OneConn
  WorkerConn = {}
  Mode = "active-active"
  MaxToken = 2
SPECIFICATION FairSpec
INVARIANTS
  FenceHolds
  KnownTokens
  LeaseRow
PROPERTIES
  RoleLed
  FencedLeaseSpec
