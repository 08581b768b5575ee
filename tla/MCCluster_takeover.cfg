CONSTANTS
  n1 = n1
  n2 = n2
  c1 = c1
  c2 = c2
  Node <- TwoNodes
  Lease = {"service"}
  Service = "service"
  Role = {}
  EarlyRole = {}
  FrontConn <- OneConn
  WorkerConn = {"w1"}
  Mode = "active-passive"
  MaxToken = 2
SPECIFICATION FairSpec
INVARIANTS
  TypeOK
  OneWriter
  ServiceFenced
PROPERTIES
  CommitOrder
  Takeover
  DeposedLearns
