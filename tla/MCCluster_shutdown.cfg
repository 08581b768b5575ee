CONSTANTS
  n1 = n1
  n2 = n2
  c1 = c1
  c2 = c2
  Node <- TwoNodes
  Lease = {"service"}
  Service = "service"
  Role = {}
  EarlyRole = {}
  FrontConn <- TwoConns
  WorkerConn = {}
  Mode = "active-passive"
  MaxToken = 2
SPECIFICATION Spec
SYMMETRY Sym
INVARIANTS
  OneWriterAlways
