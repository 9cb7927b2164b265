CONSTANTS
  a1 = a1  a2 = a2
  c1 = c1  c2 = c2  c3 = c3
  r1 = r1  r2 = r2
  NoConn = NoConn
  NoAgent = NoAgent
  Conns = {c1, c2, c3}
  Agents = {a1, a2}
  Requests = {r1, r2}
  HostOf <- TwoHosts
  TargetOf <- Targets
SPECIFICATION DispatchSpec
PROPERTIES
  CancelsOnlyLost
CHECK_DEADLOCK FALSE
