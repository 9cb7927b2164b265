CONSTANTS
  a1 = a1  a2 = a2  c1 = c1  c2 = c2  c3 = c3  r1 = r1  r2 = r2
  NoConn = NoConn  NoClient = NoClient  NoCommand = NoCommand
  NoAgent = NoAgent
  Conns = {c1, c2, c3}
  Agents = {a1, a2}
  HostOf <- Hosts
  Clients = {u1, u2}
  Keys = {k1}
  Requests = {r1, r2}
  TargetOf <- Targets
SPECIFICATION MessagesSpec
INVARIANTS
  RoutingTypeOK
  NothingOwnedByGone
  HeldUntilRevoked
  DispatchTypeOK
  NoLeakedWaiter
  WaiterFindable
  AnsweredByTarget
PROPERTIES
  ImplementsOwnership
  AbandonedIsFreed
  EveryCallEnds
  WaitersDrain
CHECK_DEADLOCK FALSE
