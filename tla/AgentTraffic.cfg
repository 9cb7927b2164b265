CONSTANTS
  a1 = a1  c1 = c1  c2 = c2  f1 = f1  f2 = f2
  r1 = r1  r2 = r2  r3 = r3  r4 = r4
  u1 = u1  h1 = h1  h2 = h2  p1 = p1
  NoConn = NoConn  NoAgent = NoAgent
  Other = Other  NoRun = NoRun  NoTarget = NoTarget  NoProbe = NoProbe
  Conns = {c1, c2}
  Agents = {a1}
  HostOf <- Hosts
  Runs = {f1, f2}
  Calls = {r1, r2, r3, r4}
  TargetOf <- Targets
  KindOf <- CallKinds
  MaxPending = 2
  Clients = {u1}
  MaxChanges = 3
  Agent = a1
  Handlers = {h1, h2}
  MaxRevisions = 3
  Probes = {p1}
SPECIFICATION TrafficSpec
INVARIANTS
  TrafficTypeOK
  FlagHasRequest
  NoOrphanPending
  QueueBalance
  ChangesAreShown
  ConnectedArePushed
  AlarmMatchesState
CHECK_DEADLOCK FALSE
