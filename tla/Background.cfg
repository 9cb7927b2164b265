CONSTANTS
  a1 = a1  a2 = a2  c1 = c1  c2 = c2  c3 = c3
  j1 = j1  j2 = j2  s1 = s1  s2 = s2
  NoConn = NoConn  NoJob = NoJob
  Conns = {c1, c2, c3}
  Agents = {a1, a2}
  HostOf <- Hosts
  Jobs = {j1, j2}
  OwnerOf <- Owners
  MaxInFlight = 2
  Sinks = {s1, s2}
  MaxEvents = 5
  QueueCap = 2
  MaxDeliveries = 2
SPECIFICATION BackgroundSpec
INVARIANTS
  BackgroundTypeOK
  RunningIsReal
PROPERTIES
  DueJobsStart
  EventsAreRecorded
CHECK_DEADLOCK FALSE
