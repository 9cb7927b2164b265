CONSTANTS
  c1 = c1  c2 = c2  c3 = c3  c4 = c4
  a1 = a1  a2 = a2  k1 = k1  k2 = k2
  NoConn = NoConn
  NoAgent = NoAgent
  Conns = {c1, c2, c3, c4}
  Agents = {a1}
  Tokens = {k1}
  HostOf <- OneAgentHosts
  TokenOf <- OneToken
  Legacy = {}
  Compatible = {c1, c2, c3}
  Overlap = TRUE
SPECIFICATION Spec
INVARIANTS
  TypeOK
  NoGhostAgent
  NewestOwnsId
  PendingHasTimer
  AnswerOnce
PROPERTIES
  PendingResolves
  ImplementsRegistry
CHECK_DEADLOCK FALSE
