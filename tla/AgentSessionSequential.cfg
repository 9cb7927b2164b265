CONSTANTS
  c1 = c1  c2 = c2  c3 = c3  c4 = c4
  a1 = a1  a2 = a2  k1 = k1  k2 = k2
  NoConn = NoConn
  NoAgent = NoAgent
  Conns = {c1, c2, c3, c4}
  Agents = {a1, a2}
  Tokens = {k1, k2}
  HostOf <- TwoHosts
  TokenOf <- TwoTokens
  Legacy = {k2}
  Compatible = {c1, c2, c3}
  Overlap = FALSE
SPECIFICATION AlertsSpec
INVARIANTS
  GoneIsTracked
  ConfirmedMeansGone
PROPERTIES
  FiresOwnEntry
  StrandedIsSurfaced
CHECK_DEADLOCK FALSE
