CONSTANTS
  call1 = call1  call2 = call2  name1 = name1  name2 = name2  name3 = name3
  d1 = d1  i1 = i1  k1 = k1  once = once  again = again
  NoDevice = NoDevice  NoHost = NoHost  NoLogin = NoLogin
  NoInvite = NoInvite  NoRequest = NoRequest
  Devices = {d1}
  PurposeOf <- AgentPurpose
  Polls = {call1}
  Refreshes = {once, again}
  Hostnames = {name1}
  MaxTokens = 3
  Logins = {name1}
  Bootstrap = NoLogin
  SignIns = {}
  Changes = {}
  Invites = {}
  MaxSeats = 2
  Exchanges = {}
  Bumps = {}
  Codes = {k1}
  MaxFails = 1
  LockTime = 1
  MaxClock = 2
  MaxSessions = 3
  Requests = {}
  Deliveries = {}
  Skew = 1
  NonceTtl = 3
  MaxDelay = 1
  MaxNow = 6
SPECIFICATION AccessSpec
INVARIANTS
  RefreshOnce
CHECK_DEADLOCK FALSE
