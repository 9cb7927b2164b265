CONSTANTS
  call1 = call1  call2 = call2  name1 = name1  name2 = name2  name3 = name3
  d1 = d1  i1 = i1  k1 = k1  once = once  again = again
  NoDevice = NoDevice  NoHost = NoHost  NoLogin = NoLogin
  NoInvite = NoInvite  NoRequest = NoRequest
  Devices = {}
  PurposeOf <- NoPurpose
  Polls = {}
  Refreshes = {}
  Hostnames = {}
  MaxTokens = 0
  Logins = {name1, name2}
  Bootstrap = name2
  SignIns = {call1}
  Changes = {once, again}
  Invites = {}
  MaxSeats = 2
  Exchanges = {}
  Bumps = {}
  Codes = {k1}
  MaxFails = 1
  LockTime = 1
  MaxClock = 2
  MaxSessions = 3
  Requests = {}
  Deliveries = {}
  Skew = 1
  NonceTtl = 3
  MaxDelay = 1
  MaxNow = 6
SPECIFICATION AccessSpec
INVARIANTS
  AdminRemains
CHECK_DEADLOCK FALSE
