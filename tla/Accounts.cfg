CONSTANTS
  call1 = call1  call2 = call2  name1 = name1  name2 = name2  name3 = name3
  d1 = d1  i1 = i1  k1 = k1  once = once  again = again
  NoDevice = NoDevice  NoHost = NoHost  NoLogin = NoLogin
  NoInvite = NoInvite  NoRequest = NoRequest
  Devices = {d1}
  PurposeOf <- CliPurpose
  Polls = {call1, call2}
  Refreshes = {once}
  Hostnames = {name1, name2}
  MaxTokens = 2
  Logins = {name1, name2, name3}
  Bootstrap = NoLogin
  SignIns = {call1, call2}
  Changes = {once}
  Invites = {i1}
  MaxSeats = 2
  Exchanges = {call1, call2}
  Bumps = {name1, name2}
  Codes = {k1}
  MaxFails = 1
  LockTime = 1
  MaxClock = 2
  MaxSessions = 3
  Requests = {name1, name2}
  Deliveries = {call1, call2}
  Skew = 1
  NonceTtl = 3
  MaxDelay = 1
  MaxNow = 6
SPECIFICATION AccessSpec
INVARIANTS
  AccessTypeOK
  OneGrantPerCode
  RevokedStaysOut
  SeatsKept
  EndedStaysEnded
  HandledOnce
SYMMETRY Alike
CHECK_DEADLOCK FALSE
