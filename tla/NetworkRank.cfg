SPECIFICATION Spec
CONSTANTS
  p1 = p1
  p2 = p2
  s1 = s1
  s2 = s2
  Peers <- MCPeers
  Senders <- MCSenders
  To <- ToFirst
  Retry <- RetryNone
  Known = {p1}
  AtMyHost <- MCAtMyHost
  MaxFd = 5
  Connects <- MCConnects
  Messages = 0
  Registers = 0
  Nobody = Nobody
INVARIANTS
  SentToRank
CHECK_DEADLOCK FALSE
