SPECIFICATION FairSpec
CONSTANTS
  p1 = p1
  p2 = p2
  s1 = s1
  s2 = s2
  Peers <- MCPeers
  Senders <- MCSenders
  To <- ToFirst
  Retry <- RetryNone
  Known = {}
  AtMyHost <- MCAtMyHost
  MaxFd = 5
  Connects <- MCConnects
  Messages = 1
  Registers = 1
  Nobody = Nobody
PROPERTIES
  SendEnds
  OwnerReturns
CHECK_DEADLOCK FALSE
