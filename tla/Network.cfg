SPECIFICATION Spec
CONSTANTS
  p1 = p1
  p2 = p2
  s1 = s1
  s2 = s2
  Peers <- MCPeers
  Senders <- MCSenders
  To <- ToEach
  Retry <- RetryOnce
  Known = {p1}
  AtMyHost <- MCAtMyHost
  MaxFd = 6
  Connects <- MCConnects
  Messages = 0
  Registers = 0
  Nobody = Nobody
INVARIANTS
  TypeOK
  OnlyEntriesMislead
  OwnSocket
CHECK_DEADLOCK FALSE
