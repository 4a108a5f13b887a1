SPECIFICATION FairSpec
CONSTANTS
  long = long
  short = short
  Senders <- MCSenders
  Contents <- MCContents
  SizeBase = 2
  Window = 17
  ReceiveBuff = 4
INVARIANTS
  TypeOK
  MessagesIntact
PROPERTIES
  SentIsDelivered
