SPECIFICATION FairSpec
CONSTANTS
  f1 = f1
  f2 = f2
  f3 = f3
  Funcs <- MCFuncs
  Delays <- MCDelays
  MaxTime = 3
  None = None
INVARIANTS
  TypeOK
  ExactlyOnce
  NoLostNotify
PROPERTIES
  NeverEarly
  SameInOrder
  QueuedIsRun
