SPECIFICATION FairSpec
CONSTANTS
  Funcs = {f1, f2, f3}
INVARIANTS
  TypeOK
  ExecutedInOrder
  GracefulDrain
PROPERTIES
  QueuedIsRun
  JoinReturns
