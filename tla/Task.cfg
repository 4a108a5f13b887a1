SPECIFICATION FairSpec
CONSTANTS
  Callbacks = {c1, c2, c3}
  Throwing = {c3}
  Waiters = {w1, w2}
  Owner = owner
  None = None
INVARIANTS
  TypeOK
  CalledOnce
  SameOutcome
  DestroyedLast
PROPERTIES
  RegisteredIsCalled
  GetResultReturns
