SPECIFICATION Spec
CONSTANTS
  Callbacks = {c1}
  Throwing = {}
  Waiters = {w1}
  Owner = owner
  None = None
INVARIANTS
  GetResultBlocks
