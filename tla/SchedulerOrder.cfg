SPECIFICATION Spec
CONSTANTS
  f1 = f1
  f2 = f2
  f3 = f3
  Funcs <- MCFuncs
  Delays <- MCDelays
  MaxTime = 4
  None = None
PROPERTIES
  EarliestFirst
