SPECIFICATION FairSpec
CONSTANTS
  Readers = {r1, r2}
  Writers = {w1, w2}
  Closers = {c1}
  Capacities = {0, 1}
  SizeModulus <- MCSizeModulus
  NoValue = NoValue
PROPERTIES
  ImplementsFifo
  CloseWakesWaiters
