SPECIFICATION Spec
CONSTANTS
  Readers = {r1, r2}
  Writers = {w1, w2, w3}
  Closers = {c1, c2}
  Capacities <- MCCapacities
  SizeModulus <- MCSizeModulus
  NoValue = NoValue
SYMMETRY Symmetry
INVARIANTS
  TypeOK
  WaitersMatchBuffer
  NoDoubleResume
  NoneForgotten
  NoLossWhileOpen
  NoDuplicate
  NoEmptyResult
  ClosedIsEmpty
