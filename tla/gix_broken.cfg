CONSTANTS
  w1 = w1
  w2 = w2
  w3 = w3
  a = a
  b = b
  absent = absent
  nobody = nobody
  Absent = absent
  Nobody = nobody
  Values = {a, b}
  Writers = {w1, w2, w3}
  Refs = {1, 2}
  Batches <- Turns
  Breakable = {w1, w2}
  Impatient = TRUE
SPECIFICATION Spec
INVARIANT TypeOK
INVARIANT LocksInUse
PROPERTY CompareAndSwap
PROPERTY ImplementsTornStore
SYMMETRY Alike
