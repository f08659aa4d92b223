CONSTANTS
  w1 = w1
  w2 = w2
  w3 = w3
  a = a
  b = b
  absent = absent
  nobody = nobody
  Absent = absent
  Nobody = nobody
  Values = {a, b}
  Writers = {w1, w2, w3}
  Refs = {1, 2, 3}
  Batches <- Circle
  Breakable = {}
  Impatient = FALSE
SPECIFICATION FairSpec
INVARIANT NoCircularWait
PROPERTY ImplementsRefStore
PROPERTY BatchesReturn
