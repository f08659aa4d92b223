CONSTANTS
  n1 = n1
  n2 = n2
  k1 = k1
  d1 = d1
  d2 = d2
  c1 = c1
  c2 = c2
  c3 = c3
  c4 = c4
  c5 = c5
  c6 = c6
  c7 = c7
  c8 = c8
  c9 = c9
  c10 = c10
  Names = {n1, n2}
  Kinds = {k1}
  Docs = {d1, d2}
  MaxTime = 0
  Calls = {c1, c2, c3}
  KindOf <- MCKindOf
  Request <- AnonymousWorkload
  CommitName <- MCCommitName
  Contended = {}
SPECIFICATION FairSpec
PROPERTY CallsReturn
