CONSTANTS
  n1 = n1
  n2 = n2
  k1 = k1
  d1 = d1
  d2 = d2
  c1 = c1
  c2 = c2
  c3 = c3
  c4 = c4
  r1 = r1
  Names = {n1, n2}
  Kinds = {k1}
  Docs = {d1, d2}
  MaxTime = 0
  Calls = {c1, c2, c3, c4}
  KindOf <- MCKindOf
  Request <- ReadersWorkload
  CommitName <- MCCommitName
  Contended = {}
  Readers = {r1}
  Queries <- MCQueries
SPECIFICATION ReadSpec
INVARIANT ReadTypeOK
INVARIANT RowsWereHeld
INVARIANT ListingsAgree
INVARIANT VersionsBelong
