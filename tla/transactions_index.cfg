CONSTANTS
  n1 = n1
  n2 = n2
  k1 = k1
  k2 = k2
  d1 = d1
  d2 = d2
  c1 = c1
  c2 = c2
  c3 = c3
  t1 = t1
  t2 = t2
  Names = {n1, n2}
  Kinds = {k1}
  Docs = {d1, d2}
  MaxTime = 0
  Calls = {c1}
  Txns = {t1}
  KindOf <- BesideKindOf
  Request <- BesideWorkload
  Staged <- BesideStaged
  CommitName <- MCCommitName
  Contended = {}
SPECIFICATION TxSpec
INVARIANT IndexMatchesEntities
