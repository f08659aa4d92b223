CONSTANTS
  n1 = n1
  n2 = n2
  k1 = k1
  k2 = k2
  d1 = d1
  d2 = d2
  c1 = c1
  c2 = c2
  c3 = c3
  t1 = t1
  t2 = t2
  Names = {n1, n2}
  Kinds = {k1, k2}
  Docs = {d1, d2}
  MaxTime = 0
  Calls = {c1, c2, c3}
  Txns = {t1, t2}
  KindOf <- MCKindOf
  Request <- BothWorkload
  Staged <- BothStaged
  CommitName <- MCCommitName
  Contended = {c1, c2, c3, t1, t2}
SPECIFICATION TxSpec
INVARIANT ReturnedStaysReachable
INVARIANT AcknowledgedStaysReachable
INVARIANT IndexWithinHistory
INVARIANT TombstonesNameBeneath
PROPERTY ImplementsTransactionLog
