CONSTANTS
  j1 = j1
  j2 = j2
  jt = jt
  s1 = s1
  s2 = s2
  sb = sb
  sx = sx
  st = st
  t1 = t1
  t2 = t2
  tb = tb
  tt = tt
  n1 = n1
  n2 = n2
  k1 = k1
  c1 = c1
  c2 = c2
  c3 = c3
  Values = {j1, j2, jt}
  Bare = {t1, t2, tb, tt}
  Schemas = {s1, s2, sb, sx, st}
  StructSchemas = {s1, s2, sx, st}
  Universe = {s1, s2, sb, st}
  Encoding <- MCEncoding
  Kinds = {k1}
  Names = {n1, n2}
  KindOf <- MCKindOf
  Garbled = Garbled
  Foreign <- MCForeign
  Tombstone <- MCTombstone
  Runs = {c1, c2, c3}
  Scenarios <- MCScenarios
SPECIFICATION Spec
INVARIANT CommandsTypeOK
INVARIANT ShownCommitsStay
INVARIANT DocumentsPinned
INVARIANT PublishedAreBound
INVARIANT LinesAgree
PROPERTY NamesStayReadable
PROPERTY NotFoundMeansMissing
PROPERTY CommandsEnd
