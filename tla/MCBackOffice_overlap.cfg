SPECIFICATION Spec
CONSTANTS
  t1 = t1
  t2 = t2
  g1 = g1
  g2 = g2
  g3 = g3
  g4 = g4
  g9 = g9
  m1 = m1
  m2 = m2
  p1 = p1
  p2 = p2
  p3 = p3
  p9 = p9
  u1 = u1
  u2 = u2
  l1 = l1
  l2 = l2
  l9 = l9
  k1 = k1
  k2 = k2
  k3 = k3
  i1 = i1
  i2 = i2
  i3 = i3
  s1 = s1
  s2 = s2
  s3 = s3
  b1 = b1
  v1 = v1
  v2 = v2
  A = A
  B = B
  C = C
  NULL = NULL
  SAME = SAME
  YES = YES
  NO = NO
  VISIBLE = VISIBLE
  HIDDEN = HIDDEN
  Rows <- MCRows
  kindOf <- MCKind
  Seed <- MCSeed
  Callers = {s1, s2, s3}
  tenantOf <- MCTenant
  roleOf <- MCRole
  Readers = {b1}
  customerOf <- MCCustomer
  unitOf <- MCUnit
  Forms <- MCForms
  Files <- MCFiles
  Values <- MCValues
  MaxCalls = 2
PROPERTY AbsentColumnsUntouched
