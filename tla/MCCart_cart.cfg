SPECIFICATION Spec
CONSTANTS
  None = None
  t1 = t1
  t2 = t2
  k1 = k1
  k2 = k2
  a = a
  b = b
  A = A
  B = B
  Tabs = {t1, t2}
  Customers = {k1, k2}
  Units = {a, b}
  TenantOf <- MCTenantOf
  Orderable = {2}
  Browsers <- MCBrowsers
SYMMETRY Symmetric
INVARIANTS CartAccounted ShownIsCart
