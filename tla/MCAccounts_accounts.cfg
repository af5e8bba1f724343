SPECIFICATION FairSpec
CONSTANTS
  None = None
  Inactive = Inactive
  u1 = u1
  u2 = u2
  t1 = t1
  t2 = t2
  k1 = k1
  k2 = k2
  p1 = p1
  p2 = p2
  Users = {u1, u2}
  Tenants = {t1, t2}
  Customers = {k1, k2}
  TenantOf <- MCTenantOf
  PlatformAdmins = {u2}
  Operators = {p1, p2}
  MaxStarts = 2
  Installations <- MCInstallations
CHECK_DEADLOCK FALSE
INVARIANTS ActsOnlyWhileOn ChosenSellerKept AccessNotLost OneBootstrap DoneMeansDone AccountsReconcile
PROPERTY NavigationsSettle
