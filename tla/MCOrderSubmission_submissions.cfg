SPECIFICATION FairSpec
CONSTANTS
  c1 = c1
  c2 = c2
  a1 = a1
  u1 = u1
  u2 = u2
  r1 = r1
  r2 = r2
  r3 = r3
  NULL = NULL
  Customers = {c1, c2}
  Addresses = {a1}
  addressOf <- OneAddress
  Units = {u1, u2}
  Mixes <- MCMixes
  Prices = {p1}
  Requests <- MCRequests
  MAX_ORDER_NUMBER_ATTEMPTS = 2
  MaxEdits = 1
INVARIANTS
  OrdersMatchCarts
  AttemptsCounted
PROPERTIES
  ImplementsNumberSpec
  SubmissionsEnd
