SPECIFICATION FairSpec
CONSTANTS
  o1 = o1
  o2 = o2
  l1 = l1
  l2 = l2
  l3 = l3
  d1 = d1
  d2 = d2
  m1 = m1
  NULL = NULL
  Orders = {o1}
  Lines = {l1, l2}
  orderOf <- TwoLines
  requestedQty <- TwoQty
  Memberships = {d1, d2, m1}
  Drivers = {d1, d2}
  Requests = {r1, r2, r3, r4}
  ConfirmInputs <- RaceInputs
PROPERTY MovesAlwaysLegal
