\* Two callers and two customers, every interleaving.
SPECIFICATION Spec
CONSTANTS
  NULL = NULL
  c1 = c1
  c2 = c2
  p1 = p1
  p2 = p2
  Customers = {c1, c2}
  Callers = {p1, p2}
SYMMETRY Symmetric
INVARIANT NoAccessWithoutRelationship
