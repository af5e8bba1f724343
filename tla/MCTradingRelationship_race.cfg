\* Two callers and one customer, every interleaving. No symmetry: AnswersEnd is a liveness property.
SPECIFICATION FairSpec
CONSTANTS
  NULL = NULL
  c1 = c1
  c2 = c2
  p1 = p1
  p2 = p2
  Customers = {c1}
  Callers = {p1, p2}
INVARIANT MembershipFollows
PROPERTIES ImplementsStatusSpec AccessMovesWithStatus BothSidesAgree AnswersEnd
