-------------------------- MODULE MCOrderLifecycle --------------------------
(* Small instances of OrderLifecycle.                                      *)
EXTENDS OrderLifecycleProperties, TLC

CONSTANTS o1, o2, l1, l2, l3, d1, d2, m1

In(l, q, why) == [line |-> l, qty |-> q, reason |-> why]

\* One order of two lines, two units of the first and one of the second.
TwoLines == [l \in {l1, l2} |-> o1]
TwoQty   == [l \in {l1, l2} |-> IF l = l1 THEN 2 ELSE 1]

\* A third line, of another order, which must not be accepted for the first.
ThreeLines == [l \in {l1, l2, l3} |-> IF l = l3 THEN o2 ELSE o1]
ThreeQty   == [l \in {l1, l2, l3} |-> IF l = l1 THEN 2 ELSE 1]

\* In full; reduced with a reason, in the other line order; and one that
\* names half the lines.
RaceInputs ==
  {<<In(l1, 2, FALSE), In(l2, 1, FALSE)>>,
   <<In(l2, 0, TRUE), In(l1, 1, TRUE)>>,
   <<In(l1, 1, TRUE)>>}

\* Every way a line list can be wrong, and two that are right.
AllInputs ==
  {<<In(l1, 2, FALSE), In(l2, 1, FALSE)>>,
   <<In(l2, 0, TRUE), In(l1, 1, TRUE)>>,
   <<In(l1, 1, TRUE)>>,
   <<In(l1, 3, TRUE), In(l2, 1, FALSE)>>,
   <<In(l1, -1, TRUE), In(l2, 1, FALSE)>>,
   <<In(l1, 0, FALSE), In(l2, 1, FALSE)>>,
   <<In(l1, 2, FALSE), In(l2, 1, FALSE), In(l3, 1, FALSE)>>,
   <<In(l3, 0, TRUE)>>}

Symmetry == Permutations(Requests) \cup Permutations({d1, d2})
=============================================================================
