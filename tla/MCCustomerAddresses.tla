------------------------- MODULE MCCustomerAddresses -------------------------
(* CustomerAddresses for TLC.                                              *)
EXTENDS CustomerAddressesProperties, TLC

CONSTANTS la, lb

Form(l, d) == [label |-> l, isDefault |-> d, isActive |-> TRUE]
FileRow(l, d, ok) == [label |-> l, isDefault |-> d, isActive |-> TRUE, ok |-> ok]

AnyForm == {Form(l, d) : l \in Labels, d \in BOOLEAN}

\* Every two rows, a repeated label and two defaults included; and files
\* without the column isDefault, with a row that cannot be read between two
\* others, of which the second may have an error.
AnyFile ==
  {[rows |-> <<FileRow(l, d, TRUE), FileRow(m, e, TRUE)>>,
    hasDefault |-> TRUE, hasActive |-> TRUE] : l, m \in Labels, d, e \in BOOLEAN}
  \cup
  {[rows |-> <<FileRow(l, FALSE, TRUE), NULL, FileRow(m, FALSE, ok)>>,
    hasDefault |-> FALSE, hasActive |-> ok] : l, m \in Labels, ok \in BOOLEAN}

Symmetric == Permutations(Callers) \cup Permutations(Ids) \cup Permutations(Labels)
=============================================================================
