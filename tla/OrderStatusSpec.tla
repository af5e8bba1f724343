--------------------------- MODULE OrderStatusSpec --------------------------
(***************************************************************************)
(* What the order services promise about an order's status, with no        *)
(* transactions, rows or audit log: a status moves along the machine.      *)
(*                                                                         *)
(* One at a time, a request moves the order from the status it is in.      *)
(* Concurrent requests move it from a status it has been in: each step is  *)
(* an edge of the machine out of some status the order really had, and     *)
(* that is all that reading and then writing at READ COMMITTED leaves.     *)
(***************************************************************************)
EXTENDS OrderStatusMachine

CONSTANT Orders

VARIABLES
  status,  \* the current status of each order
  past,    \* every status each order has had
  raced    \* whether requests have come together

Init ==
  /\ status = [o \in Orders |-> "SUBMITTED"]
  /\ past = [o \in Orders |-> {"SUBMITTED"}]
  /\ raced = FALSE

Sources(o) == IF raced THEN past[o] ELSE {status[o]}

Move(o, to) ==
  /\ \E from \in Sources(o) : isValidOrderTransition(from, to)
  /\ status' = [status EXCEPT ![o] = to]
  /\ past' = [past EXCEPT ![o] = @ \cup {to}]
  /\ UNCHANGED raced

Race == raced' = TRUE /\ UNCHANGED <<status, past>>

Next == Race \/ \E o \in Orders, to \in OrderStatus : Move(o, to)

Spec == Init /\ [][Next]_<<status, past, raced>>
=============================================================================
