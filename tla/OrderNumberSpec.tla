--------------------------- MODULE OrderNumberSpec ---------------------------
(***************************************************************************)
(* What order numbering promises a tenant: a counter.  Orders are numbered *)
(* 1, 2, 3 ... in the order they are placed, and a submission places one   *)
(* order at most, whatever it lost, retried or gave up on before.          *)
(***************************************************************************)
EXTENDS Naturals, Sequences

CONSTANT Requests

VARIABLE placed  \* placed[n]: the submission that placed order number n

Init == placed = <<>>

Place(r) ==
  /\ \A n \in 1..Len(placed) : placed[n] # r
  /\ placed' = Append(placed, r)

Next == \E r \in Requests : Place(r)

Spec == Init /\ [][Next]_placed
=============================================================================
