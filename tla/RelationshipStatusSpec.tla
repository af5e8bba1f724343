------------------------ MODULE RelationshipStatusSpec ------------------------
(***************************************************************************)
(* What a trading relationship promises: its status moves along a machine, *)
(* each time by a decision about the status it has, and the audit log      *)
(* tells every move.                                                       *)
(***************************************************************************)
VARIABLES
  status,
  entry  \* the last audit entry: the move it tells

Moves ==
  {<<"NONE", "PENDING">>, <<"PENDING", "ACTIVE">>, <<"PENDING", "DECLINED">>,
   <<"ACTIVE", "REVOKED">>, <<"DECLINED", "PENDING">>, <<"REVOKED", "PENDING">>}

Init == status = "NONE" /\ entry = [old |-> "NONE", new |-> "NONE"]

Move(to) ==
  /\ <<status, to>> \in Moves
  /\ status' = to
  /\ entry' = [old |-> status, new |-> to]

Next == \E to \in {"PENDING", "ACTIVE", "DECLINED", "REVOKED"} : Move(to)

Spec == Init /\ [][Next]_<<status, entry>>
=============================================================================
