---------------------- MODULE TradingRelationshipProofs ----------------------
(* Proofs about TradingRelationship: the status machine and its audit log    *)
(* whatever the interleaving, and consent and access for one call at a time. *)
EXTENDS TradingRelationshipProperties, TLAPS

USE TradingRelationshipAssumption

-----------------------------------------------------------------------------
(* The inductive invariant.  The UPDATE that repeats the status holds the    *)
(* row until the commit, so the status that was read is then the row's.      *)

Moves ==
  {<<"NONE", "PENDING">>, <<"PENDING", "ACTIVE">>, <<"PENDING", "DECLINED">>,
   <<"ACTIVE", "REVOKED">>, <<"DECLINED", "PENDING">>, <<"REVOKED", "PENDING">>}

Decides(p) == <<statusOf(seen[p]), StatusBy(call[p].op)>> \in Moves

CallOK(p) ==
  /\ pc[p] = "idle" => call[p] = NULL /\ seen[p] = NULL /\ newRow[p] = NULL /\ newMember[p] = NULL
  /\ pc[p] # "idle" => call[p] \in Call
  /\ seen[p] # NULL => row # NULL
  /\ pc[p] \in {"readRow", "aborted", "insertRow", "writeRow"} => newRow[p] = NULL
  /\ pc[p] = "checkCustomer" => newRow[p] = NULL /\ newMember[p] = NULL
  /\ pc[p] = "checkCustomer" /\ call[p].op # "invite" =>
       call[p].op \in Accepting /\ seen[p] # NULL /\ Decides(p)
  /\ pc[p] = "insertRow" => call[p].op \in Connecting /\ seen[p] = NULL
  /\ pc[p] = "writeRow" => seen[p] # NULL /\ Decides(p)
  /\ pc[p] \in {"readRow", "insertRow", "aborted"} => newMember[p] = NULL
  /\ pc[p] = "readRow" /\ seen[p] # NULL => call[p].op \in Connecting
  /\ pc[p] = "writeRow" => (newMember[p] # NULL => call[p].op \in Accepting)
  /\ pc[p] \in {"readMember", "insertMember", "writeMember"} =>
       /\ call[p].op \in Accepting \cup Revoking
       /\ seen[p] # NULL /\ Decides(p) /\ newMember[p] = NULL
       /\ customerOf(p) \in Customers
       /\ call[p].op \in Accepting => newRow[p] = NULL
       /\ call[p].op \in Revoking => newRow[p] # NULL
  /\ pc[p] = "insertMember" => call[p].op \in Accepting
  /\ pc[p] = "commit" => newRow[p] # NULL
  /\ newRow[p] # NULL =>
       /\ newRow[p].status = StatusBy(call[p].op)
       /\ Decides(p)
       /\ statusOf(row) = statusOf(seen[p])
  /\ newMember[p] # NULL =>
       \/ call[p].op \in Accepting /\ newMember[p].to = "active"
       \/ call[p].op \in Revoking /\ newMember[p].to = "inactive"

OneHolds == \A p, q \in Callers : newRow[p] # NULL /\ newRow[q] # NULL => p = q

Inv ==
  /\ TypeOK
  /\ entry.new = statusOf(row)
  /\ OneHolds
  /\ \A p \in Callers : CallOK(p)

-----------------------------------------------------------------------------
(* Operations.                                                             *)

\* Every operation is one of four kinds, and writes a status.
LEMMA Kinds ==
  ASSUME NEW k \in Call
  PROVE  /\ k.op \in Connecting \cup Accepting \cup Declining \cup Revoking
         /\ StatusBy(k.op) \in Status
         /\ k.op \in {"invite", "acceptRequest", "revokeAsSeller"} => k.customer \in Customers
         /\ k.op \in Connecting => StatusBy(k.op) = "PENDING"
         /\ k.op \in Accepting => StatusBy(k.op) = "ACTIVE" /\ k.op \notin Connecting \cup Declining \cup Revoking
         /\ k.op \in Declining => StatusBy(k.op) = "DECLINED" /\ k.op \notin Connecting \cup Accepting \cup Revoking
         /\ k.op \in Revoking => StatusBy(k.op) = "REVOKED" /\ k.op \notin Connecting \cup Accepting \cup Declining
  BY DEF Call, Connecting, Accepting, Declining, Revoking, StatusBy, Status

\* What an UPDATE or an INSERT makes of the row is a row.
LEMMA UpdatedIsARow ==
  ASSUME NEW p \in Callers, call[p] \in Call, NEW r,
         r \in Relationship \/ (call[p].op \in Connecting /\ r.customerId = NULL)
  PROVE  Updated(p, r) \in Relationship /\ Updated(p, r).status = StatusBy(call[p].op)
<1>1. PICK k \in Call : k = call[p]
  OBVIOUS
<1>2. StatusBy(k.op) \in Status
  BY Kinds
<1>3. k.op \in {"invite", "acceptRequest"} => k.customer \in Customers
  BY Kinds
<1>4. CASE r \in Relationship
  BY <1>1, <1>2, <1>3, <1>4 DEF Updated, Relationship
<1>5. CASE k.op \in Connecting /\ r.customerId = NULL
  BY <1>1, <1>2, <1>3, <1>5 DEF Updated, Relationship, Connecting
<1> QED
  BY <1>1, <1>4, <1>5

-----------------------------------------------------------------------------
(* Steps.                                                                  *)

\* A step of one caller leaves the others' state alone.
OthersKeep(p) ==
  \A q \in Callers : q # p =>
    /\ pc'[q] = pc[q] /\ call'[q] = call[q] /\ seen'[q] = seen[q]
    /\ newRow'[q] = newRow[q] /\ newMember'[q] = newMember[q]

\* The end of a call resets its state.
LEMMA EndResets ==
  ASSUME TypeOK, NEW p \in Callers, End(p)
  PROVE  /\ pc'[p] = "idle" /\ call'[p] = NULL /\ seen'[p] = NULL
         /\ newRow'[p] = NULL /\ newMember'[p] = NULL
         /\ OthersKeep(p)
         /\ pc' \in [Callers -> {"idle", "readRow", "checkCustomer", "readMember", "insertMember",
                         "writeMember", "insertRow", "writeRow", "commit", "aborted"}]
         /\ call' \in [Callers -> Call \cup {NULL}]
         /\ seen' \in [Callers -> Relationship \cup {NULL}]
         /\ newRow' \in [Callers -> Relationship \cup {NULL}]
         /\ newMember' \in [Callers -> MemberWrite \cup {NULL}]
         /\ overlapped' \in BOOLEAN
  BY DEF End, TypeOK, OthersKeep

\* Before the commit nothing is committed.  After it the row is the caller's own.
LEMMA Frame ==
  ASSUME Inv, NEW p \in Callers, OthersKeep(p),
         row # NULL => row' # NULL,
         row' = row \/ newRow[p] # NULL
  PROVE  \A q \in Callers : q # p => CallOK(q)'
<1> SUFFICES ASSUME NEW q \in Callers, q # p PROVE CallOK(q)'
  OBVIOUS
<1>1. /\ pc'[q] = pc[q] /\ call'[q] = call[q] /\ seen'[q] = seen[q]
      /\ newRow'[q] = newRow[q] /\ newMember'[q] = newMember[q]
  BY DEF OthersKeep
<1>2. newRow[q] # NULL => row' = row
  BY DEF Inv, OneHolds
<1>3. Decides(q)' <=> Decides(q)
  BY <1>1 DEF Decides, statusOf
<1>4. customerOf(q)' = customerOf(q)
  BY <1>1 DEF customerOf
<1>5. newRow[q] # NULL => statusOf(row)' = statusOf(row)
  BY <1>2
<1>6. statusOf(seen[q])' = statusOf(seen[q])
  BY <1>1 DEF statusOf
<1>7. CallOK(q)
  BY DEF Inv
<1> QED
  BY <1>1, <1>3, <1>4, <1>5, <1>6, <1>7 DEF CallOK

\* A call that ends without a commit keeps the invariant.
LEMMA EndStep ==
  ASSUME Inv, NEW p \in Callers, End(p), UNCHANGED committed
  PROVE  Inv'
<1>1. TypeOK
  BY DEF Inv
<1>2. TypeOK'
  BY <1>1, EndResets DEF TypeOK, committed
<1>3. CallOK(p)'
  BY <1>1, EndResets DEF CallOK
<1>4. OneHolds'
  BY <1>1, EndResets DEF Inv, OneHolds, OthersKeep
<1>5. row' = row /\ OthersKeep(p) /\ entry' = entry
  BY <1>1, EndResets DEF committed
<1>6. \A q \in Callers : q # p => CallOK(q)'
  BY <1>5, Frame
<1>7. (entry.new = statusOf(row))'
  BY <1>5 DEF Inv, statusOf
<1> QED
  BY <1>2, <1>3, <1>4, <1>6, <1>7 DEF Inv

\* A step that commits nothing and takes no second hold of the row keeps the
\* invariant if it keeps the caller's own part.
LEMMA QuietStep ==
  ASSUME Inv, NEW p \in Callers, UNCHANGED committed, TypeOK', OthersKeep(p), CallOK(p)',
         newRow'[p] # NULL => newRow[p] # NULL \/ ~RowHeld(p)
  PROVE  Inv'
<1>1. row' = row /\ entry' = entry
  BY DEF committed
<1>2. \A q \in Callers : q # p => CallOK(q)'
  BY <1>1, Frame
<1>3. OneHolds'
  BY DEF Inv, OneHolds, OthersKeep, RowHeld
<1>4. (entry.new = statusOf(row))'
  BY <1>1 DEF Inv, statusOf
<1> QED
  BY <1>2, <1>3, <1>4 DEF Inv

\* A step that only moves a call to another stage.
LEMMA GotoStep ==
  ASSUME Inv, NEW p \in Callers, UNCHANGED <<committed, newRow, newMember>>,
         seen' \in [Callers -> Relationship \cup {NULL}],
         \A q \in Callers : q # p => seen'[q] = seen[q],
         NEW stage \in {"idle", "readRow", "checkCustomer", "readMember", "insertMember",
                        "writeMember", "insertRow", "writeRow", "commit", "aborted"},
         Goto(p, stage), CallOK(p)'
  PROVE  Inv'
<1>1. TypeOK'
  BY DEF Inv, TypeOK, Goto, committed
<1>2. OthersKeep(p)
  BY DEF Inv, TypeOK, Goto, OthersKeep
<1>3. newRow'[p] # NULL => newRow[p] # NULL
  OBVIOUS
<1> QED
  BY <1>1, <1>2, <1>3, QuietStep

\* A call begins.
LEMMA BeginStep ==
  ASSUME Inv, NEW p \in Callers, NEW k \in Call, Begin(p, k)
  PROVE  Inv'
<1>1. /\ pc[p] = "idle" /\ pc'[p] \in {"checkCustomer", "readRow"} /\ call'[p] = k
      /\ pc'[p] = "checkCustomer" => k.op = "invite"
      /\ UNCHANGED <<committed, seen, newRow, newMember>> /\ OthersKeep(p)
  BY DEF Begin, Inv, TypeOK, OthersKeep
<1>2. TypeOK'
  BY DEF Begin, Inv, TypeOK, committed
<1>3. seen[p] = NULL /\ newRow[p] = NULL /\ newMember[p] = NULL
  BY <1>1 DEF Inv, CallOK
<1>4. CallOK(p)'
  BY <1>1, <1>3 DEF CallOK
<1>5. newRow'[p] = NULL
  BY <1>1, <1>3
<1> QED
  BY <1>1, <1>2, <1>4, <1>5, QuietStep

\* A call reads the row, and goes on only with what it may decide.
LEMMA ReadRowStep ==
  ASSUME Inv, NEW p \in Callers, ReadRow(p)
  PROVE  Inv'
<1>1. TypeOK /\ CallOK(p) /\ pc[p] = "readRow" /\ UNCHANGED committed
  BY DEF Inv, ReadRow
<1>2. PICK k \in Call : k = call[p]
  BY <1>1 DEF CallOK
<1>3. CASE End(p)
  BY <1>1, <1>3, EndStep
<1>4. ASSUME NEW stage \in {"insertRow", "writeRow", "checkCustomer"},
             Goto(p, stage), seen' = [seen EXCEPT ![p] = row], UNCHANGED <<newRow, newMember>>,
             stage = "insertRow" => k.op \in Connecting /\ row = NULL,
             stage # "insertRow" => row # NULL /\ <<row.status, StatusBy(k.op)>> \in Moves,
             stage = "checkCustomer" => k.op \in Accepting
      PROVE  Inv'
  <2>1. pc'[p] = stage /\ call'[p] = k /\ seen'[p] = row /\ row' = row
    BY <1>1, <1>2, <1>4 DEF Goto, TypeOK, committed
  <2>2. newRow'[p] = NULL /\ newMember'[p] = NULL
    BY <1>1, <1>4 DEF CallOK
  <2>3. stage # "insertRow" => Decides(p)'
    BY <1>4, <2>1 DEF Decides, statusOf
  <2>4. CallOK(p)'
    BY <1>4, <2>1, <2>2, <2>3 DEF CallOK
  <2>5. /\ seen' \in [Callers -> Relationship \cup {NULL}]
        /\ \A q \in Callers : q # p => seen'[q] = seen[q]
    BY <1>1, <1>4 DEF TypeOK
  <2> QED
    BY <1>1, <1>4, <2>4, <2>5, GotoStep
<1>5. row # NULL /\ k.op \in Connecting /\ Reopens(k, row) => <<row.status, StatusBy(k.op)>> \in Moves
  BY Kinds DEF Reopens, Moves
<1>6. row # NULL /\ k.op \in Accepting \cup Declining \cup Revoking /\ Answers(k, row)
        => <<row.status, StatusBy(k.op)>> \in Moves
  BY Kinds DEF Answers, Moves, Accepting, Declining, Revoking
<1> QED
  BY <1>1, <1>2, <1>3, <1>4, <1>5, <1>6 DEF ReadRow

\* The customer is checked before the row is read or the membership is.
LEMMA CheckCustomerStep ==
  ASSUME Inv, NEW p \in Callers, CheckCustomer(p)
  PROVE  Inv'
<1>1. TypeOK /\ CallOK(p) /\ pc[p] = "checkCustomer" /\ UNCHANGED committed
  BY DEF Inv, CheckCustomer
<1>2. CASE End(p)
  BY <1>1, <1>2, EndStep
<1>3. ASSUME customerOf(p) \in activeCustomer, UNCHANGED <<seen, newRow, newMember>>,
             NEW stage \in {"readRow", "readMember"},
             stage = "readRow" => call[p].op = "invite",
             stage = "readMember" => call[p].op # "invite",
             Goto(p, stage)
      PROVE  Inv'
  <2>1. /\ pc'[p] = stage /\ call'[p] = call[p] /\ seen'[p] = seen[p] /\ row' = row
        /\ newRow'[p] = NULL /\ newMember'[p] = NULL
    BY <1>1, <1>3 DEF Goto, TypeOK, committed, CallOK
  <2>2. /\ Decides(p)' <=> Decides(p)
        /\ customerOf(p)' = customerOf(p)
    BY <2>1 DEF Decides, statusOf, customerOf
  <2>3. customerOf(p) \in Customers
    BY <1>1, <1>3 DEF TypeOK
  <2>4. call[p].op = "invite" => call[p].op \in Connecting
    BY DEF Connecting
  <2>5. call[p].op \in Accepting => call[p].op \notin Revoking
    BY DEF Accepting, Revoking
  <2>6. CallOK(p)'
    BY <1>1, <1>3, <2>1, <2>2, <2>3, <2>4, <2>5 DEF CallOK
  <2> QED
    BY <1>1, <1>3, <2>6, GotoStep DEF TypeOK
<1>4. ASSUME customerOf(p) \in activeCustomer, UNCHANGED <<seen, newRow, newMember>>,
             Goto(p, IF call[p].op = "invite" THEN "readRow" ELSE "readMember")
      PROVE  Inv'
  <2>1. CASE call[p].op = "invite"
    <3>1. Goto(p, "readRow")
      BY <1>4, <2>1 DEF Goto
    <3> QED
      BY <1>3, <1>4, <2>1, <3>1
  <2>2. CASE call[p].op # "invite"
    <3>1. Goto(p, "readMember")
      BY <1>4, <2>2 DEF Goto
    <3> QED
      BY <1>3, <1>4, <2>2, <3>1
  <2> QED
    BY <2>1, <2>2
<1> QED
  BY <1>2, <1>4 DEF CheckCustomer

\* The membership is read on the way to the row, or on the way back.
LEMMA ReadMemberStep ==
  ASSUME Inv, NEW p \in Callers, ReadMember(p)
  PROVE  Inv'
<1>1. /\ TypeOK /\ CallOK(p) /\ pc[p] = "readMember"
      /\ UNCHANGED <<committed, seen, newRow, newMember>>
  BY DEF Inv, ReadMember
<1>2. PICK stage \in {"insertMember", "writeRow", "commit", "writeMember"} :
        /\ Goto(p, stage)
        /\ stage \in {"insertMember", "writeRow"} => call[p].op \in Accepting
        /\ stage = "commit" => call[p].op \notin Accepting
  BY DEF ReadMember, Goto
<1>3. /\ pc'[p] = stage /\ call'[p] = call[p] /\ seen'[p] = seen[p] /\ row' = row
      /\ newRow'[p] = newRow[p] /\ newMember'[p] = newMember[p]
  BY <1>1, <1>2 DEF Goto, TypeOK, committed
<1>4. /\ Decides(p)' <=> Decides(p)
      /\ customerOf(p)' = customerOf(p)
      /\ statusOf(row)' = statusOf(row) /\ statusOf(seen[p])' = statusOf(seen[p])
  BY <1>3 DEF Decides, statusOf, customerOf
<1>5. CallOK(p)'
  BY <1>1, <1>2, <1>3, <1>4 DEF CallOK
<1> QED
  BY <1>1, <1>2, <1>5, GotoStep DEF TypeOK

\* The membership is written, for the commit that also moves the row.
LEMMA WritesMemberStep ==
  ASSUME Inv, NEW p \in Callers, WritesMember(p), pc[p] \in {"insertMember", "writeMember"}
  PROVE  Inv'
<1>1. TypeOK /\ CallOK(p) /\ UNCHANGED <<committed, seen, newRow>>
  BY DEF Inv, WritesMember
<1>2. PICK m \in MemberWrite :
        /\ newMember' = [newMember EXCEPT ![p] = m]
        /\ m.to = IF call[p].op \in Accepting THEN "active" ELSE "inactive"
  <2>1. customerOf(p) \in Customers
    BY <1>1 DEF CallOK
  <2>2. PICK c \in Customers : c = customerOf(p)
    BY <2>1
  <2>3. PICK to \in {"active", "inactive"} :
          to = IF call[p].op \in Accepting THEN "active" ELSE "inactive"
    OBVIOUS
  <2>4. PICK m \in MemberWrite : m = [customer |-> c, to |-> to]
    BY DEF MemberWrite
  <2>5. newMember' = [newMember EXCEPT ![p] = m] /\ m.to = to
    BY <2>2, <2>3, <2>4 DEF WritesMember
  <2> QED
    BY <2>3, <2>5
<1>3. PICK stage \in {"writeRow", "commit"} :
        Goto(p, stage) /\ stage = (IF call[p].op \in Accepting THEN "writeRow" ELSE "commit")
  BY DEF WritesMember, Goto
<1>4. TypeOK' /\ OthersKeep(p)
  BY <1>1, <1>2, <1>3 DEF TypeOK, Goto, OthersKeep, committed
<1>5. /\ pc'[p] = stage /\ call'[p] = call[p] /\ seen'[p] = seen[p] /\ row' = row
      /\ newRow'[p] = newRow[p] /\ newMember'[p] = m
  BY <1>1, <1>2, <1>3 DEF Goto, TypeOK, committed
<1>6. /\ Decides(p)' <=> Decides(p)
      /\ statusOf(row)' = statusOf(row) /\ statusOf(seen[p])' = statusOf(seen[p])
  BY <1>5 DEF Decides, statusOf
<1>7. CallOK(p)'
  BY <1>1, <1>2, <1>3, <1>5, <1>6 DEF CallOK
<1> QED
  BY <1>1, <1>4, <1>5, <1>7, QuietStep

\* A membership is updated, or inserted, or found inserted by another.
LEMMA WriteMemberStep ==
  ASSUME Inv, NEW p \in Callers, WriteMember(p) \/ InsertMember(p)
  PROVE  Inv'
  BY WritesMemberStep, EndStep DEF WriteMember, InsertMember

\* The row is inserted, or found inserted by another.
LEMMA InsertRowStep ==
  ASSUME Inv, NEW p \in Callers, InsertRow(p)
  PROVE  Inv'
<1>1. TypeOK /\ CallOK(p) /\ pc[p] = "insertRow" /\ ~RowHeld(p) /\ UNCHANGED <<committed, seen, newMember>>
  BY DEF Inv, InsertRow
<1>2. CASE row # NULL
  <2>1. Goto(p, "aborted") /\ newRow' = newRow
    BY <1>2 DEF InsertRow
  <2>2. /\ pc'[p] = "aborted" /\ call'[p] = call[p] /\ seen'[p] = seen[p] /\ row' = row
        /\ newRow'[p] = NULL /\ newMember'[p] = NULL
    BY <1>1, <2>1 DEF Goto, TypeOK, committed, CallOK
  <2>3. CallOK(p)'
    BY <1>1, <2>2 DEF CallOK
  <2> QED
    BY <1>1, <2>1, <2>3, GotoStep DEF TypeOK
<1>3. CASE row = NULL
  <2>1. PICK r : r = [initiatedBy |-> NULL, customerId |-> NULL]
    OBVIOUS
  <2>2. newRow' = [newRow EXCEPT ![p] = Updated(p, r)] /\ Goto(p, "commit")
    BY <1>3, <2>1 DEF InsertRow, Updated
  <2>3. /\ Updated(p, r) \in Relationship /\ Updated(p, r).status = "PENDING"
        /\ StatusBy(call[p].op) = "PENDING"
    BY <1>1, <2>1, UpdatedIsARow, Kinds DEF CallOK
  <2>4. PICK new \in Relationship : new = Updated(p, r)
    BY <2>3
  <2>5. TypeOK' /\ OthersKeep(p)
    BY <1>1, <2>2, <2>4 DEF TypeOK, Goto, OthersKeep, committed
  <2>6. /\ pc'[p] = "commit" /\ call'[p] = call[p] /\ seen'[p] = NULL /\ row' = row
        /\ newRow'[p] = new /\ newMember'[p] = NULL
    BY <1>1, <2>2, <2>4 DEF Goto, TypeOK, committed, CallOK
  <2>7. Decides(p)' /\ statusOf(row)' = statusOf(seen[p])'
    BY <1>3, <2>3, <2>6 DEF Decides, statusOf, Moves
  <2>8. new # NULL => new.status = StatusBy(call[p].op)
    BY <2>3, <2>4
  <2>9. CallOK(p)'
    BY <1>1, <1>3, <2>6, <2>7, <2>8 DEF CallOK
  <2> QED
    BY <1>1, <2>5, <2>9, QuietStep
<1> QED
  BY <1>2, <1>3

\* The row is updated if its status is still the one seen, and is then held; if
\* it is not, the call starts again or fails.
LEMMA WriteRowStep ==
  ASSUME Inv, NEW p \in Callers, WriteRow(p)
  PROVE  Inv'
<1>1. TypeOK /\ CallOK(p) /\ pc[p] = "writeRow" /\ ~RowHeld(p) /\ UNCHANGED committed
  BY DEF Inv, WriteRow
<1>2. CASE End(p)
  BY <1>1, <1>2, EndStep
<1>3. CASE call[p].op \in Connecting /\ Goto(p, "readRow") /\ UNCHANGED <<seen, newRow, newMember>>
  <2>1. /\ pc'[p] = "readRow" /\ call'[p] = call[p] /\ seen'[p] = seen[p] /\ row' = row
        /\ newRow'[p] = NULL /\ newMember'[p] = newMember[p]
    BY <1>1, <1>3 DEF Goto, TypeOK, committed, CallOK
  <2>2. call[p].op \notin Accepting
    BY <1>3 DEF Connecting, Accepting
  <2>3. newMember[p] = NULL
    BY <1>1, <2>2 DEF CallOK
  <2>4. CallOK(p)'
    BY <1>1, <1>3, <2>1, <2>3 DEF CallOK
  <2> QED
    BY <1>1, <1>3, <2>4, GotoStep DEF TypeOK
<1>4. CASE StillSeen(p) /\ WritesRow(p)
  <2>1. row \in Relationship /\ seen[p] \in Relationship /\ seen[p] # NULL
    BY <1>1 DEF TypeOK, CallOK
  <2>2. PICK r \in Relationship : r = row
    BY <2>1
  <2>3. newRow' = [newRow EXCEPT ![p] = Updated(p, r)] /\ UNCHANGED <<seen, newMember>>
    BY <1>4, <2>2 DEF WritesRow, Updated
  <2>4. Updated(p, r) \in Relationship /\ Updated(p, r).status = StatusBy(call[p].op)
    BY <1>1, UpdatedIsARow DEF CallOK
  <2>5. PICK new \in Relationship : new = Updated(p, r)
    BY <2>4
  <2>6. PICK stage \in {"readMember", "commit"} :
          /\ Goto(p, stage)
          /\ stage = "readMember" => call[p].op \in Revoking /\ seen[p].customerId # NULL
    BY <1>4 DEF WritesRow, Goto
  <2>7. TypeOK' /\ OthersKeep(p)
    BY <1>1, <2>3, <2>5, <2>6 DEF TypeOK, Goto, OthersKeep, committed
  <2>8. /\ pc'[p] = stage /\ call'[p] = call[p] /\ seen'[p] = seen[p] /\ row' = row
        /\ newRow'[p] = new /\ new # NULL /\ newMember'[p] = newMember[p]
    BY <1>1, <2>3, <2>5, <2>6 DEF Goto, TypeOK, committed
  <2>9. /\ Decides(p)' /\ customerOf(p)' = customerOf(p)
        /\ new.status = StatusBy(call[p].op)
        /\ statusOf(row)' = statusOf(seen[p])'
    BY <1>1, <1>4, <2>1, <2>4, <2>5, <2>8 DEF Decides, statusOf, customerOf, CallOK, StillSeen
  <2>10. stage = "readMember" =>
           /\ call[p].op \notin Accepting
           /\ customerOf(p) \in Customers
           /\ newMember[p] = NULL
    <3> SUFFICES ASSUME stage = "readMember"
                 PROVE  /\ call[p].op \notin Accepting
                        /\ customerOf(p) \in Customers
                        /\ newMember[p] = NULL
      OBVIOUS
    <3>1. call[p].op \notin Accepting
      BY <2>6 DEF Accepting, Revoking
    <3>2. newMember[p] = NULL
      BY <1>1, <3>1 DEF CallOK
    <3>3. customerOf(p) = seen[p].customerId
      BY <2>6 DEF customerOf, Revoking
    <3> QED
      BY <2>1, <2>6, <3>1, <3>2, <3>3 DEF Relationship
  <2>11. CallOK(p)'
    BY <1>1, <2>1, <2>6, <2>8, <2>9, <2>10 DEF CallOK
  <2> QED
    BY <1>1, <2>7, <2>11, QuietStep
<1> QED
  BY <1>2, <1>3, <1>4 DEF WriteRow, LosesRow

\* What a commit does: it moves the row along the machine, tells it, and moves the
\* membership of one customer to match.
LEMMA CommitFacts ==
  ASSUME Inv, NEW p \in Callers, Commit(p)
  PROVE  /\ newRow[p] \in Relationship /\ row' = newRow[p]
         /\ statusOf(row') = StatusBy(call[p].op)
         /\ <<statusOf(row), statusOf(row')>> \in Moves
         /\ entry' = [old |-> statusOf(row), new |-> statusOf(row')]
         /\ \A c \in Customers : membership'[c] # membership[c] =>
              /\ membership'[c] = "active" => statusOf(row') = "ACTIVE"
              /\ membership'[c] = "inactive" => statusOf(row') = "REVOKED"
         /\ membership' \in [Customers -> {"none", "active", "inactive"}]
         /\ \A c \in Customers : membership'[c] # membership[c] => membership'[c] \in {"active", "inactive"}
<1>1. TypeOK /\ CallOK(p) /\ pc[p] = "commit" /\ newRow[p] # NULL
  BY DEF Inv, Commit, CallOK
<1>2. newRow[p] \in Relationship /\ row' = newRow[p]
  BY <1>1 DEF TypeOK, Commit
<1>3. statusOf(row') = StatusBy(call[p].op)
  BY <1>1, <1>2 DEF CallOK, statusOf
<1>4. <<statusOf(row), statusOf(row')>> \in Moves
  BY <1>1, <1>3 DEF CallOK, Decides
<1>5. entry' = [old |-> statusOf(row), new |-> statusOf(row')]
  BY <1>1, <1>3 DEF CallOK, Commit
<1>6. CASE newMember[p] = NULL
  BY <1>1, <1>2, <1>3, <1>4, <1>5, <1>6 DEF Commit, TypeOK
<1>7. CASE newMember[p] # NULL
  <2>1. PICK m \in MemberWrite : m = newMember[p]
    BY <1>1, <1>7 DEF TypeOK
  <2>2. membership' = [membership EXCEPT ![m.customer] = m.to] /\ m.customer \in Customers
    BY <1>7, <2>1 DEF Commit, MemberWrite
  <2>3. \/ call[p].op \in Accepting /\ m.to = "active"
        \/ call[p].op \in Revoking /\ m.to = "inactive"
    BY <1>1, <1>7, <2>1 DEF CallOK
  <2>4. /\ call[p].op \in Accepting => StatusBy(call[p].op) = "ACTIVE"
        /\ call[p].op \in Revoking => StatusBy(call[p].op) = "REVOKED"
    BY <1>1, Kinds DEF CallOK
  <2> QED
    BY <1>1, <1>2, <1>3, <1>4, <1>5, <2>2, <2>3, <2>4 DEF TypeOK
<1> QED
  BY <1>6, <1>7

\* A commit keeps the invariant.
LEMMA CommitStep ==
  ASSUME Inv, NEW p \in Callers, Commit(p)
  PROVE  Inv'
<1>1. TypeOK /\ End(p) /\ UNCHANGED activeCustomer
  BY DEF Inv, Commit
<1>2. row' \in Relationship /\ row' # NULL /\ newRow[p] # NULL
  BY CommitFacts
<1>3. statusOf(row) \in Status \cup {"NONE"} /\ statusOf(row') \in Status \cup {"NONE"}
  BY <1>1, <1>2 DEF TypeOK, statusOf, Relationship
<1>4. TypeOK'
  BY <1>1, <1>2, <1>3, EndResets, CommitFacts DEF TypeOK
<1>5. CallOK(p)'
  BY <1>1, EndResets DEF CallOK
<1>6. OneHolds'
  BY <1>1, EndResets DEF Inv, OneHolds, OthersKeep
<1>7. \A q \in Callers : q # p => CallOK(q)'
  BY <1>1, <1>2, EndResets, Frame
<1>8. (entry.new = statusOf(row))'
  BY CommitFacts
<1> QED
  BY <1>4, <1>5, <1>6, <1>7, <1>8 DEF Inv

\* A run starts without a relationship.
LEMMA InitInv == Init => Inv
<1> SUFFICES ASSUME Init PROVE Inv
  OBVIOUS
<1>1. TypeOK
  BY DEF Init, TypeOK
<1> QED
  BY <1>1 DEF Init, Inv, CallOK, OneHolds, statusOf

\* Every step keeps the invariant.
LEMMA StepInv == Inv /\ [Next]_vars => Inv'
<1> SUFFICES ASSUME Inv, [Next]_vars PROVE Inv'
  OBVIOUS
<1>1. ASSUME NEW p \in Callers, Abort(p) \/ Deadlock(p) \/ Fail(p)
      PROVE  Inv'
  BY <1>1, EndStep DEF Abort, Deadlock, Fail
<1>2. ASSUME row' = row, entry' = entry, membership' = membership, activeCustomer' \subseteq Customers,
             UNCHANGED <<pc, call, seen, newRow, newMember, overlapped>>
      PROVE  Inv'
  <2>1. TypeOK' /\ OneHolds' /\ (entry.new = statusOf(row))'
    BY <1>2 DEF Inv, TypeOK, OneHolds, statusOf
  <2>2. ASSUME NEW q \in Callers PROVE CallOK(q)'
    BY <1>2 DEF Inv, CallOK, Decides, statusOf, customerOf
  <2> QED
    BY <2>1, <2>2 DEF Inv
<1>3. ASSUME NEW c \in Customers, SetCustomerActive(c)
      PROVE  Inv'
  <2>1. activeCustomer' \subseteq Customers
    BY <1>3 DEF SetCustomerActive, SymDiff, Inv, TypeOK
  <2> QED
    BY <1>2, <1>3, <2>1 DEF SetCustomerActive
<1>4. CASE UNCHANGED vars
  BY <1>2, <1>4 DEF vars, committed, Inv, TypeOK
<1> QED
  BY <1>1, <1>3, <1>4, BeginStep, ReadRowStep, CheckCustomerStep, ReadMemberStep, WriteMemberStep,
     InsertRowStep, WriteRowStep, CommitStep DEF Next, Step

\* The invariant holds of every run.
THEOREM InvHolds == Spec => []Inv
  BY InitInv, StepInv, PTL DEF Spec

-----------------------------------------------------------------------------
(* Theorems about calls that come together.                                *)

\* Every variable keeps its type.
THEOREM TypeCorrect == Spec => []TypeOK
<1>1. Inv => TypeOK
  BY DEF Inv
<1> QED
  BY <1>1, InvHolds, PTL

\* Only commits change the row, its audit log and the memberships.
LEMMA OnlyCommits ==
  ASSUME [Next]_vars, ~(\E p \in Callers : Commit(p))
  PROVE  UNCHANGED <<row, entry, membership>>
  BY DEF Next, Step, Begin, ReadRow, CheckCustomer, ReadMember, WriteMember, InsertMember,
     WritesMember, InsertRow, WriteRow, Abort, Deadlock, Fail, SetCustomerActive, committed, vars

\* A membership changes only in a commit that moves the relationship to the status
\* that matches: a call that loses the race leaves none behind.
THEOREM AccessFollows == Spec => AccessMovesWithStatus
<1>1. ASSUME Inv, [Next]_vars, NEW c \in Customers, membership'[c] # membership[c]
      PROVE  /\ statusOf(row') # statusOf(row)
             /\ membership'[c] = "active" => statusOf(row') = "ACTIVE"
             /\ membership'[c] = "inactive" => statusOf(row') = "REVOKED"
  <2>1. PICK p \in Callers : Commit(p)
    BY <1>1, OnlyCommits
  <2>2. statusOf(row') # statusOf(row)
    BY <1>1, <2>1, CommitFacts DEF Moves
  <2> QED
    BY <1>1, <2>1, <2>2, CommitFacts
<1>2. Inv /\ [Next]_vars =>
        [\A c \in Customers : membership'[c] # membership[c] =>
           /\ statusOf(row') # statusOf(row)
           /\ membership'[c] = "active" => statusOf(row') = "ACTIVE"
           /\ membership'[c] = "inactive" => statusOf(row') = "REVOKED"]_vars
  BY <1>1
<1> QED
  BY <1>2, InvHolds, PTL DEF Spec, AccessMovesWithStatus

\* The services implement the status machine with its audit log: every change is a
\* move from the status that the row has, and the last entry tells it.
THEOREM Refinement == Spec => ImplementsStatusSpec
<1>1. Init => StatusSpec!Init
  BY DEF Init, StatusSpec!Init, statusOf
<1>2. Inv /\ [Next]_vars => [StatusSpec!Next]_<<statusOf(row), entry>>
  <2> SUFFICES ASSUME Inv, [Next]_vars
               PROVE  StatusSpec!Next \/ UNCHANGED <<statusOf(row), entry>>
    OBVIOUS
  <2>1. ASSUME NEW p \in Callers, Commit(p)
        PROVE  StatusSpec!Next
    <3>1. PICK to \in {"PENDING", "ACTIVE", "DECLINED", "REVOKED"} : to = statusOf(row')
      BY <2>1, CommitFacts DEF Moves
    <3>2. <<statusOf(row), to>> \in Moves /\ entry' = [old |-> statusOf(row), new |-> to]
      BY <2>1, <3>1, CommitFacts
    <3>3. StatusSpec!Move(to)
      BY <3>1, <3>2 DEF StatusSpec!Move, StatusSpec!Moves, Moves, statusOf
    <3> QED
      BY <3>3 DEF StatusSpec!Next
  <2>2. CASE UNCHANGED <<row, entry, membership>>
    BY <2>2 DEF statusOf
  <2> QED
    BY <2>1, <2>2, OnlyCommits
<1> QED
  BY <1>1, <1>2, InvHolds, PTL DEF Spec, ImplementsStatusSpec, StatusSpec!Spec

-----------------------------------------------------------------------------
(* What liveness rests on.  Whoever holds the row has only the membership    *)
(* left to write, and whoever holds a membership only the row, so those who  *)
(* cannot go on wait for each other two by two.                              *)

\* Someone who holds the row or a membership, and waits.
LEMMA HolderWaits ==
  ASSUME Inv, NEW p \in Callers, ~CanGoOn(p)
  PROVE  /\ newRow[p] # NULL => pc[p] = "writeMember"
         /\ newMember[p] # NULL => pc[p] = "writeRow"
<1>1. TypeOK /\ CallOK(p)
  BY DEF Inv
<1>2. pc[p] \notin {"readRow", "checkCustomer", "readMember", "commit", "aborted"}
  BY DEF CanGoOn
<1>3. pc[p] \in {"idle", "insertMember", "writeMember", "insertRow", "writeRow"}
  BY <1>1, <1>2 DEF TypeOK
<1> QED
  BY <1>1, <1>3, Kinds DEF CallOK

\* The holder of the row waits for the holder of a membership, who waits for the row.
LEMMA RowHolderWaits ==
  ASSUME Inv, NEW p \in Callers, newRow[p] # NULL, \A q \in Callers : ~CanGoOn(q)
  PROVE  FALSE
<1>1. pc[p] = "writeMember" /\ MemberHeld(p)
  BY HolderWaits DEF CanGoOn
<1>2. PICK q \in Callers : MemberHeldBy(p, q)
  BY <1>1 DEF MemberHeld
<1>3. q # p /\ pc[q] = "writeRow"
  BY <1>2, HolderWaits DEF MemberHeldBy
<1>4. WaitsFor(p, q) /\ WaitsFor(q, p)
  BY <1>1, <1>2, <1>3 DEF WaitsFor
<1> QED
  BY <1>4 DEF CanGoOn

LEMMA SomeoneCan == Inv => SomeCallGoesOn
<1> SUFFICES ASSUME Inv, NEW p \in Callers, pc[p] # "idle", \A q \in Callers : ~CanGoOn(q)
             PROVE  FALSE
  BY DEF SomeCallGoesOn
<1>1. TypeOK
  BY DEF Inv
<1>2. pc[p] \in {"insertMember", "writeMember", "insertRow", "writeRow"}
  BY <1>1 DEF TypeOK, CanGoOn
<1>3. ASSUME NEW q \in Callers, pc[q] \in {"insertRow", "writeRow"} PROVE FALSE
  <2>1. PICK r \in Callers : newRow[r] # NULL
    BY <1>3 DEF CanGoOn, RowHeld
  <2> QED
    BY <2>1, RowHolderWaits
<1>4. CASE pc[p] \in {"insertMember", "writeMember"}
  <2>1. PICK q \in Callers : newMember[q] # NULL
    BY <1>4 DEF CanGoOn, MemberHeld, MemberHeldBy
  <2> QED
    BY <1>3, <2>1, HolderWaits
<1> QED
  BY <1>2, <1>3, <1>4

\* While calls are under way, one of them can take its next step: acceptances and
\* revocations deadlock at most two by two, where the database ends one.
THEOREM CallsGoOn == Spec => []SomeCallGoesOn
  BY InvHolds, SomeoneCan, PTL

\* A step of a call that is no invitation or request brings it nearer to its end.
LEMMA StepDescends ==
  ASSUME Inv, NEW p \in Callers, Step(p), call[p] # NULL, call[p].op \notin Connecting
  PROVE  StepsLeft(p)' < StepsLeft(p)
<1>1. TypeOK /\ CallOK(p)
  BY DEF Inv
<1>2. pc[p] # "idle" /\ call[p] \in Call
  BY <1>1 DEF Step, ReadRow, CheckCustomer, ReadMember, WriteMember, InsertMember, InsertRow,
     WriteRow, Commit, Abort, Deadlock, WaitsFor, CallOK
<1>3. call[p].op \in Accepting \cup Declining \cup Revoking /\ call[p].op # "invite"
  BY <1>2, Kinds DEF Connecting
<1>4. StepsLeft(p) \in 1..6
  BY <1>1, <1>2 DEF StepsLeft
<1>5. ASSUME End(p) PROVE StepsLeft(p)' < StepsLeft(p)
  <2>1. pc'[p] = "idle"
    BY <1>1, <1>5, EndResets
  <2>2. StepsLeft(p)' = 0
    BY <2>1 DEF StepsLeft
  <2> QED
    BY <1>4, <2>2
<1>6. ASSUME NEW stage, Goto(p, stage) PROVE pc'[p] = stage /\ call' = call
  BY <1>1, <1>6 DEF Goto, TypeOK
<1>7. CASE ReadRow(p)
  <2>1. End(p) \/ Goto(p, "checkCustomer") \/ Goto(p, "writeRow")
    BY <1>7 DEF ReadRow
  <2>2. CASE Goto(p, "checkCustomer") \/ Goto(p, "writeRow")
    <3>1. pc'[p] \in {"checkCustomer", "writeRow"} /\ call' = call
      BY <1>6, <2>2
    <3> QED
      BY <1>7, <3>1 DEF ReadRow, StepsLeft
  <2> QED
    BY <1>5, <2>1, <2>2
<1>8. CASE CheckCustomer(p)
  <2>1. End(p) \/ pc'[p] = "readMember"
    BY <1>3, <1>6, <1>8 DEF CheckCustomer
  <2>2. CASE pc'[p] = "readMember"
    BY <1>8, <2>2 DEF CheckCustomer, StepsLeft
  <2> QED
    BY <1>5, <2>1, <2>2
<1>9. CASE ReadMember(p)
  <2>1. /\ pc'[p] \in {"insertMember", "writeMember", "writeRow", "commit"} /\ call' = call
        /\ pc'[p] = "writeRow" => call[p].op \in Accepting
    BY <1>6, <1>9 DEF ReadMember
  <2>2. pc'[p] = "writeRow" => call[p].op \notin Revoking
    BY <1>2, <2>1, Kinds
  <2> QED
    BY <1>9, <2>1, <2>2 DEF ReadMember, StepsLeft
<1>10. ASSUME WritesMember(p), pc[p] \in {"insertMember", "writeMember"}
       PROVE  StepsLeft(p)' < StepsLeft(p)
  <2>1. /\ pc'[p] \in {"writeRow", "commit"} /\ call' = call
        /\ pc'[p] = "writeRow" => call[p].op \in Accepting
    BY <1>6, <1>10 DEF WritesMember
  <2>2. pc'[p] = "writeRow" => call[p].op \notin Revoking
    BY <1>2, <2>1, Kinds
  <2> QED
    BY <1>10, <2>1, <2>2 DEF StepsLeft
<1>11. CASE WriteMember(p) \/ InsertMember(p)
  BY <1>5, <1>10, <1>11 DEF WriteMember, InsertMember
<1>12. ~InsertRow(p)
  BY <1>1 DEF InsertRow, CallOK
<1>13. CASE WriteRow(p)
  <2>1. CASE LosesRow(p)
    BY <1>5, <2>1 DEF LosesRow
  <2>2. CASE WritesRow(p)
    <3>1. /\ pc'[p] \in {"readMember", "commit"} /\ call' = call
          /\ pc'[p] = "readMember" => call[p].op \in Revoking
      BY <1>6, <2>2 DEF WritesRow
    <3> QED
      BY <1>13, <3>1 DEF WriteRow, StepsLeft
  <2> QED
    BY <1>13, <2>1, <2>2 DEF WriteRow
<1>14. CASE Commit(p) \/ Abort(p) \/ Deadlock(p)
  BY <1>5, <1>14 DEF Commit, Abort, Deadlock
<1> QED
  BY <1>7, <1>8, <1>9, <1>11, <1>12, <1>13, <1>14 DEF Step

\* An answer or a revocation has six steps before it at most, takes one with each
\* step of its own, and is not set back by anybody else's.
THEOREM AnswersComeNearer == Spec => AnswersDescend
<1> DEFINE A == \A p \in Callers : call[p] # NULL /\ call[p].op \notin Connecting =>
                  /\ StepsLeft(p) \in 1..6
                  /\ Step(p) => StepsLeft(p)' < StepsLeft(p)
                  /\ UNCHANGED <<pc[p], call[p]>> \/ StepsLeft(p)' < StepsLeft(p)
<1>1. ASSUME Inv, [Next]_vars PROVE A
  <2> SUFFICES ASSUME NEW p \in Callers, call[p] # NULL, call[p].op \notin Connecting
               PROVE  /\ StepsLeft(p) \in 1..6
                      /\ Step(p) => StepsLeft(p)' < StepsLeft(p)
                      /\ UNCHANGED <<pc[p], call[p]>> \/ StepsLeft(p)' < StepsLeft(p)
    OBVIOUS
  <2>1. TypeOK /\ pc[p] # "idle"
    BY <1>1 DEF Inv, CallOK
  <2>2. StepsLeft(p) \in 1..6
    BY <2>1 DEF TypeOK, StepsLeft
  <2>3. Step(p) => StepsLeft(p)' < StepsLeft(p)
    BY <1>1, StepDescends
  <2>4. ASSUME Fail(p) PROVE StepsLeft(p)' < StepsLeft(p)
    <3>1. pc'[p] = "idle"
      BY <2>1, <2>4, EndResets DEF Fail
    <3> QED
      BY <2>2, <3>1 DEF StepsLeft
  <2>5. ASSUME NEW q \in Callers, q # p, (\E k \in Call : Begin(q, k)) \/ Step(q) \/ Fail(q)
        PROVE  pc'[p] = pc[p] /\ call'[p] = call[p]
    BY <2>1, <2>5 DEF TypeOK, Begin, Step, Fail, ReadRow, CheckCustomer, ReadMember, WriteMember,
       InsertMember, WritesMember, InsertRow, WriteRow, WritesRow, LosesRow, Commit, Abort,
       Deadlock, End, Goto
  <2>6. ~\E k \in Call : Begin(p, k)
    BY <2>1 DEF Begin
  <2>7. CASE UNCHANGED vars \/ \E c \in Customers : SetCustomerActive(c)
    BY <2>2, <2>3, <2>7 DEF vars, SetCustomerActive
  <2> QED
    BY <1>1, <2>2, <2>3, <2>4, <2>5, <2>6, <2>7 DEF Next
<1>2. Inv /\ [Next]_vars => [A]_vars
  BY <1>1
<1> QED
  BY <1>2, InvHolds, PTL DEF Spec, AnswersDescend

-----------------------------------------------------------------------------
(* One call at a time.  Inv does not say whose membership is active, and it  *)
(* cannot: between calls that come together that is not so.  The invariant   *)
(* below adds it, with what a lone call has read, which is still so.         *)

OneAtATime == \A p, q \in Callers : pc[p] # "idle" /\ pc[q] # "idle" => p = q

LoneCallOK(p) ==
  /\ seen[p] # NULL =>
       /\ seen[p] = row
       /\ call[p].op \notin Connecting => Answers(call[p], row)
       /\ call[p].op = "invite" => row.customerId \in {NULL, call[p].customer}
  /\ newRow[p] # NULL /\ row # NULL => newRow[p] = Updated(p, row)
  /\ newMember[p] # NULL => newMember[p].customer = customerOf(p)
  /\ pc[p] \in {"writeRow", "commit"} /\ call[p].op \in Accepting =>
       /\ customerOf(p) \in Customers
       /\ newMember[p] = NULL => membership[customerOf(p)] = "active"
  /\ pc[p] = "commit" /\ call[p].op \in Revoking /\ newMember[p] = NULL =>
       seen[p].customerId = NULL \/ membership[seen[p].customerId] # "active"

LoneInv ==
  /\ Inv
  /\ OneAtATime
  /\ OnlyMember
  /\ \A p \in Callers : LoneCallOK(p)

\* A step of a lone call keeps the invariant if it keeps the call's own part.
LEMMA LoneStep ==
  ASSUME LoneInv, NEW p \in Callers, \A q \in Callers : q # p => pc[q] = "idle",
         OthersKeep(p), Inv', OnlyMember', LoneCallOK(p)'
  PROVE  LoneInv'
<1>1. OneAtATime'
  BY DEF OneAtATime, OthersKeep
<1>2. ASSUME NEW q \in Callers, q # p PROVE LoneCallOK(q)'
  <2>1. /\ pc'[q] = "idle" /\ seen'[q] = NULL /\ newRow'[q] = NULL /\ newMember'[q] = NULL
    BY <1>2 DEF LoneInv, Inv, CallOK, OthersKeep
  <2> QED
    BY <2>1 DEF LoneCallOK
<1> QED
  BY <1>1, <1>2 DEF LoneInv

\* A call that is under way is alone.
LEMMA Alone ==
  ASSUME LoneInv, NEW p \in Callers, pc[p] # "idle"
  PROVE  \A q \in Callers : q # p => pc[q] = "idle"
  BY DEF LoneInv, OneAtATime

\* Whose membership is active depends only on the row and the memberships.
LEMMA FollowsKept ==
  ASSUME OnlyMember, row' = row, membership' = membership
  PROVE  OnlyMember'
  BY DEF OnlyMember

\* A lone call that ends without a commit keeps the invariant.
LEMMA LoneEnd ==
  ASSUME LoneInv, NEW p \in Callers, End(p), UNCHANGED committed, pc[p] # "idle"
  PROVE  LoneInv'
<1>1. TypeOK /\ Inv'
  BY EndStep DEF LoneInv, Inv
<1>2. LoneCallOK(p)' /\ OthersKeep(p)
  BY <1>1, EndResets DEF LoneCallOK
<1>3. OnlyMember'
  BY FollowsKept DEF LoneInv, committed
<1> QED
  BY <1>1, <1>2, <1>3, Alone, LoneStep

\* What a step that commits nothing and moves a lone call to another stage has to
\* keep.
LEMMA LoneQuiet ==
  ASSUME LoneInv, NEW p \in Callers, UNCHANGED committed, pc[p] # "idle", Inv',
         NEW stage, Goto(p, stage), OthersKeep(p),
         pc'[p] = stage /\ call'[p] = call[p] => LoneCallOK(p)'
  PROVE  LoneInv'
<1>1. pc'[p] = stage /\ call'[p] = call[p]
  BY DEF Goto, LoneInv, Inv, TypeOK
<1>2. OnlyMember'
  BY FollowsKept DEF LoneInv, committed
<1> QED
  BY <1>1, <1>2, Alone, LoneStep

\* A lone call begins.
LEMMA LoneBegin ==
  ASSUME LoneInv, ~overlapped', NEW p \in Callers, NEW k \in Call, Begin(p, k)
  PROVE  LoneInv'
<1>1. Inv' /\ TypeOK /\ UNCHANGED <<committed, seen, newRow, newMember>> /\ CallOK(p)
  BY BeginStep DEF LoneInv, Inv, Begin
<1>2. /\ pc[p] = "idle" /\ pc'[p] \in {"checkCustomer", "readRow"} /\ OthersKeep(p)
      /\ \A q \in Callers : q # p => pc[q] = "idle"
  BY <1>1 DEF Begin, TypeOK, OthersKeep
<1>3. seen'[p] = NULL /\ newRow'[p] = NULL /\ newMember'[p] = NULL
  BY <1>1, <1>2 DEF CallOK
<1>4. LoneCallOK(p)'
  BY <1>2, <1>3 DEF LoneCallOK
<1>5. OnlyMember'
  BY <1>1, FollowsKept DEF LoneInv, committed
<1> QED
  BY <1>1, <1>2, <1>4, <1>5, LoneStep

\* A lone call reads the row, which stays as it is seen.
LEMMA LoneReadRow ==
  ASSUME LoneInv, NEW p \in Callers, ReadRow(p)
  PROVE  LoneInv'
<1>1. /\ TypeOK /\ CallOK(p) /\ pc[p] = "readRow" /\ UNCHANGED committed /\ Inv'
      /\ newRow[p] = NULL /\ newMember[p] = NULL
  BY ReadRowStep DEF LoneInv, Inv, CallOK, ReadRow
<1>2. CASE End(p)
  BY <1>1, <1>2, LoneEnd
<1>3. ASSUME NEW stage \in {"insertRow", "writeRow", "checkCustomer"}, Goto(p, stage),
             seen' = [seen EXCEPT ![p] = row], UNCHANGED <<newRow, newMember>>,
             row # NULL /\ call[p].op \notin Connecting => Answers(call[p], row),
             row # NULL /\ call[p].op = "invite" => row.customerId \in {NULL, call[p].customer},
             stage = "writeRow" => call[p].op \notin Accepting
      PROVE  LoneInv'
  <2>1. OthersKeep(p)
    BY <1>1, <1>3 DEF TypeOK, Goto, OthersKeep
  <2>2. seen'[p] = row /\ newRow'[p] = NULL /\ newMember'[p] = NULL /\ row' = row
    BY <1>1, <1>3 DEF TypeOK, committed
  <2>3. pc'[p] = stage /\ call'[p] = call[p] => LoneCallOK(p)'
    BY <1>3, <2>2 DEF LoneCallOK
  <2> QED
    BY <1>1, <1>3, <2>1, <2>3, LoneQuiet
<1>4. /\ "invite" \in Connecting
      /\ \A k \in Call : k.op \in Connecting \cup Declining \cup Revoking => k.op \notin Accepting
  BY Kinds DEF Connecting
<1>5. call[p] \in Call
  BY <1>1 DEF CallOK
<1>6. row # NULL /\ call[p].op \in Connecting /\ Reopens(call[p], row) /\ call[p].op = "invite"
        => row.customerId \in {NULL, call[p].customer}
  BY DEF Reopens
<1>7. call[p].op \in Accepting \cup Declining \cup Revoking => call[p].op \notin Connecting
  BY <1>5, Kinds
<1> QED
  BY <1>1, <1>2, <1>3, <1>4, <1>5, <1>6, <1>7 DEF ReadRow

\* A lone call checks the customer.
LEMMA LoneCheckCustomer ==
  ASSUME LoneInv, NEW p \in Callers, CheckCustomer(p)
  PROVE  LoneInv'
<1>1. /\ TypeOK /\ LoneCallOK(p) /\ pc[p] = "checkCustomer" /\ UNCHANGED committed /\ Inv'
  BY CheckCustomerStep DEF LoneInv, Inv, CheckCustomer
<1>2. CASE End(p)
  BY <1>1, <1>2, LoneEnd
<1>3. CASE ~End(p)
  <2>1. PICK stage \in {"readRow", "readMember"} : Goto(p, stage) /\ UNCHANGED <<seen, newRow, newMember>>
    BY <1>3 DEF CheckCustomer, Goto
  <2>2. OthersKeep(p)
    BY <1>1, <2>1 DEF TypeOK, Goto, OthersKeep
  <2>3. seen' = seen /\ newRow' = newRow /\ newMember' = newMember /\ row' = row
    BY <1>1, <2>1 DEF committed
  <2>4. pc'[p] = stage /\ call'[p] = call[p] => LoneCallOK(p)'
    BY <1>1, <2>3 DEF LoneCallOK, Updated, customerOf
  <2> QED
    BY <1>1, <2>1, <2>2, <2>4, LoneQuiet
<1> QED
  BY <1>2, <1>3

\* A lone call reads the membership, which stays as it is.
LEMMA LoneReadMember ==
  ASSUME LoneInv, NEW p \in Callers, ReadMember(p)
  PROVE  LoneInv'
<1>1. /\ TypeOK /\ CallOK(p) /\ LoneCallOK(p) /\ pc[p] = "readMember" /\ Inv'
      /\ UNCHANGED <<committed, seen, newRow, newMember>>
  BY ReadMemberStep DEF LoneInv, Inv, ReadMember
<1>2. PICK stage \in {"insertMember", "writeRow", "commit", "writeMember"} :
        /\ Goto(p, stage)
        /\ stage = "writeRow" => call[p].op \in Accepting /\ membership[customerOf(p)] = "active"
        /\ stage = "commit" => call[p].op \notin Accepting /\ membership[customerOf(p)] # "active"
  BY DEF ReadMember, Goto
<1>3. OthersKeep(p)
  BY <1>1, <1>2 DEF TypeOK, Goto, OthersKeep
<1>4. /\ seen' = seen /\ newRow' = newRow /\ newMember' = newMember /\ row' = row
      /\ membership' = membership
  BY <1>1 DEF committed
<1>5. call[p].op \in Revoking => customerOf(p) = seen[p].customerId
  BY DEF customerOf, Revoking
<1>6. customerOf(p) \in Customers
  BY <1>1 DEF CallOK
<1>7. call'[p] = call[p] => customerOf(p)' = customerOf(p)
  BY <1>4 DEF customerOf
<1>8. newRow[p] # NULL /\ row # NULL /\ call'[p] = call[p] => newRow'[p] = Updated(p, row)'
  BY <1>1, <1>4 DEF LoneCallOK, Updated
<1>9. pc'[p] = stage /\ call'[p] = call[p] => LoneCallOK(p)'
  BY <1>1, <1>2, <1>4, <1>5, <1>6, <1>7, <1>8 DEF LoneCallOK
<1> QED
  BY <1>1, <1>2, <1>3, <1>9, LoneQuiet

\* A lone call writes the membership of the customer that it has read.
LEMMA LoneWritesMember ==
  ASSUME LoneInv, NEW p \in Callers, WritesMember(p), pc[p] \in {"insertMember", "writeMember"}
  PROVE  LoneInv'
<1>1. /\ TypeOK /\ CallOK(p) /\ LoneCallOK(p) /\ UNCHANGED <<committed, seen, newRow>> /\ Inv'
      /\ customerOf(p) \in Customers
  BY WritesMemberStep DEF LoneInv, Inv, WritesMember, CallOK
<1>2. PICK stage \in {"writeRow", "commit"} : Goto(p, stage)
  BY DEF WritesMember, Goto
<1>3. OthersKeep(p)
  BY <1>1, <1>2 DEF TypeOK, Goto, OthersKeep, WritesMember
<1>4. /\ seen' = seen /\ newRow' = newRow /\ row' = row /\ membership' = membership
  BY <1>1 DEF committed
<1>5. newMember'[p].customer = customerOf(p) /\ newMember' \in [Callers -> MemberWrite \cup {NULL}]
  BY <1>1 DEF WritesMember, TypeOK, Inv
<1>6. newMember'[p] # NULL
  <2>1. PICK m : m = [customer |-> customerOf(p),
                      to |-> IF call[p].op \in Accepting THEN "active" ELSE "inactive"]
    OBVIOUS
  <2>2. m \in MemberWrite
    BY <1>1, <2>1 DEF MemberWrite
  <2>3. newMember'[p] = m
    BY <1>1, <2>1 DEF WritesMember, TypeOK
  <2> QED
    BY <2>2, <2>3
<1>7. call'[p] = call[p] => customerOf(p)' = customerOf(p)
  BY <1>4 DEF customerOf
<1>8. newRow[p] # NULL /\ row # NULL /\ call'[p] = call[p] => newRow'[p] = Updated(p, row)'
  BY <1>1, <1>4 DEF LoneCallOK, Updated
<1>9. pc'[p] = stage /\ call'[p] = call[p] => LoneCallOK(p)'
  BY <1>1, <1>4, <1>5, <1>6, <1>7, <1>8 DEF LoneCallOK
<1> QED
  BY <1>1, <1>2, <1>3, <1>9, LoneQuiet

\* A lone call inserts the row.
LEMMA LoneInsertRow ==
  ASSUME LoneInv, NEW p \in Callers, InsertRow(p)
  PROVE  LoneInv'
<1>1. /\ TypeOK /\ CallOK(p) /\ LoneCallOK(p) /\ pc[p] = "insertRow" /\ Inv'
      /\ UNCHANGED <<committed, seen, newMember>>
  BY InsertRowStep DEF LoneInv, Inv, InsertRow
<1>2. PICK stage \in {"commit", "aborted"} : Goto(p, stage)
  BY DEF InsertRow
<1>3. /\ seen'[p] = NULL /\ newMember'[p] = NULL /\ row' = row
      /\ call[p].op \notin Accepting \cup Revoking
  BY <1>1, Kinds DEF committed, CallOK
<1>4. row' # NULL => newRow'[p] = NULL
  BY <1>1 DEF InsertRow, CallOK, committed
<1>5. pc'[p] = stage /\ call'[p] = call[p] => LoneCallOK(p)'
  BY <1>3, <1>4 DEF LoneCallOK
<1>6. OthersKeep(p)
  BY <1>1, <1>2 DEF TypeOK, Goto, OthersKeep, InsertRow
<1> QED
  BY <1>1, <1>2, <1>5, <1>6, LoneQuiet

\* A lone call updates the row.
LEMMA LoneWriteRow ==
  ASSUME LoneInv, NEW p \in Callers, WriteRow(p)
  PROVE  LoneInv'
<1>1. /\ TypeOK /\ CallOK(p) /\ LoneCallOK(p) /\ pc[p] = "writeRow" /\ Inv'
      /\ UNCHANGED committed /\ row # NULL /\ row' = row /\ membership' = membership
  BY WriteRowStep DEF LoneInv, Inv, WriteRow, CallOK, committed
<1>2. CASE End(p)
  BY <1>1, <1>2, LoneEnd
<1>3. CASE call[p].op \in Connecting /\ Goto(p, "readRow") /\ UNCHANGED <<seen, newRow, newMember>>
  <2>1. OthersKeep(p)
    BY <1>1, <1>3 DEF TypeOK, Goto, OthersKeep
  <2>2. seen' = seen /\ newMember' = newMember /\ newRow'[p] = NULL
    BY <1>1, <1>3 DEF CallOK
  <2>3. pc'[p] = "readRow" /\ call'[p] = call[p] => LoneCallOK(p)'
    BY <1>1, <2>2 DEF LoneCallOK, customerOf
  <2> QED
    BY <1>1, <1>3, <2>1, <2>3, LoneQuiet
<1>4. CASE StillSeen(p) /\ WritesRow(p)
  <2>1. PICK stage \in {"readMember", "commit"} :
          /\ Goto(p, stage)
          /\ stage = "commit" => call[p].op \notin Revoking \/ seen[p].customerId = NULL
    BY <1>4 DEF WritesRow, Goto
  <2>2. OthersKeep(p)
    BY <1>1, <1>4, <2>1 DEF TypeOK, Goto, OthersKeep, WritesRow
  <2>3. seen' = seen /\ newMember' = newMember /\ newRow'[p] = Updated(p, row)
    BY <1>1, <1>4 DEF WritesRow, TypeOK
  <2>4. call'[p] = call[p] => Updated(p, row)' = Updated(p, row) /\ customerOf(p)' = customerOf(p)
    BY <1>1, <2>3 DEF Updated, customerOf
  <2>5. pc'[p] = stage /\ call'[p] = call[p] => LoneCallOK(p)'
    BY <1>1, <2>1, <2>3, <2>4 DEF LoneCallOK
  <2> QED
    BY <1>1, <2>1, <2>2, <2>5, LoneQuiet
<1> QED
  BY <1>2, <1>3, <1>4 DEF WriteRow, LosesRow

\* What a lone call's commit makes of the row and of the memberships.
LEMMA LoneCommitFacts ==
  ASSUME LoneInv, NEW p \in Callers, Commit(p), NEW k \in Call, k = call[p]
  PROVE  /\ k.op \in Connecting => row'.status = "PENDING" /\ membership' = membership
         /\ k.op \in Declining => row'.status = "DECLINED" /\ membership' = membership
         /\ k.op \notin Connecting => row # NULL /\ seen[p] = row /\ Answers(k, row)
         /\ k.op \in Accepting =>
              /\ row'.status = "ACTIVE" /\ row'.customerId \in Customers
              /\ \/ membership' = [membership EXCEPT ![row'.customerId] = "active"]
                 \/ membership' = membership /\ membership[row'.customerId] = "active"
         /\ k.op \in Revoking =>
              /\ row'.status = "REVOKED"
              /\ \/ row.customerId \in Customers /\ membership' = [membership EXCEPT ![row.customerId] = "inactive"]
                 \/ membership' = membership /\ (row.customerId = NULL \/ membership[row.customerId] # "active")
<1>1. /\ TypeOK /\ CallOK(p) /\ LoneCallOK(p) /\ pc[p] = "commit"
      /\ row' = newRow[p] /\ newRow[p] \in Relationship /\ newRow[p] # NULL
  BY CommitFacts DEF LoneInv, Inv, CallOK, Commit
<1>2. row'.status = StatusBy(k.op)
  BY <1>1 DEF CallOK
<1>3. newMember[p] = NULL => membership' = membership
  BY DEF Commit
<1>4. newMember[p] # NULL =>
        /\ customerOf(p) \in Customers
        /\ \/ k.op \in Accepting /\ membership' = [membership EXCEPT ![customerOf(p)] = "active"]
           \/ k.op \in Revoking /\ membership' = [membership EXCEPT ![customerOf(p)] = "inactive"]
  <2> SUFFICES ASSUME newMember[p] # NULL
               PROVE  /\ customerOf(p) \in Customers
                      /\ \/ k.op \in Accepting /\ membership' = [membership EXCEPT ![customerOf(p)] = "active"]
                         \/ k.op \in Revoking /\ membership' = [membership EXCEPT ![customerOf(p)] = "inactive"]
    OBVIOUS
  <2>1. newMember[p] \in MemberWrite /\ newMember[p].customer = customerOf(p)
    BY <1>1 DEF TypeOK, LoneCallOK
  <2>2. \/ k.op \in Accepting /\ newMember[p].to = "active"
        \/ k.op \in Revoking /\ newMember[p].to = "inactive"
    BY <1>1 DEF CallOK
  <2> QED
    BY <2>1, <2>2 DEF Commit, MemberWrite
<1>5. k.op \notin Connecting => seen[p] # NULL
  BY <1>1 DEF CallOK, Decides, statusOf, Moves, StatusBy
<1>6. k.op \notin Connecting => row # NULL /\ seen[p] = row /\ Answers(k, row)
  BY <1>1, <1>5 DEF LoneCallOK, CallOK
<1>7. k.op \in Accepting =>
        /\ row'.customerId = customerOf(p) /\ customerOf(p) \in Customers
        /\ newMember[p] = NULL => membership[customerOf(p)] = "active"
  <2> SUFFICES ASSUME k.op \in Accepting
               PROVE  /\ row'.customerId = customerOf(p) /\ customerOf(p) \in Customers
                      /\ newMember[p] = NULL => membership[customerOf(p)] = "active"
    OBVIOUS
  <2>1. row # NULL /\ seen[p] = row
    BY <1>6, Kinds
  <2>2. row' = Updated(p, row)
    BY <1>1, <2>1 DEF LoneCallOK
  <2>3. row'.customerId = customerOf(p)
    BY <2>1, <2>2 DEF Updated, customerOf, Accepting
  <2> QED
    BY <1>1, <2>3 DEF LoneCallOK
<1>8. k.op \in Revoking => customerOf(p) = seen[p].customerId
  BY DEF customerOf, Revoking
<1>9. k.op \in Revoking /\ newMember[p] = NULL
        => seen[p].customerId = NULL \/ membership[seen[p].customerId] # "active"
  BY <1>1 DEF LoneCallOK
<1> QED
  BY <1>2, <1>3, <1>4, <1>6, <1>7, <1>8, <1>9, Kinds

\* A lone call's commit keeps the membership of the ACTIVE relationship, and no
\* other, active.
LEMMA LoneCommit ==
  ASSUME LoneInv, NEW p \in Callers, Commit(p)
  PROVE  LoneInv'
<1>1. TypeOK /\ CallOK(p) /\ OnlyMember /\ pc[p] = "commit" /\ Inv' /\ End(p)
  BY CommitStep DEF LoneInv, Inv, Commit
<1>2. LoneCallOK(p)' /\ OthersKeep(p)
  BY <1>1, EndResets DEF LoneCallOK
<1>3. PICK k \in Call : k = call[p]
  BY <1>1 DEF CallOK
<1>4. row' # NULL /\ row' \in Relationship
  BY CommitFacts DEF LoneInv
<1>5. OnlyMember'
  <2>1. CASE k.op \in Connecting
    <3>1. row = NULL \/ row.status # "ACTIVE"
      <4>1. statusOf(row) # "ACTIVE"
        BY <1>3, <2>1, CommitFacts, Kinds DEF LoneInv, Moves
      <4> QED
        BY <4>1 DEF statusOf
    <3>2. row'.status = "PENDING" /\ membership' = membership
      BY <1>3, <2>1, LoneCommitFacts
    <3> QED
      BY <1>1, <3>1, <3>2 DEF OnlyMember
  <2>2. CASE k.op \in Declining
    <3>1. /\ row'.status = "DECLINED" /\ membership' = membership
          /\ row # NULL /\ Answers(k, row)
      BY <1>3, <2>2, LoneCommitFacts, Kinds
    <3>2. row.status = "PENDING"
      BY <2>2, <3>1 DEF Answers, Declining
    <3> QED
      BY <1>1, <3>1, <3>2 DEF OnlyMember
  <2>3. CASE k.op \in Accepting
    <3>1. /\ row'.status = "ACTIVE" /\ row'.customerId \in Customers
          /\ row # NULL /\ Answers(k, row)
          /\ \/ membership' = [membership EXCEPT ![row'.customerId] = "active"]
             \/ membership' = membership /\ membership[row'.customerId] = "active"
      BY <1>3, <2>3, LoneCommitFacts, Kinds
    <3>2. row.status = "PENDING"
      BY <2>3, <3>1 DEF Answers, Accepting
    <3>3. \A c \in Customers : membership[c] # "active"
      BY <1>1, <3>2 DEF OnlyMember
    <3> QED
      BY <1>1, <1>4, <3>1, <3>3 DEF OnlyMember, TypeOK
  <2>4. CASE k.op \in Revoking
    <3>1. /\ row'.status = "REVOKED" /\ row # NULL /\ Answers(k, row)
          /\ \/ row.customerId \in Customers /\ membership' = [membership EXCEPT ![row.customerId] = "inactive"]
             \/ membership' = membership /\ (row.customerId = NULL \/ membership[row.customerId] # "active")
      BY <1>3, <2>4, LoneCommitFacts, Kinds
    <3>2. row.status = "ACTIVE"
      BY <2>4, <3>1 DEF Answers, Revoking
    <3> QED
      BY <1>1, <3>1, <3>2 DEF OnlyMember, TypeOK
  <2> QED
    BY <2>1, <2>2, <2>3, <2>4, Kinds
<1> QED
  BY <1>1, <1>2, <1>5, Alone, LoneStep

\* One call at a time, every step keeps the invariant.
LEMMA AloneStep ==
  ASSUME LoneInv, [Next]_vars, ~overlapped'
  PROVE  LoneInv'
<1>1. ASSUME NEW p \in Callers, End(p), UNCHANGED committed, pc[p] # "idle"
      PROVE  LoneInv'
  BY <1>1, LoneEnd
<1>2. ASSUME NEW p \in Callers, Deadlock(p)
      PROVE  LoneInv'
  <2>1. PICK q \in Callers : WaitsFor(p, q) /\ WaitsFor(q, p)
    BY <1>2 DEF Deadlock
  <2>2. pc[p] # "idle" /\ End(p) /\ UNCHANGED committed
    BY <1>2, <2>1 DEF Deadlock, WaitsFor
  <2> QED
    BY <1>1, <2>2
<1>3. ASSUME NEW p \in Callers, Abort(p) \/ Fail(p)
      PROVE  LoneInv'
  BY <1>1, <1>3 DEF Abort, Fail
<1>4. ASSUME NEW p \in Callers, WriteMember(p) \/ InsertMember(p)
      PROVE  LoneInv'
  BY <1>1, <1>4, LoneWritesMember DEF WriteMember, InsertMember
<1>5. ASSUME row' = row, membership' = membership, UNCHANGED <<pc, call, seen, newRow, newMember>>
      PROVE  LoneInv'
  <2>1. Inv'
    BY StepInv DEF LoneInv
  <2>2. OneAtATime' /\ OnlyMember'
    BY <1>5, FollowsKept DEF LoneInv, OneAtATime
  <2>3. ASSUME NEW p \in Callers PROVE LoneCallOK(p)'
    BY <1>5 DEF LoneInv, LoneCallOK, Updated, customerOf
  <2> QED
    BY <2>1, <2>2, <2>3 DEF LoneInv
<1>6. ASSUME NEW c \in Customers, SetCustomerActive(c)
      PROVE  LoneInv'
  BY <1>5, <1>6 DEF SetCustomerActive
<1>7. CASE UNCHANGED vars
  BY <1>5, <1>7 DEF vars, committed
<1> QED
  BY <1>2, <1>3, <1>4, <1>6, <1>7, LoneBegin, LoneReadRow, LoneCheckCustomer, LoneReadMember,
     LoneInsertRow, LoneWriteRow, LoneCommit DEF Next, Step

\* Calls that have overlapped stay overlapped.
LEMMA OverlapStep ==
  ASSUME [Next]_vars, overlapped
  PROVE  overlapped'
<1>1. ASSUME NEW p \in Callers, End(p) \/ \E stage : Goto(p, stage)
      PROVE  overlapped'
  BY <1>1 DEF End, Goto
<1>2. ASSUME NEW p \in Callers, Step(p) \/ Fail(p)
      PROVE  overlapped'
  BY <1>1, <1>2 DEF Step, ReadRow, CheckCustomer, ReadMember, WriteMember, InsertMember, WritesMember,
     InsertRow, WriteRow, WritesRow, LosesRow, Commit, Abort, Deadlock, Fail
<1>3. ASSUME NEW p \in Callers, NEW k \in Call, Begin(p, k)
      PROVE  overlapped'
  BY <1>3 DEF Begin
<1> QED
  BY <1>2, <1>3 DEF Next, SetCustomerActive, vars

\* The stronger invariant holds for as long as calls come one at a time.
LEMMA AloneInvHolds == Spec => [](Inv /\ (overlapped \/ LoneInv))
<1>1. Init => Inv /\ LoneInv
  BY InitInv DEF Init, LoneInv, OneAtATime, OnlyMember, LoneCallOK
<1>2. (overlapped \/ LoneInv) /\ [Next]_vars => (overlapped \/ LoneInv)'
  BY AloneStep, OverlapStep
<1> QED
  BY <1>1, <1>2, InvHolds, PTL DEF Spec

\* As long as calls come one at a time, access and relationship go together: exactly
\* the customer of an ACTIVE relationship has an active membership.
THEOREM AloneMembershipFollows == Spec => []MembershipFollows
<1>1. LoneInv => OnlyMember
  BY DEF LoneInv
<1> QED
  BY <1>1, AloneInvHolds, PTL DEF MembershipFollows

\* As long as calls come one at a time, an acceptance comes from the side that did
\* not begin the relationship.
THEOREM AloneBothSidesAgree == Spec => BothSidesAgree
<1>1. ASSUME LoneInv, [Next]_vars, NEW p \in Callers, Commit(p), call[p].op \in Accepting
      PROVE  call[p].op = (IF row.initiatedBy = "SELLER" THEN "accept" ELSE "acceptRequest")
  <2>1. PICK k \in Call : k = call[p]
    BY <1>1 DEF LoneInv, Inv, CallOK, Commit
  <2>2. Answers(k, row)
    BY <1>1, <2>1, LoneCommitFacts, Kinds
  <2> QED
    BY <1>1, <2>1, <2>2 DEF Answers, Accepting
<1>2. (overlapped \/ LoneInv) /\ [Next]_vars => [overlapped \/ OtherSideAccepts]_vars
  BY <1>1 DEF OtherSideAccepts
<1> QED
  BY <1>2, AloneInvHolds, PTL DEF Spec, BothSidesAgree

\* As long as calls come one at a time, an invitation leaves the row with the
\* customer it has.
THEOREM AloneCustomerKept == Spec => CustomerKept
<1>1. ASSUME LoneInv, [Next]_vars, NEW p \in Callers, Commit(p), call[p].op = "invite", row # NULL
      PROVE  row.customerId \in {NULL, call[p].customer}
  <2>1. seen[p] # NULL
    <3>1. statusOf(row) = statusOf(seen[p])
      BY <1>1, CommitFacts DEF LoneInv, Inv, CallOK, Commit
    <3>2. row.status \in Status
      BY <1>1 DEF LoneInv, Inv, TypeOK, Relationship
    <3> QED
      BY <1>1, <3>1, <3>2 DEF statusOf, Status
  <2> QED
    BY <1>1, <2>1 DEF LoneInv, LoneCallOK
<1>2. (overlapped \/ LoneInv) /\ [Next]_vars => [overlapped \/ InvitesSameCustomer]_vars
  BY <1>1 DEF InvitesSameCustomer
<1> QED
  BY <1>2, AloneInvHolds, PTL DEF Spec, CustomerKept
=============================================================================
