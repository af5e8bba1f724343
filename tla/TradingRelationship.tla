-------------------------- MODULE TradingRelationship --------------------------
(***************************************************************************)
(* The trading relationship of one buyer and one seller                    *)
(* (lib/domain/trading-relationships/trading-relationship-service.ts): one *)
(* row, and the buyer's membership of each of the seller's customers.      *)
(* Callers are browsers of the buyer and of the seller's staff; each makes *)
(* one call after another.                                                 *)
(*                                                                         *)
(* A call is one transaction, except that accept, decline and              *)
(* revokeAsBuyer read the row in an earlier one (discoverOwn...).  The row *)
(* is written by an UPDATE that repeats the status that was read; nothing  *)
(* else of what was read is checked again.                                 *)
(*                                                                         *)
(* A definition named X_Y, before X, is X with a bug.                      *)
(***************************************************************************)
EXTENDS FiniteSetsExt

CONSTANTS
  Customers,  \* the seller's customers
  Callers,
  NULL

\* A row, and a membership that a transaction wrote.
Status == {"PENDING", "ACTIVE", "DECLINED", "REVOKED"}
Relationship ==
  [status: Status, initiatedBy: {"SELLER", "BUYER"}, customerId: Customers \cup {NULL}]
MemberWrite == [customer: Customers, to: {"active", "inactive"}]

ASSUME TradingRelationshipAssumption == NULL \notin Customers \cup Relationship \cup MemberWrite

VARIABLES
  \* Committed.
  row,            \* the relationship, NULL before there is one
  membership,     \* membership[c]: the buyer's membership of customer c
  activeCustomer, \* customers with isActive
  entry,          \* the old and new status of the row's last audit entry
  \* A caller's own state.
  pc, call,
  seen,           \* the row as read
  newRow,         \* the row as written, not committed
  newMember,      \* the membership as written, not committed
  \* History.
  overlapped      \* a call has begun while another was under way

committed == <<row, membership, activeCustomer, entry>>
vars == <<committed, pc, call, seen, newRow, newMember, overlapped>>

-----------------------------------------------------------------------------
Call ==
  [op: {"invite", "acceptRequest", "revokeAsSeller"}, customer: Customers]
  \cup [op: {"request", "accept", "decline", "declineRequest", "revokeAsBuyer"}, customer: {NULL}]

Connecting == {"invite", "request"}
Accepting == {"accept", "acceptRequest"}
Declining == {"decline", "declineRequest"}
Revoking == {"revokeAsBuyer", "revokeAsSeller"}

statusOf(r) == IF r = NULL THEN "NONE" ELSE r.status

\* The status that an UPDATE by each operation writes.
StatusBy(op) ==
  IF op \in Connecting THEN "PENDING"
  ELSE IF op \in Accepting THEN "ACTIVE"
  ELSE IF op \in Declining THEN "DECLINED"
  ELSE "REVOKED"

\* resolveExisting, resolveExistingForRequest: the row can be PENDING again.
Reopens(k, r) ==
  /\ r.status \in {"DECLINED", "REVOKED"}
  /\ k.op = "invite" => r.customerId \in {NULL, k.customer}

\* assertOwnPendingSellerInvitation, assertTenantPendingBuyerRequest,
\* assertOwnActiveRelationship, assertTenantActiveRelationshipForCustomer.
Answers_AnyInitiator(k, r) ==
  /\ k.op \in Accepting \cup Declining => r.status = "PENDING"
  /\ k.op \in Revoking => r.status = "ACTIVE"
  /\ k.op = "revokeAsSeller" => r.customerId = k.customer
Answers(k, r) ==
  /\ k.op \in {"accept", "decline"} => r.status = "PENDING" /\ r.initiatedBy = "SELLER"
  /\ k.op \in {"acceptRequest", "declineRequest"} => r.status = "PENDING" /\ r.initiatedBy = "BUYER"
  /\ k.op \in Revoking => r.status = "ACTIVE"
  /\ k.op = "revokeAsSeller" => r.customerId = k.customer

\* The customer whose membership a caller reads and writes.
customerOf(p) ==
  IF call[p].op \in {"invite", "acceptRequest"} THEN call[p].customer ELSE seen[p].customerId

\* What the UPDATE of the row makes of it.
Updated_SameCustomer(p, r) ==
  LET k == call[p] IN
  [status |-> StatusBy(k.op),
   initiatedBy |-> IF k.op = "invite" THEN "SELLER" ELSE IF k.op = "request" THEN "BUYER"
                   ELSE r.initiatedBy,
   customerId |-> IF k.op = "invite" THEN k.customer ELSE r.customerId]
Updated(p, r) ==
  LET k == call[p] IN
  [status |-> StatusBy(k.op),
   initiatedBy |-> IF k.op = "invite" THEN "SELLER" ELSE IF k.op = "request" THEN "BUYER"
                   ELSE r.initiatedBy,
   customerId |-> IF k.op \in {"invite", "acceptRequest"} THEN k.customer ELSE r.customerId]

-----------------------------------------------------------------------------
Init ==
  /\ row = NULL
  /\ membership = [c \in Customers |-> "none"]
  /\ activeCustomer = Customers
  /\ entry = [old |-> "NONE", new |-> "NONE"]
  /\ pc = [p \in Callers |-> "idle"]
  /\ call = [p \in Callers |-> NULL]
  /\ seen = [p \in Callers |-> NULL]
  /\ newRow = [p \in Callers |-> NULL]
  /\ newMember = [p \in Callers |-> NULL]
  /\ overlapped = FALSE

\* The seller deactivates or reactivates a customer (setCustomerActive).
SetCustomerActive(c) ==
  /\ activeCustomer' = SymDiff(activeCustomer, {c})
  /\ UNCHANGED <<row, membership, entry, pc, call, seen, newRow, newMember, overlapped>>

Begin(p, k) ==
  /\ pc[p] = "idle"
  /\ pc' = [pc EXCEPT ![p] = IF k.op = "invite" THEN "checkCustomer" ELSE "readRow"]
  /\ call' = [call EXCEPT ![p] = k]
  /\ overlapped' = (overlapped \/ \E q \in Callers : pc[q] # "idle")
  /\ UNCHANGED <<committed, seen, newRow, newMember>>

\* The call's transaction ends.  What it wrote is gone, or was committed.
End(p) ==
  /\ pc' = [pc EXCEPT ![p] = "idle"]
  /\ call' = [call EXCEPT ![p] = NULL]
  /\ seen' = [seen EXCEPT ![p] = NULL]
  /\ newRow' = [newRow EXCEPT ![p] = NULL]
  /\ newMember' = [newMember EXCEPT ![p] = NULL]
  /\ UNCHANGED overlapped

Goto(p, stage) == pc' = [pc EXCEPT ![p] = stage] /\ UNCHANGED <<call, overlapped>>

\* Reads the row; a call that cannot be answered as things are ends here.
ReadRow(p) ==
  LET k == call[p]
      goesOn(stage) ==
        Goto(p, stage) /\ seen' = [seen EXCEPT ![p] = row] /\ UNCHANGED <<newRow, newMember>> IN
  /\ pc[p] = "readRow"
  /\ UNCHANGED committed
  /\ \/ row = NULL /\ k.op \in Connecting /\ goesOn("insertRow")
     \/ row # NULL /\ k.op \in Connecting /\ Reopens(k, row) /\ goesOn("writeRow")
     \/ row # NULL /\ k.op \in Accepting /\ Answers(k, row) /\ goesOn("checkCustomer")
     \/ row # NULL /\ k.op \in Declining \cup Revoking /\ Answers(k, row) /\ goesOn("writeRow")
     \/ row = NULL /\ k.op \notin Connecting /\ End(p)
     \/ row # NULL /\ k.op \in Connecting /\ ~Reopens(k, row) /\ End(p)
     \/ row # NULL /\ k.op \notin Connecting /\ ~Answers(k, row) /\ End(p)

\* An invitation, before it reads the row, and an acceptance, after.
CheckCustomer(p) ==
  /\ pc[p] = "checkCustomer"
  /\ UNCHANGED committed
  /\ \/ /\ customerOf(p) \in activeCustomer
        /\ Goto(p, IF call[p].op = "invite" THEN "readRow" ELSE "readMember")
        /\ UNCHANGED <<seen, newRow, newMember>>
     \/ customerOf(p) \notin activeCustomer /\ End(p)

\* An acceptance does this before it writes the row, a revocation after.
ReadMember(p) ==
  LET m == membership[customerOf(p)]
      accepting == call[p].op \in Accepting IN
  /\ pc[p] = "readMember"
  /\ Goto(p, IF accepting /\ m = "none" THEN "insertMember"
             ELSE IF accepting /\ m = "active" THEN "writeRow"
             ELSE IF ~accepting /\ m # "active" THEN "commit"
             ELSE "writeMember")
  /\ UNCHANGED <<committed, seen, newRow, newMember>>

\* A write waits for another transaction's write of the same row or key.
RowHeld(p) == \E q \in Callers \ {p} : newRow[q] # NULL
MemberHeldBy(p, q) == q # p /\ newMember[q] # NULL /\ newMember[q].customer = customerOf(p)
MemberHeld(p) == \E q \in Callers : MemberHeldBy(p, q)

WritesMember(p) ==
  /\ newMember' = [newMember EXCEPT ![p] =
       [customer |-> customerOf(p),
        to |-> IF call[p].op \in Accepting THEN "active" ELSE "inactive"]]
  /\ Goto(p, IF call[p].op \in Accepting THEN "writeRow" ELSE "commit")
  /\ UNCHANGED <<committed, seen, newRow>>

WriteMember(p) == pc[p] = "writeMember" /\ ~MemberHeld(p) /\ WritesMember(p)

\* A duplicate key aborts the transaction, and the call fails.
InsertMember(p) ==
  /\ pc[p] = "insertMember"
  /\ ~MemberHeld(p)
  /\ \/ membership[customerOf(p)] = "none" /\ WritesMember(p)
     \/ membership[customerOf(p)] # "none" /\ End(p) /\ UNCHANGED committed

\* After the duplicate key, the row is read again, which fails: PostgreSQL
\* refuses every statement of an aborted transaction.
InsertRow(p) ==
  /\ pc[p] = "insertRow"
  /\ ~RowHeld(p)
  /\ \/ /\ row = NULL
        /\ newRow' = [newRow EXCEPT ![p] = Updated(p, [initiatedBy |-> NULL, customerId |-> NULL])]
        /\ Goto(p, "commit")
        /\ UNCHANGED <<committed, seen, newMember>>
     \/ /\ row # NULL
        /\ Goto(p, "aborted")
        /\ UNCHANGED <<committed, seen, newRow, newMember>>

\* updateMany where the status is the one seen.
StillSeen_ById(p) == TRUE
StillSeen(p) == row.status = seen[p].status

WritesRow(p) ==
  /\ newRow' = [newRow EXCEPT ![p] = Updated(p, row)]
  /\ Goto(p, IF call[p].op \in Revoking /\ seen[p].customerId # NULL THEN "readMember" ELSE "commit")
  /\ UNCHANGED <<seen, newMember>>

\* When it changed no row, an invitation or request reads the row again, and any
\* other call fails.
LosesRow_CommitsAnyway(p) ==
  /\ Goto(p, IF call[p].op \in Connecting THEN "readRow" ELSE "commit")
  /\ UNCHANGED <<seen, newRow, newMember>>
LosesRow_Retries(p) ==
  /\ Goto(p, IF call[p].op \in Connecting THEN "readRow" ELSE "writeRow")
  /\ UNCHANGED <<seen, newRow, newMember>>
LosesRow(p) ==
  \/ /\ call[p].op \in Connecting
     /\ Goto(p, "readRow")
     /\ UNCHANGED <<seen, newRow, newMember>>
  \/ call[p].op \notin Connecting /\ End(p)

WriteRow(p) ==
  /\ pc[p] = "writeRow"
  /\ ~RowHeld(p)
  /\ UNCHANGED committed
  /\ \/ StillSeen(p) /\ WritesRow(p)
     \/ ~StillSeen(p) /\ LosesRow(p)

\* The audit entry of the row tells the status that was read as the old one.
Commit(p) ==
  /\ pc[p] = "commit"
  /\ row' = IF newRow[p] = NULL THEN row ELSE newRow[p]
  /\ membership' = IF newMember[p] = NULL THEN membership
                   ELSE [membership EXCEPT ![newMember[p].customer] = newMember[p].to]
  /\ entry' = [old |-> statusOf(seen[p]), new |-> StatusBy(call[p].op)]
  /\ End(p)
  /\ UNCHANGED activeCustomer

\* The error of the call that lost the race to insert the row.
Abort(p) == pc[p] = "aborted" /\ End(p) /\ UNCHANGED committed

\* PostgreSQL ends one of two transactions that wait for each other.
WaitsFor(p, q) ==
  \/ pc[p] \in {"writeRow", "insertRow"} /\ newRow[q] # NULL /\ q # p
  \/ pc[p] \in {"writeMember", "insertMember"} /\ MemberHeldBy(p, q)
Deadlock(p) ==
  /\ \E q \in Callers : WaitsFor(p, q) /\ WaitsFor(q, p)
  /\ End(p)
  /\ UNCHANGED committed

\* The transaction times out, or the process stops.
Fail(p) == pc[p] # "idle" /\ End(p) /\ UNCHANGED committed

Step(p) ==
  \/ ReadRow(p) \/ CheckCustomer(p) \/ ReadMember(p) \/ WriteMember(p) \/ InsertMember(p)
  \/ InsertRow(p) \/ WriteRow(p) \/ Commit(p) \/ Abort(p) \/ Deadlock(p)

Next ==
  \/ \E p \in Callers : (\E k \in Call : Begin(p, k)) \/ Step(p) \/ Fail(p)
  \/ \E c \in Customers : SetCustomerActive(c)

Spec == Init /\ [][Next]_vars

\* A call goes on; who waits for a row is next to get it, as PostgreSQL queues
\* the waiters.
FairSpec == Spec /\ \A p \in Callers : SF_vars(Step(p))
=============================================================================
