---------------------- MODULE OrderLifecycleProperties ----------------------
(***************************************************************************)
(* What the order services guarantee however their requests interleave,    *)
(* what they guarantee only while requests come one at a time, and what    *)
(* their comments say of both.                                             *)
(***************************************************************************)
EXTENDS OrderLifecycle

\* The places in the audit log of the changes to one column of one row.
EntriesOf(field, x) ==
  {i \in 1..Len(audit) : audit[i].field = field /\ audit[i].on = x}

\* Every status an order has had.
StatusesOf(o) == {"SUBMITTED"} \cup {audit[i].new : i \in EntriesOf("status", o)}

-----------------------------------------------------------------------------
(* Types.                                                                  *)

OrderRow ==
  [status: OrderStatus, assignedDriver: Drivers \cup {NULL},
   cancelledBy: {"BUYER", NULL}, confirmedAt: BOOLEAN, deliveredAt: BOOLEAN]

LineRow == [confirmedQty: Nat \cup {NULL}, unavailableReason: BOOLEAN]

AuditEntry ==
  [field: {"confirmedQty"}, on: Lines, by: Requests, old: Nat, new: Nat]
  \cup [field: {"status"}, on: Orders, by: Requests, old: OrderStatus, new: OrderStatus]
  \cup [field: {"assignedDriver"}, on: Orders, by: Requests,
        old: Drivers \cup {NULL}, new: Drivers \cup {NULL}]

OrderEvent == [type: OrderStatus, order: Orders, by: Requests]

Stage == {"idle", "open", "written", "committed", "refused", "aborted", "done"}

\* Each variable has its type; a transaction's uncommitted rows are those of
\* existing lines.
TypeOK ==
  /\ order \in [Orders -> OrderRow]
  /\ line \in [Lines -> LineRow]
  /\ audit \in Seq(AuditEntry)
  /\ events \in SUBSET OrderEvent
  /\ pc \in [Requests -> Stage]
  /\ call \in [Requests -> Calls \cup {NULL}]
  /\ seen \in [Requests -> OrderRow \cup {NULL}]
  /\ turn \in [Requests -> Nat]
  /\ DOMAIN draft = Requests
  /\ \A r \in Requests :
       DOMAIN draft[r] \subseteq Lines /\ draft[r] \in [DOMAIN draft[r] -> LineRow]
  /\ entries \in [Requests -> Seq(AuditEntry)]
  /\ overlapped \in BOOLEAN

-----------------------------------------------------------------------------
(* However requests interleave.                                            *)

\* Each audited status change is an edge of the status machine out of a status
\* that an earlier entry, or the submission, gave the order.  So no race takes
\* an order to PICKING without a confirmation, or to DELIVERED past a stage.
HistoryIsConnected ==
  \A o \in Orders : \A i \in EntriesOf("status", o) :
    /\ isValidOrderTransition(audit[i].old, audit[i].new)
    /\ \/ audit[i].old = "SUBMITTED"
       \/ \E j \in EntriesOf("status", o) : j < i /\ audit[j].new = audit[i].old

\* v is what the last audit entry for the column says, initial if there is none.
LastAudited(field, x, initial, v) ==
  LET is == EntriesOf(field, x) IN
  IF is = {} THEN v = initial
             ELSE \E i \in is : audit[i].new = v /\ \A j \in is : j <= i

\* The status and the driver on an order's row are those of the last audit
\* entry about them: no write of either is lost, and none goes unaudited, in
\* whatever order the transactions commit.
RowIsLastAudited ==
  \A o \in Orders :
    /\ LastAudited("status", o, "SUBMITTED", order[o].status)
    /\ LastAudited("assignedDriver", o, NULL, order[o].assignedDriver)

\* The marks that a move leaves on the row beside the status (confirmedAt,
\* deliveredAt, cancelledBy) stay there and are left by no other: they tell
\* whether the order was ever confirmed, delivered or cancelled, also when one
\* request moves it after another has read it, or when moves that exclude each
\* other were both made.
MarksTellHistory ==
  \A o \in Orders :
    /\ order[o].confirmedAt <=> "CONFIRMED" \in StatusesOf(o)
    /\ order[o].deliveredAt <=> "DELIVERED" \in StatusesOf(o)
    /\ order[o].cancelledBy = "BUYER" <=> "CANCELLED" \in StatusesOf(o)

\* A line's quantity is decided exactly when its order was ever confirmed, it
\* is never negative or above the requested one, and a line is marked
\* unavailable exactly when its quantity is 0.
QuantitiesDecided ==
  \A l \in Lines :
    LET row == line[l] IN
    /\ row.confirmedQty # NULL <=> "CONFIRMED" \in StatusesOf(orderOf[l])
    /\ row.confirmedQty # NULL => row.confirmedQty \in 0..requestedQty[l]
    /\ row.unavailableReason <=> row.confirmedQty = 0

\* The quantities of a confirmed order are all from one confirmation, never a
\* mixture of two that ran at once.
OneConfirmation ==
  \A o \in Orders : "CONFIRMED" \in StatusesOf(o) =>
    \E r \in Requests :
      /\ pc[r] \in {"committed", "done"} /\ call[r] # NULL
      /\ call[r].op = "confirm" /\ call[r].order = o
      /\ \A i \in 1..Len(call[r].lines) :
           line[call[r].lines[i].line] = LineVersion(call[r].lines[i])

\* A line confirmed at less than was requested has an audit entry with that
\* quantity (docs/ORDER_WORKFLOW.md section 4).
ReductionAudited ==
  \A l \in Lines :
    line[l].confirmedQty \notin {NULL, requestedQty[l]} =>
      \E i \in EntriesOf("confirmedQty", l) :
        audit[i].new = line[l].confirmedQty /\ audit[i].old = requestedQty[l]

\* What a confirmed order says of its lines comes from one confirmation, and
\* the audit log has what it took away.
ConfirmedQuantities == QuantitiesDecided /\ OneConfirmation /\ ReductionAudited

\* An event announces a change that was committed, by the request that made it
\* (publishOrderEvent is called after the transaction, never inside it).
EventsCommitted ==
  \A e \in events :
    \E i \in EntriesOf("status", e.order) : audit[i].new = e.type /\ audit[i].by = e.by

\* Whatever waits for whatever row lock, a request that opened its transaction
\* ends, without help from the transaction's timeout.
RequestsFinish ==
  \A r \in Requests : InTransaction(r) ~> Finished(r)

\* A handler's next step, the detection of a deadlock included, and that it can
\* be taken: the row it writes is not locked, it has no row to write, or it is on a
\* circle of waiting requests.
HandlerStep(r) == WriteLine(r) \/ WriteOrder(r) \/ Commit(r) \/ Publish(r) \/ DeadlockVictim(r)

CanGoOn(r) ==
  \/ (AtLine(r) \/ AtOrder(r)) /\ \A q \in Requests : ~WaitsFor(r, q)
  \/ pc[r] \in {"written", "committed"}
  \/ Deadlocked(r)

\* While transactions are open, one of them can go on, whichever lines each has
\* locked and in whatever order.
SomeRequestGoesOn ==
  (\E r \in Requests : InTransaction(r)) => \E r \in Requests : InTransaction(r) /\ CanGoOn(r)

\* The handler's steps that a request has before it at most.
StepsLeft(r) ==
  CASE pc[r] = "open" -> Len(call[r].lines) - turn[r] + 3
    [] pc[r] = "written" -> 2
    [] pc[r] = "committed" -> 1
    [] OTHER -> 0

\* A request that has begun comes nearer to its end with each of its steps, and no
\* other request sets it back: nothing is retried, and its line list has an end.
RequestsDescend ==
  [][\A r \in Requests : pc[r] \in {"open", "written", "committed"} =>
       /\ StepsLeft(r) \in Nat \ {0}
       /\ HandlerStep(r) => StepsLeft(r)' < StepsLeft(r)
       /\ UNCHANGED <<pc[r], call[r], turn[r]>> \/ StepsLeft(r)' < StepsLeft(r)]_vars

\* The order services implement the status specification.
StatusSpec == INSTANCE OrderStatusSpec WITH
  status <- [o \in Orders |-> order[o].status],
  past   <- [o \in Orders |-> StatusesOf(o)],
  raced  <- overlapped

ImplementsStatusSpec == StatusSpec!Spec

-----------------------------------------------------------------------------
(* As long as no two transactions were open at once.  A request that reads *)
(* an order before another writes it breaks each of these.                 *)

\* A driver's request moves an order only while the order is assigned to that
\* driver (AdvanceOrderStatusOptions.requireDriverMembershipId).
OwnMoves ==
  \A r \in Requests :
    pc[r] = "written" /\ pc'[r] = "committed" /\ call[r].op = "advance"
      => call[r].driver \in {NULL, order[call[r].order].assignedDriver}

DriverOwnsMove == [][overlapped \/ OwnMoves]_vars

\* A delivered or cancelled order keeps its driver (assignDriverToOrder).
NoAssignmentAfterTheEnd ==
  [][overlapped \/ \A o \in Orders :
       order[o].status \in TERMINAL_STATUSES => order'[o].assignedDriver = order[o].assignedDriver]_vars

\* The entry's old value is the value the change replaced: the previous
\* entry's new one (docs/SECURITY_AND_MULTI_TENANCY.md section 7, "before/after").
AuditTellsBeforeAndAfter ==
  overlapped \/ \A o \in Orders : \A f \in {"status", "assignedDriver"} : \A i \in EntriesOf(f, o) :
    LET before == {j \in EntriesOf(f, o) : j < i} IN
    IF before = {}
    THEN audit[i].old = NewOrder[f]
    ELSE \E j \in before : audit[j].new = audit[i].old /\ \A k \in before : k <= j

\* The audit log tells a line's confirmed quantity: the last entry's, or the
\* requested one when no entry was written.
AuditTellsQuantity ==
  overlapped \/ \A l \in Lines : line[l].confirmedQty # NULL =>
    LastAudited("confirmedQty", l, requestedQty[l], line[l].confirmedQty)

\* The audit log tells each change of an order and of its lines as it was made.
AuditTellsChanges == AuditTellsBeforeAndAfter /\ AuditTellsQuantity

-----------------------------------------------------------------------------
(* What the code says without that condition, and what does not hold.      *)

\* Every change of an order's status is an edge of the machine: "the single
\* source of truth for which order-status transitions are legal".
MovesAlwaysLegal ==
  [][\A o \in Orders : order'[o].status # order[o].status =>
       isValidOrderTransition(order[o].status, order'[o].status)]_vars
=============================================================================
