--------------------------- MODULE OrderLifecycle ---------------------------
(***************************************************************************)
(* What happens to an order after it was submitted: the seller's           *)
(* confirmation, the forward status moves, the buyer's cancellation and    *)
(* the assignment of a driver, as concurrent requests on one database.     *)
(*                                                                         *)
(* Each request runs one interactive transaction at PostgreSQL's default   *)
(* level, READ COMMITTED (lib/db/with-tenant.ts sets no other): it reads   *)
(* the order as committed, decides on what it read, writes rows one        *)
(* statement at a time, and commits.  A written row stays locked, and the  *)
(* new version invisible, until the commit.  The order's own UPDATE has    *)
(* WHERE id only, so whoever waited for the row lock then overwrites.      *)
(* After a commit the request publishes its event, outside the             *)
(* transaction.                                                            *)
(*                                                                         *)
(* A definition named X_Y, before X, is X with a bug: README.md lists the  *)
(* property that each one breaks.  No behaviour uses them.                 *)
(***************************************************************************)
EXTENDS Integers, Sequences, OrderStatusMachine

CONSTANTS
  Orders,        \* orders of one tenant, all SUBMITTED at the start
  Lines,         \* order lines
  orderOf,       \* orderOf[l]: the order of line l, in Orders or any other
  requestedQty,  \* requestedQty[l], in a unit far above QTY_TOLERANCE
  Memberships,   \* tenant membership ids a request can name
  Drivers,       \* those that are active DELIVERY_DRIVER memberships
  Requests,      \* requests, each handled once: the bound on the run
  ConfirmInputs, \* the line lists a confirmation can carry
  NULL           \* a database NULL

LineInput == [line: Lines, qty: Int, reason: BOOLEAN]

ASSUME OrderLifecycleAssumption ==
  /\ orderOf = [l \in Lines |-> orderOf[l]]
  /\ requestedQty \in [Lines -> Nat \ {0}]
  /\ Drivers \subseteq Memberships
  /\ \A ls \in ConfirmInputs :
       /\ ls \in Seq(LineInput)
       \* confirmOrderAction makes one entry per line it read.
       /\ \A i, j \in 1..Len(ls) : ls[i].line = ls[j].line => i = j
  /\ NULL \notin Int /\ NULL \notin Memberships /\ NULL \notin OrderStatus \cup {"BUYER"}

VARIABLES
  order,      \* committed Order rows
  line,       \* committed OrderLine rows
  audit,      \* committed AuditLogEntry rows, in commit order
  events,     \* events handed to the listeners
  pc,         \* where each request is
  call,       \* the service call each request makes
  seen,       \* the Order row its transaction read
  turn,       \* how many entries of its line list its transaction has handled
  draft,      \* the OrderLine versions its transaction wrote, not yet committed
  entries,    \* the audit entries its transaction wrote, not yet committed
  overlapped  \* history: two transactions were open at once

vars == <<order, line, audit, events, pc, call, seen, turn, draft, entries, overlapped>>

-----------------------------------------------------------------------------
(* Calls.                                                                  *)

LinesOf(o) == {l \in Lines : orderOf[l] = o}

confirmOrder(o, ls) ==
  [op |-> "confirm", order |-> o, to |-> "CONFIRMED", driver |-> NULL, lines |-> ls]
\* driver is requireDriverMembershipId, NULL for every role but the driver's.
advanceOrderStatus(o, to, driver) ==
  [op |-> "advance", order |-> o, to |-> to, driver |-> driver, lines |-> <<>>]
requestOrderCancellation(o) ==
  [op |-> "cancel", order |-> o, to |-> "CANCELLED", driver |-> NULL, lines |-> <<>>]
assignDriverToOrder(o, driver) ==
  [op |-> "assign", order |-> o, to |-> NULL, driver |-> driver, lines |-> <<>>]

Calls ==
  {confirmOrder(o, ls) : o \in Orders, ls \in ConfirmInputs}
  \cup {advanceOrderStatus(o, to, NULL) : o \in Orders, to \in AdvanceableOrderStatus}
  \cup {advanceOrderStatus(o, to, d) : o \in Orders, to \in DriverStatus, d \in Drivers}
  \cup {requestOrderCancellation(o) : o \in Orders}
  \cup {assignDriverToOrder(o, d) : o \in Orders, d \in Memberships \cup {NULL}}

\* A request that has made no call, or was refused, has NULL for one.
ASSUME NoCallAssumption == NULL \notin Calls

Changed(input) == input.qty # requestedQty[input.line]

\* The line checks of a confirmation: no LINE_NOT_FOUND, NEGATIVE_QTY,
\* EXCEEDS_REQUESTED_QTY or REASON_REQUIRED, and no line left out.
LineAccepted(o, input) ==
  /\ input.line \in LinesOf(o)
  /\ input.qty >= 0
  /\ input.qty <= requestedQty[input.line]
  /\ Changed(input) => input.reason

NoLineLeftOut(o, ls) ==
  \A l \in LinesOf(o) : \E i \in 1..Len(ls) : ls[i].line = l

\* What each call decides on, all of it read before its first write.
ConfirmAccepts(c, row) ==
  /\ isValidOrderTransition(row.status, c.to)
  /\ \A i \in 1..Len(c.lines) : LineAccepted(c.order, c.lines[i])
  /\ NoLineLeftOut(c.order, c.lines)

AdvanceAccepts_FromAnywhere(c, row) == c.driver = NULL \/ row.assignedDriver = c.driver
AdvanceAccepts(c, row) ==
  /\ c.driver = NULL \/ row.assignedDriver = c.driver
  /\ isValidOrderTransition(row.status, c.to)

CancelAccepts(c, row) == isValidOrderTransition(row.status, c.to)

AssignAccepts_AnyStatus(c, row) == c.driver \in Drivers \cup {NULL}
AssignAccepts(c, row) ==
  /\ row.status \notin TERMINAL_STATUSES
  /\ c.driver \in Drivers \cup {NULL}

Accepts(c, row) ==
  \/ c.op = "confirm" /\ ConfirmAccepts(c, row)
  \/ c.op = "advance" /\ AdvanceAccepts(c, row)
  \/ c.op = "cancel" /\ CancelAccepts(c, row)
  \/ c.op = "assign" /\ AssignAccepts(c, row)

-----------------------------------------------------------------------------
(* Row locks.                                                              *)

InTransaction(r) == pc[r] \in {"open", "written"}

\* The next statement of r is an OrderLine update, or its Order update.
AtLine(r)    == pc[r] = "open" /\ turn[r] < Len(call[r].lines)
AtOrder(r)   == pc[r] = "open" /\ turn[r] = Len(call[r].lines)
NextInput(r) == call[r].lines[turn[r] + 1]

\* q holds the lock on the row that r writes next.
WaitsFor(r, q) ==
  /\ q # r
  /\ \/ AtLine(r) /\ NextInput(r).line \in DOMAIN draft[q]
     \/ AtOrder(r) /\ pc[q] = "written" /\ call[q].order = call[r].order

\* r is on a cycle of requests that wait for each other.
Deadlocked(r) ==
  \E C \in SUBSET Requests :
    /\ r \in C
    /\ \A q \in C : (\E p \in C : WaitsFor(q, p)) /\ (\E p \in C : WaitsFor(p, q))

-----------------------------------------------------------------------------
(* The steps of a request.                                                 *)

NewOrder ==
  [status |-> "SUBMITTED", assignedDriver |-> NULL, cancelledBy |-> NULL,
   confirmedAt |-> FALSE, deliveredAt |-> FALSE]

NewLine == [confirmedQty |-> NULL, unavailableReason |-> FALSE]

NoRows == [l \in {} |-> NewLine]

Init ==
  /\ order = [o \in Orders |-> NewOrder]
  /\ line = [l \in Lines |-> NewLine]
  /\ audit = <<>>
  /\ events = {}
  /\ pc = [r \in Requests |-> "idle"]
  /\ call = [r \in Requests |-> NULL]
  /\ seen = [r \in Requests |-> NULL]
  /\ turn = [r \in Requests |-> 0]
  /\ draft = [r \in Requests |-> NoRows]
  /\ entries = [r \in Requests |-> <<>>]
  /\ overlapped = FALSE

\* The transaction opens, reads the order and passes the call's checks.
Begin(r, c) ==
  /\ pc[r] = "idle"
  /\ Accepts(c, order[c.order])
  /\ pc' = [pc EXCEPT ![r] = "open"]
  /\ call' = [call EXCEPT ![r] = c]
  /\ seen' = [seen EXCEPT ![r] = order[c.order]]
  /\ overlapped' = (overlapped \/ \E q \in Requests : InTransaction(q))
  /\ UNCHANGED <<order, line, audit, events, turn, draft, entries>>

\* A check fails: the call returns an error, or throws, before any write.
Refuse(r, c) ==
  /\ pc[r] = "idle"
  /\ ~Accepts(c, order[c.order])
  /\ pc' = [pc EXCEPT ![r] = "refused"]
  /\ UNCHANGED <<order, line, audit, events, call, seen, turn, draft, entries, overlapped>>

LineVersion(input) ==
  [confirmedQty |-> input.qty, unavailableReason |-> input.qty = 0 /\ input.reason]

LineEntry(r, input) ==
  [field |-> "confirmedQty", on |-> input.line, by |-> r,
   old |-> requestedQty[input.line], new |-> input.qty]

\* The uncommitted versions of r's lines once input's line is among them.
Drafted_IfChanged(r, input) ==
  [k \in DOMAIN draft[r] \cup {l \in {input.line} : Changed(input)} |->
     IF k = input.line THEN LineVersion(input) ELSE draft[r][k]]
Drafted(r, input) ==
  [k \in DOMAIN draft[r] \cup {input.line} |->
     IF k = input.line THEN LineVersion(input) ELSE draft[r][k]]

\* One turn of the confirmation's loop: the line's UPDATE, once its row lock
\* is free, and an audit entry when the quantity differs from the requested.
WriteLine(r) ==
  LET input == NextInput(r) IN
  /\ AtLine(r)
  /\ \A q \in Requests : ~WaitsFor(r, q)
  /\ turn' = [turn EXCEPT ![r] = @ + 1]
  /\ draft' = [draft EXCEPT ![r] = Drafted(r, input)]
  /\ entries' = [entries EXCEPT ![r] =
       IF Changed(input) THEN Append(@, LineEntry(r, input)) ELSE @]
  /\ UNCHANGED <<order, line, audit, events, pc, call, seen, overlapped>>

\* The audit entry of the order's UPDATE: what was read, what was written.
OrderEntry_ForgetsDriver(r) ==
  LET c == call[r] IN
  IF c.op = "assign"
  THEN [field |-> "assignedDriver", on |-> c.order, by |-> r, old |-> NULL, new |-> c.driver]
  ELSE [field |-> "status", on |-> c.order, by |-> r,
        old |-> seen[r].status, new |-> c.to]
OrderEntry(r) ==
  LET c == call[r] IN
  IF c.op = "assign"
  THEN [field |-> "assignedDriver", on |-> c.order, by |-> r,
        old |-> seen[r].assignedDriver, new |-> c.driver]
  ELSE [field |-> "status", on |-> c.order, by |-> r,
        old |-> seen[r].status, new |-> c.to]

\* The UPDATE of the order row, once its lock is free, and its audit entry.
WriteOrder(r) ==
  /\ AtOrder(r)
  /\ \A q \in Requests : ~WaitsFor(r, q)
  /\ pc' = [pc EXCEPT ![r] = "written"]
  /\ entries' = [entries EXCEPT ![r] = Append(@, OrderEntry(r))]
  /\ UNCHANGED <<order, line, audit, events, call, seen, turn, draft, overlapped>>

\* The row version that the UPDATE of call c makes of row: the columns it sets
\* and no other.
OrderVersion(c, row) ==
  IF c.op = "assign"
  THEN [row EXCEPT !.assignedDriver = c.driver]
  ELSE [row EXCEPT !.status = c.to,
                   !.cancelledBy = IF c.op = "cancel" THEN "BUYER" ELSE @,
                   !.confirmedAt = @ \/ c.op = "confirm",
                   !.deliveredAt = @ \/ c.to = "DELIVERED"]

\* The end of a transaction discards its versions and with them its row locks.
Released_Never(r) == draft
Released(r) == [draft EXCEPT ![r] = NoRows]

Commit_WholeRow(r) ==
  LET c == call[r] IN
  /\ pc[r] = "written"
  /\ order' = [order EXCEPT ![c.order] = OrderVersion(c, seen[r])]
  /\ line' = [l \in Lines |-> IF l \in DOMAIN draft[r] THEN draft[r][l] ELSE line[l]]
  /\ audit' = audit \o entries[r]
  /\ pc' = [pc EXCEPT ![r] = IF c.op = "assign" THEN "done" ELSE "committed"]
  /\ draft' = Released(r)
  /\ entries' = [entries EXCEPT ![r] = <<>>]
  /\ UNCHANGED <<events, call, seen, turn, overlapped>>

\* All the rows the transaction wrote become visible and are unlocked.
\* assignDriverToOrder publishes no event.
Commit(r) ==
  LET c == call[r] IN
  /\ pc[r] = "written"
  /\ order' = [order EXCEPT ![c.order] = OrderVersion(c, @)]
  /\ line' = [l \in Lines |-> IF l \in DOMAIN draft[r] THEN draft[r][l] ELSE line[l]]
  /\ audit' = audit \o entries[r]
  /\ pc' = [pc EXCEPT ![r] = IF c.op = "assign" THEN "done" ELSE "committed"]
  /\ draft' = Released(r)
  /\ entries' = [entries EXCEPT ![r] = <<>>]
  /\ UNCHANGED <<events, call, seen, turn, overlapped>>

Publish_BeforeCommit(r) ==
  /\ pc[r] \in {"written", "committed"} /\ call[r].op # "assign"
  /\ events' = events \cup {[type |-> call[r].to, order |-> call[r].order, by |-> r]}
  /\ pc' = IF pc[r] = "committed" THEN [pc EXCEPT ![r] = "done"] ELSE pc
  /\ UNCHANGED <<order, line, audit, call, seen, turn, draft, entries, overlapped>>

\* publishOrderEvent, after the commit; a listener's error is swallowed.
Publish(r) ==
  /\ pc[r] = "committed"
  /\ events' = events \cup {[type |-> call[r].to, order |-> call[r].order, by |-> r]}
  /\ pc' = [pc EXCEPT ![r] = "done"]
  /\ UNCHANGED <<order, line, audit, call, seen, turn, draft, entries, overlapped>>

RollBack(r) ==
  /\ pc' = [pc EXCEPT ![r] = "aborted"]
  /\ draft' = Released(r)
  /\ entries' = [entries EXCEPT ![r] = <<>>]
  /\ UNCHANGED <<order, line, audit, events, call, seen, turn, overlapped>>

\* The interactive transaction times out, or its connection or process is lost.
Abort(r) == InTransaction(r) /\ RollBack(r)

\* PostgreSQL's deadlock detector makes one of the waiting requests fail.
DeadlockVictim(r) == Deadlocked(r) /\ RollBack(r)

\* The process stops after the commit and before the event.
LoseEvent(r) ==
  /\ pc[r] = "committed"
  /\ pc' = [pc EXCEPT ![r] = "done"]
  /\ UNCHANGED <<order, line, audit, events, call, seen, turn, draft, entries, overlapped>>

\* Every request has been handled.
Finished(r) == pc[r] \in {"refused", "aborted", "done"}
Idle == (\A r \in Requests : Finished(r)) /\ UNCHANGED vars

Next ==
  \/ \E r \in Requests :
       \/ \E c \in Calls : Begin(r, c) \/ Refuse(r, c)
       \/ WriteLine(r) \/ WriteOrder(r) \/ Commit(r) \/ Publish(r)
       \/ Abort(r) \/ DeadlockVictim(r) \/ LoseEvent(r)
  \/ Idle

Spec == Init /\ [][Next]_vars

\* A handler that runs goes on, and a deadlock is detected.  Nothing is assumed
\* about arrivals, timeouts or crashes.
Fairness ==
  \A r \in Requests :
    WF_vars(WriteLine(r) \/ WriteOrder(r) \/ Commit(r) \/ Publish(r) \/ DeadlockVictim(r))

FairSpec == Spec /\ Fairness
=============================================================================
