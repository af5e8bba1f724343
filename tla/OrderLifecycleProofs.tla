------------------------ MODULE OrderLifecycleProofs ------------------------
(***************************************************************************)
(* Proofs about OrderLifecycle: types, the connected history of an order's *)
(* status, that the order services implement OrderStatusSpec, and what     *)
(* they write: events, confirmed quantities and audit entries.             *)
(***************************************************************************)
EXTENDS OrderLifecycleProperties, FiniteSetTheorems, TLAPS

-----------------------------------------------------------------------------
(* The inductive invariant.  What a transaction decided on is a row the    *)
(* order had, so its status is one the audit log knows; the call passed    *)
(* its checks on that row; and its uncommitted entries are line entries,   *)
(* then, once the order was written, the entry of the order.               *)

Decided(r) ==
  /\ call[r] \in Calls
  /\ seen[r] \in OrderRow
  /\ Accepts(call[r], seen[r])
  /\ seen[r].status \in StatusesOf(call[r].order)
  /\ turn[r] \in 0..Len(call[r].lines)

OnlyLineEntries(es, n) == \A i \in 1..n : es[i].field = "confirmedQty"

Uncommitted(r) ==
  LET es == entries[r] IN
  /\ pc[r] = "open" => OnlyLineEntries(es, Len(es))
  /\ pc[r] = "written" =>
       /\ Len(es) > 0 /\ es[Len(es)] = OrderEntry(r)
       /\ OnlyLineEntries(es, Len(es) - 1)

TransactionsOK ==
  \A r \in Requests :
    /\ InTransaction(r) => Decided(r) /\ Uncommitted(r)
    /\ pc[r] = "idle" => turn[r] = 0 /\ draft[r] = NoRows /\ entries[r] = <<>>
    /\ pc[r] = "committed" => call[r] \in Calls /\ call[r].op # "assign"

\* As long as none overlapped, a transaction's read is still current when it
\* writes.
ReadsAreCurrent ==
  ~overlapped => \A r \in Requests : InTransaction(r) =>
    /\ seen[r] = order[call[r].order]
    /\ \A q \in Requests : InTransaction(q) => q = r

Inv ==
  /\ TypeOK
  /\ TransactionsOK
  /\ RowIsLastAudited
  /\ HistoryIsConnected
  /\ ReadsAreCurrent

-----------------------------------------------------------------------------
(* Calls and rows.                                                         *)

USE OrderLifecycleAssumption

\* What is known of any call, from the way each operation builds it.
LEMMA CallFacts ==
  ASSUME NEW c \in Calls
  PROVE  /\ c.op \in {"confirm", "advance", "cancel", "assign"}
         /\ c.order \in Orders
         /\ c.driver \in Memberships \cup {NULL}
         /\ c.op = "confirm" => c.to = "CONFIRMED" /\ c.lines \in ConfirmInputs
         /\ c.op = "advance" => c.to \in AdvanceableOrderStatus
         /\ c.op = "cancel" => c.to = "CANCELLED"
         /\ c.op = "assign" => c.to = NULL
         /\ c.op # "confirm" => c.lines = <<>>
         /\ c.lines \in Seq(LineInput)
<1>1. CASE \E o \in Orders, ls \in ConfirmInputs : c = confirmOrder(o, ls)
  BY <1>1 DEF confirmOrder
<1>2. CASE \E o \in Orders, to \in AdvanceableOrderStatus, d \in Drivers \cup {NULL} :
             c = advanceOrderStatus(o, to, d)
  BY <1>2 DEF advanceOrderStatus
<1>3. CASE \E o \in Orders : c = requestOrderCancellation(o)
  BY <1>3 DEF requestOrderCancellation
<1>4. CASE \E o \in Orders, d \in Memberships \cup {NULL} : c = assignDriverToOrder(o, d)
  BY <1>4 DEF assignDriverToOrder
<1> QED
  BY <1>1, <1>2, <1>3, <1>4 DEF Calls, DriverStatus, AdvanceableOrderStatus

\* The version of a row that an accepted call writes is a row.
LEMMA VersionIsRow ==
  ASSUME NEW c \in Calls, NEW row \in OrderRow, NEW now \in OrderRow,
         Accepts(c, row)
  PROVE  OrderVersion(c, now) \in OrderRow
<1>1. c.op = "assign" => c.driver \in Drivers \cup {NULL}
  BY CallFacts DEF Accepts, AssignAccepts
<1>2. c.op # "assign" => c.to \in OrderStatus
  BY CallFacts DEF AdvanceableOrderStatus, OrderStatus
<1> QED
  BY <1>1, <1>2 DEF OrderVersion, OrderRow

\* The audit entry of the order's UPDATE is well formed.
LEMMA OrderEntryIsEntry ==
  ASSUME NEW r \in Requests, Decided(r)
  PROVE  OrderEntry(r) \in AuditEntry
<1>1. call[r] \in Calls /\ seen[r] \in OrderRow /\ Accepts(call[r], seen[r])
  BY DEF Decided
<1>2. call[r].op = "assign" => call[r].driver \in Drivers \cup {NULL}
  BY <1>1, CallFacts DEF Accepts, AssignAccepts
<1>3. call[r].op # "assign" => call[r].to \in OrderStatus
  BY <1>1, CallFacts DEF AdvanceableOrderStatus, OrderStatus
<1>4. call[r].order \in Orders
  BY <1>1, CallFacts
<1> QED
  BY <1>1, <1>2, <1>3, <1>4 DEF OrderEntry, AuditEntry, OrderRow

\* The next line of an accepted confirmation has a quantity in range, and so
\* its version is a row and its audit entry well formed.
LEMMA NextInputFacts ==
  ASSUME NEW r \in Requests, Decided(r), turn[r] \in Nat, AtLine(r)
  PROVE  /\ NextInput(r) \in LineInput
         /\ LineAccepted(call[r].order, NextInput(r))
         /\ LineVersion(NextInput(r)) \in LineRow
         /\ LineEntry(r, NextInput(r)) \in AuditEntry
         /\ call[r].op = "confirm"
<1> DEFINE c == call[r]
<1>1. c \in Calls /\ Accepts(c, seen[r]) /\ turn[r] < Len(c.lines)
  BY DEF Decided, AtLine
<1>2. c.op = "confirm"
  BY <1>1, CallFacts
<1>3. turn[r] + 1 \in 1..Len(c.lines)
  BY <1>1, CallFacts
<1>4. c.lines[turn[r] + 1] \in LineInput
  BY <1>1, <1>3, CallFacts
<1>5. LineAccepted(c.order, c.lines[turn[r] + 1])
  BY <1>1, <1>2, <1>3 DEF Accepts, ConfirmAccepts
<1>6. NextInput(r).qty \in Nat /\ NextInput(r).line \in Lines
  BY <1>4, <1>5 DEF NextInput, LineAccepted, LineInput, LinesOf
<1>7. LineVersion(NextInput(r)) \in LineRow
  BY <1>6, <1>4 DEF LineVersion, LineRow, LineInput, NextInput
<1>8. LineEntry(r, NextInput(r)) \in AuditEntry
  BY <1>6 DEF LineEntry, AuditEntry
<1> QED
  BY <1>2, <1>4, <1>5, <1>7, <1>8 DEF NextInput

-----------------------------------------------------------------------------
(* Types.                                                                  *)

\* A run starts with an empty log and idle requests, where all of it holds.
LEMMA InitInv == Init => Inv
<1> SUFFICES ASSUME Init PROVE Inv
  OBVIOUS
<1>1. TypeOK
  <2>1. NewOrder \in OrderRow /\ NewLine \in LineRow
    BY DEF NewOrder, OrderRow, NewLine, LineRow, OrderStatus
  <2>2. DOMAIN NoRows = {} /\ NoRows \in [{} -> LineRow]
    BY DEF NoRows
  <2>3. order \in [Orders -> OrderRow] /\ line \in [Lines -> LineRow]
    BY <2>1 DEF Init
  <2>4. DOMAIN draft = Requests
        /\ \A r \in Requests : DOMAIN draft[r] \subseteq Lines
                               /\ draft[r] \in [DOMAIN draft[r] -> LineRow]
    BY <2>2 DEF Init
  <2>5. audit \in Seq(AuditEntry) /\ entries \in [Requests -> Seq(AuditEntry)]
    BY DEF Init
  <2>6. /\ call \in [Requests -> Calls \cup {NULL}] /\ seen \in [Requests -> OrderRow \cup {NULL}]
        /\ turn \in [Requests -> Nat]
    BY DEF Init
  <2>7. pc \in [Requests -> Stage] /\ events \in SUBSET OrderEvent /\ overlapped \in BOOLEAN
    BY DEF Init, Stage
  <2> QED
    BY <2>3, <2>4, <2>5, <2>6, <2>7 DEF TypeOK
<1>2. TransactionsOK
  BY DEF Init, TransactionsOK, InTransaction
<1>3. \A f, x : EntriesOf(f, x) = {}
  BY DEF Init, EntriesOf
<1>4. RowIsLastAudited
  BY <1>3 DEF Init, RowIsLastAudited, LastAudited, NewOrder
<1>5. HistoryIsConnected
  BY <1>3 DEF HistoryIsConnected
<1>6. ReadsAreCurrent
  BY DEF Init, ReadsAreCurrent, InTransaction
<1> QED
  BY <1>1, <1>2, <1>4, <1>5, <1>6 DEF Inv

\* Each step of a request keeps the types.
LEMMA TypeStep == Inv /\ [Next]_vars => TypeOK'
<1> SUFFICES ASSUME Inv, [Next]_vars PROVE TypeOK'
  OBVIOUS
<1> USE DEF Inv
<1>1. ASSUME NEW r \in Requests, NEW c \in Calls, Begin(r, c)
      PROVE  TypeOK'
  <2>1. order[c.order] \in OrderRow
    BY CallFacts DEF TypeOK
  <2> QED
    BY <1>1, <2>1 DEF Begin, TypeOK, Stage
<1>2. ASSUME NEW r \in Requests, NEW c \in Calls, Refuse(r, c)
      PROVE  TypeOK'
  BY <1>2 DEF Refuse, TypeOK, Stage
<1>3. ASSUME NEW r \in Requests, WriteLine(r)
      PROVE  TypeOK'
  <2>1. Decided(r) /\ turn[r] \in Nat /\ AtLine(r)
    BY <1>3 DEF WriteLine, AtLine, TransactionsOK, InTransaction, TypeOK
  <2> DEFINE in == NextInput(r)
  <2>2. in.line \in Lines /\ LineVersion(in) \in LineRow /\ LineEntry(r, in) \in AuditEntry
    BY <2>1, NextInputFacts DEF LineInput
  <2>3. entries' \in [Requests -> Seq(AuditEntry)]
    BY <1>3, <2>2 DEF WriteLine, TypeOK
  <2>4. /\ DOMAIN draft' = Requests
        /\ \A q \in Requests :
             DOMAIN draft'[q] \subseteq Lines /\ draft'[q] \in [DOMAIN draft'[q] -> LineRow]
    BY <1>3, <2>2 DEF WriteLine, Drafted, TypeOK
  <2>5. turn' \in [Requests -> Nat]
    BY <1>3 DEF WriteLine, TypeOK
  <2>6. UNCHANGED <<order, line, audit, events, pc, call, seen, overlapped>>
    BY <1>3 DEF WriteLine
  <2> QED
    BY <2>3, <2>4, <2>5, <2>6 DEF TypeOK
<1>4. ASSUME NEW r \in Requests, WriteOrder(r)
      PROVE  TypeOK'
  <2>1. OrderEntry(r) \in AuditEntry
    BY <1>4, OrderEntryIsEntry DEF WriteOrder, AtOrder, TransactionsOK, InTransaction
  <2> QED
    BY <1>4, <2>1 DEF WriteOrder, TypeOK, Stage
<1>5. ASSUME NEW r \in Requests, Commit(r)
      PROVE  TypeOK'
  <2>1. Decided(r)
    BY <1>5 DEF Commit, TransactionsOK, InTransaction
  <2>2. call[r].order \in Orders
    BY <2>1, CallFacts DEF Decided
  <2>3. OrderVersion(call[r], order[call[r].order]) \in OrderRow
    BY <2>1, <2>2, VersionIsRow DEF Decided, TypeOK
  <2>4. order' \in [Orders -> OrderRow]
    BY <1>5, <2>3 DEF Commit, TypeOK
  <2>5. line' \in [Lines -> LineRow]
    BY <1>5 DEF Commit, TypeOK
  <2>6. audit' \in Seq(AuditEntry) /\ entries' \in [Requests -> Seq(AuditEntry)]
    BY <1>5 DEF Commit, TypeOK
  <2>7. /\ DOMAIN draft' = Requests
        /\ \A q \in Requests :
             DOMAIN draft'[q] \subseteq Lines /\ draft'[q] \in [DOMAIN draft'[q] -> LineRow]
    BY <1>5 DEF Commit, Released, TypeOK, NoRows
  <2> QED
    BY <1>5, <2>4, <2>5, <2>6, <2>7 DEF Commit, TypeOK, Stage
<1>6. ASSUME NEW r \in Requests, Publish(r)
      PROVE  TypeOK'
  <2>1. call[r].to \in OrderStatus /\ call[r].order \in Orders
    BY <1>6, CallFacts DEF Publish, TransactionsOK, AdvanceableOrderStatus, OrderStatus
  <2> QED
    BY <1>6, <2>1 DEF Publish, TypeOK, OrderEvent, Stage
<1>7. ASSUME NEW r \in Requests, RollBack(r)
      PROVE  TypeOK'
  <2>1. /\ DOMAIN draft' = Requests
        /\ \A q \in Requests :
             DOMAIN draft'[q] \subseteq Lines /\ draft'[q] \in [DOMAIN draft'[q] -> LineRow]
    BY <1>7 DEF RollBack, Released, TypeOK, NoRows
  <2> QED
    BY <1>7, <2>1 DEF RollBack, TypeOK, Stage
<1>8. ASSUME NEW r \in Requests, LoseEvent(r)
      PROVE  TypeOK'
  BY <1>8 DEF LoseEvent, TypeOK, Stage
<1>9. CASE UNCHANGED vars
  BY <1>9 DEF vars, TypeOK
<1> QED
  BY <1>1, <1>2, <1>3, <1>4, <1>5, <1>6, <1>7, <1>8, <1>9
     DEF Next, Abort, DeadlockVictim, Idle

-----------------------------------------------------------------------------
(* The audit log.                                                          *)

\* A commit appends its line entries and then the entry of its order.
LEMMA CommitAppends ==
  ASSUME Inv, NEW r \in Requests, Commit(r)
  PROVE  /\ Len(audit) \in Nat /\ Len(audit') \in Nat /\ Len(audit') > Len(audit)
         /\ audit'[Len(audit')] = OrderEntry(r)
         /\ \A i \in 1..Len(audit) : audit'[i] = audit[i]
         /\ \A i \in (Len(audit) + 1)..(Len(audit') - 1) : audit'[i].field = "confirmedQty"
<1> DEFINE es == entries[r]
<1>1. audit \in Seq(AuditEntry) /\ es \in Seq(AuditEntry) /\ audit' = audit \o es
  BY DEF Inv, TypeOK, Commit
<1>2. /\ Len(es) > 0 /\ es[Len(es)] = OrderEntry(r)
      /\ \A i \in 1..(Len(es) - 1) : es[i].field = "confirmedQty"
  BY DEF Inv, TransactionsOK, Uncommitted, OnlyLineEntries, Commit, InTransaction
<1> HIDE DEF es
<1>3. /\ Len(audit') = Len(audit) + Len(es)
      /\ \A i \in 1..(Len(audit) + Len(es)) :
           audit'[i] = IF i <= Len(audit) THEN audit[i] ELSE es[i - Len(audit)]
  BY <1>1
<1>4. Len(audit) \in Nat /\ Len(es) \in Nat
  BY <1>1
<1>5. Len(audit') \in Nat /\ Len(audit') > Len(audit)
  BY <1>2, <1>3, <1>4
<1>6. audit'[Len(audit')] = OrderEntry(r)
  <2>1. Len(audit') \in 1..(Len(audit) + Len(es)) /\ ~(Len(audit') <= Len(audit))
    BY <1>2, <1>3, <1>4
  <2>2. audit'[Len(audit')] = es[Len(audit') - Len(audit)]
    BY <2>1, <1>3
  <2> QED
    BY <2>2, <1>2, <1>3, <1>4
<1>7. \A i \in 1..Len(audit) : audit'[i] = audit[i]
  BY <1>3, <1>4
<1>8. ASSUME NEW i \in (Len(audit) + 1)..(Len(audit') - 1)
      PROVE  audit'[i].field = "confirmedQty"
  <2>1. /\ i \in 1..(Len(audit) + Len(es)) /\ ~(i <= Len(audit))
        /\ i - Len(audit) \in 1..(Len(es) - 1)
    BY <1>3, <1>4, <1>8
  <2>2. audit'[i] = es[i - Len(audit)]
    BY <2>1, <1>3
  <2> QED
    BY <2>1, <2>2, <1>2
<1> QED
  BY <1>4, <1>5, <1>6, <1>7, <1>8

\* The entry of the order is the only new one about a status or a driver.
LEMMA CommitEntries ==
  ASSUME Inv, NEW r \in Requests, Commit(r),
         NEW f \in {"status", "assignedDriver"}, NEW o \in Orders
  PROVE  EntriesOf(f, o)' = EntriesOf(f, o) \cup
           (IF OrderEntry(r).field = f /\ OrderEntry(r).on = o THEN {Len(audit')} ELSE {})
<1> DEFINE n == Len(audit')
<1>1. /\ Len(audit) \in Nat /\ n \in Nat /\ n > Len(audit)
      /\ audit'[n] = OrderEntry(r)
      /\ \A i \in 1..Len(audit) : audit'[i] = audit[i]
      /\ \A i \in (Len(audit) + 1)..(n - 1) : audit'[i].field = "confirmedQty"
  BY CommitAppends
<1>2. EntriesOf(f, o)' = {i \in 1..n : audit'[i].field = f /\ audit'[i].on = o}
  BY DEF EntriesOf
<1> HIDE DEF n
<1>3. ASSUME NEW i \in 1..n
      PROVE  i \in 1..Len(audit) \/ i \in (Len(audit) + 1)..(n - 1) \/ i = n
  BY <1>1
<1>4. ASSUME NEW i \in 1..n
      PROVE  (audit'[i].field = f /\ audit'[i].on = o)
               <=> \/ i \in EntriesOf(f, o)
                   \/ i = n /\ OrderEntry(r).field = f /\ OrderEntry(r).on = o
  BY <1>1, <1>3 DEF EntriesOf
<1>5. EntriesOf(f, o) \subseteq 1..n /\ n \in 1..n
  BY <1>1 DEF EntriesOf
<1>6. n = Len(audit')
  BY DEF n
<1> QED
  BY <1>2, <1>4, <1>5, <1>6

\* Nothing but a commit changes the log or a committed row.
LEMMA OnlyCommitsWrite ==
  ASSUME Inv, [Next]_vars, ~(\E r \in Requests : Commit(r))
  PROVE  order' = order /\ line' = line /\ audit' = audit
  BY DEF Next, Begin, Refuse, WriteLine, WriteOrder, Publish, Abort, DeadlockVictim,
         RollBack, LoseEvent, Idle, vars

\* Which entry that is, and what the commit does to the rows.
LEMMA CommitFacts ==
  ASSUME Inv, NEW r \in Requests, Commit(r)
  PROVE  /\ Decided(r) /\ call[r].order \in Orders
         /\ OrderEntry(r).on = call[r].order
         /\ call[r].op = "assign" =>
              /\ OrderEntry(r).field = "assignedDriver"
              /\ order'[call[r].order].assignedDriver = OrderEntry(r).new
              /\ order'[call[r].order].status = order[call[r].order].status
         /\ call[r].op # "assign" =>
              /\ OrderEntry(r).field = "status"
              /\ OrderEntry(r).new = call[r].to /\ OrderEntry(r).old = seen[r].status
              /\ isValidOrderTransition(seen[r].status, call[r].to)
              /\ order'[call[r].order].status = call[r].to
              /\ order'[call[r].order].assignedDriver = order[call[r].order].assignedDriver
         /\ \A o \in Orders : o # call[r].order => order'[o] = order[o]
<1>1. Decided(r)
  BY DEF Inv, TransactionsOK, Commit, InTransaction
<1>2. call[r] \in Calls /\ call[r].order \in Orders
  BY <1>1, CallFacts DEF Decided
<1>3. order \in [Orders -> OrderRow]
  BY DEF Inv, TypeOK
<1>4. order' = [order EXCEPT ![call[r].order] = OrderVersion(call[r], order[call[r].order])]
  BY DEF Commit
<1>5. order'[call[r].order] = OrderVersion(call[r], order[call[r].order])
  BY <1>2, <1>3, <1>4
<1>6. order[call[r].order] \in OrderRow
  BY <1>2, <1>3
<1>7. CASE call[r].op = "assign"
  BY <1>1, <1>2, <1>3, <1>4, <1>5, <1>6, <1>7 DEF OrderVersion, OrderEntry, OrderRow
<1>8. CASE call[r].op # "assign"
  <2>1. isValidOrderTransition(seen[r].status, call[r].to)
    BY <1>1, <1>2, <1>8, CallFacts DEF Decided, Accepts, ConfirmAccepts, AdvanceAccepts,
       CancelAccepts
  <2> QED
    BY <1>1, <1>2, <1>3, <1>4, <1>5, <1>6, <1>8, <2>1 DEF OrderVersion, OrderEntry, OrderRow
<1> QED
  BY <1>7, <1>8

\* A commit adds its target to the statuses of its order, and no other.
LEMMA CommitStatuses ==
  ASSUME Inv, NEW r \in Requests, Commit(r), NEW o \in Orders
  PROVE  StatusesOf(o)' = StatusesOf(o) \cup
           (IF o = call[r].order /\ call[r].op # "assign" THEN {call[r].to} ELSE {})
<1>1. EntriesOf("status", o)' = EntriesOf("status", o) \cup
        (IF OrderEntry(r).field = "status" /\ OrderEntry(r).on = o THEN {Len(audit')} ELSE {})
  BY CommitEntries
<1>2. \A i \in EntriesOf("status", o) : audit'[i] = audit[i]
  BY CommitAppends DEF EntriesOf
<1>3. audit'[Len(audit')] = OrderEntry(r)
  BY CommitAppends
<1>4. CASE o = call[r].order /\ call[r].op # "assign"
  <2>1. /\ EntriesOf("status", o)' = EntriesOf("status", o) \cup {Len(audit')}
        /\ OrderEntry(r).new = call[r].to
    BY <1>1, <1>4, CommitFacts
  <2> QED
    BY <1>2, <1>3, <1>4, <2>1 DEF StatusesOf
<1>5. CASE ~(o = call[r].order /\ call[r].op # "assign")
  <2>1. EntriesOf("status", o)' = EntriesOf("status", o)
    BY <1>1, <1>5, CommitFacts
  <2> QED
    BY <1>2, <1>5, <2>1, SMTT(30) DEF StatusesOf
<1> QED
  BY <1>4, <1>5

\* A column that the commit does not write keeps its last entry.
LEMMA LastAuditedKept ==
  ASSUME Inv, NEW r \in Requests, Commit(r),
         NEW f \in {"status", "assignedDriver"}, NEW o \in Orders, NEW initial, NEW v,
         ~(OrderEntry(r).field = f /\ OrderEntry(r).on = o),
         LastAudited(f, o, initial, v)
  PROVE  LastAudited(f, o, initial, v)'
<1> DEFINE writes == OrderEntry(r).field = f /\ OrderEntry(r).on = o
<1>0. EntriesOf(f, o)' = EntriesOf(f, o) \cup (IF writes THEN {Len(audit')} ELSE {})
  BY CommitEntries
<1>1. EntriesOf(f, o)' = EntriesOf(f, o)
  <2>1. ~writes
    OBVIOUS
  <2> HIDE DEF writes
  <2> QED
    BY <1>0, <2>1
<1>2. \A i \in EntriesOf(f, o) : audit'[i] = audit[i]
  BY CommitAppends DEF EntriesOf
<1> QED
  BY <1>1, <1>2 DEF LastAudited

\* And the column that the commit writes has the commit's entry as its last.
LEMMA LastAuditedSet ==
  ASSUME Inv, NEW r \in Requests, Commit(r),
         NEW f \in {"status", "assignedDriver"}, NEW o \in Orders, NEW initial, NEW v,
         OrderEntry(r).field = f, OrderEntry(r).on = o, OrderEntry(r).new = v
  PROVE  LastAudited(f, o, initial, v)'
<1> DEFINE n == Len(audit')
<1>1. n \in EntriesOf(f, o)' /\ audit'[n] = OrderEntry(r)
  BY CommitEntries, CommitAppends
<1>2. \A i \in EntriesOf(f, o)' : i <= n
  BY DEF EntriesOf
<1> QED
  BY <1>1, <1>2 DEF LastAudited

\* A commit writes an order's row and its last audit entry together.
LEMMA RowStep == Inv /\ [Next]_vars => RowIsLastAudited'
<1> SUFFICES ASSUME Inv, [Next]_vars PROVE RowIsLastAudited'
  OBVIOUS
<1>1. CASE ~(\E r \in Requests : Commit(r))
  <2>1. order' = order /\ audit' = audit
    BY <1>1, OnlyCommitsWrite
  <2> QED
    BY <2>1 DEF Inv, RowIsLastAudited, LastAudited, EntriesOf
<1>2. ASSUME NEW r \in Requests, Commit(r) PROVE RowIsLastAudited'
  <2> USE <1>2
  <2>1. ASSUME NEW o \in Orders, NEW s, s = order'[o].status
        PROVE  LastAudited("status", o, "SUBMITTED", s)'
    <3>1. LastAudited("status", o, "SUBMITTED", order[o].status)
      BY DEF Inv, RowIsLastAudited
    <3>2. CASE OrderEntry(r).field = "status" /\ OrderEntry(r).on = o
      BY <2>1, <3>2, CommitFacts, LastAuditedSet
    <3>3. CASE ~(OrderEntry(r).field = "status" /\ OrderEntry(r).on = o)
      <4>1. s = order[o].status
        BY <2>1, <3>3, CommitFacts
      <4> QED
        BY <3>1, <3>3, <4>1, LastAuditedKept
    <3> QED
      BY <3>2, <3>3
  <2>2. ASSUME NEW o \in Orders, NEW d, d = order'[o].assignedDriver
        PROVE  LastAudited("assignedDriver", o, NULL, d)'
    <3>1. LastAudited("assignedDriver", o, NULL, order[o].assignedDriver)
      BY DEF Inv, RowIsLastAudited
    <3>2. CASE OrderEntry(r).field = "assignedDriver" /\ OrderEntry(r).on = o
      BY <2>2, <3>2, CommitFacts, LastAuditedSet
    <3>3. CASE ~(OrderEntry(r).field = "assignedDriver" /\ OrderEntry(r).on = o)
      <4>1. d = order[o].assignedDriver
        BY <2>2, <3>3, CommitFacts
      <4> QED
        BY <3>1, <3>3, <4>1, LastAuditedKept
    <3> QED
      BY <3>2, <3>3
  <2> QED
    BY <2>1, <2>2 DEF RowIsLastAudited, LastAudited
<1> QED
  BY <1>1, <1>2

\* A commit appends an edge out of the status its transaction read, and that
\* status is in the log.
LEMMA HistoryStep == Inv /\ [Next]_vars => HistoryIsConnected'
<1> SUFFICES ASSUME Inv, [Next]_vars PROVE HistoryIsConnected'
  OBVIOUS
<1>1. CASE ~(\E r \in Requests : Commit(r))
  BY <1>1, OnlyCommitsWrite DEF Inv, HistoryIsConnected, EntriesOf
<1>2. ASSUME NEW r \in Requests, Commit(r) PROVE HistoryIsConnected'
  <2> USE <1>2
  <2> DEFINE n == Len(audit')
             is(o) == EntriesOf("status", o)
  <2>1. ASSUME NEW o \in Orders
        PROVE  /\ is(o)' = is(o) \cup
                    (IF o = call[r].order /\ call[r].op # "assign" THEN {n} ELSE {})
               /\ \A i \in is(o) : audit'[i] = audit[i] /\ i \in Int /\ i < n
    BY CommitEntries, CommitAppends, CommitFacts DEF EntriesOf
  <2> SUFFICES ASSUME NEW o \in Orders, NEW i \in is(o)'
               PROVE  /\ isValidOrderTransition(audit'[i].old, audit'[i].new)
                      /\ \/ audit'[i].old = "SUBMITTED"
                         \/ \E j \in is(o)' : j < i /\ audit'[j].new = audit'[i].old
    BY DEF HistoryIsConnected
  <2>2. CASE i \in is(o)
    <3>1. /\ isValidOrderTransition(audit[i].old, audit[i].new)
          /\ \/ audit[i].old = "SUBMITTED"
             \/ \E j \in is(o) : j < i /\ audit[j].new = audit[i].old
      BY <2>2 DEF Inv, HistoryIsConnected
    <3> QED
      BY <2>1, <2>2, <3>1
  <2>3. CASE i = n /\ o = call[r].order /\ call[r].op # "assign"
    <3>1. audit'[n].old = seen[r].status /\ audit'[n].new = call[r].to
      BY <2>3, CommitAppends, CommitFacts
    <3>2. seen[r].status \in StatusesOf(o)
      BY <2>3, CommitFacts DEF Decided
    <3>3. seen[r].status = "SUBMITTED" \/ \E j \in is(o) : audit[j].new = seen[r].status
      BY <3>2 DEF StatusesOf
    <3> QED
      BY <2>1, <2>3, <3>1, <3>3, CommitFacts
  <2> QED
    BY <2>1, <2>2, <2>3
<1> QED
  BY <1>1, <1>2

-----------------------------------------------------------------------------
(* Transactions.                                                           *)

\* The statuses of an order only grow.
LEMMA StatusesGrow ==
  ASSUME Inv, [Next]_vars, NEW o \in Orders
  PROVE  StatusesOf(o) \subseteq StatusesOf(o)'
<1>1. CASE ~(\E r \in Requests : Commit(r))
  BY <1>1, OnlyCommitsWrite DEF StatusesOf, EntriesOf
<1>2. CASE \E r \in Requests : Commit(r)
  BY <1>2, CommitStatuses
<1> QED
  BY <1>1, <1>2

\* What TransactionsOK says of one request.
RequestOK(q) ==
  /\ InTransaction(q) => Decided(q) /\ Uncommitted(q)
  /\ pc[q] = "idle" => turn[q] = 0 /\ draft[q] = NoRows /\ entries[q] = <<>>
  /\ pc[q] = "committed" => call[q] \in Calls /\ call[q].op # "assign"

\* A step that leaves a request's own variables alone keeps its part.
LEMMA BystanderOK ==
  ASSUME Inv, [Next]_vars, NEW q \in Requests,
         pc'[q] = pc[q], call'[q] = call[q], seen'[q] = seen[q], turn'[q] = turn[q],
         draft'[q] = draft[q], entries'[q] = entries[q]
  PROVE  RequestOK(q)'
<1>1. RequestOK(q)
  BY DEF Inv, TransactionsOK, RequestOK
<1>2. InTransaction(q)' <=> InTransaction(q)
  BY DEF InTransaction
<1>3. Uncommitted(q) => Uncommitted(q)'
  BY DEF Uncommitted, OnlyLineEntries, OrderEntry
<1>4. ASSUME Decided(q) PROVE Decided(q)'
  <2>1. call[q].order \in Orders
    BY <1>4, CallFacts DEF Decided
  <2>2. seen[q].status \in StatusesOf(call[q].order)'
    BY <1>4, <2>1, StatusesGrow DEF Decided
  <2> QED
    BY <1>4, <2>2 DEF Decided, StatusesOf, EntriesOf
<1> QED
  BY <1>1, <1>2, <1>3, <1>4 DEF RequestOK

\* Each step of a request keeps what is known of its transaction.
LEMMA TransactionsStep == Inv /\ [Next]_vars => TransactionsOK'
<1> SUFFICES ASSUME Inv, [Next]_vars, NEW q \in Requests PROVE RequestOK(q)'
  BY DEF TransactionsOK, RequestOK
<1> USE DEF Inv
<1>0. RequestOK(q)
  BY DEF TransactionsOK, RequestOK
<1>1. ASSUME NEW r \in Requests, NEW c \in Calls, Begin(r, c)
      PROVE  RequestOK(q)'
  <2>1. CASE q # r
    BY <1>1, <2>1, BystanderOK DEF Begin, TypeOK
  <2>2. CASE q = r
    <3>1. /\ pc'[q] = "open" /\ call'[q] = c /\ seen'[q] = order[c.order]
          /\ turn'[q] = 0 /\ entries'[q] = <<>> /\ audit' = audit
      BY <1>0, <1>1, <2>2 DEF Begin, TypeOK, RequestOK
    <3>2. c.order \in Orders /\ order[c.order] \in OrderRow /\ c.lines \in Seq(LineInput)
      BY CallFacts DEF TypeOK
    <3>3. LastAudited("status", c.order, "SUBMITTED", order[c.order].status)
      BY <3>2 DEF RowIsLastAudited
    <3>4. order[c.order].status \in StatusesOf(c.order)
      BY <3>3 DEF LastAudited, StatusesOf
    <3>5. StatusesOf(c.order)' = StatusesOf(c.order)
      BY <3>1 DEF StatusesOf, EntriesOf
    <3>6. Accepts(c, order[c.order])
      BY <1>1 DEF Begin
    <3>7. seen'[q].status \in {"SUBMITTED"} \cup {audit'[i].new : i \in
            {i \in 1..Len(audit') : audit'[i].field = "status" /\ audit'[i].on = c.order}}
      BY <3>1, <3>4 DEF StatusesOf, EntriesOf
    <3>8. Decided(q)'
      BY <3>1, <3>2, <3>6, <3>7 DEF Decided, StatusesOf, EntriesOf
    <3>9. Uncommitted(q)'
      BY <3>1 DEF Uncommitted, OnlyLineEntries
    <3> QED
      BY <3>1, <3>8, <3>9 DEF RequestOK
  <2> QED
    BY <2>1, <2>2
<1>2. ASSUME NEW r \in Requests, NEW c \in Calls, Refuse(r, c)
      PROVE  RequestOK(q)'
  <2>1. CASE q # r
    BY <1>2, <2>1, BystanderOK DEF Refuse, TypeOK
  <2>2. CASE q = r
    BY <1>2, <2>2 DEF Refuse, TypeOK, RequestOK, InTransaction
  <2> QED
    BY <2>1, <2>2
<1>3. ASSUME NEW r \in Requests, WriteLine(r)
      PROVE  RequestOK(q)'
  <2>1. CASE q # r
    BY <1>3, <2>1, BystanderOK DEF WriteLine, TypeOK
  <2>2. CASE q = r
    <3>1. pc[q] = "open" /\ Decided(q) /\ Uncommitted(q) /\ turn[q] < Len(call[q].lines)
      BY <1>0, <1>3, <2>2 DEF WriteLine, AtLine, RequestOK, InTransaction
    <3>2. /\ pc'[q] = pc[q] /\ call'[q] = call[q] /\ seen'[q] = seen[q]
          /\ turn'[q] = turn[q] + 1 /\ audit' = audit
      BY <1>3, <2>2 DEF WriteLine, TypeOK
    <3>3. entries'[q] = Append(entries[q], LineEntry(q, NextInput(q))) \/ entries'[q] = entries[q]
      BY <1>3, <2>2 DEF WriteLine, TypeOK
    <3>4. call[q].lines \in Seq(LineInput)
      BY <3>1, CallFacts DEF Decided
    <3>5. Decided(q)'
      BY <3>1, <3>2, <3>4 DEF Decided, StatusesOf, EntriesOf
    <3>6. entries[q] \in Seq(AuditEntry) /\ LineEntry(q, NextInput(q)).field = "confirmedQty"
      BY DEF TypeOK, LineEntry
    <3>7. OnlyLineEntries(entries[q], Len(entries[q]))
      BY <3>1 DEF Uncommitted
    <3>8. OnlyLineEntries(entries'[q], Len(entries'[q]))
      <4>1. PICK es, e : es = entries[q] /\ e = LineEntry(q, NextInput(q))
        OBVIOUS
      <4>2. \A i \in 1..Len(es) : es[i].field = "confirmedQty"
        BY <3>7, <4>1 DEF OnlyLineEntries
      <4>3. \A i \in 1..Len(Append(es, e)) : Append(es, e)[i].field = "confirmedQty"
        BY <3>6, <4>1, <4>2
      <4> QED
        BY <3>3, <4>1, <4>2, <4>3 DEF OnlyLineEntries
    <3> QED
      BY <3>1, <3>2, <3>5, <3>8 DEF RequestOK, Uncommitted, OnlyLineEntries
  <2> QED
    BY <2>1, <2>2
<1>4. ASSUME NEW r \in Requests, WriteOrder(r)
      PROVE  RequestOK(q)'
  <2>1. CASE q # r
    BY <1>4, <2>1, BystanderOK DEF WriteOrder, TypeOK
  <2>2. CASE q = r
    <3>1. pc[q] = "open" /\ Decided(q) /\ Uncommitted(q)
      BY <1>0, <1>4, <2>2 DEF WriteOrder, AtOrder, RequestOK, InTransaction
    <3>2. /\ pc'[q] = "written" /\ call'[q] = call[q] /\ seen'[q] = seen[q]
          /\ turn'[q] = turn[q] /\ audit' = audit
          /\ entries'[q] = Append(entries[q], OrderEntry(q))
      BY <1>4, <2>2 DEF WriteOrder, TypeOK
    <3>3. Decided(q)'
      BY <3>1, <3>2 DEF Decided, StatusesOf, EntriesOf
    <3>4. entries[q] \in Seq(AuditEntry) /\ OnlyLineEntries(entries[q], Len(entries[q]))
      BY <3>1 DEF TypeOK, Uncommitted
    <3>5. /\ Len(entries'[q]) > 0 /\ entries'[q][Len(entries'[q])] = OrderEntry(q)
          /\ OnlyLineEntries(entries'[q], Len(entries'[q]) - 1)
      BY <3>2, <3>4 DEF OnlyLineEntries
    <3>6. OrderEntry(q)' = OrderEntry(q)
      BY <3>2 DEF OrderEntry
    <3> QED
      BY <3>2, <3>3, <3>5, <3>6 DEF RequestOK, Uncommitted, OnlyLineEntries
  <2> QED
    BY <2>1, <2>2
<1>5. ASSUME NEW r \in Requests, Commit(r)
      PROVE  RequestOK(q)'
  <2>1. CASE q # r
    BY <1>5, <2>1, BystanderOK DEF Commit, Released, TypeOK
  <2>2. CASE q = r
    BY <1>0, <1>5, <2>2 DEF Commit, TypeOK, RequestOK, InTransaction, Decided
  <2> QED
    BY <2>1, <2>2
<1>6. ASSUME NEW r \in Requests, Publish(r) \/ LoseEvent(r) \/ RollBack(r)
      PROVE  RequestOK(q)'
  <2>1. CASE q # r
    BY <1>6, <2>1, BystanderOK DEF Publish, LoseEvent, RollBack, Released, TypeOK
  <2>2. CASE q = r
    BY <1>6, <2>2 DEF Publish, LoseEvent, RollBack, TypeOK, RequestOK, InTransaction
  <2> QED
    BY <2>1, <2>2
<1>7. CASE UNCHANGED vars
  BY <1>7, BystanderOK DEF vars
<1> QED
  BY <1>1, <1>2, <1>3, <1>4, <1>5, <1>6, <1>7 DEF Next, Abort, DeadlockVictim, Idle

\* Transactions that have overlapped stay overlapped.
LEMMA OverlapStep ==
  ASSUME TypeOK, [Next]_vars, overlapped
  PROVE  overlapped'
<1>1. ASSUME NEW r \in Requests, NEW c \in Calls, Begin(r, c)
      PROVE  overlapped'
  BY <1>1 DEF Begin
<1>2. ASSUME NEW r \in Requests, NEW c \in Calls, Refuse(r, c)
      PROVE  overlapped' = overlapped
  BY <1>2 DEF Refuse
<1>3. ASSUME NEW r \in Requests,
             WriteLine(r) \/ WriteOrder(r) \/ Commit(r) \/ Publish(r) \/ LoseEvent(r)
      PROVE  overlapped' = overlapped
  BY <1>3 DEF WriteLine, WriteOrder, Commit, Publish, LoseEvent
<1>4. ASSUME NEW r \in Requests, Abort(r) \/ DeadlockVictim(r)
      PROVE  overlapped' = overlapped
  BY <1>4 DEF Abort, DeadlockVictim, RollBack
<1>5. CASE UNCHANGED vars
  BY <1>5 DEF vars
<1> QED
  BY <1>1, <1>2, <1>3, <1>4, <1>5 DEF Next, Idle

\* When transactions do not overlap, nobody writes under an open one.
LEMMA AloneStep == Inv /\ [Next]_vars => ReadsAreCurrent'
<1> SUFFICES ASSUME Inv, [Next]_vars, ~overlapped',
                    NEW q \in Requests, InTransaction(q)'
             PROVE  /\ seen'[q] = order'[call'[q].order]
                    /\ \A p \in Requests : InTransaction(p)' => p = q
  BY DEF ReadsAreCurrent
<1>a. ~overlapped
  BY OverlapStep DEF Inv, TypeOK
<1>0. \A p \in Requests : InTransaction(p) =>
        seen[p] = order[call[p].order] /\ \A s \in Requests : InTransaction(s) => s = p
  BY <1>a DEF Inv, ReadsAreCurrent
<1>1. ASSUME NEW r \in Requests, NEW c \in Calls, Begin(r, c)
      PROVE  /\ seen'[q] = order'[call'[q].order]
             /\ \A p \in Requests : InTransaction(p)' => p = q
  <2>1. \A p \in Requests : ~InTransaction(p)
    BY <1>1 DEF Begin
  <2>2. \A p \in Requests : InTransaction(p)' => p = r
    BY <1>1, <2>1 DEF Begin, InTransaction, Inv, TypeOK
  <2>3. q = r
    BY <2>2
  <2>4. seen'[r] = order'[call'[r].order]
    BY <1>1 DEF Begin, Inv, TypeOK
  <2> QED
    BY <2>2, <2>3, <2>4
<1>2. CASE \A r \in Requests, c \in Calls : ~Begin(r, c)
  <2>1. \A p \in Requests : InTransaction(p)' => InTransaction(p) /\ call'[p] = call[p] /\ seen'[p] = seen[p]
    BY <1>2 DEF Next, Refuse, WriteLine, WriteOrder, AtLine, AtOrder, Commit, Publish, Abort, DeadlockVictim,
          RollBack, LoseEvent, Idle, vars, InTransaction, Inv, TypeOK
  <2>2. order' = order
    <3>1. ASSUME NEW r \in Requests, Commit(r) PROVE FALSE
      BY <1>0, <2>1, <3>1 DEF Commit, InTransaction, Inv, TypeOK
    <3> QED
      BY <3>1, OnlyCommitsWrite
  <2> QED
    BY <1>0, <2>1, <2>2
<1> QED
  BY <1>1, <1>2

\* The inductive invariant holds in every state of every run: confirmOrder,
\* advanceOrderStatus, requestOrderCancellation and assignDriverToOrder keep
\* types, audit log and rows consistent, however their steps interleave.
THEOREM InvHolds == Spec => []Inv
<1>1. Inv /\ [Next]_vars => Inv'
  BY TypeStep, TransactionsStep, RowStep, HistoryStep, AloneStep DEF Inv
<1> QED
  BY InitInv, <1>1, PTL DEF Spec

\* Every variable has its type, the rows that the services write included.
THEOREM TypeCorrect == Spec => []TypeOK
<1>1. Inv => TypeOK
  BY DEF Inv
<1> QED
  BY InvHolds, <1>1, PTL

\* No race of the order services makes a status change that is not an edge of
\* the status machine out of a status the order really had.
THEOREM HistoryConnected == Spec => []HistoryIsConnected
<1>1. Inv => HistoryIsConnected
  BY DEF Inv
<1> QED
  BY InvHolds, <1>1, PTL

\* The status and driver of an order's row are always the ones its last audit
\* entries tell: writeAuditLogEntry runs in the transaction of the write.
THEOREM RowAudited == Spec => []RowIsLastAudited
<1>1. Inv => RowIsLastAudited
  BY DEF Inv
<1> QED
  BY InvHolds, <1>1, PTL

\* A move leaves its mark in the statement that makes it, and no statement takes
\* one away: each UPDATE writes only columns of its own.
LEMMA CommitMarks ==
  ASSUME Inv, NEW r \in Requests, Commit(r), NEW o \in Orders,
         NEW moved, moved = (o = call[r].order /\ call[r].op # "assign")
  PROVE  /\ order'[o].confirmedAt = (order[o].confirmedAt \/ (moved /\ call[r].to = "CONFIRMED"))
         /\ order'[o].deliveredAt = (order[o].deliveredAt \/ (moved /\ call[r].to = "DELIVERED"))
         /\ order'[o].cancelledBy = IF moved /\ call[r].to = "CANCELLED" THEN "BUYER"
                                    ELSE order[o].cancelledBy
<1>1. call[r] \in Calls /\ call[r].order \in Orders
  BY CommitFacts DEF Decided
<1>2. order[o] \in OrderRow
  BY DEF Inv, TypeOK
<1>3. CASE o # call[r].order
  <2>1. order'[o] = order[o]
    BY <1>3, CommitFacts
  <2> QED
    BY <1>2, <1>3, <2>1 DEF OrderRow
<1>4. CASE o = call[r].order
  <2>1. order'[o] = OrderVersion(call[r], order[o])
    BY <1>1, <1>4 DEF Commit, Inv, TypeOK
  <2>2. call[r].op # "assign" =>
          /\ call[r].to = "CONFIRMED" <=> call[r].op = "confirm"
          /\ call[r].to = "CANCELLED" <=> call[r].op = "cancel"
    BY <1>1, CallFacts DEF AdvanceableOrderStatus
  <2> QED
    BY <1>2, <1>4, <2>1, <2>2 DEF OrderVersion, OrderRow
<1> QED
  BY <1>3, <1>4

LEMMA MarksStep == Inv /\ MarksTellHistory /\ [Next]_vars => MarksTellHistory'
<1> SUFFICES ASSUME Inv, MarksTellHistory, [Next]_vars, NEW o \in Orders
             PROVE  /\ order'[o].confirmedAt <=> "CONFIRMED" \in StatusesOf(o)'
                    /\ order'[o].deliveredAt <=> "DELIVERED" \in StatusesOf(o)'
                    /\ order'[o].cancelledBy = "BUYER" <=> "CANCELLED" \in StatusesOf(o)'
  BY DEF MarksTellHistory
<1>1. /\ order[o].confirmedAt <=> "CONFIRMED" \in StatusesOf(o)
      /\ order[o].deliveredAt <=> "DELIVERED" \in StatusesOf(o)
      /\ order[o].cancelledBy = "BUYER" <=> "CANCELLED" \in StatusesOf(o)
  BY DEF MarksTellHistory
<1>2. CASE ~(\E r \in Requests : Commit(r))
  BY <1>1, <1>2, OnlyCommitsWrite DEF StatusesOf, EntriesOf
<1>3. ASSUME NEW r \in Requests, Commit(r),
             NEW moved, moved = (o = call[r].order /\ call[r].op # "assign")
      PROVE  /\ order'[o].confirmedAt <=> "CONFIRMED" \in StatusesOf(o)'
             /\ order'[o].deliveredAt <=> "DELIVERED" \in StatusesOf(o)'
             /\ order'[o].cancelledBy = "BUYER" <=> "CANCELLED" \in StatusesOf(o)'
  <2>1. StatusesOf(o)' = StatusesOf(o) \cup (IF moved THEN {call[r].to} ELSE {})
    BY <1>3, CommitStatuses
  <2>2. /\ order'[o].confirmedAt = (order[o].confirmedAt \/ (moved /\ call[r].to = "CONFIRMED"))
        /\ order'[o].deliveredAt = (order[o].deliveredAt \/ (moved /\ call[r].to = "DELIVERED"))
        /\ order'[o].cancelledBy = IF moved /\ call[r].to = "CANCELLED" THEN "BUYER"
                                   ELSE order[o].cancelledBy
    BY <1>3, CommitMarks
  <2> QED
    BY <1>1, <2>1, <2>2
<1> QED
  BY <1>2, <1>3

\* An order's row shows that it was confirmed, delivered or cancelled exactly if
\* some request committed that, in whatever order the requests read and write.
THEOREM MarksStay == Spec => []MarksTellHistory
<1>1. Init => MarksTellHistory
  <2> SUFFICES ASSUME Init, NEW o \in Orders
               PROVE  order[o] = NewOrder /\ StatusesOf(o) = {"SUBMITTED"}
    BY DEF MarksTellHistory, NewOrder
  <2> QED
    BY DEF Init, StatusesOf, EntriesOf
<1> QED
  BY <1>1, InvHolds, MarksStep, PTL DEF Spec

-----------------------------------------------------------------------------
(* Refinement, and the promises that need requests to come one at a time.  *)

\* An order with no audit entry is where its submission left it.
LEMMA InitRefines == Init => StatusSpec!Init
<1> SUFFICES ASSUME Init PROVE StatusSpec!Init
  OBVIOUS
<1>1. \A o \in Orders : StatusesOf(o) = {"SUBMITTED"}
  BY DEF Init, StatusesOf, EntriesOf
<1> QED
  BY <1>1 DEF Init, NewOrder, StatusSpec!Init

\* The commit of a status change moves the order along the machine, from the
\* status it is in if requests come one at a time, from one it had otherwise.
LEMMA CommitMoves ==
  ASSUME Inv, NEW r \in Requests, Commit(r), call[r].op # "assign",
         NEW x, x = call[r].order, NEW to, to = call[r].to
  PROVE  StatusSpec!Move(x, to)
<1>1. /\ Decided(r) /\ x \in Orders
      /\ isValidOrderTransition(seen[r].status, to)
      /\ order'[x].status = to
      /\ \A o \in Orders : o # x => order'[o] = order[o]
  BY CommitFacts
<1>2. seen[r].status \in StatusesOf(x)
  BY <1>1 DEF Decided
<1>3. ~overlapped => seen[r].status = order[x].status
  BY DEF Inv, ReadsAreCurrent, Commit, InTransaction
<1>4. seen[r].status \in StatusSpec!Sources(x)
  BY <1>1, <1>2, <1>3 DEF StatusSpec!Sources, Inv, TypeOK
<1>5. \A o \in Orders : StatusesOf(o)' = StatusesOf(o) \cup (IF o = x THEN {to} ELSE {})
  BY CommitStatuses
<1>6. [o \in Orders |-> order[o].status]'
        = [[o \in Orders |-> order[o].status] EXCEPT ![x] = to]
  BY <1>1
<1>7. [o \in Orders |-> StatusesOf(o)]'
        = [[o \in Orders |-> StatusesOf(o)] EXCEPT ![x] = @ \cup {to}]
  <2>1. PICK f : f = [o \in Orders |-> StatusesOf(o)]
    OBVIOUS
  <2>2. PICK g : g = [o \in Orders |-> StatusesOf(o)']
    OBVIOUS
  <2>3. \A o \in Orders : g[o] = f[o] \cup (IF o = x THEN {to} ELSE {})
    BY <1>5, <2>1, <2>2
  <2>4. f = [o \in Orders |-> f[o]] /\ g = [o \in Orders |-> g[o]]
    BY <2>1, <2>2
  <2>5. g = [f EXCEPT ![x] = @ \cup {to}]
    <3> DEFINE h == [f EXCEPT ![x] = @ \cup {to}]
    <3>1. h = [o \in Orders |-> h[o]]
      BY <2>4
    <3>2. \A o \in Orders : h[o] = f[o] \cup (IF o = x THEN {to} ELSE {})
      BY <2>4
    <3>3. \A o \in Orders : g[o] = h[o]
      BY <2>3, <3>2
    <3> HIDE DEF h
    <3>4. g = h
      BY <2>4, <3>1, <3>3
    <3> QED
      BY <3>4 DEF h
  <2> QED
    BY <2>1, <2>2, <2>5
<1>8. UNCHANGED overlapped
  BY DEF Commit
<1> QED
  BY <1>1, <1>4, <1>6, <1>7, <1>8 DEF StatusSpec!Move, StatusSpec!isValidOrderTransition,
     isValidOrderTransition, StatusSpec!ORDER_STATUS_TRANSITIONS, ORDER_STATUS_TRANSITIONS,
     StatusSpec!OrderStatus, OrderStatus

\* Every other step leaves the statuses, and the statuses there were, alone.
LEMMA OthersStutter ==
  ASSUME Inv, [Next]_vars, \A r \in Requests : Commit(r) => call[r].op = "assign"
  PROVE  UNCHANGED <<[o \in Orders |-> order[o].status], [o \in Orders |-> StatusesOf(o)]>>
<1>1. CASE ~(\E r \in Requests : Commit(r))
  BY <1>1, OnlyCommitsWrite DEF StatusesOf, EntriesOf
<1>2. ASSUME NEW r \in Requests, Commit(r)
      PROVE  UNCHANGED <<[o \in Orders |-> order[o].status], [o \in Orders |-> StatusesOf(o)]>>
  <2>1. \A o \in Orders : StatusesOf(o)' = StatusesOf(o)
    BY <1>2, CommitStatuses
  <2>2. \A o \in Orders : order'[o].status = order[o].status
    BY <1>2, CommitFacts
  <2> QED
    BY <2>1, <2>2
<1> QED
  BY <1>1, <1>2

\* The order services implement the status specification: requests that come
\* one at a time move an order from its status along the machine, concurrent
\* ones from a status it has had.
THEOREM Refinement == Spec => ImplementsStatusSpec
<1>1. Inv /\ [Next]_vars =>
        [StatusSpec!Next]_<<[o \in Orders |-> order[o].status], [o \in Orders |-> StatusesOf(o)], overlapped>>
  <2> SUFFICES ASSUME Inv, [Next]_vars
               PROVE  \/ StatusSpec!Next
                      \/ UNCHANGED <<[o \in Orders |-> order[o].status],
                                     [o \in Orders |-> StatusesOf(o)], overlapped>>
    OBVIOUS
  <2>1. ASSUME NEW r \in Requests, Commit(r), call[r].op # "assign"
        PROVE  StatusSpec!Next
    <3>1. call[r].order \in Orders /\ call[r].to \in OrderStatus
      BY <2>1, CallFacts, CommitFacts DEF Decided, OrderStatus, AdvanceableOrderStatus
    <3>2. PICK o \in Orders, to \in OrderStatus : o = call[r].order /\ to = call[r].to
      BY <3>1
    <3>3. StatusSpec!Move(o, to)
      BY <2>1, <3>2, CommitMoves
    <3> QED
      BY <3>3 DEF StatusSpec!Next, StatusSpec!OrderStatus, OrderStatus
  <2>2. CASE UNCHANGED <<[o \in Orders |-> order[o].status], [o \in Orders |-> StatusesOf(o)]>>
    <3>0. overlapped \in BOOLEAN /\ overlapped' \in BOOLEAN /\ (overlapped => overlapped')
      BY OverlapStep, TypeStep DEF Inv, TypeOK
    <3>1. overlapped' = overlapped \/ overlapped' = TRUE
      BY <3>0, Zenon
    <3> QED
      BY <2>2, <3>1 DEF StatusSpec!Next, StatusSpec!Race
  <2> QED
    BY <2>1, <2>2, OthersStutter
<1> QED
  BY InitRefines, InvHolds, <1>1, PTL DEF Spec, ImplementsStatusSpec, StatusSpec!Spec

\* As long as no two requests overlap, a delivered or cancelled order's driver is
\* left alone.
THEOREM AloneAssignments == Spec => NoAssignmentAfterTheEnd
<1>1. ASSUME Inv, [Next]_vars, ~overlapped, NEW o \in Orders, order[o].status \in TERMINAL_STATUSES
      PROVE  order'[o].assignedDriver = order[o].assignedDriver
  <2>1. CASE ~(\E r \in Requests : Commit(r))
    BY <1>1, <2>1, OnlyCommitsWrite
  <2>2. ASSUME NEW r \in Requests, Commit(r), o = call[r].order, call[r].op = "assign"
        PROVE  FALSE
    <3>1. seen[r] = order[o] /\ Accepts(call[r], seen[r])
      BY <1>1, <2>2 DEF Inv, ReadsAreCurrent, TransactionsOK, Decided, Commit, InTransaction
    <3> QED
      BY <1>1, <2>2, <3>1 DEF Accepts, AssignAccepts
  <2> QED
    BY <1>1, <2>1, <2>2, CommitFacts
<1>2. Inv /\ [Next]_vars =>
        [overlapped \/ \A o \in Orders :
           order[o].status \in TERMINAL_STATUSES => order'[o].assignedDriver = order[o].assignedDriver]_vars
  BY <1>1
<1> QED
  BY InvHolds, <1>2, PTL DEF Spec, NoAssignmentAfterTheEnd

\* As long as no two requests overlap, a driver moves only the orders that are
\* still assigned to that driver when the move commits.
THEOREM AloneDriverOwnsMove == Spec => DriverOwnsMove
<1>1. ASSUME Inv, [Next]_vars, ~overlapped, NEW r \in Requests,
             pc[r] = "written", pc'[r] = "committed", call[r].op = "advance"
      PROVE  call[r].driver \in {NULL, order[call[r].order].assignedDriver}
  <2>1. seen[r] = order[call[r].order] /\ Accepts(call[r], seen[r])
    BY <1>1 DEF Inv, ReadsAreCurrent, TransactionsOK, Decided, InTransaction
  <2> QED
    BY <1>1, <2>1 DEF Accepts, AdvanceAccepts
<1>2. Inv /\ [Next]_vars => [overlapped \/ OwnMoves]_vars
  BY <1>1 DEF OwnMoves
<1> QED
  BY InvHolds, <1>2, PTL DEF Spec, DriverOwnsMove

-----------------------------------------------------------------------------
(* Events, quantities and what the audit log tells: a second invariant, of *)
(* what a transaction has written beside what it decided on.               *)

\* A request that committed a change of status has an entry of it.
Announceable(r) ==
  pc[r] = "committed" =>
    \E i \in EntriesOf("status", call[r].order) :
      audit[i].new = call[r].to /\ audit[i].by = r

\* A confirmation's uncommitted lines and entries are those of the inputs it
\* has handled, in which each line comes once.
DraftOK(r) ==
  InTransaction(r) =>
    LET ls == call[r].lines IN
    /\ DOMAIN draft[r] = {ls[i].line : i \in 1..turn[r]}
    /\ \A i \in 1..turn[r] : draft[r][ls[i].line] = LineVersion(ls[i])
    /\ \A i \in 1..turn[r] : Changed(ls[i]) =>
         \E j \in 1..Len(entries[r]) : entries[r][j] = LineEntry(r, ls[i])
    /\ pc[r] = "written" => turn[r] = Len(ls)

EntriesOK(r) ==
  InTransaction(r) =>
    LET ls == call[r].lines IN
    /\ \A j \in 1..Len(entries[r]) : entries[r][j].field = "confirmedQty" =>
         \E i \in 1..turn[r] : Changed(ls[i]) /\ entries[r][j] = LineEntry(r, ls[i])
    /\ \A j, k \in 1..Len(entries[r]) :
         /\ entries[r][j].field = "confirmedQty" /\ entries[r][k].field = "confirmedQty"
         /\ entries[r][j].on = entries[r][k].on
         => j = k

\* The lines of a confirmed order are those of one of its confirmations.
ConfirmedBy(o, r) ==
  /\ pc[r] \in {"committed", "done"} /\ call[r] \in Calls
  /\ call[r].op = "confirm" /\ call[r].order = o
  /\ \A i \in 1..Len(call[r].lines) :
       /\ call[r].lines[i].line \in LinesOf(o)
       /\ line[call[r].lines[i].line] = LineVersion(call[r].lines[i])

\* Without an overlap no order is confirmed twice.
NeverBack ==
  ~overlapped => \A o \in Orders :
    "CONFIRMED" \in StatusesOf(o) => order[o].status # "SUBMITTED"

OnlyConfirmedTold ==
  \A l \in Lines : EntriesOf("confirmedQty", l) # {} => "CONFIRMED" \in StatusesOf(orderOf[l])

WritesOK ==
  /\ \A r \in Requests : Announceable(r) /\ DraftOK(r) /\ EntriesOK(r)
  /\ EventsCommitted
  /\ QuantitiesDecided
  /\ \A o \in Orders : "CONFIRMED" \in StatusesOf(o) => \E r \in Requests : ConfirmedBy(o, r)
  /\ ReductionAudited
  /\ NeverBack
  /\ OnlyConfirmedTold
  /\ AuditTellsBeforeAndAfter
  /\ AuditTellsQuantity

\* What the log says stays in it.
LEMMA EntryKept ==
  ASSUME Inv, [Next]_vars, NEW f, NEW x, NEW i \in EntriesOf(f, x)
  PROVE  i \in EntriesOf(f, x)' /\ audit'[i] = audit[i]
<1>1. CASE ~(\E r \in Requests : Commit(r))
  BY <1>1, OnlyCommitsWrite DEF EntriesOf
<1>2. ASSUME NEW r \in Requests, Commit(r)
      PROVE  i \in EntriesOf(f, x)' /\ audit'[i] = audit[i]
  <2>1. i \in 1..Len(audit) /\ audit[i].field = f /\ audit[i].on = x
    BY DEF EntriesOf
  <2>2. audit'[i] = audit[i] /\ i \in 1..Len(audit')
    BY <1>2, <2>1, CommitAppends
  <2> QED
    BY <2>1, <2>2 DEF EntriesOf
<1> QED
  BY <1>1, <1>2

\* A commit appends the transaction's entries.
LEMMA CommitAudit ==
  ASSUME Inv, NEW r \in Requests, Commit(r)
  PROVE  /\ Len(audit) \in Nat /\ Len(entries[r]) \in Nat
         /\ Len(audit') = Len(audit) + Len(entries[r])
         /\ \A i \in 1..Len(audit) : audit'[i] = audit[i]
         /\ \A j \in 1..Len(entries[r]) : audit'[Len(audit) + j] = entries[r][j]
         /\ \A k \in 1..Len(audit') :
              \/ k \in 1..Len(audit)
              \/ \E j \in 1..Len(entries[r]) : k = Len(audit) + j
<1>1. PICK es \in Seq(AuditEntry) : es = entries[r]
  BY DEF Inv, TypeOK
<1>2. audit \in Seq(AuditEntry) /\ audit' = audit \o es
  BY <1>1 DEF Inv, TypeOK, Commit
<1>3. Len(audit) \in Nat /\ Len(es) \in Nat /\ Len(audit') = Len(audit) + Len(es)
  BY <1>2
<1>4. \A k \in 1..(Len(audit) + Len(es)) :
        audit'[k] = IF k <= Len(audit) THEN audit[k] ELSE es[k - Len(audit)]
  BY <1>2
<1>5. \A i \in 1..Len(audit) : audit'[i] = audit[i]
  BY <1>3, <1>4
<1>6. ASSUME NEW j \in 1..Len(es)
      PROVE  audit'[Len(audit) + j] = es[j]
  <2>1. /\ Len(audit) + j \in 1..(Len(audit) + Len(es)) /\ ~(Len(audit) + j <= Len(audit))
        /\ Len(audit) + j - Len(audit) = j
    BY <1>3
  <2> QED
    BY <1>4, <2>1
<1>7. ASSUME NEW k \in 1..Len(audit'), k \notin 1..Len(audit)
      PROVE  \E j \in 1..Len(es) : k = Len(audit) + j
  <2>1. k - Len(audit) \in 1..Len(es) /\ k = Len(audit) + (k - Len(audit))
    BY <1>3, <1>7
  <2> QED
    BY <2>1
<1> QED
  BY <1>1, <1>3, <1>5, <1>6, <1>7

\* What a committing confirmation makes of the lines.
LEMMA CommitLines ==
  ASSUME Inv, NEW r \in Requests, Commit(r), DraftOK(r)
  PROVE  /\ call[r].op # "confirm" => line' = line
         /\ call[r].op = "confirm" =>
              /\ \A i \in 1..Len(call[r].lines) :
                   LET in == call[r].lines[i] IN
                   /\ in \in LineInput /\ LineAccepted(call[r].order, in)
                   /\ line'[in.line] = LineVersion(in)
                   /\ Changed(in) =>
                        \E j \in 1..Len(entries[r]) : entries[r][j] = LineEntry(r, in)
              /\ \A l \in LinesOf(call[r].order) :
                   \E i \in 1..Len(call[r].lines) : call[r].lines[i].line = l
              /\ \A l \in Lines \ LinesOf(call[r].order) : line'[l] = line[l]
<1> DEFINE c == call[r]
<1>1. Decided(r) /\ c \in Calls /\ Accepts(c, seen[r]) /\ c.lines \in Seq(LineInput)
  BY CommitFacts, CallFacts DEF Decided
<1>2. /\ line \in [Lines -> LineRow]
      /\ line' = [l \in Lines |-> IF l \in DOMAIN draft[r] THEN draft[r][l] ELSE line[l]]
  BY DEF Inv, TypeOK, Commit
<1>3. /\ DOMAIN draft[r] = {c.lines[i].line : i \in 1..Len(c.lines)}
      /\ \A i \in 1..Len(c.lines) : draft[r][c.lines[i].line] = LineVersion(c.lines[i])
      /\ \A i \in 1..Len(c.lines) : Changed(c.lines[i]) =>
           \E j \in 1..Len(entries[r]) : entries[r][j] = LineEntry(r, c.lines[i])
  BY DEF DraftOK, Commit, InTransaction
<1>4. ASSUME c.op # "confirm"  PROVE  line' = line
  <2>1. DOMAIN draft[r] = {}
    BY <1>1, <1>3, <1>4, CallFacts
  <2> QED
    BY <1>2, <2>1
<1>5. ASSUME c.op = "confirm"
      PROVE  /\ \A i \in 1..Len(c.lines) : LineAccepted(c.order, c.lines[i])
             /\ \A l \in LinesOf(c.order) : \E i \in 1..Len(c.lines) : c.lines[i].line = l
  BY <1>1, <1>5 DEF Accepts, ConfirmAccepts, NoLineLeftOut
<1>6. ASSUME c.op = "confirm", NEW i \in 1..Len(c.lines)
      PROVE  c.lines[i] \in LineInput /\ line'[c.lines[i].line] = LineVersion(c.lines[i])
  <2>1. c.lines[i] \in LineInput
    BY <1>1
  <2>2. c.lines[i].line \in Lines /\ c.lines[i].line \in DOMAIN draft[r]
    BY <1>3, <2>1 DEF LineInput
  <2> QED
    BY <1>2, <1>3, <2>1, <2>2
<1>7. ASSUME c.op = "confirm", NEW l \in Lines \ LinesOf(c.order)
      PROVE  line'[l] = line[l]
  <2>1. l \notin DOMAIN draft[r]
    BY <1>3, <1>5, <1>7 DEF LineAccepted
  <2> QED
    BY <1>2, <2>1
<1> HIDE DEF c
<1> QED
  BY <1>3, <1>4, <1>5, <1>6, <1>7 DEF c

\* Nothing is written at the start.
LEMMA InitWrites == Init => WritesOK
<1> SUFFICES ASSUME Init  PROVE  WritesOK
  OBVIOUS
<1>1. \A f, x : EntriesOf(f, x) = {}
  BY DEF Init, EntriesOf
<1>2. \A o : StatusesOf(o) = {"SUBMITTED"}
  BY <1>1 DEF StatusesOf
<1>3. \A r \in Requests : Announceable(r) /\ DraftOK(r) /\ EntriesOK(r)
  BY DEF Init, Announceable, DraftOK, EntriesOK, InTransaction
<1>4. EventsCommitted
  BY DEF Init, EventsCommitted
<1>5. \A l \in Lines : line[l].confirmedQty = NULL /\ line[l].unavailableReason = FALSE
  BY DEF Init, NewLine
<1>6. QuantitiesDecided /\ ReductionAudited /\ AuditTellsQuantity
  BY <1>2, <1>5 DEF QuantitiesDecided, ReductionAudited, AuditTellsQuantity
<1>7. NeverBack /\ OnlyConfirmedTold /\ AuditTellsBeforeAndAfter
  BY <1>1, <1>2 DEF NeverBack, OnlyConfirmedTold, AuditTellsBeforeAndAfter
<1> QED
  BY <1>2, <1>3, <1>4, <1>6, <1>7 DEF WritesOK

\* The requests that are past their commit stay there, with their calls.
LEMMA CommittedStays ==
  ASSUME Inv, [Next]_vars, NEW q \in Requests, pc[q] \in {"committed", "done"}
  PROVE  pc'[q] \in {"committed", "done"} /\ call'[q] = call[q]
<1>1. ASSUME NEW r \in Requests, NEW c \in Calls, Begin(r, c) \/ Refuse(r, c)
      PROVE  pc'[q] = pc[q] /\ call'[q] = call[q]
  BY <1>1 DEF Begin, Refuse, Inv, TypeOK
<1>2. ASSUME NEW r \in Requests, WriteLine(r) \/ WriteOrder(r) \/ Commit(r)
      PROVE  pc'[q] = pc[q] /\ call'[q] = call[q]
  BY <1>2 DEF WriteLine, WriteOrder, AtLine, AtOrder, Commit, Inv, TypeOK
<1>3. ASSUME NEW r \in Requests, Publish(r) \/ LoseEvent(r)
      PROVE  pc'[q] \in {pc[q], "done"} /\ call'[q] = call[q]
  BY <1>3 DEF Publish, LoseEvent, Inv, TypeOK
<1>4. ASSUME NEW r \in Requests, Abort(r) \/ DeadlockVictim(r)
      PROVE  pc'[q] = pc[q] /\ call'[q] = call[q]
  <2>1. pc[r] \in {"open", "written"}
    BY <1>4 DEF Abort, DeadlockVictim, Deadlocked, WaitsFor, AtLine, AtOrder, InTransaction
  <2> QED
    BY <1>4, <2>1 DEF Abort, DeadlockVictim, RollBack, Inv, TypeOK
<1>5. CASE UNCHANGED vars
  BY <1>5 DEF vars
<1> QED
  BY <1>1, <1>2, <1>3, <1>4, <1>5 DEF Next, Idle

\* What a step does to a request's own variables, or leaves alone.
LEMMA OwnStep ==
  ASSUME Inv, [Next]_vars, NEW q \in Requests
  PROVE  \/ /\ pc'[q] = pc[q] /\ call'[q] = call[q] /\ turn'[q] = turn[q]
            /\ draft'[q] = draft[q] /\ entries'[q] = entries[q]
         \/ \E c \in Calls : Begin(q, c)
         \/ WriteLine(q)
         \/ WriteOrder(q)
         \/ Commit(q)
         \/ pc'[q] \in {"refused", "aborted", "done"}
<1>1. ASSUME NEW r \in Requests, r # q,
             \/ \E c \in Calls : Begin(r, c) \/ Refuse(r, c)
             \/ WriteLine(r) \/ WriteOrder(r) \/ Commit(r)
      PROVE  /\ pc'[q] = pc[q] /\ call'[q] = call[q] /\ turn'[q] = turn[q]
             /\ draft'[q] = draft[q] /\ entries'[q] = entries[q]
  BY <1>1 DEF Begin, Refuse, WriteLine, WriteOrder, Commit, Released, Inv, TypeOK
<1>2. ASSUME NEW r \in Requests, r # q,
             Publish(r) \/ Abort(r) \/ DeadlockVictim(r) \/ LoseEvent(r)
      PROVE  /\ pc'[q] = pc[q] /\ call'[q] = call[q] /\ turn'[q] = turn[q]
             /\ draft'[q] = draft[q] /\ entries'[q] = entries[q]
  BY <1>2 DEF Publish, Abort, DeadlockVictim, RollBack, LoseEvent, Released, Inv, TypeOK
<1>3. ASSUME NEW c \in Calls, Refuse(q, c)  PROVE pc'[q] = "refused"
  BY <1>3 DEF Refuse, Inv, TypeOK
<1>4. ASSUME Publish(q) \/ Abort(q) \/ DeadlockVictim(q) \/ LoseEvent(q)
      PROVE  pc'[q] \in {"refused", "aborted", "done"}
  BY <1>4 DEF Publish, Abort, DeadlockVictim, RollBack, LoseEvent, Inv, TypeOK
<1>5. CASE UNCHANGED vars
  BY <1>5 DEF vars
<1>6. CASE Next
  <2>1. PICK r \in Requests :
          \/ \E c \in Calls : Begin(r, c) \/ Refuse(r, c)
          \/ WriteLine(r) \/ WriteOrder(r) \/ Commit(r) \/ Publish(r)
          \/ Abort(r) \/ DeadlockVictim(r) \/ LoseEvent(r)
          \/ UNCHANGED vars
    BY <1>6 DEF Next, Idle
  <2> QED
    BY <1>1, <1>2, <1>3, <1>4, <1>5, <2>1
<1> QED
  BY <1>5, <1>6

\* The entry of a committed change of status.
LEMMA CommitTells ==
  ASSUME Inv, NEW r \in Requests, Commit(r), call[r].op # "assign",
         NEW x, x = call[r].order
  PROVE  \E i \in EntriesOf("status", x)' :
           audit'[i].new = call[r].to /\ audit'[i].by = r
<1>1. /\ x \in Orders /\ OrderEntry(r).on = x /\ OrderEntry(r).field = "status"
      /\ OrderEntry(r).new = call[r].to /\ OrderEntry(r).by = r
  BY CommitFacts DEF OrderEntry
<1>2. Len(audit') \in EntriesOf("status", x)'
  BY <1>1, CommitEntries
<1>3. audit'[Len(audit')] = OrderEntry(r)
  BY CommitAppends
<1> QED
  BY <1>1, <1>2, <1>3

\* A request past its commit keeps the entry that it will announce.
LEMMA AnnounceableStep ==
  ASSUME Inv, [Next]_vars, NEW q \in Requests, Announceable(q)
  PROVE  Announceable(q)'
<1> SUFFICES ASSUME pc'[q] = "committed", NEW x, x = call'[q].order, NEW to, to = call'[q].to
             PROVE  \E i \in EntriesOf("status", x)' : audit'[i].new = to /\ audit'[i].by = q
  BY DEF Announceable, EntriesOf
<1>1. CASE pc[q] = "committed"
  <2>1. call'[q] = call[q]
    BY <1>1, CommittedStays
  <2>2. PICK i \in EntriesOf("status", x) : audit[i].new = to /\ audit[i].by = q
    BY <1>1, <2>1 DEF Announceable
  <2>3. i \in EntriesOf("status", x)' /\ audit'[i] = audit[i]
    BY <2>2, EntryKept
  <2> QED
    BY <2>2, <2>3
<1>2. CASE Commit(q)
  <2>1. call'[q] = call[q] /\ call[q].op # "assign"
    BY <1>2 DEF Commit, Inv, TypeOK
  <2> QED
    BY <1>2, <2>1, CommitTells
<1>3. CASE pc[q] # "committed" /\ ~Commit(q)
  <2>1. (\E c \in Calls : Begin(q, c)) \/ WriteLine(q) \/ WriteOrder(q)
    BY <1>3, OwnStep
  <2> QED
    BY <1>3, <2>1 DEF Begin, WriteLine, WriteOrder, AtLine, AtOrder, Inv, TypeOK
<1> QED
  BY <1>1, <1>2, <1>3

\* publishOrderEvent tells of what was committed.
LEMMA EventsStep ==
  ASSUME Inv, [Next]_vars, \A r \in Requests : Announceable(r), EventsCommitted
  PROVE  EventsCommitted'
<1> SUFFICES ASSUME NEW e \in events'
             PROVE  \E i \in EntriesOf("status", e.order)' :
                      audit'[i].new = e.type /\ audit'[i].by = e.by
  BY DEF EventsCommitted, EntriesOf
<1>1. CASE e \in events
  <2>1. PICK i \in EntriesOf("status", e.order) : audit[i].new = e.type /\ audit[i].by = e.by
    BY <1>1 DEF EventsCommitted
  <2>2. i \in EntriesOf("status", e.order)' /\ audit'[i] = audit[i]
    BY EntryKept
  <2> QED
    BY <2>1, <2>2
<1>2. CASE e \notin events
  <2>1. PICK r \in Requests : Publish(r)
    BY <1>2 DEF Next, Begin, Refuse, WriteLine, WriteOrder, Commit, Abort, DeadlockVictim,
                RollBack, LoseEvent, Idle, vars
  <2>2. /\ e = [type |-> call[r].to, order |-> call[r].order, by |-> r]
        /\ pc[r] = "committed"
    BY <1>2, <2>1 DEF Publish
  <2>3. PICK i \in EntriesOf("status", e.order) : audit[i].new = e.type /\ audit[i].by = e.by
    BY <2>2 DEF Announceable
  <2>4. i \in EntriesOf("status", e.order)' /\ audit'[i] = audit[i]
    BY EntryKept
  <2> QED
    BY <2>3, <2>4
<1> QED
  BY <1>1, <1>2

\* A turn of the loop adds its line's version and entry.
LEMMA WriteLineFacts ==
  ASSUME Inv, NEW q \in Requests, WriteLine(q)
  PROVE  LET n == turn[q]
             in == call[q].lines[turn[q] + 1] IN
         /\ n \in Nat /\ n + 1 \in 1..Len(call[q].lines) /\ Len(call[q].lines) \in Nat
         /\ InTransaction(q) /\ pc'[q] = "open" /\ call'[q] = call[q] /\ turn'[q] = n + 1
         /\ DOMAIN draft'[q] = DOMAIN draft[q] \cup {in.line}
         /\ \A l \in DOMAIN draft'[q] :
              draft'[q][l] = IF l = in.line THEN LineVersion(in) ELSE draft[q][l]
         /\ \A i \in 1..n : call[q].lines[i].line # in.line
         /\ ~Changed(in) => entries'[q] = entries[q]
         /\ Changed(in) =>
              /\ Len(entries'[q]) = Len(entries[q]) + 1
              /\ entries'[q][Len(entries[q]) + 1] = LineEntry(q, in)
              /\ \A j \in 1..Len(entries[q]) : entries'[q][j] = entries[q][j]
         /\ Len(entries[q]) \in Nat
<1>1. pc[q] = "open" /\ InTransaction(q) /\ turn[q] < Len(call[q].lines)
  BY DEF WriteLine, AtLine, InTransaction
<1>2. Decided(q) /\ turn[q] \in Nat
  BY <1>1 DEF Inv, TransactionsOK, TypeOK
<1>3. call[q] \in Calls /\ call[q].lines \in Seq(LineInput) /\ Len(call[q].lines) \in Nat
  BY <1>2, CallFacts DEF Decided
<1>4. turn[q] + 1 \in 1..Len(call[q].lines)
  BY <1>1, <1>2, <1>3
<1>5. call[q].op = "confirm" /\ NextInput(q) = call[q].lines[turn[q] + 1]
  BY <1>2, NextInputFacts DEF WriteLine, NextInput
<1>6. \A i, j \in 1..Len(call[q].lines) :
        call[q].lines[i].line = call[q].lines[j].line => i = j
  BY <1>3, <1>5, CallFacts
<1>7. \A i \in 1..turn[q] : call[q].lines[i].line # call[q].lines[turn[q] + 1].line
  <2>1. ASSUME NEW i \in 1..turn[q]
        PROVE  i \in 1..Len(call[q].lines) /\ i # turn[q] + 1
    BY <1>2, <1>3, <1>4
  <2> QED
    BY <1>4, <1>6, <2>1
<1>8. draft'[q] = Drafted(q, NextInput(q)) /\ turn'[q] = turn[q] + 1
      /\ pc'[q] = "open" /\ call'[q] = call[q]
  BY <1>1 DEF WriteLine, Inv, TypeOK
<1>9. entries'[q] = IF Changed(NextInput(q))
                    THEN Append(entries[q], LineEntry(q, NextInput(q))) ELSE entries[q]
  BY DEF WriteLine, Inv, TypeOK
<1>10. PICK es \in Seq(AuditEntry) : es = entries[q]
  BY DEF Inv, TypeOK
<1>11. PICK e \in AuditEntry : e = LineEntry(q, NextInput(q))
  BY <1>2, NextInputFacts DEF WriteLine
<1>12. /\ Len(Append(es, e)) = Len(es) + 1 /\ Append(es, e)[Len(es) + 1] = e
       /\ \A j \in 1..Len(es) : Append(es, e)[j] = es[j]
       /\ Len(es) \in Nat
  OBVIOUS
<1>13. /\ DOMAIN draft'[q] = DOMAIN draft[q] \cup {NextInput(q).line}
       /\ \A l \in DOMAIN draft'[q] :
            draft'[q][l] = IF l = NextInput(q).line THEN LineVersion(NextInput(q)) ELSE draft[q][l]
  BY <1>8 DEF Drafted
<1>14. PICK in : in = call[q].lines[turn[q] + 1] /\ in = NextInput(q)
  BY <1>5
<1>15. /\ ~Changed(in) => entries'[q] = entries[q]
       /\ Changed(in) => entries'[q] = Append(es, e)
  BY <1>9, <1>10, <1>11, <1>14
<1>16. /\ Len(entries[q]) \in Nat
       /\ Changed(in) =>
            /\ Len(entries'[q]) = Len(entries[q]) + 1
            /\ entries'[q][Len(entries[q]) + 1] = LineEntry(q, in)
            /\ \A j \in 1..Len(entries[q]) : entries'[q][j] = entries[q][j]
  BY <1>10, <1>11, <1>12, <1>14, <1>15
<1>17. /\ DOMAIN draft'[q] = DOMAIN draft[q] \cup {in.line}
       /\ \A l \in DOMAIN draft'[q] :
            draft'[q][l] = IF l = in.line THEN LineVersion(in) ELSE draft[q][l]
  BY <1>13, <1>14
<1>18. \A i \in 1..turn[q] : call[q].lines[i].line # in.line
  BY <1>7, <1>14
<1> QED
  BY <1>1, <1>2, <1>3, <1>4, <1>8, <1>14, <1>15, <1>16, <1>17, <1>18

\* What a transaction has written stays what its inputs say.
LEMMA DraftStep ==
  ASSUME Inv, [Next]_vars, NEW q \in Requests, DraftOK(q), EntriesOK(q)
  PROVE  DraftOK(q)' /\ EntriesOK(q)'
<1> USE DEF Inv
<1>1. CASE /\ pc'[q] = pc[q] /\ call'[q] = call[q] /\ turn'[q] = turn[q]
           /\ draft'[q] = draft[q] /\ entries'[q] = entries[q]
  BY <1>1 DEF DraftOK, EntriesOK, InTransaction
<1>2. ASSUME NEW c \in Calls, Begin(q, c)
      PROVE  DraftOK(q)' /\ EntriesOK(q)'
  <2>1. /\ turn'[q] = 0 /\ draft'[q] = NoRows /\ entries'[q] = <<>> /\ pc'[q] = "open"
    BY <1>2 DEF Begin, TypeOK, TransactionsOK
  <2>2. DOMAIN NoRows = {}
    BY DEF NoRows
  <2> QED
    BY <2>1, <2>2 DEF DraftOK, EntriesOK
<1>3. CASE WriteLine(q)
  <2>1. PICK n, ls, in : n = turn[q] /\ ls = call[q].lines /\ in = ls[n + 1]
    OBVIOUS
  <2>2. /\ n \in Nat /\ n + 1 \in 1..Len(ls) /\ Len(ls) \in Nat
        /\ InTransaction(q) /\ pc'[q] = "open" /\ call'[q].lines = ls /\ turn'[q] = n + 1
        /\ DOMAIN draft'[q] = DOMAIN draft[q] \cup {in.line}
        /\ \A l \in DOMAIN draft'[q] :
             draft'[q][l] = IF l = in.line THEN LineVersion(in) ELSE draft[q][l]
        /\ \A i \in 1..n : ls[i].line # in.line
        /\ Len(entries[q]) \in Nat
    BY <1>3, <2>1, WriteLineFacts
  <2>3. /\ ~Changed(in) => entries'[q] = entries[q]
        /\ Changed(in) =>
              /\ Len(entries'[q]) = Len(entries[q]) + 1
              /\ entries'[q][Len(entries[q]) + 1] = LineEntry(q, in)
              /\ \A j \in 1..Len(entries[q]) : entries'[q][j] = entries[q][j]
    BY <1>3, <2>1, WriteLineFacts
  <2>4. /\ DOMAIN draft[q] = {ls[i].line : i \in 1..n}
        /\ \A i \in 1..n : draft[q][ls[i].line] = LineVersion(ls[i])
        /\ \A i \in 1..n : Changed(ls[i]) =>
             \E j \in 1..Len(entries[q]) : entries[q][j] = LineEntry(q, ls[i])
    BY <2>1, <2>2 DEF DraftOK
  <2>5. /\ \A j \in 1..Len(entries[q]) : entries[q][j].field = "confirmedQty" =>
             \E i \in 1..n : Changed(ls[i]) /\ entries[q][j] = LineEntry(q, ls[i])
        /\ \A j, k \in 1..Len(entries[q]) :
             /\ entries[q][j].field = "confirmedQty" /\ entries[q][k].field = "confirmedQty"
             /\ entries[q][j].on = entries[q][k].on
             => j = k
    BY <2>1, <2>2 DEF EntriesOK
  <2>6. 1..(n + 1) = 1..n \cup {n + 1} /\ 1..n \subseteq 1..(n + 1)
    BY <2>2
  <2>7. DOMAIN draft'[q] = {ls[i].line : i \in 1..(n + 1)}
    BY <2>1, <2>2, <2>4, <2>6
  <2>8. \A i \in 1..(n + 1) : draft'[q][ls[i].line] = LineVersion(ls[i])
    <3>1. ASSUME NEW i \in 1..n  PROVE  draft'[q][ls[i].line] = LineVersion(ls[i])
      <4>1. ls[i].line \in DOMAIN draft'[q] /\ ls[i].line # in.line
        BY <2>2, <2>4
      <4> QED
        BY <2>2, <2>4, <4>1
    <3>2. draft'[q][in.line] = LineVersion(in)
      BY <2>2
    <3> QED
      BY <2>1, <2>6, <3>1, <3>2
  <2>9. /\ 1..Len(entries[q]) \subseteq 1..Len(entries'[q])
        /\ \A j \in 1..Len(entries[q]) : entries'[q][j] = entries[q][j]
        /\ \A j \in 1..Len(entries'[q]) :
             j \in 1..Len(entries[q]) \/ (Changed(in) /\ j = Len(entries[q]) + 1)
    <3>1. CASE Changed(in)
      <4>1. Len(entries'[q]) = Len(entries[q]) + 1
            /\ \A j \in 1..Len(entries[q]) : entries'[q][j] = entries[q][j]
        BY <2>3, <3>1
      <4> QED
        BY <2>2, <3>1, <4>1
    <3>2. CASE ~Changed(in)
      BY <2>3, <3>2
    <3> QED
      BY <3>1, <3>2
  <2>10. \A i \in 1..(n + 1) : Changed(ls[i]) =>
           \E j \in 1..Len(entries'[q]) : entries'[q][j] = LineEntry(q, ls[i])
    <3>1. ASSUME NEW i \in 1..n, Changed(ls[i])
          PROVE  \E j \in 1..Len(entries'[q]) : entries'[q][j] = LineEntry(q, ls[i])
      BY <2>4, <2>9, <3>1
    <3>2. ASSUME Changed(in)
          PROVE  \E j \in 1..Len(entries'[q]) : entries'[q][j] = LineEntry(q, in)
      <4>1. Len(entries[q]) + 1 \in 1..Len(entries'[q])
        BY <2>2, <2>3, <3>2
      <4> QED
        BY <2>3, <3>2, <4>1
    <3> QED
      BY <2>1, <2>6, <3>1, <3>2
  <2>11. DraftOK(q)'
    BY <2>2, <2>7, <2>8, <2>10 DEF DraftOK
  <2>12. \A j \in 1..Len(entries'[q]) : entries'[q][j].field = "confirmedQty" =>
           \E i \in 1..(n + 1) : Changed(ls[i]) /\ entries'[q][j] = LineEntry(q, ls[i])
    <3>1. ASSUME NEW j \in 1..Len(entries[q]), entries'[q][j].field = "confirmedQty"
          PROVE  \E i \in 1..n : Changed(ls[i]) /\ entries'[q][j] = LineEntry(q, ls[i])
      BY <2>5, <2>9, <3>1
    <3>2. ASSUME Changed(in), NEW j, j = Len(entries[q]) + 1
          PROVE  entries'[q][j] = LineEntry(q, ls[n + 1]) /\ Changed(ls[n + 1])
      BY <2>1, <2>3, <3>2
    <3>3. n + 1 \in 1..(n + 1)
      BY <2>2
    <3> QED
      BY <2>6, <2>9, <3>1, <3>2, <3>3
  <2>13. ASSUME NEW j \in 1..Len(entries[q]), entries[q][j].field = "confirmedQty", Changed(in)
         PROVE  entries[q][j].on # LineEntry(q, in).on
    <3>1. PICK i \in 1..n : entries[q][j] = LineEntry(q, ls[i])
      BY <2>5, <2>13
    <3> QED
      BY <2>2, <3>1 DEF LineEntry
  <2>14. ASSUME NEW j \in 1..Len(entries'[q]), NEW k \in 1..Len(entries'[q]),
                entries'[q][j].field = "confirmedQty", entries'[q][k].field = "confirmedQty",
                entries'[q][j].on = entries'[q][k].on
         PROVE  j = k
    <3>1. CASE j \in 1..Len(entries[q]) /\ k \in 1..Len(entries[q])
      BY <2>5, <2>9, <2>14, <3>1
    <3>2. CASE j \in 1..Len(entries[q]) /\ k \notin 1..Len(entries[q])
      <4>1. Changed(in) /\ entries'[q][k] = LineEntry(q, in)
        BY <2>3, <2>9, <3>2
      <4> QED
        BY <2>9, <2>13, <2>14, <3>2, <4>1
    <3>3. CASE j \notin 1..Len(entries[q]) /\ k \in 1..Len(entries[q])
      <4>1. Changed(in) /\ entries'[q][j] = LineEntry(q, in)
        BY <2>3, <2>9, <3>3
      <4> QED
        BY <2>9, <2>13, <2>14, <3>3, <4>1
    <3>4. CASE j \notin 1..Len(entries[q]) /\ k \notin 1..Len(entries[q])
      BY <2>9, <3>4
    <3> QED
      BY <3>1, <3>2, <3>3, <3>4
  <2>15. EntriesOK(q)'
    BY <2>2, <2>12, <2>14 DEF EntriesOK
  <2> QED
    BY <2>11, <2>15
<1>4. CASE WriteOrder(q)
  <2>1. /\ pc[q] = "open" /\ turn[q] = Len(call[q].lines)
        /\ pc'[q] = "written" /\ call'[q] = call[q] /\ turn'[q] = turn[q]
        /\ draft'[q] = draft[q] /\ entries'[q] = Append(entries[q], OrderEntry(q))
    BY <1>4 DEF WriteOrder, AtOrder, TypeOK
  <2>2. Decided(q)
    BY <2>1 DEF TransactionsOK, InTransaction
  <2>3. OrderEntry(q).field # "confirmedQty"
    BY DEF OrderEntry
  <2>4. PICK es \in Seq(AuditEntry), e \in AuditEntry : es = entries[q] /\ e = OrderEntry(q)
    BY <2>2, OrderEntryIsEntry DEF TypeOK
  <2>5. /\ Len(Append(es, e)) = Len(es) + 1 /\ Append(es, e)[Len(es) + 1] = e
        /\ \A j \in 1..Len(es) : Append(es, e)[j] = es[j]
        /\ Len(es) \in Nat
    OBVIOUS
  <2>6. /\ 1..Len(es) \subseteq 1..Len(entries'[q])
        /\ \A j \in 1..Len(es) : entries'[q][j] = es[j]
        /\ \A j \in 1..Len(entries'[q]) : j \in 1..Len(es) \/ entries'[q][j].field # "confirmedQty"
    <3>1. Len(entries'[q]) = Len(es) + 1 /\ entries'[q][Len(es) + 1] = e
          /\ \A j \in 1..Len(es) : entries'[q][j] = es[j]
      BY <2>1, <2>4, <2>5
    <3>2. \A j \in 1..Len(entries'[q]) : j \in 1..Len(es) \/ j = Len(es) + 1
      BY <2>5, <3>1
    <3>3. 1..Len(es) \subseteq 1..Len(entries'[q])
      BY <2>5, <3>1
    <3> QED
      BY <2>3, <2>4, <3>1, <3>2, <3>3
  <2>7. DraftOK(q)'
    BY <2>1, <2>4, <2>6 DEF DraftOK, InTransaction
  <2>8. EntriesOK(q)'
    <3>1. \A j \in 1..Len(entries'[q]) : entries'[q][j].field = "confirmedQty" =>
            j \in 1..Len(es) /\ entries'[q][j] = es[j]
      BY <2>6
    <3> QED
      BY <2>1, <2>4, <3>1 DEF EntriesOK, InTransaction
  <2> QED
    BY <2>7, <2>8
<1>5. CASE Commit(q)
  <2>1. pc'[q] \in {"committed", "done"}
    BY <1>5 DEF Commit, TypeOK
  <2> QED
    BY <2>1 DEF DraftOK, EntriesOK, InTransaction
<1>6. CASE pc'[q] \in {"refused", "aborted", "done"}
  BY <1>6 DEF DraftOK, EntriesOK, InTransaction
<1> QED
  BY <1>1, <1>2, <1>3, <1>4, <1>5, <1>6, OwnStep

\* An order outside Orders is never written.
LEMMA OutsideStatuses ==
  ASSUME TypeOK, NEW o, o \notin Orders
  PROVE  StatusesOf(o) = {"SUBMITTED"}
<1>1. ASSUME NEW i \in 1..Len(audit), audit[i].field = "status"
      PROVE  audit[i].on \in Orders
  <2>1. audit[i] \in AuditEntry
    BY DEF TypeOK
  <2> QED
    BY <1>1, <2>1 DEF AuditEntry
<1>2. EntriesOf("status", o) = {}
  BY <1>1 DEF EntriesOf
<1> QED
  BY <1>2 DEF StatusesOf

\* An order is confirmed by the commit of a confirmation and in no other way.
LEMMA ConfirmedStatus ==
  ASSUME Inv, Inv', NEW r \in Requests, Commit(r), NEW o
  PROVE  "CONFIRMED" \in StatusesOf(o)' <=>
           "CONFIRMED" \in StatusesOf(o) \/ (call[r].op = "confirm" /\ o = call[r].order)
<1>1. call[r] \in Calls /\ call[r].order \in Orders
  BY CommitFacts DEF Decided
<1>2. CASE o \notin Orders
  <2>1. "CONFIRMED" \notin StatusesOf(o)
    BY <1>2, OutsideStatuses DEF Inv
  <2>2. ASSUME NEW i \in 1..Len(audit'), audit'[i].field = "status"
        PROVE  audit'[i].on # o
    <3>1. audit'[i] \in AuditEntry
      BY DEF Inv, TypeOK
    <3> QED
      BY <1>2, <2>2, <3>1 DEF AuditEntry
  <2>3. "CONFIRMED" \notin StatusesOf(o)'
    BY <2>2 DEF StatusesOf, EntriesOf
  <2> QED
    BY <1>1, <1>2, <2>1, <2>3
<1>3. CASE o \in Orders
  <2>1. StatusesOf(o)' = StatusesOf(o) \cup
           (IF o = call[r].order /\ call[r].op # "assign" THEN {call[r].to} ELSE {})
    BY <1>3, CommitStatuses
  <2>2. call[r].op # "assign" => (call[r].to = "CONFIRMED" <=> call[r].op = "confirm")
    BY <1>1, CallFacts DEF AdvanceableOrderStatus
  <2>3. call[r].op = "confirm" => call[r].op # "assign"
    OBVIOUS
  <2> QED
    BY <2>1, <2>2, <2>3
<1> QED
  BY <1>2, <1>3

\* And then its lines are decided, all by that confirmation.
LEMMA QuantitiesStep ==
  ASSUME Inv, Inv', [Next]_vars, \A r \in Requests : DraftOK(r), QuantitiesDecided
  PROVE  QuantitiesDecided'
<1>1. CASE ~(\E r \in Requests : Commit(r))
  BY <1>1, OnlyCommitsWrite DEF QuantitiesDecided, StatusesOf, EntriesOf
<1>2. ASSUME NEW r \in Requests, Commit(r), NEW l \in Lines, NEW o, o = orderOf[l]
      PROVE  /\ line'[l].confirmedQty # NULL <=> "CONFIRMED" \in StatusesOf(o)'
             /\ line'[l].confirmedQty # NULL => line'[l].confirmedQty \in 0..requestedQty[l]
             /\ line'[l].unavailableReason <=> line'[l].confirmedQty = 0
  <2>1. "CONFIRMED" \in StatusesOf(o)' <=>
           "CONFIRMED" \in StatusesOf(o) \/ (call[r].op = "confirm" /\ o = call[r].order)
    BY <1>2, ConfirmedStatus
  <2>2. CASE call[r].op = "confirm" /\ o = call[r].order
    <3>1. PICK i \in 1..Len(call[r].lines) : call[r].lines[i].line = l
      BY <1>2, <2>2, CommitLines DEF LinesOf
    <3>2. PICK in \in LineInput :
            /\ in.line = l /\ LineAccepted(call[r].order, in) /\ line'[l] = LineVersion(in)
      BY <1>2, <2>2, <3>1, CommitLines
    <3>3. /\ in.qty \in Int /\ in.qty >= 0 /\ in.qty <= requestedQty[l] /\ requestedQty[l] \in Nat \ {0}
          /\ in.qty # requestedQty[l] => in.reason
          /\ in.reason \in BOOLEAN
      BY <3>2 DEF LineAccepted, LineInput, Changed
    <3>4. in.qty # NULL
      BY <3>3
    <3>5. in.qty = 0 => in.reason
      BY <3>3
    <3>6. line'[l].confirmedQty = in.qty /\ line'[l].unavailableReason = (in.qty = 0 /\ in.reason)
      BY <3>2 DEF LineVersion
    <3>7. line'[l].unavailableReason <=> in.qty = 0
      BY <3>5, <3>6
    <3>8. in.qty \in 0..requestedQty[l]
      BY <3>3
    <3> QED
      BY <2>1, <2>2, <3>4, <3>6, <3>7, <3>8
  <2>3. CASE ~(call[r].op = "confirm" /\ o = call[r].order)
    <3>1. line'[l] = line[l]
      BY <1>2, <2>3, CommitLines DEF LinesOf
    <3> QED
      BY <1>2, <2>1, <2>3, <3>1 DEF QuantitiesDecided
  <2> QED
    BY <2>2, <2>3
<1> QED
  BY <1>1, <1>2 DEF QuantitiesDecided, StatusesOf, EntriesOf

\* The lines of an order change with all of them, to those of one confirmation.
LEMMA ConfirmedByStep ==
  ASSUME Inv, Inv', [Next]_vars, \A r \in Requests : DraftOK(r), NEW o \in Orders,
         "CONFIRMED" \in StatusesOf(o) => \E r \in Requests : ConfirmedBy(o, r),
         "CONFIRMED" \in StatusesOf(o)'
  PROVE  \E r \in Requests : ConfirmedBy(o, r)'
<1>1. ASSUME NEW q \in Requests, ConfirmedBy(o, q),
             \A l \in LinesOf(o) : line'[l] = line[l]
      PROVE  ConfirmedBy(o, q)'
  <2>1. pc'[q] \in {"committed", "done"} /\ call'[q] = call[q]
    BY <1>1, CommittedStays DEF ConfirmedBy
  <2> QED
    BY <1>1, <2>1 DEF ConfirmedBy
<1>2. CASE ~(\E r \in Requests : Commit(r))
  <2>1. line' = line /\ StatusesOf(o)' = StatusesOf(o)
    BY <1>2, OnlyCommitsWrite DEF StatusesOf, EntriesOf
  <2> QED
    BY <1>1, <2>1
<1>3. ASSUME NEW r \in Requests, Commit(r)
      PROVE  \E q \in Requests : ConfirmedBy(o, q)'
  <2>1. CASE call[r].op = "confirm" /\ o = call[r].order
    <3>1. pc'[r] \in {"committed", "done"} /\ call'[r] = call[r] /\ call[r] \in Calls
      BY <1>3, CommitFacts DEF Commit, Inv, TypeOK, Decided
    <3>2. ASSUME NEW i \in 1..Len(call[r].lines)
          PROVE  /\ call[r].lines[i].line \in LinesOf(o)
                 /\ line'[call[r].lines[i].line] = LineVersion(call[r].lines[i])
      BY <1>3, <2>1, CommitLines DEF LineAccepted
    <3> QED
      BY <2>1, <3>1, <3>2 DEF ConfirmedBy
  <2>2. CASE ~(call[r].op = "confirm" /\ o = call[r].order)
    <3>1. "CONFIRMED" \in StatusesOf(o)
      BY <1>3, <2>2, ConfirmedStatus
    <3>2. \A l \in LinesOf(o) : line'[l] = line[l]
      BY <1>3, <2>2, CommitLines DEF LinesOf
    <3> QED
      BY <1>1, <3>1, <3>2
  <2> QED
    BY <2>1, <2>2
<1> QED
  BY <1>2, <1>3

\* What it took away is in the log from then on.
LEMMA ReductionStep ==
  ASSUME Inv, [Next]_vars, \A r \in Requests : DraftOK(r), ReductionAudited
  PROVE  ReductionAudited'
<1> SUFFICES ASSUME NEW l \in Lines, line'[l].confirmedQty \notin {NULL, requestedQty[l]}
             PROVE  \E i \in EntriesOf("confirmedQty", l)' :
                      audit'[i].new = line'[l].confirmedQty /\ audit'[i].old = requestedQty[l]
  BY DEF ReductionAudited, EntriesOf
<1>1. CASE line'[l] = line[l]
  <2>1. PICK i \in EntriesOf("confirmedQty", l) :
               audit[i].new = line[l].confirmedQty /\ audit[i].old = requestedQty[l]
    BY <1>1 DEF ReductionAudited
  <2> QED
    BY <1>1, <2>1, EntryKept
<1>2. CASE line'[l] # line[l]
  <2>1. PICK r \in Requests : Commit(r)
    BY <1>2, OnlyCommitsWrite
  <2>2. call[r].op = "confirm" /\ l \in LinesOf(call[r].order)
    BY <1>2, <2>1, CommitLines
  <2>a. \A k \in LinesOf(call[r].order) :
          \E i \in 1..Len(call[r].lines) : call[r].lines[i].line = k
    BY <2>1, <2>2, CommitLines
  <2>3. PICK i \in 1..Len(call[r].lines) : call[r].lines[i].line = l
    BY <2>2, <2>a
  <2>4. PICK in : in = call[r].lines[i] /\ in.line = l
    BY <2>3
  <2>5. /\ line'[l] = LineVersion(in)
        /\ Changed(in) => \E j \in 1..Len(entries[r]) : entries[r][j] = LineEntry(r, in)
    BY <2>1, <2>2, <2>4, CommitLines
  <2>6. line'[l].confirmedQty = in.qty
    BY <2>5 DEF LineVersion
  <2>7. Changed(in)
    BY <2>4, <2>6 DEF Changed
  <2>8. PICK j \in 1..Len(entries[r]) : entries[r][j] = LineEntry(r, in)
    BY <2>5, <2>7
  <2>9. PICK k : k = Len(audit) + j
    OBVIOUS
  <2>10. audit'[k] = LineEntry(r, in) /\ k \in 1..Len(audit')
    BY <2>1, <2>8, <2>9, CommitAudit
  <2>11. k \in EntriesOf("confirmedQty", l)'
    BY <2>4, <2>10 DEF EntriesOf, LineEntry
  <2>12. audit'[k].new = in.qty /\ audit'[k].old = requestedQty[l]
    BY <2>4, <2>10 DEF LineEntry
  <2> QED
    BY <2>6, <2>11, <2>12
<1> QED
  BY <1>1, <1>2

\* A confirmed order does not become SUBMITTED again, unless a request that
\* read it before overwrites it.
LEMMA NeverBackStep ==
  ASSUME Inv, Inv', [Next]_vars, NeverBack
  PROVE  NeverBack'
<1> SUFFICES ASSUME ~overlapped', NEW o \in Orders, "CONFIRMED" \in StatusesOf(o)'
             PROVE  order'[o].status # "SUBMITTED"
  BY DEF NeverBack, StatusesOf, EntriesOf
<1>1. ~overlapped
  BY OverlapStep DEF Inv, TypeOK
<1>2. CASE ~(\E r \in Requests : Commit(r))
  <2>1. order' = order /\ StatusesOf(o)' = StatusesOf(o)
    BY <1>2, OnlyCommitsWrite DEF StatusesOf, EntriesOf
  <2> QED
    BY <1>1, <2>1 DEF NeverBack
<1>3. ASSUME NEW r \in Requests, Commit(r)
      PROVE  order'[o].status # "SUBMITTED"
  <2>1. CASE o = call[r].order /\ call[r].op # "assign"
    <3>1. order'[o].status = call[r].to /\ call[r] \in Calls
      BY <1>3, <2>1, CommitFacts DEF Decided
    <3> QED
      BY <2>1, <3>1, CallFacts DEF AdvanceableOrderStatus
  <2>2. CASE ~(o = call[r].order /\ call[r].op # "assign")
    <3>1. order'[o].status = order[o].status
      BY <1>3, <2>2, CommitFacts
    <3>2. "CONFIRMED" \in StatusesOf(o)
      BY <1>3, <2>2, ConfirmedStatus
    <3> QED
      BY <1>1, <3>1, <3>2 DEF NeverBack
  <2> QED
    BY <2>1, <2>2
<1> QED
  BY <1>2, <1>3

\* The new entries of a commit about quantities are of its changed inputs.
LEMMA NewLineEntries ==
  ASSUME Inv, NEW r \in Requests, Commit(r), DraftOK(r), EntriesOK(r),
         NEW k \in 1..Len(audit'), k \notin 1..Len(audit), audit'[k].field = "confirmedQty"
  PROVE  /\ call[r].op = "confirm"
         /\ audit'[k].on \in LinesOf(call[r].order)
         /\ \E i \in 1..Len(call[r].lines) :
              Changed(call[r].lines[i]) /\ audit'[k] = LineEntry(r, call[r].lines[i])
<1>1. PICK j \in 1..Len(entries[r]) : k = Len(audit) + j
  BY CommitAudit
<1>2. audit'[k] = entries[r][j] /\ entries[r][j].field = "confirmedQty"
  BY <1>1, CommitAudit
<1>3. /\ turn[r] = Len(call[r].lines)
      /\ \E i \in 1..turn[r] : Changed(call[r].lines[i]) /\ entries[r][j] = LineEntry(r, call[r].lines[i])
  BY <1>2 DEF DraftOK, EntriesOK, Commit, InTransaction
<1>4. PICK i \in 1..Len(call[r].lines) :
        Changed(call[r].lines[i]) /\ audit'[k] = LineEntry(r, call[r].lines[i])
  BY <1>2, <1>3
<1>5. call[r] \in Calls /\ call[r].op = "confirm"
  BY <1>4, CommitFacts, CallFacts DEF Decided
<1>6. LineAccepted(call[r].order, call[r].lines[i])
  BY <1>5, CommitLines
<1>7. audit'[k].on \in LinesOf(call[r].order)
  BY <1>4, <1>6 DEF LineAccepted, LineEntry
<1> QED
  BY <1>4, <1>5, <1>7

\* Only a confirmation leaves entries of quantities, about its order's lines.
LEMMA OnlyToldStep ==
  ASSUME Inv, Inv', [Next]_vars, \A r \in Requests : DraftOK(r) /\ EntriesOK(r),
         OnlyConfirmedTold
  PROVE  OnlyConfirmedTold'
<1> SUFFICES ASSUME NEW l \in Lines, NEW i \in EntriesOf("confirmedQty", l)', NEW o, o = orderOf[l]
             PROVE  "CONFIRMED" \in StatusesOf(o)'
  BY DEF OnlyConfirmedTold, StatusesOf, EntriesOf
<1>1. CASE ~(\E r \in Requests : Commit(r))
  BY <1>1, OnlyCommitsWrite DEF OnlyConfirmedTold, StatusesOf, EntriesOf
<1>2. ASSUME NEW r \in Requests, Commit(r)
      PROVE  "CONFIRMED" \in StatusesOf(o)'
  <2>1. i \in 1..Len(audit') /\ audit'[i].field = "confirmedQty" /\ audit'[i].on = l
    BY DEF EntriesOf
  <2>2. CASE i \in 1..Len(audit)
    <3>1. i \in EntriesOf("confirmedQty", l)
      BY <1>2, <2>1, <2>2, CommitAudit DEF EntriesOf
    <3> QED
      BY <1>2, <3>1, ConfirmedStatus DEF OnlyConfirmedTold
  <2>3. CASE i \notin 1..Len(audit)
    <3>1. call[r].op = "confirm" /\ l \in LinesOf(call[r].order)
      BY <1>2, <2>1, <2>3, NewLineEntries
    <3> QED
      BY <1>2, <3>1, ConfirmedStatus DEF LinesOf
  <2> QED
    BY <2>2, <2>3
<1> QED
  BY <1>1, <1>2

\* The entries that were there are the earlier part of those that are.
LEMMA EarlierEntries ==
  ASSUME Inv, [Next]_vars, NEW f, NEW x
  PROVE  /\ EntriesOf(f, x) \subseteq EntriesOf(f, x)'
         /\ \A i \in EntriesOf(f, x) : i \in Int /\ audit'[i] = audit[i]
         /\ \A i \in EntriesOf(f, x)' \ EntriesOf(f, x) :
              /\ i \in Int /\ i \notin 1..Len(audit)
              /\ \A j \in EntriesOf(f, x) : j < i
<1>1. EntriesOf(f, x) \subseteq 1..Len(audit) /\ EntriesOf(f, x)' \subseteq 1..Len(audit')
  BY DEF EntriesOf
<1>2. CASE ~(\E r \in Requests : Commit(r))
  BY <1>1, <1>2, OnlyCommitsWrite DEF EntriesOf
<1>3. ASSUME NEW r \in Requests, Commit(r), NEW i \in EntriesOf(f, x)', i \notin EntriesOf(f, x)
      PROVE  i \notin 1..Len(audit) /\ \A j \in EntriesOf(f, x) : j < i
  <2>1. i \notin 1..Len(audit)
    BY <1>3, CommitAudit DEF EntriesOf
  <2>2. Len(audit) \in Nat /\ i \in Nat /\ i > Len(audit)
    BY <1>1, <1>3, <2>1, CommitAppends
  <2> QED
    BY <1>1, <2>1, <2>2
<1> QED
  BY <1>1, <1>2, <1>3, EntryKept

\* A transaction that ran alone read what its UPDATE replaced, and the log's
\* last entry tells that.
LEMMA BeforeAfterStep ==
  ASSUME Inv, [Next]_vars, AuditTellsBeforeAndAfter
  PROVE  AuditTellsBeforeAndAfter'
<1> SUFFICES ASSUME ~overlapped', NEW o \in Orders, NEW f \in {"status", "assignedDriver"},
                    NEW i \in EntriesOf(f, o)',
                    NEW B, B = {j \in EntriesOf(f, o)' : j < i}
             PROVE  IF B = {} THEN audit'[i].old = NewOrder[f]
                    ELSE \E j \in B : audit'[j].new = audit'[i].old /\ \A k \in B : k <= j
  <2>1. ASSUME ~overlapped', NEW o \in Orders, NEW f \in {"status", "assignedDriver"},
               NEW i \in EntriesOf(f, o)'
        PROVE  LET B == {j \in EntriesOf(f, o)' : j < i} IN
               IF B = {} THEN audit'[i].old = NewOrder[f]
               ELSE \E j \in B : audit'[j].new = audit'[i].old /\ \A k \in B : k <= j
    <3>1. PICK B : B = {j \in EntriesOf(f, o)' : j < i}
      OBVIOUS
    <3>2. IF B = {} THEN audit'[i].old = NewOrder[f]
          ELSE \E j \in B : audit'[j].new = audit'[i].old /\ \A k \in B : k <= j
      BY <2>1, <3>1
    <3> QED
      BY <3>1, <3>2
  <2> QED
    BY <2>1 DEF AuditTellsBeforeAndAfter, EntriesOf
<1>1. ~overlapped
  BY OverlapStep DEF Inv, TypeOK
<1>2. CASE i \in EntriesOf(f, o)
  <2>1. B = {j \in EntriesOf(f, o) : j < i}
    BY <1>2, EarlierEntries
  <2>2. IF B = {} THEN audit[i].old = NewOrder[f]
        ELSE \E j \in B : audit[j].new = audit[i].old /\ \A k \in B : k <= j
    BY <1>1, <1>2, <2>1 DEF AuditTellsBeforeAndAfter
  <2>3. audit'[i] = audit[i] /\ \A j \in B : audit'[j] = audit[j]
    BY <1>2, <2>1, EarlierEntries
  <2> QED
    BY <2>2, <2>3
<1>3. CASE i \notin EntriesOf(f, o)
  <2>1. PICK r \in Requests : Commit(r)
    BY <1>3, OnlyCommitsWrite DEF EntriesOf
  <2>2. /\ i = Len(audit') /\ OrderEntry(r).field = f /\ OrderEntry(r).on = o
        /\ audit'[i] = OrderEntry(r)
    BY <1>3, <2>1, CommitEntries, CommitAppends
  <2>3. o = call[r].order /\ seen[r] = order[o]
    BY <1>1, <2>1, <2>2, CommitFacts DEF Inv, ReadsAreCurrent, Commit, InTransaction
  <2>4. audit'[i].old = order[o][f]
    BY <2>2, <2>3 DEF OrderEntry
  <2>5. LastAudited(f, o, NewOrder[f], order[o][f])
    BY DEF Inv, RowIsLastAudited, NewOrder
  <2>6. B = EntriesOf(f, o)
    BY <1>3, <2>1, <2>2, CommitEntries, EarlierEntries
  <2>7. \A j \in B : audit'[j] = audit[j]
    BY <2>6, EarlierEntries
  <2> QED
    BY <2>4, <2>5, <2>6, <2>7 DEF LastAudited
<1> QED
  BY <1>2, <1>3

\* A confirmation that ran alone is its order's first, and leaves one entry of
\* each line whose quantity it changed.
LEMMA QuantityToldStep ==
  ASSUME Inv, [Next]_vars, \A r \in Requests : DraftOK(r) /\ EntriesOK(r),
         NeverBack, OnlyConfirmedTold, AuditTellsQuantity
  PROVE  AuditTellsQuantity'
<1> SUFFICES ASSUME ~overlapped', NEW l \in Lines, line'[l].confirmedQty # NULL,
                    NEW E, E = EntriesOf("confirmedQty", l)'
             PROVE  IF E = {} THEN line'[l].confirmedQty = requestedQty[l]
                    ELSE \E i \in E : audit'[i].new = line'[l].confirmedQty /\ \A j \in E : j <= i
  <2>1. ASSUME ~overlapped', NEW l \in Lines, line'[l].confirmedQty # NULL
        PROVE  LET E == EntriesOf("confirmedQty", l)' IN
               IF E = {} THEN line'[l].confirmedQty = requestedQty[l]
               ELSE \E i \in E : audit'[i].new = line'[l].confirmedQty /\ \A j \in E : j <= i
    BY <2>1
  <2> QED
    BY <2>1 DEF AuditTellsQuantity, LastAudited, EntriesOf
<1> DEFINE E0 == EntriesOf("confirmedQty", l)
<1>1. ~overlapped
  BY OverlapStep DEF Inv, TypeOK
<1>2. /\ E0 \subseteq E /\ \A i \in E0 : audit'[i] = audit[i]
      /\ \A i \in E : i \in E0 \/ (i \in 1..Len(audit') /\ i \notin 1..Len(audit))
      /\ \A i \in E : i \in Int /\ audit'[i].field = "confirmedQty" /\ audit'[i].on = l
  <2>1. EntriesOf("confirmedQty", l) \subseteq E
        /\ \A i \in EntriesOf("confirmedQty", l) : audit'[i] = audit[i]
    BY EarlierEntries
  <2>2. \A i \in E : i \in EntriesOf("confirmedQty", l) \/ i \notin 1..Len(audit)
    BY EarlierEntries
  <2>3. \A i \in E : i \in 1..Len(audit') /\ i \in Int /\ audit'[i].field = "confirmedQty"
                   /\ audit'[i].on = l
    BY DEF EntriesOf
  <2> QED
    BY <2>1, <2>2, <2>3
<1>3. CASE line'[l] = line[l] /\ E \subseteq E0
  <2>1. LastAudited("confirmedQty", l, requestedQty[l], line[l].confirmedQty)
    BY <1>1, <1>3 DEF AuditTellsQuantity
  <2>2. E = E0
    BY <1>2, <1>3
  <2> QED
    BY <1>2, <1>3, <2>1, <2>2 DEF LastAudited
<1>4. CASE ~(\E r \in Requests : Commit(r))
  <2>1. line' = line /\ E = E0
    BY <1>4, OnlyCommitsWrite DEF EntriesOf
  <2> QED
    BY <1>3, <2>1
<1>5. ASSUME NEW r \in Requests, Commit(r), ~(call[r].op = "confirm" /\ l \in LinesOf(call[r].order))
      PROVE  line'[l] = line[l] /\ E \subseteq E0
  <2>1. line'[l] = line[l]
    BY <1>5, CommitLines
  <2>2. ASSUME NEW i \in E, i \notin E0  PROVE FALSE
    <3> HIDE DEF E0
    <3> QED
      BY <1>2, <1>5, <2>2, NewLineEntries
  <2> QED
    BY <2>1, <2>2
<1>6. ASSUME NEW r \in Requests, Commit(r), call[r].op = "confirm", l \in LinesOf(call[r].order)
      PROVE  IF E = {} THEN line'[l].confirmedQty = requestedQty[l]
             ELSE \E i \in E : audit'[i].new = line'[l].confirmedQty /\ \A j \in E : j <= i
  <2>1. call[r] \in Calls /\ call[r].order = orderOf[l] /\ call[r].order \in Orders
    BY <1>6, CommitFacts DEF Decided, LinesOf
  <2>2. seen[r] = order[orderOf[l]] /\ isValidOrderTransition(seen[r].status, "CONFIRMED")
    <3>1. seen[r] = order[call[r].order]
      BY <1>1, <1>6 DEF Inv, ReadsAreCurrent, Commit, InTransaction
    <3>2. call[r].to = "CONFIRMED" /\ call[r].op # "assign"
      BY <1>6, <2>1, CallFacts
    <3>3. isValidOrderTransition(seen[r].status, call[r].to)
      BY <1>6, <3>2, CommitFacts
    <3> QED
      BY <2>1, <3>1, <3>2, <3>3
  <2>3. seen[r] \in OrderRow
    BY <1>6, CommitFacts DEF Decided
  <2>4. order[orderOf[l]].status = "SUBMITTED"
    BY <2>2, <2>3 DEF isValidOrderTransition, ORDER_STATUS_TRANSITIONS, OrderRow, OrderStatus
  <2>5. E0 = {}
    BY <1>1, <2>1, <2>4 DEF NeverBack, OnlyConfirmedTold
  <2>6. \A k \in LinesOf(call[r].order) :
          \E i \in 1..Len(call[r].lines) : call[r].lines[i].line = k
    BY <1>6, CommitLines
  <2>7. PICK i \in 1..Len(call[r].lines) : call[r].lines[i].line = l
    BY <1>6, <2>6
  <2>8. PICK in : in = call[r].lines[i] /\ in.line = l
    BY <2>7
  <2>9. /\ line'[l] = LineVersion(in)
        /\ Changed(in) => \E j \in 1..Len(entries[r]) : entries[r][j] = LineEntry(r, in)
    BY <1>6, <2>8, CommitLines
  <2>10. line'[l].confirmedQty = in.qty
    BY <2>9 DEF LineVersion
  <2>11. \A h \in 1..Len(call[r].lines) : call[r].lines[h].line = l => h = i
    BY <1>6, <2>1, <2>7, CallFacts
  <2> HIDE DEF E0
  <2>12. ASSUME NEW k \in E  PROVE Changed(in) /\ audit'[k] = LineEntry(r, in)
    <3>1. k \in 1..Len(audit') /\ k \notin 1..Len(audit)
          /\ audit'[k].field = "confirmedQty" /\ audit'[k].on = l
      BY <1>2, <2>5, <2>12
    <3>2. PICK h \in 1..Len(call[r].lines) :
            Changed(call[r].lines[h]) /\ audit'[k] = LineEntry(r, call[r].lines[h])
      BY <1>6, <3>1, NewLineEntries
    <3>3. call[r].lines[h].line = l
      BY <3>1, <3>2 DEF LineEntry
    <3> QED
      BY <2>8, <2>11, <3>2, <3>3
  <2>13. CASE ~Changed(in)
    BY <2>8, <2>10, <2>12, <2>13 DEF Changed
  <2>14. CASE Changed(in)
    <3>1. PICK j \in 1..Len(entries[r]) : entries[r][j] = LineEntry(r, in)
      BY <2>9, <2>14
    <3>2. PICK k : k = Len(audit) + j
      OBVIOUS
    <3>3. audit'[k] = LineEntry(r, in) /\ k \in 1..Len(audit')
      BY <1>6, <3>1, <3>2, CommitAudit
    <3>4. k \in E
      BY <2>8, <3>3 DEF EntriesOf, LineEntry
    <3>5. ASSUME NEW m \in E  PROVE m = k
      <4>1. audit'[m] = LineEntry(r, in) /\ m \in 1..Len(audit') /\ m \notin 1..Len(audit)
        BY <1>2, <2>5, <2>12, <3>5
      <4>2. PICK h \in 1..Len(entries[r]) : m = Len(audit) + h
        BY <1>6, <4>1, CommitAudit
      <4>3. entries[r][h] = LineEntry(r, in)
        BY <1>6, <4>1, <4>2, CommitAudit
      <4>4. h = j
        <5>1. \A a, b \in 1..Len(entries[r]) :
                /\ entries[r][a].field = "confirmedQty" /\ entries[r][b].field = "confirmedQty"
                /\ entries[r][a].on = entries[r][b].on
                => a = b
          BY <1>6 DEF EntriesOK, Commit, InTransaction
        <5>2. entries[r][h].field = "confirmedQty" /\ entries[r][h] = entries[r][j]
          BY <3>1, <4>3 DEF LineEntry
        <5> QED
          BY <5>1, <5>2
      <4> QED
        BY <3>2, <4>2, <4>4
    <3>6. audit'[k].new = in.qty
      BY <3>3 DEF LineEntry
    <3>7. k \in Int
      BY <1>2, <3>4
    <3>8. \A m \in E : m <= k
      BY <3>5, <3>7
    <3> QED
      BY <2>10, <3>4, <3>6, <3>8
  <2> QED
    BY <2>13, <2>14
<1> QED
  BY <1>3, <1>4, <1>5, <1>6

\* What the services' transactions write, and what the audit log then tells, is
\* as their inputs say in every state.
THEOREM WritesHold == Spec => []WritesOK
<1>1. Inv /\ Inv' /\ WritesOK /\ [Next]_vars => WritesOK'
  <2> SUFFICES ASSUME Inv, Inv', WritesOK, [Next]_vars  PROVE WritesOK'
    OBVIOUS
  <2>1. \A r \in Requests : Announceable(r) /\ DraftOK(r) /\ EntriesOK(r)
    BY DEF WritesOK
  <2>2. \A r \in Requests : Announceable(r)' /\ DraftOK(r)' /\ EntriesOK(r)'
    BY <2>1, AnnounceableStep, DraftStep
  <2>3. EventsCommitted'
    BY <2>1, EventsStep DEF WritesOK
  <2>4. QuantitiesDecided' /\ ReductionAudited'
    BY <2>1, QuantitiesStep, ReductionStep DEF WritesOK
  <2>5. ASSUME NEW o \in Orders, "CONFIRMED" \in StatusesOf(o)'
        PROVE  \E r \in Requests : ConfirmedBy(o, r)'
    BY <2>1, <2>5, ConfirmedByStep DEF WritesOK
  <2>6. NeverBack' /\ OnlyConfirmedTold'
    BY <2>1, NeverBackStep, OnlyToldStep DEF WritesOK
  <2>7. AuditTellsBeforeAndAfter' /\ AuditTellsQuantity'
    BY <2>1, BeforeAfterStep, QuantityToldStep DEF WritesOK
  <2> QED
    BY <2>2, <2>3, <2>4, <2>5, <2>6, <2>7 DEF WritesOK
<1> QED
  BY InitWrites, InvHolds, <1>1, PTL DEF Spec

\* publishOrderEvent only announces a status that its own request committed,
\* whatever was lost or rolled back meanwhile.
THEOREM EventsAreCommitted == Spec => []EventsCommitted
<1>1. WritesOK => EventsCommitted
  BY DEF WritesOK
<1> QED
  BY WritesHold, <1>1, PTL

\* Two confirmations of one order, even interleaved line by line, leave it with
\* the quantities of one of them, all in range, and each reduction audited.
THEOREM QuantitiesConfirmed == Spec => []ConfirmedQuantities
<1>1. WritesOK => ConfirmedQuantities
  <2>1. ASSUME NEW o, NEW r, ConfirmedBy(o, r)
        PROVE  call[r] # NULL
    BY <2>1, NoCallAssumption DEF ConfirmedBy
  <2> QED
    BY <2>1 DEF WritesOK, ConfirmedQuantities, OneConfirmation, ConfirmedBy
<1> QED
  BY WritesHold, <1>1, PTL

\* As long as no two requests overlap, the log's entries chain from one value to
\* the next and tell each line's confirmed quantity.
THEOREM AuditTells == Spec => []AuditTellsChanges
<1>1. WritesOK => AuditTellsChanges
  BY DEF WritesOK, AuditTellsChanges
<1> QED
  BY WritesHold, <1>1, PTL

-----------------------------------------------------------------------------
(* What liveness rests on.  Only an open transaction holds rows, so whoever  *)
(* cannot go on waits for an open one, and where all of them wait some do in *)
(* a circle.                                                                 *)

LocksEnd == \A r \in Requests : DOMAIN draft[r] # {} => InTransaction(r)

LEMMA InitLocks == Init => LocksEnd
  BY DEF Init, LocksEnd, NoRows

LEMMA LocksStep == Inv /\ LocksEnd /\ [Next]_vars => LocksEnd'
<1> SUFFICES ASSUME Inv, LocksEnd, [Next]_vars, NEW r \in Requests, DOMAIN draft'[r] # {}
             PROVE  InTransaction(r)'
  BY DEF LocksEnd
<1>1. TypeOK
  BY DEF Inv
<1>2. ASSUME NEW q \in Requests, RollBack(q) \/ Commit(q) PROVE InTransaction(r)'
  <2>1. /\ DOMAIN draft'[q] = {}
        /\ q # r => draft'[r] = draft[r] /\ pc'[r] = pc[r]
    BY <1>1, <1>2 DEF RollBack, Commit, Released, TypeOK, NoRows
  <2> QED
    BY <2>1 DEF LocksEnd, InTransaction
<1>3. ASSUME NEW q \in Requests, WriteLine(q) PROVE InTransaction(r)'
  <2>1. pc' = pc /\ pc[q] = "open" /\ (q # r => draft'[r] = draft[r])
    BY <1>1, <1>3 DEF WriteLine, AtLine, TypeOK
  <2> QED
    BY <2>1 DEF LocksEnd, InTransaction
<1>4. ASSUME NEW q \in Requests,
             \/ \E c \in Calls : Begin(q, c) \/ Refuse(q, c)
             \/ WriteOrder(q) \/ Publish(q) \/ LoseEvent(q)
      PROVE  InTransaction(r)'
  <2>1. draft' = draft /\ (pc[r] \in {"open", "written"} => pc'[r] \in {"open", "written"})
    BY <1>1, <1>4 DEF Begin, Refuse, WriteOrder, AtOrder, Publish, LoseEvent, TypeOK
  <2> QED
    BY <2>1 DEF LocksEnd, InTransaction
<1>5. CASE UNCHANGED vars
  BY <1>5 DEF vars, LocksEnd, InTransaction
<1> QED
  BY <1>2, <1>3, <1>4, <1>5 DEF Next, Abort, DeadlockVictim, Idle

\* Of B, where each x follows f[x], some follow each other.
FollowEachOther(B, f) ==
  \E C \in SUBSET B :
    /\ C # {}
    /\ \A x \in C : f[x] \in C
    /\ \A y \in C : \E x \in C : f[x] = y

\* Of finitely many, each with one to follow, some follow each other.
LEMMA SomeFollowEachOther ==
  ASSUME NEW B, IsFiniteSet(B), B # {}, NEW f \in [B -> B]
  PROVE  FollowEachOther(B, f)
<1> DEFINE Closed == {C \in SUBSET B : C # {} /\ \A x \in C : f[x] \in C}
<1>1. B \in Closed
  OBVIOUS
<1>2. IsWellFoundedOn(StrictSubsetOrdering(B), SUBSET B)
  BY FS_StrictSubsetOrderingWellFounded, FS_FiniteSubsetsOfFinite
<1>3. Closed \subseteq SUBSET B /\ Closed # {}
  BY <1>1
<1>4. PICK C \in Closed : \A D \in Closed : <<D, C>> \notin StrictSubsetOrdering(B)
  <2> HIDE DEF Closed
  <2> QED
    BY <1>2, <1>3, WFMin
<1> DEFINE D == {f[x] : x \in C}
<1>5. D \in SUBSET C /\ D # {}
  BY <1>4
<1>6. \A y \in D : f[y] \in D
  BY <1>5
<1>7. D \in Closed
  BY <1>4, <1>5, <1>6
<1>8. D = C
  <2>1. <<D, C>> \notin StrictSubsetOrdering(B) /\ D \in SUBSET B /\ C \in SUBSET B
    BY <1>4, <1>7
  <2> HIDE DEF D
  <2> QED
    BY <1>5, <2>1 DEF StrictSubsetOrdering
<1> QED
  BY <1>4, <1>8 DEF FollowEachOther

\* Everybody waits: then somebody is on a circle of those who do.
LEMMA CircleOfWaiting ==
  ASSUME IsFiniteSet(Requests), NEW B \in SUBSET Requests, B # {},
         \A r \in B : \E q \in B : WaitsFor(r, q)
  PROVE  \E r \in B : Deadlocked(r)
<1>1. PICK f \in [B -> B] : \A r \in B : WaitsFor(r, f[r])
  <2> DEFINE g == [r \in B |-> CHOOSE q \in B : WaitsFor(r, q)]
  <2>1. \A r \in B : g[r] \in B /\ WaitsFor(r, g[r])
    OBVIOUS
  <2>2. g \in [B -> B]
    BY <2>1
  <2> QED
    BY <2>1, <2>2
<1>2. IsFiniteSet(B)
  BY FS_Subset
<1>3. FollowEachOther(B, f)
  BY <1>2, SomeFollowEachOther
<1>4. PICK C \in SUBSET B :
        /\ C # {}
        /\ \A x \in C : f[x] \in C
        /\ \A y \in C : \E x \in C : f[x] = y
  BY <1>3 DEF FollowEachOther
<1>5. \A q \in C : (\E p \in C : WaitsFor(q, p)) /\ (\E p \in C : WaitsFor(p, q))
  BY <1>1, <1>4
<1>6. PICK r \in C : TRUE
  BY <1>4
<1>7. Deadlocked(r)
  BY <1>4, <1>5, <1>6 DEF Deadlocked
<1> QED
  BY <1>6, <1>7

LEMMA SomeoneCan ==
  ASSUME IsFiniteSet(Requests), Inv, LocksEnd
  PROVE  SomeRequestGoesOn
<1> DEFINE B == {r \in Requests : InTransaction(r)}
<1> SUFFICES ASSUME B # {}, \A r \in B : ~CanGoOn(r) PROVE FALSE
  BY DEF SomeRequestGoesOn
<1>1. ASSUME NEW r \in B PROVE \E q \in B : WaitsFor(r, q)
  <2>1. pc[r] = "open" /\ Decided(r)
    BY <1>1 DEF CanGoOn, InTransaction, Inv, TransactionsOK
  <2>2. call[r].lines \in Seq(LineInput) /\ turn[r] \in 0..Len(call[r].lines)
    BY <2>1, CallFacts DEF Decided
  <2>3. Len(call[r].lines) \in Nat
    BY <2>2
  <2>4. AtLine(r) \/ AtOrder(r)
    BY <2>1, <2>2, <2>3 DEF AtLine, AtOrder
  <2>5. PICK q \in Requests : WaitsFor(r, q)
    BY <1>1, <2>4 DEF CanGoOn
  <2>6. InTransaction(q)
    BY <2>5 DEF WaitsFor, LocksEnd, InTransaction
  <2> QED
    BY <2>5, <2>6
<1>2. \E r \in B : Deadlocked(r)
  <2> B \in SUBSET Requests
    OBVIOUS
  <2> HIDE DEF B
  <2> QED
    BY <1>1, CircleOfWaiting
<1> QED
  BY <1>2 DEF CanGoOn

\* While transactions are open, one of them can go on: whoever cannot waits for
\* another open one, and a circle of those is one that PostgreSQL breaks.
THEOREM RequestsGoOn ==
  ASSUME IsFiniteSet(Requests)
  PROVE  Spec => []SomeRequestGoesOn
<1>1. Init => LocksEnd
  BY InitLocks
<1>2. Inv /\ LocksEnd => SomeRequestGoesOn
  BY SomeoneCan
<1> QED
  BY <1>1, <1>2, LocksStep, InvHolds, PTL DEF Spec

\* A request that has begun has at most the lines left and three more steps before
\* it, takes one of them with each step of its own, and is never set back.
THEOREM RequestsComeNearer == Spec => RequestsDescend
<1> DEFINE A == \A r \in Requests : pc[r] \in {"open", "written", "committed"} =>
                  /\ StepsLeft(r) \in Nat \ {0}
                  /\ HandlerStep(r) => StepsLeft(r)' < StepsLeft(r)
                  /\ UNCHANGED <<pc[r], call[r], turn[r]>> \/ StepsLeft(r)' < StepsLeft(r)
<1>1. ASSUME Inv, [Next]_vars PROVE A
  <2> SUFFICES ASSUME NEW r \in Requests, pc[r] \in {"open", "written", "committed"}
               PROVE  /\ StepsLeft(r) \in Nat \ {0}
                      /\ HandlerStep(r) => StepsLeft(r)' < StepsLeft(r)
                      /\ UNCHANGED <<pc[r], call[r], turn[r]>> \/ StepsLeft(r)' < StepsLeft(r)
    OBVIOUS
  <2>1. TypeOK
    BY <1>1 DEF Inv
  <2>2. pc[r] = "open" => Len(call[r].lines) \in Nat /\ turn[r] \in 0..Len(call[r].lines)
    <3> SUFFICES ASSUME pc[r] = "open" PROVE Len(call[r].lines) \in Nat /\ turn[r] \in 0..Len(call[r].lines)
      OBVIOUS
    <3>1. Decided(r)
      BY <1>1 DEF Inv, TransactionsOK, InTransaction
    <3>2. call[r].lines \in Seq(LineInput)
      BY <3>1, CallFacts DEF Decided
    <3> QED
      BY <3>1, <3>2 DEF Decided
  <2>3. StepsLeft(r) \in Nat \ {0} /\ (pc[r] \in {"open", "written"} => StepsLeft(r) > 1)
    BY <2>2 DEF StepsLeft
  <2>4. ASSUME WriteLine(r) PROVE StepsLeft(r)' < StepsLeft(r)
    <3>1. pc' = pc /\ call' = call /\ turn'[r] = turn[r] + 1 /\ pc[r] = "open"
      BY <2>1, <2>4 DEF WriteLine, AtLine, TypeOK
    <3> QED
      BY <2>2, <3>1 DEF StepsLeft
  <2>5. ASSUME WriteOrder(r) PROVE StepsLeft(r)' < StepsLeft(r)
    <3>1. pc'[r] = "written" /\ pc[r] = "open" /\ StepsLeft(r)' = 2
      BY <2>1, <2>5 DEF WriteOrder, AtOrder, TypeOK, StepsLeft
    <3> QED
      BY <2>2, <3>1 DEF StepsLeft
  <2>6. ASSUME Commit(r) PROVE StepsLeft(r)' < StepsLeft(r)
    <3>1. pc'[r] \in {"committed", "done"} /\ pc[r] = "written"
      BY <2>1, <2>6 DEF Commit, TypeOK
    <3> QED
      BY <3>1 DEF StepsLeft
  <2>7. ASSUME RollBack(r) \/ Publish(r) \/ LoseEvent(r) PROVE StepsLeft(r)' < StepsLeft(r)
    <3>1. pc'[r] \in {"aborted", "done"}
      BY <2>1, <2>7 DEF RollBack, Publish, LoseEvent, TypeOK
    <3>2. StepsLeft(r)' = 0
      BY <3>1 DEF StepsLeft
    <3> QED
      BY <2>3, <3>2
  <2>8. ASSUME NEW q \in Requests, q # r,
               \/ \E c \in Calls : Begin(q, c) \/ Refuse(q, c)
               \/ WriteLine(q) \/ WriteOrder(q) \/ Commit(q) \/ Publish(q)
               \/ RollBack(q) \/ LoseEvent(q)
        PROVE  pc'[r] = pc[r] /\ call'[r] = call[r] /\ turn'[r] = turn[r]
    BY <2>1, <2>8 DEF TypeOK, Begin, Refuse, WriteLine, WriteOrder, Commit, Publish, RollBack, LoseEvent
  <2>9. ~\E c \in Calls : Begin(r, c) \/ Refuse(r, c)
    BY DEF Begin, Refuse
  <2>10. UNCHANGED vars => UNCHANGED <<pc[r], call[r], turn[r]>>
    BY DEF vars
  <2>11. HandlerStep(r) => StepsLeft(r)' < StepsLeft(r)
    BY <2>4, <2>5, <2>6, <2>7 DEF HandlerStep, DeadlockVictim
  <2>12. UNCHANGED <<pc[r], call[r], turn[r]>> \/ StepsLeft(r)' < StepsLeft(r)
    BY <1>1, <2>4, <2>5, <2>6, <2>7, <2>8, <2>9, <2>10
       DEF Next, Abort, DeadlockVictim, Idle
  <2> QED
    BY <2>3, <2>11, <2>12
<1>2. Inv /\ [Next]_vars => [A]_vars
  BY <1>1
<1> QED
  BY <1>2, InvHolds, PTL DEF Spec, RequestsDescend
=============================================================================
