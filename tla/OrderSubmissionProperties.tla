---------------------- MODULE OrderSubmissionProperties ----------------------
(* What submitOrder guarantees, and one thing its comments say that it does *)
(* not.                                                                     *)
EXTENDS OrderSubmission

Order ==
  [number: Nat \ {0}, by: Requests, customer: Customers, address: Addresses,
   lines: UNION {[us -> Prices] : us \in SUBSET Units}]

Stage ==
  {"idle", "resolving", "numbering", "numbered", "customerOk", "addressOk",
   "inserted", "committed", "placed", "refused", "gaveUp", "failed"}

\* Each variable has its type.
TypeOK ==
  /\ activeCustomer \subseteq Customers
  /\ activeAddress \subseteq Addresses
  /\ orderable \subseteq Units
  /\ price \in [Customers -> [Units -> Prices \cup {NULL}]]
  /\ edits \in Nat
  /\ orders \in Seq(Order)
  /\ announced \subseteq Requests
  /\ pc \in [Requests -> Stage]
  /\ cart \in [Requests -> Carts \cup {NULL}]
  /\ found \in [Requests -> SUBSET Units]
  /\ DOMAIN resolved = Requests
  /\ \A r \in Requests :
       DOMAIN resolved[r] \subseteq Units
       /\ resolved[r] \in [DOMAIN resolved[r] -> Prices \cup {NULL}]
  /\ tried \in [Requests -> Seq(Nat \ {0})]

\* The tenant's orders are numbered 1, 2, 3 ... in the order they commit: no
\* gap after a failed insert and no number twice, from a max() + 1 that is read
\* in a transaction of its own.
NumberedInOrder == \A i \in 1..Len(orders) : orders[i].number = i

OrdersOf(r) == {i \in 1..Len(orders) : orders[i].by = r}

\* A submission that says it placed an order placed exactly one, and one that
\* was refused, gave up or failed placed none; only placed orders are
\* announced (publishOrderEvent).
OneOrderEach ==
  \A r \in Requests :
    /\ pc[r] \in {"committed", "placed"} => Cardinality(OrdersOf(r)) = 1
    /\ pc[r] \notin {"committed", "placed"} => OrdersOf(r) = {}
    /\ r \in announced => OrdersOf(r) # {}

\* Number k of a submission's attempts was lost.
Lost(r, k) ==
  k \in 1..Len(tried[r]) /\ (k < Len(tried[r]) \/ pc[r] \in {"numbering", "gaveUp"})

\* An attempt is lost only to an order that someone else committed, and each to
\* a different one: who gives up after MAX_ORDER_NUMBER_ATTEMPTS was overtaken
\* by that many orders.
LostToOthers ==
  \A r \in Requests : \A k \in 1..Len(tried[r]) : Lost(r, k) =>
    /\ \E i \in 1..Len(orders) : orders[i].number = tried[r][k] /\ orders[i].by # r
    /\ \A j \in 1..(k - 1) : tried[r][j] # tried[r][k]

\* An attempt is repeated only when it has to be, and never after it committed.
AttemptsCounted == OneOrderEach /\ LostToOthers

\* An order has its cart's customer and every line of its cart, with a price,
\* and is delivered to an address of that customer.
OrdersMatchCarts ==
  \A i \in 1..Len(orders) :
    LET o == orders[i] IN
    /\ o.customer = cart[o.by].customer /\ o.customer = addressOf[o.address]
    /\ DOMAIN o.lines = cart[o.by].units
    /\ \A u \in DOMAIN o.lines : o.lines[u] \in Prices

\* Every submission ends: with an order, a refusal, or the error after the last
\* attempt.
SubmissionsEnd == \A r \in Requests : pc[r] = "resolving" ~> Ended(r)

\* A submission can take its next step.
CanGoOn(r) ==
  \/ /\ pc[r] = "resolving"
     /\ \/ DOMAIN resolved[r] = cart[r].units
        \/ \E u \in cart[r].units : u \in found[r] \/ u \notin DOMAIN resolved[r]
  \/ pc[r] = "numbering" /\ Len(tried[r]) <= MAX_ORDER_NUMBER_ATTEMPTS
  \/ pc[r] \in {"numbered", "customerOk", "inserted", "committed"}
  \/ pc[r] = "addressOk" /\ \A q \in Requests : ~WaitsFor(r, q)

\* Under way, a submission can always take its next step, or it waits for another
\* that can and that then leaves its number taken or free.
SubmissionsGoOn ==
  \A r \in Requests : pc[r] # "idle" /\ ~Ended(r) =>
    CanGoOn(r) \/ \E q \in Requests : WaitsFor(r, q) /\ CanGoOn(q)

\* How many transactions a submission's lines need, and how many steps it has
\* before it at most.
TransactionsLeft(r) ==
  2 * Cardinality(cart[r].units \ (found[r] \cup DOMAIN resolved[r])) + Cardinality(found[r])

StepsLeft(r) ==
  IF Ended(r) THEN 0
  ELSE 6 * (MAX_ORDER_NUMBER_ATTEMPTS - Len(tried[r])) +
         CASE pc[r] = "numbering" -> 1
           [] pc[r] = "numbered" -> 6
           [] pc[r] = "customerOk" -> 5
           [] pc[r] = "addressOk" -> 4
           [] pc[r] = "inserted" -> 3
           [] pc[r] = "committed" -> 2
           [] OTHER -> TransactionsLeft(r) + 2

\* A submission comes nearer to its end with each of its steps, the retries after
\* a lost number included, and nobody else's step sets it back.
SubmissionsDescend ==
  [][\A r \in Requests : pc[r] # "idle" /\ ~Ended(r) =>
       /\ StepsLeft(r) \in Nat \ {0}
       /\ Step(r) => StepsLeft(r)' < StepsLeft(r)
       /\ \/ UNCHANGED <<pc[r], cart[r], found[r], resolved[r], tried[r]>>
          \/ StepsLeft(r)' < StepsLeft(r)]_vars

\* Numbering implements a counter.
NumberSpec == INSTANCE OrderNumberSpec WITH
  placed <- [n \in 1..Len(orders) |->
               orders[CHOOSE i \in 1..Len(orders) : orders[i].number = n].by]

ImplementsNumberSpec == NumberSpec!Spec
=============================================================================
