--------------------------- MODULE OrderSubmission ---------------------------
(***************************************************************************)
(* Order submission of one tenant (lib/domain/orders/order-service.ts,     *)
(* submitOrder): concurrent checkouts, by buyers or by the seller on a     *)
(* buyer's behalf, while the seller edits what they are checked against.   *)
(*                                                                         *)
(* A submission runs many transactions.  Each cart line is resolved by two *)
(* (its unit, then its price), all lines at once.  Then, up to             *)
(* MAX_ORDER_NUMBER_ATTEMPTS times, one transaction reads the tenant's     *)
(* largest order number, and another checks the customer and the address   *)
(* and inserts the order.  An insert waits for an uncommitted one of the   *)
(* same number, and fails if that number was committed; only then is the   *)
(* attempt repeated.  The lines are not resolved again.                    *)
(*                                                                         *)
(* A definition named X_Y, before X, is X with a bug.                      *)
(***************************************************************************)
EXTENDS Naturals, Sequences, FiniteSetsExt

CONSTANTS
  Customers, Addresses, Units,
  addressOf,   \* addressOf[a]: the customer of address a
  Prices,      \* what resolveEffectivePrice can return
  Requests,    \* submissions, each made once
  Mixes,       \* which carts are submitted together, mix[r] by r: a bound
  MAX_ORDER_NUMBER_ATTEMPTS,
  MaxEdits,    \* how many edits the seller makes: a bound on the run
  NULL         \* no price, for whatever reason

ASSUME OrderSubmissionAssumption ==
  /\ addressOf \in [Addresses -> Customers]
  /\ MAX_ORDER_NUMBER_ATTEMPTS \in Nat \ {0}
  /\ MaxEdits \in Nat
  /\ NULL \notin Prices

VARIABLES
  \* What the seller edits.
  activeCustomer, \* set of customers with isActive
  activeAddress,  \* set of addresses with isActive
  orderable,      \* units of which a cart's quantity can be ordered
  price,          \* price[c][u]: what resolveEffectivePrice returns
  edits,          \* how many edits there were
  \* What submissions write.
  orders,         \* committed orders, in commit order
  announced,      \* submissions whose SUBMITTED event was published
  \* A submission's own state.
  pc, cart,
  found,          \* found[r]: cart units whose first transaction is over
  resolved,       \* resolved[r]: cart units resolved so far, with their price
  tried           \* tried[r]: the order numbers it took, one per attempt

shop == <<activeCustomer, activeAddress, orderable, price, edits>>
vars == <<shop, orders, announced, pc, cart, found, resolved, tried>>

-----------------------------------------------------------------------------
Carts ==
  [customer: Customers, address: Addresses, units: SUBSET Units \ {{}}]

Nothing == [u \in {} |-> NULL]

Init ==
  /\ activeCustomer = Customers
  /\ activeAddress = Addresses
  /\ orderable = Units
  /\ price \in [Customers -> [Units -> Prices]]
  /\ edits = 0
  /\ orders = <<>>
  /\ announced = {}
  /\ pc = [r \in Requests |-> "idle"]
  /\ cart = [r \in Requests |-> NULL]
  /\ found = [r \in Requests |-> {}]
  /\ resolved = [r \in Requests |-> Nothing]
  /\ tried = [r \in Requests |-> <<>>]

\* The seller, meanwhile: any one flag or price changes.
Edit ==
  /\ edits < MaxEdits
  /\ edits' = edits + 1
  /\ \/ /\ \E c \in Customers : activeCustomer' = SymDiff(activeCustomer, {c})
        /\ UNCHANGED <<activeAddress, orderable, price>>
     \/ /\ \E a \in Addresses : activeAddress' = SymDiff(activeAddress, {a})
        /\ UNCHANGED <<activeCustomer, orderable, price>>
     \/ /\ \E u \in Units : orderable' = SymDiff(orderable, {u})
        /\ UNCHANGED <<activeCustomer, activeAddress, price>>
     \/ /\ \E c \in Customers, u \in Units :
           \E p \in (Prices \cup {NULL}) \ {price[c][u]} :
             price' = [price EXCEPT ![c][u] = p]
        /\ UNCHANGED <<activeCustomer, activeAddress, orderable>>
  /\ UNCHANGED <<orders, announced, pc, cart, found, resolved, tried>>

-----------------------------------------------------------------------------
(* Resolving the cart.                                                     *)

\* The cart has a line (EMPTY_CART otherwise).
Submit(r, c) ==
  /\ pc[r] = "idle"
  /\ pc' = [pc EXCEPT ![r] = "resolving"]
  /\ cart' = [cart EXCEPT ![r] = c]
  /\ \E mix \in Mixes : \A q \in Requests : cart'[q] \in {NULL, mix[q]}
  /\ UNCHANGED <<shop, orders, announced, found, resolved, tried>>

\* resolveEffectivePrice refuses an inactive customer before anything else.
effectivePrice(c, u) == IF c \in activeCustomer THEN price[c][u] ELSE NULL

Resolves(r, u, p) ==
  /\ resolved' = [resolved EXCEPT ![r] = [v \in DOMAIN @ \cup {u} |-> IF v = u THEN p ELSE @[v]]]
  /\ UNCHANGED <<shop, orders, announced, pc, cart, tried>>

\* resolveCartLine's first transaction: the unit, its minimum and increment.
FindUnit(r, u) ==
  /\ pc[r] = "resolving" /\ u \in cart[r].units \ (found[r] \cup DOMAIN resolved[r])
  /\ \/ /\ u \in orderable
        /\ found' = [found EXCEPT ![r] = @ \cup {u}]
        /\ UNCHANGED <<shop, orders, announced, pc, cart, resolved, tried>>
     \/ /\ u \notin orderable
        /\ Resolves(r, u, NULL)
        /\ UNCHANGED found

\* Its second: the price.
PriceUnit(r, u) ==
  /\ pc[r] = "resolving" /\ u \in found[r]
  /\ found' = [found EXCEPT ![r] = @ \ {u}]
  /\ Resolves(r, u, effectivePrice(cart[r].customer, u))

\* All lines resolved, some to no price: LINE_ISSUES, and no order.
RejectCart(r) ==
  /\ pc[r] = "resolving" /\ DOMAIN resolved[r] = cart[r].units
  /\ \E u \in cart[r].units : resolved[r][u] = NULL
  /\ pc' = [pc EXCEPT ![r] = "refused"]
  /\ UNCHANGED <<shop, orders, announced, cart, found, resolved, tried>>

AcceptCart_SomeLine(r) ==
  /\ pc[r] = "resolving" /\ DOMAIN resolved[r] = cart[r].units
  /\ \E u \in cart[r].units : resolved[r][u] # NULL
  /\ pc' = [pc EXCEPT ![r] = "numbering"]
  /\ UNCHANGED <<shop, orders, announced, cart, found, resolved, tried>>
AcceptCart(r) ==
  /\ pc[r] = "resolving" /\ DOMAIN resolved[r] = cart[r].units
  /\ \A u \in cart[r].units : resolved[r][u] # NULL
  /\ pc' = [pc EXCEPT ![r] = "numbering"]
  /\ UNCHANGED <<shop, orders, announced, cart, found, resolved, tried>>

-----------------------------------------------------------------------------
(* Placing the order.                                                      *)

Taken == {orders[i].number : i \in 1..Len(orders)}

NextNumber == IF Taken = {} THEN 1 ELSE Max(Taken) + 1

number(r) == tried[r][Len(tried[r])]

TakeNumber_Once(r) ==
  /\ pc[r] = "numbering"
  /\ pc' = [pc EXCEPT ![r] = "numbered"]
  /\ tried' = [tried EXCEPT ![r] = IF @ = <<>> THEN <<NextNumber>> ELSE @]
  /\ UNCHANGED <<shop, orders, announced, cart, found, resolved>>
\* The attempt's first transaction, of the tenant: max(orderNumber) + 1.
TakeNumber(r) ==
  /\ pc[r] = "numbering" /\ Len(tried[r]) < MAX_ORDER_NUMBER_ATTEMPTS
  /\ pc' = [pc EXCEPT ![r] = "numbered"]
  /\ tried' = [tried EXCEPT ![r] = Append(@, NextNumber)]
  /\ UNCHANGED <<shop, orders, announced, cart, found, resolved>>

\* The loop ends without a result, and submitOrder throws.
GiveUp(r) ==
  /\ pc[r] = "numbering" /\ Len(tried[r]) = MAX_ORDER_NUMBER_ATTEMPTS
  /\ pc' = [pc EXCEPT ![r] = "gaveUp"]
  /\ UNCHANGED <<shop, orders, announced, cart, found, resolved, tried>>

\* Its second transaction, of the customer, whose addresses are all it can
\* see.  Not found is CUSTOMER_INACTIVE or ADDRESS_NOT_FOUND, and no order.
CustomerOk(r) == cart[r].customer \in activeCustomer
AddressOk_OfAnyCustomer(r) == cart[r].address \in activeAddress
AddressOk(r) ==
  cart[r].address \in activeAddress /\ addressOf[cart[r].address] = cart[r].customer

Check(r, from, ok, to) ==
  /\ pc[r] = from
  /\ pc' = [pc EXCEPT ![r] = IF ok THEN to ELSE "refused"]
  /\ UNCHANGED <<shop, orders, announced, cart, found, resolved, tried>>

CheckCustomer(r) == Check(r, "numbered", CustomerOk(r), "customerOk")
CheckAddress(r) == Check(r, "customerOk", AddressOk(r), "addressOk")

\* The insert waits for another transaction's insert of the same number.
WaitsFor(r, q) == q # r /\ pc[q] = "inserted" /\ number(q) = number(r)

\* On a unique violation the transaction is rolled back: CONFLICT.
Insert(r) ==
  /\ pc[r] = "addressOk"
  /\ \A q \in Requests : ~WaitsFor(r, q)
  /\ pc' = [pc EXCEPT ![r] = IF number(r) \in Taken THEN "numbering" ELSE "inserted"]
  /\ UNCHANGED <<shop, orders, announced, cart, found, resolved, tried>>

NewOrder(r) ==
  [number |-> number(r), by |-> r, customer |-> cart[r].customer,
   address |-> cart[r].address, lines |-> resolved[r]]

Commit_ThenConflict(r) ==
  /\ pc[r] = "inserted"
  /\ orders' = Append(orders, NewOrder(r))
  /\ \E next \in {"committed", "numbering"} : pc' = [pc EXCEPT ![r] = next]
  /\ UNCHANGED <<shop, announced, cart, found, resolved, tried>>
Commit(r) ==
  /\ pc[r] = "inserted"
  /\ orders' = Append(orders, NewOrder(r))
  /\ pc' = [pc EXCEPT ![r] = "committed"]
  /\ UNCHANGED <<shop, announced, cart, found, resolved, tried>>

Publish_ErrorEscapes(r) ==
  /\ pc[r] = "committed"
  /\ \/ announced' = announced \cup {r} /\ pc' = [pc EXCEPT ![r] = "placed"]
     \/ announced' = announced /\ pc' = [pc EXCEPT ![r] = "failed"]
  /\ UNCHANGED <<shop, orders, cart, found, resolved, tried>>
\* publishOrderEvent, whose listeners' errors are swallowed.
Publish(r) ==
  /\ pc[r] = "committed"
  /\ announced' = announced \cup {r}
  /\ pc' = [pc EXCEPT ![r] = "placed"]
  /\ UNCHANGED <<shop, orders, cart, found, resolved, tried>>

-----------------------------------------------------------------------------
Ended(r) == pc[r] \in {"refused", "gaveUp", "failed", "placed"}

\* A transaction times out, or the process stops.  Its transaction, if one is
\* open, is rolled back; after the commit only the event is lost.
Fail(r) ==
  /\ pc[r] # "idle" /\ ~Ended(r)
  /\ pc' = [pc EXCEPT ![r] = IF pc[r] = "committed" THEN "placed" ELSE "failed"]
  /\ UNCHANGED <<shop, orders, announced, cart, found, resolved, tried>>

Step(r) ==
  \/ \E u \in Units : FindUnit(r, u) \/ PriceUnit(r, u)
  \/ RejectCart(r) \/ AcceptCart(r)
  \/ TakeNumber(r) \/ GiveUp(r) \/ CheckCustomer(r) \/ CheckAddress(r)
  \/ Insert(r) \/ Commit(r) \/ Publish(r)

\* Nobody has to submit anything.
Idle == (\A r \in Requests : pc[r] = "idle" \/ Ended(r)) /\ UNCHANGED vars

Next ==
  \/ \E r \in Requests :
       \/ \E c \in Carts : Submit(r, c)
       \/ Step(r)
       \/ Fail(r)
  \/ Edit
  \/ Idle

Spec == Init /\ [][Next]_vars

\* A submission that was made goes on.
FairSpec == Spec /\ \A r \in Requests : WF_vars(Step(r))
=============================================================================
