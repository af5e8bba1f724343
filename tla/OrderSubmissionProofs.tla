------------------------ MODULE OrderSubmissionProofs ------------------------
(* Proofs about OrderSubmission: a tenant's order numbers are a counter, an  *)
(* order has its cart's lines, and what becomes of a submission's attempts.  *)
EXTENDS OrderSubmissionProperties, SequenceTheorems, FiniteSetTheorems, TLAPS

USE OrderSubmissionAssumption

-----------------------------------------------------------------------------
(* The inductive invariant.  An attempt's number is at most one more than  *)
(* the committed ones; an order is inserted under a free number, so under  *)
(* exactly the next, and by one submission only.                           *)

\* Stages between the acceptance of the cart and the end.
Accepted == {"numbering", "numbered", "customerOk", "addressOk", "inserted", "committed", "gaveUp"}
Numbered == {"numbered", "customerOk", "addressOk", "inserted"}

SubmissionOK(r) ==
  /\ pc[r] # "idle" => cart[r] \in Carts
  /\ pc[r] \in Accepted =>
       DOMAIN resolved[r] = cart[r].units /\ \A u \in cart[r].units : resolved[r][u] \in Prices
  /\ pc[r] \in {"addressOk", "inserted"} => addressOf[cart[r].address] = cart[r].customer
  /\ pc[r] \in Numbered => tried[r] # <<>> /\ number(r) <= Len(orders) + 1
  /\ pc[r] = "inserted" => number(r) = Len(orders) + 1

OneInserts == \A q, r \in Requests : pc[q] = "inserted" /\ pc[r] = "inserted" => q = r

\* An order's submission is over, and it is that submission's only one.
OrderersDone ==
  /\ \A i \in 1..Len(orders) : pc[orders[i].by] \in {"committed", "placed"}
  /\ \A i, j \in 1..Len(orders) : orders[i].by = orders[j].by => i = j

Inv ==
  /\ TypeOK
  /\ NumberedInOrder
  /\ \A r \in Requests : SubmissionOK(r)
  /\ OneInserts
  /\ OrderersDone
  /\ OrdersMatchCarts

-----------------------------------------------------------------------------
(* Numbers.                                                                *)

\* When orders are numbered in order, max() + 1 is one more than their count.
LEMMA NextIsCount ==
  ASSUME TypeOK, NumberedInOrder
  PROVE  NextNumber = Len(orders) + 1 /\ Taken = 1..Len(orders)
<1>1. Len(orders) \in Nat
  BY DEF TypeOK
<1>2. Taken = 1..Len(orders)
  BY DEF Taken, NumberedInOrder
<1>3. CASE Len(orders) = 0
  BY <1>1, <1>2, <1>3 DEF NextNumber
<1>4. CASE Len(orders) > 0
  <2>1. Len(orders) \in Taken /\ \A y \in Taken : Len(orders) >= y
    BY <1>1, <1>2, <1>4
  <2>2. Max(Taken) = Len(orders)
    <3> DEFINE m == Max(Taken)
    <3>1. m \in Taken /\ \A y \in Taken : m >= y
      BY <2>1 DEF Max
    <3> HIDE DEF m
    <3>2. m = Len(orders)
      BY <1>1, <1>2, <2>1, <3>1
    <3> QED
      BY <3>2 DEF m
  <2> QED
    BY <1>1, <1>2, <1>4, <2>2 DEF NextNumber
<1> QED
  BY <1>1, <1>3, <1>4, <1>2

\* The order that an inserted submission commits.
LEMMA NewOrderFacts ==
  ASSUME Inv, NEW r \in Requests, pc[r] = "inserted"
  PROVE  /\ NewOrder(r) \in Order
         /\ NewOrder(r).number = Len(orders) + 1
         /\ NewOrder(r).by = r
         /\ NewOrder(r).customer = cart[r].customer
         /\ NewOrder(r).customer = addressOf[NewOrder(r).address]
         /\ NewOrder(r).lines = resolved[r]
         /\ DOMAIN resolved[r] = cart[r].units
         /\ \A u \in cart[r].units : resolved[r][u] \in Prices
<1>1. SubmissionOK(r) /\ TypeOK
  BY DEF Inv
<1>2. /\ cart[r] \in Carts /\ DOMAIN resolved[r] = cart[r].units
      /\ \A u \in cart[r].units : resolved[r][u] \in Prices
      /\ addressOf[cart[r].address] = cart[r].customer
      /\ number(r) = Len(orders) + 1
  BY <1>1 DEF SubmissionOK, Accepted
<1>3. cart[r].customer \in Customers /\ cart[r].address \in Addresses /\ cart[r].units \in SUBSET Units
  BY <1>2 DEF Carts
<1>4. resolved[r] = [u \in DOMAIN resolved[r] |-> resolved[r][u]]
  BY <1>1 DEF TypeOK
<1>5. resolved[r] \in [cart[r].units -> Prices]
  BY <1>2, <1>4
<1>6. Len(orders) + 1 \in Nat \ {0}
  BY <1>1 DEF TypeOK
<1>7. resolved[r] \in UNION {[us -> Prices] : us \in SUBSET Units}
  BY <1>3, <1>5
<1> QED
  BY <1>2, <1>3, <1>6, <1>7 DEF NewOrder, Order

-----------------------------------------------------------------------------
(* Steps.                                                                  *)

\* Only a commit changes the orders.
LEMMA OnlyCommitsPlace ==
  ASSUME [Next]_vars, ~(\E r \in Requests : Commit(r))
  PROVE  orders' = orders
  BY DEF Next, Step, Edit, Submit, FindUnit, PriceUnit, Resolves, RejectCart, AcceptCart,
         TakeNumber, GiveUp, Check, CheckCustomer, CheckAddress, Insert, Publish, Fail, Idle,
         vars, shop

\* A run starts without orders.
LEMMA InitInv == Init => Inv
<1> SUFFICES ASSUME Init PROVE Inv
  OBVIOUS
<1>1. TypeOK
  <2>1. price \in [Customers -> [Units -> Prices \cup {NULL}]]
    BY DEF Init
  <2>2. orders \in Seq(Order) /\ tried \in [Requests -> Seq(Nat \ {0})]
    BY DEF Init
  <2>3. /\ DOMAIN resolved = Requests
        /\ \A r \in Requests : DOMAIN resolved[r] \subseteq Units
             /\ resolved[r] \in [DOMAIN resolved[r] -> Prices \cup {NULL}]
    BY DEF Init, Nothing
  <2> QED
    BY <2>1, <2>2, <2>3 DEF Init, TypeOK, Stage
<1>2. Len(orders) = 0
  BY DEF Init
<1> QED
  BY <1>1, <1>2 DEF Init, Inv, NumberedInOrder, SubmissionOK, Accepted, Numbered, OneInserts,
     OrderersDone, OrdersMatchCarts

\* Each step keeps the types.
LEMMA TypeStep == Inv /\ [Next]_vars => TypeOK'
<1> SUFFICES ASSUME Inv, [Next]_vars PROVE TypeOK'
  OBVIOUS
<1> USE DEF Inv
<1>1. CASE Edit
  <2>1. activeCustomer' \subseteq Customers
    BY <1>1 DEF Edit, TypeOK, SymDiff
  <2>2. activeAddress' \subseteq Addresses
    BY <1>1 DEF Edit, TypeOK, SymDiff
  <2>3. orderable' \subseteq Units
    BY <1>1 DEF Edit, TypeOK, SymDiff
  <2>4. price' \in [Customers -> [Units -> Prices \cup {NULL}]]
    <3>1. price \in [Customers -> [Units -> Prices \cup {NULL}]]
      BY DEF TypeOK
    <3>2. ASSUME NEW c \in Customers, NEW u \in Units, NEW p \in Prices \cup {NULL},
                 price' = [price EXCEPT ![c][u] = p]
          PROVE  price' \in [Customers -> [Units -> Prices \cup {NULL}]]
      <4>1. [price[c] EXCEPT ![u] = p] \in [Units -> Prices \cup {NULL}]
        BY <3>1
      <4> QED
        BY <3>1, <3>2, <4>1
    <3> QED
      BY <1>1, <3>1, <3>2 DEF Edit
  <2>5. edits' \in Nat
    BY <1>1 DEF Edit, TypeOK
  <2>6. UNCHANGED <<orders, announced, pc, cart, found, resolved, tried>>
    BY <1>1 DEF Edit
  <2> QED
    BY <2>1, <2>2, <2>3, <2>4, <2>5, <2>6 DEF TypeOK
<1>2. ASSUME NEW r \in Requests, NEW c \in Carts, Submit(r, c)
      PROVE  TypeOK'
  BY <1>2 DEF Submit, TypeOK, Stage, shop
<1>3. ASSUME NEW r \in Requests, NEW u \in Units, NEW p \in Prices \cup {NULL},
             Resolves(r, u, p), found' \in [Requests -> SUBSET Units]
      PROVE  TypeOK'
  <2>1. /\ DOMAIN resolved' = Requests
        /\ \A q \in Requests :
             DOMAIN resolved'[q] \subseteq Units
             /\ resolved'[q] \in [DOMAIN resolved'[q] -> Prices \cup {NULL}]
    BY <1>3 DEF Resolves, TypeOK
  <2> QED
    BY <1>3, <2>1 DEF Resolves, TypeOK, shop
<1>4. ASSUME NEW r \in Requests, NEW u \in Units, FindUnit(r, u)
      PROVE  TypeOK'
  <2>1. found' \in [Requests -> SUBSET Units]
    <3>1. found \in [Requests -> SUBSET Units]
      BY DEF TypeOK
    <3>2. found' = found \/ found' = [found EXCEPT ![r] = @ \cup {u}]
      BY <1>4 DEF FindUnit
    <3> QED
      BY <3>1, <3>2
  <2>2. CASE Resolves(r, u, NULL)
    <3>1. PICK p \in Prices \cup {NULL} : p = NULL
      OBVIOUS
    <3>2. Resolves(r, u, p)
      BY <2>2, <3>1 DEF Resolves
    <3> QED
      BY <2>1, <3>2, <1>3
  <2>3. CASE UNCHANGED <<shop, orders, announced, pc, cart, resolved, tried>>
    BY <2>1, <2>3 DEF TypeOK, shop
  <2> QED
    BY <1>4, <2>2, <2>3 DEF FindUnit
<1>5. ASSUME NEW r \in Requests, NEW u \in Units, PriceUnit(r, u)
      PROVE  TypeOK'
  <2>1. found' \in [Requests -> SUBSET Units]
    BY <1>5 DEF PriceUnit, TypeOK
  <2>2. cart[r] \in Carts
    BY <1>5 DEF PriceUnit, SubmissionOK
  <2>3. effectivePrice(cart[r].customer, u) \in Prices \cup {NULL}
    BY <2>2 DEF effectivePrice, Carts, TypeOK
  <2>4. Resolves(r, u, effectivePrice(cart[r].customer, u))
    BY <1>5 DEF PriceUnit
  <2>5. PICK p \in Prices \cup {NULL} : p = effectivePrice(cart[r].customer, u)
    BY <2>3
  <2>6. Resolves(r, u, p)
    BY <2>4, <2>5 DEF Resolves
  <2> QED
    BY <2>1, <2>6, <1>3
<1>6. ASSUME NEW r \in Requests, NEW s \in Stage, pc' = [pc EXCEPT ![r] = s],
             UNCHANGED <<shop, cart, found, resolved>>,
             orders' \in Seq(Order), announced' \subseteq Requests,
             tried' \in [Requests -> Seq(Nat \ {0})]
      PROVE  TypeOK'
  BY <1>6 DEF TypeOK, shop
<1>7. ASSUME NEW r \in Requests,
             \/ RejectCart(r) \/ AcceptCart(r) \/ GiveUp(r) \/ CheckCustomer(r) \/ CheckAddress(r)
             \/ Insert(r) \/ Fail(r)
      PROVE  TypeOK'
  <2>1. UNCHANGED <<shop, orders, announced, cart, found, resolved, tried>>
    BY <1>7 DEF RejectCart, AcceptCart, GiveUp, Check, CheckCustomer, CheckAddress, Insert, Fail
  <2>2. \E s \in Stage : pc' = [pc EXCEPT ![r] = s]
    BY <1>7 DEF RejectCart, AcceptCart, GiveUp, Check, CheckCustomer, CheckAddress, Insert, Fail, Stage
  <2> QED
    BY <2>1, <2>2 DEF TypeOK, shop
<1>8. ASSUME NEW r \in Requests, TakeNumber(r)
      PROVE  TypeOK'
  <2>1. NextNumber \in Nat \ {0}
    BY NextIsCount DEF TypeOK
  <2>2. tried' \in [Requests -> Seq(Nat \ {0})]
    BY <1>8, <2>1 DEF TakeNumber, TypeOK
  <2> QED
    BY <1>8, <2>2 DEF TakeNumber, TypeOK, Stage, shop
<1>9. ASSUME NEW r \in Requests, Commit(r)
      PROVE  TypeOK'
  <2>1. orders' \in Seq(Order)
    BY <1>9, NewOrderFacts DEF Commit, TypeOK
  <2> QED
    BY <1>9, <2>1 DEF Commit, TypeOK, Stage, shop
<1>10. ASSUME NEW r \in Requests, Publish(r)
       PROVE  TypeOK'
  BY <1>10 DEF Publish, TypeOK, Stage, shop
<1>11. CASE UNCHANGED vars
  BY <1>11 DEF vars, shop, TypeOK
<1> QED
  BY <1>1, <1>2, <1>4, <1>5, <1>7, <1>8, <1>9, <1>10, <1>11 DEF Next, Step, Idle

\* Each step keeps every submission's own facts.
LEMMA SubmissionStep == Inv /\ [Next]_vars => \A q \in Requests : SubmissionOK(q)'
<1> SUFFICES ASSUME Inv, [Next]_vars, NEW q \in Requests PROVE SubmissionOK(q)'
  OBVIOUS
<1>0. /\ TypeOK /\ SubmissionOK(q) /\ Len(orders) \in Nat
      /\ tried[q] \in Seq(Nat \ {0}) /\ pc[q] \in Stage
  BY DEF Inv, TypeOK
<1>1. ASSUME pc'[q] = pc[q], UNCHANGED <<cart, resolved, tried>>,
             \/ orders' = orders
             \/ (Len(orders') = Len(orders) + 1 /\ pc[q] # "inserted")
      PROVE  SubmissionOK(q)'
  <2>1. pc[q] \in Numbered => number(q) \in Nat
    BY <1>0 DEF SubmissionOK, number
  <2> QED
    BY <1>0, <1>1, <2>1 DEF SubmissionOK, number, Numbered, Accepted
<1>2. CASE Edit \/ UNCHANGED vars
  BY <1>1, <1>2 DEF Edit, vars
<1>3. ASSUME NEW r \in Requests, NEW c \in Carts, Submit(r, c)
      PROVE  SubmissionOK(q)'
  <2>1. CASE q = r
    BY <1>0, <1>3, <2>1 DEF Submit, SubmissionOK, Accepted, Numbered, TypeOK
  <2>2. CASE q # r
    BY <1>0, <1>3, <2>2 DEF Submit, SubmissionOK, Accepted, Numbered, TypeOK, number
  <2> QED
    BY <2>1, <2>2
<1>4. ASSUME NEW r \in Requests, NEW u \in Units, FindUnit(r, u) \/ PriceUnit(r, u)
      PROVE  SubmissionOK(q)'
  <2>1. pc[r] = "resolving" /\ UNCHANGED <<orders, pc, cart, tried>>
    BY <1>4 DEF FindUnit, PriceUnit, Resolves
  <2>2. q # r => resolved'[q] = resolved[q]
    BY <1>4 DEF FindUnit, PriceUnit, Resolves, TypeOK, Inv
  <2>3. CASE q = r
    BY <1>0, <2>1, <2>3 DEF SubmissionOK, Accepted, Numbered
  <2>4. CASE q # r
    BY <1>0, <2>1, <2>2, <2>4 DEF SubmissionOK, number
  <2> QED
    BY <2>3, <2>4
<1>5. ASSUME NEW r \in Requests, TakeNumber(r)
      PROVE  SubmissionOK(q)'
  <2>1. CASE q = r
    <3>1. NextNumber = Len(orders) + 1
      BY NextIsCount, <1>0 DEF Inv
    <3>2. pc'[q] = "numbered" /\ tried'[q] = Append(tried[q], Len(orders) + 1)
      BY <1>0, <1>5, <2>1, <3>1 DEF TakeNumber, TypeOK
    <3>3. tried'[q] # <<>> /\ tried'[q][Len(tried'[q])] = Len(orders) + 1
      BY <1>0, <3>2, SMTT(30)
    <3>4. pc[q] = "numbering" /\ UNCHANGED <<orders, cart, resolved>>
      BY <1>5, <2>1 DEF TakeNumber
    <3> QED
      BY <1>0, <3>2, <3>3, <3>4 DEF SubmissionOK, Accepted, Numbered, number
  <2>2. CASE q # r
    <3>1. pc'[q] = pc[q] /\ tried'[q] = tried[q] /\ UNCHANGED <<orders, cart, resolved>>
      BY <1>0, <1>5, <2>2 DEF TakeNumber, TypeOK
    <3> QED
      BY <1>0, <3>1 DEF SubmissionOK, number
  <2> QED
    BY <2>1, <2>2
<1>6. ASSUME NEW r \in Requests,
             \/ RejectCart(r) \/ AcceptCart(r) \/ GiveUp(r) \/ CheckCustomer(r) \/ CheckAddress(r)
             \/ Insert(r) \/ Publish(r) \/ Fail(r)
      PROVE  SubmissionOK(q)'
  <2>1. UNCHANGED <<orders, cart, resolved, tried>>
    BY <1>6 DEF RejectCart, AcceptCart, GiveUp, Check, CheckCustomer, CheckAddress, Insert, Publish, Fail
  <2>2. CASE q # r
    <3>1. pc'[q] = pc[q]
      BY <1>0, <1>6, <2>2 DEF RejectCart, AcceptCart, GiveUp, Check, CheckCustomer, CheckAddress,
         Insert, Publish, Fail, TypeOK
    <3> QED
      BY <1>1, <2>1, <3>1
  <2>3. CASE q = r
    <3>1. /\ pc[q] # "idle"
          /\ pc'[q] \in Accepted => pc[q] \in Accepted \/ AcceptCart(q)
          /\ pc'[q] \in {"addressOk", "inserted"} =>
               (CheckAddress(q) /\ AddressOk(q)) \/ pc[q] = "addressOk"
          /\ pc'[q] \in Numbered => pc[q] \in Numbered
          /\ pc'[q] = "inserted" => pc[q] = "addressOk" /\ number(q) \notin Taken
      BY <1>0, <1>6, <2>3 DEF RejectCart, AcceptCart, GiveUp, Check, CheckCustomer, CheckAddress,
         Insert, Publish, Fail, TypeOK, Accepted, Numbered
    <3>2. cart[q] \in Carts
      BY <1>0, <3>1 DEF SubmissionOK
    <3>3. AcceptCart(q) =>
            DOMAIN resolved[q] = cart[q].units /\ \A u \in cart[q].units : resolved[q][u] \in Prices
      BY <1>0 DEF AcceptCart, TypeOK
    <3>4. pc'[q] = "inserted" => number(q) = Len(orders) + 1
      <4> SUFFICES ASSUME pc'[q] = "inserted" PROVE number(q) = Len(orders) + 1
        OBVIOUS
      <4>1. tried[q] # <<>> /\ number(q) <= Len(orders) + 1
        BY <1>0, <3>1 DEF SubmissionOK, Numbered
      <4>2. number(q) \in Nat \ {0}
        BY <1>0, <4>1 DEF number
      <4>3. Taken = 1..Len(orders)
        BY NextIsCount DEF Inv
      <4> QED
        BY <1>0, <3>1, <4>1, <4>2, <4>3
    <3>5. number(q)' = number(q) /\ Len(orders') = Len(orders)
      BY <2>1 DEF number
    <3> QED
      BY <1>0, <2>1, <3>1, <3>2, <3>3, <3>4, <3>5 DEF SubmissionOK, AddressOk
  <2> QED
    BY <2>2, <2>3
<1>7. ASSUME NEW r \in Requests, Commit(r)
      PROVE  SubmissionOK(q)'
  <2>1. /\ Len(orders') = Len(orders) + 1
        /\ UNCHANGED <<cart, resolved, tried>>
    BY <1>0, <1>7 DEF Commit, TypeOK
  <2>2. CASE q = r
    <3>1. pc[q] = "inserted" /\ pc'[q] = "committed"
      BY <1>0, <1>7, <2>2 DEF Commit, TypeOK
    <3> QED
      BY <1>0, <2>1, <3>1 DEF SubmissionOK, Accepted, Numbered
  <2>3. CASE q # r
    <3>1. pc'[q] = pc[q] /\ pc[q] # "inserted"
      BY <1>0, <1>7, <2>3 DEF Commit, TypeOK, Inv, OneInserts
    <3> QED
      BY <1>1, <2>1, <3>1
  <2> QED
    BY <2>2, <2>3
<1> QED
  BY <1>2, <1>3, <1>4, <1>5, <1>6, <1>7 DEF Next, Step, Idle

\* What a step does to the stage and the cart of each submission.
LEMMA StageOrder ==
  ASSUME TypeOK, [Next]_vars, NEW q \in Requests
  PROVE  /\ pc'[q] = "inserted" => pc[q] = "inserted" \/ Insert(q)
         /\ pc[q] \in {"committed", "placed"} =>
              pc'[q] \in {"committed", "placed"} /\ cart'[q] = cart[q]
<1>0. pc \in [Requests -> Stage] /\ cart \in [Requests -> Carts \cup {NULL}]
  BY DEF TypeOK
<1>1. ASSUME NEW r \in Requests, NEW c \in Carts, Submit(r, c)
      PROVE  /\ pc'[q] = pc[q] \/ (pc'[q] = "resolving" /\ pc[q] = "idle")
             /\ pc[q] # "idle" => cart'[q] = cart[q]
  BY <1>0, <1>1 DEF Submit
<1>2. ASSUME NEW r \in Requests, NEW u \in Units, FindUnit(r, u) \/ PriceUnit(r, u)
      PROVE  UNCHANGED <<pc, cart>>
  BY <1>2 DEF FindUnit, PriceUnit, Resolves
<1>3. ASSUME NEW r \in Requests,
             RejectCart(r) \/ AcceptCart(r) \/ TakeNumber(r) \/ GiveUp(r)
      PROVE  /\ UNCHANGED cart
             /\ pc'[q] = pc[q]
                \/ (pc[q] \in {"resolving", "numbering"}
                    /\ pc'[q] \in {"refused", "numbering", "numbered", "gaveUp"})
  BY <1>0, <1>3 DEF RejectCart, AcceptCart, TakeNumber, GiveUp
<1>4. ASSUME NEW r \in Requests, CheckCustomer(r) \/ CheckAddress(r)
      PROVE  /\ UNCHANGED cart
             /\ pc'[q] = pc[q]
                \/ (pc[q] \in {"numbered", "customerOk"}
                    /\ pc'[q] \in {"customerOk", "addressOk", "refused"})
  BY <1>0, <1>4 DEF Check, CheckCustomer, CheckAddress
<1>5. ASSUME NEW r \in Requests, Insert(r)
      PROVE  /\ UNCHANGED cart
             /\ pc'[q] = pc[q] \/ (q = r /\ pc[q] = "addressOk")
  BY <1>0, <1>5 DEF Insert
<1>6. ASSUME NEW r \in Requests, Commit(r) \/ Publish(r) \/ Fail(r)
      PROVE  /\ UNCHANGED cart
             /\ pc'[q] = pc[q]
                \/ pc'[q] \in {"committed", "placed"}
                \/ (pc[q] \notin {"committed", "placed"} /\ pc'[q] = "failed")
  BY <1>0, <1>6 DEF Commit, Publish, Fail, Ended
<1>7. CASE Edit \/ UNCHANGED vars
  BY <1>7 DEF Edit, vars
<1> QED
  BY <1>1, <1>2, <1>3, <1>4, <1>5, <1>6, <1>7 DEF Next, Step, Idle

\* Each step leaves at most one submission with an uncommitted insert: a second
\* would have the same number, and waits.
LEMMA InsertStep == Inv /\ [Next]_vars => OneInserts'
<1> SUFFICES ASSUME Inv, [Next]_vars, NEW q \in Requests, NEW r \in Requests,
                    pc'[q] = "inserted", pc'[r] = "inserted", q # r
             PROVE  FALSE
  BY DEF OneInserts
<1>1. ASSUME NEW s \in Requests, pc'[s] = "inserted"
      PROVE  pc[s] = "inserted" \/ Insert(s)
  BY <1>1, StageOrder DEF Inv
<1>2. ASSUME NEW s \in Requests, NEW t \in Requests, pc'[s] = "inserted", pc'[t] = "inserted",
             s # t, Insert(s)
      PROVE  FALSE
  <2>1. pc[t] = "inserted"
    BY <1>2 DEF Insert, Inv, TypeOK
  <2>2. pc[s] = "addressOk" /\ number(s) \notin Taken
    BY <1>2 DEF Insert, Inv, TypeOK
  <2>3. number(t) = Len(orders) + 1
    BY <2>1 DEF Inv, SubmissionOK
  <2>4. tried[s] # <<>> /\ number(s) <= Len(orders) + 1
    BY <2>2 DEF Inv, SubmissionOK, Numbered
  <2>5. number(s) \in Nat \ {0} /\ Len(orders) \in Nat
    BY <2>4 DEF Inv, TypeOK, number
  <2>6. Taken = 1..Len(orders)
    BY NextIsCount DEF Inv
  <2>7. number(s) = Len(orders) + 1
    BY <2>2, <2>4, <2>5, <2>6
  <2> QED
    BY <1>2, <2>1, <2>3, <2>7 DEF Insert, WaitsFor
<1>3. pc[q] = "inserted" /\ pc[r] = "inserted" => FALSE
  BY DEF Inv, OneInserts
<1> QED
  BY <1>1, <1>2, <1>3

\* Each step keeps the orders numbered, one to a submission, and like its cart.
LEMMA OrdersStep == Inv /\ [Next]_vars => NumberedInOrder' /\ OrderersDone' /\ OrdersMatchCarts'
<1> SUFFICES ASSUME Inv, [Next]_vars
             PROVE  NumberedInOrder' /\ OrderersDone' /\ OrdersMatchCarts'
  OBVIOUS
<1>0. TypeOK /\ NumberedInOrder /\ OrderersDone /\ OrdersMatchCarts /\ Len(orders) \in Nat
  BY DEF Inv, TypeOK
<1>1. \A i \in 1..Len(orders) : orders[i].by \in Requests
  <2>1. \A i \in 1..Len(orders) : orders[i] \in Order
    BY <1>0 DEF TypeOK
  <2> QED
    BY <2>1 DEF Order
<1>2. \A q \in Requests : pc[q] \in {"committed", "placed"} =>
        pc'[q] \in {"committed", "placed"} /\ cart'[q] = cart[q]
  BY <1>0, StageOrder
<1>3. CASE orders' = orders
  <2>1. OrderersDone'
    BY <1>0, <1>1, <1>2, <1>3 DEF OrderersDone
  <2>2. \A i \in 1..Len(orders) : cart'[orders[i].by] = cart[orders[i].by]
    BY <1>0, <1>1, <1>2 DEF OrderersDone
  <2> QED
    BY <1>0, <1>3, <2>1, <2>2 DEF NumberedInOrder, OrdersMatchCarts
<1>4. ASSUME NEW r \in Requests, Commit(r)
      PROVE  NumberedInOrder' /\ OrderersDone' /\ OrdersMatchCarts'
  <2>1. pc[r] = "inserted" /\ pc'[r] = "committed" /\ UNCHANGED cart
    BY <1>0, <1>4 DEF Commit, TypeOK
  <2>2. PICK o \in Order : o = NewOrder(r) /\ orders' = Append(orders, o)
    BY <1>4, <2>1, NewOrderFacts DEF Commit
  <2>3. /\ o.number = Len(orders) + 1 /\ o.by = r /\ o.customer = cart[r].customer
        /\ o.customer = addressOf[o.address]
        /\ DOMAIN o.lines = cart[r].units /\ \A u \in cart[r].units : o.lines[u] \in Prices
    BY <2>1, <2>2, NewOrderFacts
  <2>4. /\ Len(orders') = Len(orders) + 1 /\ orders'[Len(orders) + 1] = o
        /\ \A i \in 1..Len(orders) : orders'[i] = orders[i]
        /\ \A i \in 1..Len(orders') : i \in 1..Len(orders) \/ i = Len(orders) + 1
    BY <1>0, <2>2 DEF TypeOK
  <2>5. \A i \in 1..Len(orders) : orders[i].by # r
    BY <1>0, <2>1 DEF OrderersDone
  <2>6. NumberedInOrder'
    BY <1>0, <2>3, <2>4 DEF NumberedInOrder
  <2>7. OrderersDone'
    <3>1. \A i \in 1..Len(orders') : pc'[orders'[i].by] \in {"committed", "placed"}
      BY <1>0, <1>1, <1>2, <2>1, <2>3, <2>4 DEF OrderersDone
    <3>2. \A i, j \in 1..Len(orders') : orders'[i].by = orders'[j].by => i = j
      BY <1>0, <2>3, <2>4, <2>5 DEF OrderersDone
    <3> QED
      BY <3>1, <3>2 DEF OrderersDone
  <2>8. OrdersMatchCarts'
    <3> SUFFICES ASSUME NEW i \in 1..Len(orders')
                 PROVE  /\ orders'[i].customer = cart'[orders'[i].by].customer
                        /\ orders'[i].customer = addressOf[orders'[i].address]
                        /\ DOMAIN orders'[i].lines = cart'[orders'[i].by].units
                        /\ \A u \in DOMAIN orders'[i].lines : orders'[i].lines[u] \in Prices
      BY DEF OrdersMatchCarts
    <3>1. CASE i \in 1..Len(orders)
      <4>1. orders'[i] = orders[i] /\ cart' = cart
        BY <2>1, <2>4, <3>1
      <4> QED
        BY <1>0, <3>1, <4>1 DEF OrdersMatchCarts
    <3>2. CASE i = Len(orders) + 1
      <4>1. orders'[i] = o /\ cart' = cart
        BY <2>1, <2>4, <3>2
      <4> QED
        BY <2>3, <4>1
    <3> QED
      BY <2>4, <3>1, <3>2
  <2> QED
    BY <2>6, <2>7, <2>8
<1> QED
  BY <1>3, <1>4, OnlyCommitsPlace

-----------------------------------------------------------------------------
(* Theorems.                                                               *)

\* The invariant holds of every run.
THEOREM InvHolds == Spec => []Inv
<1>1. Inv /\ [Next]_vars => Inv'
  BY TypeStep, SubmissionStep, InsertStep, OrdersStep DEF Inv
<1> QED
  BY InitInv, <1>1, PTL DEF Spec

\* Every variable keeps its type.
THEOREM TypeCorrect == Spec => []TypeOK
<1>1. Inv => TypeOK
  BY DEF Inv
<1> QED
  BY <1>1, InvHolds, PTL

\* The tenant's orders are numbered 1, 2, 3 ... in the order they commit, however
\* many submissions take their numbers, lose them and retry at once.
THEOREM NumbersInOrder == Spec => []NumberedInOrder
<1>1. Inv => NumberedInOrder
  BY DEF Inv
<1> QED
  BY <1>1, InvHolds, PTL

\* Every order is its submission's cart, priced and sent to one of the customer's
\* own addresses, whatever the seller edits meanwhile.
THEOREM CartsMatched == Spec => []OrdersMatchCarts
<1>1. Inv => OrdersMatchCarts
  BY DEF Inv
<1> QED
  BY <1>1, InvHolds, PTL

-----------------------------------------------------------------------------
(* Submissions implement the counter of OrderNumberSpec.                   *)

\* The counter's value, read off the orders.
position(n) == CHOOSE i \in 1..Len(orders) : orders[i].number = n
Placed == [n \in 1..Len(orders) |-> orders[position(n)].by]

\* As orders are numbered in order, it lists who placed them, in order.
PlacedInOrder ==
  /\ Placed \in Seq(Requests) /\ Len(Placed) = Len(orders)
  /\ \A n \in 1..Len(orders) : Placed[n] = orders[n].by

\* An order's number is its position.
LEMMA PlacedIsBy == Inv => PlacedInOrder
<1> SUFFICES ASSUME Inv PROVE PlacedInOrder
  OBVIOUS
<1>0. orders \in Seq(Order) /\ Len(orders) \in Nat /\ NumberedInOrder
  BY DEF Inv, TypeOK
<1>1. \A n \in 1..Len(orders) : position(n) = n
  BY <1>0 DEF NumberedInOrder, position
<1>2. \A n \in 1..Len(orders) : Placed[n] = orders[n].by
  BY <1>1 DEF Placed
<1>3. \A n \in 1..Len(orders) : orders[n].by \in Requests
  <2>1. \A n \in 1..Len(orders) : orders[n] \in Order
    BY <1>0
  <2> QED
    BY <2>1 DEF Order
<1>4. Placed \in [1..Len(orders) -> Requests]
  <2>1. Placed = [n \in 1..Len(orders) |-> Placed[n]]
    BY DEF Placed
  <2> QED
    BY <1>2, <1>3, <2>1
<1> QED
  BY <1>0, <1>2, <1>4 DEF PlacedInOrder

\* What makes one sequence another with an element appended.
LEMMA IsAppend ==
  ASSUME NEW S, NEW p \in Seq(S), NEW q \in Seq(S), NEW e \in S,
         Len(q) = Len(p) + 1, \A i \in 1..Len(p) : q[i] = p[i], q[Len(p) + 1] = e
  PROVE  q = Append(p, e)
<1> DEFINE a == Append(p, e)
<1>1. a \in Seq(S) /\ Len(a) = Len(q)
  OBVIOUS
<1>2. \A i \in 1..Len(q) : q[i] = a[i]
  OBVIOUS
<1> HIDE DEF a
<1>3. q = a
  BY <1>1, <1>2, SeqEqual
<1> QED
  BY <1>3 DEF a

\* A commit places the next number; every other step is invisible.
LEMMA PlaceStep ==
  ASSUME Inv, PlacedInOrder, PlacedInOrder', [Next]_vars
  PROVE  (\E r \in Requests : /\ \A n \in 1..Len(Placed) : Placed[n] # r
                              /\ Placed' = Append(Placed, r))
         \/ Placed' = Placed
<1>1. CASE orders' = orders
  BY <1>1 DEF Placed, position
<1>2. ASSUME NEW r \in Requests, Commit(r)
      PROVE  /\ \A n \in 1..Len(Placed) : Placed[n] # r
             /\ Placed' = Append(Placed, r)
  <2>0. orders \in Seq(Order) /\ Len(orders) \in Nat
    BY DEF Inv, TypeOK
  <2>1. pc[r] = "inserted"
    BY <1>2 DEF Commit
  <2>2. \A n \in 1..Len(orders) : orders[n].by # r
    BY <2>1 DEF Inv, OrderersDone
  <2>3. PICK o \in Order : o.by = r /\ orders' = Append(orders, o)
    BY <1>2, <2>1, NewOrderFacts DEF Commit
  <2>4. /\ Len(orders') = Len(orders) + 1 /\ orders'[Len(orders) + 1] = o
        /\ \A i \in 1..Len(orders) : orders'[i] = orders[i]
    BY <2>0, <2>3
  <2>5. /\ Placed \in Seq(Requests) /\ Len(Placed) = Len(orders)
        /\ \A n \in 1..Len(orders) : Placed[n] = orders[n].by
    BY DEF PlacedInOrder
  <2>6. /\ Placed' \in Seq(Requests) /\ Len(Placed') = Len(orders')
        /\ \A n \in 1..Len(orders') : Placed'[n] = orders'[n].by
    BY DEF PlacedInOrder
  <2>7. /\ Len(Placed') = Len(Placed) + 1
        /\ \A i \in 1..Len(Placed) : Placed'[i] = Placed[i]
        /\ Placed'[Len(Placed) + 1] = r
    BY <2>0, <2>3, <2>4, <2>5, <2>6
  <2>8. PICK p \in Seq(Requests), q \in Seq(Requests) : p = Placed /\ q = Placed'
    BY <2>5, <2>6
  <2>9. q = Append(p, r)
    BY <2>7, <2>8, IsAppend
  <2> QED
    BY <2>2, <2>5, <2>8, <2>9
<1> QED
  BY <1>1, <1>2, OnlyCommitsPlace

\* Order numbering is a counter: every run of the submissions, however they
\* interleave, fail and retry, is a run of OrderNumberSpec.
THEOREM NumbersAreACounter == Spec => ImplementsNumberSpec
<1>1. Init => NumberSpec!Init
  <2> SUFFICES ASSUME Init PROVE NumberSpec!Init
    OBVIOUS
  <2>1. Len(orders) = 0
    BY DEF Init
  <2>2. Placed \in Seq(Requests) /\ Len(Placed) = 0
    BY <2>1, InitInv, PlacedIsBy DEF PlacedInOrder
  <2>3. Placed = <<>>
    BY <2>2
  <2> QED
    BY <2>3 DEF NumberSpec!Init, Placed, position
<1>2. Inv /\ PlacedInOrder /\ PlacedInOrder' /\ [Next]_vars =>
        [NumberSpec!Next]_[n \in 1..Len(orders) |->
           orders[CHOOSE i \in 1..Len(orders) : orders[i].number = n].by]
  BY PlaceStep DEF NumberSpec!Next, NumberSpec!Place, Placed, position
<1> QED
  BY <1>1, <1>2, PlacedIsBy, InvHolds, PTL DEF Spec, ImplementsNumberSpec, NumberSpec!Spec

-----------------------------------------------------------------------------
(* Attempts.  An attempt is lost when its number was committed by another  *)
(* submission, so that the next attempt's number is above it.              *)

LostToOther(r, k) ==
  \E i \in 1..Len(orders) : orders[i].number = tried[r][k] /\ orders[i].by # r

AttemptOK(r) ==
  /\ pc[r] \in {"idle", "resolving"} => tried[r] = <<>>
  /\ \A k \in 1..Len(tried[r]) : Lost(r, k) => LostToOther(r, k)
  /\ \A j, k \in 1..Len(tried[r]) : j < k => tried[r][j] # tried[r][k]

PlacersHaveOrders ==
  \A r \in Requests : pc[r] \in {"committed", "placed"} => OrdersOf(r) # {}

AnnouncedArePlaced == \A r \in announced : pc[r] = "placed"

AttemptsOK ==
  /\ \A r \in Requests : AttemptOK(r)
  /\ PlacersHaveOrders
  /\ AnnouncedArePlaced

\* The committed orders stay.
LEMMA OrdersStay ==
  ASSUME Inv, [Next]_vars
  PROVE  /\ Len(orders) \in Nat /\ Len(orders') \in Nat /\ Len(orders) <= Len(orders')
         /\ \A i \in 1..Len(orders) : i \in 1..Len(orders') /\ orders'[i] = orders[i]
<1>0. orders \in Seq(Order)
  BY DEF Inv, TypeOK
<1>1. ASSUME NEW r \in Requests, Commit(r)
      PROVE  /\ Len(orders') = Len(orders) + 1
             /\ \A i \in 1..Len(orders) : orders'[i] = orders[i]
  <2>1. PICK o \in Order : orders' = Append(orders, o)
    BY <1>1, NewOrderFacts DEF Commit
  <2> QED
    BY <1>0, <2>1
<1>2. Len(orders) \in Nat
  BY <1>0
<1> QED
  BY <1>1, <1>2, OnlyCommitsPlace

\* Only TakeNumber makes an attempt; an attempt becomes lost at a conflict.
LEMMA AttemptStep ==
  ASSUME Inv, [Next]_vars, NEW q \in Requests, AttemptOK(q)
  PROVE  AttemptOK(q)'
<1>0. /\ tried[q] \in Seq(Nat \ {0}) /\ Len(tried[q]) \in Nat /\ pc[q] \in Stage
      /\ tried \in [Requests -> Seq(Nat \ {0})] /\ pc \in [Requests -> Stage]
  BY DEF Inv, TypeOK
<1>1. ASSUME NEW k \in 1..Len(tried[q]), LostToOther(q, k), tried'[q][k] = tried[q][k]
      PROVE  LostToOther(q, k)'
  BY <1>1, OrdersStay DEF LostToOther
<1>2. ASSUME tried'[q] = tried[q],
             \A k \in 1..Len(tried[q]) : Lost(q, k)' => Lost(q, k) \/ LostToOther(q, k),
             pc'[q] \in {"idle", "resolving"} => pc[q] \in {"idle", "resolving"}
      PROVE  AttemptOK(q)'
  BY <1>1, <1>2 DEF AttemptOK
<1>3. ASSUME tried'[q] = tried[q], pc'[q] = pc[q]  PROVE AttemptOK(q)'
  BY <1>2, <1>3 DEF Lost
<1>4. CASE TakeNumber(q)
  <2>1. PICK n \in Nat \ {0} : n = Len(orders) + 1
    BY OrdersStay
  <2>2. NextNumber = n /\ Taken = 1..Len(orders)
    BY <2>1, NextIsCount DEF Inv
  <2>3. /\ pc[q] = "numbering" /\ pc'[q] = "numbered" /\ orders' = orders
        /\ tried'[q] = Append(tried[q], n)
    BY <1>0, <1>4, <2>2 DEF TakeNumber
  <2>4. PICK t \in Seq(Nat \ {0}) : t = tried[q]
    BY <1>0
  <2>5. /\ Len(Append(t, n)) = Len(t) + 1 /\ Append(t, n)[Len(t) + 1] = n
        /\ \A k \in 1..Len(t) : Append(t, n)[k] = t[k]
        /\ \A k \in 1..(Len(t) + 1) : k \in 1..Len(t) \/ k = Len(t) + 1
        /\ Len(t) \in Nat
    OBVIOUS
  <2>6. \A k \in 1..Len(t) : LostToOther(q, k)
    BY <2>3, <2>4 DEF AttemptOK, Lost
  <2>7. \A k \in 1..Len(t) : t[k] # n
    <3>1. ASSUME NEW k \in 1..Len(t)  PROVE t[k] \in Taken
      BY <2>4, <2>6 DEF LostToOther, Taken
    <3>2. n \notin Taken
      BY <2>1, <2>2, OrdersStay
    <3> QED
      BY <3>1, <3>2
  <2>8. ASSUME NEW k \in 1..Len(tried'[q]), Lost(q, k)'
        PROVE  LostToOther(q, k)'
    <3>1. k \in 1..Len(t) /\ tried'[q][k] = tried[q][k]
      BY <2>3, <2>4, <2>5, <2>8 DEF Lost
    <3> QED
      BY <1>1, <2>4, <2>6, <3>1
  <2>9. \A j, k \in 1..Len(tried'[q]) : j < k => tried'[q][j] # tried'[q][k]
    <3>1. \A j, k \in 1..Len(t) : j < k => t[j] # t[k]
      BY <2>4 DEF AttemptOK
    <3> QED
      BY <2>3, <2>4, <2>5, <2>7, <3>1
  <2> QED
    BY <2>3, <2>8, <2>9 DEF AttemptOK
<1>5. CASE Insert(q)
  <2>1. /\ pc[q] = "addressOk" /\ tried'[q] = tried[q]
        /\ pc'[q] \in {"numbering", "inserted"}
        /\ pc'[q] = "numbering" => number(q) \in Taken
    BY <1>0, <1>5 DEF Insert
  <2>2. ASSUME NEW k \in 1..Len(tried[q]), Lost(q, k)', ~Lost(q, k)
        PROVE  LostToOther(q, k)
    <3>1. k = Len(tried[q]) /\ pc'[q] = "numbering"
      BY <1>0, <2>1, <2>2 DEF Lost
    <3>2. PICK i \in 1..Len(orders) : orders[i].number = tried[q][k]
      BY <2>1, <3>1 DEF Taken, number
    <3>3. orders[i].by # q
      BY <2>1 DEF Inv, OrderersDone
    <3> QED
      BY <3>2, <3>3 DEF LostToOther
  <2> QED
    BY <1>2, <2>1, <2>2
<1>6. ASSUME NEW r \in Requests, r # q,
             \/ \E c \in Carts : Submit(r, c)
             \/ TakeNumber(r) \/ Insert(r)
      PROVE  tried'[q] = tried[q] /\ pc'[q] = pc[q]
  BY <1>0, <1>6 DEF Submit, TakeNumber, Insert
<1>7. ASSUME NEW c \in Carts, Submit(q, c)
      PROVE  AttemptOK(q)'
  <2>1. tried'[q] = tried[q] /\ pc[q] = "idle" /\ pc'[q] = "resolving"
    BY <1>0, <1>7 DEF Submit
  <2> QED
    BY <1>2, <2>1 DEF Lost
<1>8. ASSUME NEW r \in Requests, NEW u \in Units, FindUnit(r, u) \/ PriceUnit(r, u)
      PROVE  UNCHANGED <<pc, tried>>
  BY <1>8 DEF FindUnit, PriceUnit, Resolves
<1>9. ASSUME NEW r \in Requests, AcceptCart(r) \/ RejectCart(r)
      PROVE  AttemptOK(q)'
  <2>1. CASE q = r
    <3>1. /\ pc[q] = "resolving" /\ pc'[q] \in {"numbering", "refused"}
          /\ tried'[q] = tried[q]
      BY <1>0, <1>9, <2>1 DEF AcceptCart, RejectCart
    <3>2. tried[q] = <<>>
      BY <3>1 DEF AttemptOK
    <3> QED
      BY <1>2, <3>1, <3>2
  <2>2. CASE q # r
    BY <1>0, <1>3, <1>9, <2>2 DEF AcceptCart, RejectCart
  <2> QED
    BY <2>1, <2>2
<1>10. ASSUME NEW r \in Requests,
              \/ GiveUp(r) \/ CheckCustomer(r) \/ CheckAddress(r)
              \/ Commit(r) \/ Publish(r) \/ Fail(r)
       PROVE  AttemptOK(q)'
  <2>1. /\ tried'[q] = tried[q]
        /\ pc'[q] = pc[q]
           \/ (pc'[q] \notin {"numbering", "gaveUp", "idle", "resolving"})
           \/ (pc'[q] = "gaveUp" /\ pc[q] = "numbering")
    BY <1>0, <1>10 DEF GiveUp, Check, CheckCustomer, CheckAddress, Commit, Publish, Fail
  <2>2. \A k \in 1..Len(tried[q]) : Lost(q, k)' => Lost(q, k)
    BY <2>1 DEF Lost
  <2> QED
    BY <1>2, <2>1, <2>2
<1>11. CASE Edit \/ UNCHANGED vars
  BY <1>3, <1>11 DEF Edit, vars
<1> QED
  BY <1>3, <1>4, <1>5, <1>6, <1>7, <1>8, <1>9, <1>10, <1>11 DEF Next, Step, Idle

\* A submission that placed an order has it, from its commit on.
LEMMA PlacersStep == Inv /\ [Next]_vars /\ PlacersHaveOrders => PlacersHaveOrders'
<1> SUFFICES ASSUME Inv, [Next]_vars, PlacersHaveOrders, NEW q \in Requests,
                    pc'[q] \in {"committed", "placed"}
             PROVE  \E i \in 1..Len(orders') : orders'[i].by = q
  BY DEF PlacersHaveOrders, OrdersOf
<1>1. CASE pc[q] \in {"committed", "placed"}
  BY <1>1, OrdersStay DEF PlacersHaveOrders, OrdersOf
<1>2. CASE Commit(q)
  <2>1. PICK o \in Order : o.by = q /\ orders' = Append(orders, o)
    BY <1>2, NewOrderFacts DEF Commit
  <2>2. orders \in Seq(Order) /\ Len(orders) \in Nat
    BY DEF Inv, TypeOK
  <2>3. Len(orders') = Len(orders) + 1 /\ orders'[Len(orders) + 1] = o
    BY <2>1, <2>2
  <2> QED
    BY <2>1, <2>2, <2>3
<1>3. CASE pc[q] \notin {"committed", "placed"} /\ ~Commit(q)
  <2>0. pc \in [Requests -> Stage]
    BY DEF Inv, TypeOK
  <2>1. ASSUME NEW r \in Requests,
               \/ \E c \in Carts : Submit(r, c)
               \/ \E u \in Units : FindUnit(r, u) \/ PriceUnit(r, u)
               \/ RejectCart(r) \/ AcceptCart(r) \/ TakeNumber(r) \/ GiveUp(r)
        PROVE  FALSE
    BY <1>3, <2>0, <2>1 DEF Submit, FindUnit, PriceUnit, Resolves, RejectCart, AcceptCart,
       TakeNumber, GiveUp
  <2>2. ASSUME NEW r \in Requests,
               \/ CheckCustomer(r) \/ CheckAddress(r) \/ Insert(r) \/ Commit(r)
               \/ Publish(r) \/ Fail(r)
        PROVE  FALSE
    BY <1>3, <2>0, <2>2 DEF Check, CheckCustomer, CheckAddress, Insert, Commit, Publish, Fail
  <2>3. CASE Edit \/ UNCHANGED vars
    BY <1>3, <2>3 DEF Edit, vars
  <2> QED
    BY <2>1, <2>2, <2>3 DEF Next, Step, Idle
<1> QED
  BY <1>1, <1>2, <1>3

\* Publish is after the commit, and the last step.
LEMMA AnnouncedStep == Inv /\ [Next]_vars /\ AnnouncedArePlaced => AnnouncedArePlaced'
<1> SUFFICES ASSUME Inv, [Next]_vars, AnnouncedArePlaced, NEW q \in announced'
             PROVE  pc'[q] = "placed"
  BY DEF AnnouncedArePlaced
<1>0. pc \in [Requests -> Stage] /\ announced \subseteq Requests
  BY DEF Inv, TypeOK
<1>1. CASE q \in announced
  <2>1. q \in Requests /\ pc[q] = "placed"
    BY <1>0, <1>1 DEF AnnouncedArePlaced
  <2>2. ASSUME NEW r \in Requests,
               \/ \E c \in Carts : Submit(r, c)
               \/ \E u \in Units : FindUnit(r, u) \/ PriceUnit(r, u)
               \/ RejectCart(r) \/ AcceptCart(r) \/ TakeNumber(r) \/ GiveUp(r)
        PROVE  pc'[q] = "placed"
    BY <1>0, <2>1, <2>2 DEF Submit, FindUnit, PriceUnit, Resolves, RejectCart, AcceptCart,
       TakeNumber, GiveUp
  <2>3. ASSUME NEW r \in Requests,
               \/ CheckCustomer(r) \/ CheckAddress(r) \/ Insert(r) \/ Commit(r)
               \/ Publish(r) \/ Fail(r)
        PROVE  pc'[q] = "placed"
    BY <1>0, <2>1, <2>3 DEF Check, CheckCustomer, CheckAddress, Insert, Commit, Publish, Fail,
       Ended
  <2>4. CASE Edit \/ UNCHANGED vars
    BY <2>1, <2>4 DEF Edit, vars
  <2> QED
    BY <2>2, <2>3, <2>4 DEF Next, Step, Idle
<1>2. CASE q \notin announced
  <2>1. PICK r \in Requests : Publish(r)
    BY <1>2 DEF Next, Step, Edit, Submit, FindUnit, PriceUnit, Resolves, RejectCart, AcceptCart,
       TakeNumber, GiveUp, Check, CheckCustomer, CheckAddress, Insert, Commit, Fail, Idle,
       vars, shop
  <2> QED
    BY <1>0, <1>2, <2>1 DEF Publish
<1> QED
  BY <1>1, <1>2

\* A submission is retried only after a conflict and never once it committed:
\* it leaves one order or none, tells so, and gives up only after as many
\* others as it made attempts were faster.
THEOREM AttemptsAreCounted == Spec => []AttemptsCounted
<1>1. Init => AttemptsOK
  <2> SUFFICES ASSUME Init  PROVE AttemptsOK
    OBVIOUS
  <2>1. \A r \in Requests : tried[r] = <<>> /\ pc[r] = "idle"
    BY DEF Init
  <2> QED
    BY <2>1 DEF Init, AttemptsOK, AttemptOK, PlacersHaveOrders, AnnouncedArePlaced
<1>2. Inv /\ AttemptsOK /\ [Next]_vars => AttemptsOK'
  BY AttemptStep, PlacersStep, AnnouncedStep DEF AttemptsOK
<1>3. Inv /\ AttemptsOK => AttemptsCounted
  <2> SUFFICES ASSUME Inv, AttemptsOK  PROVE OneOrderEach /\ LostToOthers
    BY DEF AttemptsCounted
  <2>1. ASSUME NEW r \in Requests
        PROVE  /\ pc[r] \in {"committed", "placed"} => Cardinality(OrdersOf(r)) = 1
               /\ pc[r] \notin {"committed", "placed"} => OrdersOf(r) = {}
               /\ r \in announced => OrdersOf(r) # {}
    <3>1. ASSUME pc[r] \in {"committed", "placed"}  PROVE Cardinality(OrdersOf(r)) = 1
      <4>1. PICK i : i \in OrdersOf(r)
        BY <3>1 DEF AttemptsOK, PlacersHaveOrders
      <4>2. OrdersOf(r) = {i}
        BY <4>1 DEF OrdersOf, Inv, OrderersDone
      <4> QED
        BY <4>2, FS_Singleton
    <3>2. pc[r] \notin {"committed", "placed"} => OrdersOf(r) = {}
      BY DEF OrdersOf, Inv, OrderersDone
    <3>3. r \in announced => OrdersOf(r) # {}
      BY DEF AttemptsOK, AnnouncedArePlaced, PlacersHaveOrders
    <3> QED
      BY <3>1, <3>2, <3>3
  <2>2. OneOrderEach
    BY <2>1 DEF OneOrderEach
  <2>3. ASSUME NEW r \in Requests, NEW k \in 1..Len(tried[r]), Lost(r, k)
        PROVE  /\ \E i \in 1..Len(orders) : orders[i].number = tried[r][k] /\ orders[i].by # r
               /\ \A j \in 1..(k - 1) : tried[r][j] # tried[r][k]
    <3>1. AttemptOK(r) /\ Len(tried[r]) \in Nat
      BY DEF AttemptsOK, Inv, TypeOK
    <3>2. \A j \in 1..(k - 1) : j \in 1..Len(tried[r]) /\ j < k
      BY <3>1
    <3> QED
      BY <2>3, <3>1, <3>2 DEF AttemptOK, LostToOther
  <2>4. LostToOthers
    BY <2>3 DEF LostToOthers
  <2> QED
    BY <2>2, <2>4
<1> QED
  BY <1>1, <1>2, <1>3, InvHolds, PTL DEF Spec

-----------------------------------------------------------------------------
(* What liveness rests on.  A submission asks for the units of its cart and  *)
(* for a bounded number of numbers; what it waits for is an insert that can  *)
(* be committed.                                                             *)

ProgressOK(r) ==
  /\ Len(tried[r]) <= MAX_ORDER_NUMBER_ATTEMPTS
  /\ pc[r] = "idle" => found[r] = {} /\ DOMAIN resolved[r] = {}
  /\ pc[r] = "resolving" =>
       found[r] \subseteq cart[r].units /\ DOMAIN resolved[r] \subseteq cart[r].units

LEMMA InitProgress == Init => \A r \in Requests : ProgressOK(r)
<1> SUFFICES ASSUME Init, NEW r \in Requests PROVE ProgressOK(r)
  OBVIOUS
<1>1. tried[r] = <<>> /\ found[r] = {} /\ pc[r] = "idle" /\ DOMAIN resolved[r] = {}
  BY DEF Init, Nothing
<1> QED
  BY <1>1 DEF ProgressOK

\* The state of its own that a submission keeps when another one steps.
LEMMA OthersKeep ==
  ASSUME TypeOK, NEW r \in Requests, NEW q \in Requests, q # r,
         (\E c \in Carts : Submit(q, c)) \/ Step(q) \/ Fail(q)
  PROVE  UNCHANGED <<pc[r], cart[r], found[r], resolved[r], tried[r]>>
<1>1. CASE \E c \in Carts : Submit(q, c)
  BY <1>1 DEF Submit, TypeOK
<1>2. CASE \E u \in Units : FindUnit(q, u) \/ PriceUnit(q, u)
  BY <1>2 DEF FindUnit, PriceUnit, Resolves, TypeOK
<1>3. CASE RejectCart(q) \/ AcceptCart(q) \/ TakeNumber(q) \/ GiveUp(q)
  BY <1>3 DEF RejectCart, AcceptCart, TakeNumber, GiveUp, TypeOK
<1>4. CASE CheckCustomer(q) \/ CheckAddress(q) \/ Insert(q) \/ Commit(q) \/ Publish(q) \/ Fail(q)
  BY <1>4 DEF Check, CheckCustomer, CheckAddress, Insert, Commit, Publish, Fail, TypeOK
<1> QED
  BY <1>1, <1>2, <1>3, <1>4 DEF Step

\* What one of the two transactions of a line does.
LEMMA UnitStep ==
  ASSUME TypeOK, NEW r \in Requests, NEW u \in Units, FindUnit(r, u) \/ PriceUnit(r, u)
  PROVE  /\ pc[r] = "resolving" /\ UNCHANGED <<pc, cart, tried>>
         /\ \/ /\ FindUnit(r, u) /\ u \in cart[r].units \ (found[r] \cup DOMAIN resolved[r])
               /\ \/ found'[r] = found[r] \cup {u} /\ DOMAIN resolved'[r] = DOMAIN resolved[r]
                  \/ found'[r] = found[r] /\ DOMAIN resolved'[r] = DOMAIN resolved[r] \cup {u}
            \/ /\ PriceUnit(r, u) /\ u \in found[r]
               /\ found'[r] = found[r] \ {u} /\ DOMAIN resolved'[r] = DOMAIN resolved[r] \cup {u}
<1>1. ASSUME NEW p, Resolves(r, u, p)
      PROVE  DOMAIN resolved'[r] = DOMAIN resolved[r] \cup {u} /\ UNCHANGED <<pc, cart, tried>>
  BY <1>1 DEF Resolves, TypeOK
<1>2. CASE FindUnit(r, u)
  BY <1>1, <1>2 DEF FindUnit, TypeOK
<1>3. CASE PriceUnit(r, u)
  BY <1>1, <1>3 DEF PriceUnit, TypeOK
<1> QED
  BY <1>2, <1>3

LEMMA ProgressStep ==
  ASSUME Inv, [Next]_vars, NEW r \in Requests, ProgressOK(r)
  PROVE  ProgressOK(r)'
<1>1. TypeOK /\ tried[r] \in Seq(Nat \ {0}) /\ Len(tried[r]) \in Nat
  BY DEF Inv, TypeOK
<1>2. ASSUME UNCHANGED <<pc[r], cart[r], found[r], resolved[r], tried[r]>> PROVE ProgressOK(r)'
  BY <1>2 DEF ProgressOK
<1>3. ASSUME UNCHANGED <<tried[r], found[r], resolved[r]>>, pc'[r] \notin {"idle", "resolving"}
      PROVE  ProgressOK(r)'
  BY <1>3 DEF ProgressOK
<1>4. ASSUME NEW c \in Carts, Submit(r, c) PROVE ProgressOK(r)'
  <2>1. pc[r] = "idle" /\ pc'[r] = "resolving" /\ UNCHANGED <<found, resolved, tried>>
    BY <1>1, <1>4 DEF Submit, TypeOK
  <2> QED
    BY <2>1 DEF ProgressOK
<1>5. ASSUME NEW u \in Units, FindUnit(r, u) \/ PriceUnit(r, u) PROVE ProgressOK(r)'
  BY <1>1, <1>5, UnitStep DEF ProgressOK
<1>6. CASE TakeNumber(r)
  <2>1. /\ pc'[r] = "numbered" /\ tried'[r] = Append(tried[r], NextNumber)
        /\ Len(tried[r]) < MAX_ORDER_NUMBER_ATTEMPTS
    BY <1>1, <1>6 DEF TakeNumber, TypeOK
  <2>2. Len(tried'[r]) = Len(tried[r]) + 1
    <3>1. NextNumber \in Nat \ {0}
      <4>1. NextNumber = Len(orders) + 1 /\ Len(orders) \in Nat
        BY <1>1, NextIsCount DEF Inv, TypeOK
      <4> QED
        BY <4>1
    <3> QED
      BY <1>1, <2>1, <3>1
  <2> QED
    BY <1>1, <2>1, <2>2 DEF ProgressOK
<1>7. CASE RejectCart(r) \/ AcceptCart(r) \/ GiveUp(r)
  <2>1. pc'[r] \in {"refused", "numbering", "gaveUp"} /\ UNCHANGED <<found, resolved, tried>>
    BY <1>1, <1>7 DEF RejectCart, AcceptCart, GiveUp, TypeOK
  <2> QED
    BY <1>3, <2>1
<1>8. CASE CheckCustomer(r) \/ CheckAddress(r) \/ Insert(r) \/ Commit(r) \/ Publish(r) \/ Fail(r)
  <2>1. pc'[r] \notin {"idle", "resolving"} /\ UNCHANGED <<found, resolved, tried>>
    BY <1>1, <1>8 DEF Check, CheckCustomer, CheckAddress, Insert, Commit, Publish, Fail, TypeOK
  <2> QED
    BY <1>3, <2>1
<1>9. CASE Edit \/ Idle \/ UNCHANGED vars
  BY <1>2, <1>9 DEF Edit, Idle, vars
<1> QED
  BY <1>1, <1>2, <1>4, <1>5, <1>6, <1>7, <1>8, <1>9, OthersKeep DEF Next, Step

LEMMA ProgressHolds == Spec => [](Inv /\ \A r \in Requests : ProgressOK(r))
<1>1. Inv /\ (\A r \in Requests : ProgressOK(r)) /\ [Next]_vars
        => (\A r \in Requests : ProgressOK(r))'
  BY ProgressStep
<1> QED
  BY <1>1, InitProgress, InvHolds, PTL DEF Spec

\* A submission under way can take its next step, or waits for one that can: no
\* line is left without a transaction, no insert waits for a circle.
THEOREM EachSubmissionGoesOn == Spec => []SubmissionsGoOn
<1>1. ASSUME Inv, \A r \in Requests : ProgressOK(r) PROVE SubmissionsGoOn
  <2> SUFFICES ASSUME NEW r \in Requests, pc[r] # "idle", ~Ended(r), ~CanGoOn(r)
               PROVE  \E q \in Requests : WaitsFor(r, q) /\ CanGoOn(q)
    BY DEF SubmissionsGoOn
  <2>1. pc[r] \in Stage /\ ProgressOK(r) /\ cart[r] \in Carts
    BY <1>1 DEF Inv, TypeOK, SubmissionOK
  <2>2. pc[r] # "resolving"
    BY <2>1 DEF CanGoOn, ProgressOK, Carts
  <2>3. pc[r] = "addressOk"
    BY <2>1, <2>2 DEF Stage, Ended, CanGoOn, ProgressOK
  <2>4. PICK q \in Requests : WaitsFor(r, q)
    BY <2>3 DEF CanGoOn
  <2>5. CanGoOn(q)
    BY <2>4 DEF WaitsFor, CanGoOn
  <2> QED
    BY <2>4, <2>5
<1> QED
  BY <1>1, ProgressHolds, PTL

\* A line's transaction leaves one less.
LEMMA UnitsDescend ==
  ASSUME IsFiniteSet(Units), Inv, NEW r \in Requests, NEW u \in Units,
         FindUnit(r, u) \/ PriceUnit(r, u)
  PROVE  TransactionsLeft(r)' < TransactionsLeft(r)
<1> DEFINE todo == cart[r].units \ (found[r] \cup DOMAIN resolved[r])
           open == found[r]
<1>1. TypeOK /\ SubmissionOK(r)
  BY DEF Inv
<1>2. pc[r] = "resolving" /\ UNCHANGED <<pc, cart, tried>>
  BY <1>1, UnitStep
<1>3. todo \subseteq Units /\ open \subseteq Units
  BY <1>1, <1>2 DEF SubmissionOK, Carts, TypeOK
<1>4. IsFiniteSet(todo) /\ IsFiniteSet(open)
  BY <1>3, FS_Subset
<1>5. Cardinality(todo) \in Nat /\ Cardinality(open) \in Nat
  BY <1>4, FS_CardinalityType
<1>6. /\ TransactionsLeft(r) = 2 * Cardinality(todo) + Cardinality(open)
      /\ TransactionsLeft(r)' = 2 * Cardinality(todo') + Cardinality(open')
  BY DEF TransactionsLeft
<1>7. \/ u \in todo /\ todo' = todo \ {u} /\ open' \in {open, open \cup {u}} /\ u \notin open
      \/ todo' = todo /\ u \in open /\ open' = open \ {u}
  BY <1>1, <1>2, UnitStep
<1> HIDE DEF todo, open
<1>8. CASE u \in todo /\ todo' = todo \ {u} /\ open' \in {open, open \cup {u}} /\ u \notin open
  <2>1. Cardinality(todo') = Cardinality(todo) - 1
    BY <1>4, <1>8, FS_RemoveElement
  <2>2. Cardinality(open') \in {Cardinality(open), Cardinality(open) + 1}
    BY <1>4, <1>8, FS_AddElement
  <2> QED
    BY <1>5, <1>6, <2>1, <2>2
<1>9. CASE todo' = todo /\ u \in open /\ open' = open \ {u}
  <2>1. Cardinality(open') = Cardinality(open) - 1
    BY <1>4, <1>9, FS_RemoveElement
  <2> QED
    BY <1>5, <1>6, <1>9, <2>1
<1> QED
  BY <1>7, <1>8, <1>9

\* A submission under way has a step before it.
LEMMA StepsLeftTyped ==
  ASSUME IsFiniteSet(Units), Inv, NEW r \in Requests, ProgressOK(r), pc[r] # "idle", ~Ended(r)
  PROVE  /\ MAX_ORDER_NUMBER_ATTEMPTS - Len(tried[r]) \in Nat
         /\ pc[r] = "resolving" => TransactionsLeft(r) \in Nat
         /\ StepsLeft(r) \in Nat \ {0}
<1>1. TypeOK /\ SubmissionOK(r) /\ pc[r] \in Stage /\ cart[r] \in Carts
  BY DEF Inv, TypeOK, SubmissionOK
<1>2. MAX_ORDER_NUMBER_ATTEMPTS - Len(tried[r]) \in Nat
  <2>1. tried[r] \in Seq(Nat \ {0})
    BY <1>1 DEF TypeOK
  <2> QED
    BY <2>1 DEF ProgressOK
<1>3. TransactionsLeft(r) \in Nat
  <2>1. cart[r].units \ (found[r] \cup DOMAIN resolved[r]) \subseteq Units /\ found[r] \subseteq Units
    BY <1>1 DEF Carts, TypeOK
  <2>2. /\ Cardinality(cart[r].units \ (found[r] \cup DOMAIN resolved[r])) \in Nat
        /\ Cardinality(found[r]) \in Nat
    BY <2>1, FS_Subset, FS_CardinalityType
  <2> QED
    BY <2>2 DEF TransactionsLeft
<1>4. StepsLeft(r) \in Nat \ {0}
  <2> DEFINE left == 6 * (MAX_ORDER_NUMBER_ATTEMPTS - Len(tried[r]))
  <2>1. left \in Nat
    BY <1>2
  <2>2. StepsLeft(r) \in {left + n : n \in {1, 2, 3, 4, 5, 6, TransactionsLeft(r) + 2}}
    BY DEF StepsLeft
  <2> HIDE DEF left
  <2> QED
    BY <1>3, <2>1, <2>2
<1> QED
  BY <1>2, <1>3, <1>4

\* A submission's step takes one of those it has before it.
LEMMA StepDescends ==
  ASSUME IsFiniteSet(Units), Inv, NEW r \in Requests, ProgressOK(r), pc[r] # "idle", ~Ended(r),
         Step(r) \/ Fail(r)
  PROVE  StepsLeft(r)' < StepsLeft(r)
<1>1. TypeOK /\ SubmissionOK(r) /\ tried[r] \in Seq(Nat \ {0})
  BY DEF Inv, TypeOK
<1>2. /\ MAX_ORDER_NUMBER_ATTEMPTS - Len(tried[r]) \in Nat
      /\ pc[r] = "resolving" => TransactionsLeft(r) \in Nat
      /\ StepsLeft(r) \in Nat \ {0}
  BY StepsLeftTyped
<1>3. ASSUME Ended(r)' PROVE StepsLeft(r)' < StepsLeft(r)
  BY <1>2, <1>3 DEF StepsLeft
<1>4. ASSUME tried'[r] = tried[r],
             \/ pc[r] = "resolving" /\ pc'[r] = "numbering"
             \/ pc[r] = "numbered" /\ pc'[r] = "customerOk"
             \/ pc[r] = "customerOk" /\ pc'[r] = "addressOk"
             \/ pc[r] = "addressOk" /\ pc'[r] \in {"numbering", "inserted"}
             \/ pc[r] = "inserted" /\ pc'[r] = "committed"
      PROVE  StepsLeft(r)' < StepsLeft(r)
  <2> DEFINE left == 6 * (MAX_ORDER_NUMBER_ATTEMPTS - Len(tried[r]))
  <2>1. left \in Nat /\ left' = left
    BY <1>2, <1>4
  <2>2. /\ pc[r] = "resolving" => StepsLeft(r) = left + (TransactionsLeft(r) + 2)
        /\ pc[r] = "numbered" => StepsLeft(r) = left + 6
        /\ pc[r] = "customerOk" => StepsLeft(r) = left + 5
        /\ pc[r] = "addressOk" => StepsLeft(r) = left + 4
        /\ pc[r] = "inserted" => StepsLeft(r) = left + 3
    BY DEF StepsLeft
  <2>3. /\ pc'[r] = "numbering" => StepsLeft(r)' = left' + 1
        /\ pc'[r] = "customerOk" => StepsLeft(r)' = left' + 5
        /\ pc'[r] = "addressOk" => StepsLeft(r)' = left' + 4
        /\ pc'[r] = "inserted" => StepsLeft(r)' = left' + 3
        /\ pc'[r] = "committed" => StepsLeft(r)' = left' + 2
    BY DEF StepsLeft, Ended
  <2> HIDE DEF left
  <2>4. CASE pc[r] = "resolving" /\ pc'[r] = "numbering"
    BY <1>2, <2>1, <2>2, <2>3, <2>4
  <2>5. CASE pc[r] = "addressOk" /\ pc'[r] \in {"numbering", "inserted"}
    BY <2>1, <2>2, <2>3, <2>5
  <2>6. CASE \/ pc[r] = "numbered" /\ pc'[r] = "customerOk"
             \/ pc[r] = "customerOk" /\ pc'[r] = "addressOk"
             \/ pc[r] = "inserted" /\ pc'[r] = "committed"
    BY <2>1, <2>2, <2>3, <2>6
  <2> QED
    BY <1>4, <2>4, <2>5, <2>6
<1>5. ASSUME NEW u \in Units, FindUnit(r, u) \/ PriceUnit(r, u) PROVE StepsLeft(r)' < StepsLeft(r)
  <2>1. pc[r] = "resolving" /\ pc'[r] = "resolving" /\ tried' = tried
    BY <1>1, <1>5, UnitStep
  <2>2. TransactionsLeft(r)' < TransactionsLeft(r)
    BY <1>5, UnitsDescend
  <2>3. TransactionsLeft(r)' \in Int
    <3>1. found'[r] \subseteq Units
      BY <1>1, <1>5, UnitStep DEF TypeOK
    <3>2. cart'[r].units \ (found'[r] \cup DOMAIN resolved'[r]) \subseteq Units
      BY <1>1, <1>5, <2>1, UnitStep DEF SubmissionOK, Carts
    <3>3. /\ Cardinality(cart'[r].units \ (found'[r] \cup DOMAIN resolved'[r])) \in Nat
          /\ Cardinality(found'[r]) \in Nat
      BY <3>1, <3>2, FS_Subset, FS_CardinalityType
    <3> QED
      BY <3>3 DEF TransactionsLeft
  <2> DEFINE left == 6 * (MAX_ORDER_NUMBER_ATTEMPTS - Len(tried[r]))
  <2>4. left \in Nat /\ left' = left
    BY <1>2, <2>1
  <2>5. StepsLeft(r) = left + (TransactionsLeft(r) + 2)
    BY <2>1 DEF StepsLeft
  <2>6. StepsLeft(r)' = left' + (TransactionsLeft(r)' + 2)
    BY <2>1 DEF StepsLeft, Ended
  <2> HIDE DEF left
  <2> QED
    BY <1>2, <2>1, <2>2, <2>3, <2>4, <2>5, <2>6
<1>6. CASE TakeNumber(r)
  <2>1. /\ pc[r] = "numbering" /\ pc'[r] = "numbered"
        /\ tried'[r] = Append(tried[r], NextNumber)
        /\ Len(tried[r]) < MAX_ORDER_NUMBER_ATTEMPTS
    BY <1>1, <1>6 DEF TakeNumber, TypeOK
  <2>2. NextNumber \in Nat \ {0}
    <3>1. NextNumber = Len(orders) + 1 /\ Len(orders) \in Nat
      BY <1>1, NextIsCount DEF Inv, TypeOK
    <3> QED
      BY <3>1
  <2>3. Len(tried'[r]) = Len(tried[r]) + 1 /\ Len(tried[r]) \in Nat
    BY <1>1, <2>1, <2>2
  <2>4. /\ StepsLeft(r) = 6 * (MAX_ORDER_NUMBER_ATTEMPTS - Len(tried[r])) + 1
        /\ StepsLeft(r)' = 6 * (MAX_ORDER_NUMBER_ATTEMPTS - Len(tried'[r])) + 6
    BY <2>1 DEF StepsLeft, Ended
  <2>5. ASSUME NEW n \in Nat, Len(tried'[r]) = n + 1, Len(tried[r]) = n
        PROVE  StepsLeft(r)' < StepsLeft(r)
    BY <2>4, <2>5
  <2> QED
    BY <2>3, <2>5
<1>7. CASE RejectCart(r) \/ AcceptCart(r) \/ GiveUp(r)
  <2>1. /\ tried' = tried
        /\ pc'[r] \in {"refused", "gaveUp"} \/ (pc[r] = "resolving" /\ pc'[r] = "numbering")
    BY <1>1, <1>7 DEF RejectCart, AcceptCart, GiveUp, TypeOK
  <2> QED
    BY <1>3, <1>4, <2>1 DEF Ended
<1>8. CASE CheckCustomer(r) \/ CheckAddress(r) \/ Insert(r) \/ Commit(r)
  <2>1. /\ tried' = tried
        /\ \/ pc'[r] = "refused"
           \/ pc[r] = "numbered" /\ pc'[r] = "customerOk"
           \/ pc[r] = "customerOk" /\ pc'[r] = "addressOk"
           \/ pc[r] = "addressOk" /\ pc'[r] \in {"numbering", "inserted"}
           \/ pc[r] = "inserted" /\ pc'[r] = "committed"
    BY <1>1, <1>8 DEF Check, CheckCustomer, CheckAddress, Insert, Commit, TypeOK
  <2> QED
    BY <1>3, <1>4, <2>1 DEF Ended
<1>9. CASE Publish(r) \/ Fail(r)
  <2>1. pc'[r] \in {"placed", "failed"}
    BY <1>1, <1>9 DEF Publish, Fail, TypeOK
  <2> QED
    BY <1>3, <2>1 DEF Ended
<1> QED
  BY <1>5, <1>6, <1>7, <1>8, <1>9 DEF Step

\* Each step of a submission under way, the retries after a lost number included,
\* takes one of the bounded number that it has before it, and nobody else's step
\* gives any back.
THEOREM SubmissionsComeNearer ==
  ASSUME IsFiniteSet(Units)
  PROVE  Spec => SubmissionsDescend
<1> DEFINE A == \A r \in Requests : pc[r] # "idle" /\ ~Ended(r) =>
                  /\ StepsLeft(r) \in Nat \ {0}
                  /\ Step(r) => StepsLeft(r)' < StepsLeft(r)
                  /\ \/ UNCHANGED <<pc[r], cart[r], found[r], resolved[r], tried[r]>>
                     \/ StepsLeft(r)' < StepsLeft(r)
<1>1. ASSUME Inv, \A r \in Requests : ProgressOK(r), [Next]_vars PROVE A
  <2> SUFFICES ASSUME NEW r \in Requests, pc[r] # "idle", ~Ended(r)
               PROVE  /\ StepsLeft(r) \in Nat \ {0}
                      /\ Step(r) => StepsLeft(r)' < StepsLeft(r)
                      /\ \/ UNCHANGED <<pc[r], cart[r], found[r], resolved[r], tried[r]>>
                         \/ StepsLeft(r)' < StepsLeft(r)
    OBVIOUS
  <2>1. StepsLeft(r) \in Nat \ {0}
    BY <1>1, StepsLeftTyped
  <2>2. Step(r) \/ Fail(r) => StepsLeft(r)' < StepsLeft(r)
    BY <1>1, StepDescends
  <2>3. ASSUME NEW q \in Requests, q # r, (\E c \in Carts : Submit(q, c)) \/ Step(q) \/ Fail(q)
        PROVE  UNCHANGED <<pc[r], cart[r], found[r], resolved[r], tried[r]>>
    BY <1>1, <2>3, OthersKeep DEF Inv
  <2>4. ~\E c \in Carts : Submit(r, c)
    BY DEF Submit
  <2>5. Edit \/ Idle \/ UNCHANGED vars =>
          UNCHANGED <<pc[r], cart[r], found[r], resolved[r], tried[r]>>
    BY DEF Edit, Idle, vars
  <2> QED
    BY <1>1, <2>1, <2>2, <2>3, <2>4, <2>5 DEF Next
<1>2. Inv /\ (\A r \in Requests : ProgressOK(r)) /\ [Next]_vars => [A]_vars
  BY <1>1
<1> QED
  BY <1>2, ProgressHolds, PTL DEF Spec, SubmissionsDescend
=============================================================================
