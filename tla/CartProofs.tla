------------------------------ MODULE CartProofs -------------------------------
(* Theorems about Cart, for any number of tabs, units, customers and calls.     *)
EXTENDS CartProperties, SequenceTheorems, TLAPS

Quantities == [Units -> Int]
LookUps == [items : Quantities, issues : SUBSET Units]
CallType == [does : {"resolve"}, items : Quantities, answer : LookUps \cup {None}] \cup
            [does : {"submit"}, items : Quantities, answer : Quantities \cup {None}]
PageType == [page : BuyersPages \cup ShowsLines, customer : Customers \cup {None},
             items : Quantities, resolved : LookUps \cup {None},
             calls : Seq(CallType), missed : BOOLEAN]

(* A submission orders the cart as it is, which the page it was sent from cannot *)
(* change; its answer is what it ordered: all of it, or nothing.  A look-up is   *)
(* answered for the lines it asked for.                                         *)
AsCalled(p, call) ==
    /\ call.does = "submit" =>
           /\ p.page \in {"checkout", "newOrder"}
           /\ p.page = "checkout" => call.items = p.items
           /\ call.answer \in {None, Nothing, call.items}
    /\ call.does = "resolve" /\ call.answer # None => call.answer.items = call.items

(* The last of a page's look-ups, to come or arrived, is of its present lines.  *)
LooksUp(p, i) == p.calls[i].does = "resolve"
LooksUpLast(p, i) ==
    /\ LooksUp(p, i)
    /\ p.calls[i].items = p.items
    /\ \A j \in 1..Len(p.calls) : j > i => ~LooksUp(p, j)
LookUpCurrent(p) ==
    \/ \E i \in 1..Len(p.calls) : LooksUpLast(p, i)
    \/ /\ \A i \in 1..Len(p.calls) : ~LooksUp(p, i)
       /\ p.missed \/ (p.resolved # None /\ p.resolved.items = p.items)

PageOK(p) ==
    /\ p \in PageType
    /\ \A i \in 1..Len(p.calls) : AsCalled(p, p.calls[i])
    /\ p.page \in ShowsLines /\ p.items # Nothing => LookUpCurrent(p)

CartInv ==
    /\ browser \in Browsers
    /\ storage \in Quantities
    /\ wanted = storage
    /\ tab \in [Tabs -> PageType]
    /\ \A t \in Tabs : PageOK(tab[t])

-------------------------------------------------------------------------------

LEMMA NothingType == Nothing \in Quantities
  BY DEF Nothing, Quantities

(* A page that has just been opened looks its lines up.                         *)
LEMMA NewPageOK ==
  ASSUME NEW page \in BuyersPages \cup ShowsLines, NEW k \in Customers \cup {None},
         NEW items \in Quantities
  PROVE  PageOK(Page(page, k, items))
<1> DEFINE p == Page(page, k, items)
<1>1. p.page = page /\ p.items = items /\ p.calls = ResolveCalls(page, items)
  BY DEF Page
<1>2. /\ Resolve(items) \in CallType /\ Resolve(items).does = "resolve"
      /\ Resolve(items).items = items /\ Resolve(items).answer = None
  BY DEF Resolve, CallType
<1>3. ResolveCalls(page, items) \in Seq(CallType)
  BY <1>2 DEF ResolveCalls
<1>4. p \in PageType
  BY <1>3 DEF PageType, Page
<1>5. CASE page \in ShowsLines /\ items # Nothing
  <2>1. p.calls = <<Resolve(items)>>
    BY <1>1, <1>5 DEF ResolveCalls
  <2>2. Len(p.calls) = 1 /\ p.calls[1] = Resolve(items)
    BY <2>1
  <2>3. LooksUpLast(p, 1)
    BY <2>2, <1>1, <1>2 DEF LooksUpLast, LooksUp
  <2>4. \A i \in 1..Len(p.calls) : p.calls[i].does = "resolve" /\ p.calls[i].answer = None
    <3>1. \A i \in 1..Len(p.calls) : i = 1
      BY <2>2
    <3> QED
      BY <3>1, <2>2, <1>2
  <2>5. \A i \in 1..Len(p.calls) : AsCalled(p, p.calls[i])
    BY <2>4 DEF AsCalled
  <2> QED
    BY <1>4, <2>2, <2>3, <2>5 DEF PageOK, LookUpCurrent
<1>6. CASE ~(page \in ShowsLines /\ items # Nothing)
  BY <1>1, <1>4, <1>6 DEF PageOK, ResolveCalls
<1> QED
  BY <1>5, <1>6

(* The cart changes: what was looked up before counts no more.                  *)
LEMMA ChangedPageOK ==
  ASSUME NEW p, PageOK(p), NEW items \in Quantities,
         p.page # "checkout" \/ items = p.items
  PROVE  PageOK([p EXCEPT !.items = items, !.calls = p.calls \o ResolveCalls(p.page, items)])
<1> DEFINE q == [p EXCEPT !.items = items, !.calls = p.calls \o ResolveCalls(p.page, items)]
<1>1. p \in PageType /\ p.calls \in Seq(CallType)
  BY DEF PageOK, PageType
<1>2. /\ Resolve(items) \in CallType /\ Resolve(items).does = "resolve"
      /\ Resolve(items).items = items /\ Resolve(items).answer = None
  BY DEF Resolve, CallType
<1>3. ResolveCalls(p.page, items) \in Seq(CallType)
  BY <1>2 DEF ResolveCalls
<1>4. /\ q.page = p.page /\ q.items = items /\ q.resolved = p.resolved /\ q.missed = p.missed
      /\ q.calls = p.calls \o ResolveCalls(p.page, items)
  BY <1>1 DEF PageType
<1>5. q \in PageType
  <2>1. p.calls \o ResolveCalls(p.page, items) \in Seq(CallType)
    BY <1>1, <1>3
  <2> QED
    BY <1>1, <2>1 DEF PageType
<1> HIDE DEF q
<1>6. PICK c \in Seq(CallType) : c = p.calls
  BY <1>1
<1>7. PICK d \in Seq(CallType) : d = ResolveCalls(p.page, items)
  BY <1>3
<1>8. /\ Len(c) \in Nat /\ Len(d) \in Nat /\ Len(c \o d) = Len(c) + Len(d)
      /\ \A i \in 1..Len(c) : (c \o d)[i] = c[i]
      /\ \A i \in 1..Len(d) : (c \o d)[Len(c) + i] = d[i]
  <2>1. Len(c) \in Nat /\ Len(d) \in Nat /\ Len(c \o d) = Len(c) + Len(d)
    OBVIOUS
  <2>2. \A i \in 1..Len(c) : (c \o d)[i] = c[i]
    OBVIOUS
  <2>3. \A i \in 1..Len(d) : (c \o d)[Len(c) + i] = d[i]
    BY ConcatProperties, <2>1
  <2> QED
    BY <2>1, <2>2, <2>3
<1>9. d = <<>> \/ d = <<Resolve(items)>>
  BY <1>7 DEF ResolveCalls
<1>10. \A i \in 1..Len(q.calls) : AsCalled(q, q.calls[i])
  <2>1. \A i \in 1..Len(c) : AsCalled(p, c[i])
    BY <1>6 DEF PageOK
  <2>2. ASSUME NEW i \in 1..Len(q.calls)
        PROVE  AsCalled(q, q.calls[i])
    <3>1. q.calls = c \o d
      BY <1>4, <1>6, <1>7
    <3>2. CASE i \in 1..Len(c)
      <4>1. q.calls[i] = c[i]
        BY <1>8, <3>1, <3>2
      <4> QED
        BY <4>1, <2>1, <3>2, <1>4 DEF AsCalled
    <3>3. CASE i \notin 1..Len(c)
      <4>1. Len(d) = 1 /\ i = Len(c) + 1 /\ d[1] = Resolve(items)
        BY <1>8, <1>9, <3>1, <3>3
      <4>2. q.calls[i] = Resolve(items)
        BY <4>1, <3>1, <1>8
      <4> QED
        BY <4>2, <1>2 DEF AsCalled
    <3> QED
      BY <3>2, <3>3
  <2> QED
    BY <2>2
<1>11. CASE p.page \in ShowsLines /\ items # Nothing
  <2>1. d = <<Resolve(items)>>
    BY <1>7, <1>11 DEF ResolveCalls
  <2>2. PICK n \in Nat : n = Len(c) + 1
    BY <1>8
  <2>3. Len(q.calls) = n /\ q.calls[n] = Resolve(items)
    <3>1. Len(d) = 1 /\ d[1] = Resolve(items) /\ 1 \in 1..Len(d)
      BY <2>1
    <3> QED
      BY <3>1, <2>2, <1>4, <1>6, <1>7, <1>8
  <2>4. LooksUpLast(q, n)
    <3>1. \A j \in 1..Len(q.calls) : ~(j > n)
      BY <2>2, <2>3
    <3>2. q.calls[n].does = "resolve" /\ q.calls[n].items = q.items
      BY <2>3, <1>2, <1>4
    <3> QED
      BY <3>1, <3>2 DEF LooksUpLast, LooksUp
  <2>5. n \in 1..Len(q.calls)
    BY <2>2, <2>3, <1>8
  <2> QED
    BY <1>5, <1>10, <2>4, <2>5 DEF PageOK, LookUpCurrent, q
<1>12. CASE ~(p.page \in ShowsLines /\ items # Nothing)
  BY <1>4, <1>5, <1>10, <1>12 DEF PageOK, q
<1> QED
  BY <1>11, <1>12

(* An answer to a page's first call.                                            *)
LEMMA AnsweredPageOK ==
  ASSUME NEW p, PageOK(p), p.calls # <<>>, NEW answer,
         \/ p.calls[1].does = "resolve" /\ answer \in LookUps /\ answer.items = p.calls[1].items
         \/ p.calls[1].does = "submit" /\ answer \in {Nothing, p.calls[1].items}
  PROVE  PageOK([p EXCEPT !.calls = [p.calls EXCEPT ![1] = [p.calls[1] EXCEPT !.answer = answer]]])
<1> DEFINE call == [p.calls[1] EXCEPT !.answer = answer]
           q == [p EXCEPT !.calls = [p.calls EXCEPT ![1] = call]]
<1>1. p \in PageType /\ p.calls \in Seq(CallType) /\ p.calls[1] \in CallType
  BY DEF PageOK, PageType
<1>2. /\ call \in CallType
      /\ call.does = p.calls[1].does /\ call.items = p.calls[1].items /\ call.answer = answer
  BY <1>1, NothingType DEF CallType
<1>3. q \in PageType
  <2>1. [p.calls EXCEPT ![1] = call] \in Seq(CallType)
    BY <1>1, <1>2
  <2> HIDE DEF call
  <2> QED
    BY <1>1, <2>1 DEF PageType
<1>4. /\ q.page = p.page /\ q.items = p.items /\ q.resolved = p.resolved /\ q.missed = p.missed
      /\ q.calls = [p.calls EXCEPT ![1] = call]
  BY <1>1 DEF PageType
<1>5. /\ Len(q.calls) = Len(p.calls) /\ q.calls[1] = call
      /\ \A i \in 1..Len(p.calls) : i # 1 => q.calls[i] = p.calls[i]
  BY <1>1, <1>4
<1>6. 1 \in 1..Len(p.calls)
  BY <1>1
<1> HIDE DEF q, call
<1>7. \A i \in 1..Len(q.calls) : AsCalled(q, q.calls[i])
  <2>1. \A i \in 1..Len(p.calls) : AsCalled(p, p.calls[i])
    BY DEF PageOK
  <2>2. AsCalled(q, call)
    BY <1>2, <1>4, <1>6, <2>1 DEF AsCalled
  <2>3. ASSUME NEW i \in 1..Len(q.calls), i # 1
        PROVE  AsCalled(q, q.calls[i])
    BY <1>4, <1>5, <2>1, <2>3 DEF AsCalled
  <2> QED
    BY <1>5, <2>2, <2>3
<1>8. /\ \A i \in 1..Len(p.calls) : LooksUp(q, i) <=> LooksUp(p, i)
      /\ \A i \in 1..Len(p.calls) : LooksUpLast(p, i) => LooksUpLast(q, i)
  <2>1. \A i \in 1..Len(p.calls) : /\ q.calls[i].does = p.calls[i].does
                                   /\ q.calls[i].items = p.calls[i].items
    BY <1>2, <1>5
  <2> QED
    BY <2>1, <1>4, <1>5 DEF LooksUp, LooksUpLast
<1> QED
  <2>1. q.page \in ShowsLines /\ q.items # Nothing => LookUpCurrent(p)
    BY <1>4 DEF PageOK
  <2>2. LookUpCurrent(p) => LookUpCurrent(q)
    BY <1>4, <1>5, <1>8 DEF LookUpCurrent
  <2> QED
    BY <1>3, <1>7, <2>1, <2>2 DEF PageOK, q, call

(* The first call is done with.  `missed` becomes what it is now for a look-up.  *)
LEMMA DonePageOK ==
  ASSUME NEW p, PageOK(p), p.calls # <<>>,
         NEW resolved \in LookUps \cup {None}, NEW missed \in BOOLEAN,
         \/ /\ p.calls[1].does = "submit"
            /\ resolved = p.resolved /\ missed = p.missed
         \/ /\ p.calls[1].does = "resolve"
            /\ missed \/ (resolved # None /\ resolved.items = p.calls[1].items)
  PROVE  PageOK([p EXCEPT !.resolved = resolved, !.missed = missed, !.calls = Tail(p.calls)])
<1> DEFINE q == [p EXCEPT !.resolved = resolved, !.missed = missed, !.calls = Tail(p.calls)]
<1>1. p \in PageType /\ p.calls \in Seq(CallType) /\ p.calls[1] \in CallType
  BY DEF PageOK, PageType
<1>2. Tail(p.calls) \in Seq(CallType)
  BY <1>1
<1>3. q \in PageType
  BY <1>1, <1>2 DEF PageType
<1>4. /\ q.page = p.page /\ q.items = p.items /\ q.resolved = resolved /\ q.missed = missed
      /\ q.calls = Tail(p.calls)
  BY <1>1 DEF PageType
<1>5. PICK n \in Nat : Len(p.calls) = n + 1
  <2>1. Len(p.calls) \in Nat /\ Len(p.calls) # 0
    BY <1>1
  <2>2. Len(p.calls) - 1 \in Nat /\ Len(p.calls) = Len(p.calls) - 1 + 1
    BY <2>1
  <2> QED
    BY <2>2
<1> HIDE DEF q
<1>6. Len(q.calls) = n /\ \A i \in 1..n : q.calls[i] = p.calls[i + 1]
  BY <1>1, <1>4, <1>5
<1>7. \A i \in 1..n : i + 1 \in 1..Len(p.calls)
  BY <1>5
<1>8. \A i \in 1..Len(q.calls) : AsCalled(q, q.calls[i])
  <2>1. \A i \in 1..Len(p.calls) : AsCalled(p, p.calls[i])
    BY DEF PageOK
  <2>2. ASSUME NEW i \in 1..n  PROVE  AsCalled(q, q.calls[i])
    BY <1>4, <1>6, <1>7, <2>1 DEF AsCalled
  <2> QED
    BY <1>6, <2>2
<1>9. ASSUME q.page \in ShowsLines, q.items # Nothing
      PROVE  LookUpCurrent(q)
  <2>1. LookUpCurrent(p)
    BY <1>4, <1>9 DEF PageOK
  <2>2. ASSUME NEW i \in 1..Len(p.calls), LooksUpLast(p, i)
        PROVE  LookUpCurrent(q)
    <3>1. CASE i = 1
      <4>1. p.calls[1].does = "resolve" /\ p.calls[1].items = p.items
        BY <2>2, <3>1 DEF LooksUpLast, LooksUp
      <4>2. \A j \in 1..n : ~LooksUp(q, j)
        <5>1. ASSUME NEW j \in 1..n  PROVE  ~LooksUp(q, j)
          <6>1. j + 1 > i /\ j + 1 \in 1..Len(p.calls)
            BY <3>1, <1>7
          <6>2. ~LooksUp(p, j + 1)
            BY <2>2, <6>1 DEF LooksUpLast
          <6> QED
            BY <6>2, <1>6 DEF LooksUp
        <5> QED
          BY <5>1
      <4>3. missed \/ (resolved # None /\ resolved.items = p.items)
        BY <4>1
      <4> QED
        BY <4>2, <4>3, <1>4, <1>6 DEF LookUpCurrent
    <3>2. CASE i # 1
      <4>1. PICK k \in 1..n : k + 1 = i
        <5>1. i - 1 \in 1..n /\ i - 1 + 1 = i
          BY <3>2, <1>5
        <5> QED
          BY <5>1
      <4>2. q.calls[k] = p.calls[i]
        BY <4>1, <1>6
      <4>3. ASSUME NEW j \in 1..n, j > k  PROVE  ~LooksUp(q, j)
        <5>1. j + 1 > i /\ j + 1 \in 1..Len(p.calls)
          BY <4>1, <4>3, <1>7
        <5>2. ~LooksUp(p, j + 1)
          BY <2>2, <5>1 DEF LooksUpLast
        <5> QED
          BY <5>2, <1>6 DEF LooksUp
      <4>4. LooksUpLast(q, k)
        BY <4>2, <4>3, <2>2, <1>4, <1>6 DEF LooksUpLast, LooksUp
      <4> QED
        BY <4>4, <1>6 DEF LookUpCurrent
    <3> QED
      BY <3>1, <3>2
  <2>3. ASSUME \A i \in 1..Len(p.calls) : ~LooksUp(p, i),
               p.missed \/ (p.resolved # None /\ p.resolved.items = p.items)
        PROVE  LookUpCurrent(q)
    <3>1. 1 \in 1..Len(p.calls)
      BY <1>5
    <3>2. p.calls[1].does # "resolve"
      BY <2>3, <3>1 DEF LooksUp
    <3>3. resolved = p.resolved /\ missed = p.missed
      BY <3>2
    <3>4. \A j \in 1..n : ~LooksUp(q, j)
      BY <2>3, <1>6, <1>7 DEF LooksUp
    <3> QED
      BY <2>3, <3>3, <3>4, <1>4, <1>6 DEF LookUpCurrent
  <2> QED
    BY <2>1, <2>2, <2>3 DEF LookUpCurrent
<1> QED
  BY <1>3, <1>8, <1>9 DEF PageOK, q

(* A submission is sent.                                                        *)
LEMMA SentPageOK ==
  ASSUME NEW p, PageOK(p), p.page \in {"checkout", "newOrder"},
         NEW new, new = Submission(p.items)
  PROVE  PageOK([p EXCEPT !.calls = Append(p.calls, new)])
<1> DEFINE q == [p EXCEPT !.calls = Append(p.calls, new)]
<1>1. p \in PageType /\ p.calls \in Seq(CallType) /\ p.items \in Quantities
  BY DEF PageOK, PageType
<1>2. /\ new \in CallType
      /\ new.does = "submit" /\ new.items = p.items /\ new.answer = None
  BY <1>1 DEF CallType, Submission
<1>3. PICK c \in Seq(CallType) : c = p.calls
  BY <1>1, <1>2
<1>4. q \in PageType
  <2>1. Append(p.calls, new) \in Seq(CallType)
    BY <1>2, <1>3
  <2> QED
    BY <1>1, <2>1 DEF PageType
<1>5. /\ q.page = p.page /\ q.items = p.items /\ q.resolved = p.resolved /\ q.missed = p.missed
      /\ q.calls = Append(p.calls, new)
  BY <1>1 DEF PageType
<1> HIDE DEF q
<1>6. PICK n \in Nat : n = Len(p.calls)
  BY <1>3, LenProperties
<1>7. /\ Len(q.calls) = n + 1 /\ q.calls[n + 1] = new
      /\ \A i \in 1..n : q.calls[i] = p.calls[i]
  <2>1. /\ Len(Append(c, new)) = n + 1 /\ Append(c, new)[n + 1] = new
        /\ \A i \in 1..n : Append(c, new)[i] = c[i]
    BY <1>3, <1>6, AppendProperties
  <2> QED
    BY <2>1, <1>3, <1>5
<1>8. \A i \in 1..Len(q.calls) : i \in 1..n \/ i = n + 1
  BY <1>7
<1>9. \A i \in 1..Len(q.calls) : AsCalled(q, q.calls[i])
  <2>1. \A i \in 1..n : AsCalled(p, p.calls[i])
    BY <1>6 DEF PageOK
  <2>2. AsCalled(q, new)
    BY <1>2, <1>5 DEF AsCalled
  <2>3. ASSUME NEW i \in 1..n  PROVE  AsCalled(q, q.calls[i])
    BY <1>5, <1>7, <2>1 DEF AsCalled
  <2> QED
    BY <1>7, <1>8, <2>2, <2>3
<1>10. ~LooksUp(q, n + 1) /\ \A i \in 1..n : LooksUp(q, i) <=> LooksUp(p, i)
  BY <1>2, <1>7 DEF LooksUp
<1>11. LookUpCurrent(p) => LookUpCurrent(q)
  <2>1. ASSUME NEW i \in 1..n, LooksUpLast(p, i)
        PROVE  LooksUpLast(q, i)
    BY <2>1, <1>5, <1>6, <1>7, <1>8, <1>10 DEF LooksUpLast
  <2>2. 1..n \subseteq 1..Len(q.calls)
    BY <1>6, <1>7
  <2> QED
    BY <2>1, <2>2, <1>5, <1>6, <1>8, <1>10 DEF LookUpCurrent
<1> QED
  BY <1>4, <1>5, <1>9, <1>11 DEF PageOK, q

-------------------------------------------------------------------------------

LEMMA InitInv == Init => CartInv
<1> SUFFICES ASSUME Init  PROVE  CartInv
  OBVIOUS
<1>1. PageOK(Page("elsewhere", None, Nothing))
  BY NewPageOK, NothingType DEF BuyersPages
<1>2. Page("elsewhere", None, Nothing) \in PageType
  BY <1>1 DEF PageOK
<1> QED
  BY <1>1, <1>2, NothingType DEF Init, CartInv

LEMMA TabsInv ==
  ASSUME CartInv, NEW t \in browser.tabs
  PROVE  t \in Tabs /\ PageOK(tab[t]) /\ tab[t] \in PageType /\ tab[t].items \in Quantities
<1>1. t \in Tabs
  BY BrowsersAssumption DEF CartInv
<1> QED
  BY <1>1 DEF CartInv, PageType

(* A step that leaves one tab's page as it should be, and the account in order.  *)
LEMMA StepInv ==
  ASSUME CartInv, NEW t \in Tabs, NEW p, PageOK(p), tab' = [tab EXCEPT ![t] = p],
         browser' = browser, storage' \in Quantities, wanted' = storage'
  PROVE  CartInv'
<1>1. p \in PageType
  BY DEF PageOK
<1>2. \A s \in Tabs : tab'[s] = IF s = t THEN p ELSE tab[s]
  BY DEF CartInv
<1>3. \A s \in Tabs : PageOK(tab'[s])
  BY <1>2 DEF CartInv
<1>4. tab' \in [Tabs -> PageType]
  BY <1>1 DEF CartInv
<1> QED
  BY <1>3, <1>4 DEF CartInv

LEMMA TurnInv ==
  ASSUME CartInv, NEW t \in browser.tabs, NEW p, PageOK(p), Turn(t, p)
  PROVE  CartInv'
<1>1. storage' = storage /\ wanted' = storage'
  BY DEF Turn, Account, CartInv
<1> QED
  BY <1>1, StepInv, TabsInv DEF Turn, CartInv

LEMMA CommitInv ==
  ASSUME CartInv, NEW t \in browser.tabs, NEW items \in Quantities, commit(t, items),
         tab[t].page # "checkout" \/ items = tab[t].items
  PROVE  CartInv'
<1> DEFINE calls == tab[t].calls \o ResolveCalls(tab[t].page, items)
           p == [tab[t] EXCEPT !.items = items, !.calls = calls]
<1>1. PageOK(p)
  BY TabsInv, ChangedPageOK
<1>2. tab' = [tab EXCEPT ![t] = p]
  BY TabsInv DEF commit, CartInv
<1>3. browser' = browser
  BY DEF commit
<1>4. storage' \in Quantities /\ wanted' = storage'
  <2>1. CASE IsBasket(t)
    BY <2>1 DEF commit, CartInv
  <2>2. CASE ~IsBasket(t)
    <3>1. storage' = items /\ Account(Stale(t), [u \in Units |-> wanted[u] + items[u] - tab[t].items[u]])
      BY <2>2 DEF commit
    <3>2. CASE Stale(t)
      BY <3>1, <3>2 DEF Account
    <3>3. CASE ~Stale(t)
      <4>1. wanted = tab[t].items /\ tab[t].items \in [Units -> Int] /\ items \in [Units -> Int]
        BY <3>3, TabsInv DEF Stale, CartInv, Quantities
      <4>2. wanted' = [u \in Units |-> wanted[u] + items[u] - tab[t].items[u]]
        BY <3>1, <3>3 DEF Account
      <4>3. \A u \in Units : wanted[u] + items[u] - tab[t].items[u] = items[u]
        BY <4>1
      <4>4. wanted' = [u \in Units |-> items[u]]
        BY <4>2, <4>3
      <4> QED
        BY <4>1, <4>4, <3>1 DEF Quantities
    <3> QED
      BY <3>2, <3>3
  <2> QED
    BY <2>1, <2>2
<1> HIDE DEF p
<1> QED
  BY <1>1, <1>2, <1>3, <1>4, StepInv, TabsInv

LEMMA AddInv ==
  ASSUME CartInv, NEW t \in browser.tabs, NEW u \in Units, NEW n \in Int,
         addCartItem(t, u, n)
  PROVE  CartInv'
<1> DEFINE items == [tab[t].items EXCEPT ![u] = @ + n]
<1>1. tab[t].items \in [Units -> Int]
  BY TabsInv DEF Quantities
<1>2. items \in Quantities
  BY <1>1 DEF Quantities
<1>3. tab[t].page # "checkout" /\ commit(t, items)
  BY DEF addCartItem
<1> HIDE DEF items
<1> QED
  BY <1>2, <1>3, CommitInv

LEMMA SetInv ==
  ASSUME CartInv, NEW t \in browser.tabs, NEW u \in Units, NEW n \in Int,
         setCartItemQuantity(t, u, n)
  PROVE  CartInv'
<1> DEFINE items == IF tab[t].items[u] = 0 THEN tab[t].items
                    ELSE [tab[t].items EXCEPT ![u] = n]
<1>1. tab[t].items \in [Units -> Int]
  BY TabsInv DEF Quantities
<1>2. items \in Quantities
  BY <1>1 DEF Quantities
<1>3. tab[t].page # "checkout" /\ commit(t, items)
  BY DEF setCartItemQuantity, HasLine
<1> HIDE DEF items
<1> QED
  BY <1>2, <1>3, CommitInv

LEMMA RemoveInv ==
  ASSUME CartInv, NEW t \in browser.tabs, NEW u \in Units, removeCartItem(t, u)
  PROVE  CartInv'
<1> DEFINE items == [tab[t].items EXCEPT ![u] = 0]
<1>1. tab[t].items \in [Units -> Int]
  BY TabsInv DEF Quantities
<1>2. items \in Quantities
  BY <1>1 DEF Quantities
<1>3. tab[t].page # "checkout" /\ commit(t, items)
  BY DEF removeCartItem, HasLine
<1> HIDE DEF items
<1> QED
  BY <1>2, <1>3, CommitInv

LEMMA SubmitInv ==
  ASSUME CartInv, NEW t \in browser.tabs, Submit(t)
  PROVE  CartInv'
<1>1. PICK p : p = [tab[t] EXCEPT !.calls = Append(tab[t].calls, Submission(tab[t].items))]
  OBVIOUS
<1>2. PageOK(p)
  BY <1>1, TabsInv, SentPageOK DEF Submit
<1>3. tab' = [tab EXCEPT ![t] = p]
  BY <1>1, TabsInv DEF Submit, CartInv
<1> QED
  BY <1>2, <1>3, TabsInv, StepInv DEF Submit, CartInv

LEMMA AnswerInv ==
  ASSUME CartInv, NEW t \in browser.tabs, Under(t), NEW answer, Answer(t, answer),
         \/ /\ Call(t).does = "resolve"
            /\ answer \in LookUps /\ answer.items = Call(t).items
         \/ /\ Call(t).does = "submit"
            /\ answer \in {Nothing, Call(t).items},
         UNCHANGED <<browser, storage, wanted>>
  PROVE  CartInv'
<1>1. PICK p : p = [tab[t] EXCEPT !.calls =
                       [tab[t].calls EXCEPT ![1] = [tab[t].calls[1] EXCEPT !.answer = answer]]]
  OBVIOUS
<1>2. tab[t].calls # <<>> /\ Call(t) = tab[t].calls[1]
  BY TabsInv DEF Under, Call, PageType
<1>3. PageOK(p)
  BY <1>1, <1>2, TabsInv, AnsweredPageOK
<1>4. tab' = [tab EXCEPT ![t] = p]
  BY <1>1, TabsInv DEF Answer, CartInv
<1> QED
  BY <1>3, <1>4, TabsInv, StepInv DEF CartInv

LEMMA resolveCartActionInv ==
  ASSUME CartInv, NEW t \in browser.tabs, resolveCartAction(t)
  PROVE  CartInv'
<1>1. PICK k \in CustomersOf(t) : \E issues \in Issues(k, Call(t).items) :
                Answer(t, [items |-> Call(t).items, issues |-> issues])
  BY DEF resolveCartAction
<1>2. PICK issues \in Issues(k, Call(t).items) :
                Answer(t, [items |-> Call(t).items, issues |-> issues])
  BY <1>1
<1>3. issues \in SUBSET Units
  BY DEF Issues, Lines
<1>4. Call(t).items \in Quantities
  <2>1. Call(t) \in CallType
    BY TabsInv DEF resolveCartAction, Under, Call, PageType
  <2> QED
    BY <2>1 DEF CallType
<1>5. PICK answer : answer = [items |-> Call(t).items, issues |-> issues]
  OBVIOUS
<1>6. answer \in LookUps /\ answer.items = Call(t).items
  BY <1>3, <1>4, <1>5 DEF LookUps
<1> QED
  BY <1>2, <1>5, <1>6, AnswerInv DEF resolveCartAction

LEMMA submitOrderActionInv ==
  ASSUME CartInv, NEW t \in browser.tabs, submitOrderAction(t)
  PROVE  CartInv'
<1>1. PICK k \in CustomersOf(t) : \E issues \in Issues(k, Call(t).items) :
                submitOrder(t, Call(t).items, issues)
  BY DEF submitOrderAction
<1>2. PICK issues \in Issues(k, Call(t).items) : submitOrder(t, Call(t).items, issues)
  BY <1>1
<1>3. PICK answer : answer = IF issues = {} THEN Call(t).items ELSE Nothing
  OBVIOUS
<1>4. Answer(t, answer) /\ answer \in {Nothing, Call(t).items}
  BY <1>2, <1>3 DEF submitOrder
<1> QED
  BY <1>4, AnswerInv DEF submitOrderAction

LEMMA DoneInv ==
  ASSUME CartInv, NEW t \in browser.tabs, Under(t),
         NEW resolved \in LookUps \cup {None}, NEW missed \in BOOLEAN,
         \/ /\ Call(t).does = "submit"
            /\ resolved = tab[t].resolved /\ missed = tab[t].missed
         \/ /\ Call(t).does = "resolve"
            /\ missed \/ (resolved # None /\ resolved.items = Call(t).items),
         tab' = [tab EXCEPT ![t] = [tab[t] EXCEPT !.resolved = resolved, !.missed = missed,
                                                  !.calls = Tail(tab[t].calls)]],
         UNCHANGED <<browser, storage, wanted>>
  PROVE  CartInv'
<1>1. PICK p : p = [tab[t] EXCEPT !.resolved = resolved, !.missed = missed,
                                  !.calls = Tail(tab[t].calls)]
  OBVIOUS
<1>2. tab[t].calls # <<>> /\ Call(t) = tab[t].calls[1]
  BY TabsInv DEF Under, Call, PageType
<1>3. PageOK(p)
  BY <1>1, <1>2, TabsInv, DonePageOK
<1> QED
  BY <1>1, <1>3, TabsInv, StepInv DEF CartInv

(* What is answered to a call is of its kind.                                   *)
LEMMA CallTyped ==
  ASSUME CartInv, NEW t \in browser.tabs, Under(t)
  PROVE  /\ Call(t) \in CallType
         /\ AsCalled(tab[t], Call(t))
         /\ Call(t).does = "resolve" /\ Call(t).answer # None => Call(t).answer \in LookUps
<1>1. tab[t].calls \in Seq(CallType) /\ tab[t].calls # <<>> /\ Call(t) = tab[t].calls[1]
      /\ 1 \in 1..Len(tab[t].calls)
  BY TabsInv DEF Under, Call, PageType
<1>2. Call(t) \in CallType
  BY <1>1
<1>3. AsCalled(tab[t], Call(t))
  BY <1>1, TabsInv DEF PageOK
<1> QED
  BY <1>2, <1>3 DEF CallType

LEMMA setResolvedLinesInv ==
  ASSUME CartInv, NEW t \in browser.tabs, setResolvedLines(t)
  PROVE  CartInv'
<1>1. /\ Under(t) /\ Call(t).does = "resolve"
      /\ Call(t).answer \in LookUps \cup {None} /\ Call(t).answer # None
      /\ Call(t).answer.items = Call(t).items
  BY CallTyped DEF setResolvedLines, AsCalled
<1>2. tab' = [tab EXCEPT ![t] = [tab[t] EXCEPT !.resolved = Call(t).answer, !.missed = FALSE,
                                               !.calls = Tail(tab[t].calls)]]
  BY TabsInv DEF setResolvedLines, CartInv
<1> QED
  BY <1>1, <1>2, DoneInv DEF setResolvedLines

LEMMA SubmissionRefusedInv ==
  ASSUME CartInv, NEW t \in browser.tabs, SubmissionRefused(t)
  PROVE  CartInv'
<1>1. tab[t] \in PageType
  BY TabsInv
<1>2. PICK resolved \in LookUps \cup {None}, missed \in BOOLEAN :
          resolved = tab[t].resolved /\ missed = tab[t].missed
  BY <1>1 DEF PageType
<1>3. [tab[t] EXCEPT !.calls = Tail(tab[t].calls)] =
      [tab[t] EXCEPT !.resolved = resolved, !.missed = missed,
                     !.calls = Tail(tab[t].calls)]
  BY <1>1, <1>2 DEF PageType
<1>4. tab' = [tab EXCEPT ![t] = [tab[t] EXCEPT !.calls = Tail(tab[t].calls)]]
  BY TabsInv DEF SubmissionRefused, CartInv
<1>5. tab' = [tab EXCEPT ![t] = [tab[t] EXCEPT !.resolved = resolved, !.missed = missed,
                                               !.calls = Tail(tab[t].calls)]]
  BY <1>3, <1>4
<1>6. /\ Under(t) /\ Call(t).does = "submit"
      /\ UNCHANGED <<browser, storage, wanted>>
  BY DEF SubmissionRefused
<1> QED
  BY <1>2, <1>5, <1>6, DoneInv

LEMMA LoseInv ==
  ASSUME CartInv, NEW t \in browser.tabs, Lose(t)
  PROVE  CartInv'
<1>1. CASE Call(t).does = "submit"
  <2>1. (IF IsBasket(t) THEN storage ELSE tab[t].items) \in Quantities
    BY TabsInv DEF CartInv
  <2>2. PageOK(Page("elsewhere", None, IF IsBasket(t) THEN storage ELSE tab[t].items))
    BY <2>1, NewPageOK DEF BuyersPages
  <2> QED
    BY <1>1, <2>2, TurnInv DEF Lose
<1>2. CASE Call(t).does # "submit"
  <2>1. Under(t) /\ Call(t).does = "resolve"
    BY <1>2, CallTyped DEF Lose, CallType
  <2>2. tab[t] \in PageType
    BY TabsInv
  <2>3. tab[t].resolved \in LookUps \cup {None}
    BY <2>2 DEF PageType
  <2>4. [tab[t] EXCEPT !.calls = Tail(tab[t].calls), !.missed = TRUE] =
        [tab[t] EXCEPT !.resolved = tab[t].resolved, !.missed = TRUE,
                       !.calls = Tail(tab[t].calls)]
    BY <2>2 DEF PageType
  <2>5. tab' = [tab EXCEPT ![t] = [tab[t] EXCEPT !.calls = Tail(tab[t].calls), !.missed = TRUE]]
    BY <1>2, TabsInv DEF Lose, CartInv
  <2> QED
    BY <1>2, <2>1, <2>3, <2>4, <2>5, DoneInv DEF Lose
<1> QED
  BY <1>1, <1>2

LEMMA ClearInv ==
  ASSUME CartInv, NEW t \in browser.tabs, NEW happens, NEW now,
         ClearCartOnMount(t, happens, now), ~happens => now = Nothing
  PROVE  CartInv'
<1>1. PageOK(Page("elsewhere", None, Nothing))
  BY NewPageOK, NothingType DEF BuyersPages
<1>2. storage' = Nothing /\ wanted' = storage'
  BY DEF ClearCartOnMount, Account
<1> QED
  BY <1>1, <1>2, NothingType, TabsInv, StepInv DEF ClearCartOnMount

LEMMA redirectInv ==
  ASSUME CartInv, NEW t \in browser.tabs, redirect(t)
  PROVE  CartInv'
<1>1. Under(t) /\ Call(t).does = "submit" /\ Call(t).answer \notin {None, Nothing}
      /\ tab[t].page # "newOrder"
  BY DEF redirect, Ordered, IsBasket
<1>2. Call(t).answer = tab[t].items
  BY <1>1, CallTyped DEF AsCalled
<1>3. ASSUME ~Stale(t)
      PROVE  [u \in Units |-> wanted[u] - Call(t).answer[u]] = Nothing
  <2>1. wanted = tab[t].items /\ tab[t].items \in [Units -> Int]
    BY <1>3, TabsInv DEF Stale, CartInv, Quantities
  <2>2. \A u \in Units : wanted[u] - Call(t).answer[u] = 0
    BY <1>2, <2>1
  <2> QED
    BY <2>2 DEF Nothing
<1>4. PICK now : now = [u \in Units |-> wanted[u] - Call(t).answer[u]]
  OBVIOUS
<1>5. PICK happens : happens = Stale(t)
  OBVIOUS
<1>6. ClearCartOnMount(t, happens, now)
  BY <1>4, <1>5 DEF redirect
<1> QED
  BY <1>3, <1>4, <1>5, <1>6, ClearInv

LEMMA redirectSellerInv ==
  ASSUME CartInv, NEW t \in browser.tabs, redirectSeller(t)
  PROVE  CartInv'
<1>1. PICK p : p = Page("elsewhere", None, storage)
  OBVIOUS
<1>2. PageOK(p)
  BY <1>1, NewPageOK DEF BuyersPages, CartInv
<1> QED
  BY <1>1, <1>2, TabsInv, StepInv DEF redirectSeller, CartInv

LEMMA OpenOrderAgainInv ==
  ASSUME CartInv, NEW t \in browser.tabs, OpenOrderAgain(t)
  PROVE  CartInv'
<1>1. PICK happens : happens = (OrderUnseen(t) \/ storage # Nothing)
  OBVIOUS
<1>2. PICK now : now = wanted
  OBVIOUS
<1>3. ClearCartOnMount(t, happens, now)
  BY <1>1, <1>2 DEF OpenOrderAgain
<1>4. ~happens => now = Nothing
  BY <1>1, <1>2 DEF CartInv
<1> QED
  BY <1>3, <1>4, ClearInv

LEMMA PagesInv ==
  ASSUME CartInv, NEW t \in browser.tabs,
         \/ \E page \in BuyersPages : Load(t, page) \/ Follow(t, page)
         \/ \E k \in Customers : ChooseCustomer(t, k)
  PROVE  CartInv'
<1>1. ASSUME NEW page \in BuyersPages, NEW k \in Customers, NEW items \in Quantities
      PROVE  PageOK(Page(page, None, items)) /\ PageOK(Page("newOrder", k, items))
  BY NewPageOK DEF ShowsLines
<1>2. ASSUME NEW page \in BuyersPages, Load(t, page)  PROVE CartInv'
  <2>1. PICK p : p = Page(page, None, storage)
    OBVIOUS
  <2>2. PageOK(p)
    BY <2>1, NewPageOK DEF CartInv
  <2> QED
    BY <1>2, <2>1, <2>2, TurnInv DEF Load
<1>3. ASSUME NEW page \in BuyersPages, Follow(t, page)  PROVE CartInv'
  <2>1. PICK p : p = Page(page, None, tab[t].items)
    OBVIOUS
  <2>2. PageOK(p)
    BY <2>1, NewPageOK, TabsInv
  <2> QED
    BY <1>3, <2>1, <2>2, TurnInv DEF Follow
<1>4. ASSUME NEW k \in Customers, ChooseCustomer(t, k)  PROVE CartInv'
  <2>1. PICK p : p = Page("newOrder", k, Nothing)
    OBVIOUS
  <2>2. PageOK(p)
    BY <2>1, NewPageOK, NothingType DEF ShowsLines
  <2> QED
    BY <1>4, <2>1, <2>2, TurnInv DEF ChooseCustomer
<1> QED
  BY <1>2, <1>3, <1>4

LEMMA NextInv == CartInv /\ [Next]_vars => CartInv'
<1> SUFFICES ASSUME CartInv, [Next]_vars  PROVE  CartInv'
  OBVIOUS
<1>1. CASE UNCHANGED vars
  <2>1. tab' = tab /\ browser' = browser /\ storage' = storage /\ wanted' = wanted
    BY <1>1 DEF vars
  <2>2. ASSUME NEW t \in Tabs  PROVE  PageOK(tab'[t])
    <3>1. PICK p : p = tab[t]
      OBVIOUS
    <3>2. PageOK(p) /\ p = tab'[t]
      BY <2>1, <3>1 DEF CartInv
    <3> QED
      BY <3>2
  <2> QED
    BY <2>1, <2>2 DEF CartInv
<1>2. CASE Next
  <2>1. PICK t \in browser.tabs :
          \/ \E page \in BuyersPages : Load(t, page) \/ Follow(t, page)
          \/ \E k \in Customers : ChooseCustomer(t, k)
          \/ \E u \in Units :
                \/ \E quantity \in 1..browser.quantity : addCartItem(t, u, quantity)
                \/ \E quantity \in 0..browser.quantity : setCartItemQuantity(t, u, quantity)
                \/ removeCartItem(t, u)
          \/ Submit(t) \/ resolveCartAction(t) \/ submitOrderAction(t)
          \/ setResolvedLines(t) \/ SubmissionRefused(t)
          \/ redirect(t) \/ redirectSeller(t) \/ OpenOrderAgain(t) \/ Lose(t)
    BY <1>2 DEF Next
  <2>2. CASE \/ \E page \in BuyersPages : Load(t, page) \/ Follow(t, page)
             \/ \E k \in Customers : ChooseCustomer(t, k)
    BY <2>2, PagesInv
  <2>3. CASE \E u \in Units :
                \/ \E quantity \in 1..browser.quantity : addCartItem(t, u, quantity)
                \/ \E quantity \in 0..browser.quantity : setCartItemQuantity(t, u, quantity)
                \/ removeCartItem(t, u)
    <3>1. \A quantity \in 0..browser.quantity : quantity \in Int
      OBVIOUS
    <3>2. \A quantity \in 1..browser.quantity : quantity \in Int
      OBVIOUS
    <3> QED
      BY <2>3, <3>1, <3>2, AddInv, SetInv, RemoveInv
  <2>4. CASE Submit(t) \/ resolveCartAction(t) \/ submitOrderAction(t)
    BY <2>4, SubmitInv, resolveCartActionInv, submitOrderActionInv
  <2>5. CASE setResolvedLines(t) \/ SubmissionRefused(t) \/ Lose(t)
    BY <2>5, setResolvedLinesInv, SubmissionRefusedInv, LoseInv
  <2>6. CASE redirect(t) \/ redirectSeller(t) \/ OpenOrderAgain(t)
    BY <2>6, redirectInv, redirectSellerInv, OpenOrderAgainInv
  <2> QED
    BY <2>1, <2>2, <2>3, <2>4, <2>5, <2>6
<1> QED
  BY <1>1, <1>2

(* Nothing is lost from the cart, ordered in part or left over, but for what     *)
(* Account names (cart-store.ts:38, clear-cart-on-mount.tsx:13).                *)
THEOREM CartIsAccounted == Spec => []CartAccounted
<1>1. CartInv => CartAccounted
  BY DEF CartInv, CartAccounted
<1> QED
  BY <1>1, InitInv, NextInv, PTL DEF Spec

(* A page shows its cart once its last look-up has been answered, in whatever    *)
(* order the cart and the look-ups' answers changed it (cart-view.tsx:22).       *)
THEOREM CartIsShown == Spec => []ShownIsCart
<1>1. CartInv => ShownIsCart
  <2> SUFFICES ASSUME CartInv, NEW t \in Tabs,
                      tab[t].page \in ShowsLines, ~Under(t), ~tab[t].missed
               PROVE  shownLines(t) # None /\ shownLines(t).items = tab[t].items
    BY DEF ShownIsCart
  <2>1. PageOK(tab[t]) /\ tab[t].calls = <<>>
    BY DEF CartInv, Under
  <2>2. CASE tab[t].items = Nothing
    <3>1. [items |-> Nothing, issues |-> {}] \in LookUps
      BY NothingType DEF LookUps
    <3> QED
      BY <2>2, <3>1, NoAnswerAssumption DEF shownLines, LookUps, Quantities
  <2>3. CASE tab[t].items # Nothing
    <3>1. LookUpCurrent(tab[t])
      BY <2>1, <2>3 DEF PageOK
    <3>2. \A i \in 1..Len(tab[t].calls) : FALSE
      BY <2>1
    <3> QED
      BY <2>3, <3>1, <3>2 DEF LookUpCurrent, shownLines
  <2> QED
    BY <2>2, <2>3
<1> QED
  BY <1>1, InitInv, NextInv, PTL DEF Spec
=============================================================================
