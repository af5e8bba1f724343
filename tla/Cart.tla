---------------------------------- MODULE Cart ---------------------------------
(* The buyer's cart (src/lib/cart and the pages that use it) and the seller's   *)
(* order basket.  A cart is in the browser's localStorage; each tab works on a  *)
(* copy that it took when it was loaded, and writes the copy back.  What is in  *)
(* it is looked up, and ordered, by Server Actions that a tab calls one after   *)
(* the other.  A basket is in the memory of one page.                           *)
EXTENDS Integers, Sequences, Functions

CONSTANTS
    Tabs, Customers, Units,
    TenantOf,       \* the tenant of a customer, the tenant of a unit
    Orderable,      \* quantities that a unit's minimum and increment allow
    None,
    Browsers        \* see `browser`

ASSUME BrowsersAssumption ==
    Browsers \subseteq [tabs : SUBSET Tabs, member : SUBSET Customers, quantity : Nat, calls : Nat]

(* No answer is None.                                                           *)
ASSUME NoAnswerAssumption ==
    /\ None \notin [Units -> Int]
    /\ None \notin [items : [Units -> Int], issues : SUBSET Units]

VARIABLES
    browser,    \* its tabs, the customers that its user acts for (none: a seller's),
                \* bounds on a line's quantity and on its calls; never changes
    storage,    \* localStorage
    tab,        \* the open pages
    placed,     \* whether there is an order of the buyer
    wanted      \* history: what was put into the cart and neither taken out
                \* again nor ordered; see Account

vars == <<browser, storage, tab, placed, wanted>>

Nothing == [u \in Units |-> 0]
Lines(items) == {u \in Units : items[u] > 0}

(* The seller's page has a basket for the customer it was opened for.           *)
ShowsLines == {"cart", "checkout", "newOrder"}
BuyersPages == {"elsewhere", "cart", "checkout"}   \* elsewhere: the catalog and others
IsBasket(t) == tab[t].page = "newOrder"

(* A tab's Server Actions: the next is sent when the last was answered.         *)
Call(t) == Head(tab[t].calls)
Under(t) == tab[t].calls # <<>>
Ordered(t) == Under(t) /\ Call(t).does = "submit" /\ Call(t).answer \notin {None, Nothing}

Calls == FoldFunction(LAMBDA page, n : Len(page.calls) + n, 0, tab)

Resolve(items) == [does |-> "resolve", items |-> items, answer |-> None]
Submission(items) == [does |-> "submit", items |-> items, answer |-> None]

(* The effect of CartView, CheckoutForm and SellerOrderSummary.                 *)
ResolveCalls(page, items) ==
    IF page \in ShowsLines /\ items # Nothing THEN <<Resolve(items)>> ELSE <<>>

Page(page, customer, items) ==
    [page |-> page, customer |-> customer, items |-> items,
     resolved |-> None, calls |-> ResolveCalls(page, items), missed |-> FALSE]

Init ==
    /\ browser \in Browsers
    /\ storage = Nothing
    /\ tab = [t \in Tabs |-> Page("elsewhere", None, Nothing)]
    /\ placed = FALSE
    /\ wanted = Nothing

-------------------------------------------------------------------------------

(* The account begins anew with what is stored when a tab writes back, or       *)
(* clears, what was not its copy, when an order's answer is lost, and when the  *)
(* page that clears the cart is opened again.                                   *)
Account(anew, now) == wanted' = IF anew THEN storage' ELSE now

Stale(t) == tab[t].items # storage
OrderUnseen(t) == Ordered(t) /\ ~IsBasket(t)

Turn(t, page) ==
    /\ Calls - Len(tab[t].calls) + Len(page.calls) <= browser.calls
    /\ tab' = [tab EXCEPT ![t] = page]
    /\ UNCHANGED <<browser, storage, placed>>
    /\ Account(OrderUnseen(t), wanted)

(* A page is loaded, or reloaded: the module cart-store reads the storage.  What *)
(* a page waits for when the tab leaves it, a tab that is closed too, is gone.  *)
Load(t, page) == browser.member # {} /\ Turn(t, Page(page, None, storage))

(* A link inside the application: the module stays.                             *)
Follow(t, page) ==
    /\ browser.member # {}
    /\ Turn(t, Page(page, None, tab[t].items))

(* The form that chooses a customer loads the page, with an empty basket.       *)
ChooseCustomer(t, k) == browser.member = {} /\ Turn(t, Page("newOrder", k, Nothing))

(* commit, or the basket's setItems, and the effect that it triggers.           *)
commit(t, items) ==
    LET calls == tab[t].calls \o ResolveCalls(tab[t].page, items)
    IN  /\ calls = tab[t].calls \/ Calls < browser.calls
        /\ \A u \in Units : items[u] <= browser.quantity
        /\ tab' = [tab EXCEPT ![t].items = items, ![t].calls = calls]
        /\ IF IsBasket(t) THEN UNCHANGED <<storage, wanted>>
           ELSE /\ storage' = items
                /\ Account(Stale(t), [u \in Units |->
                                        wanted[u] + items[u] - tab[t].items[u]])
        /\ UNCHANGED <<browser, placed>>

addCartItem(t, u, quantity) ==
    /\ tab[t].page \in {"elsewhere", "newOrder"} /\ (browser.member = {} <=> IsBasket(t))
    /\ commit(t, [tab[t].items EXCEPT ![u] = @ + quantity])

(* What the page shows: nothing of an empty cart, whatever was resolved before. *)
shownLines_Stored(t) == tab[t].resolved
shownLines(t) ==
    IF tab[t].items = Nothing THEN [items |-> Nothing, issues |-> {}]
    ELSE tab[t].resolved

HasLine(t, u) ==
    /\ tab[t].page \in {"cart", "newOrder"}
    /\ shownLines(t) # None
    /\ u \in Lines(shownLines(t).items)

(* The input of a line without an issue.  A line that another tab has removed,  *)
(* or that is still shown, is not in the copy: nothing is set.                  *)
setCartItemQuantity(t, u, quantity) ==
    /\ HasLine(t, u) /\ ~IsBasket(t) /\ u \notin shownLines(t).issues
    /\ commit(t, IF tab[t].items[u] = 0 THEN tab[t].items
                 ELSE [tab[t].items EXCEPT ![u] = quantity])

removeCartItem(t, u) ==
    /\ HasLine(t, u)
    /\ commit(t, [tab[t].items EXCEPT ![u] = 0])

-------------------------------------------------------------------------------
(* What the server does.                                                        *)

hasIssues(t) == shownLines(t).issues # {}

Submit(t) ==
    /\ tab[t].page \in {"checkout", "newOrder"}
    /\ tab[t].items # Nothing
    /\ IF shownLines(t) = None THEN IsBasket(t) ELSE ~hasIssues(t)
    /\ ~\E i \in 1..Len(tab[t].calls) : tab[t].calls[i].does = "submit"  \* pending
    /\ Calls < browser.calls
    /\ tab' = [tab EXCEPT ![t].calls = Append(tab[t].calls, Submission(tab[t].items))]
    /\ UNCHANGED <<browser, storage, placed, wanted>>

(* Whom the request is for: the page says it, or the cookie, which another tab   *)
(* may set at any time (selectActiveSellerAction).                              *)
CustomersOf(t) == IF IsBasket(t) THEN {tab[t].customer} ELSE browser.member

(* The lines with an issue: sellers hide and reprice units all the time, so that *)
(* there may be no price for any of them, or be one again.                      *)
resolveCartLine(k, items, u) ==
    /\ TenantOf[u] = TenantOf[k]    \* found
    /\ items[u] \in Orderable
Issues(k, items) ==
    LET refused == {u \in Lines(items) : ~resolveCartLine(k, items, u)}
    IN  {refused \cup unpriced : unpriced \in SUBSET Lines(items)}

Answer(t, answer) == tab' = [tab EXCEPT ![t].calls[1].answer = answer]

resolveCartAction(t) ==
    /\ Under(t) /\ Call(t).does = "resolve" /\ Call(t).answer = None
    /\ \E k \in CustomersOf(t) : \E issues \in Issues(k, Call(t).items) :
           Answer(t, [items |-> Call(t).items, issues |-> issues])
    /\ UNCHANGED <<browser, storage, placed, wanted>>

(* The order's lines, none for LINE_ISSUES (the steps: MODULE OrderSubmission).  *)
submitOrder_DropsIssues(t, items, issues) ==
    Answer(t, [u \in Units |-> IF u \in issues THEN 0 ELSE items[u]])
submitOrder(t, items, issues) ==
    Answer(t, IF issues = {} THEN items ELSE Nothing)

submitOrderAction(t) ==
    /\ Under(t) /\ Call(t).does = "submit" /\ Call(t).answer = None
    /\ \E k \in CustomersOf(t) : \E issues \in Issues(k, Call(t).items) :
           submitOrder(t, Call(t).items, issues)
    /\ placed' = (placed \/ (browser.member # {} /\ tab'[t].calls[1].answer # Nothing))
    /\ UNCHANGED <<browser, storage, wanted>>

-------------------------------------------------------------------------------
(* The answer arrives at the page that waits for it.                            *)

setResolvedLines(t) ==
    /\ Under(t) /\ Call(t).does = "resolve" /\ Call(t).answer # None
    /\ tab' = [tab EXCEPT ![t].resolved = Call(t).answer, ![t].missed = FALSE,
                          ![t].calls = Tail(tab[t].calls)]
    /\ UNCHANGED <<browser, storage, placed, wanted>>

SubmissionRefused(t) ==
    /\ Under(t) /\ Call(t).does = "submit" /\ Call(t).answer = Nothing
    /\ tab' = [tab EXCEPT ![t].calls = Tail(tab[t].calls)]
    /\ UNCHANGED <<browser, storage, placed, wanted>>

(* clearCartItems, when the page of an order is shown with ?submitted=1.        *)
ClearCartOnMount(t, happens, now) ==
    /\ tab' = [tab EXCEPT ![t] = Page("elsewhere", None, Nothing)]
    /\ storage' = Nothing
    /\ Account(happens, now)
    /\ UNCHANGED <<browser, placed>>

redirect(t) ==
    /\ Ordered(t) /\ ~IsBasket(t)
    /\ ClearCartOnMount(t, Stale(t), [u \in Units |->
                                         wanted[u] - Call(t).answer[u]])

(* The page of an order that a seller entered does not clear the cart.          *)
redirectSeller(t) ==
    /\ Ordered(t) /\ IsBasket(t)
    /\ tab' = [tab EXCEPT ![t] = Page("elsewhere", None, storage)]
    /\ UNCHANGED <<browser, storage, placed, wanted>>

(* The page of an order is opened again: a reload, the back button.             *)
OpenOrderAgain(t) ==
    /\ placed
    /\ ClearCartOnMount(t, OrderUnseen(t) \/ storage # Nothing, wanted)

(* The call or its answer is lost.  A lost submission shows the error page, a   *)
(* lost look-up nothing at all.                                                 *)
Lose(t) ==
    /\ Under(t)
    /\ IF Call(t).does = "submit"
       THEN Turn(t, Page("elsewhere", None, IF IsBasket(t) THEN storage ELSE tab[t].items))
       ELSE /\ tab' = [tab EXCEPT ![t].calls = Tail(tab[t].calls), ![t].missed = TRUE]
            /\ UNCHANGED <<browser, storage, placed, wanted>>

-------------------------------------------------------------------------------

Next ==
    \/ \E t \in browser.tabs :
          \/ \E page \in BuyersPages : Load(t, page) \/ Follow(t, page)
          \/ \E k \in Customers : ChooseCustomer(t, k)
          \/ \E u \in Units :
                \/ \E quantity \in 1..browser.quantity : addCartItem(t, u, quantity)
                \/ \E quantity \in 0..browser.quantity : setCartItemQuantity(t, u, quantity)
                \/ removeCartItem(t, u)
          \/ Submit(t) \/ resolveCartAction(t) \/ submitOrderAction(t)
          \/ setResolvedLines(t) \/ SubmissionRefused(t)
          \/ redirect(t) \/ redirectSeller(t) \/ OpenOrderAgain(t) \/ Lose(t)

Spec == Init /\ [][Next]_vars
=============================================================================
