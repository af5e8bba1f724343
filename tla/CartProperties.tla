---------------------------- MODULE CartProperties -----------------------------
(* What is checked of Cart.                                                     *)
EXTENDS Cart

(* The cart is what the buyer put into it, without what was taken out again and *)
(* without what was ordered, line by line: nothing is lost, nothing is ordered  *)
(* in part ("never a partial order", docs/SESSION_HANDOFF.md:188) and nothing   *)
(* of an order stays, however tabs are used, as long as each acts on the cart   *)
(* as it is stored, the answers of submissions arrive, and the page that clears *)
(* the cart is opened once (clear-cart-on-mount.tsx:7).  Account says what is   *)
(* expected after each exception.                                               *)
CartAccounted == storage = wanted

(* As soon as no call of a tab is under way, the lines it shows are those of    *)
(* its cart or basket, with their quantities (cart-view.tsx:30), however the    *)
(* calls that resolved them overlapped with its changes; unless the last of     *)
(* them failed.                                                                 *)
ShownIsCart ==
    \A t \in Tabs :
        tab[t].page \in ShowsLines /\ ~Under(t) /\ ~tab[t].missed =>
            /\ shownLines(t) # None
            /\ shownLines(t).items = tab[t].items
=============================================================================
