--------------------------------- MODULE MCCart --------------------------------
(* Cart for TLC: two units of one seller, and a customer of each of two.        *)
EXTENDS CartProperties, TLC

CONSTANTS t1, t2, k1, k2, a, b, A, B

MCTenantOf == k1 :> A @@ k2 :> B @@ a :> A @@ b :> A
Browser(tabs, members, quantity, calls) ==
    [tabs : {tabs}, member : members, quantity : {quantity}, calls : {calls}]

(* One tab, in which look-ups overlap with changes; two of a buyer.             *)
MCBrowsers ==
    Browser({t1}, SUBSET Customers, 2, 2) \cup Browser({t2}, SUBSET Customers, 2, 2) \cup
    Browser(Tabs, SUBSET Customers \ {{}}, 2, 1)

Swap(x, y) == x :> y @@ y :> x
Symmetric == {Swap(t1, t2), Swap(a, b), Swap(t1, t2) @@ Swap(a, b)}
=============================================================================
