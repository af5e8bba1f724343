---------------------------- MODULE MCBackOffice ----------------------------
(* A small seller, t1, beside another, t2.                                   *)
EXTENDS BackOfficeProperties, TLC

CONSTANTS t1, t2, g1, g2, g3, g4, g9, m1, m2, p1, p2, p3, p9, u1, u2, l1, l2,
          l9, k1, k2, k3, i1, i2, i3, s1, s2, s3, b1, v1, v2, A, B, C

MCKind ==
  [r \in {g1, g2, g3, g4, g9} |-> "Category"] @@ [r \in {m1, m2} |-> "UnitOfMeasure"]
    @@ [r \in {p1, p2, p3, p9} |-> "Product"] @@ [r \in {u1, u2} |-> "ProductUnit"]
    @@ [r \in {l1, l2, l9} |-> "PriceList"] @@ [r \in {k1, k2, k3} |-> "Customer"]
    @@ [r \in {i1, i2, i3} |-> "PriceListItem"]
    @@ [r \in {<<k1>>} |-> "Assignment"] @@ [r \in {<<k1, p1>>} |-> "Visibility"]

MCRows == DOMAIN MCKind

Named3(t, key) ==
  [Blank EXCEPT !["tenant"] = t, !["key"] = key, !["active"] = YES, !["data"] = v1]

Under(row, parent, other) == [row EXCEPT !["parent"] = parent, !["other"] = other]

Exists ==
  (g1 :> Named3(t1, A)) @@ (m1 :> Named3(t1, A)) @@ (l1 :> Named3(t1, A))
    @@ (k1 :> [Named3(t1, A) EXCEPT !["extra"] = v1])
    @@ (p1 :> [Under(Named3(t1, A), g1, NULL) EXCEPT !["extra"] = v1])
    @@ (u1 :> Under(Named3(t1, A), p1, m1))
    @@ (i1 :> [Under(Named3(t1, <<l1, u1>>), l1, u1) EXCEPT !["active"] = NULL])
    @@ (<<k1>> :> [Under(Named3(t1, k1), k1, l1) EXCEPT !["active"] = NULL,
                                                         !["data"] = NULL])
    @@ (g9 :> Named3(t2, A)) @@ (l9 :> Named3(t2, A))
    @@ (p9 :> Under(Named3(t2, A), g9, NULL))

MCSeed == [r \in MCRows |-> IF r \in DOMAIN Exists THEN Exists[r] ELSE NoRow]

MCForms ==
  {[key |-> A, data |-> v2, active |-> YES, extra |-> v1],
   [key |-> B, data |-> v1, active |-> NO, extra |-> NULL]}

Cells(key, data, more) ==
  [x \in Columns |-> CASE x \in DOMAIN more -> more[x] [] x = "key" -> key
                       [] x = "data" -> data [] x = "active" -> YES [] OTHER -> NULL]

Sheet(kind, present, rows) == [kind |-> kind, present |-> present, rows |-> rows]
None == [x \in {} |-> NULL]
MCValues == {A, B, v1, v2, t1, t2, <<A, A>>}

MCFiles ==
  {Sheet("Category", {}, <<Cells(A, v2, None), Cells(B, v1, None)>>),
   Sheet("Category", {"active"}, <<Cells(B, v1, None), Cells(A, v2, [active |-> NO])>>),
   Sheet("Category", {}, <<Cells(B, v1, None), NULL, Cells(A, v1, None), Cells(A, v2, None)>>),
   Sheet("UnitOfMeasure", {}, <<Cells(A, v2, None)>>),
   Sheet("Product", {"active"}, <<Cells(A, v2, [parent |-> A]), Cells(B, v1, [parent |-> B])>>),
   Sheet("ProductUnit", {}, <<Cells(A, v2, [parent |-> A, other |-> A])>>),
   Sheet("ProductUnit", {}, <<Cells(A, v2, [parent |-> B, other |-> A])>>),
   Sheet("PriceList", {"data"}, <<Cells(A, v2, None)>>),
   Sheet("PriceList", {"active"}, <<Cells(A, v2, [active |-> NO])>>),
   Sheet("PriceListItem", {}, <<Cells(<<A, A>>, v2, [parent |-> A, other |-> A])>>),
   Sheet("Customer", {"extra"}, <<Cells(A, v1, None)>>),
   Sheet("Customer", {"discount"}, <<Cells(A, v2, [discount |-> v2]), Cells(B, v1, None)>>)}

MCTenant == [c \in {s1, s2, s3} |-> t1]
MCRole == [c \in {s1, s2, s3} |-> IF c = s3 THEN "SALES_REP" ELSE "SELLER_ADMIN"]
MCCustomer == [b \in {b1} |-> k1]
MCUnit == [b \in {b1} |-> u1]
=============================================================================
