-------------------------- MODULE BackOfficeProofs --------------------------
(* Proofs about BackOffice, for any tables, callers, files and readers:     *)
(* references stay within the tenant, the audit log replays to the table,   *)
(* and, while nobody else writes, what buyers are offered is exact and what *)
(* is imported is what the file says, and no more.                          *)
EXTENDS BackOfficeProperties, SequenceTheorems, TLAPS

-----------------------------------------------------------------------------
(* Replaying a log.  Replayed computes the rows after each of the entries   *)
(* one after the other; that there is one such sequence, and that two logs  *)
(* are replayed together by replaying one and then the other, is proved     *)
(* along with the steps that lengthen the log.                              *)

Replays(f, start, entries) ==
  f = [k \in 0..Len(entries) |->
         IF k = 0 THEN start ELSE After(entries[k].new, f[k - 1])]

\* Replaying the entries from a row gives a row, and only that one.
Replay(start, entries, end) ==
  /\ \E f : Replays(f, start, entries)
  /\ \A f : Replays(f, start, entries) => f[Len(entries)] = end

\* Whatever relates each row to the one before it replays the entries.
LEMMA ReplaysWhen ==
  ASSUME NEW n \in Nat, NEW start, NEW entries, Len(entries) = n,
         NEW f, f = [k \in 0..n |-> f[k]], f[0] = start,
         \A k \in 1..n : f[k] = After(entries[k].new, f[k - 1])
  PROVE  Replays(f, start, entries)
<1> DEFINE g == [k \in 0..n |-> IF k = 0 THEN start ELSE After(entries[k].new, f[k - 1])]
<1>1. \A k \in 0..n : f[k] = g[k]
  OBVIOUS
<1>2. f = g
  <2> HIDE DEF g
  <2>1. g = [k \in 0..n |-> g[k]]
    BY DEF g
  <2> QED
    BY <1>1, <2>1
<1> QED
  BY <1>2 DEF Replays

LEMMA ReplayNone == ASSUME NEW row PROVE Replay(row, <<>>, row)
<1>1. Replays([k \in 0..0 |-> row], row, <<>>)
  BY DEF Replays
<1>2. ASSUME NEW f, Replays(f, row, <<>>) PROVE f[0] = row
  BY <1>2 DEF Replays
<1> QED
  BY <1>1, <1>2 DEF Replay

LEMMA ReplayOne ==
  ASSUME NEW row, NEW e
  PROVE  Replay(row, <<e>>, After(e.new, row))
<1> DEFINE g == [k \in 0..1 |-> IF k = 0 THEN row ELSE After(e.new, row)]
<1>0. Len(<<e>>) = 1 /\ <<e>>[1] = e
  OBVIOUS
<1>1. Replays(g, row, <<e>>)
  BY <1>0 DEF Replays
<1>2. ASSUME NEW f, Replays(f, row, <<e>>) PROVE f[1] = After(e.new, row)
  BY <1>0, <1>2 DEF Replays
<1> QED
  BY <1>0, <1>1, <1>2 DEF Replay

LEMMA ReplayMore ==
  ASSUME NEW S, NEW first \in Seq(S), NEW second \in Seq(S), NEW start, NEW middle, NEW end,
         Replay(start, first, middle), Replay(middle, second, end)
  PROVE  Replay(start, first \o second, end)
<1> DEFINE n == Len(first)
           m == Len(second)
           all == first \o second
<1>1. /\ n \in Nat /\ m \in Nat /\ Len(all) = n + m
      /\ \A k \in 1..n : all[k] = first[k]
      /\ \A k \in 1..m : all[n + k] = second[k]
  OBVIOUS
<1> HIDE DEF all, n, m
<1>2. \E f : Replays(f, start, all)
  <2>1. PICK f, g : Replays(f, start, first) /\ Replays(g, middle, second)
    BY DEF Replay
  <2>2. f[n] = middle
    BY <2>1 DEF Replay, n
  <2> DEFINE h == [k \in 0..n + m |-> IF k <= n THEN f[k] ELSE g[k - n]]
  <2>3. f[0] = start /\ g[0] = middle
    BY <1>1, <2>1 DEF Replays
  <2>4. \A k \in 1..n : h[k] = After(all[k].new, h[k - 1])
    <3> SUFFICES ASSUME NEW k \in 1..n PROVE f[k] = After(first[k].new, f[k - 1])
      BY <1>1
    <3> QED
      BY <1>1, <2>1 DEF Replays, n
  <2>5. \A k \in n + 1..n + m : h[k] = After(all[k].new, h[k - 1])
    <3> SUFFICES ASSUME NEW k \in n + 1..n + m PROVE h[k] = After(all[k].new, h[k - 1])
      OBVIOUS
    <3>1. k - n \in 1..m /\ k = n + (k - n)
      BY <1>1
    <3> DEFINE j == k - n
    <3>2. g[j] = After(second[j].new, g[j - 1])
      BY <1>1, <2>1, <3>1 DEF Replays, m
    <3>3. h[k] = g[j] /\ h[k - 1] = g[j - 1]
      <4>1. k \in 0..n + m /\ k - 1 \in 0..n + m /\ ~(k <= n) /\ (k - 1) - n = j - 1
        BY <1>1
      <4>2. h[k] = g[j]
        BY <4>1
      <4>3. CASE j = 1
        <5>1. k - 1 = n /\ j - 1 = 0
          BY <1>1, <4>3
        <5> QED
          BY <2>2, <2>3, <4>1, <4>2, <5>1
      <4>4. CASE j # 1
        <5>1. ~(k - 1 <= n)
          BY <1>1, <3>1, <4>4
        <5> QED
          BY <4>1, <4>2, <5>1
      <4> QED
        BY <4>3, <4>4
    <3>4. all[k] = second[j]
      BY <1>1, <3>1
    <3> QED
      BY <3>2, <3>3, <3>4
  <2>6. h[0] = start
    BY <1>1, <2>3
  <2>7. \A k \in 1..n + m : h[k] = After(all[k].new, h[k - 1])
    <3> HIDE DEF h
    <3> QED
      BY <1>1, <2>4, <2>5
  <2>8. h = [k \in 0..n + m |-> h[k]]
    OBVIOUS
  <2> HIDE DEF h
  <2>9. n + m \in Nat
    BY <1>1
  <2>10. Replays(h, start, all)
    BY <1>1, <2>6, <2>7, <2>8, <2>9, ReplaysWhen
  <2> QED
    BY <2>10
<1>3. ASSUME NEW f, Replays(f, start, all) PROVE f[n + m] = end
  <2>0. /\ f = [k \in 0..n + m |-> IF k = 0 THEN start ELSE After(all[k].new, f[k - 1])]
    BY <1>1, <1>3 DEF Replays
  <2>1. f[0] = start /\ \A k \in 1..n + m : f[k] = After(all[k].new, f[k - 1])
    BY <1>1, <2>0
  <2> DEFINE g == [k \in 0..n |-> f[k]]
             h == [k \in 0..m |-> f[n + k]]
  <2>2. Replays(g, start, first)
    BY <1>1, <2>1 DEF Replays, n
  <2>3. f[n] = middle
    BY <1>1, <2>2 DEF Replay, n
  <2>4. \A k \in 1..m : h[k] = After(second[k].new, h[k - 1])
    <3> SUFFICES ASSUME NEW k \in 1..m PROVE f[n + k] = After(second[k].new, f[n + (k - 1)])
      BY <1>1
    <3>1. n + k \in 1..n + m /\ (n + k) - 1 = n + (k - 1) /\ all[n + k] = second[k]
      BY <1>1
    <3> QED
      BY <2>1, <3>1
  <2>5. h[0] = middle
    BY <1>1, <2>3
  <2>8. h = [k \in 0..m |-> h[k]]
    OBVIOUS
  <2> HIDE DEF g
  <2>6. Replays(h, middle, second)
    <3> HIDE DEF h
    <3> QED
      BY <1>1, <2>4, <2>5, <2>8, ReplaysWhen DEF m
  <2>7. h[m] = f[n + m]
    BY <1>1
  <2> QED
    BY <2>6, <2>7 DEF Replay, m
<1> QED
  <2> Len(all) = n + m
    BY <1>1
  <2> QED
    BY <1>2, <1>3 DEF Replay, all

LEMMA ReplayedIs ==
  ASSUME NEW r \in Rows, NEW row, Replay(Seed[r], history[r], row)
  PROVE  Replayed(r, Len(history[r])) = row
<1> DEFINE f == CHOOSE f : Replays(f, Seed[r], history[r])
<1>1. Replays(f, Seed[r], history[r])
  BY DEF Replay
<1>2. Replayed(r, Len(history[r])) = f[Len(history[r])]
  BY DEF Replayed, Replays
<1> QED
  BY <1>1, <1>2 DEF Replay

-----------------------------------------------------------------------------
USE BackOfficeAssumption

-----------------------------------------------------------------------------
(* The inductive invariant.                                                 *)

\* An operation sets no tenant, every reference it sets is looked up, and what
\* it deletes is never referred to.  It gives a row that it inserts a key.
OpOK(op) ==
  /\ op.kind = kindOf[op.row]
  /\ op.sets["tenant"] = SAME
  /\ \A x \in References : op.sets[x] \in {SAME, NULL} \cup op.refs
  /\ op.verb \in {"delete", "clear"} => op.row \notin Solid
  /\ op.verb \in {"create", "upsert"} => op.sets["key"] # SAME
  /\ op.kind = "PriceListItem" =>
       \/ \A x \in {"key", "parent", "other"} : op.sets[x] = SAME
       \/ /\ \A x \in {"key", "parent", "other"} : op.sets[x] # SAME
          /\ op.sets["key"] = <<op.sets["parent"], op.sets["other"]>>
  /\ op.kind = "Assignment" =>
       /\ op.sets["other"] # NULL
       /\ op.verb \in {"create", "upsert"} => op.sets["other"] # SAME

\* A row that c wrote and did not commit.
DraftOK(c, r) ==
  LET row == tx[c].draft[r]
  IN  /\ row = NoRow => r \notin Solid
      /\ row # NoRow =>
           /\ row["tenant"] = tenantOf[c]
           /\ \A x \in References : row[x] # NULL => row[x] \in Solid /\ Sees(c, row[x])
      /\ db[r] # NoRow => db[r]["tenant"] = tenantOf[c]

\* Between the look-up and the write, what was looked up is still there.
TransactionOK(c) ==
  /\ \A i \in 1..Len(tx[c].todo) : OpOK(tx[c].todo[i])
  /\ tx[c].pc = "write" => \A q \in Op(c).refs : Sees(c, q)
  /\ \A r \in tx[c].wrote : DraftOK(c, r)
  /\ tx[c].pc = "idle" => tx[c].wrote = {}

\* A row lock has one holder.
OneHolder == \A c, d \in Callers : c # d => tx[c].wrote \cap tx[d].wrote = {}

SolidStays == \A r \in Solid : Seed[r] # NoRow => db[r] # NoRow

\* What a buyer's price has passed when it comes to a table.
Passed(pc) ==
  CASE pc = "customer" -> {"unit", "product"}
    [] pc \in {"unit", "product", "visibility"} -> {"unit", "product", "customer"}
    [] pc = "assignment" -> {"unit", "product", "customer", "hidden"}
    [] pc \in {"list", "item"} -> Reasons
    [] OTHER -> {}

\* What was withheld all the time is withheld now, and was not passed.
ReadOK(b) ==
  /\ reads[b].list # NULL => db[reads[b].list] # NoRow
  /\ reads[b].pc = "item" => reads[b].list # NULL
  /\ Reading(b) => reads[b].withheld \subseteq Withheld(b)
  /\ reads[b].withheld \cap Passed(reads[b].pc) = {}
  /\ reads[b].offer # NULL => reads[b].withheld = {}

Inv ==
  /\ TypeOK
  /\ RefsWithin(db)
  /\ SolidStays
  /\ \A c \in Callers : TransactionOK(c)
  /\ OneHolder
  /\ \A b \in Readers : ReadOK(b)

-----------------------------------------------------------------------------
(* Rows and operations.                                                     *)

LEMMA RowIsSome == ASSUME NEW f \in Row PROVE f # NoRow
<1>1. "tenant" \in DOMAIN f /\ "tenant" \notin DOMAIN NoRow
  BY DEF Row, Columns, NoRow
<1> QED
  BY <1>1

LEMMA ChooseIn == ASSUME NEW S, S # {} PROVE (CHOOSE r \in S : TRUE) \in S
  OBVIOUS

LEMMA ContentHas ==
  /\ NULL \in Content /\ YES \in Content /\ NO \in Content
  /\ VISIBLE \in Content /\ HIDDEN \in Content
  /\ Rows \subseteq Content /\ Rows \X Rows \subseteq Content /\ Values \subseteq Content
  BY DEF Content

LEMMA SolidRows ==
  /\ Solid \subseteq Rows
  /\ \A kind \in SolidKinds : RowsOf[kind] \subseteq Solid
  /\ \A kind \in Kinds : RowsOf[kind] \subseteq Rows
  /\ \A kind \in Kinds \ SolidKinds : RowsOf[kind] \cap Solid = {}
  BY DEF Solid, SolidKinds, RowsOf, Kinds

LEMMA MergeType ==
  ASSUME NEW sets \in Sets, NEW row \in Row
  PROVE  Merge(sets, row) \in Row
  BY DEF Merge, Sets, Row

LEMMA NewRowType ==
  ASSUME NEW c \in Callers
  PROVE  [Blank EXCEPT !["tenant"] = tenantOf[c]] \in Row
<1>1. tenantOf[c] \in Content /\ NULL \in Content
  BY ContentHas
<1> QED
  BY <1>1 DEF Blank, Row

Verbs == {"create", "update", "delete", "upsert", "clear"}

\* The columns of a statement are those that the row's table needs.
Fits(verb, kind, row, columns) ==
  /\ kindOf[row] = kind
  /\ verb \in {"create", "upsert"} => "key" \in DOMAIN columns
  /\ kind = "PriceListItem" =>
       \/ {"key", "parent", "other"} \cap DOMAIN columns = {}
       \/ /\ {"key", "parent", "other"} \subseteq DOMAIN columns
          /\ columns["key"] = <<columns["parent"], columns["other"]>>
  /\ kind = "Assignment" =>
       /\ verb \in {"create", "upsert"} => "other" \in DOMAIN columns
       /\ "other" \in DOMAIN columns => columns["other"] # NULL

LEMMA OperationType ==
  ASSUME NEW verb \in Verbs, NEW kind \in Kinds, NEW row \in Rows,
         NEW columns, NEW refs \in SUBSET Solid,
         \A x \in DOMAIN columns : columns[x] \in Content,
         "tenant" \notin DOMAIN columns,
         \A x \in References \cap DOMAIN columns : columns[x] \in refs \cup {NULL},
         verb \in {"delete", "clear"} => row \notin Solid,
         Fits(verb, kind, row, columns)
  PROVE  Operation(verb, kind, row, columns, refs) \in Operations
           /\ OpOK(Operation(verb, kind, row, columns, refs))
<1> DEFINE op == Operation(verb, kind, row, columns, refs)
           sets == [x \in Columns |-> IF x \in DOMAIN columns THEN columns[x] ELSE SAME]
<1>1. op = [verb |-> verb, kind |-> kind, row |-> row, refs |-> refs, sets |-> sets]
  BY DEF Operation
<1>2. sets \in Sets
  BY DEF Sets
<1>3. sets["tenant"] = SAME
  BY DEF Columns
<1>4. \A x \in References : sets[x] \in {SAME, NULL} \cup refs
  BY DEF Columns, References
<1>7. \A x \in Columns : sets[x] = IF x \in DOMAIN columns THEN columns[x] ELSE SAME
  OBVIOUS
<1> HIDE DEF sets
<1>5. op \in Operations
  BY <1>1, <1>2 DEF Operations, Verbs
<1>8. SAME # NULL /\ \A x \in DOMAIN columns : columns[x] # SAME
  BY ContentHas
<1>9. \A x \in {"key", "parent", "other"} :
        x \in Columns /\ (sets[x] = IF x \in DOMAIN columns THEN columns[x] ELSE SAME)
  BY <1>7 DEF Columns
<1>10. verb \in {"create", "upsert"} => sets["key"] # SAME
  BY <1>8, <1>9 DEF Fits
<1>11. kind = "PriceListItem" =>
         \/ \A x \in {"key", "parent", "other"} : sets[x] = SAME
         \/ /\ \A x \in {"key", "parent", "other"} : sets[x] # SAME
            /\ sets["key"] = <<sets["parent"], sets["other"]>>
  BY <1>8, <1>9 DEF Fits
<1>12. kind = "Assignment" =>
         /\ sets["other"] # NULL
         /\ verb \in {"create", "upsert"} => sets["other"] # SAME
  BY <1>8, <1>9 DEF Fits
<1>6. OpOK(op)
  BY <1>1, <1>3, <1>4, <1>10, <1>11, <1>12 DEF OpOK, Fits
<1> QED
  BY <1>5, <1>6

-----------------------------------------------------------------------------
(* Every request starts a transaction of operations that are OK.            *)

StartsOK(c) ==
  /\ ~Open(c) /\ calls < MaxCalls
  /\ \E todo \in Seq(Operations), file \in Files \cup {NoFile} :
       /\ Start(c, todo, file) /\ \A i \in 1..Len(todo) : OpOK(todo[i])
       /\ Len(todo) <= 1 /\ (file # NoFile => todo = <<>>)

LEMMA CallStarts ==
  ASSUME NEW c \in Callers, ~Open(c), calls < MaxCalls,
         NEW verb \in Verbs, NEW kind \in Kinds, NEW row \in Rows,
         NEW columns, NEW refs \in SUBSET Solid,
         \A x \in DOMAIN columns : columns[x] \in Content,
         "tenant" \notin DOMAIN columns,
         \A x \in References \cap DOMAIN columns : columns[x] \in refs \cup {NULL},
         verb \in {"delete", "clear"} => row \notin Solid,
         Fits(verb, kind, row, columns),
         Call(c, verb, kind, row, columns, refs)
  PROVE  StartsOK(c)
<1> DEFINE op == Operation(verb, kind, row, columns, refs)
<1>1. op \in Operations /\ OpOK(op)
  BY OperationType
<1> HIDE DEF op
<1> DEFINE todo == <<op>>
<1>2. /\ todo \in Seq(Operations) /\ \A i \in 1..Len(todo) : OpOK(todo[i])
      /\ Len(todo) <= 1
  BY <1>1
<1>3. Start(c, todo, NoFile)
  BY DEF Call, op
<1> HIDE DEF todo
<1> QED
  BY <1>2, <1>3 DEF StartsOK

\* What a form fills in is content, and refers to nothing.
LEMMA FormType ==
  ASSUME NEW in \in Forms, NEW C \in SUBSET FormColumns
  PROVE  /\ \A x \in DOMAIN Form(in, C) : Form(in, C)[x] \in Content
         /\ "tenant" \notin DOMAIN Form(in, C)
         /\ References \cap DOMAIN Form(in, C) = {}
  BY DEF Form, FormColumns, References

LEMMA NamedType ==
  /\ Named \in SUBSET FormColumns /\ Named \cup {"extra"} \in SUBSET FormColumns
  /\ "key" \in Named /\ "key" \in Named \cup {"extra"}
  BY DEF Named, FormColumns

LEMMA NewRowOf ==
  ASSUME NEW kind \in Kinds, Unused(kind) # {}
  PROVE  NewRow(kind) \in RowsOf[kind] /\ kindOf[NewRow(kind)] = kind
<1>1. NewRow(kind) \in Unused(kind)
  BY ChooseIn DEF NewRow
<1> QED
  BY <1>1 DEF Unused, RowsOf

LEMMA KnownRow ==
  ASSUME NEW kind \in Kinds, NEW r \in Known(kind)
  PROVE  r \in Rows /\ kindOf[r] = kind
  BY DEF Known, RowsOf

\* Forms give names and switches to anything but prices and assignments.
LEMMA FormFits ==
  ASSUME NEW verb \in {"create", "update"}, NEW kind \in Kinds, NEW row \in Rows,
         kindOf[row] = kind, NEW columns,
         verb = "create" => "key" \in DOMAIN columns,
         kind = "PriceListItem" => {"key", "parent", "other"} \cap DOMAIN columns = {},
         kind # "Assignment"
  PROVE  Fits(verb, kind, row, columns)
  BY DEF Fits

LEMMA FormCreates ==
  ASSUME NEW c \in Callers, ~Open(c), calls < MaxCalls, NEW kind \in Kinds,
         NEW in \in Forms, NEW C \in SUBSET FormColumns, "key" \in C,
         kind \notin {"PriceListItem", "Assignment"},
         create(c, kind, Form(in, C), {})
  PROVE  StartsOK(c)
<1>1. NewRow(kind) \in Rows /\ kindOf[NewRow(kind)] = kind
  BY NewRowOf, SolidRows DEF create
<1>2. Call(c, "create", kind, NewRow(kind), Form(in, C), {})
  BY DEF create
<1>3. Fits("create", kind, NewRow(kind), Form(in, C))
  BY <1>1, FormFits DEF Form
<1> QED
  BY <1>1, <1>2, <1>3, FormType, CallStarts DEF Verbs

LEMMA FormUpdates ==
  ASSUME NEW c \in Callers, ~Open(c), calls < MaxCalls, NEW kind \in Kinds,
         NEW r \in Known(kind), NEW in \in Forms, NEW C \in SUBSET FormColumns,
         kind # "Assignment", kind = "PriceListItem" => "key" \notin C,
         Call(c, "update", kind, r, Form(in, C), {})
  PROVE  StartsOK(c)
<1>1. r \in Rows /\ kindOf[r] = kind
  BY KnownRow
<1>2. Fits("update", kind, r, Form(in, C))
  BY <1>1, FormFits DEF Form, FormColumns
<1> QED
  BY <1>1, <1>2, FormType, CallStarts DEF Verbs

LEMMA Switches ==
  ASSUME NEW c \in Callers, ~Open(c), calls < MaxCalls, NEW kind \in Kinds,
         kind # "Assignment", setActive(c, kind)
  PROVE  StartsOK(c)
<1>1. PICK r \in Known(kind), on \in {YES, NO} :
        Call(c, "update", kind, r, [active |-> on], {})
  BY DEF setActive
<1>2. r \in Rows /\ kindOf[r] = kind
  BY KnownRow
<1>5. Fits("update", kind, r, [active |-> on])
  BY <1>2, FormFits
<1>3. \A x \in DOMAIN [active |-> on] : [active |-> on][x] \in Content
  BY ContentHas
<1>4. "tenant" \notin DOMAIN [active |-> on] /\ References \cap DOMAIN [active |-> on] = {}
  BY DEF References
<1> QED
  BY <1>1, <1>2, <1>3, <1>4, <1>5, CallStarts DEF Verbs

LEMMA ProductCalls ==
  ASSUME NEW c \in Callers, ~Open(c), calls < MaxCalls,
         createProduct(c) \/ updateProduct(c)
  PROVE  StartsOK(c)
<1>1. ASSUME NEW in \in Forms, NEW g \in RowsOf["Category"]
      PROVE  /\ \A x \in DOMAIN ProductForm(in, g) : ProductForm(in, g)[x] \in Content
             /\ "tenant" \notin DOMAIN ProductForm(in, g)
             /\ \A x \in References \cap DOMAIN ProductForm(in, g) :
                  ProductForm(in, g)[x] \in {g} \cup {NULL}
             /\ {g} \in SUBSET Solid /\ "key" \in DOMAIN ProductForm(in, g)
  <2>1. g \in Solid /\ g \in Content
    BY SolidRows, ContentHas DEF SolidKinds, Kinds
  <2> QED
    BY <2>1 DEF ProductForm, Named, FormColumns, References
<1>2. CASE createProduct(c)
  <2>1. PICK in \in Forms, g \in RowsOf["Category"] :
          create(c, "Product", ProductForm(in, g), {g})
    BY <1>2 DEF createProduct
  <2>2. NewRow("Product") \in Rows /\ kindOf[NewRow("Product")] = "Product"
    BY <2>1, NewRowOf, SolidRows DEF create, Kinds
  <2>3. Call(c, "create", "Product", NewRow("Product"), ProductForm(in, g), {g})
    BY <2>1 DEF create
  <2>4. Fits("create", "Product", NewRow("Product"), ProductForm(in, g))
    BY <1>1, <2>2, FormFits DEF Kinds
  <2> QED
    BY <1>1, <2>2, <2>3, <2>4, CallStarts DEF Verbs, Kinds
<1>3. CASE updateProduct(c)
  <2>1. PICK r \in Known("Product"), in \in Forms, g \in RowsOf["Category"] :
          Call(c, "update", "Product", r, ProductForm(in, g), {g})
    BY <1>3 DEF updateProduct
  <2>2. r \in Rows /\ Fits("update", "Product", r, ProductForm(in, g))
    BY KnownRow, FormFits DEF Kinds
  <2> QED
    BY <1>1, <2>1, <2>2, CallStarts DEF Verbs, Kinds
<1> QED
  BY <1>2, <1>3

LEMMA UnitCalls ==
  ASSUME NEW c \in Callers, ~Open(c), calls < MaxCalls,
         createProductUnit(c) \/ updateProductUnit(c)
  PROVE  StartsOK(c)
<1>1. CASE createProductUnit(c)
  <2>1. PICK in \in Forms, p \in RowsOf["Product"], m \in RowsOf["UnitOfMeasure"] :
          create(c, "ProductUnit",
                 [x \in Named \cup {"other", "parent"} |->
                    IF x = "parent" THEN p ELSE UnitForm(in, m)[x]], {p, m})
    BY <1>1 DEF createProductUnit
  <2> DEFINE columns == [x \in Named \cup {"other", "parent"} |->
                           IF x = "parent" THEN p ELSE UnitForm(in, m)[x]]
  <2>2. NewRow("ProductUnit") \in Rows /\ kindOf[NewRow("ProductUnit")] = "ProductUnit"
    BY <2>1, NewRowOf, SolidRows DEF create, Kinds
  <2>3. Call(c, "create", "ProductUnit", NewRow("ProductUnit"), columns, {p, m})
    BY <2>1 DEF create
  <2>4. p \in Solid /\ m \in Solid /\ p \in Content /\ m \in Content
    BY SolidRows, ContentHas DEF SolidKinds, Kinds
  <2>5. \A x \in DOMAIN columns : columns[x] \in Content
    BY <2>4 DEF UnitForm, Named, FormColumns
  <2>6. "tenant" \notin DOMAIN columns
    BY DEF Named
  <2>7. \A x \in References \cap DOMAIN columns : columns[x] \in {p, m} \cup {NULL}
    BY DEF UnitForm, Named, References
  <2>8. "key" \in DOMAIN columns
    BY DEF Named
  <2> HIDE DEF columns
  <2>9. Fits("create", "ProductUnit", NewRow("ProductUnit"), columns)
    BY <2>2, <2>8, FormFits DEF Kinds
  <2> QED
    BY <2>2, <2>3, <2>4, <2>5, <2>6, <2>7, <2>9, CallStarts DEF Verbs, Kinds
<1>2. CASE updateProductUnit(c)
  <2>1. PICK r \in Known("ProductUnit"), in \in Forms, m \in RowsOf["UnitOfMeasure"] :
          Call(c, "update", "ProductUnit", r, UnitForm(in, m), {m})
    BY <1>2 DEF updateProductUnit
  <2>2. r \in Rows /\ Fits("update", "ProductUnit", r, UnitForm(in, m))
    BY KnownRow, FormFits DEF Kinds
  <2>3. m \in Solid /\ m \in Content
    BY SolidRows, ContentHas DEF SolidKinds, Kinds
  <2>4. /\ \A x \in DOMAIN UnitForm(in, m) : UnitForm(in, m)[x] \in Content
        /\ "tenant" \notin DOMAIN UnitForm(in, m)
        /\ \A x \in References \cap DOMAIN UnitForm(in, m) :
             UnitForm(in, m)[x] \in {m} \cup {NULL}
    BY <2>3 DEF UnitForm, Named, FormColumns, References
  <2> QED
    BY <2>1, <2>2, <2>3, <2>4, CallStarts DEF Verbs, Kinds
<1> QED
  BY <1>1, <1>2

LEMMA PriceCalls ==
  ASSUME NEW c \in Callers, ~Open(c), calls < MaxCalls,
         createPriceListItem(c) \/ updatePriceListItem(c) \/ deletePriceListItem(c)
  PROVE  StartsOK(c)
<1>1. CASE createPriceListItem(c)
  <2>1. PICK in \in Forms, l \in RowsOf["PriceList"], u \in RowsOf["ProductUnit"] :
          create(c, "PriceListItem",
                 [key |-> <<l, u>>, parent |-> l, other |-> u, data |-> in.data], {l, u})
    BY <1>1 DEF createPriceListItem
  <2> DEFINE columns == [key |-> <<l, u>>, parent |-> l, other |-> u, data |-> in.data]
  <2>2. NewRow("PriceListItem") \in Rows /\ kindOf[NewRow("PriceListItem")] = "PriceListItem"
    BY <2>1, NewRowOf, SolidRows DEF create, Kinds
  <2>3. Call(c, "create", "PriceListItem", NewRow("PriceListItem"), columns, {l, u})
    BY <2>1 DEF create
  <2>4. l \in Solid /\ u \in Solid /\ l \in Rows /\ u \in Rows
    BY SolidRows DEF SolidKinds, Kinds
  <2>5. <<l, u>> \in Content /\ l \in Content /\ u \in Content /\ in.data \in Content
    BY <2>4, ContentHas DEF FormColumns
  <2>6. \A x \in DOMAIN columns : columns[x] \in Content
    BY <2>5
  <2>7. /\ "tenant" \notin DOMAIN columns
        /\ \A x \in References \cap DOMAIN columns : columns[x] \in {l, u} \cup {NULL}
    BY DEF References
  <2>8. Fits("create", "PriceListItem", NewRow("PriceListItem"), columns)
    BY <2>2 DEF Fits
  <2> HIDE DEF columns
  <2> QED
    BY <2>2, <2>3, <2>4, <2>6, <2>7, <2>8, CallStarts DEF Verbs, Kinds
<1>2. CASE updatePriceListItem(c)
  BY <1>2, FormUpdates DEF updatePriceListItem, FormColumns, Kinds
<1>3. CASE deletePriceListItem(c)
  <2>1. PICK r \in Known("PriceListItem") : Call(c, "delete", "PriceListItem", r, NoRow, {})
    BY <1>3 DEF deletePriceListItem
  <2>2. r \in Rows /\ r \notin Solid /\ kindOf[r] = "PriceListItem"
    BY SolidRows, KnownRow DEF Known, Kinds, SolidKinds
  <2>3. DOMAIN NoRow = {}
    BY DEF NoRow
  <2>4. Fits("delete", "PriceListItem", r, NoRow)
    BY <2>2, <2>3 DEF Fits
  <2> QED
    BY <2>1, <2>2, <2>3, <2>4, CallStarts DEF Verbs, Kinds
<1> QED
  BY <1>1, <1>2, <1>3

LEMMA CustomerCalls ==
  ASSUME NEW c \in Callers, ~Open(c), calls < MaxCalls,
         \/ createCustomer(c) \/ updateCustomer(c) \/ updateCustomerContactInfo(c)
         \/ setCustomerActive(c) \/ setCustomerDiscount(c)
  PROVE  StartsOK(c)
<1>1. CASE createCustomer(c)
  BY <1>1, FormCreates, NamedType DEF createCustomer, Kinds
<1>2. CASE updateCustomer(c)
  BY <1>2, FormUpdates, NamedType DEF updateCustomer, Kinds
<1>3. CASE updateCustomerContactInfo(c)
  BY <1>3, FormUpdates DEF updateCustomerContactInfo, FormColumns, Kinds
<1>4. CASE setCustomerActive(c)
  BY <1>4, Switches DEF setCustomerActive, Kinds
<1>5. CASE setCustomerDiscount(c)
  <2>1. PICK r \in Known("Customer"), in \in Forms :
          Call(c, "update", "Customer", r, [discount |-> in.data], {})
    BY <1>5 DEF setCustomerDiscount
  <2>2. r \in Rows /\ Fits("update", "Customer", r, [discount |-> in.data])
    BY KnownRow, FormFits DEF Kinds
  <2>3. \A x \in DOMAIN [discount |-> in.data] : [discount |-> in.data][x] \in Content
    BY DEF FormColumns
  <2>4. /\ "tenant" \notin DOMAIN [discount |-> in.data]
        /\ References \cap DOMAIN [discount |-> in.data] = {}
    BY DEF References
  <2> QED
    BY <2>1, <2>2, <2>3, <2>4, CallStarts DEF Verbs, Kinds
<1> QED
  BY <1>1, <1>2, <1>3, <1>4, <1>5

LEMMA TermsCalls ==
  ASSUME NEW c \in Callers, ~Open(c), calls < MaxCalls,
         setCustomerPriceListAssignment(c) \/ setCustomerProductVisibility(c)
  PROVE  StartsOK(c)
<1>0. DOMAIN NoRow = {}
  BY DEF NoRow
<1>1. CASE setCustomerPriceListAssignment(c)
  <2>1. PICK k \in RowsOf["Customer"] :
          /\ <<k>> \in RowsOf["Assignment"]
          /\ \/ \E l \in RowsOf["PriceList"] :
                  Call(c, "upsert", "Assignment", <<k>>,
                       [key |-> k, parent |-> k, other |-> l], {k, l})
             \/ Call(c, "clear", "Assignment", <<k>>, NoRow, {k})
    BY <1>1 DEF setCustomerPriceListAssignment
  <2>2. /\ <<k>> \in Rows /\ <<k>> \notin Solid /\ k \in Solid /\ k \in Content
        /\ kindOf[<<k>>] = "Assignment"
    BY <2>1, SolidRows, ContentHas DEF Kinds, SolidKinds, RowsOf
  <2>3. CASE Call(c, "clear", "Assignment", <<k>>, NoRow, {k})
    <3>1. Fits("clear", "Assignment", <<k>>, NoRow)
      BY <1>0, <2>2 DEF Fits
    <3> QED
      BY <1>0, <2>2, <2>3, <3>1, CallStarts DEF Verbs, Kinds
  <2>4. ASSUME NEW l \in RowsOf["PriceList"],
               Call(c, "upsert", "Assignment", <<k>>,
                    [key |-> k, parent |-> k, other |-> l], {k, l})
        PROVE  StartsOK(c)
    <3> DEFINE columns == [key |-> k, parent |-> k, other |-> l]
    <3>1. l \in Solid /\ l \in Content
      BY SolidRows, ContentHas DEF Kinds, SolidKinds
    <3>2. /\ \A x \in DOMAIN columns : columns[x] \in Content
          /\ "tenant" \notin DOMAIN columns
          /\ \A x \in References \cap DOMAIN columns : columns[x] \in {k, l} \cup {NULL}
      BY <2>2, <3>1 DEF References
    <3>3. Call(c, "upsert", "Assignment", <<k>>, columns, {k, l})
      BY <2>4
    <3>4. Fits("upsert", "Assignment", <<k>>, columns)
      BY <2>2, <3>1, SolidRows DEF Fits
    <3> HIDE DEF columns
    <3> QED
      BY <2>2, <3>1, <3>2, <3>3, <3>4, CallStarts DEF Verbs, Kinds
  <2> QED
    BY <2>1, <2>3, <2>4
<1>2. CASE setCustomerProductVisibility(c)
  <2>1. PICK k \in RowsOf["Customer"], p \in RowsOf["Product"] :
          /\ <<k, p>> \in RowsOf["Visibility"]
          /\ \/ \E v \in {VISIBLE, HIDDEN} :
                  Call(c, "upsert", "Visibility", <<k, p>>,
                       [key |-> <<k, p>>, parent |-> k, other |-> p, data |-> v], {k, p})
             \/ Call(c, "clear", "Visibility", <<k, p>>, NoRow, {k, p})
    BY <1>2 DEF setCustomerProductVisibility
  <2>2. /\ <<k, p>> \in Rows /\ <<k, p>> \notin Solid /\ <<k, p>> \in Content
        /\ k \in Solid /\ k \in Content /\ p \in Solid /\ p \in Content
        /\ kindOf[<<k, p>>] = "Visibility"
    BY <2>1, SolidRows, ContentHas DEF Kinds, SolidKinds, RowsOf
  <2>3. CASE Call(c, "clear", "Visibility", <<k, p>>, NoRow, {k, p})
    <3>1. Fits("clear", "Visibility", <<k, p>>, NoRow)
      BY <1>0, <2>2 DEF Fits
    <3> QED
      BY <1>0, <2>2, <2>3, <3>1, CallStarts DEF Verbs, Kinds
  <2>4. ASSUME NEW v \in {VISIBLE, HIDDEN},
               Call(c, "upsert", "Visibility", <<k, p>>,
                    [key |-> <<k, p>>, parent |-> k, other |-> p, data |-> v], {k, p})
        PROVE  StartsOK(c)
    <3> DEFINE columns == [key |-> <<k, p>>, parent |-> k, other |-> p, data |-> v]
    <3>1. v \in Content
      BY ContentHas
    <3>2. /\ \A x \in DOMAIN columns : columns[x] \in Content
          /\ "tenant" \notin DOMAIN columns
          /\ \A x \in References \cap DOMAIN columns : columns[x] \in {k, p} \cup {NULL}
      BY <2>2, <3>1 DEF References
    <3>3. Call(c, "upsert", "Visibility", <<k, p>>, columns, {k, p})
      BY <2>4
    <3>4. Fits("upsert", "Visibility", <<k, p>>, columns)
      BY <2>2 DEF Fits
    <3> HIDE DEF columns
    <3> QED
      BY <2>2, <3>2, <3>3, <3>4, CallStarts DEF Verbs, Kinds
  <2> QED
    BY <2>1, <2>3, <2>4
<1> QED
  BY <1>1, <1>2

LEMMA RequestStarts ==
  ASSUME NEW c \in Callers, Request(c)
  PROVE  StartsOK(c)
<1>1. ~Open(c) /\ calls < MaxCalls
  BY DEF Request, May, categoriesActions, unitsActions, productsActions, productUnitsActions,
         priceListsActions, priceListItemsActions, customersActions, customerPricingActions,
         visibilityActions, importsActions
<1>2. CASE categoriesActions(c)
  BY <1>1, <1>2, FormCreates, FormUpdates, Switches, NamedType
  DEF categoriesActions, createCategory, updateCategory, setCategoryActive, Kinds
<1>3. CASE unitsActions(c)
  BY <1>1, <1>3, FormCreates, FormUpdates, Switches, NamedType
  DEF unitsActions, createUnitOfMeasure, updateUnitOfMeasure, setUnitOfMeasureActive, Kinds
<1>4. CASE productsActions(c)
  BY <1>1, <1>4, ProductCalls, Switches DEF productsActions, setProductActive, Kinds
<1>5. CASE productUnitsActions(c)
  BY <1>1, <1>5, UnitCalls, Switches DEF productUnitsActions, setProductUnitActive, Kinds
<1>6. CASE priceListsActions(c)
  BY <1>1, <1>6, FormCreates, FormUpdates, Switches, NamedType
  DEF priceListsActions, createPriceList, updatePriceList, setPriceListActive, Kinds
<1>7. CASE priceListItemsActions(c)
  BY <1>1, <1>7, PriceCalls DEF priceListItemsActions
<1>8. CASE customersActions(c)
  BY <1>1, <1>8, CustomerCalls DEF customersActions
<1>9. CASE customerPricingActions(c)
  BY <1>1, <1>9, CustomerCalls, TermsCalls DEF customerPricingActions
<1>10. CASE visibilityActions(c)
  BY <1>1, <1>10, TermsCalls DEF visibilityActions
<1>11. CASE importsActions(c)
  <2>1. PICK f \in Files : Start(c, <<>>, f)
    BY <1>11 DEF importsActions, confirmImport
  <2> DEFINE none == <<>>
  <2>2. /\ none \in Seq(Operations) /\ \A i \in 1..Len(none) : OpOK(none[i])
        /\ none = <<>> /\ Len(none) = 0
    OBVIOUS
  <2>3. Start(c, none, f)
    BY <2>1
  <2> HIDE DEF none
  <2>4. Len(none) <= 1
    BY <2>2
  <2> QED
    BY <1>1, <2>2, <2>3, <2>4 DEF StartsOK
<1> QED
  BY <1>2, <1>3, <1>4, <1>5, <1>6, <1>7, <1>8, <1>9, <1>10, <1>11 DEF Request

-----------------------------------------------------------------------------
(* What an import plans for a row of its file.                              *)

LEMMA LookUps ==
  ASSUME NEW kind \in ImportKinds
  PROVE  /\ DOMAIN LookedUp(kind) \subseteq References
         /\ \A x \in DOMAIN LookedUp(kind) : LookedUp(kind)[x] \in SolidKinds
         /\ Compared(kind) \subseteq Columns \ {"tenant", "key"}
         /\ References \cap Compared(kind) \subseteq DOMAIN LookedUp(kind)
         /\ Optional(kind) \subseteq Columns \ ({"tenant", "key"} \cup References)
<1>1. DOMAIN NoRow = {}
  BY DEF NoRow
<1> QED
  BY <1>1 DEF LookedUp, Compared, Optional, ImportKinds, SolidKinds, Kinds, References, Columns

\* The cells of a row whose references were all found; a price's are its key.
CellsOK(cells, kind) ==
  /\ cells \in Row /\ Shaped(kind, cells)
  /\ \A x \in DOMAIN LookedUp(kind) : cells[x] \in Solid

LEMMA ResolvedCells ==
  ASSUME NEW c \in Callers, NEW kind \in ImportKinds, NEW raw \in Row,
         ReferencesFound(c, raw, kind)
  PROVE  CellsOK(Resolved(c, raw, kind), kind)
<1> DEFINE found(x) == CHOOSE r \in ByKey(c, LookedUp(kind)[x], raw[x]) : TRUE
           cells == Resolved(c, raw, kind)
<1>1. ASSUME NEW x \in DOMAIN LookedUp(kind)
      PROVE  found(x) \in Solid /\ found(x) \in Rows /\ found(x) \in Content
  <2>1. found(x) \in ByKey(c, LookedUp(kind)[x], raw[x])
    BY ChooseIn DEF ReferencesFound
  <2> HIDE DEF found
  <2>2. found(x) \in RowsOf[LookedUp(kind)[x]]
    BY <2>1 DEF ByKey
  <2> QED
    BY <2>2, LookUps, SolidRows, ContentHas
<1>2. cells = [x \in Columns |->
         IF x \in DOMAIN LookedUp(kind) THEN found(x)
         ELSE IF x = "key" /\ kind = "PriceListItem"
              THEN <<found("parent"), found("other")>> ELSE raw[x]]
  BY DEF Resolved
<1>3. kind = "PriceListItem" => {"parent", "other"} \subseteq DOMAIN LookedUp(kind)
  BY DEF LookedUp
<1> HIDE DEF found, cells
<1>4. kind = "PriceListItem" => <<found("parent"), found("other")>> \in Content
  BY <1>1, <1>3, ContentHas
<1>5. \A x \in Columns : cells[x] \in Content
  BY <1>1, <1>2, <1>4 DEF Row
<1>6. \A x \in DOMAIN LookedUp(kind) : cells[x] \in Solid
  <2>1. DOMAIN LookedUp(kind) \subseteq Columns
    BY LookUps DEF References, Columns
  <2> QED
    BY <1>1, <1>2, <2>1
<1>7. cells \in Row
  BY <1>2, <1>5 DEF Row
<1>8. Shaped(kind, cells)
  <2>1. kind # "Assignment"
    BY DEF ImportKinds, SolidKinds
  <2>2. CASE kind = "PriceListItem"
    <3>1. /\ cells["parent"] = found("parent") /\ cells["other"] = found("other")
          /\ cells["key"] = <<found("parent"), found("other")>>
      <4>1. "key" \notin DOMAIN LookedUp(kind)
        BY LookUps DEF References
      <4> QED
        BY <1>2, <1>3, <2>2, <4>1 DEF Columns
    <3> QED
      BY <2>1, <3>1 DEF Shaped
  <2> QED
    BY <2>1, <2>2 DEF Shaped
<1> QED
  BY <1>6, <1>7, <1>8 DEF CellsOK, cells

TodoOK(todo) ==
  /\ todo \in Seq(Operations)
  /\ \A i \in 1..Len(todo) : OpOK(todo[i]) /\ todo[i].verb \in {"create", "update"}

LEMMA DiscountOK ==
  ASSUME NEW f \in Files, NEW cells \in Row, NEW r \in Rows, kindOf[r] = f.kind
  PROVE  TodoOK(Discount(f, cells, r))
<1> DEFINE op == Operation("update", "Customer", r, [discount |-> cells["discount"]], {})
<1>1. cells["discount"] \in Content
  BY DEF Row, Columns
<1>2. ASSUME "discount" \in f.present
      PROVE  op \in Operations /\ OpOK(op) /\ op.verb = "update"
  <2> DEFINE columns == [discount |-> cells["discount"]]
  <2>1. kindOf[r] = "Customer"
    BY <1>2
  <2>2. /\ DOMAIN columns = {"discount"} /\ columns["discount"] \in Content
        /\ References \cap DOMAIN columns = {}
    BY <1>1 DEF References
  <2> HIDE DEF columns
  <2>3. Fits("update", "Customer", r, columns)
    BY <2>1, <2>2, FormFits DEF Kinds
  <2>4. op.verb = "update"
    BY DEF Operation
  <2>5. op \in Operations /\ OpOK(op)
    <3>1. op = Operation("update", "Customer", r, columns, {})
      BY DEF columns
    <3> HIDE DEF op
    <3> QED
      BY <2>2, <2>3, <3>1, OperationType DEF Verbs, Kinds
  <2> QED
    BY <2>4, <2>5
<1>3. Discount(f, cells, r) = IF "discount" \in f.present THEN <<op>> ELSE <<>>
  BY DEF Discount
<1> HIDE DEF op
<1>4. CASE "discount" \in f.present
  <2> DEFINE todo == <<op>>
  <2>1. TodoOK(todo)
    BY <1>2, <1>4 DEF TodoOK
  <2> QED
    BY <1>3, <1>4, <2>1
<1>5. CASE "discount" \notin f.present
  <2> DEFINE todo == <<>>
  <2>1. TodoOK(todo)
    BY DEF TodoOK
  <2> QED
    BY <1>3, <1>5, <2>1
<1> QED
  BY <1>4, <1>5

LEMMA TodosTogether ==
  ASSUME NEW op \in Operations, OpOK(op), op.verb \in {"create", "update"},
         NEW rest, TodoOK(rest)
  PROVE  TodoOK(<<op>> \o rest)
<1> DEFINE todo == <<op>> \o rest
<1>1. /\ todo \in Seq(Operations) /\ Len(todo) = Len(rest) + 1 /\ Len(rest) \in Nat
      /\ todo[1] = op /\ \A i \in 1..Len(rest) : todo[i + 1] = rest[i]
  BY DEF TodoOK
<1> HIDE DEF todo
<1>2. ASSUME NEW i \in 1..Len(todo)
      PROVE  OpOK(todo[i]) /\ todo[i].verb \in {"create", "update"}
  <2>1. i = 1 \/ (i - 1 \in 1..Len(rest) /\ todo[i] = rest[i - 1])
    BY <1>1
  <2> QED
    BY <1>1, <2>1 DEF TodoOK
<1> QED
  BY <1>1, <1>2 DEF TodoOK, todo

LEMMA CreateOK ==
  ASSUME NEW f \in Files, NEW cells, CellsOK(cells, f.kind), NEW r \in Rows,
         kindOf[r] = f.kind
  PROVE  TodoOK(executeCreate(f, cells, r))
<1> DEFINE columns == [x \in Compared(f.kind) \cup {"key"} \cup DOMAIN LookedUp(f.kind) |->
                         cells[x]]
           refs == {cells[x] : x \in DOMAIN LookedUp(f.kind)}
           op == Operation("create", f.kind, r, columns, refs)
<1>1. f.kind \in ImportKinds /\ f.kind \in Kinds
  BY DEF ImportKinds, SolidKinds, Kinds
<1>2. refs \in SUBSET Solid
  BY DEF CellsOK
<1>3. \A x \in DOMAIN columns : columns[x] \in Content
  <2>1. DOMAIN columns \subseteq Columns
    BY <1>1, LookUps DEF References, Columns
  <2> QED
    BY <2>1 DEF CellsOK, Row
<1>4. "tenant" \notin DOMAIN columns
  BY <1>1, LookUps DEF References
<1>5. \A x \in References \cap DOMAIN columns : columns[x] \in refs \cup {NULL}
  BY <1>1, LookUps DEF References
<1>9. /\ "key" \in DOMAIN columns
      /\ \A x \in DOMAIN columns : columns[x] = cells[x]
      /\ f.kind = "PriceListItem" => {"parent", "other"} \subseteq DOMAIN columns
  BY DEF LookedUp
<1>10. op.verb = "create"
  BY DEF Operation
<1>6. op \in Operations /\ OpOK(op)
  <2> HIDE DEF columns, refs
  <2>1. f.kind # "Assignment"
    BY DEF ImportKinds, SolidKinds
  <2>2. Fits("create", f.kind, r, columns)
    BY <1>9, <2>1 DEF Fits, CellsOK, Shaped
  <2> QED
    BY <1>1, <1>2, <1>3, <1>4, <1>5, <2>2, OperationType DEF Verbs
<1>7. executeCreate(f, cells, r) = <<op>> \o Discount(f, cells, r)
  BY DEF executeCreate
<1>8. TodoOK(Discount(f, cells, r))
  BY DiscountOK DEF CellsOK
<1> HIDE DEF op
<1> QED
  BY <1>6, <1>7, <1>8, <1>10, TodosTogether

LEMMA UpdateOK ==
  ASSUME NEW f \in Files, NEW cells, CellsOK(cells, f.kind), NEW r \in Rows,
         kindOf[r] = f.kind, NEW row \in Row
  PROVE  TodoOK(executeUpdate(f, cells, r, row))
<1> DEFINE data == updateData(f, cells, row)
           columns == Saves(f, cells, row)
           refs == {cells[x] : x \in DOMAIN LookedUp(f.kind) \cap Compared(f.kind)}
           op == Operation("update", f.kind, r, columns, refs)
<1>1. f.kind \in ImportKinds /\ f.kind \in Kinds
  BY DEF ImportKinds, SolidKinds, Kinds
<1>2. refs \in SUBSET Solid
  BY DEF CellsOK
<1>3. /\ Compared(f.kind) \subseteq Columns
      /\ \A x \in Compared(f.kind) : data[x] \in Content
  BY <1>1, LookUps DEF CellsOK, Row, updateData
<1>4. \A x \in References \cap Compared(f.kind) : data[x] \in refs
  BY <1>1, LookUps DEF updateData, References
<1>5. "tenant" \notin Compared(f.kind) /\ cells["key"] \in Content /\ NULL \in Content
  BY <1>1, LookUps, ContentHas DEF CellsOK, Row, Columns
<1>12. columns = [x \in Saved(f.kind) |->
                    IF x \in Compared(f.kind) THEN data[x]
                    ELSE IF x = "key" THEN cells["key"] ELSE NULL]
  BY DEF Saves
<1>13. Saved(f.kind) \subseteq Compared(f.kind) \cup {"key", "extra"}
  BY DEF Saved
<1> HIDE DEF data, refs, columns
<1>6. /\ \A x \in DOMAIN columns : columns[x] \in Content
      /\ "tenant" \notin DOMAIN columns
      /\ \A x \in References \cap DOMAIN columns : columns[x] \in refs \cup {NULL}
  BY <1>3, <1>4, <1>5, <1>12, <1>13 DEF References
<1>10. f.kind = "PriceListItem" => DOMAIN columns = {"data"}
  BY <1>12 DEF Saved, Compared
<1>11. op.verb = "update"
  BY DEF Operation
<1>7. op \in Operations /\ OpOK(op)
  <2> HIDE DEF columns
  <2>1. Fits("update", f.kind, r, columns)
    BY <1>1, <1>10, FormFits DEF ImportKinds, SolidKinds
  <2> QED
    BY <1>1, <1>2, <1>6, <2>1, OperationType DEF Verbs
<1>8. executeUpdate(f, cells, r, row) = <<op>> \o Discount(f, cells, r)
  BY DEF executeUpdate, columns, refs
<1>9. TodoOK(Discount(f, cells, r))
  BY DiscountOK DEF CellsOK
<1> HIDE DEF op
<1> QED
  BY <1>7, <1>8, <1>9, <1>11, TodosTogether

LEMMA PlanOK ==
  ASSUME NEW c \in Callers, NEW f \in Files, NEW i \in 1..Len(f.rows), TypeOK,
         PlanRow(c, f, i).status = "CREATE" => Unused(f.kind) # {}
  PROVE  PlanRow(c, f, i).status \in Status /\ TodoOK(PlanRow(c, f, i).todo)
<1> DEFINE cells == Resolved(c, f.rows[i], f.kind)
           existing == ByKey(c, f.kind, cells["key"])
           r == CHOOSE r \in existing : TRUE
           row == View(c, r)
           plan == PlanRow(c, f, i)
           none == Plan("ERROR", <<>>)
           create1 == Plan("CREATE", executeCreate(f, cells, NewRow(f.kind)))
           update1 == Plan("UPDATE", executeUpdate(f, cells, r, row))
           same == Plan("NO_CHANGE", <<>>)
           wrong == ~Accepted(f, i) \/ ~ReferencesFound(c, f.rows[i], f.kind)
<1>1. \/ plan = none \/ plan = same
      \/ plan = create1 /\ ~wrong /\ existing = {}
      \/ plan = update1 /\ ~wrong /\ existing # {}
  BY DEF PlanRow
<1>2. f.kind \in ImportKinds /\ f.kind \in Kinds
  BY DEF ImportKinds, SolidKinds, Kinds
<1>3. ASSUME ~wrong PROVE CellsOK(cells, f.kind)
  <2>1. f.rows[i] \in Row
    BY <1>3 DEF Accepted
  <2> QED
    BY <1>2, <1>3, <2>1, ResolvedCells
<1>4. CASE plan = none \/ plan = same
  <2>1. plan.status \in Status /\ plan.todo = <<>>
    <3> HIDE DEF plan
    <3> QED
      BY <1>4 DEF Plan, Status
  <2>2. TodoOK(<<>>)
    BY DEF TodoOK
  <2> QED
    BY <2>1, <2>2
<1>5. CASE plan = create1 /\ ~wrong
  <2>1. plan.status = "CREATE" /\ plan.todo = executeCreate(f, cells, NewRow(f.kind))
    BY <1>5 DEF Plan
  <2>2. NewRow(f.kind) \in Rows /\ kindOf[NewRow(f.kind)] = f.kind
    BY <1>2, <2>1, NewRowOf, SolidRows
  <2> HIDE DEF cells, plan
  <2>3. TodoOK(executeCreate(f, cells, NewRow(f.kind)))
    BY <1>3, <1>5, <2>2, CreateOK
  <2> QED
    BY <2>1, <2>3 DEF Status, plan
<1>6. CASE plan = update1 /\ ~wrong /\ existing # {}
  <2>1. plan.status = "UPDATE" /\ plan.todo = executeUpdate(f, cells, r, row)
    BY <1>6 DEF Plan
  <2>2. r \in existing
    BY <1>6, ChooseIn
  <2>3. r \in Rows /\ kindOf[r] = f.kind /\ row # NoRow
    <3> HIDE DEF cells, r
    <3> QED
      BY <2>2, <1>2 DEF ByKey, Sees, RowsOf
  <2>4. row \in Row
    <3> HIDE DEF r
    <3> QED
      BY <2>3 DEF View, Drafted, TypeOK, Transactions, RowOrNone
  <2> HIDE DEF cells, plan, r, row
  <2>5. TodoOK(executeUpdate(f, cells, r, row))
    BY <1>3, <1>6, <2>3, <2>4, UpdateOK
  <2> QED
    BY <2>1, <2>5 DEF Status, plan
<1> HIDE DEF create1, update1, wrong, none, same, existing, cells
<1> QED
  BY <1>1, <1>4, <1>5, <1>6, Zenon

-----------------------------------------------------------------------------
(* Types.                                                                   *)

LEMMA ViewType ==
  ASSUME TypeOK, NEW c \in Callers, NEW r \in Rows
  PROVE  View(c, r) \in RowOrNone
  BY DEF TypeOK, View, Transactions

LEMMA IdleType ==
  /\ Idle \in Transactions
  /\ Idle.pc = "idle" /\ Idle.todo = <<>> /\ Idle.wrote = {}
  BY DEF Idle, Transactions, RowOrNone

LEMMA TransactionType ==
  ASSUME TypeOK, NEW c \in Callers
  PROVE  /\ tx[c] \in Transactions
         /\ tx[c].todo \in Seq(Operations) /\ tx[c].wrote \subseteq Rows
         /\ tx[c].draft \in [Rows -> RowOrNone]
         /\ tx[c].pc = "write" => tx[c].todo # <<>>
  BY DEF TypeOK, Transactions

LEMMA OpType ==
  ASSUME TypeOK, NEW c \in Callers, tx[c].todo # <<>>
  PROVE  /\ Op(c) \in Operations /\ Op(c) = tx[c].todo[1]
         /\ 1 \in 1..Len(tx[c].todo)
         /\ Tail(tx[c].todo) \in Seq(Operations)
         /\ Len(Tail(tx[c].todo)) = Len(tx[c].todo) - 1
         /\ \A i \in 1..Len(Tail(tx[c].todo)) :
              i + 1 \in 1..Len(tx[c].todo) /\ Tail(tx[c].todo)[i] = tx[c].todo[i + 1]
<1>1. tx[c].todo \in Seq(Operations)
  BY TransactionType
<1> DEFINE todo == tx[c].todo
<1>2. todo # <<>> /\ todo \in Seq(Operations)
  BY <1>1
<1> HIDE DEF todo
<1>3. /\ Head(todo) \in Operations /\ Head(todo) = todo[1] /\ 1 \in 1..Len(todo)
      /\ Tail(todo) \in Seq(Operations) /\ Len(Tail(todo)) = Len(todo) - 1
      /\ \A i \in 1..Len(Tail(todo)) :
           i + 1 \in 1..Len(todo) /\ Tail(todo)[i] = todo[i + 1]
  BY <1>2
<1> QED
  BY <1>3 DEF todo, Op

-----------------------------------------------------------------------------
(* A step that only changes the transaction of c.                           *)

\* What is known of a transaction depends on its own state and the rows only.
LEMMA TransactionFrame ==
  ASSUME NEW d \in Callers, tx'[d] = tx[d], db' = db, TransactionOK(d)
  PROVE  TransactionOK(d)'
<1>1. \A r : Sees(d, r)' <=> Sees(d, r)
  BY DEF Sees, View, Drafted
<1>2. ASSUME NEW r \in tx[d].wrote PROVE DraftOK(d, r)'
  <2>1. DraftOK(d, r)
    BY DEF TransactionOK
  <2> QED
    BY <1>1, <2>1 DEF DraftOK
<1>3. Op(d)' = Op(d)
  BY DEF Op
<1> QED
  BY <1>1, <1>2, <1>3 DEF TransactionOK

LEMMA GoKeeps ==
  ASSUME Inv, NEW c \in Callers, NEW record \in Transactions, Go(c, record),
         UNCHANGED <<db, history, reads>>, calls' \in 0..MaxCalls,
         record.pc = "write" => record.todo # <<>>,
         \A d \in Callers \ {c} : record.wrote \cap tx[d].wrote = {},
         TransactionOK(c)'
  PROVE  Inv'
<1>1. /\ tx \in [Callers -> Transactions] /\ tx' = [tx EXCEPT ![c] = record]
      /\ db' = db /\ history' = history /\ reads' = reads
  BY DEF Inv, TypeOK, Go
<1>2. tx' \in [Callers -> Transactions] /\ tx'[c] = record
  BY <1>1
<1>3. ASSUME NEW d \in Callers, d # c PROVE tx'[d] = tx[d]
  BY <1>1, <1>3
<1>4. \A d \in Callers : tx'[d].pc = "write" => tx'[d].todo # <<>>
  BY <1>2, <1>3 DEF Inv, TypeOK
<1>5. TypeOK'
  BY <1>1, <1>2, <1>4 DEF Inv, TypeOK
<1>6. ASSUME NEW d \in Callers, d # c PROVE TransactionOK(d)'
  <2>1. tx'[d] = tx[d] /\ TransactionOK(d)
    BY <1>3, <1>6 DEF Inv
  <2> QED
    BY <1>1, <2>1, TransactionFrame
<1>7. OneHolder'
  BY <1>2, <1>3 DEF Inv, OneHolder
<1>8. ASSUME NEW b \in Readers PROVE ReadOK(b)'
  <2>1. ReadOK(b)
    BY DEF Inv
  <2> QED
    BY <1>1, <2>1 DEF ReadOK, Reading, Withheld, Override, Assignment, Product
<1>9. RefsWithin(db)' /\ SolidStays'
  BY <1>1 DEF Inv, RefsWithin, SolidStays
<1> QED
  BY <1>5, <1>6, <1>7, <1>8, <1>9 DEF Inv

\* A transaction that writes nothing yet sees what it saw.
LEMMA NothingWritten ==
  ASSUME Inv, NEW c \in Callers, NEW record \in Transactions, Go(c, record),
         UNCHANGED db,
         record.wrote = tx[c].wrote, record.draft = tx[c].draft, record.pc # "idle",
         \A i \in 1..Len(record.todo) : OpOK(record.todo[i]),
         record.pc = "write" => \A q \in Head(record.todo).refs : Sees(c, q)
  PROVE  TransactionOK(c)'
<1>1. tx'[c] = record /\ db' = db
  BY DEF Inv, TypeOK, Go
<1>2. \A r : View(c, r)' = View(c, r)
  BY <1>1 DEF View, Drafted
<1>3. \A r : Sees(c, r)' <=> Sees(c, r)
  BY <1>2 DEF Sees
<1>4. \A r \in tx[c].wrote : DraftOK(c, r)'
  BY <1>1, <1>3 DEF Inv, TransactionOK, DraftOK
<1>5. (tx[c].pc = "write" => \A q \in Op(c).refs : Sees(c, q))'
  BY <1>1, <1>3 DEF Op
<1>6. (\A i \in 1..Len(tx[c].todo) : OpOK(tx[c].todo[i]))'
  BY <1>1
<1> QED
  BY <1>1, <1>4, <1>5, <1>6 DEF TransactionOK

LEMMA Disjoint ==
  ASSUME Inv, NEW c \in Callers, NEW d \in Callers \ {c}
  PROVE  tx[c].wrote \cap tx[d].wrote = {}
  BY DEF Inv, OneHolder

LEMMA AbortKeeps ==
  ASSUME Inv, NEW c \in Callers, Abort(c)
  PROVE  Inv'
<1>1. Go(c, Idle) /\ UNCHANGED <<db, history, calls, reads>>
  BY DEF Abort
<1>2. tx'[c] = Idle
  BY <1>1 DEF Go, Inv, TypeOK
<1>3. TransactionOK(c)'
  <2>1. Idle.pc # "write" /\ Len(Idle.todo) = 0
    BY IdleType
  <2> QED
    BY <1>2, <2>1, IdleType DEF TransactionOK
<1> QED
  BY <1>1, <1>3, IdleType, GoKeeps DEF Inv, TypeOK

LEMMA StartKeeps ==
  ASSUME Inv, NEW c \in Callers, StartsOK(c)
  PROVE  Inv'
<1>1. PICK todo \in Seq(Operations), file \in Files \cup {NoFile} :
        Start(c, todo, file) /\ \A i \in 1..Len(todo) : OpOK(todo[i])
  BY DEF StartsOK
<1> DEFINE record == [Idle EXCEPT !.pc = "read", !.call = calls + 1,
                                  !.todo = todo, !.file = file]
<1>2. calls \in 0..MaxCalls /\ calls < MaxCalls /\ calls' = calls + 1
  BY <1>1 DEF Inv, TypeOK, StartsOK, Start
<1>3. calls' \in 0..MaxCalls /\ calls + 1 \in Nat
  BY <1>2
<1>4. record \in Transactions /\ record.pc = "read" /\ record.todo = todo
        /\ record.wrote = {}
  BY <1>3, IdleType DEF Transactions, Idle
<1>5. Go(c, record) /\ UNCHANGED <<db, history, reads>>
  BY <1>1 DEF Start, Go
<1> HIDE DEF record
<1>6. tx'[c] = record
  BY <1>5 DEF Go, Inv, TypeOK
<1>7. TransactionOK(c)'
  <2>1. (\A i \in 1..Len(tx[c].todo) : OpOK(tx[c].todo[i]))'
    BY <1>1, <1>4, <1>6
  <2> QED
    BY <1>4, <1>6, <2>1 DEF TransactionOK
<1> QED
  BY <1>3, <1>4, <1>5, <1>7, GoKeeps

\* An import that has rows left has a file.
LEMMA FileRows ==
  ASSUME NEW c \in Callers, tx[c] \in Transactions, RowsLeft(c)
  PROVE  tx[c].file \in Files /\ tx[c].file # NoFile /\ NextRow(c) \in 1..Len(tx[c].file.rows)
<1>1. tx[c].file \in Files \cup {NoFile} /\ tx[c].plan \in Seq(Status)
  BY DEF Transactions
<1>2. tx[c].file # NoFile
  BY <1>1 DEF RowsLeft, NextRow, NoFile
<1>3. tx[c].file.rows \in Seq(Row \cup {NULL})
  BY <1>1, <1>2
<1> QED
  BY <1>1, <1>2, <1>3 DEF RowsLeft, NextRow

LEMMA ImportRowKeeps ==
  ASSUME Inv, NEW c \in Callers, ImportRow(c)
  PROVE  Inv'
<1> DEFINE f == tx[c].file
           i == NextRow(c)
           plan == PlanRow(c, f, i)
           record == [tx[c] EXCEPT !.todo = plan.todo, !.plan = Append(@, plan.status)]
<1>1. /\ tx[c] \in Transactions /\ tx[c].pc = "read" /\ RowsLeft(c)
      /\ plan.status = "CREATE" => Unused(f.kind) # {}
      /\ Go(c, record) /\ UNCHANGED <<db, history, calls, reads>>
  BY TransactionType DEF ImportRow, Inv
<1>2. f \in Files /\ i \in 1..Len(f.rows)
  BY <1>1, FileRows
<1>4. plan.status \in Status /\ TodoOK(plan.todo)
  <2> HIDE DEF f, i
  <2> QED
    BY <1>1, <1>2, PlanOK DEF Inv
<1> HIDE DEF plan, f
<1>5. /\ record \in Transactions /\ record.pc = "read" /\ record.todo = plan.todo
      /\ record.wrote = tx[c].wrote /\ record.draft = tx[c].draft
  <2> DEFINE extended == Append(tx[c].plan, plan.status)
  <2>1. tx[c].plan \in Seq(Status)
    BY <1>1 DEF Transactions
  <2>2. extended \in Seq(Status) /\ plan.todo \in Seq(Operations)
    BY <1>4, <2>1 DEF TodoOK
  <2>3. record = [tx[c] EXCEPT !.todo = plan.todo, !.plan = extended]
    OBVIOUS
  <2> HIDE DEF extended, record
  <2> QED
    BY <1>1, <2>2, <2>3 DEF Transactions
<1> HIDE DEF record
<1>6. TransactionOK(c)'
  BY <1>1, <1>4, <1>5, NothingWritten DEF TodoOK
<1> QED
  BY <1>1, <1>5, <1>6, Disjoint, GoKeeps DEF Inv, TypeOK

LEMMA ReadRowKeeps ==
  ASSUME Inv, NEW c \in Callers, ReadRow(c)
  PROVE  Inv'
<1>1. /\ TypeOK /\ tx[c] \in Transactions /\ tx[c].pc = "read" /\ tx[c].todo # <<>>
      /\ \A i \in 1..Len(tx[c].todo) : OpOK(tx[c].todo[i])
      /\ UNCHANGED <<db, history, calls, reads>> /\ calls \in 0..MaxCalls
  BY TransactionType DEF ReadRow, AtOperation, Inv, TransactionOK, TypeOK
<1>2. CASE NothingToClear(c)
  <2> DEFINE record == [tx[c] EXCEPT !.todo = Tail(@)]
  <2>1. Go(c, record)
    BY <1>2 DEF ReadRow
  <2>2. /\ record \in Transactions /\ record.pc = "read"
        /\ record.todo = Tail(tx[c].todo)
        /\ record.wrote = tx[c].wrote /\ record.draft = tx[c].draft
    BY <1>1, OpType DEF Transactions
  <2>3. \A i \in 1..Len(record.todo) : OpOK(record.todo[i])
    BY <1>1, <2>2, OpType
  <2> HIDE DEF record
  <2>4. TransactionOK(c)'
    BY <1>1, <2>1, <2>2, <2>3, NothingWritten
  <2> QED
    BY <1>1, <2>1, <2>2, <2>4, Disjoint, GoKeeps
<1>3. CASE ~NothingToClear(c)
  <2> DEFINE record == [tx[c] EXCEPT !.pc = "write", !.before = View(c, Op(c).row)]
  <2>1. Go(c, record) /\ Found(c)
    BY <1>3 DEF ReadRow
  <2>2. View(c, Op(c).row) \in RowOrNone
    BY <1>1, OpType, ViewType DEF Operations
  <2>3. /\ record \in Transactions /\ record.pc = "write" /\ record.todo = tx[c].todo
        /\ record.wrote = tx[c].wrote /\ record.draft = tx[c].draft
    BY <1>1, <2>2 DEF Transactions
  <2> HIDE DEF record
  <2>4. TransactionOK(c)'
    BY <1>1, <2>1, <2>3, NothingWritten DEF Found, Op
  <2> QED
    BY <1>1, <2>1, <2>3, <2>4, Disjoint, GoKeeps
<1> QED
  BY <1>2, <1>3

-----------------------------------------------------------------------------
(* A write.                                                                 *)

\* A row that nothing deletes is seen by the transactions of its tenant.
LEMMA SolidSeen ==
  ASSUME Inv, NEW c \in Callers, NEW q \in Solid,
         db[q] # NoRow, db[q]["tenant"] = tenantOf[c]
  PROVE  Sees(c, q)
<1>1. CASE q \in tx[c].wrote
  BY <1>1 DEF Inv, TransactionOK, DraftOK, Sees, View, Drafted
<1>2. CASE q \notin tx[c].wrote
  BY <1>2 DEF Sees, View, Drafted
<1> QED
  BY <1>1, <1>2

\* What c sees refers to rows that c sees.
LEMMA ViewRefers ==
  ASSUME Inv, NEW c \in Callers, NEW r \in Rows, Sees(c, r),
         NEW x \in References, View(c, r)[x] # NULL
  PROVE  View(c, r)[x] \in Solid /\ Sees(c, View(c, r)[x])
<1>1. CASE r \in tx[c].wrote
  <2>1. View(c, r) = tx[c].draft[r]
    BY <1>1 DEF View, Drafted
  <2>2. DraftOK(c, r)
    BY <1>1 DEF Inv, TransactionOK
  <2>3. tx[c].draft[r] # NoRow
    BY <2>1 DEF Sees
  <2> QED
    BY <2>1, <2>2, <2>3 DEF DraftOK
<1>2. CASE r \notin tx[c].wrote
  <2>1. View(c, r) = db[r] /\ db[r] # NoRow /\ db[r]["tenant"] = tenantOf[c]
    BY <1>2 DEF Sees, View, Drafted
  <2>2. /\ db[r][x] \in Solid /\ db[db[r][x]] # NoRow
        /\ db[db[r][x]]["tenant"] = tenantOf[c]
    BY <2>1 DEF Inv, RefsWithin
  <2> QED
    BY <2>1, <2>2, SolidSeen
<1> QED
  BY <1>1, <1>2

\* The row that an operation writes.
LEMMA WrittenRow ==
  ASSUME Inv, NEW c \in Callers, tx[c].pc = "write", tx[c].todo # <<>>, ~Conflict(c)
  PROVE  LET r == Op(c).row
             row == Written(c)
         IN  /\ r \in Rows /\ row \in RowOrNone
             /\ row = NoRow => r \notin Solid
             /\ row # NoRow =>
                  /\ row \in Row /\ row["tenant"] = tenantOf[c]
                  /\ \A x \in References :
                       row[x] # NULL => row[x] \in Solid /\ Sees(c, row[x])
             /\ View(c, r) # NoRow => Sees(c, r)
<1> DEFINE r == Op(c).row
           sets == Op(c).sets
           view == View(c, r)
           blank == [Blank EXCEPT !["tenant"] = tenantOf[c]]
<1>1. Op(c) \in Operations /\ OpOK(Op(c)) /\ \A q \in Op(c).refs : Sees(c, q)
  BY OpType DEF Inv, TransactionOK
<1>2. r \in Rows /\ sets \in Sets /\ Op(c).refs \subseteq Solid
  BY <1>1 DEF Operations
<1>3. view \in RowOrNone /\ (view # NoRow => Sees(c, r))
  BY <1>2, ViewType DEF Conflict, Inv
<1>4. /\ sets["tenant"] = SAME
      /\ \A x \in References : sets[x] \in {SAME, NULL} \cup Op(c).refs
      /\ Op(c).verb \in {"delete", "clear"} => r \notin Solid
  BY <1>1 DEF OpOK
<1>5. CASE Op(c).verb \in {"delete", "clear"}
  <2>1. Written(c) = NoRow
    BY <1>5 DEF Written
  <2> QED
    BY <1>2, <1>3, <1>4, <1>5, <2>1 DEF RowOrNone
<1>6. ASSUME NEW old \in Row, Written(c) = Merge(sets, old), old["tenant"] = tenantOf[c],
             \A x \in References : old[x] # NULL => old[x] \in Solid /\ Sees(c, old[x])
      PROVE  /\ Written(c) \in Row /\ Written(c) # NoRow
             /\ Written(c)["tenant"] = tenantOf[c]
             /\ \A x \in References : Written(c)[x] # NULL =>
                  Written(c)[x] \in Solid /\ Sees(c, Written(c)[x])
  <2>1. Written(c) \in Row
    BY <1>2, <1>6, MergeType
  <2>2. \A x \in Columns :
          Written(c)[x] = IF sets[x] = SAME THEN old[x] ELSE sets[x]
    BY <1>6 DEF Merge
  <2>3. Written(c)["tenant"] = tenantOf[c]
    BY <1>4, <1>6, <2>2 DEF Columns
  <2>4. ASSUME NEW x \in References, Written(c)[x] # NULL
        PROVE  Written(c)[x] \in Solid /\ Sees(c, Written(c)[x])
    <3>1. x \in Columns
      BY DEF References, Columns
    <3>2. CASE sets[x] = SAME
      <4>1. Written(c)[x] = old[x]
        BY <2>2, <3>1, <3>2
      <4> QED
        BY <1>6, <2>4, <4>1
    <3>3. CASE sets[x] # SAME
      <4>1. Written(c)[x] \in Op(c).refs
        BY <1>4, <2>2, <2>4, <3>1, <3>3
      <4> QED
        BY <1>1, <1>2, <4>1
    <3> QED
      BY <3>2, <3>3
  <2> QED
    BY <2>1, <2>3, <2>4, RowIsSome
<1>7. CASE Op(c).verb \notin {"delete", "clear"} /\ view # NoRow
  <2>1. Written(c) = Merge(sets, view)
    BY <1>7 DEF Written
  <2>2. view \in Row
    BY <1>3, <1>7 DEF RowOrNone
  <2>3. view["tenant"] = tenantOf[c]
    BY <1>3, <1>7 DEF Sees
  <2>4. \A x \in References : view[x] # NULL => view[x] \in Solid /\ Sees(c, view[x])
    BY <1>2, <1>3, <1>7, ViewRefers
  <2> HIDE DEF view
  <2> QED
    BY <1>2, <1>3, <1>6, <2>1, <2>2, <2>3, <2>4 DEF RowOrNone, view
<1>8. CASE Op(c).verb \notin {"delete", "clear"} /\ view = NoRow
  <2>1. Written(c) = Merge(sets, blank)
    BY <1>8 DEF Written
  <2>2. blank \in Row /\ blank["tenant"] = tenantOf[c]
    BY NewRowType DEF Blank, Columns
  <2>3. \A x \in References : blank[x] = NULL
    BY DEF Blank, References, Columns
  <2> HIDE DEF blank
  <2> QED
    BY <1>2, <1>3, <1>6, <1>8, <2>1, <2>2, <2>3 DEF RowOrNone
<1> QED
  BY <1>5, <1>7, <1>8

LEMMA TellsType ==
  ASSUME NEW sets \in Sets, NEW row \in RowOrNone
  PROVE  Tells(sets, row) \in Sets \cup {NoRow}
  BY DEF Tells, Sets, RowOrNone, Row

LEMMA EntryType ==
  ASSUME Inv, NEW c \in Callers, tx[c].todo # <<>>, Written(c) \in RowOrNone
  PROVE  Entry(c) \in Entries
<1>1. Op(c).sets \in Sets
  BY OpType DEF Inv, Operations
<1>2. tx[c].before \in RowOrNone /\ tx[c].call \in Nat
  BY TransactionType DEF Inv, Transactions
<1>3. Set(Op(c).sets) \subseteq Columns
  BY DEF Set
<1>4. /\ Tells(Op(c).sets, tx[c].before) \in Sets \cup {NoRow}
      /\ Tells(Op(c).sets, Written(c)) \in Sets \cup {NoRow}
  BY <1>1, <1>2, TellsType
<1> QED
  BY <1>2, <1>3, <1>4 DEF Entry, Entries

LEMMA WriteRowKeeps ==
  ASSUME Inv, NEW c \in Callers, WriteRow(c)
  PROVE  Inv'
<1> DEFINE r == Op(c).row
           row == Written(c)
           record == [tx[c] EXCEPT !.pc = "read", !.todo = Tail(@),
                                   !.wrote = @ \cup {r}, !.draft[r] = row,
                                   !.told[r] = Append(@, Entry(c))]
<1>1. /\ TypeOK /\ tx[c] \in Transactions /\ tx[c].pc = "write" /\ tx[c].todo # <<>>
      /\ Turn(c) /\ ~Conflict(c)
      /\ UNCHANGED <<db, history, calls, reads>> /\ calls \in 0..MaxCalls
  BY TransactionType DEF WriteRow, Turn, Inv, TypeOK
<1>2. Go(c, record)
  BY DEF WriteRow
<1>3. /\ r \in Rows /\ row \in RowOrNone
      /\ row = NoRow => r \notin Solid
      /\ row # NoRow =>
           /\ row \in Row /\ row["tenant"] = tenantOf[c]
           /\ \A x \in References : row[x] # NULL => row[x] \in Solid /\ Sees(c, row[x])
      /\ View(c, r) # NoRow => Sees(c, r)
  BY <1>1, WrittenRow
<1>4. Entry(c) \in Entries
  BY <1>1, <1>3, EntryType
<1>5. /\ record \in Transactions /\ record.pc = "read"
      /\ record.todo = Tail(tx[c].todo)
      /\ record.wrote = tx[c].wrote \cup {r}
      /\ record.draft = [tx[c].draft EXCEPT ![r] = row]
  <2> DEFINE told == [tx[c].told EXCEPT ![r] = Append(@, Entry(c))]
             draft == [tx[c].draft EXCEPT ![r] = row]
             todo == Tail(tx[c].todo)
  <2>1. told \in [Rows -> Seq(Entries)]
    <3>1. tx[c].told \in [Rows -> Seq(Entries)]
      BY <1>1 DEF Transactions
    <3>2. Append(tx[c].told[r], Entry(c)) \in Seq(Entries)
      BY <1>3, <1>4, <3>1
    <3> QED
      BY <1>3, <3>1, <3>2
  <2>2. draft \in [Rows -> RowOrNone]
    BY <1>1, <1>3 DEF Transactions
  <2>3. todo \in Seq(Operations)
    BY <1>1, OpType
  <2>4. record = [tx[c] EXCEPT !.pc = "read", !.todo = todo, !.wrote = @ \cup {r},
                               !.draft = draft, !.told = told]
    BY <1>1 DEF Transactions
  <2> HIDE DEF told, draft, todo, record, row, r
  <2>5. tx[c].wrote \cup {r} \subseteq Rows
    BY <1>1, <1>3 DEF Transactions
  <2>6. record \in Transactions
    BY <1>1, <2>1, <2>2, <2>3, <2>4, <2>5 DEF Transactions
  <2>7. /\ record.pc = "read" /\ record.todo = todo
        /\ record.wrote = tx[c].wrote \cup {r} /\ record.draft = draft
    BY <1>1, <2>4 DEF Transactions
  <2> QED
    BY <2>6, <2>7 DEF draft, todo
<1> HIDE DEF record
<1>6. \A d \in Callers \ {c} : record.wrote \cap tx[d].wrote = {}
  <2>1. SUFFICES ASSUME NEW d \in Callers \ {c} PROVE r \notin tx[d].wrote
    BY <1>5, Disjoint
  <2>2. CASE Open(d)
    BY <1>1, <2>2 DEF Turn, WaitsFor, Drafted
  <2>3. CASE ~Open(d)
    BY <2>3 DEF Open, Inv, TransactionOK
  <2> QED
    BY <2>2, <2>3
<1>7. tx'[c] = record /\ db' = db
  BY <1>1, <1>2 DEF Go, TypeOK
<1>8. ASSUME NEW q \in Rows
      PROVE  View(c, q)' = IF q = r THEN row ELSE View(c, q)
  <2>1. tx[c].draft \in [Rows -> RowOrNone]
    BY <1>1, TransactionType
  <2> HIDE DEF r, row
  <2> QED
    BY <1>3, <1>5, <1>7, <2>1 DEF View, Drafted
<1>9. ASSUME NEW q \in Solid, Sees(c, q) PROVE Sees(c, q)'
  <2>1. q \in Rows
    BY SolidRows
  <2> HIDE DEF r, row
  <2> QED
    BY <1>3, <1>8, <1>9, <2>1 DEF Sees
<1>10. ASSUME NEW q \in tx'[c].wrote PROVE DraftOK(c, q)'
  <2>1. CASE q = r
    <3>1. tx'[c].draft[q] = row
      <4> HIDE DEF r, row
      <4> QED
        BY <1>1, <1>3, <1>5, <1>7, <2>1, TransactionType
    <3>2. db[r] # NoRow => db[r]["tenant"] = tenantOf[c]
      <4>1. CASE r \in tx[c].wrote
        BY <4>1 DEF Inv, TransactionOK, DraftOK
      <4>2. CASE r \notin tx[c].wrote
        BY <1>3, <4>2 DEF Sees, View, Drafted
      <4> QED
        BY <4>1, <4>2
    <3> HIDE DEF r, row
    <3> QED
      BY <1>3, <1>7, <1>9, <2>1, <3>1, <3>2 DEF DraftOK
  <2>2. CASE q # r
    <3>1. q \in tx[c].wrote /\ tx'[c].draft[q] = tx[c].draft[q]
      <4> HIDE DEF r, row
      <4> QED
        BY <1>1, <1>3, <1>5, <1>7, <1>10, <2>2, TransactionType
    <3>2. DraftOK(c, q)
      BY <3>1 DEF Inv, TransactionOK
    <3> QED
      BY <1>7, <1>9, <3>1, <3>2 DEF DraftOK
  <2> QED
    BY <2>1, <2>2
<1>11. TransactionOK(c)'
  <2>1. \A i \in 1..Len(record.todo) : OpOK(record.todo[i])
    <3>1. \A i \in 1..Len(tx[c].todo) : OpOK(tx[c].todo[i])
      BY DEF Inv, TransactionOK
    <3>2. \A i \in 1..Len(Tail(tx[c].todo)) :
            i + 1 \in 1..Len(tx[c].todo) /\ Tail(tx[c].todo)[i] = tx[c].todo[i + 1]
      BY <1>1, OpType
    <3> HIDE DEF r, row
    <3>3. record.todo = Tail(tx[c].todo)
      BY <1>5
    <3> QED
      BY <3>1, <3>2, <3>3, Zenon
  <2> HIDE DEF r, row
  <2>2. (\A i \in 1..Len(tx[c].todo) : OpOK(tx[c].todo[i]))'
    BY <1>7, <2>1
  <2> QED
    BY <1>5, <1>7, <1>10, <2>2 DEF TransactionOK
<1> HIDE DEF r, row
<1> QED
  BY <1>1, <1>2, <1>5, <1>6, <1>11, GoKeeps

-----------------------------------------------------------------------------
(* A commit.                                                                *)

LEMMA CommitTypes ==
  ASSUME Inv, NEW c \in Callers, Commit(c)
  PROVE  /\ db' = [r \in Rows |-> View(c, r)] /\ db' \in [Rows -> RowOrNone]
         /\ tx' \in [Callers -> Transactions] /\ tx'[c] = Idle
         /\ \A d \in Callers \ {c} :
              /\ tx'[d].pc = tx[d].pc /\ tx'[d].todo = tx[d].todo
              /\ tx'[d].wrote = tx[d].wrote /\ tx'[d].draft = tx[d].draft
<1>1. /\ TypeOK /\ db' = [r \in Rows |-> View(c, r)]
      /\ tx' = [d \in Callers |-> IF d = c THEN Idle
                                  ELSE IF Open(d) THEN [tx[d] EXCEPT !.quiet = FALSE]
                                  ELSE tx[d]]
  BY DEF Commit, Inv
<1>2. db' \in [Rows -> RowOrNone]
  BY <1>1, ViewType
<1>3. ASSUME NEW d \in Callers \ {c}
      PROVE  /\ tx'[d] \in Transactions
             /\ tx'[d].pc = tx[d].pc /\ tx'[d].todo = tx[d].todo
             /\ tx'[d].wrote = tx[d].wrote /\ tx'[d].draft = tx[d].draft
  <2>1. TypeOK /\ tx[d] \in Transactions
    BY <1>1, TransactionType
  <2>2. CASE Open(d)
    <3>1. tx'[d] = [tx[d] EXCEPT !.quiet = FALSE]
      BY <1>1, <2>2
    <3> QED
      BY <2>1, <3>1 DEF Transactions
  <2>3. CASE ~Open(d)
    <3>1. tx'[d] = tx[d]
      BY <1>1, <2>3
    <3> QED
      BY <2>1, <3>1
  <2> QED
    BY <2>2, <2>3
<1>4. tx'[c] = Idle
  BY <1>1
<1>5. tx' \in [Callers -> Transactions]
  BY <1>1, <1>3, <1>4, IdleType
<1> QED
  BY <1>1, <1>2, <1>3, <1>4, <1>5

\* Rows that are never deleted stay, with their tenant.
LEMMA CommitStays ==
  ASSUME Inv, NEW c \in Callers, Commit(c), NEW q \in Solid, db[q] # NoRow
  PROVE  db'[q] # NoRow /\ db'[q]["tenant"] = db[q]["tenant"]
<1>1. db'[q] = View(c, q)
  BY CommitTypes, SolidRows
<1>2. CASE q \in tx[c].wrote
  BY <1>1, <1>2 DEF Inv, TransactionOK, DraftOK, View, Drafted
<1>3. CASE q \notin tx[c].wrote
  BY <1>1, <1>3 DEF View, Drafted
<1> QED
  BY <1>2, <1>3

LEMMA CommitRefs ==
  ASSUME Inv, NEW c \in Callers, Commit(c)
  PROVE  RefsWithin(db)' /\ SolidStays'
<1>1. ASSUME NEW r \in Rows, db'[r] # NoRow, NEW x \in References, db'[r][x] # NULL
      PROVE  /\ db'[r][x] \in Solid /\ db'[db'[r][x]] # NoRow
             /\ db'[db'[r][x]]["tenant"] = db'[r]["tenant"]
  <2>1. db'[r] = View(c, r)
    BY CommitTypes
  <2>2. CASE r \in tx[c].wrote
    <3>1. /\ db'[r]["tenant"] = tenantOf[c] /\ db'[r][x] \in Solid
          /\ Sees(c, db'[r][x])
      BY <1>1, <2>1, <2>2 DEF Inv, TransactionOK, DraftOK, View, Drafted
    <3>2. db'[db'[r][x]] = View(c, db'[r][x])
      BY <3>1, CommitTypes, SolidRows
    <3> QED
      BY <3>1, <3>2 DEF Sees
  <2>3. CASE r \notin tx[c].wrote
    <3>1. db'[r] = db[r]
      BY <2>1, <2>3 DEF View, Drafted
    <3>2. /\ db[r][x] \in Solid /\ db[db[r][x]] # NoRow
          /\ db[db[r][x]]["tenant"] = db[r]["tenant"]
      BY <1>1, <3>1 DEF Inv, RefsWithin
    <3> QED
      BY <3>1, <3>2, CommitStays
  <2> QED
    BY <2>2, <2>3
<1>2. RefsWithin(db)'
  BY <1>1 DEF RefsWithin
<1>3. SolidStays'
  BY CommitStays DEF SolidStays, Inv
<1> QED
  BY <1>2, <1>3

LEMMA CommitOthers ==
  ASSUME Inv, NEW c \in Callers, Commit(c), NEW d \in Callers, d # c
  PROVE  TransactionOK(d)'
<1>1. /\ tx'[d].pc = tx[d].pc /\ tx'[d].todo = tx[d].todo
      /\ tx'[d].wrote = tx[d].wrote /\ tx'[d].draft = tx[d].draft
  BY CommitTypes
<1>2. ASSUME NEW q \in Solid, Sees(d, q) PROVE Sees(d, q)'
  <2>1. CASE q \in tx[d].wrote
    BY <1>1, <1>2, <2>1 DEF Sees, View, Drafted
  <2>2. CASE q \notin tx[d].wrote
    <3>1. db[q] # NoRow /\ db[q]["tenant"] = tenantOf[d]
      BY <1>2, <2>2 DEF Sees, View, Drafted
    <3>2. db'[q] # NoRow /\ db'[q]["tenant"] = tenantOf[d]
      BY <3>1, CommitStays
    <3> QED
      BY <1>1, <2>2, <3>2 DEF Sees, View, Drafted
  <2> QED
    BY <2>1, <2>2
<1>3. ASSUME NEW q \in tx[d].wrote PROVE DraftOK(d, q)'
  <2>1. q \in Rows /\ q \notin tx[c].wrote /\ DraftOK(d, q)
    BY <1>3, TransactionType DEF Inv, OneHolder, TransactionOK
  <2>2. db'[q] = db[q]
    BY <2>1, CommitTypes DEF View, Drafted
  <2> QED
    BY <1>1, <1>2, <2>1, <2>2 DEF DraftOK
<1>4. tx[d].pc = "write" => Op(d).refs \subseteq Solid
  BY TransactionType, OpType DEF Inv, Operations
<1>5. (tx[d].pc = "write" => \A q \in Op(d).refs : Sees(d, q))'
  BY <1>1, <1>2, <1>4 DEF Inv, TransactionOK, Op
<1>6. (\A i \in 1..Len(tx[d].todo) : OpOK(tx[d].todo[i]))'
  <2>1. \A i \in 1..Len(tx[d].todo) : OpOK(tx[d].todo[i])
    BY DEF Inv, TransactionOK
  <2> QED
    BY <1>1, <2>1
<1> QED
  BY <1>1, <1>3, <1>5, <1>6 DEF Inv, TransactionOK

LEMMA CommitReads ==
  ASSUME Inv, NEW c \in Callers, Commit(c)
  PROVE  reads' \in [Readers -> Prices] /\ \A b \in Readers : ReadOK(b)'
<1>1. /\ reads \in [Readers -> Prices]
      /\ reads' = [b \in Readers |->
                     IF Reading(b)
                     THEN [reads[b] EXCEPT !.quiet = FALSE,
                                           !.withheld = @ \cap Withheld(b)']
                     ELSE reads[b]]
  BY DEF Commit, Inv, TypeOK
<1>2. ASSUME NEW b \in Readers
      PROVE  /\ reads'[b] \in Prices
             /\ reads'[b].pc = reads[b].pc /\ reads'[b].list = reads[b].list
             /\ reads'[b].offer = reads[b].offer
             /\ Reading(b) => reads'[b].withheld = reads[b].withheld \cap Withheld(b)'
             /\ ~Reading(b) => reads'[b] = reads[b]
  <2>1. reads[b] \in Prices
    BY <1>1
  <2>2. CASE Reading(b)
    <3> DEFINE seen == reads[b].withheld \cap Withheld(b)'
    <3>1. reads'[b] = [reads[b] EXCEPT !.quiet = FALSE, !.withheld = seen]
      BY <1>1, <2>2
    <3>2. seen \in SUBSET Reasons
      BY <2>1 DEF Prices
    <3> HIDE DEF seen
    <3>3. reads'[b] \in Prices
      BY <2>1, <3>1, <3>2 DEF Prices
    <3> QED
      BY <2>1, <2>2, <3>1, <3>3 DEF Prices, seen
  <2>3. CASE ~Reading(b)
    BY <1>1, <2>1, <2>3
  <2> QED
    BY <2>2, <2>3
<1>3. ASSUME NEW b \in Readers PROVE ReadOK(b)'
  <2>1. ReadOK(b) /\ reads[b].list \in Solid \cup {NULL}
    BY <1>1 DEF Inv, Prices
  <2>2. reads'[b].withheld \subseteq reads[b].withheld
    BY <1>2
  <2>3. Reading(b)' <=> Reading(b)
    BY <1>2 DEF Reading
  <2>4. reads[b].list # NULL => db'[reads[b].list] # NoRow
    BY <2>1, CommitStays DEF ReadOK
  <2>5. Reading(b)' => reads'[b].withheld \subseteq Withheld(b)'
    BY <1>2, <2>3
  <2>6. reads'[b].withheld \cap Passed(reads'[b].pc) = {}
    BY <1>2, <2>1, <2>2 DEF ReadOK
  <2> QED
    BY <1>2, <2>1, <2>2, <2>4, <2>5, <2>6 DEF ReadOK
<1>4. reads' \in [Readers -> Prices]
  BY <1>1, <1>2
<1> QED
  BY <1>3, <1>4

LEMMA CommitKeeps ==
  ASSUME Inv, NEW c \in Callers, Commit(c)
  PROVE  Inv'
<1>1. history' \in [Rows -> Seq(Entries)]
  <2>1. history' = [r \in Rows |-> history[r] \o tx[c].told[r]]
    BY DEF Commit
  <2>2. ASSUME NEW r \in Rows PROVE history[r] \o tx[c].told[r] \in Seq(Entries)
    <3>1. history[r] \in Seq(Entries) /\ tx[c].told[r] \in Seq(Entries)
      BY TransactionType DEF Inv, TypeOK, Transactions
    <3> QED
      BY <3>1
  <2> QED
    BY <2>1, <2>2
<1>2. \A d \in Callers : tx'[d].pc = "write" => tx'[d].todo # <<>>
  BY CommitTypes, IdleType DEF Inv, TypeOK
<1>3. TypeOK'
  BY <1>1, <1>2, CommitTypes, CommitReads DEF Inv, TypeOK, Commit
<1>4. TransactionOK(c)'
  <2>1. Idle.pc # "write" /\ Len(Idle.todo) = 0 /\ tx'[c] = Idle
    BY IdleType, CommitTypes
  <2> QED
    BY <2>1, IdleType DEF TransactionOK
<1>5. \A d \in Callers : TransactionOK(d)'
  BY <1>4, CommitOthers
<1>6. OneHolder'
  BY CommitTypes, IdleType DEF Inv, OneHolder
<1> QED
  BY <1>3, <1>5, <1>6, CommitRefs, CommitReads DEF Inv

-----------------------------------------------------------------------------
(* The reads of a price.                                                    *)

LEMMA LookKeeps ==
  ASSUME Inv, NEW b \in Readers, NEW new \in Prices,
         reads' = [reads EXCEPT ![b] = new], UNCHANGED <<db, history, tx>>,
         calls' \in 0..MaxCalls,
         new.list # NULL => db[new.list] # NoRow,
         new.pc = "item" => new.list # NULL,
         new.pc \notin {"idle", "done"} => new.withheld \subseteq Withheld(b),
         new.withheld \cap Passed(new.pc) = {},
         new.offer # NULL => new.withheld = {}
  PROVE  Inv'
<1>1. /\ reads \in [Readers -> Prices] /\ db' = db /\ history' = history /\ tx' = tx
      /\ reads' \in [Readers -> Prices] /\ reads'[b] = new
  BY DEF Inv, TypeOK
<1>2. TypeOK'
  BY <1>1 DEF Inv, TypeOK
<1>3. \A c \in Callers : TransactionOK(c)'
  BY <1>1, TransactionFrame DEF Inv
<1>4. RefsWithin(db)' /\ SolidStays' /\ OneHolder'
  BY <1>1 DEF Inv, RefsWithin, SolidStays, OneHolder
<1>5. ASSUME NEW a \in Readers PROVE ReadOK(a)'
  <2>1. Withheld(a)' = Withheld(a)
    BY <1>1 DEF Withheld, Override, Assignment, Product
  <2>2. CASE a = b
    BY <1>1, <2>1, <2>2 DEF ReadOK, Reading
  <2>3. CASE a # b
    <3>1. reads'[a] = reads[a] /\ ReadOK(a)
      BY <1>1, <2>3 DEF Inv
    <3> QED
      BY <1>1, <2>1, <3>1 DEF ReadOK, Reading
  <2> QED
    BY <2>2, <2>3
<1> QED
  BY <1>2, <1>3, <1>4, <1>5 DEF Inv

LEMMA WithheldReasons ==
  ASSUME NEW b \in Readers PROVE Withheld(b) \subseteq Reasons
  BY DEF Withheld, Reasons

LEMMA StartOfRead ==
  ASSUME Inv, NEW b \in Readers, listBuyerCatalog(b)
  PROVE  Inv'
<1> DEFINE new == [[NoRead EXCEPT !.withheld = Withheld(b)] EXCEPT
                     !.pc = IF {"unit", "product"} \cap Withheld(b) = {}
                            THEN "customer" ELSE "done"]
<1>1. /\ reads' = [reads EXCEPT ![b] = new] /\ UNCHANGED <<db, history, tx>>
      /\ calls' \in 0..MaxCalls
  BY DEF listBuyerCatalog, Read, Inv, TypeOK
<1>2. /\ new \in Prices /\ new.list = NULL /\ new.offer = NULL
      /\ new.withheld = Withheld(b)
      /\ new.pc = IF {"unit", "product"} \cap Withheld(b) = {} THEN "customer" ELSE "done"
  BY WithheldReasons, ContentHas DEF NoRead, Prices
<1>3. new.withheld \cap Passed(new.pc) = {}
  BY <1>2 DEF Passed
<1> HIDE DEF new
<1> QED
  BY <1>1, <1>2, <1>3, LookKeeps

\* Before it reads a table, a read is one of these.
LEMMA ReadFacts ==
  ASSUME Inv, NEW b \in Readers
  PROVE  /\ reads[b] \in Prices /\ calls \in 0..MaxCalls /\ ReadOK(b)
         /\ db[customerOf[b]] \in Row
         /\ Assignment(b) # NoRow => /\ Assignment(b)["other"] \in Solid \cup {NULL}
                                     /\ Assignment(b)["other"] # NULL =>
                                          db[Assignment(b)["other"]] # NoRow
<1>1. db \in [Rows -> RowOrNone] /\ customerOf[b] \in Solid /\ <<customerOf[b]>> \in Rows
  BY SolidRows DEF Inv, TypeOK, Kinds
<1>2. db[customerOf[b]] \in Row
  BY <1>1, SolidRows DEF Inv, SolidStays, RowOrNone
<1> QED
  BY <1>1, <1>2 DEF Inv, TypeOK, RefsWithin, References, Assignment

LEMMA ReadCustomerKeeps ==
  ASSUME Inv, NEW b \in Readers, ReadCustomer(b)
  PROVE  Inv'
<1> DEFINE new == [[reads[b] EXCEPT !.discount = db[customerOf[b]]["discount"]] EXCEPT
                     !.pc = IF "customer" \notin Withheld(b) THEN "unit" ELSE "done"]
<1>1. /\ reads[b] \in Prices /\ ReadOK(b) /\ calls \in 0..MaxCalls
      /\ db[customerOf[b]] \in Row
  BY ReadFacts
<1>2. /\ reads[b].pc = "customer" /\ reads' = [reads EXCEPT ![b] = new]
      /\ UNCHANGED <<db, history, tx, calls>>
  BY DEF ReadCustomer, GoOn, Read
<1>3. db[customerOf[b]]["discount"] \in Content
  BY <1>1 DEF Row, Columns
<1>4. /\ new \in Prices /\ new.list = reads[b].list /\ new.offer = reads[b].offer
      /\ new.withheld = reads[b].withheld
      /\ new.pc = IF "customer" \notin Withheld(b) THEN "unit" ELSE "done"
  BY <1>1, <1>3 DEF Prices
<1>5. reads[b].withheld \subseteq Withheld(b) /\ reads[b].withheld \cap {"unit", "product"} = {}
  BY <1>1, <1>2 DEF ReadOK, Reading, Passed
<1>6. new.withheld \cap Passed(new.pc) = {}
  BY <1>4, <1>5 DEF Passed
<1> HIDE DEF new
<1> QED
  BY <1>1, <1>2, <1>4, <1>5, <1>6, LookKeeps DEF ReadOK

\* The unit, its product and the override are read in the same way.
LEMMA ReadNext ==
  ASSUME Inv, NEW b \in Readers, NEW reason \in Reasons, NEW pc, NEW next,
         \/ pc = "unit" /\ next = "product"
         \/ pc = "product" /\ next = "visibility"
         \/ pc = "visibility" /\ next = "assignment" /\ reason = "hidden",
         GoOn(b, pc, reason \notin Withheld(b), next, reads[b])
  PROVE  Inv'
<1> DEFINE new == [reads[b] EXCEPT !.pc = IF reason \notin Withheld(b) THEN next ELSE "done"]
<1>1. reads[b] \in Prices /\ ReadOK(b) /\ calls \in 0..MaxCalls
  BY ReadFacts
<1>2. /\ reads[b].pc = pc /\ reads' = [reads EXCEPT ![b] = new]
      /\ UNCHANGED <<db, history, tx, calls>>
  BY DEF GoOn, Read
<1>3. /\ new \in Prices /\ new.list = reads[b].list /\ new.offer = reads[b].offer
      /\ new.withheld = reads[b].withheld
      /\ new.pc = IF reason \notin Withheld(b) THEN next ELSE "done"
  BY <1>1 DEF Prices
<1>4. /\ reads[b].withheld \subseteq Withheld(b)
      /\ reads[b].withheld \cap {"unit", "product", "customer"} = {}
  BY <1>1, <1>2 DEF ReadOK, Reading, Passed
<1>5. new.withheld \cap Passed(new.pc) = {}
  BY <1>3, <1>4 DEF Passed
<1>6. new.pc # "item"
  BY <1>3
<1> HIDE DEF new
<1> QED
  BY <1>1, <1>2, <1>3, <1>4, <1>5, <1>6, LookKeeps DEF ReadOK

LEMMA ReadAssignmentKeeps ==
  ASSUME Inv, NEW b \in Readers, ReadAssignment(b)
  PROVE  Inv'
<1> DEFINE list == IF "unassigned" \notin Withheld(b) THEN Assignment(b)["other"] ELSE NULL
           new == [[reads[b] EXCEPT !.list = list] EXCEPT
                     !.pc = IF "unassigned" \notin Withheld(b) THEN "list" ELSE "done"]
<1>1. reads[b] \in Prices /\ ReadOK(b) /\ calls \in 0..MaxCalls
  BY ReadFacts
<1>2. /\ reads[b].pc = "assignment" /\ reads' = [reads EXCEPT ![b] = new]
      /\ UNCHANGED <<db, history, tx, calls>>
  BY DEF ReadAssignment, GoOn, Read
<1>3. list \in Solid \cup {NULL} /\ (list # NULL => db[list] # NoRow)
  <2>1. "unassigned" \notin Withheld(b) => Assignment(b) # NoRow
    BY DEF Withheld
  <2> QED
    BY <2>1, ReadFacts
<1> HIDE DEF list
<1>4. /\ new \in Prices /\ new.list = list /\ new.offer = reads[b].offer
      /\ new.withheld = reads[b].withheld
      /\ new.pc = IF "unassigned" \notin Withheld(b) THEN "list" ELSE "done"
  BY <1>1, <1>3 DEF Prices
<1>5. /\ reads[b].withheld \subseteq Withheld(b)
      /\ reads[b].withheld \cap {"unit", "product", "customer", "hidden"} = {}
  BY <1>1, <1>2 DEF ReadOK, Reading, Passed
<1>6. new.withheld \cap Passed(new.pc) = {}
  BY <1>4, <1>5 DEF Passed, Reasons
<1> HIDE DEF new
<1> QED
  BY <1>1, <1>2, <1>3, <1>4, <1>5, <1>6, LookKeeps DEF ReadOK

LEMMA ReadListKeeps ==
  ASSUME Inv, NEW b \in Readers, ReadList(b)
  PROVE  Inv'
<1> DEFINE list == reads[b].list
           go == list # NULL /\ db[list]["active"] = YES
           currency == IF list = NULL THEN NULL ELSE db[list]["data"]
           new == [[reads[b] EXCEPT !.currency = currency] EXCEPT
                     !.pc = IF go THEN "item" ELSE "done"]
<1>1. reads[b] \in Prices /\ ReadOK(b) /\ calls \in 0..MaxCalls
  BY ReadFacts
<1>2. /\ reads[b].pc = "list" /\ reads' = [reads EXCEPT ![b] = new]
      /\ UNCHANGED <<db, history, tx, calls>>
  BY DEF ReadList, GoOn, Read
<1>3. currency \in Content
  <2>1. CASE list = NULL
    BY <2>1, ContentHas
  <2>2. CASE list # NULL
    <3>1. list \in Rows /\ db[list] # NoRow /\ db \in [Rows -> RowOrNone]
      BY <1>1, <2>2, SolidRows DEF Prices, ReadOK, Inv, TypeOK
    <3>2. db[list] \in Row
      BY <3>1 DEF RowOrNone
    <3> QED
      BY <2>2, <3>2 DEF Row, Columns
  <2> QED
    BY <2>1, <2>2
<1> HIDE DEF currency
<1>4. /\ new \in Prices /\ new.list = list /\ new.offer = reads[b].offer
      /\ new.withheld = reads[b].withheld
      /\ new.pc = IF go THEN "item" ELSE "done"
  BY <1>1, <1>3 DEF Prices
<1>5. reads[b].withheld \subseteq Withheld(b) /\ reads[b].withheld \cap Reasons = {}
  BY <1>1, <1>2 DEF ReadOK, Reading, Passed
<1>6. new.withheld \cap Passed(new.pc) = {}
  BY <1>4, <1>5 DEF Passed
<1>7. new.pc = "item" => new.list # NULL
  BY <1>4
<1> HIDE DEF new
<1> QED
  BY <1>1, <1>2, <1>4, <1>5, <1>6, <1>7, LookKeeps DEF ReadOK

LEMMA ReadItemKeeps ==
  ASSUME Inv, NEW b \in Readers, ReadItem(b)
  PROVE  Inv'
<1> DEFINE priced == Priced(reads[b].list, unitOf[b])
           price == db[CHOOSE r \in priced : TRUE]["data"]
           offer == IF priced = {} THEN NULL
                    ELSE Offer(price, reads[b].discount, reads[b].currency)
           new == [[reads[b] EXCEPT !.offer = offer] EXCEPT
                     !.pc = IF priced # {} THEN "done" ELSE "done"]
<1>1. reads[b] \in Prices /\ ReadOK(b) /\ calls \in 0..MaxCalls
  BY ReadFacts
<1>2. /\ reads[b].pc = "item" /\ reads' = [reads EXCEPT ![b] = new]
      /\ UNCHANGED <<db, history, tx, calls>>
  BY DEF ReadItem, GoOn, Read
<1>3. offer \in Offers \cup {NULL}
  <2>1. CASE priced = {}
    BY <2>1
  <2>2. CASE priced # {}
    <3>1. PICK r \in priced : r = CHOOSE q \in priced : TRUE
      BY <2>2, ChooseIn
    <3>2. r \in Rows /\ db[r] # NoRow
      BY <3>1, SolidRows DEF Priced, Kinds
    <3>3. db[r] \in Row
      BY <3>2 DEF Inv, TypeOK, RowOrNone
    <3>4. db[r]["data"] \in Content
      BY <3>3 DEF Row, Columns
    <3>5. offer = Offer(db[r]["data"], reads[b].discount, reads[b].currency)
      BY <2>2, <3>1
    <3> HIDE DEF offer
    <3> QED
      BY <1>1, <3>4, <3>5 DEF Offer, Offers, Prices
  <2> QED
    BY <2>1, <2>2
<1> HIDE DEF offer, priced
<1>4. /\ new \in Prices /\ new.list = reads[b].list /\ new.withheld = reads[b].withheld
      /\ new.pc = "done"
  BY <1>1, <1>3 DEF Prices
<1>5. reads[b].withheld = {}
  BY <1>1, <1>2 DEF ReadOK, Passed, Prices
<1> HIDE DEF new
<1> QED
  BY <1>1, <1>2, <1>4, <1>5, LookKeeps DEF ReadOK

LEMMA LooksKeep ==
  ASSUME Inv, NEW b \in Readers, Look(b)
  PROVE  Inv'
<1>1. CASE ReadUnit(b) \/ ReadProduct(b) \/ ReadVisibility(b)
  BY <1>1, ReadNext DEF ReadUnit, ReadProduct, ReadVisibility, Reasons
<1> QED
  BY <1>1, ReadCustomerKeeps, ReadAssignmentKeeps, ReadListKeeps, ReadItemKeeps DEF Look

-----------------------------------------------------------------------------
(* The theorems.                                                            *)

LEMMA InitInv == Init => Inv
<1> SUFFICES ASSUME Init PROVE Inv
  OBVIOUS
<1>1. /\ db = Seed /\ tx = [c \in Callers |-> Idle] /\ reads = [b \in Readers |-> NoRead]
      /\ history = [r \in Rows |-> <<>>] /\ calls = 0
  BY DEF Init
<1>2. NoRead \in Prices /\ NoRead.pc = "idle" /\ NoRead.list = NULL /\ NoRead.offer = NULL
        /\ NoRead.withheld = {}
  BY ContentHas DEF NoRead, Prices
<1>3. calls \in 0..MaxCalls /\ <<>> \in Seq(Entries)
  BY <1>1
<1>4. TypeOK
  BY <1>1, <1>2, <1>3, IdleType DEF TypeOK, RowOrNone
<1>5. RefsWithin(db) /\ SolidStays
  BY <1>1 DEF SolidStays
<1>6. \A c \in Callers : TransactionOK(c)
  <2>1. Idle.pc # "write" /\ Len(Idle.todo) = 0
    BY IdleType
  <2> QED
    BY <1>1, <2>1, IdleType DEF TransactionOK
<1>7. OneHolder
  BY <1>1, IdleType DEF OneHolder
<1>8. \A b \in Readers : ReadOK(b)
  BY <1>1, <1>2 DEF ReadOK, Reading
<1> QED
  BY <1>4, <1>5, <1>6, <1>7, <1>8 DEF Inv

LEMMA Unchanging ==
  ASSUME Inv, UNCHANGED vars PROVE Inv'
<1>1. db' = db /\ history' = history /\ calls' = calls /\ tx' = tx /\ reads' = reads
  BY DEF vars
<1>2. TypeOK' /\ OneHolder'
  BY <1>1 DEF Inv, TypeOK, OneHolder
<1>3. RefsWithin(db)' /\ SolidStays'
  BY <1>1 DEF Inv, RefsWithin, SolidStays
<1>4. \A c \in Callers : TransactionOK(c)'
  BY <1>1, TransactionFrame DEF Inv
<1>5. \A b \in Readers : ReadOK(b)'
  BY <1>1 DEF Inv, ReadOK, Reading, Withheld, Override, Assignment, Product
<1> QED
  BY <1>2, <1>3, <1>4, <1>5 DEF Inv

LEMMA NextInv == Inv /\ [Next]_vars => Inv'
<1> SUFFICES ASSUME Inv, [Next]_vars PROVE Inv'
  OBVIOUS
<1>1. ASSUME NEW c \in Callers, Request(c) PROVE Inv'
  BY <1>1, RequestStarts, StartKeeps
<1>2. ASSUME NEW c \in Callers, Step(c) PROVE Inv'
  BY <1>2, ImportRowKeeps, ReadRowKeeps, WriteRowKeeps, CommitKeeps, AbortKeeps
  DEF Step, RefuseRow, RefuseWrite, BreakDeadlock
<1>3. ASSUME NEW c \in Callers, Fail(c) PROVE Inv'
  BY <1>3, AbortKeeps DEF Fail
<1>4. ASSUME NEW b \in Readers, listBuyerCatalog(b) \/ Look(b) PROVE Inv'
  BY <1>4, StartOfRead, LooksKeep
<1>5. CASE UNCHANGED vars
  BY <1>5, Unchanging
<1> QED
  BY <1>1, <1>2, <1>3, <1>4, <1>5 DEF Next, Rest

LEMMA InvHolds == Spec => []Inv
<1> QED
  BY InitInv, NextInv, PTL DEF Spec

\* The tables, transactions and reads keep their types.
THEOREM TypeCorrect == Spec => []TypeOK
<1>1. Inv => TypeOK
  BY DEF Inv
<1> QED
  BY <1>1, InvHolds, PTL

\* Whatever overlaps, a product's category, a unit's product, a price's list
\* and the like are of the row's own tenant: the look-ups before a write are
\* enough, because nothing that is referred to is deleted or changes hands.
THEOREM ReferencesStay == Spec => []RefsWithinTenant
<1>1. Inv => RefsWithinTenant
  BY DEF Inv, RefsWithin, RefsWithinTenant
<1> QED
  BY <1>1, InvHolds, PTL

\* Between the six reads of a price anything can be committed, and still no
\* buyer is offered what was withheld from the first read to the last.
THEOREM NothingWithheld == Spec => []NoOfferWhileWithheld
<1>1. Inv => NoOfferWhileWithheld
  BY DEF Inv, ReadOK, NoOfferWhileWithheld
<1> QED
  BY <1>1, InvHolds, PTL
-----------------------------------------------------------------------------
(* What a transaction tells the audit log.                                  *)

\* An entry's old value is the row, or the part of it that is told.
TellsOld(old, row) ==
  IF old = NoRow \/ row = NoRow THEN old = row
  ELSE \A x \in Set(old) : old[x] = row[x]

\* Every column that differs was set.
ColumnsTold(told, old, new) ==
  old # NoRow /\ new # NoRow =>
    \A x \in Columns : new[x] # old[x] => \E i \in DOMAIN told : x \in told[i].set

\* What c tells of a row that it wrote leads from the committed row to its
\* draft.  What it deleted is the last that it writes.
RowTold(c, r) ==
  LET told == tx[c].told[r]
  IN  /\ told # <<>>
      /\ Replay(db[r], told, tx[c].draft[r])
      /\ tx[c].quiet => TellsOld(Head(told).old, db[r])
      /\ ColumnsTold(told, db[r], tx[c].draft[r])
      /\ tx[c].draft[r] = NoRow => tx[c].todo = <<>> /\ tx[c].file = NoFile

ToldOK(c) ==
  /\ \A r \in Rows \ tx[c].wrote : tx[c].told[r] = <<>>
  /\ \A r \in tx[c].wrote : RowTold(c, r)
  /\ tx[c].pc = "write" /\ tx[c].quiet => tx[c].before = View(c, Op(c).row)
  /\ \A i \in 1..Len(tx[c].todo) :
       tx[c].todo[i].verb \in {"delete", "clear"} =>
         Len(tx[c].todo) = 1 /\ tx[c].file = NoFile

LogOK ==
  /\ \A c \in Callers : ToldOK(c)
  /\ \A r \in Rows : Replay(Seed[r], history[r], db[r])

\* A transaction tells the same while the rows that it wrote stay, and, if it
\* is still quiet, while every row stays.
LEMMA ToldFrame ==
  ASSUME NEW d \in Callers, ToldOK(d),
         tx'[d].pc = tx[d].pc, tx'[d].todo = tx[d].todo, tx'[d].wrote = tx[d].wrote,
         tx'[d].draft = tx[d].draft, tx'[d].told = tx[d].told,
         tx'[d].file = tx[d].file, tx'[d].before = tx[d].before,
         tx'[d].quiet => tx[d].quiet,
         \A r \in tx[d].wrote : db'[r] = db[r],
         tx'[d].quiet /\ tx[d].pc = "write" => db' = db
  PROVE  ToldOK(d)'
<1>1. ASSUME NEW r \in tx[d].wrote PROVE RowTold(d, r)'
  <2>1. RowTold(d, r) /\ db'[r] = db[r]
    BY DEF ToldOK
  <2> QED
    BY <2>1 DEF RowTold
<1>2. Op(d)' = Op(d)
  BY DEF Op
<1>3. (tx[d].pc = "write" /\ tx[d].quiet => tx[d].before = View(d, Op(d).row))'
  BY <1>2 DEF ToldOK, View, Drafted
<1> QED
  BY <1>1, <1>3 DEF ToldOK

\* A step that only changes the transaction of c, and writes nothing.
LEMMA SameTold ==
  ASSUME Inv, LogOK, NEW c \in Callers, NEW record, Go(c, record),
         UNCHANGED <<db, history>>,
         record.wrote = tx[c].wrote, record.draft = tx[c].draft,
         record.told = tx[c].told, record.file = tx[c].file,
         record.quiet = tx[c].quiet,
         \A r \in tx[c].wrote : tx[c].draft[r] = NoRow =>
           record.todo = <<>> /\ record.file = NoFile,
         record.pc = "write" /\ record.quiet =>
           record.before = View(c, Head(record.todo).row),
         \A i \in 1..Len(record.todo) : record.todo[i].verb \in {"delete", "clear"} =>
           Len(record.todo) = 1 /\ record.file = NoFile
  PROVE  LogOK'
<1>1. tx'[c] = record /\ db' = db /\ history' = history
  BY DEF Inv, TypeOK, Go
<1>2. ASSUME NEW d \in Callers, d # c PROVE ToldOK(d)'
  <2>1. tx'[d] = tx[d] /\ ToldOK(d)
    BY <1>2 DEF Go, LogOK, Inv, TypeOK
  <2> QED
    BY <1>1, <2>1, ToldFrame
<1>3. ASSUME NEW r \in tx[c].wrote PROVE RowTold(c, r)'
  <2>1. RowTold(c, r)
    BY DEF LogOK, ToldOK
  <2> QED
    BY <1>1, <2>1 DEF RowTold
<1>4. (tx[c].pc = "write" /\ tx[c].quiet => tx[c].before = View(c, Op(c).row))'
  BY <1>1 DEF Op, View, Drafted
<1>5. ToldOK(c)'
  <2>1. \A r \in Rows \ tx[c].wrote : tx[c].told[r] = <<>>
    BY DEF LogOK, ToldOK
  <2> QED
    BY <1>1, <1>3, <1>4, <2>1 DEF ToldOK
<1>6. \A r \in Rows : Replay(Seed[r], history[r], db[r])'
  BY <1>1 DEF LogOK
<1> QED
  BY <1>2, <1>5, <1>6 DEF LogOK

\* A transaction that begins, or is gone, has told nothing.
LEMMA NothingTold ==
  ASSUME NEW c \in Callers, tx'[c].wrote = {}, tx'[c].pc # "write",
         tx'[c].told = [r \in Rows |-> <<>>],
         Len(tx'[c].todo) \in Nat, Len(tx'[c].todo) <= 1,
         tx'[c].file # NoFile => tx'[c].todo = <<>>
  PROVE  ToldOK(c)'
<1>1. ASSUME NEW i \in 1..Len(tx'[c].todo)
      PROVE  Len(tx'[c].todo) = 1 /\ tx'[c].file = NoFile
  <2>1. tx'[c].todo # <<>>
    <3>1. 1..Len(<<>>) = {}
      OBVIOUS
    <3> QED
      BY <1>1, <3>1
  <2> DEFINE n == Len(tx'[c].todo)
  <2>2. n \in Nat /\ n <= 1 /\ i \in 1..n
    BY <1>1
  <2> HIDE DEF n
  <2>3. n = 1
    BY <2>2
  <2> QED
    BY <2>1, <2>3 DEF n
<1> QED
  BY <1>1 DEF ToldOK

LEMMA BeginTold ==
  ASSUME Inv, LogOK, NEW c \in Callers, NEW record, Go(c, record),
         UNCHANGED <<db, history>>, record.wrote = {}, record.pc # "write",
         record.told = [r \in Rows |-> <<>>],
         Len(record.todo) \in Nat, Len(record.todo) <= 1,
         record.file # NoFile => record.todo = <<>>
  PROVE  LogOK'
<1>1. tx'[c] = record /\ db' = db /\ history' = history
  BY DEF Inv, TypeOK, Go
<1>2. ASSUME NEW d \in Callers, d # c PROVE ToldOK(d)'
  <2>1. tx'[d] = tx[d] /\ ToldOK(d)
    BY <1>2 DEF Go, LogOK, Inv, TypeOK
  <2> QED
    BY <1>1, <2>1, ToldFrame
<1>3. ToldOK(c)'
  BY <1>1, NothingTold
<1>4. \A r \in Rows : Replay(Seed[r], history[r], db[r])'
  BY <1>1 DEF LogOK
<1> QED
  BY <1>2, <1>3, <1>4 DEF LogOK

LEMMA StartTold ==
  ASSUME Inv, LogOK, NEW c \in Callers, StartsOK(c)
  PROVE  LogOK'
<1>1. PICK todo \in Seq(Operations), file \in Files \cup {NoFile} :
        /\ Start(c, todo, file)
        /\ Len(todo) <= 1 /\ (file # NoFile => todo = <<>>)
  BY DEF StartsOK
<1> DEFINE record == [Idle EXCEPT !.pc = "read", !.call = calls + 1,
                                  !.todo = todo, !.file = file]
<1>2. Go(c, record) /\ UNCHANGED <<db, history>>
  BY <1>1 DEF Start, Go
<1>3. /\ record.wrote = {} /\ record.pc = "read" /\ record.told = [r \in Rows |-> <<>>]
      /\ record.todo = todo /\ record.file = file
  BY DEF Idle
<1> HIDE DEF record
<1>4. Len(todo) \in Nat
  OBVIOUS
<1> QED
  BY <1>1, <1>2, <1>3, <1>4, BeginTold

LEMMA AbortTold ==
  ASSUME Inv, LogOK, NEW c \in Callers, Abort(c)
  PROVE  LogOK'
<1>1. /\ Idle.wrote = {} /\ Idle.pc = "idle" /\ Idle.told = [r \in Rows |-> <<>>]
      /\ Len(Idle.todo) = 0 /\ Idle.file = NoFile
  BY DEF Idle
<1> QED
  BY <1>1, BeginTold DEF Abort

LEMMA ImportTold ==
  ASSUME Inv, LogOK, NEW c \in Callers, ImportRow(c)
  PROVE  LogOK'
<1> DEFINE f == tx[c].file
           i == NextRow(c)
           plan == PlanRow(c, f, i)
           record == [tx[c] EXCEPT !.todo = plan.todo, !.plan = Append(@, plan.status)]
<1>1. /\ tx[c] \in Transactions /\ tx[c].pc = "read" /\ RowsLeft(c)
      /\ plan.status = "CREATE" => Unused(f.kind) # {}
      /\ Go(c, record) /\ UNCHANGED <<db, history>>
  BY TransactionType DEF ImportRow, Inv
<1>2. f \in Files /\ f # NoFile /\ i \in 1..Len(f.rows)
  BY <1>1, FileRows
<1>3. TodoOK(plan.todo)
  <2> HIDE DEF f, i
  <2> QED
    BY <1>1, <1>2, PlanOK DEF Inv
<1>4. \A r \in tx[c].wrote : tx[c].draft[r] # NoRow
  BY <1>2 DEF LogOK, ToldOK, RowTold
<1> HIDE DEF plan, f
<1>5. /\ record.pc = "read" /\ record.todo = plan.todo /\ record.wrote = tx[c].wrote
      /\ record.draft = tx[c].draft /\ record.told = tx[c].told
      /\ record.file = tx[c].file /\ record.quiet = tx[c].quiet
  BY <1>1 DEF Transactions
<1> HIDE DEF record
<1>6. \A k \in 1..Len(record.todo) : record.todo[k].verb \notin {"delete", "clear"}
  BY <1>3, <1>5 DEF TodoOK
<1> QED
  BY <1>1, <1>4, <1>5, <1>6, SameTold

LEMMA ReadTold ==
  ASSUME Inv, LogOK, NEW c \in Callers, ReadRow(c)
  PROVE  LogOK'
<1>1. /\ TypeOK /\ tx[c] \in Transactions /\ tx[c].pc = "read" /\ tx[c].todo # <<>>
      /\ UNCHANGED <<db, history>>
  BY TransactionType DEF ReadRow, AtOperation, Inv
<1>2. \A r \in tx[c].wrote : tx[c].draft[r] # NoRow
  BY <1>1 DEF LogOK, ToldOK, RowTold
<1>3. \A i \in 1..Len(tx[c].todo) : tx[c].todo[i].verb \in {"delete", "clear"} =>
        Len(tx[c].todo) = 1 /\ tx[c].file = NoFile
  BY DEF LogOK, ToldOK
<1>4. CASE NothingToClear(c)
  <2> DEFINE record == [tx[c] EXCEPT !.todo = Tail(@)]
  <2>1. Go(c, record)
    BY <1>4 DEF ReadRow
  <2>2. /\ record.pc = "read" /\ record.todo = Tail(tx[c].todo)
        /\ record.wrote = tx[c].wrote
        /\ record.draft = tx[c].draft /\ record.told = tx[c].told
        /\ record.file = tx[c].file /\ record.quiet = tx[c].quiet
    BY <1>1 DEF Transactions
  <2> HIDE DEF record
  <2>3. \A i \in 1..Len(record.todo) : record.todo[i].verb \notin {"delete", "clear"}
    <3>1. SUFFICES ASSUME NEW i \in 1..Len(Tail(tx[c].todo)),
                          Tail(tx[c].todo)[i].verb \in {"delete", "clear"}
                   PROVE  FALSE
      BY <2>2
    <3>2. /\ i + 1 \in 1..Len(tx[c].todo) /\ Tail(tx[c].todo)[i] = tx[c].todo[i + 1]
      BY <1>1, OpType
    <3>3. Len(tx[c].todo) = 1
      BY <1>3, <3>1, <3>2
    <3> QED
      BY <3>2, <3>3
  <2> QED
    BY <1>1, <1>2, <2>1, <2>2, <2>3, SameTold
<1>5. CASE ~NothingToClear(c)
  <2> DEFINE record == [tx[c] EXCEPT !.pc = "write", !.before = View(c, Op(c).row)]
  <2>1. Go(c, record)
    BY <1>5 DEF ReadRow
  <2>2. /\ record.todo = tx[c].todo /\ record.wrote = tx[c].wrote
        /\ record.draft = tx[c].draft /\ record.told = tx[c].told
        /\ record.file = tx[c].file /\ record.quiet = tx[c].quiet
        /\ record.before = View(c, Head(record.todo).row)
    BY <1>1 DEF Transactions, Op
  <2> HIDE DEF record
  <2> QED
    BY <1>1, <1>2, <1>3, <2>1, <2>2, SameTold
<1> QED
  BY <1>4, <1>5

\* What an entry tells of the row that c sees and then writes.
LEMMA EntryTells ==
  ASSUME Inv, NEW c \in Callers, tx[c].pc = "write", tx[c].todo # <<>>, ~Conflict(c)
  PROVE  LET view == View(c, Op(c).row)
             row == Written(c)
         IN  /\ After(Entry(c).new, view) = row
             /\ tx[c].before = view => TellsOld(Entry(c).old, view)
             /\ view # NoRow /\ row # NoRow =>
                  \A x \in Columns : row[x] # view[x] => x \in Entry(c).set
             /\ row = NoRow => Op(c).verb \in {"delete", "clear"}
<1> DEFINE view == View(c, Op(c).row)
           row == Written(c)
           sets == Op(c).sets
           verb == Op(c).verb
           blank == [Blank EXCEPT !["tenant"] = tenantOf[c]]
           part == [x \in Columns |-> IF x = "discount" THEN row[x] ELSE SAME]
<1>1. Op(c) \in Operations /\ OpOK(Op(c))
  BY OpType DEF Inv, TransactionOK
<1>2. /\ sets \in Sets /\ Op(c).row \in Rows
      /\ verb \in {"create", "upsert"} => sets["key"] # SAME
      /\ verb \in {"create", "update", "delete", "upsert", "clear"}
  BY <1>1 DEF Operations, OpOK
<1>3. row \in RowOrNone /\ view \in RowOrNone
  BY <1>2, WrittenRow, ViewType DEF Inv
<1>4. Entry(c).new = Tells(sets, row) /\ Entry(c).old = Tells(sets, tx[c].before)
        /\ Entry(c).set = Set(sets)
  BY DEF Entry
<1>5. verb \notin {"delete", "clear"} =>
        row = Merge(sets, IF view # NoRow THEN view ELSE blank)
  BY DEF Written
<1>6. verb \in {"delete", "clear"} => row = NoRow
  BY DEF Written
<1>7. verb = "update" => view # NoRow
  BY DEF Conflict
<1> HIDE DEF view, row, sets, verb
<1>8. row = NoRow => verb \in {"delete", "clear"}
  BY <1>2, <1>3, <1>5, MergeType, NewRowType, RowIsSome DEF RowOrNone
<1>9. view # NoRow /\ row # NoRow => \A x \in Columns : row[x] # view[x] => x \in Set(sets)
  BY <1>5, <1>6 DEF Merge, Set
<1>10. After(Tells(sets, row), view) = row
  <2>1. CASE row = NoRow
    BY <2>1 DEF Tells, After
  <2>2. CASE row # NoRow /\ Set(sets) # {"discount"}
    <3>1. Tells(sets, row) = row /\ row \in Row
      BY <1>3, <2>2 DEF Tells, RowOrNone
    <3>2. ASSUME NEW x \in Columns PROVE row[x] # SAME
      <4>1. row[x] \in Content
        BY <3>1 DEF Row
      <4> QED
        BY <4>1
    <3>3. Merge(row, view) = row
      <4>1. \A x \in Columns : Merge(row, view)[x] = row[x]
        BY <3>2 DEF Merge
      <4>2. Merge(row, view) = [x \in Columns |-> Merge(row, view)[x]]
        BY DEF Merge
      <4>3. row = [x \in Columns |-> row[x]]
        BY <3>1 DEF Row
      <4> QED
        BY <4>1, <4>2, <4>3
    <3> QED
      BY <3>1, <3>3 DEF After
  <2>3. CASE row # NoRow /\ Set(sets) = {"discount"}
    <3>1. Tells(sets, row) = part /\ part # NoRow
      BY <2>3 DEF Tells, NoRow, Columns
    <3>2. "key" \notin Set(sets) /\ "key" \in Columns
      BY <2>3 DEF Columns
    <3>3. sets["key"] = SAME
      BY <3>2 DEF Set
    <3>4. view # NoRow /\ view \in Row /\ row \in Row /\ row = Merge(sets, view)
      BY <1>2, <1>3, <1>5, <1>6, <1>7, <2>3, <3>3 DEF RowOrNone
    <3>5. \A x \in Columns : sets[x] = SAME \/ x = "discount"
      BY <2>3 DEF Set
    <3>6. \A x \in Columns : Merge(part, view)[x] = row[x]
      BY <3>4, <3>5 DEF Merge, Row
    <3>7. Merge(part, view) = [x \in Columns |-> Merge(part, view)[x]]
      BY DEF Merge
    <3>8. Merge(part, view) = row
      BY <3>4, <3>6, <3>7 DEF Row
    <3> QED
      BY <3>1, <3>4, <3>8 DEF After
  <2> QED
    BY <2>1, <2>2, <2>3
<1>11. TellsOld(Tells(sets, view), view)
  <2>1. CASE view = NoRow \/ Set(sets) # {"discount"}
    BY <2>1 DEF Tells, TellsOld
  <2>2. CASE view # NoRow /\ Set(sets) = {"discount"}
    <3> DEFINE told == [x \in Columns |-> IF x = "discount" THEN view[x] ELSE SAME]
    <3>1. Tells(sets, view) = told
      BY <2>2 DEF Tells
    <3>2. told # NoRow
      BY DEF NoRow, Columns
    <3>3. \A x \in Set(told) : told[x] = view[x]
      BY DEF Set
    <3> HIDE DEF told
    <3> QED
      BY <2>2, <3>1, <3>2, <3>3 DEF TellsOld
  <2> QED
    BY <2>1, <2>2
<1> QED
  BY <1>4, <1>8, <1>9, <1>10, <1>11 DEF view, row, verb

LEMMA WriteTold ==
  ASSUME Inv, LogOK, NEW c \in Callers, WriteRow(c)
  PROVE  LogOK'
<1>0. PICK r : r = Op(c).row
  OBVIOUS
<1> DEFINE row == Written(c)
           view == View(c, r)
           e == Entry(c)
           record == [tx[c] EXCEPT !.pc = "read", !.todo = Tail(@),
                                   !.wrote = @ \cup {r}, !.draft[r] = row,
                                   !.told[r] = Append(@, e)]
<1>1. /\ TypeOK /\ tx[c] \in Transactions /\ tx[c].pc = "write" /\ tx[c].todo # <<>>
      /\ ~Conflict(c) /\ UNCHANGED <<db, history>> /\ Go(c, record)
  BY <1>0, TransactionType DEF WriteRow, Turn, Inv, TypeOK
<1>2. /\ r \in Rows /\ row \in RowOrNone /\ e \in Entries
  BY <1>0, <1>1, WrittenRow, EntryType
<1>3. /\ After(e.new, view) = row
      /\ tx[c].before = view => TellsOld(e.old, view)
      /\ view # NoRow /\ row # NoRow => \A x \in Columns : row[x] # view[x] => x \in e.set
      /\ row = NoRow => Op(c).verb \in {"delete", "clear"}
  BY <1>0, <1>1, EntryTells
<1>4. view = IF r \in tx[c].wrote THEN tx[c].draft[r] ELSE db[r]
  BY DEF View, Drafted
<1>5. /\ tx'[c] = record /\ db' = db /\ history' = history
      /\ \A d \in Callers \ {c} : tx'[d] = tx[d]
  BY <1>1 DEF Go, TypeOK
<1>6. /\ tx'[c].pc = "read" /\ tx'[c].todo = Tail(tx[c].todo)
      /\ tx'[c].wrote = tx[c].wrote \cup {r} /\ tx'[c].file = tx[c].file
      /\ tx'[c].quiet = tx[c].quiet
      /\ tx'[c].draft = [tx[c].draft EXCEPT ![r] = row]
      /\ tx'[c].told = [tx[c].told EXCEPT ![r] = Append(tx[c].told[r], e)]
  <2>1. tx'[c] = record
    BY <1>5
  <2> HIDE DEF row, e
  <2> QED
    BY <1>1, <2>1 DEF Transactions
<1>7. /\ tx[c].draft \in [Rows -> RowOrNone] /\ tx[c].told \in [Rows -> Seq(Entries)]
      /\ tx[c].wrote \subseteq Rows
  BY <1>1 DEF Transactions
<1>8. /\ \A q \in Rows \ tx[c].wrote : tx[c].told[q] = <<>>
      /\ \A q \in tx[c].wrote : RowTold(c, q) /\ tx[c].draft[q] # NoRow
      /\ tx[c].quiet => tx[c].before = view
  BY <1>0, <1>1 DEF LogOK, ToldOK, RowTold
<1>9. row = NoRow => tx'[c].todo = <<>> /\ tx'[c].file = NoFile
  <2>1. SUFFICES ASSUME row = NoRow PROVE tx'[c].todo = <<>> /\ tx'[c].file = NoFile
    OBVIOUS
  <2>2. tx[c].todo[1].verb \in {"delete", "clear"} /\ 1 \in 1..Len(tx[c].todo)
    BY <1>1, <1>3, <2>1, OpType
  <2>3. Len(tx[c].todo) = 1 /\ tx[c].file = NoFile
    BY <2>2 DEF LogOK, ToldOK
  <2> DEFINE rest == Tail(tx[c].todo)
  <2>4. rest \in Seq(Operations) /\ Len(rest) = 0
    BY <1>1, <2>3, OpType
  <2>5. tx'[c].todo = rest /\ tx'[c].file = NoFile
    <3> HIDE DEF row, e, view, record
    <3> QED
      BY <1>6, <2>3
  <2> HIDE DEF rest
  <2>6. rest = <<>>
    BY <2>4
  <2> QED
    BY <2>5, <2>6
<1> HIDE DEF row, view, e, record
<1>10. tx'[c].draft[r] = row /\ tx'[c].told[r] = Append(tx[c].told[r], e)
  BY <1>2, <1>6, <1>7
<1>11. ASSUME NEW q \in Rows, q # r
       PROVE  tx'[c].draft[q] = tx[c].draft[q] /\ tx'[c].told[q] = tx[c].told[q]
  BY <1>6, <1>7, <1>11
<1>12. RowTold(c, r)'
  <2> DEFINE told == tx[c].told[r]
             more == Append(told, e)
  <2>0. told \in Seq(Entries)
    BY <1>2, <1>7
  <2>1. /\ told \in Seq(Entries) /\ more \in Seq(Entries) /\ more # <<>>
        /\ more = told \o <<e>> /\ Len(more) = Len(told) + 1 /\ more[Len(told) + 1] = e
    <3> HIDE DEF told
    <3> QED
      BY <1>2, <2>0
  <2>2. Replay(view, <<e>>, row)
    BY <1>3, ReplayOne
  <2>3. CASE r \in tx[c].wrote
    <3>1. /\ told # <<>> /\ Replay(db[r], told, tx[c].draft[r])
          /\ tx[c].quiet => TellsOld(Head(told).old, db[r])
          /\ ColumnsTold(told, db[r], tx[c].draft[r])
          /\ view = tx[c].draft[r] /\ view # NoRow
      BY <1>4, <1>8, <2>3 DEF RowTold
    <3> HIDE DEF told
    <3>2. Replay(db[r], more, row)
      <4>1. <<e>> \in Seq(Entries)
        BY <1>2
      <4> HIDE DEF more
      <4> QED
        BY <2>1, <2>2, <3>1, <4>1, ReplayMore
    <3>3. Head(more) = Head(told)
      BY <2>1, <3>1
    <3>4. \A i \in DOMAIN told : i \in DOMAIN more /\ more[i] = told[i]
      BY <2>1
    <3>5. Len(told) + 1 \in DOMAIN more
      BY <2>1
    <3> HIDE DEF more
    <3>6. ColumnsTold(more, db[r], row)
      <4>1. SUFFICES ASSUME db[r] # NoRow, row # NoRow, NEW x \in Columns,
                            row[x] # db[r][x]
                     PROVE  \E i \in DOMAIN more : x \in more[i].set
        BY DEF ColumnsTold
      <4>2. CASE row[x] # view[x]
        BY <1>3, <2>1, <3>1, <3>5, <4>1, <4>2
      <4>3. CASE row[x] = view[x]
        BY <3>1, <3>4, <4>1, <4>3 DEF ColumnsTold
      <4> QED
        BY <4>2, <4>3
    <3>7. tx'[c].told[r] = more
      BY <1>10 DEF more, told
    <3> QED
      BY <1>5, <1>6, <1>9, <1>10, <2>1, <3>1, <3>2, <3>3, <3>6, <3>7 DEF RowTold
  <2>4. CASE r \notin tx[c].wrote
    <3>1. told = <<>> /\ view = db[r]
      BY <1>2, <1>4, <1>8, <2>4
    <3>2. more = <<e>> /\ Head(more) = e /\ 1 \in DOMAIN more /\ more[1] = e
      BY <3>1
    <3> HIDE DEF more
    <3>3. ColumnsTold(more, db[r], row)
      BY <1>3, <3>1, <3>2 DEF ColumnsTold
    <3>4. tx[c].quiet => TellsOld(Head(more).old, db[r])
      BY <1>3, <1>8, <3>1, <3>2
    <3>5. Replay(db[r], more, row)
      BY <2>2, <3>1, <3>2
    <3>6. tx'[c].told[r] = more
      BY <1>10 DEF more
    <3> QED
      BY <1>5, <1>6, <1>9, <1>10, <2>1, <3>3, <3>4, <3>5, <3>6 DEF RowTold
  <2> QED
    BY <2>3, <2>4
<1>13. ASSUME NEW q \in tx[c].wrote, q # r PROVE RowTold(c, q)'
  <2>1. RowTold(c, q) /\ tx[c].draft[q] # NoRow /\ q \in Rows
    BY <1>7, <1>8
  <2> QED
    BY <1>5, <1>6, <1>11, <1>13, <2>1 DEF RowTold
<1>14. \A q \in Rows \ tx'[c].wrote : tx'[c].told[q] = <<>>
  BY <1>6, <1>8, <1>11
<1>15. \A i \in 1..Len(tx'[c].todo) : tx'[c].todo[i].verb \notin {"delete", "clear"}
  <2>1. SUFFICES ASSUME NEW i \in 1..Len(Tail(tx[c].todo)),
                        Tail(tx[c].todo)[i].verb \in {"delete", "clear"}
                 PROVE  FALSE
    BY <1>6
  <2>2. i + 1 \in 1..Len(tx[c].todo) /\ Tail(tx[c].todo)[i] = tx[c].todo[i + 1]
    BY <1>1, OpType
  <2>3. Len(tx[c].todo) = 1
    BY <2>1, <2>2 DEF LogOK, ToldOK
  <2> QED
    BY <2>2, <2>3
<1>16. ToldOK(c)'
  <2>1. \A q \in tx'[c].wrote : RowTold(c, q)'
    BY <1>6, <1>12, <1>13
  <2>2. tx'[c].pc # "write"
    BY <1>6
  <2> QED
    BY <1>14, <1>15, <2>1, <2>2 DEF ToldOK
<1>17. ASSUME NEW d \in Callers, d # c PROVE ToldOK(d)'
  <2>1. tx'[d] = tx[d] /\ ToldOK(d)
    BY <1>5, <1>17 DEF LogOK
  <2> QED
    BY <1>5, <2>1, ToldFrame
<1>18. \A q \in Rows : Replay(Seed[q], history[q], db[q])'
  BY <1>5 DEF LogOK
<1> QED
  BY <1>16, <1>17, <1>18 DEF LogOK

LEMMA CommitTold ==
  ASSUME Inv, LogOK, NEW c \in Callers, Commit(c)
  PROVE  LogOK'
<1>1. /\ db' = [r \in Rows |-> View(c, r)]
      /\ history' = [r \in Rows |-> history[r] \o tx[c].told[r]]
      /\ tx' = [d \in Callers |-> IF d = c THEN Idle
                                  ELSE IF Open(d) THEN [tx[d] EXCEPT !.quiet = FALSE]
                                  ELSE tx[d]]
  BY DEF Commit
<1>2. ToldOK(c)'
  <2>1. tx'[c] = Idle
    BY <1>1
  <2>2. /\ Idle.wrote = {} /\ Idle.pc = "idle" /\ Idle.told = [r \in Rows |-> <<>>]
        /\ Len(Idle.todo) = 0 /\ Idle.file = NoFile
    BY DEF Idle
  <2> QED
    BY <2>1, <2>2, NothingTold
<1>3. ASSUME NEW d \in Callers, d # c PROVE ToldOK(d)'
  <2>1. tx[d] \in Transactions /\ ToldOK(d) /\ tx[d].wrote \subseteq Rows
    BY TransactionType DEF LogOK, Inv
  <2>2. \A r \in tx[d].wrote : db'[r] = db[r]
    <3>1. \A r \in tx[d].wrote : r \notin tx[c].wrote /\ r \in Rows
      BY <1>3, <2>1 DEF Inv, OneHolder
    <3> QED
      BY <1>1, <3>1 DEF View, Drafted
  <2>3. CASE Open(d)
    <3>1. tx'[d] = [tx[d] EXCEPT !.quiet = FALSE]
      BY <1>1, <1>3, <2>3
    <3>2. /\ tx'[d].pc = tx[d].pc /\ tx'[d].todo = tx[d].todo
          /\ tx'[d].wrote = tx[d].wrote /\ tx'[d].draft = tx[d].draft
          /\ tx'[d].told = tx[d].told /\ tx'[d].file = tx[d].file
          /\ tx'[d].before = tx[d].before /\ ~tx'[d].quiet
      BY <2>1, <3>1 DEF Transactions
    <3> QED
      BY <2>1, <2>2, <3>2, ToldFrame
  <2>4. CASE ~Open(d)
    <3>1. tx'[d] = tx[d] /\ tx[d].pc # "write"
      BY <1>1, <1>3, <2>4 DEF Open
    <3> QED
      BY <2>1, <2>2, <3>1, ToldFrame
  <2> QED
    BY <2>3, <2>4
<1>4. ASSUME NEW r \in Rows PROVE Replay(Seed[r], history'[r], db'[r])
  <2>1. /\ history[r] \in Seq(Entries) /\ tx[c].told[r] \in Seq(Entries)
        /\ Replay(Seed[r], history[r], db[r])
    BY TransactionType DEF Inv, TypeOK, Transactions, LogOK
  <2>2. history'[r] = history[r] \o tx[c].told[r] /\ db'[r] = View(c, r)
    BY <1>1
  <2>3. CASE r \in tx[c].wrote
    <3>1. Replay(db[r], tx[c].told[r], tx[c].draft[r]) /\ db'[r] = tx[c].draft[r]
      BY <2>2, <2>3 DEF LogOK, ToldOK, RowTold, View, Drafted
    <3> QED
      BY <2>1, <2>2, <3>1, ReplayMore
  <2>4. CASE r \notin tx[c].wrote
    <3>1. tx[c].told[r] = <<>> /\ db'[r] = db[r]
      BY <2>2, <2>4 DEF LogOK, ToldOK, View, Drafted
    <3>2. history'[r] = history[r]
      BY <2>1, <2>2, <3>1
    <3> QED
      BY <2>1, <3>1, <3>2
  <2> QED
    BY <2>3, <2>4
<1> QED
  BY <1>2, <1>3, <1>4 DEF LogOK

LEMMA InitLog == Init => LogOK
<1> SUFFICES ASSUME Init PROVE LogOK
  OBVIOUS
<1>1. /\ db = Seed /\ tx = [c \in Callers |-> Idle] /\ history = [r \in Rows |-> <<>>]
  BY DEF Init
<1>2. /\ Idle.wrote = {} /\ Idle.pc = "idle" /\ Idle.told = [r \in Rows |-> <<>>]
      /\ Len(Idle.todo) = 0
  BY DEF Idle
<1>3. \A c \in Callers : ToldOK(c)
  BY <1>1, <1>2 DEF ToldOK
<1>4. \A r \in Rows : Replay(Seed[r], history[r], db[r])
  BY <1>1, ReplayNone
<1> QED
  BY <1>3, <1>4 DEF LogOK

LEMMA StillTold ==
  ASSUME LogOK, UNCHANGED <<db, history, tx>>
  PROVE  LogOK'
<1>1. \A c \in Callers : ToldOK(c)'
  BY ToldFrame DEF LogOK
<1>2. \A r \in Rows : Replay(Seed[r], history[r], db[r])'
  BY DEF LogOK
<1> QED
  BY <1>1, <1>2 DEF LogOK

LEMMA NextLog == Inv /\ LogOK /\ [Next]_vars => LogOK'
<1> SUFFICES ASSUME Inv, LogOK, [Next]_vars PROVE LogOK'
  OBVIOUS
<1>1. ASSUME NEW c \in Callers, Request(c) PROVE LogOK'
  BY <1>1, RequestStarts, StartTold
<1>2. ASSUME NEW c \in Callers, Step(c) PROVE LogOK'
  BY <1>2, ImportTold, ReadTold, WriteTold, CommitTold, AbortTold
  DEF Step, RefuseRow, RefuseWrite, BreakDeadlock
<1>3. ASSUME NEW c \in Callers, Fail(c) PROVE LogOK'
  BY <1>3, AbortTold DEF Fail
<1>4. ASSUME NEW b \in Readers, listBuyerCatalog(b) \/ Look(b)
      PROVE  UNCHANGED <<db, history, tx>>
  BY <1>4 DEF listBuyerCatalog, Look, ReadCustomer, ReadUnit, ReadProduct, ReadVisibility,
              ReadAssignment, ReadList, ReadItem, GoOn, Read
<1>5. CASE UNCHANGED vars
  BY <1>5, StillTold DEF vars
<1> QED
  BY <1>1, <1>2, <1>3, <1>4, <1>5, StillTold DEF Next, Rest

LEMMA LogHolds == Spec => [](Inv /\ LogOK)
<1>1. Init => Inv /\ LogOK
  BY InitInv, InitLog
<1>2. Inv /\ LogOK /\ [Next]_vars => (Inv /\ LogOK)'
  BY NextInv, NextLog
<1> QED
  BY <1>1, <1>2, PTL DEF Spec

\* Only a commit of its own adds to the log what a caller told.
LEMMA CommittedIs ==
  ASSUME Inv, [Next]_vars, NEW c \in Callers, Committed(c)
  PROVE  Commit(c)
<1>1. history' # history /\ Open(c) /\ ~Open(c)'
  BY DEF Committed
<1>2. PICK d \in Callers : Commit(d)
  <2>1. ASSUME NEW d \in Callers, Request(d) PROVE history' = history
    BY <2>1, RequestStarts DEF StartsOK, Start
  <2>2. ASSUME NEW b \in Readers, listBuyerCatalog(b) \/ Look(b) PROVE history' = history
    BY <2>2 DEF listBuyerCatalog, Look, ReadCustomer, ReadUnit, ReadProduct, ReadVisibility,
                ReadAssignment, ReadList, ReadItem, GoOn, Read
  <2>3. ASSUME NEW d \in Callers, Step(d) \/ Fail(d), ~Commit(d) PROVE history' = history
    BY <2>3 DEF Step, Fail, ImportRow, ReadRow, RefuseRow, WriteRow, RefuseWrite,
                BreakDeadlock, Abort
  <2> QED
    BY <1>1, <2>1, <2>2, <2>3 DEF Next, Rest, vars
<1>3. d = c
  BY <1>1, <1>2, CommitTypes DEF Open
<1> QED
  BY <1>2, <1>3

\* Each operation reads the row it will change without a lock, and still the
\* entries of a row, in the order in which they were committed, lead from the
\* row as it was first to the row as it is.
THEOREM LogReplays == Spec => []AuditReplays
<1>1. Inv /\ LogOK => AuditReplays
  BY ReplayedIs DEF LogOK, AuditReplays
<1> QED
  BY <1>1, LogHolds, PTL

\* While nobody else commits, what an operation read before it wrote is what
\* it wrote over.
THEOREM LogTellsOld == Spec => AuditTellsOld
<1>1. Inv /\ LogOK /\ [Next]_vars =>
        [\A c \in Callers : Committed(c) /\ tx[c].quiet =>
           \A r \in Rows : tx[c].told[r] # <<>> =>
             LET old == Head(tx[c].told[r]).old
             IN  IF old = NoRow \/ db[r] = NoRow THEN old = db[r]
                 ELSE \A x \in Set(old) : old[x] = db[r][x]]_vars
  <2> SUFFICES ASSUME Inv, LogOK, NEW c \in Callers, tx[c].quiet,
                      NEW r \in Rows, tx[c].told[r] # <<>>
               PROVE  TellsOld(Head(tx[c].told[r]).old, db[r])
    BY DEF TellsOld
  <2>1. r \in tx[c].wrote
    BY DEF LogOK, ToldOK
  <2> QED
    BY <2>1 DEF LogOK, ToldOK, RowTold
<1> QED
  BY <1>1, LogHolds, PTL DEF Spec, AuditTellsOld

-----------------------------------------------------------------------------
(* What a sales representative saves.                                       *)

LimitedOp(op) == op.verb = "update" /\ op.kind = "Customer" /\ Set(op.sets) \subseteq {"extra"}

\* A transaction of a sales representative updates the contacts of customers
\* that are there, and nothing else.
Limited(c) ==
  roleOf[c] = "SALES_REP" =>
    /\ tx[c].file = NoFile
    /\ \A i \in 1..Len(tx[c].todo) : LimitedOp(tx[c].todo[i])
    /\ \A r \in tx[c].wrote :
         /\ kindOf[r] = "Customer" /\ db[r] # NoRow /\ tx[c].draft[r] # NoRow
         /\ \A i \in DOMAIN tx[c].told[r] : tx[c].told[r][i].set \subseteq {"extra"}

LimitedOK == \A c \in Callers : Limited(c)

\* Of all requests, only that for a contact is open to a sales representative.
LEMMA LimitedRequest ==
  ASSUME NEW c \in Callers, roleOf[c] = "SALES_REP", Request(c)
  PROVE  updateCustomerContactInfo(c)
<1>1. ASSUME NEW capability \in {"catalog:write", "pricing:write", "customers:write:full",
                                 "customers:activate", "customer-visibility:write",
                                 "imports:manage"}
      PROVE  ~May(c, capability)
  BY DEF May, hasCapability, ROLE_CAPABILITIES, TenantRole, SALES_REP_CAPABILITIES
<1> QED
  BY <1>1 DEF Request, categoriesActions, unitsActions, productsActions, productUnitsActions,
              priceListsActions, priceListItemsActions, customersActions,
              customerPricingActions, visibilityActions, importsActions

LEMMA LimitedStart ==
  ASSUME Inv, LimitedOK, NEW c \in Callers, Request(c)
  PROVE  Limited(c)'
<1> SUFFICES ASSUME roleOf[c] = "SALES_REP" PROVE Limited(c)'
  BY DEF Limited
<1>1. PICK r \in Known("Customer"), in \in Forms :
        Call(c, "update", "Customer", r, Form(in, {"extra"}), {})
  BY LimitedRequest DEF updateCustomerContactInfo
<1>2. PICK op : op = Operation("update", "Customer", r, Form(in, {"extra"}), {})
  OBVIOUS
<1>3. LimitedOp(op)
  BY <1>2 DEF LimitedOp, Operation, Set, Form
<1> DEFINE record == [Idle EXCEPT !.pc = "read", !.call = calls + 1,
                                  !.todo = <<op>>, !.file = NoFile]
<1>4. tx'[c] = record
  BY <1>1, <1>2 DEF Call, Start, Inv, TypeOK
<1>5. record.todo = <<op>> /\ record.file = NoFile /\ record.wrote = {}
  BY DEF Idle
<1> HIDE DEF record
<1>6. \A i \in 1..Len(<<op>>) : <<op>>[i] = op
  OBVIOUS
<1> QED
  BY <1>3, <1>4, <1>5, <1>6 DEF Limited

\* What holds of a transaction that has less to do, and writes nothing.
LEMMA LimitedLess ==
  ASSUME NEW c \in Callers, Limited(c), tx'[c].file = tx[c].file,
         tx'[c].wrote = tx[c].wrote, tx'[c].draft = tx[c].draft, tx'[c].told = tx[c].told,
         \A r \in tx[c].wrote : db'[r] = db[r],
         roleOf[c] = "SALES_REP" => \A i \in 1..Len(tx'[c].todo) : LimitedOp(tx'[c].todo[i])
  PROVE  Limited(c)'
  BY DEF Limited

LEMMA LimitedIdle ==
  ASSUME NEW c \in Callers, tx'[c] = Idle
  PROVE  Limited(c)'
  BY DEF Limited, Idle

\* The statement that is run is an update of a customer.
LEMMA LimitedHead ==
  ASSUME Inv, NEW c \in Callers, Limited(c), roleOf[c] = "SALES_REP", tx[c].todo # <<>>
  PROVE  /\ LimitedOp(Op(c)) /\ Op(c).row \in Rows /\ kindOf[Op(c).row] = "Customer"
         /\ \A i \in 1..Len(Tail(tx[c].todo)) : LimitedOp(Tail(tx[c].todo)[i])
<1>1. /\ Op(c) \in Operations /\ Op(c) = tx[c].todo[1] /\ 1 \in 1..Len(tx[c].todo)
      /\ \A i \in 1..Len(Tail(tx[c].todo)) :
           i + 1 \in 1..Len(tx[c].todo) /\ Tail(tx[c].todo)[i] = tx[c].todo[i + 1]
  BY OpType DEF Inv
<1>2. OpOK(Op(c))
  BY <1>1 DEF Inv, TransactionOK
<1>3. /\ LimitedOp(Op(c))
      /\ \A i \in 1..Len(Tail(tx[c].todo)) : LimitedOp(Tail(tx[c].todo)[i])
  BY <1>1 DEF Limited
<1>4. Op(c).row \in Rows /\ kindOf[Op(c).row] = Op(c).kind
  BY <1>1, <1>2 DEF OpOK, Operations
<1> QED
  BY <1>3, <1>4 DEF LimitedOp

LEMMA LimitedRead ==
  ASSUME Inv, NEW c \in Callers, Limited(c), ReadRow(c) \/ ImportRow(c)
  PROVE  Limited(c)'
<1> SUFFICES ASSUME roleOf[c] = "SALES_REP" PROVE Limited(c)'
  BY DEF Limited
<1>1. tx[c] \in Transactions /\ tx \in [Callers -> Transactions]
  BY TransactionType DEF Inv, TypeOK
<1>2. ~ImportRow(c)
  <2>1. tx[c].file = NoFile
    BY DEF Limited
  <2> QED
    BY <1>1, <2>1, FileRows DEF ImportRow
<1>3. /\ tx[c].todo # <<>> /\ db' = db
      /\ \/ tx'[c] = [tx[c] EXCEPT !.todo = Tail(@)]
         \/ tx'[c] = [tx[c] EXCEPT !.pc = "write", !.before = View(c, Op(c).row)]
  BY <1>1, <1>2 DEF ReadRow, AtOperation, Go
<1>4. /\ tx'[c].file = tx[c].file /\ tx'[c].wrote = tx[c].wrote
      /\ tx'[c].draft = tx[c].draft /\ tx'[c].told = tx[c].told
      /\ tx'[c].todo \in {tx[c].todo, Tail(tx[c].todo)}
  BY <1>1, <1>3 DEF Transactions
<1>5. \A i \in 1..Len(tx'[c].todo) : LimitedOp(tx'[c].todo[i])
  BY <1>3, <1>4, LimitedHead DEF Limited
<1> QED
  BY <1>3, <1>4, <1>5, LimitedLess

LEMMA LimitedWrite ==
  ASSUME Inv, LogOK, NEW c \in Callers, Limited(c), WriteRow(c)
  PROVE  Limited(c)'
<1> SUFFICES ASSUME roleOf[c] = "SALES_REP" PROVE Limited(c)'
  BY DEF Limited
<1>0. PICK r, row, entry : r = Op(c).row /\ row = Written(c) /\ entry = Entry(c)
  OBVIOUS
<1>1. /\ tx[c] \in Transactions /\ tx \in [Callers -> Transactions]
      /\ tx[c].todo # <<>> /\ ~Conflict(c) /\ db' = db
      /\ tx'[c] = [tx[c] EXCEPT !.pc = "read", !.todo = Tail(@), !.wrote = @ \cup {r},
                                !.draft[r] = row, !.told[r] = Append(@, entry)]
  BY <1>0, TransactionType DEF WriteRow, Turn, Go, Inv, TypeOK
<1>2. /\ LimitedOp(Op(c)) /\ r \in Rows /\ kindOf[r] = "Customer"
      /\ \A i \in 1..Len(Tail(tx[c].todo)) : LimitedOp(Tail(tx[c].todo)[i])
  BY <1>0, <1>1, LimitedHead
<1>3. View(c, r) # NoRow
  BY <1>0, <1>1, <1>2 DEF Conflict, LimitedOp
<1>4. row # NoRow
  <2>1. DOMAIN Merge(Op(c).sets, View(c, r)) = Columns /\ DOMAIN NoRow = {}
    BY DEF Merge, NoRow
  <2>2. row = Merge(Op(c).sets, View(c, r))
    BY <1>0, <1>2, <1>3 DEF Written, LimitedOp
  <2> QED
    BY <2>1, <2>2 DEF Columns
<1>5. db[r] # NoRow
  BY <1>3 DEF View, Drafted, Limited
<1>6. entry.set \subseteq {"extra"}
  BY <1>0, <1>2 DEF Entry, LimitedOp
<1>7. /\ tx'[c].file = tx[c].file /\ tx'[c].todo = Tail(tx[c].todo)
      /\ tx'[c].wrote = tx[c].wrote \cup {r} /\ tx[c].wrote \subseteq Rows
      /\ tx[c].told \in [Rows -> Seq(Entries)]
      /\ tx[c].draft \in [Rows -> RowOrNone]
      /\ tx'[c].draft = [tx[c].draft EXCEPT ![r] = row]
      /\ tx'[c].told = [tx[c].told EXCEPT ![r] = Append(@, entry)]
  BY <1>1 DEF Transactions
<1>8. ASSUME NEW q \in tx'[c].wrote
      PROVE  /\ kindOf[q] = "Customer" /\ db'[q] # NoRow /\ tx'[c].draft[q] # NoRow
             /\ \A i \in DOMAIN tx'[c].told[q] : tx'[c].told[q][i].set \subseteq {"extra"}
  <2>1. CASE q # r
    <3>1. q \in tx[c].wrote /\ q \in Rows
      BY <1>7, <1>8, <2>1
    <3>2. tx'[c].draft[q] = tx[c].draft[q] /\ tx'[c].told[q] = tx[c].told[q]
      BY <1>7, <2>1, <3>1
    <3> QED
      BY <1>1, <3>1, <3>2 DEF Limited
  <2>2. CASE q = r
    <3>1. tx'[c].draft[q] = row /\ tx'[c].told[q] = Append(tx[c].told[r], entry)
      BY <1>2, <1>7, <2>2
    <3>2. PICK told : told = tx[c].told[r]
      OBVIOUS
    <3>3. told \in Seq(Entries) /\ \A i \in DOMAIN told : told[i].set \subseteq {"extra"}
      <4>1. r \notin tx[c].wrote => told = <<>>
        BY <1>2, <3>2 DEF LogOK, ToldOK
      <4> QED
        BY <1>2, <1>7, <3>2, <4>1 DEF Limited
    <3>4. \A i \in DOMAIN Append(told, entry) : Append(told, entry)[i].set \subseteq {"extra"}
      BY <1>6, <3>3
    <3> QED
      BY <1>1, <1>2, <1>4, <1>5, <2>2, <3>1, <3>2, <3>4
  <2> QED
    BY <2>1, <2>2
<1> QED
  BY <1>2, <1>7, <1>8 DEF Limited

\* A commit of another caller leaves the rows that c wrote.
LEMMA LimitedOthers ==
  ASSUME Inv, NEW c \in Callers, NEW d \in Callers \ {c}, Limited(c), Commit(d)
  PROVE  Limited(c)'
<1>1. tx \in [Callers -> Transactions] /\ tx[c] \in Transactions
  BY TransactionType DEF Inv, TypeOK
<1>2. /\ tx'[c].file = tx[c].file /\ tx'[c].todo = tx[c].todo
      /\ tx'[c].wrote = tx[c].wrote
      /\ tx'[c].draft = tx[c].draft /\ tx'[c].told = tx[c].told
  BY <1>1 DEF Commit, Transactions
<1>3. ASSUME NEW r \in tx[c].wrote PROVE db'[r] = db[r]
  <2>1. r \in Rows /\ r \notin tx[d].wrote
    BY <1>1, <1>3, Disjoint DEF Transactions
  <2> QED
    BY <2>1 DEF Commit, View, Drafted
<1> QED
  BY <1>2, <1>3, LimitedLess DEF Limited

LEMMA InitLimited == Init => LimitedOK
  BY DEF Init, LimitedOK, Limited, Idle

LEMMA NextLimited == Inv /\ LogOK /\ LimitedOK /\ [Next]_vars => LimitedOK'
<1> SUFFICES ASSUME Inv, LogOK, LimitedOK, [Next]_vars, NEW c \in Callers PROVE Limited(c)'
  BY DEF LimitedOK
<1>1. Limited(c) /\ tx \in [Callers -> Transactions]
  BY DEF LimitedOK, Inv, TypeOK
<1>2. ASSUME tx'[c] = tx[c], db' = db PROVE Limited(c)'
  BY <1>1, <1>2, LimitedLess DEF Limited
<1>3. ASSUME NEW d \in Callers, d # c, Request(d) \/ Step(d) \/ Fail(d), ~Commit(d)
      PROVE  Limited(c)'
  <2>1. CASE Request(d)
    BY <1>1, <1>2, <1>3, <2>1, RequestStarts DEF StartsOK, Start
  <2>2. CASE Step(d) \/ Fail(d)
    BY <1>1, <1>2, <1>3, <2>2 DEF Step, Fail, ImportRow, ReadRow, RefuseRow, WriteRow,
      RefuseWrite, BreakDeadlock, Abort, Go
  <2> QED
    BY <1>3, <2>1, <2>2
<1>4. ASSUME NEW d \in Callers, d # c, Commit(d) PROVE Limited(c)'
  BY <1>1, <1>4, LimitedOthers
<1>5. CASE Request(c)
  BY <1>5, LimitedStart
<1>6. CASE Step(c) \/ Fail(c)
  <2>1. CASE ImportRow(c) \/ ReadRow(c)
    BY <1>1, <2>1, LimitedRead
  <2>2. CASE WriteRow(c)
    BY <1>1, <2>2, LimitedWrite
  <2>3. CASE Commit(c) \/ Abort(c)
    <3>1. tx'[c] = Idle
      BY <1>1, <2>3 DEF Commit, Abort, Go
    <3> QED
      BY <3>1, LimitedIdle
  <2> QED
    BY <1>6, <2>1, <2>2, <2>3 DEF Step, Fail, RefuseRow, RefuseWrite, BreakDeadlock
<1>7. ASSUME NEW b \in Readers, listBuyerCatalog(b) \/ Look(b) PROVE UNCHANGED <<db, tx>>
  BY <1>7 DEF listBuyerCatalog, Look, ReadCustomer, ReadUnit, ReadProduct, ReadVisibility,
              ReadAssignment, ReadList, ReadItem, GoOn, Read
<1> QED
  BY <1>2, <1>3, <1>4, <1>5, <1>6, <1>7 DEF Next, Rest, vars

LEMMA LimitedHolds == Spec => [](Inv /\ LogOK /\ LimitedOK)
<1>1. Init => LimitedOK
  BY InitLimited
<1>2. Inv /\ LogOK /\ LimitedOK /\ [Next]_vars => LimitedOK'
  BY NextLimited
<1> QED
  BY <1>1, <1>2, LogHolds, PTL DEF Spec

\* A column that differs was set by an entry, and the entries of a sales
\* representative set the contact of a customer that was there: what others
\* saved since he read it is not lost.
THEOREM ContactsOnly == Spec => OnlyContact
<1>1. Inv /\ LogOK /\ LimitedOK /\ [Next]_vars =>
        [\A c \in Callers : Committed(c) /\ roleOf[c] = "SALES_REP" =>
           \A r \in Rows : db'[r] # db[r] =>
             /\ kindOf[r] = "Customer" /\ db[r] # NoRow /\ db'[r] # NoRow
             /\ \A x \in Columns \ {"extra"} : db'[r][x] = db[r][x]]_vars
  <2> SUFFICES ASSUME Inv, LogOK, LimitedOK, [Next]_vars, NEW c \in Callers, Committed(c),
                      roleOf[c] = "SALES_REP", NEW r \in Rows, db'[r] # db[r]
               PROVE  /\ kindOf[r] = "Customer" /\ db[r] # NoRow /\ db'[r] # NoRow
                      /\ \A x \in Columns \ {"extra"} : db'[r][x] = db[r][x]
    OBVIOUS
  <2>1. db'[r] = View(c, r)
    BY CommittedIs, CommitTypes
  <2>2. r \in tx[c].wrote /\ db'[r] = tx[c].draft[r]
    BY <2>1 DEF View, Drafted
  <2>3. ColumnsTold(tx[c].told[r], db[r], db'[r])
    BY <2>2 DEF LogOK, ToldOK, RowTold
  <2>4. /\ kindOf[r] = "Customer" /\ db[r] # NoRow /\ db'[r] # NoRow
        /\ \A i \in DOMAIN tx[c].told[r] : tx[c].told[r][i].set \subseteq {"extra"}
    BY <2>2 DEF LimitedOK, Limited
  <2> QED
    BY <2>3, <2>4 DEF ColumnsTold
<1> QED
  BY <1>1, LimitedHolds, PTL DEF Spec, OnlyContact

-----------------------------------------------------------------------------
(* The prices that buyers are shown while nobody writes.                    *)

\* Two rows that a unique index would not let be.
Clash(r, a, s, b) ==
  /\ kindOf[r] = kindOf[s] /\ a # NoRow /\ b # NoRow
  /\ a["tenant"] = b["tenant"] /\ a["key"] = b["key"] /\ a["key"] # NULL

\* The rows that are committed, the rows that c sees, and what two callers
\* wrote, never clash.
KeysOK ==
  \A r, s \in Rows : r # s =>
    /\ ~Clash(r, db[r], s, db[s])
    /\ \A c \in Callers : ~Clash(r, View(c, r), s, View(c, s))
    /\ \A c, d \in Callers :
         c # d /\ r \in tx[c].wrote /\ s \in tx[d].wrote =>
           ~Clash(r, tx[c].draft[r], s, tx[d].draft[s])

RowsShaped ==
  /\ \A r \in Rows : db[r] # NoRow => Shaped(kindOf[r], db[r])
  /\ \A c \in Callers : \A r \in tx[c].wrote :
       tx[c].draft[r] # NoRow => Shaped(kindOf[r], tx[c].draft[r])

\* A read that nobody disturbed has passed nothing that is withheld, and what
\* it read is still there.
QuietRead(b, read) ==
  /\ read.pc # "done" => read.offer = NULL
  /\ read.pc \notin {"idle", "done"} /\ read.quiet =>
       /\ Withheld(b) \cap Passed(read.pc) = {}
       /\ read.pc # "customer" => read.discount = db[customerOf[b]]["discount"]
       /\ read.pc \in {"list", "item"} => read.list = Assignment(b)["other"]
       /\ read.pc = "item" =>
            /\ read.currency = db[read.list]["data"]
            /\ db[read.list]["active"] = YES

QuietOK(b) == QuietRead(b, reads[b])

TermsOK == KeysOK /\ RowsShaped /\ \A b \in Readers : QuietOK(b)

\* What is known of a read depends on it and on the committed rows only.
LEMMA QuietFrame ==
  ASSUME NEW b \in Readers, QuietOK(b), db' = db, reads'[b] = reads[b]
  PROVE  QuietOK(b)'
<1>1. Withheld(b)' = Withheld(b)
  BY DEF Withheld, Override, Assignment, Product
<1> QED
  BY <1>1 DEF QuietOK, QuietRead, Assignment

\* A step that writes no row, whatever it ends or begins.
LEMMA StillKeys ==
  ASSUME KeysOK, RowsShaped, UNCHANGED db,
         \A c \in Callers : \/ tx'[c].wrote = {}
                            \/ tx'[c].wrote = tx[c].wrote /\ tx'[c].draft = tx[c].draft
  PROVE  KeysOK' /\ RowsShaped'
<1>1. ASSUME NEW c \in Callers, NEW r \in Rows
      PROVE  View(c, r)' = IF tx'[c].wrote = {} THEN db[r] ELSE View(c, r)
  BY DEF View, Drafted
<1>2. ASSUME NEW r \in Rows, NEW s \in Rows, r # s
      PROVE  /\ ~Clash(r, db[r], s, db[s])'
             /\ \A c \in Callers : ~Clash(r, View(c, r), s, View(c, s))'
             /\ \A c, d \in Callers :
                  c # d /\ r \in tx'[c].wrote /\ s \in tx'[d].wrote =>
                    ~Clash(r, tx'[c].draft[r], s, tx'[d].draft[s])
  <2>1. ~Clash(r, db[r], s, db[s])'
    BY <1>2 DEF KeysOK, Clash
  <2>2. ASSUME NEW c \in Callers PROVE ~Clash(r, View(c, r), s, View(c, s))'
    <3>1. ~Clash(r, View(c, r)', s, View(c, s)')
      BY <1>1, <1>2 DEF KeysOK
    <3> QED
      BY <3>1 DEF Clash
  <2>3. ASSUME NEW c \in Callers, NEW d \in Callers, c # d,
               r \in tx'[c].wrote, s \in tx'[d].wrote
        PROVE  ~Clash(r, tx'[c].draft[r], s, tx'[d].draft[s])
    BY <1>2, <2>3 DEF KeysOK
  <2> QED
    BY <2>1, <2>2, <2>3
<1>3. KeysOK'
  BY <1>2 DEF KeysOK, Clash
<1>4. RowsShaped'
  BY DEF RowsShaped, Shaped
<1> QED
  BY <1>3, <1>4

\* A write leaves the row in shape.  It keeps the row's key, or gives it one.
LEMMA WrittenKey ==
  ASSUME Inv, TermsOK, NEW c \in Callers, tx[c].pc = "write", tx[c].todo # <<>>,
         ~Conflict(c), Written(c) # NoRow
  PROVE  LET view == View(c, Op(c).row)
             row == Written(c)
         IN  /\ Shaped(kindOf[Op(c).row], row)
             /\ Key(c) = SAME => view # NoRow /\ row["key"] = view["key"]
             /\ Key(c) # SAME => row["key"] = Key(c)
<1> DEFINE view == View(c, Op(c).row)
           row == Written(c)
           sets == Op(c).sets
           kind == kindOf[Op(c).row]
           blank == [Blank EXCEPT !["tenant"] = tenantOf[c]]
<1>1. Op(c) \in Operations /\ OpOK(Op(c))
  BY OpType DEF Inv, TransactionOK
<1>2. /\ Op(c).verb \in {"create", "upsert"} => sets["key"] # SAME
      /\ kind = "PriceListItem" =>
           \/ \A x \in {"key", "parent", "other"} : sets[x] = SAME
           \/ /\ \A x \in {"key", "parent", "other"} : sets[x] # SAME
              /\ sets["key"] = <<sets["parent"], sets["other"]>>
      /\ kind = "Assignment" =>
           /\ sets["other"] # NULL
           /\ Op(c).verb \in {"create", "upsert"} => sets["other"] # SAME
      /\ Op(c).verb \in {"create", "update", "delete", "upsert", "clear"}
      /\ Op(c).row \in Rows
  BY <1>1 DEF Operations, OpOK
<1>3. Op(c).verb \notin {"delete", "clear"} /\ row = Merge(sets, IF view # NoRow THEN view ELSE blank)
  BY DEF Written
<1>4. Op(c).verb \in {"create", "upsert"} \/ view # NoRow
  BY <1>2, <1>3 DEF Conflict
<1>5. \A x \in {"key", "parent", "other"} :
        /\ sets[x] # SAME => row[x] = sets[x]
        /\ sets[x] = SAME /\ view # NoRow => row[x] = view[x]
  BY <1>3 DEF Merge, Columns
<1>6. view # NoRow => Shaped(kind, view)
  BY <1>2 DEF TermsOK, RowsShaped, View, Drafted
<1>7. Key(c) = sets["key"]
  BY DEF Key
<1> HIDE DEF view, row, sets, kind
<1>8. Key(c) = SAME => view # NoRow /\ row["key"] = view["key"]
  BY <1>2, <1>4, <1>5, <1>7
<1>9. Key(c) # SAME => row["key"] = Key(c)
  BY <1>5, <1>7
<1>10. kind = "PriceListItem" => row["key"] = <<row["parent"], row["other"]>>
  <2>1. CASE \A x \in {"key", "parent", "other"} : sets[x] = SAME
    BY <1>2, <1>4, <1>5, <1>6, <2>1 DEF Shaped
  <2>2. CASE /\ \A x \in {"key", "parent", "other"} : sets[x] # SAME
             /\ sets["key"] = <<sets["parent"], sets["other"]>>
    BY <1>5, <2>2
  <2> QED
    BY <1>2, <2>1, <2>2
<1>11. kind = "Assignment" => row["other"] # NULL
  BY <1>2, <1>4, <1>5, <1>6 DEF Shaped
<1> QED
  BY <1>8, <1>9, <1>10, <1>11 DEF Shaped, view, row, kind

LEMMA Clashes ==
  ASSUME NEW r, NEW s, NEW a, NEW b
  PROVE  Clash(r, a, s, b) <=> Clash(s, b, r, a)
  BY DEF Clash

\* What c writes clashes with nothing that c sees or another caller wrote: the
\* unique index is asked, and waited for.
LEMMA NoClash ==
  ASSUME Inv, TermsOK, NEW c \in Callers, Turn(c), ~Conflict(c), NEW r, r = Op(c).row,
         NEW s \in Rows, s # r
  PROVE  /\ ~Clash(r, Written(c), s, View(c, s))
         /\ \A d \in Callers \ {c} : s \in tx[d].wrote =>
              ~Clash(r, Written(c), s, tx[d].draft[s])
<1> DEFINE row == Written(c)
           view == View(c, r)
<1>1. tx[c].pc = "write" /\ tx[c].todo # <<>> /\ \A d \in Callers : ~WaitsFor(c, d)
  BY TransactionType DEF Turn, Inv
<1>2. SUFFICES ASSUME row # NoRow
               PROVE  /\ ~Clash(r, row, s, View(c, s))
                      /\ \A d \in Callers \ {c} : s \in tx[d].wrote =>
                           ~Clash(r, row, s, tx[d].draft[s])
  BY DEF Clash
<1>3. /\ r \in Rows /\ row["tenant"] = tenantOf[c]
      /\ view # NoRow => view["tenant"] = tenantOf[c]
      /\ Key(c) = SAME => view # NoRow /\ row["key"] = view["key"]
      /\ Key(c) # SAME => row["key"] = Key(c)
  BY <1>1, <1>2, WrittenRow, WrittenKey DEF Sees
<1>4. kindOf[r] = Op(c).kind
  <2>1. OpOK(Op(c))
    BY <1>1, OpType DEF Inv, TransactionOK
  <2> QED
    BY <2>1 DEF OpOK
<1> HIDE DEF row, view
<1>5. CASE Key(c) = SAME
  <2>1. view # NoRow /\ row["key"] = view["key"] /\ row["tenant"] = view["tenant"]
    BY <1>3, <1>5
  <2>2. ASSUME NEW a, Clash(r, row, s, a) PROVE Clash(r, view, s, a)
    BY <2>1, <2>2 DEF Clash
  <2>3. ~Clash(r, view, s, View(c, s))
    BY <1>3 DEF TermsOK, KeysOK, view
  <2>4. ASSUME NEW d \in Callers \ {c}, s \in tx[d].wrote
        PROVE  ~Clash(r, view, s, tx[d].draft[s])
    <3>1. CASE r \in tx[c].wrote
      <4>1. view = tx[c].draft[r]
        BY <3>1 DEF view, View, Drafted
      <4> QED
        BY <1>3, <2>4, <3>1, <4>1 DEF TermsOK, KeysOK
    <3>2. CASE r \notin tx[c].wrote
      <4>1. r \notin tx[d].wrote
        BY <1>1, <2>4 DEF WaitsFor, Drafted, Open, Inv, TransactionOK
      <4>2. view = View(d, r) /\ View(d, s) = tx[d].draft[s]
        BY <2>4, <3>2, <4>1 DEF view, View, Drafted
      <4> QED
        BY <1>3, <4>2 DEF TermsOK, KeysOK
    <3> QED
      BY <3>1, <3>2
  <2> QED
    BY <2>2, <2>3, <2>4
<1>6. CASE Key(c) = NULL /\ Key(c) # SAME
  BY <1>3, <1>6 DEF Clash
<1>7. CASE Key(c) \notin {SAME, NULL}
  <2>1. ~Clash(r, row, s, View(c, s))
    <3>1. SUFFICES ASSUME Clash(r, row, s, View(c, s)) PROVE FALSE
      OBVIOUS
    <3>2. /\ Sees(c, s) /\ View(c, s)["key"] = Key(c) /\ kindOf[s] = Op(c).kind
      BY <1>3, <1>4, <1>7, <3>1 DEF Clash, Sees
    <3>3. s \in ByKey(c, Op(c).kind, Key(c))
      <4>1. Op(c).kind \in Kinds
        BY <1>1, OpType DEF Inv, Operations
      <4> QED
        BY <3>2, <4>1 DEF ByKey, RowsOf
    <3> QED
      BY <1>7, <3>3 DEF Conflict, Duplicate
  <2>2. ASSUME NEW d \in Callers \ {c}, s \in tx[d].wrote
        PROVE  ~Clash(r, row, s, tx[d].draft[s])
    <3>1. SUFFICES ASSUME Clash(r, row, s, tx[d].draft[s]) PROVE FALSE
      OBVIOUS
    <3>2. HasKey(s, tx[d].draft[s], Op(c).kind, tenantOf[c], Key(c))
      BY <1>3, <1>4, <1>7, <3>1 DEF Clash, HasKey
    <3>3. Open(d) /\ Drafted(d, s) /\ c # d
      BY <2>2 DEF Open, Drafted, Inv, TransactionOK
    <3> QED
      BY <1>1, <1>7, <3>2, <3>3 DEF WaitsFor
  <2> QED
    BY <2>1, <2>2
<1> QED
  BY <1>5, <1>6, <1>7 DEF row

LEMMA WriteTerms ==
  ASSUME Inv, TermsOK, NEW c \in Callers, WriteRow(c)
  PROVE  TermsOK'
<1>0. PICK r : r = Op(c).row
  OBVIOUS
<1> DEFINE row == Written(c)
<1>1. /\ tx[c] \in Transactions /\ tx[c].pc = "write" /\ tx[c].todo # <<>>
      /\ Turn(c) /\ ~Conflict(c) /\ UNCHANGED <<db, history, calls, reads>>
      /\ tx \in [Callers -> Transactions]
  BY TransactionType DEF WriteRow, Turn, Inv, TypeOK
<1>2. /\ r \in Rows /\ row \in RowOrNone
  BY <1>0, <1>1, WrittenRow
<1>3. /\ tx'[c].wrote = tx[c].wrote \cup {r}
      /\ tx'[c].draft = [tx[c].draft EXCEPT ![r] = row]
      /\ \A d \in Callers \ {c} : tx'[d] = tx[d]
  BY <1>0, <1>1 DEF WriteRow, Go, Transactions
<1>4. /\ tx[c].draft \in [Rows -> RowOrNone] /\ tx[c].wrote \subseteq Rows
  BY <1>1 DEF Transactions
<1> HIDE DEF row
<1>5. tx'[c].draft[r] = row /\ \A q \in Rows : q # r => tx'[c].draft[q] = tx[c].draft[q]
  BY <1>2, <1>3, <1>4
<1>6. ASSUME NEW q \in Rows PROVE View(c, q)' = IF q = r THEN row ELSE View(c, q)
  BY <1>1, <1>3, <1>5 DEF View, Drafted
<1>7. ASSUME NEW q \in Rows, NEW d \in Callers \ {c} PROVE View(d, q)' = View(d, q)
  BY <1>1, <1>3 DEF View, Drafted
<1>8. ASSUME NEW s \in Rows, s # r
      PROVE  /\ ~Clash(r, row, s, View(c, s)) /\ ~Clash(s, View(c, s), r, row)
             /\ \A d \in Callers \ {c} : s \in tx[d].wrote =>
                  /\ ~Clash(r, row, s, tx[d].draft[s])
                  /\ ~Clash(s, tx[d].draft[s], r, row)
  BY <1>0, <1>1, <1>8, NoClash, Clashes DEF row
<1>others. ASSUME NEW d \in Callers, NEW q \in Rows, q \in tx'[d].wrote, d = c => q # r
      PROVE  q \in tx[d].wrote /\ tx'[d].draft[q] = tx[d].draft[q]
  <2>1. CASE d = c
    BY <1>3, <1>5, <1>others, <2>1
  <2>2. CASE d # c
    BY <1>3, <1>others, <2>2
  <2> QED
    BY <2>1, <2>2
<1>9. ASSUME NEW p \in Rows, NEW s \in Rows, p # s
      PROVE  /\ ~Clash(p, db'[p], s, db'[s])
             /\ \A d \in Callers : ~Clash(p, View(d, p)', s, View(d, s)')
             /\ \A d, e \in Callers :
                  d # e /\ p \in tx'[d].wrote /\ s \in tx'[e].wrote =>
                    ~Clash(p, tx'[d].draft[p], s, tx'[e].draft[s])
  <2>1. ~Clash(p, db'[p], s, db'[s])
    BY <1>1, <1>9 DEF TermsOK, KeysOK
  <2>2. ASSUME NEW d \in Callers PROVE ~Clash(p, View(d, p)', s, View(d, s)')
    <3>1. ~Clash(p, View(d, p), s, View(d, s))
      BY <1>9 DEF TermsOK, KeysOK
    <3>2. CASE d # c
      BY <1>7, <3>1, <3>2
    <3>3. CASE d = c /\ p # r /\ s # r
      BY <1>6, <3>1, <3>3
    <3>4. CASE d = c /\ p = r
      BY <1>6, <1>8, <1>9, <3>4
    <3>5. CASE d = c /\ s = r
      BY <1>6, <1>8, <1>9, <3>5
    <3> QED
      BY <3>2, <3>3, <3>4, <3>5
  <2>3. ASSUME NEW d \in Callers, NEW e \in Callers, d # e,
               p \in tx'[d].wrote, s \in tx'[e].wrote
        PROVE  ~Clash(p, tx'[d].draft[p], s, tx'[e].draft[s])
    <3>1. CASE d = c /\ p = r
      BY <1>3, <1>5, <1>8, <1>9, <2>3, <3>1
    <3>2. CASE e = c /\ s = r
      BY <1>3, <1>5, <1>8, <1>9, <2>3, <3>2
    <3>3. CASE (d = c => p # r) /\ (e = c => s # r)
      <4>1. p \in tx[d].wrote /\ tx'[d].draft[p] = tx[d].draft[p]
        BY <1>others, <2>3, <3>3
      <4>2. s \in tx[e].wrote /\ tx'[e].draft[s] = tx[e].draft[s]
        BY <1>others, <2>3, <3>3
      <4>3. ~Clash(p, tx[d].draft[p], s, tx[e].draft[s])
        BY <1>9, <2>3, <4>1, <4>2 DEF TermsOK, KeysOK
      <4> QED
        BY <4>1, <4>2, <4>3
    <3> QED
      BY <3>1, <3>2, <3>3
  <2> QED
    BY <2>1, <2>2, <2>3
<1>10. KeysOK'
  BY <1>9 DEF KeysOK, Clash
<1>11. RowsShaped'
  <2>1. row # NoRow => Shaped(kindOf[r], row)
    BY <1>0, <1>1, WrittenKey DEF row
  <2>2. ASSUME NEW d \in Callers, NEW q \in tx'[d].wrote, tx'[d].draft[q] # NoRow
        PROVE  Shaped(kindOf[q], tx'[d].draft[q])
    <3>1. CASE d = c /\ q = r
      BY <1>5, <2>1, <2>2, <3>1
    <3>2. CASE d = c => q # r
      <4>1. q \in tx[d].wrote /\ tx'[d].draft[q] = tx[d].draft[q]
        BY <1>3, <1>4, <1>5, <2>2, <3>2
      <4> QED
        BY <2>2, <4>1 DEF TermsOK, RowsShaped
    <3> QED
      BY <3>1, <3>2
  <2>3. \A q \in Rows : db'[q] # NoRow => Shaped(kindOf[q], db'[q])
    BY <1>1 DEF TermsOK, RowsShaped
  <2> QED
    BY <2>2, <2>3 DEF RowsShaped, Shaped
<1>12. \A b \in Readers : QuietOK(b)'
  BY <1>1, QuietFrame DEF TermsOK
<1> QED
  BY <1>10, <1>11, <1>12 DEF TermsOK

LEMMA CommitTerms ==
  ASSUME Inv, TermsOK, NEW c \in Callers, Commit(c)
  PROVE  TermsOK'
<1>1. /\ db' = [r \in Rows |-> View(c, r)] /\ tx'[c].wrote = {}
      /\ \A d \in Callers \ {c} : tx'[d].wrote = tx[d].wrote /\ tx'[d].draft = tx[d].draft
  BY CommitTypes, IdleType
<1>2. ASSUME NEW r \in Rows
      PROVE  /\ db'[r] = View(c, r) /\ View(c, r)' = View(c, r)
             /\ \A d \in Callers \ {c} :
                  View(d, r)' = IF r \in tx[d].wrote THEN tx[d].draft[r] ELSE View(c, r)
  BY <1>1 DEF View, Drafted
<1>3. ASSUME NEW d \in Callers \ {c}, NEW r \in tx[d].wrote, NEW s \in Rows, r # s,
             s \notin tx[d].wrote
      PROVE  ~Clash(r, tx[d].draft[r], s, View(c, s)) /\ ~Clash(s, View(c, s), r, tx[d].draft[r])
  <2>0. r \in Rows
    BY TransactionType DEF Inv
  <2>1. CASE s \in tx[c].wrote
    <3>1. View(c, s) = tx[c].draft[s]
      BY <2>1 DEF View, Drafted
    <3> QED
      BY <1>3, <2>0, <2>1, <3>1 DEF TermsOK, KeysOK
  <2>2. CASE s \notin tx[c].wrote
    <3>1. View(c, s) = View(d, s) /\ View(d, r) = tx[d].draft[r]
      BY <1>3, <2>2 DEF View, Drafted
    <3>2. /\ ~Clash(r, View(d, r), s, View(d, s)) /\ ~Clash(s, View(d, s), r, View(d, r))
      BY <1>3, <2>0 DEF TermsOK, KeysOK
    <3> QED
      BY <3>1, <3>2
  <2> QED
    BY <2>1, <2>2
<1>4. ASSUME NEW p \in Rows, NEW s \in Rows, p # s
      PROVE  /\ ~Clash(p, db'[p], s, db'[s])
             /\ \A d \in Callers : ~Clash(p, View(d, p)', s, View(d, s)')
             /\ \A d, e \in Callers :
                  d # e /\ p \in tx'[d].wrote /\ s \in tx'[e].wrote =>
                    ~Clash(p, tx'[d].draft[p], s, tx'[e].draft[s])
  <2>1. ~Clash(p, View(c, p), s, View(c, s))
    BY <1>4 DEF TermsOK, KeysOK
  <2>2. ASSUME NEW d \in Callers PROVE ~Clash(p, View(d, p)', s, View(d, s)')
    <3>1. CASE d = c \/ (p \notin tx[d].wrote /\ s \notin tx[d].wrote)
      BY <1>2, <2>1, <3>1
    <3>2. CASE d # c /\ p \in tx[d].wrote /\ s \in tx[d].wrote
      <4>1. View(d, p)' = View(d, p) /\ View(d, s)' = View(d, s)
        BY <1>2, <3>2 DEF View, Drafted
      <4> QED
        BY <1>4, <4>1 DEF TermsOK, KeysOK
    <3>3. CASE d # c /\ p \in tx[d].wrote /\ s \notin tx[d].wrote
      BY <1>2, <1>3, <1>4, <3>3
    <3>4. CASE d # c /\ p \notin tx[d].wrote /\ s \in tx[d].wrote
      BY <1>2, <1>3, <1>4, <3>4
    <3> QED
      BY <3>1, <3>2, <3>3, <3>4
  <2>3. ASSUME NEW d \in Callers, NEW e \in Callers, d # e,
               p \in tx'[d].wrote, s \in tx'[e].wrote
        PROVE  ~Clash(p, tx'[d].draft[p], s, tx'[e].draft[s])
    <3>1. d # c /\ e # c
      BY <1>1, <2>3
    <3> QED
      BY <1>1, <1>4, <2>3, <3>1 DEF TermsOK, KeysOK
  <2> QED
    BY <1>2, <2>1, <2>2, <2>3
<1>5. KeysOK'
  BY <1>4 DEF KeysOK, Clash
<1>6. RowsShaped'
  <2>1. ASSUME NEW r \in Rows, db'[r] # NoRow PROVE Shaped(kindOf[r], db'[r])
    BY <1>2, <2>1 DEF TermsOK, RowsShaped, View, Drafted
  <2>2. ASSUME NEW d \in Callers, NEW r \in tx'[d].wrote, tx'[d].draft[r] # NoRow
        PROVE  Shaped(kindOf[r], tx'[d].draft[r])
    BY <1>1, <2>2 DEF TermsOK, RowsShaped
  <2> QED
    BY <2>1, <2>2 DEF RowsShaped, Shaped
<1>7. ASSUME NEW b \in Readers PROVE QuietOK(b)'
  <2>1. /\ reads[b] \in Prices
        /\ reads'[b] = IF Reading(b)
                       THEN [reads[b] EXCEPT !.quiet = FALSE,
                                             !.withheld = @ \cap Withheld(b)']
                       ELSE reads[b]
    BY DEF Commit, Inv, TypeOK
  <2>2. /\ reads'[b].pc = reads[b].pc /\ reads'[b].offer = reads[b].offer
        /\ Reading(b) => ~reads'[b].quiet
    BY <2>1 DEF Prices
  <2> QED
    BY <2>2 DEF TermsOK, QuietOK, QuietRead, Reading
<1> QED
  BY <1>5, <1>6, <1>7 DEF TermsOK

\* Steps that leave the rows and the reads alone.
LEMMA SameTerms ==
  ASSUME TermsOK, UNCHANGED <<db, reads>>,
         \A c \in Callers : \/ tx'[c].wrote = {}
                            \/ tx'[c].wrote = tx[c].wrote /\ tx'[c].draft = tx[c].draft
  PROVE  TermsOK'
<1>1. KeysOK' /\ RowsShaped'
  BY StillKeys DEF TermsOK
<1>2. \A b \in Readers : QuietOK(b)'
  BY QuietFrame DEF TermsOK
<1> QED
  BY <1>1, <1>2 DEF TermsOK

LEMMA GoTerms ==
  ASSUME Inv, TermsOK, UNCHANGED <<db, reads>>, NEW c \in Callers, NEW record, Go(c, record),
         \/ record.wrote = {}
         \/ record.wrote = tx[c].wrote /\ record.draft = tx[c].draft
  PROVE  TermsOK'
<1>1. tx'[c] = record /\ \A d \in Callers \ {c} : tx'[d] = tx[d]
  BY DEF Go, Inv, TypeOK
<1>2. \A d \in Callers : \/ tx'[d].wrote = {}
                         \/ tx'[d].wrote = tx[d].wrote /\ tx'[d].draft = tx[d].draft
  BY <1>1
<1> QED
  BY <1>2, SameTerms

LEMMA StepTerms ==
  ASSUME Inv, TermsOK, NEW c \in Callers, Request(c) \/ Step(c) \/ Fail(c)
  PROVE  TermsOK'
<1>0. tx[c] \in Transactions
  BY TransactionType DEF Inv
<1>1. CASE Request(c)
  <2>1. PICK todo, file : Start(c, todo, file)
    BY <1>1, RequestStarts DEF StartsOK
  <2> DEFINE record == [Idle EXCEPT !.pc = "read", !.call = calls + 1,
                                    !.todo = todo, !.file = file]
  <2>2. Go(c, record) /\ UNCHANGED <<db, reads>>
    BY <2>1 DEF Start, Go
  <2>3. record.wrote = {}
    BY DEF Idle
  <2> HIDE DEF record
  <2> QED
    BY <2>2, <2>3, GoTerms
<1>2. CASE ImportRow(c)
  <2> DEFINE plan == PlanRow(c, tx[c].file, NextRow(c))
             record == [tx[c] EXCEPT !.todo = plan.todo, !.plan = Append(@, plan.status)]
  <2>1. Go(c, record) /\ UNCHANGED <<db, reads>>
    BY <1>2 DEF ImportRow
  <2>2. record.wrote = tx[c].wrote /\ record.draft = tx[c].draft
    BY <1>0 DEF Transactions
  <2> HIDE DEF record
  <2> QED
    BY <2>1, <2>2, GoTerms
<1>3. CASE ReadRow(c)
  <2> DEFINE skipped == [tx[c] EXCEPT !.todo = Tail(@)]
             read == [tx[c] EXCEPT !.pc = "write", !.before = View(c, Op(c).row)]
  <2>1. (Go(c, skipped) \/ Go(c, read)) /\ UNCHANGED <<db, reads>>
    BY <1>3 DEF ReadRow
  <2>2. /\ skipped.wrote = tx[c].wrote /\ skipped.draft = tx[c].draft
        /\ read.wrote = tx[c].wrote /\ read.draft = tx[c].draft
    BY <1>0 DEF Transactions
  <2> HIDE DEF skipped, read
  <2> QED
    BY <2>1, <2>2, GoTerms
<1>4. CASE Abort(c)
  <2>1. Go(c, Idle) /\ UNCHANGED <<db, reads>>
    BY <1>4 DEF Abort
  <2> QED
    BY <2>1, IdleType, GoTerms
<1> QED
  BY <1>1, <1>2, <1>3, <1>4, WriteTerms, CommitTerms
  DEF Step, Fail, RefuseRow, RefuseWrite, BreakDeadlock

LEMMA LookTerms ==
  ASSUME Inv, TermsOK, NEW b \in Readers, NEW new, reads' = [reads EXCEPT ![b] = new],
         UNCHANGED <<db, tx>>, QuietRead(b, new)
  PROVE  TermsOK'
<1>1. reads'[b] = new /\ \A a \in Readers \ {b} : reads'[a] = reads[a]
  BY DEF Inv, TypeOK
<1>2. QuietOK(b)'
  <2>1. Withheld(b)' = Withheld(b)
    BY DEF Withheld, Override, Assignment, Product
  <2> QED
    BY <1>1, <2>1 DEF QuietOK, QuietRead, Assignment
<1>3. \A a \in Readers \ {b} : QuietOK(a)'
  BY <1>1, QuietFrame DEF TermsOK
<1>4. KeysOK' /\ RowsShaped'
  BY StillKeys DEF TermsOK
<1> QED
  BY <1>2, <1>3, <1>4 DEF TermsOK

\* The price, if it is done, is the price by the rules.
Exact(b, new) ==
  new.pc = "done" /\ new.quiet => Quote(b) = {new.offer} \ {NULL}

LEMMA NoQuote ==
  ASSUME NEW b \in Readers, Withheld(b) # {} PROVE Quote(b) = {}
  BY DEF Quote

\* A read that the table refuses offers nothing.
LEMMA Refused ==
  ASSUME NEW b \in Readers, Withheld(b) # {}, NEW new, new.pc = "done", new.offer = NULL
  PROVE  QuietRead(b, new) /\ Exact(b, new)
  BY NoQuote DEF QuietRead, Exact

LEMMA QuietStart ==
  ASSUME Inv, TermsOK, NEW b \in Readers, listBuyerCatalog(b)
  PROVE  TermsOK'
<1> DEFINE new == [[NoRead EXCEPT !.withheld = Withheld(b)] EXCEPT
                     !.pc = IF {"unit", "product"} \cap Withheld(b) = {}
                            THEN "customer" ELSE "done"]
<1>1. reads' = [reads EXCEPT ![b] = new] /\ UNCHANGED <<db, tx>>
  BY DEF listBuyerCatalog, Read
<1>2. /\ new.offer = NULL
      /\ new.pc = IF {"unit", "product"} \cap Withheld(b) = {} THEN "customer" ELSE "done"
  BY DEF NoRead
<1> HIDE DEF new
<1>3. QuietRead(b, new)
  BY <1>2 DEF QuietRead, Passed
<1> QED
  BY <1>1, <1>3, LookTerms

LEMMA QuietCustomer ==
  ASSUME Inv, TermsOK, NEW b \in Readers, ReadCustomer(b)
  PROVE  TermsOK' /\ Exact(b, reads'[b])
<1> DEFINE new == [[reads[b] EXCEPT !.discount = db[customerOf[b]]["discount"]] EXCEPT
                     !.pc = IF "customer" \notin Withheld(b) THEN "unit" ELSE "done"]
<1>1. /\ reads[b] \in Prices /\ reads[b].pc = "customer" /\ reads \in [Readers -> Prices]
      /\ reads' = [reads EXCEPT ![b] = new] /\ UNCHANGED <<db, tx>>
  BY ReadFacts DEF ReadCustomer, GoOn, Read, Inv, TypeOK
<1>2. /\ new.discount = db[customerOf[b]]["discount"] /\ new.offer = reads[b].offer
      /\ new.quiet = reads[b].quiet
      /\ new.pc = IF "customer" \notin Withheld(b) THEN "unit" ELSE "done"
  BY <1>1 DEF Prices
<1>3. QuietRead(b, reads[b])
  BY DEF TermsOK, QuietOK
<1>4. reads'[b] = new
  BY <1>1
<1> HIDE DEF new
<1>5. QuietRead(b, new) /\ Exact(b, new)
  <2>1. CASE "customer" \in Withheld(b)
    BY <1>1, <1>2, <1>3, <2>1, Refused DEF QuietRead
  <2>2. CASE "customer" \notin Withheld(b)
    BY <1>1, <1>2, <1>3, <2>2 DEF QuietRead, Exact, Passed
  <2> QED
    BY <2>1, <2>2
<1> QED
  BY <1>1, <1>4, <1>5, LookTerms

LEMMA QuietNext ==
  ASSUME Inv, TermsOK, NEW b \in Readers, NEW reason \in Reasons, NEW pc, NEW next,
         \/ pc = "unit" /\ next = "product"
         \/ pc = "product" /\ next = "visibility"
         \/ pc = "visibility" /\ next = "assignment" /\ reason = "hidden",
         GoOn(b, pc, reason \notin Withheld(b), next, reads[b])
  PROVE  TermsOK' /\ Exact(b, reads'[b])
<1> DEFINE new == [reads[b] EXCEPT !.pc = IF reason \notin Withheld(b) THEN next ELSE "done"]
<1>1. /\ reads[b] \in Prices /\ reads[b].pc = pc /\ reads \in [Readers -> Prices]
      /\ reads' = [reads EXCEPT ![b] = new] /\ UNCHANGED <<db, tx>>
  BY ReadFacts DEF GoOn, Read, Inv, TypeOK
<1>2. /\ new.discount = reads[b].discount /\ new.offer = reads[b].offer
      /\ new.quiet = reads[b].quiet
      /\ new.pc = IF reason \notin Withheld(b) THEN next ELSE "done"
  BY <1>1 DEF Prices
<1>3. QuietRead(b, reads[b])
  BY DEF TermsOK, QuietOK
<1>4. reads'[b] = new
  BY <1>1
<1> HIDE DEF new
<1>5. QuietRead(b, new) /\ Exact(b, new)
  <2>1. CASE reason \in Withheld(b)
    BY <1>1, <1>2, <1>3, <2>1, Refused DEF QuietRead
  <2>2. CASE reason \notin Withheld(b)
    BY <1>1, <1>2, <1>3, <2>2 DEF QuietRead, Exact, Passed
  <2> QED
    BY <2>1, <2>2
<1> QED
  BY <1>1, <1>4, <1>5, LookTerms

LEMMA QuietAssignment ==
  ASSUME Inv, TermsOK, NEW b \in Readers, ReadAssignment(b)
  PROVE  TermsOK' /\ Exact(b, reads'[b])
<1> DEFINE list == IF "unassigned" \notin Withheld(b) THEN Assignment(b)["other"] ELSE NULL
           new == [[reads[b] EXCEPT !.list = list] EXCEPT
                     !.pc = IF "unassigned" \notin Withheld(b) THEN "list" ELSE "done"]
<1>1. /\ reads[b] \in Prices /\ reads[b].pc = "assignment" /\ reads \in [Readers -> Prices]
      /\ reads' = [reads EXCEPT ![b] = new] /\ UNCHANGED <<db, tx>>
  BY ReadFacts DEF ReadAssignment, GoOn, Read, Inv, TypeOK
<1>2. /\ new.discount = reads[b].discount /\ new.offer = reads[b].offer
      /\ new.quiet = reads[b].quiet /\ new.list = list
      /\ new.pc = IF "unassigned" \notin Withheld(b) THEN "list" ELSE "done"
  BY <1>1 DEF Prices
<1>3. QuietRead(b, reads[b])
  BY DEF TermsOK, QuietOK
<1>4. reads'[b] = new
  BY <1>1
<1> HIDE DEF new
<1>5. QuietRead(b, new) /\ Exact(b, new)
  <2>1. CASE "unassigned" \in Withheld(b)
    BY <1>1, <1>2, <1>3, <2>1, Refused DEF QuietRead
  <2>2. CASE "unassigned" \notin Withheld(b)
    BY <1>1, <1>2, <1>3, <2>2 DEF QuietRead, Exact, Passed, Reasons
  <2> QED
    BY <2>1, <2>2
<1> QED
  BY <1>1, <1>4, <1>5, LookTerms

\* The assignment that an undisturbed read found, and its list.
LEMMA QuietList ==
  ASSUME Inv, TermsOK, NEW b \in Readers, reads[b].pc \in {"list", "item"}, reads[b].quiet
  PROVE  /\ Withheld(b) = {} /\ reads[b].list = Assignment(b)["other"]
         /\ reads[b].list # NULL /\ reads[b].list \in Solid
         /\ reads[b].discount = db[customerOf[b]]["discount"]
<1>1. Withheld(b) \cap Reasons = {} /\ reads[b].list = Assignment(b)["other"]
        /\ reads[b].discount = db[customerOf[b]]["discount"]
  BY DEF TermsOK, QuietOK, QuietRead, Passed
<1>2. Withheld(b) = {}
  BY <1>1, WithheldReasons
<1>3. Assignment(b) # NoRow
  BY <1>2 DEF Withheld
<1>4. <<customerOf[b]>> \in Rows /\ kindOf[<<customerOf[b]>>] = "Assignment"
  BY DEF RowsOf, Kinds
<1>5. Assignment(b)["other"] # NULL
  BY <1>3, <1>4 DEF TermsOK, RowsShaped, Shaped, Assignment
<1> QED
  BY <1>1, <1>2, <1>3, <1>5, ReadFacts

LEMMA QuietReadList ==
  ASSUME Inv, TermsOK, NEW b \in Readers, ReadList(b)
  PROVE  TermsOK' /\ Exact(b, reads'[b])
<1> DEFINE list == reads[b].list
           go == list # NULL /\ db[list]["active"] = YES
           currency == IF list = NULL THEN NULL ELSE db[list]["data"]
           new == [[reads[b] EXCEPT !.currency = currency] EXCEPT
                     !.pc = IF go THEN "item" ELSE "done"]
<1>1. /\ reads[b] \in Prices /\ reads[b].pc = "list" /\ reads \in [Readers -> Prices]
      /\ reads' = [reads EXCEPT ![b] = new] /\ UNCHANGED <<db, tx>>
  BY ReadFacts DEF ReadList, GoOn, Read, Inv, TypeOK
<1>2. /\ new.discount = reads[b].discount /\ new.offer = reads[b].offer
      /\ new.quiet = reads[b].quiet /\ new.list = list /\ new.currency = currency
      /\ new.pc = IF go THEN "item" ELSE "done"
  BY <1>1 DEF Prices
<1>3. reads[b].offer = NULL
  BY <1>1 DEF TermsOK, QuietOK, QuietRead
<1>4. reads'[b] = new
  BY <1>1
<1> HIDE DEF new
<1>5. reads[b].quiet => /\ Withheld(b) = {} /\ list = Assignment(b)["other"] /\ list # NULL
                        /\ reads[b].discount = db[customerOf[b]]["discount"]
  BY <1>1, QuietList
<1>6. CASE go
  <2>1. new.pc = "item" /\ currency = db[list]["data"] /\ db[list]["active"] = YES
    BY <1>2, <1>6
  <2>2. QuietRead(b, new) /\ Exact(b, new)
    <3> HIDE DEF list, currency
    <3> QED
      BY <1>2, <1>3, <1>5, <2>1 DEF QuietRead, Exact, Passed
  <2> QED
    BY <1>1, <1>4, <2>2, LookTerms
<1>7. CASE ~go
  <2>1. new.pc = "done" /\ new.offer = NULL
    BY <1>2, <1>3, <1>7
  <2>2. new.quiet => db[Assignment(b)["other"]]["active"] # YES
    BY <1>2, <1>5, <1>7
  <2>3. new.quiet => Quote(b) = {}
    BY <2>2 DEF Quote
  <2>4. QuietRead(b, new) /\ Exact(b, new)
    BY <2>1, <2>3 DEF QuietRead, Exact
  <2> QED
    BY <1>1, <1>4, <2>4, LookTerms
<1> QED
  BY <1>6, <1>7

\* A list has one price for a unit: the one whose key they are.
LEMMA OnePrice ==
  ASSUME Inv, TermsOK, NEW b \in Readers, NEW list \in Solid, list # NULL,
         NEW i \in RowsOf["PriceListItem"], db[i] # NoRow
  PROVE  /\ i \in Priced(list, unitOf[b]) <=>
              db[i]["parent"] = list /\ db[i]["other"] = unitOf[b]
         /\ \A j \in Priced(list, unitOf[b]) : i \in Priced(list, unitOf[b]) => i = j
<1>1. ASSUME NEW j \in RowsOf["PriceListItem"], db[j] # NoRow
      PROVE  /\ j \in Rows /\ kindOf[j] = "PriceListItem"
             /\ db[j]["key"] = <<db[j]["parent"], db[j]["other"]>>
  BY <1>1 DEF RowsOf, Kinds, TermsOK, RowsShaped, Shaped
<1>2. ASSUME NEW j \in RowsOf["PriceListItem"], db[j] # NoRow
      PROVE  j \in Priced(list, unitOf[b]) <=>
               db[j]["parent"] = list /\ db[j]["other"] = unitOf[b]
  BY <1>1, <1>2 DEF Priced
<1>3. ASSUME NEW j \in Priced(list, unitOf[b]), i \in Priced(list, unitOf[b]), i # j
      PROVE  FALSE
  <2>1. j \in RowsOf["PriceListItem"] /\ db[j] # NoRow
    BY DEF Priced
  <2>2. /\ db[i]["parent"] = list /\ db[j]["parent"] = list
        /\ db[i]["key"] = <<list, unitOf[b]>> /\ db[j]["key"] = <<list, unitOf[b]>>
    BY <1>2, <1>3, <2>1 DEF Priced
  <2>3. /\ db[i]["tenant"] = db[list]["tenant"] /\ db[j]["tenant"] = db[list]["tenant"]
    BY <1>1, <2>1, <2>2 DEF Inv, RefsWithin, References
  <2>4. <<list, unitOf[b]>> # NULL
    <3>1. <<list, unitOf[b]>> \in Rows \X Rows
      BY SolidRows
    <3> QED
      BY <3>1
  <2>5. Clash(i, db[i], j, db[j])
    BY <1>1, <2>1, <2>2, <2>3, <2>4 DEF Clash
  <2> QED
    BY <1>1, <1>3, <2>1, <2>5 DEF TermsOK, KeysOK
<1> QED
  BY <1>2, <1>3

LEMMA QuietItem ==
  ASSUME Inv, TermsOK, NEW b \in Readers, ReadItem(b)
  PROVE  TermsOK' /\ Exact(b, reads'[b])
<1> DEFINE list == reads[b].list
           priced == Priced(list, unitOf[b])
           price == db[CHOOSE r \in priced : TRUE]["data"]
           offer == IF priced = {} THEN NULL
                    ELSE Offer(price, reads[b].discount, reads[b].currency)
           new == [[reads[b] EXCEPT !.offer = offer] EXCEPT
                     !.pc = IF priced # {} THEN "done" ELSE "done"]
<1>1. /\ reads[b] \in Prices /\ reads[b].pc = "item" /\ reads \in [Readers -> Prices]
      /\ reads' = [reads EXCEPT ![b] = new] /\ UNCHANGED <<db, tx>>
  BY ReadFacts DEF ReadItem, GoOn, Read, Inv, TypeOK
<1>2. new.offer = offer /\ new.quiet = reads[b].quiet /\ new.pc = "done"
  BY <1>1 DEF Prices
<1>3. reads'[b] = new
  BY <1>1
<1> HIDE DEF new, offer, price
<1>4. ASSUME reads[b].quiet PROVE Quote(b) = {offer} \ {NULL}
  <2> DEFINE prices == {i \in RowsOf["PriceListItem"] :
                          /\ db[i] # NoRow
                          /\ db[i]["parent"] = Assignment(b)["other"]
                          /\ db[i]["other"] = unitOf[b]}
             made(i) == Offer(db[i]["data"], db[customerOf[b]]["discount"],
                              db[Assignment(b)["other"]]["data"])
  <2>1. /\ Withheld(b) = {} /\ list = Assignment(b)["other"] /\ list # NULL /\ list \in Solid
        /\ reads[b].discount = db[customerOf[b]]["discount"]
    BY <1>1, <1>4, QuietList
  <2>2. reads[b].currency = db[list]["data"] /\ db[list]["active"] = YES
    BY <1>1, <1>4 DEF TermsOK, QuietOK, QuietRead
  <2>3. prices = priced
    <3>1. \A i \in priced : i \in RowsOf["PriceListItem"] /\ db[i] # NoRow
      BY DEF Priced
    <3> QED
      BY <2>1, <3>1, OnePrice
  <2>4. Quote(b) = {made(i) : i \in priced}
    <3>1. Quote(b) = {made(i) : i \in {i \in prices : db[Assignment(b)["other"]]["active"] = YES}}
      BY <2>1 DEF Quote
    <3>2. {i \in prices : db[Assignment(b)["other"]]["active"] = YES} = priced
      BY <2>1, <2>2, <2>3
    <3> HIDE DEF prices, made, priced
    <3> QED
      BY <3>1, <3>2
  <2>5. CASE priced = {}
    BY <2>4, <2>5 DEF offer
  <2>6. CASE priced # {}
    <3>1. PICK r \in priced : r = CHOOSE q \in priced : TRUE
      BY <2>6, ChooseIn
    <3>2. /\ r \in RowsOf["PriceListItem"] /\ db[r] # NoRow
      BY <3>1 DEF Priced
    <3>3. \A i \in priced : i = r
      BY <2>1, <3>1, <3>2, OnePrice
    <3>4. priced = {r}
      BY <3>1, <3>3
    <3>5. offer = made(r)
      BY <2>1, <2>2, <2>6, <3>1 DEF offer, price
    <3>6. offer # NULL
      <4>1. r \in Rows
        BY <3>2, SolidRows DEF Kinds
      <4>2. db[r] \in Row
        BY <3>2, <4>1 DEF Inv, TypeOK, RowOrNone
      <4>3. db[r]["data"] \in Content
        BY <4>2 DEF Row, Columns
      <4>4. offer = Offer(db[r]["data"], reads[b].discount, reads[b].currency)
        BY <2>6, <3>1 DEF offer, price
      <4>5. offer \in Offers
        BY <1>1, <4>3, <4>4 DEF Offer, Offers, Prices
      <4> QED
        BY <4>5
    <3> HIDE DEF priced, made
    <3> QED
      BY <2>4, <3>4, <3>5, <3>6
  <2> QED
    BY <2>5, <2>6
<1>5. QuietRead(b, new) /\ Exact(b, new)
  BY <1>2, <1>4 DEF QuietRead, Exact
<1> QED
  BY <1>1, <1>3, <1>5, LookTerms

LEMMA LookExact ==
  ASSUME Inv, TermsOK, NEW b \in Readers, Look(b)
  PROVE  TermsOK' /\ Exact(b, reads'[b])
<1>1. CASE ReadUnit(b) \/ ReadProduct(b) \/ ReadVisibility(b)
  BY <1>1, QuietNext DEF ReadUnit, ReadProduct, ReadVisibility, Reasons
<1> QED
  BY <1>1, QuietCustomer, QuietAssignment, QuietReadList, QuietItem DEF Look

LEMMA InitTerms == Init => TermsOK
<1> SUFFICES ASSUME Init PROVE TermsOK
  OBVIOUS
<1>1. /\ db = Seed /\ tx = [c \in Callers |-> Idle] /\ reads = [b \in Readers |-> NoRead]
  BY DEF Init
<1>2. /\ Idle.wrote = {} /\ NoRead.pc = "idle" /\ NoRead.offer = NULL
  BY DEF Idle, NoRead
<1>3. \A r, s \in Rows : r # s => ~Clash(r, Seed[r], s, Seed[s])
  BY DEF KeysUnique, Clash
<1>4. \A c \in Callers, r \in Rows : View(c, r) = Seed[r]
  BY <1>1, <1>2 DEF View, Drafted
<1>5. KeysOK
  BY <1>1, <1>2, <1>3, <1>4 DEF KeysOK
<1>6. RowsShaped
  BY <1>1, <1>2 DEF RowsShaped
<1>7. \A b \in Readers : QuietOK(b)
  BY <1>1, <1>2 DEF QuietOK, QuietRead
<1> QED
  BY <1>5, <1>6, <1>7 DEF TermsOK

LEMMA NextTerms == Inv /\ TermsOK /\ [Next]_vars => TermsOK'
<1> SUFFICES ASSUME Inv, TermsOK, [Next]_vars PROVE TermsOK'
  OBVIOUS
<1>1. CASE UNCHANGED vars
  BY <1>1, SameTerms DEF vars
<1> QED
  BY <1>1, StepTerms, QuietStart, LookExact DEF Next, Rest

LEMMA TermsHold == Spec => [](Inv /\ TermsOK)
<1>1. Init => Inv /\ TermsOK
  BY InitInv, InitTerms
<1>2. Inv /\ TermsOK /\ [Next]_vars => (Inv /\ TermsOK)'
  BY NextInv, NextTerms
<1> QED
  BY <1>1, <1>2, PTL DEF Spec

LEMMA LookKeepsQuiet ==
  ASSUME Inv, NEW b \in Readers, Look(b)
  PROVE  reads'[b].quiet = reads[b].quiet /\ reads'[b].pc # "idle"
<1>1. reads[b] \in Prices /\ reads \in [Readers -> Prices]
  BY DEF Inv, TypeOK
<1>2. CASE ReadCustomer(b)
  BY <1>1, <1>2 DEF ReadCustomer, GoOn, Read, Prices
<1>3. CASE ReadUnit(b)
  BY <1>1, <1>3 DEF ReadUnit, GoOn, Read, Prices
<1>4. CASE ReadProduct(b)
  BY <1>1, <1>4 DEF ReadProduct, GoOn, Read, Prices
<1>5. CASE ReadVisibility(b)
  BY <1>1, <1>5 DEF ReadVisibility, GoOn, Read, Prices
<1>6. CASE ReadAssignment(b)
  BY <1>1, <1>6 DEF ReadAssignment, GoOn, Read, Prices
<1>7. CASE ReadList(b)
  BY <1>1, <1>7 DEF ReadList, GoOn, Read, Prices
<1>8. CASE ReadItem(b)
  BY <1>1, <1>8 DEF ReadItem, GoOn, Read, Prices
<1> QED
  BY <1>2, <1>3, <1>4, <1>5, <1>6, <1>7, <1>8 DEF Look

LEMMA QuietEnds ==
  ASSUME Inv, TermsOK, [Next]_vars, NEW b \in Readers,
         Reading(b), ~Reading(b)', reads[b].quiet
  PROVE  Quote(b) = {reads'[b].offer} \ {NULL}
<1>1. Look(b)
  <2>1. ASSUME NEW c \in Callers, Request(c) PROVE reads' = reads
    BY <2>1, RequestStarts DEF StartsOK, Start
  <2>2. ASSUME NEW c \in Callers, Step(c) \/ Fail(c), ~Commit(c) PROVE reads' = reads
    BY <2>2 DEF Step, Fail, ImportRow, ReadRow, RefuseRow, WriteRow, RefuseWrite,
                BreakDeadlock, Abort
  <2>3. ASSUME NEW c \in Callers, Commit(c) PROVE Reading(b)'
    <3>1. reads'[b] = [reads[b] EXCEPT !.quiet = FALSE, !.withheld = @ \cap Withheld(b)']
      BY <2>3 DEF Commit
    <3>2. reads[b] \in Prices
      BY ReadFacts
    <3>3. reads'[b].pc = reads[b].pc
      BY <3>1, <3>2 DEF Prices
    <3> QED
      BY <3>3 DEF Reading
  <2>4. ASSUME NEW a \in Readers, a # b, listBuyerCatalog(a) \/ Look(a)
        PROVE  reads'[b] = reads[b]
    BY <2>4 DEF listBuyerCatalog, Look, ReadCustomer, ReadUnit, ReadProduct, ReadVisibility,
                ReadAssignment, ReadList, ReadItem, GoOn, Read, Inv, TypeOK
  <2>5. ~listBuyerCatalog(b)
    BY DEF listBuyerCatalog
  <2>6. ~(UNCHANGED vars) /\ reads'[b] # reads[b]
    BY DEF vars, Reading
  <2> QED
    BY <2>1, <2>2, <2>3, <2>4, <2>5, <2>6 DEF Next, Rest
<1>2. Exact(b, reads'[b])
  BY <1>1, LookExact
<1>3. reads'[b].quiet = reads[b].quiet /\ reads'[b].pc # "idle"
  BY <1>1, LookKeepsQuiet
<1>4. reads'[b].pc \in {"idle", "done"}
  BY DEF Reading
<1> QED
  BY <1>2, <1>3, <1>4 DEF Exact

\* The six reads of a price ask for what the rules of the price ask for: when
\* nobody writes meanwhile, the buyer is offered the one price of his list for
\* the unit, with his discount, or nothing if something withholds it.
THEOREM QuietOffers == Spec => QuietOfferExact
<1>1. Inv /\ TermsOK /\ [Next]_vars =>
        [\A b \in Readers :
           Reading(b) /\ ~Reading(b)' /\ reads[b].quiet =>
             Quote(b) = {reads'[b].offer} \ {NULL}]_vars
  BY QuietEnds
<1> QED
  BY <1>1, TermsHold, PTL DEF Spec, QuietOfferExact

-----------------------------------------------------------------------------
(* Imports while nobody else commits: what the rows of the file so far have *)
(* come to, and the row that is being written.                              *)

\* The columns that an import of f leaves alone.
Spared(f) == Optional(f.kind) \ f.present

CellsOf(c, f, i) == Resolved(c, f.rows[i], f.kind)
Ready(c, f, i) == Accepted(f, i) /\ ReferencesFound(c, f.rows[i], f.kind)

\* r has the key of row i of the file, and what the file says of it, but for
\* its discount.
About(c, f, i, r) ==
  kindOf[r] = f.kind /\ Sees(c, r) /\ View(c, r)["key"] = CellsOf(c, f, i)["key"]
Says(c, f, i, r) ==
  \A x \in Compared(f.kind) \ (Optional(f.kind) \ f.present) :
    View(c, r)[x] = CellsOf(c, f, i)[x]

\* The driver would plan nothing, or an error, for row i.
Settled(c, f, i) ==
  Ready(c, f, i) =>
    \E r \in Rows :
      /\ About(c, f, i, r)
      /\ \/ f.kind = "ProductUnit" /\ View(c, r)["parent"] # CellsOf(c, f, i)["parent"]
         \/ /\ Says(c, f, i, r)
            /\ "discount" \in f.present =>
                 View(c, r)["discount"] = CellsOf(c, f, i)["discount"]

\* What is left to do of row i.
UnderWay(c, f, i, todo) ==
  /\ i \in DOMAIN f.rows /\ Ready(c, f, i)
  /\ \E r \in Rows :
       \/ /\ kindOf[r] = f.kind /\ View(c, r) = NoRow
          /\ todo = executeCreate(f, CellsOf(c, f, i), r)
       \/ /\ About(c, f, i, r)
          /\ todo = executeUpdate(f, CellsOf(c, f, i), r, View(c, r))
       \/ /\ About(c, f, i, r) /\ Says(c, f, i, r)
          /\ todo = Discount(f, CellsOf(c, f, i), r)

FileOK(c, f) ==
  LET n == Len(tx[c].plan)
  IN  /\ n <= Len(f.rows)
      /\ \A r \in tx[c].wrote : db[r] # NoRow =>
           /\ tx[c].draft[r] # NoRow
           /\ \A x \in Spared(f) : tx[c].draft[r][x] = db[r][x]
      /\ \A i \in 1..n : i < n \/ tx[c].todo = <<>> => Settled(c, f, i)
      /\ tx[c].todo # <<>> => UnderWay(c, f, n, tx[c].todo)

\* The file that c imports, as long as nobody else has committed.
Importing(c, f) == Open(c) /\ tx[c].quiet /\ tx[c].file = f /\ f # NoFile

FilesOK == \A c \in Callers, f \in Files : Importing(c, f) => FileOK(c, f)

\* The codes of a file are looked up in other tables than the one it is for.
LEMMA LookedElsewhere ==
  ASSUME NEW kind \in ImportKinds, NEW x \in DOMAIN LookedUp(kind)
  PROVE  LookedUp(kind)[x] \in Kinds /\ LookedUp(kind)[x] # kind
<1>1. DOMAIN NoRow = {}
  BY DEF NoRow
<1> QED
  BY <1>1 DEF LookedUp, ImportKinds, SolidKinds, Kinds

Any(S) == CHOOSE r \in S : TRUE

\* A row of the file resolves alike while the rows of other tables stay.
LEMMA ResolvesAlike ==
  ASSUME NEW c \in Callers, NEW kind \in ImportKinds, NEW raw,
         \A q \in Rows : kindOf[q] # kind => View(c, q)' = View(c, q)
  PROVE  /\ Resolved(c, raw, kind)' = Resolved(c, raw, kind)
         /\ ReferencesFound(c, raw, kind)' <=> ReferencesFound(c, raw, kind)
<1>1. ASSUME NEW x \in DOMAIN LookedUp(kind)
      PROVE  ByKey(c, LookedUp(kind)[x], raw[x])' = ByKey(c, LookedUp(kind)[x], raw[x])
  <2>1. PICK table : table = LookedUp(kind)[x] /\ table \in Kinds /\ table # kind
    BY LookedElsewhere
  <2>2. \A q \in RowsOf[table] : q \in Rows /\ View(c, q)' = View(c, q)
    BY <2>1 DEF RowsOf
  <2>3. \A q \in RowsOf[table] : Sees(c, q)' <=> Sees(c, q)
    BY <2>2 DEF Sees
  <2>4. {q \in RowsOf[table] : Sees(c, q)' /\ View(c, q)'["key"] = raw[x]}
          = {q \in RowsOf[table] : Sees(c, q) /\ View(c, q)["key"] = raw[x]}
    BY <2>2, <2>3
  <2> QED
    BY <2>1, <2>4 DEF ByKey
<1>2. ReferencesFound(c, raw, kind)' <=> ReferencesFound(c, raw, kind)
  BY <1>1 DEF ReferencesFound
<1>3. kind = "PriceListItem" => {"parent", "other"} \subseteq DOMAIN LookedUp(kind)
  BY DEF LookedUp
<1> DEFINE found(x) == Any(ByKey(c, LookedUp(kind)[x], raw[x]))
<1>4. \A x \in DOMAIN LookedUp(kind) : found(x)' = found(x)
  BY <1>1
<1>5. Resolved(c, raw, kind)'
        = [x \in Columns |->
             IF x \in DOMAIN LookedUp(kind) THEN found(x)'
             ELSE IF x = "key" /\ kind = "PriceListItem"
                  THEN <<found("parent")', found("other")'>> ELSE raw[x]]
  BY DEF Resolved, Any
<1>6. Resolved(c, raw, kind)
        = [x \in Columns |->
             IF x \in DOMAIN LookedUp(kind) THEN found(x)
             ELSE IF x = "key" /\ kind = "PriceListItem"
                  THEN <<found("parent"), found("other")>> ELSE raw[x]]
  BY DEF Resolved, Any
<1> HIDE DEF found
<1>7. Resolved(c, raw, kind)' = Resolved(c, raw, kind)
  BY <1>3, <1>4, <1>5, <1>6
<1> QED
  BY <1>2, <1>7

\* The same for the operators on row i of a file.
LEMMA CellsAlike ==
  ASSUME NEW c \in Callers, NEW f \in Files, NEW i \in DOMAIN f.rows,
         \A q \in Rows : kindOf[q] # f.kind => View(c, q)' = View(c, q)
  PROVE  /\ CellsOf(c, f, i)' = CellsOf(c, f, i)
         /\ Ready(c, f, i)' <=> Ready(c, f, i)
         /\ \A r \in Rows : View(c, r)' = View(c, r) =>
              /\ About(c, f, i, r)' <=> About(c, f, i, r)
              /\ Says(c, f, i, r)' <=> Says(c, f, i, r)
<1>1. PICK raw : raw = f.rows[i]
  OBVIOUS
<1>2. f.kind \in ImportKinds
  OBVIOUS
<1>3. CellsOf(c, f, i)' = CellsOf(c, f, i)
  BY <1>1, <1>2, ResolvesAlike DEF CellsOf
<1>4. Ready(c, f, i)' <=> Ready(c, f, i)
  BY <1>1, <1>2, ResolvesAlike DEF Ready
<1>5. ASSUME NEW r \in Rows, View(c, r)' = View(c, r)
      PROVE  /\ About(c, f, i, r)' <=> About(c, f, i, r)
             /\ Says(c, f, i, r)' <=> Says(c, f, i, r)
  BY <1>3, <1>5 DEF About, Says, Sees
<1> QED
  BY <1>3, <1>4, <1>5

\* What has been settled stays so while its row does.
LEMMA SettledAlike ==
  ASSUME NEW c \in Callers, NEW f \in Files, NEW i \in DOMAIN f.rows,
         \A q \in Rows : kindOf[q] # f.kind => View(c, q)' = View(c, q),
         \A r \in Rows : About(c, f, i, r) => View(c, r)' = View(c, r),
         Settled(c, f, i)
  PROVE  Settled(c, f, i)'
<1>1. /\ CellsOf(c, f, i)' = CellsOf(c, f, i)
      /\ Ready(c, f, i)' <=> Ready(c, f, i)
      /\ \A r \in Rows : View(c, r)' = View(c, r) =>
           /\ About(c, f, i, r)' <=> About(c, f, i, r)
           /\ Says(c, f, i, r)' <=> Says(c, f, i, r)
  BY CellsAlike
<1>2. CASE ~Ready(c, f, i)
  BY <1>1, <1>2 DEF Settled
<1>3. CASE Ready(c, f, i)
  <2>1. PICK r \in Rows :
          /\ About(c, f, i, r)
          /\ \/ f.kind = "ProductUnit" /\ View(c, r)["parent"] # CellsOf(c, f, i)["parent"]
             \/ /\ Says(c, f, i, r)
                /\ "discount" \in f.present =>
                     View(c, r)["discount"] = CellsOf(c, f, i)["discount"]
    BY <1>3 DEF Settled
  <2>2. View(c, r)' = View(c, r)
    BY <2>1
  <2>3. /\ About(c, f, i, r)'
        /\ \/ f.kind = "ProductUnit" /\ View(c, r)'["parent"] # CellsOf(c, f, i)'["parent"]
           \/ /\ Says(c, f, i, r)'
              /\ "discount" \in f.present =>
                   View(c, r)'["discount"] = CellsOf(c, f, i)'["discount"]
    BY <1>1, <2>1, <2>2
  <2> QED
    BY <2>3 DEF Settled
<1> QED
  BY <1>2, <1>3

\* Nothing is seen differently: the row that is being written goes on.
LEMMA UnderWayAlike ==
  ASSUME NEW c \in Callers, NEW f \in Files, NEW i, NEW todo,
         \A q \in Rows : View(c, q)' = View(c, q),
         UnderWay(c, f, i, todo)
  PROVE  UnderWay(c, f, i, todo)'
<1>1. i \in DOMAIN f.rows /\ Ready(c, f, i)
  BY DEF UnderWay
<1>2. /\ CellsOf(c, f, i)' = CellsOf(c, f, i)
      /\ Ready(c, f, i)' <=> Ready(c, f, i)
      /\ \A r \in Rows : /\ About(c, f, i, r)' <=> About(c, f, i, r)
                         /\ Says(c, f, i, r)' <=> Says(c, f, i, r)
  BY <1>1, CellsAlike
<1>3. PICK r \in Rows :
        \/ /\ kindOf[r] = f.kind /\ View(c, r) = NoRow
           /\ todo = executeCreate(f, CellsOf(c, f, i), r)
        \/ /\ About(c, f, i, r)
           /\ todo = executeUpdate(f, CellsOf(c, f, i), r, View(c, r))
        \/ /\ About(c, f, i, r) /\ Says(c, f, i, r)
           /\ todo = Discount(f, CellsOf(c, f, i), r)
  BY DEF UnderWay
<1>4. \/ /\ kindOf[r] = f.kind /\ View(c, r)' = NoRow
         /\ todo = executeCreate(f, CellsOf(c, f, i)', r)
      \/ /\ About(c, f, i, r)'
         /\ todo = executeUpdate(f, CellsOf(c, f, i)', r, View(c, r)')
      \/ /\ About(c, f, i, r)' /\ Says(c, f, i, r)'
         /\ todo = Discount(f, CellsOf(c, f, i)', r)
  BY <1>2, <1>3
<1> QED
  BY <1>1, <1>2, <1>4 DEF UnderWay, executeCreate, executeUpdate, Discount, Saves, updateData

\* Two rows of a file that are both accepted are about different rows.
LEMMA AboutDistinct ==
  ASSUME NEW c \in Callers, NEW f \in Files, NEW i \in DOMAIN f.rows, NEW j \in DOMAIN f.rows,
         i # j, Ready(c, f, i), Ready(c, f, j), NEW r \in Rows, About(c, f, i, r)
  PROVE  ~About(c, f, j, r)
<1> DEFINE a == f.rows[i]
           b == f.rows[j]
           found(raw, x) == CHOOSE q \in ByKey(c, LookedUp(f.kind)[x], raw[x]) : TRUE
<1>1. SUFFICES ASSUME CellsOf(c, f, i)["key"] = CellsOf(c, f, j)["key"] PROVE FALSE
  BY DEF About
<1>2. a # NULL /\ b # NULL /\ a["key"] # b["key"] /\ a \in Row /\ b \in Row
  BY DEF Ready, Accepted, Repeated
<1>3. CASE f.kind # "PriceListItem"
  <2>1. "key" \notin DOMAIN LookedUp(f.kind)
    BY LookUps DEF References
  <2>2. CellsOf(c, f, i)["key"] = a["key"] /\ CellsOf(c, f, j)["key"] = b["key"]
    BY <1>3, <2>1 DEF CellsOf, Resolved, Columns
  <2> QED
    BY <1>1, <1>2, <2>2
<1>4. CASE f.kind = "PriceListItem"
  <2>1. DOMAIN LookedUp(f.kind) = References /\ "key" \notin References
    BY <1>4 DEF LookedUp, References
  <2>2. ASSUME NEW raw, ReferencesFound(c, raw, f.kind), NEW x \in References
        PROVE  View(c, found(raw, x))["key"] = raw[x]
    <3>1. found(raw, x) \in ByKey(c, LookedUp(f.kind)[x], raw[x])
      BY <2>1, <2>2, ChooseIn DEF ReferencesFound
    <3> HIDE DEF found
    <3> QED
      BY <3>1 DEF ByKey
  <2>3. /\ CellsOf(c, f, i)["key"] = <<found(a, "parent"), found(a, "other")>>
        /\ CellsOf(c, f, j)["key"] = <<found(b, "parent"), found(b, "other")>>
    BY <1>4, <2>1 DEF CellsOf, Resolved, Columns
  <2> HIDE DEF found
  <2>4. found(a, "parent") = found(b, "parent") /\ found(a, "other") = found(b, "other")
    <3>1. <<found(a, "parent"), found(a, "other")>> = <<found(b, "parent"), found(b, "other")>>
      BY <1>1, <2>3
    <3> QED
      BY <3>1
  <2>5. a["parent"] = b["parent"] /\ a["other"] = b["other"]
    BY <2>2, <2>4 DEF Ready, References
  <2>6. Keyed(f)
    BY KeyAssumption
  <2> QED
    BY <1>2, <1>4, <2>5, <2>6 DEF Keyed, References
<1> QED
  BY <1>3, <1>4

\* A transaction that has todo to do first writes columns to r, then does rest.
Runs(todo, verb, r, columns, rest) ==
  /\ todo # <<>> /\ Head(todo).verb = verb /\ Head(todo).row = r
  /\ \A x \in Columns :
       Head(todo).sets[x] = IF x \in DOMAIN columns THEN columns[x] ELSE SAME
  /\ Tail(todo) = rest

LEMMA FirstOf ==
  ASSUME NEW op, NEW rest \in Seq(Operations)
  PROVE  <<op>> \o rest # <<>> /\ Head(<<op>> \o rest) = op /\ Tail(<<op>> \o rest) = rest
<1> DEFINE S == {op} \cup Operations
           todo == <<op>> \o rest
           tail == Tail(todo)
<1>1. <<op>> \in Seq(S) /\ rest \in Seq(S)
  BY SeqMonotonic
<1>2. /\ todo \in Seq(S) /\ Len(rest) \in Nat /\ Len(todo) = Len(rest) + 1
      /\ todo[1] = op /\ \A i \in 1..Len(rest) : todo[i + 1] = rest[i]
  BY <1>1
<1> HIDE DEF S, todo
<1>3. todo # <<>>
  BY <1>2
<1>4. /\ tail \in Seq(S) /\ Len(tail) = Len(todo) - 1
      /\ \A i \in 1..Len(tail) : tail[i] = todo[i + 1]
      /\ Head(todo) = todo[1]
  BY <1>2, <1>3, HeadTailProperties
<1> HIDE DEF tail
<1>5. Len(tail) = Len(rest) /\ \A i \in 1..Len(rest) : tail[i] = rest[i]
  BY <1>2, <1>4
<1>6. tail = rest
  BY <1>1, <1>4, <1>5, SeqEqual
<1> QED
  BY <1>2, <1>3, <1>4, <1>6 DEF todo, tail

LEMMA RunsFirst ==
  ASSUME NEW verb, NEW kind, NEW r, NEW columns, NEW refs, NEW rest \in Seq(Operations)
  PROVE  Runs(<<Operation(verb, kind, r, columns, refs)>> \o rest, verb, r, columns, rest)
<1>1. PICK op : op = Operation(verb, kind, r, columns, refs)
  OBVIOUS
<1>2. <<op>> \o rest # <<>> /\ Head(<<op>> \o rest) = op /\ Tail(<<op>> \o rest) = rest
  BY FirstOf
<1>3. /\ op.verb = verb /\ op.row = r
      /\ \A x \in Columns : op.sets[x] = IF x \in DOMAIN columns THEN columns[x] ELSE SAME
  BY <1>1 DEF Operation
<1> QED
  BY <1>1, <1>2, <1>3 DEF Runs

\* What the operations of a file's row write.
CreatedColumns(kind) == Compared(kind) \cup {"key"} \cup DOMAIN LookedUp(kind)

LEMMA CreateRuns ==
  ASSUME NEW f \in Files, NEW cells, CellsOK(cells, f.kind), NEW r \in Rows,
         kindOf[r] = f.kind
  PROVE  Runs(executeCreate(f, cells, r), "create", r,
              [x \in CreatedColumns(f.kind) |-> cells[x]], Discount(f, cells, r))
<1>1. Discount(f, cells, r) \in Seq(Operations)
  BY DiscountOK DEF TodoOK, CellsOK
<1> QED
  BY <1>1, RunsFirst DEF executeCreate, CreatedColumns

LEMMA UpdateRuns ==
  ASSUME NEW f \in Files, NEW cells, CellsOK(cells, f.kind), NEW r \in Rows,
         kindOf[r] = f.kind, NEW row
  PROVE  Runs(executeUpdate(f, cells, r, row), "update", r,
              Saves(f, cells, row), Discount(f, cells, r))
<1>1. Discount(f, cells, r) \in Seq(Operations)
  BY DiscountOK DEF TodoOK, CellsOK
<1> QED
  BY <1>1, RunsFirst DEF executeUpdate

LEMMA DiscountRuns ==
  ASSUME NEW f \in Files, NEW cells, NEW r, "discount" \in f.present
  PROVE  Runs(Discount(f, cells, r), "update", r, [discount |-> cells["discount"]], <<>>)
<1>1. PICK op : op = Operation("update", "Customer", r, [discount |-> cells["discount"]], {})
  OBVIOUS
<1>2. Discount(f, cells, r) = <<op>>
  BY <1>1 DEF Discount
<1>3. <<op>> # <<>> /\ Head(<<op>>) = op /\ Tail(<<op>>) = <<>>
  OBVIOUS
<1>4. DOMAIN [discount |-> cells["discount"]] = {"discount"}
  OBVIOUS
<1>5. /\ op.verb = "update" /\ op.row = r
      /\ \A x \in Columns :
           op.sets[x] = IF x \in DOMAIN [discount |-> cells["discount"]]
                        THEN [discount |-> cells["discount"]][x] ELSE SAME
  BY <1>1 DEF Operation
<1> QED
  BY <1>2, <1>3, <1>5 DEF Runs

\* The row is old with some columns written.
Onto(columns, old, row) ==
  row = [x \in Columns |->
           IF x \notin DOMAIN columns \/ columns[x] = SAME THEN old[x] ELSE columns[x]]

LEMMA WrittenColumns ==
  ASSUME Inv, NEW c \in Callers, tx[c].pc = "write",
         NEW verb \in {"create", "update"}, NEW r \in Rows, NEW columns, NEW rest,
         Runs(tx[c].todo, verb, r, columns, rest),
         NEW old, old = IF View(c, r) # NoRow THEN View(c, r)
                        ELSE [Blank EXCEPT !["tenant"] = tenantOf[c]]
  PROVE  Op(c).row = r /\ Onto(columns, old, Written(c))
<1>1. Op(c).verb = verb /\ Op(c).row = r
  BY DEF Runs, Op
<1>2. \A x \in Columns :
        Op(c).sets[x] = IF x \in DOMAIN columns THEN columns[x] ELSE SAME
  BY DEF Runs, Op
<1>3. Written(c) = Merge(Op(c).sets, old)
  BY <1>1 DEF Written
<1> QED
  BY <1>1, <1>2, <1>3 DEF Merge, Onto

\* The row has what the file says of it, and is else as it was.
Fulfils(c, f, cells, r, row) ==
  /\ row # NoRow /\ row["tenant"] = tenantOf[c] /\ row["key"] = cells["key"]
  /\ \A x \in Compared(f.kind) \ (Optional(f.kind) \ f.present) : row[x] = cells[x]
  /\ View(c, r) # NoRow => \A x \in Spared(f) : row[x] = View(c, r)[x]

\* The next statement does that, and leaves rest.
Writes(c, f, cells, r, rest) ==
  Op(c).row = r /\ Tail(tx[c].todo) = rest /\ Fulfils(c, f, cells, r, Written(c))

LEMMA ColumnsApart ==
  ASSUME NEW f \in Files
  PROVE  /\ Compared(f.kind) \subseteq Columns \ {"tenant", "key", "discount"}
         /\ Spared(f) \subseteq Columns \ {"tenant", "key"} /\ Spared(f) \subseteq Optional(f.kind) \ f.present
         /\ f.kind = "Product" => "extra" \notin Spared(f) \cup Compared(f.kind)
         /\ Compared(f.kind) \subseteq Saved(f.kind)
         /\ \A x \in Saved(f.kind) \ Compared(f.kind) :
              x = "key" \/ (f.kind = "Product" /\ x = "extra")
         /\ DOMAIN LookedUp(f.kind) \subseteq References
<1>1. f.kind \in ImportKinds
  OBVIOUS
<1> QED
  BY <1>1, LookUps DEF Compared, Saved, Spared, Columns, Optional

LEMMA CreateWrites ==
  ASSUME Inv, NEW c \in Callers, tx[c].pc = "write", NEW f \in Files,
         NEW cells, CellsOK(cells, f.kind), NEW r \in Rows, kindOf[r] = f.kind,
         tx[c].todo = executeCreate(f, cells, r), View(c, r) = NoRow
  PROVE  Writes(c, f, cells, r, Discount(f, cells, r))
<1>0. PICK old : old = [Blank EXCEPT !["tenant"] = tenantOf[c]]
  OBVIOUS
<1> DEFINE columns == [x \in CreatedColumns(f.kind) |-> cells[x]]
           row == Written(c)
<1>1. Runs(tx[c].todo, "create", r, columns, Discount(f, cells, r))
  BY CreateRuns
<1>2. /\ Op(c).row = r
      /\ row = [x \in Columns |->
           IF x \notin DOMAIN columns \/ columns[x] = SAME THEN old[x] ELSE columns[x]]
  <2> HIDE DEF columns
  <2>1. old = IF View(c, r) # NoRow THEN View(c, r)
              ELSE [Blank EXCEPT !["tenant"] = tenantOf[c]]
    BY <1>0
  <2>2. "create" \in {"create", "update"}
    OBVIOUS
  <2>3. Op(c).row = r /\ Onto(columns, old, Written(c))
    BY <1>1, <2>1, <2>2, WrittenColumns
  <2> QED
    BY <2>3 DEF Onto
<1>3. \A x \in Columns : cells[x] # SAME
  BY DEF CellsOK, Row
<1>4. old["tenant"] = tenantOf[c]
  BY <1>0 DEF Blank, Columns
<1>5. /\ "key" \in CreatedColumns(f.kind) /\ "tenant" \notin CreatedColumns(f.kind)
      /\ Compared(f.kind) \subseteq CreatedColumns(f.kind)
      /\ Compared(f.kind) \subseteq Columns
  BY ColumnsApart DEF CreatedColumns, References
<1> HIDE DEF row
<1>6. \A x \in Columns : row[x] = IF x \in CreatedColumns(f.kind) THEN cells[x] ELSE old[x]
  BY <1>2, <1>3
<1>7. row # NoRow
  <2>1. DOMAIN row = Columns /\ DOMAIN NoRow = {}
    BY <1>2 DEF NoRow
  <2> QED
    BY <2>1 DEF Columns
<1>8. row["tenant"] = tenantOf[c] /\ row["key"] = cells["key"]
  BY <1>4, <1>5, <1>6 DEF Columns
<1>9. \A x \in Compared(f.kind) : row[x] = cells[x]
  BY <1>5, <1>6
<1>10. Tail(tx[c].todo) = Discount(f, cells, r)
  BY <1>1 DEF Runs
<1> QED
  BY <1>2, <1>7, <1>8, <1>9, <1>10 DEF Writes, Fulfils, row

LEMMA UpdateWrites ==
  ASSUME Inv, NEW c \in Callers, tx[c].pc = "write", NEW f \in Files,
         NEW cells, CellsOK(cells, f.kind), NEW r \in Rows, kindOf[r] = f.kind,
         Sees(c, r), View(c, r)["key"] = cells["key"],
         tx[c].todo = executeUpdate(f, cells, r, View(c, r))
  PROVE  Writes(c, f, cells, r, Discount(f, cells, r))
<1>0. PICK old : old = View(c, r)
  OBVIOUS
<1> DEFINE data == updateData(f, cells, old)
           columns == Saves(f, cells, old)
           row == Written(c)
<1>1. Runs(tx[c].todo, "update", r, columns, Discount(f, cells, r))
  BY <1>0, UpdateRuns
<1>2. /\ Op(c).row = r
      /\ row = [x \in Columns |->
           IF x \notin DOMAIN columns \/ columns[x] = SAME THEN old[x] ELSE columns[x]]
  <2> HIDE DEF columns
  <2>1. old = IF View(c, r) # NoRow THEN View(c, r)
              ELSE [Blank EXCEPT !["tenant"] = tenantOf[c]]
    BY <1>0 DEF Sees
  <2>2. "update" \in {"create", "update"}
    OBVIOUS
  <2>3. Op(c).row = r /\ Onto(columns, old, Written(c))
    BY <1>1, <2>1, <2>2, WrittenColumns
  <2> QED
    BY <2>3 DEF Onto
<1>3. (\A x \in Columns : cells[x] # SAME) /\ NULL # SAME
  BY ContentHas DEF CellsOK, Row
<1>4. old["tenant"] = tenantOf[c] /\ old["key"] = cells["key"]
  BY <1>0 DEF Sees
<1>5. /\ DOMAIN data = Compared(f.kind)
      /\ \A x \in Compared(f.kind) :
           data[x] = IF x \in Optional(f.kind) \ f.present THEN old[x] ELSE cells[x]
  BY DEF updateData
<1>13. columns = [x \in Saved(f.kind) |->
                    IF x \in Compared(f.kind) THEN data[x]
                    ELSE IF x = "key" THEN cells["key"] ELSE NULL]
  BY DEF Saves
<1> HIDE DEF data, columns
<1>6. /\ DOMAIN columns = Saved(f.kind)
      /\ \A x \in Compared(f.kind) : x \in DOMAIN columns /\ columns[x] = data[x]
      /\ "key" \in DOMAIN columns => columns["key"] = cells["key"]
  BY <1>13, ColumnsApart
<1> HIDE DEF columns, row
<1>7. row # NoRow
  <2>1. DOMAIN row = Columns /\ DOMAIN NoRow = {}
    BY <1>2 DEF NoRow
  <2> QED
    BY <2>1 DEF Columns
<1>8. "tenant" \notin DOMAIN columns /\ "tenant" \in Columns /\ "key" \in Columns
  BY <1>6, ColumnsApart DEF Columns
<1>9. row["tenant"] = tenantOf[c] /\ row["key"] = cells["key"]
  BY <1>2, <1>4, <1>6, <1>8
<1>10. ASSUME NEW x \in Compared(f.kind) \ (Optional(f.kind) \ f.present) PROVE row[x] = cells[x]
  BY <1>2, <1>3, <1>5, <1>6, ColumnsApart
<1>11. ASSUME NEW x \in Spared(f) PROVE row[x] = old[x]
  <2>1. x \in Columns /\ x \in Optional(f.kind) \ f.present
    BY ColumnsApart
  <2>2. CASE x \in Compared(f.kind)
    BY <1>2, <1>5, <1>6, <2>1, <2>2
  <2>3. CASE x \notin Compared(f.kind)
    <3>1. x # "key" /\ (f.kind = "Product" => x # "extra")
      BY ColumnsApart
    <3>2. x \notin Saved(f.kind)
      BY <2>3, <3>1, ColumnsApart
    <3> QED
      BY <1>2, <1>6, <2>1, <3>2
  <2> QED
    BY <2>2, <2>3
<1>12. Tail(tx[c].todo) = Discount(f, cells, r)
  BY <1>1 DEF Runs
<1> QED
  BY <1>0, <1>2, <1>7, <1>9, <1>10, <1>11, <1>12 DEF Writes, Fulfils, row

LEMMA DiscountWrites ==
  ASSUME Inv, NEW c \in Callers, tx[c].pc = "write", tx[c].todo # <<>>, NEW f \in Files,
         NEW cells, CellsOK(cells, f.kind), NEW r \in Rows, kindOf[r] = f.kind,
         Sees(c, r), View(c, r)["key"] = cells["key"],
         \A x \in Compared(f.kind) \ (Optional(f.kind) \ f.present) : View(c, r)[x] = cells[x],
         tx[c].todo = Discount(f, cells, r)
  PROVE  Writes(c, f, cells, r, <<>>) /\ Written(c)["discount"] = cells["discount"]
<1>0. PICK old, columns : old = View(c, r) /\ columns = [discount |-> cells["discount"]]
  OBVIOUS
<1> DEFINE row == Written(c)
<1>1. "discount" \in f.present
  BY DEF Discount
<1>2. Runs(tx[c].todo, "update", r, columns, <<>>)
  BY <1>0, <1>1, DiscountRuns
<1>3. /\ Op(c).row = r
      /\ row = [x \in Columns |->
           IF x \notin DOMAIN columns \/ columns[x] = SAME THEN old[x] ELSE columns[x]]
  <2>1. old = IF View(c, r) # NoRow THEN View(c, r)
              ELSE [Blank EXCEPT !["tenant"] = tenantOf[c]]
    BY <1>0 DEF Sees
  <2>2. "update" \in {"create", "update"}
    OBVIOUS
  <2>3. Op(c).row = r /\ Onto(columns, old, Written(c))
    BY <1>2, <2>1, <2>2, WrittenColumns
  <2> QED
    BY <2>3 DEF Onto
<1>4. cells["discount"] # SAME
  BY DEF CellsOK, Row, Columns
<1>5. \A x \in Columns : row[x] = IF x = "discount" THEN cells["discount"] ELSE old[x]
  <2>1. DOMAIN columns = {"discount"} /\ columns["discount"] = cells["discount"]
    BY <1>0
  <2> HIDE DEF row
  <2> QED
    BY <1>3, <1>4, <2>1
<1>6. row # NoRow
  <2>1. DOMAIN row = Columns /\ DOMAIN NoRow = {}
    BY <1>3 DEF NoRow
  <2> QED
    BY <2>1 DEF Columns
<1> HIDE DEF row
<1>7. /\ row["tenant"] = tenantOf[c] /\ row["key"] = cells["key"]
      /\ row["discount"] = cells["discount"]
  BY <1>0, <1>5 DEF Sees, Columns
<1>8. \A x \in Compared(f.kind) \ (Optional(f.kind) \ f.present) : row[x] = cells[x]
  BY <1>0, <1>5, ColumnsApart
<1>9. \A x \in Spared(f) : row[x] = old[x]
  BY <1>1, <1>5, ColumnsApart
<1>10. Tail(tx[c].todo) = <<>>
  BY <1>2 DEF Runs
<1> QED
  BY <1>0, <1>3, <1>6, <1>7, <1>8, <1>9, <1>10 DEF Writes, Fulfils, row

\* What a write changes.
LEMMA WriteSees ==
  ASSUME Inv, NEW c \in Callers, WriteRow(c), NEW r, r = Op(c).row, NEW row, row = Written(c)
  PROVE  /\ r \in Rows /\ tx[c].pc = "write" /\ tx[c].todo # <<>> /\ db' = db
         /\ tx'[c].todo = Tail(tx[c].todo) /\ tx'[c].plan = tx[c].plan
         /\ tx'[c].wrote = tx[c].wrote \cup {r} /\ tx'[c].draft[r] = row
         /\ \A q \in Rows : q # r => tx'[c].draft[q] = tx[c].draft[q]
         /\ \A q \in Rows : View(c, q)' = IF q = r THEN row ELSE View(c, q)
<1>1. /\ tx[c] \in Transactions /\ tx[c].pc = "write" /\ tx[c].todo # <<>>
      /\ ~Conflict(c) /\ UNCHANGED db
      /\ tx \in [Callers -> Transactions]
  BY TransactionType DEF WriteRow, Turn, Inv, TypeOK
<1>2. r \in Rows
  BY <1>1, WrittenRow
<1>3. /\ tx'[c].todo = Tail(tx[c].todo) /\ tx'[c].plan = tx[c].plan
      /\ tx'[c].wrote = tx[c].wrote \cup {r}
      /\ tx'[c].draft = [tx[c].draft EXCEPT ![r] = row]
  BY <1>1 DEF WriteRow, Go, Transactions
<1>4. tx[c].draft \in [Rows -> RowOrNone]
  BY <1>1 DEF Transactions
<1>5. tx'[c].draft[r] = row /\ \A q \in Rows : q # r => tx'[c].draft[q] = tx[c].draft[q]
  BY <1>2, <1>3, <1>4
<1>6. ASSUME NEW q \in Rows PROVE View(c, q)' = IF q = r THEN row ELSE View(c, q)
  BY <1>1, <1>3, <1>5 DEF View, Drafted
<1> QED
  BY <1>1, <1>2, <1>3, <1>5, <1>6

\* Whichever statement of a file's row is written, the row then has what the
\* file says of it, and what is left, if anything, is its discount.
Lands(c, f, i, cells, r) ==
  /\ kindOf[r] = f.kind
  /\ About(c, f, i, r) \/ View(c, r) = NoRow
  /\ \/ Writes(c, f, cells, r, Discount(f, cells, r))
     \/ Writes(c, f, cells, r, <<>>) /\ Written(c)["discount"] = cells["discount"]

LEMMA UnderWayWrites ==
  ASSUME Inv, NEW c \in Callers, tx[c].pc = "write", tx[c].todo # <<>>, NEW f \in Files,
         NEW i, UnderWay(c, f, i, tx[c].todo), NEW cells, cells = CellsOf(c, f, i),
         NEW r, r = Op(c).row
  PROVE  Lands(c, f, i, cells, r)
<1>1. i \in DOMAIN f.rows /\ Ready(c, f, i)
  BY DEF UnderWay
<1>2. CellsOK(cells, f.kind)
  <2>1. f.rows[i] \in Row /\ f.kind \in ImportKinds
    BY <1>1 DEF Ready, Accepted
  <2> QED
    BY <1>1, <2>1, ResolvedCells DEF Ready, CellsOf
<1>3. PICK q \in Rows :
        \/ /\ kindOf[q] = f.kind /\ View(c, q) = NoRow
           /\ tx[c].todo = executeCreate(f, cells, q)
        \/ /\ About(c, f, i, q)
           /\ tx[c].todo = executeUpdate(f, cells, q, View(c, q))
        \/ /\ About(c, f, i, q) /\ Says(c, f, i, q)
           /\ tx[c].todo = Discount(f, cells, q)
  BY DEF UnderWay
<1>4. CASE /\ kindOf[q] = f.kind /\ View(c, q) = NoRow
           /\ tx[c].todo = executeCreate(f, cells, q)
  <2>1. Writes(c, f, cells, q, Discount(f, cells, q))
    BY <1>2, <1>4, CreateWrites
  <2> QED
    BY <1>4, <2>1 DEF Writes, Lands
<1>5. CASE /\ About(c, f, i, q)
           /\ tx[c].todo = executeUpdate(f, cells, q, View(c, q))
  <2>1. kindOf[q] = f.kind /\ Sees(c, q) /\ View(c, q)["key"] = cells["key"]
    BY <1>5 DEF About
  <2>2. Writes(c, f, cells, q, Discount(f, cells, q))
    BY <1>2, <1>5, <2>1, UpdateWrites
  <2> QED
    BY <1>5, <2>1, <2>2 DEF Writes, Lands
<1>6. CASE /\ About(c, f, i, q) /\ Says(c, f, i, q)
           /\ tx[c].todo = Discount(f, cells, q)
  <2>1. /\ kindOf[q] = f.kind /\ Sees(c, q) /\ View(c, q)["key"] = cells["key"]
        /\ \A x \in Compared(f.kind) \ (Optional(f.kind) \ f.present) : View(c, q)[x] = cells[x]
    BY <1>6 DEF About, Says
  <2>2. Writes(c, f, cells, q, <<>>) /\ Written(c)["discount"] = cells["discount"]
    BY <1>2, <1>6, <2>1, DiscountWrites
  <2> QED
    BY <1>6, <2>1, <2>2 DEF Writes, Lands
<1> QED
  BY <1>3, <1>4, <1>5, <1>6

LEMMA WriteFile ==
  ASSUME Inv, NEW c \in Callers, NEW f \in Files, Importing(c, f), FileOK(c, f), WriteRow(c)
  PROVE  FileOK(c, f)'
<1>0. PICK r, row, n, cells, rest :
        /\ r = Op(c).row /\ row = Written(c) /\ n = Len(tx[c].plan)
        /\ cells = CellsOf(c, f, n) /\ rest = Tail(tx[c].todo)
  OBVIOUS
<1>1. /\ r \in Rows /\ tx[c].pc = "write" /\ tx[c].todo # <<>> /\ db' = db
      /\ tx'[c].todo = rest /\ tx'[c].plan = tx[c].plan
      /\ tx'[c].wrote = tx[c].wrote \cup {r} /\ tx'[c].draft[r] = row
      /\ \A q \in Rows : q # r => tx'[c].draft[q] = tx[c].draft[q]
      /\ \A q \in Rows : View(c, q)' = IF q = r THEN row ELSE View(c, q)
  BY <1>0, WriteSees
<1>2. /\ n \in Nat /\ n <= Len(f.rows) /\ DOMAIN f.rows = 1..Len(f.rows)
      /\ Len(f.rows) \in Nat
      /\ \A q \in tx[c].wrote : db[q] # NoRow =>
           /\ tx[c].draft[q] # NoRow
           /\ \A x \in Spared(f) : tx[c].draft[q][x] = db[q][x]
      /\ \A i \in 1..n : i < n => Settled(c, f, i)
      /\ UnderWay(c, f, n, tx[c].todo)
      /\ tx[c].wrote \subseteq Rows
  BY <1>0, <1>1, TransactionType DEF FileOK, Inv, Transactions
<1>3. /\ kindOf[r] = f.kind
      /\ Fulfils(c, f, cells, r, row)
      /\ About(c, f, n, r) \/ View(c, r) = NoRow
      /\ \/ rest = Discount(f, cells, r)
         \/ rest = <<>> /\ row["discount"] = cells["discount"]
  <2>1. /\ tx[c].pc = "write" /\ tx[c].todo # <<>> /\ UnderWay(c, f, n, tx[c].todo)
        /\ cells = CellsOf(c, f, n) /\ r = Op(c).row
    BY <1>0, <1>1, <1>2
  <2>2. Lands(c, f, n, cells, r)
    BY <2>1, UnderWayWrites
  <2> QED
    BY <1>0, <2>2 DEF Lands, Writes
<1>4. n \in DOMAIN f.rows /\ Ready(c, f, n)
  BY <1>2 DEF UnderWay
<1>5. \A q \in Rows : kindOf[q] # f.kind => View(c, q)' = View(c, q)
  BY <1>1, <1>3
<1>6. ASSUME NEW q \in tx'[c].wrote, db'[q] # NoRow
      PROVE  /\ tx'[c].draft[q] # NoRow
             /\ \A x \in Spared(f) : tx'[c].draft[q][x] = db'[q][x]
  <2>1. CASE q # r
    <3>1. q \in tx[c].wrote /\ q \in Rows
      BY <1>1, <1>2, <1>6, <2>1
    <3>2. tx'[c].draft[q] = tx[c].draft[q] /\ db'[q] = db[q]
      BY <1>1, <2>1, <3>1
    <3>3. db[q] # NoRow
      BY <1>6, <3>2
    <3> QED
      BY <1>2, <3>1, <3>2, <3>3
  <2>2. CASE q = r
    <3>1. View(c, r) = IF r \in tx[c].wrote THEN tx[c].draft[r] ELSE db[r]
      BY DEF View, Drafted
    <3>2. db[r] # NoRow
      BY <1>1, <1>6, <2>2
    <3>3. View(c, r) # NoRow /\ \A x \in Spared(f) : View(c, r)[x] = db[r][x]
      BY <1>2, <3>1, <3>2
    <3> QED
      BY <1>1, <1>3, <2>2, <3>3 DEF Fulfils
  <2> QED
    BY <2>1, <2>2
<1>7. ASSUME NEW i \in 1..n, i < n PROVE Settled(c, f, i)'
  <2>1. Settled(c, f, i) /\ i \in DOMAIN f.rows /\ i # n
    BY <1>2, <1>7
  <2>2. CASE ~Ready(c, f, i)
    <3>1. ~Ready(c, f, i)'
      BY <1>5, <2>1, <2>2, CellsAlike
    <3> QED
      BY <3>1 DEF Settled
  <2>3. CASE Ready(c, f, i)
    <3>1. ~About(c, f, i, r)
      BY <1>1, <1>3, <1>4, <2>1, <2>3, AboutDistinct DEF About, Sees
    <3>2. \A q \in Rows : About(c, f, i, q) => View(c, q)' = View(c, q)
      BY <1>1, <3>1
    <3> QED
      BY <1>5, <2>1, <3>2, SettledAlike
  <2> QED
    BY <2>2, <2>3
<1>8. CellsOf(c, f, n)' = cells /\ (Ready(c, f, n)' <=> Ready(c, f, n))
  BY <1>0, <1>4, <1>5, CellsAlike
<1>9. View(c, r)' = row
  BY <1>1
<1>10. About(c, f, n, r)' /\ Says(c, f, n, r)'
  BY <1>3, <1>8, <1>9 DEF About, Says, Sees, Fulfils
<1>11. rest = <<>> => Settled(c, f, n)'
  <2>1. SUFFICES ASSUME rest = <<>>, "discount" \in f.present
                 PROVE  row["discount"] = cells["discount"]
    BY <1>1, <1>8, <1>9, <1>10 DEF Settled
  <2>2. rest # Discount(f, cells, r)
    BY <2>1 DEF Discount
  <2> QED
    BY <1>3, <2>2
<1>12. rest # <<>> => UnderWay(c, f, n, rest)'
  BY <1>1, <1>3, <1>4, <1>8, <1>10 DEF UnderWay
<1>13. Len(tx[c].plan)' = n
  BY <1>0, <1>1
<1> QED
  BY <1>1, <1>2, <1>6, <1>7, <1>11, <1>12, <1>13 DEF FileOK

\* diff finds no change in a row that has what the file says of it.
LEMMA NoChange ==
  ASSUME NEW f, NEW cells, NEW row
  PROVE  ~changed(f, cells, row) <=>
           /\ \A x \in Compared(f.kind) \ (Optional(f.kind) \ f.present) : row[x] = cells[x]
           /\ "discount" \in f.present => row["discount"] = cells["discount"]
<1>1. \A x \in Compared(f.kind) :
        updateData(f, cells, row)[x] = IF x \in Optional(f.kind) \ f.present THEN row[x] ELSE cells[x]
  BY DEF updateData
<1> QED
  BY <1>1 DEF changed

\* What the driver can plan for row i.
CanPlan(c, f, i, cells, plan) ==
  \/ ~Ready(c, f, i) /\ plan = Plan("ERROR", <<>>)
  \/ /\ Ready(c, f, i) /\ ByKey(c, f.kind, cells["key"]) = {}
     /\ plan = Plan("CREATE", executeCreate(f, cells, NewRow(f.kind)))
  \/ \E r \in ByKey(c, f.kind, cells["key"]) :
       /\ Ready(c, f, i)
       /\ \/ /\ f.kind = "ProductUnit" /\ View(c, r)["parent"] # cells["parent"]
             /\ plan = Plan("ERROR", <<>>)
          \/ /\ ~(f.kind = "ProductUnit" /\ View(c, r)["parent"] # cells["parent"])
             /\ changed(f, cells, View(c, r))
             /\ plan = Plan("UPDATE", executeUpdate(f, cells, r, View(c, r)))
          \/ /\ ~changed(f, cells, View(c, r))
             /\ plan = Plan("NO_CHANGE", <<>>)

LEMMA PlanIs ==
  ASSUME NEW c \in Callers, NEW f \in Files, NEW i \in DOMAIN f.rows,
         NEW cells, cells = CellsOf(c, f, i), NEW plan, plan = PlanRow(c, f, i)
  PROVE  CanPlan(c, f, i, cells, plan)
<1> DEFINE existing == ByKey(c, f.kind, cells["key"])
           r == CHOOSE r \in existing : TRUE
<1>1. plan = IF ~Ready(c, f, i) THEN Plan("ERROR", <<>>)
             ELSE IF existing = {}
             THEN Plan("CREATE", executeCreate(f, cells, NewRow(f.kind)))
             ELSE IF f.kind = "ProductUnit" /\ View(c, r)["parent"] # cells["parent"]
             THEN Plan("ERROR", <<>>)
             ELSE IF changed(f, cells, View(c, r))
             THEN Plan("UPDATE", executeUpdate(f, cells, r, View(c, r)))
             ELSE Plan("NO_CHANGE", <<>>)
  BY DEF PlanRow, Ready, CellsOf
<1>2. existing # {} => r \in existing
  BY ChooseIn
<1> HIDE DEF r
<1> QED
  BY <1>1, <1>2 DEF CanPlan

LEMMA Planned ==
  ASSUME TypeOK, NEW c \in Callers, NEW f \in Files, NEW i \in DOMAIN f.rows,
         PlanRow(c, f, i).status = "CREATE" => Unused(f.kind) # {},
         NEW todo, todo = PlanRow(c, f, i).todo
  PROVE  IF todo = <<>> THEN Settled(c, f, i) ELSE UnderWay(c, f, i, todo)
<1>0. PICK cells, plan : cells = CellsOf(c, f, i) /\ plan = PlanRow(c, f, i)
  OBVIOUS
<1>1. f.kind \in ImportKinds /\ f.kind \in Kinds
  BY DEF ImportKinds, SolidKinds, Kinds
<1>2. CASE ~Ready(c, f, i) /\ plan = Plan("ERROR", <<>>)
  BY <1>0, <1>2 DEF Plan, Settled
<1>3. ASSUME Ready(c, f, i) PROVE CellsOK(cells, f.kind)
  <2>1. f.rows[i] \in Row
    BY <1>3 DEF Ready, Accepted
  <2> QED
    BY <1>0, <1>1, <1>3, <2>1, ResolvedCells DEF Ready, CellsOf
<1>4. CASE /\ Ready(c, f, i)
           /\ plan = Plan("CREATE", executeCreate(f, cells, NewRow(f.kind)))
  <2>1. PICK r : r = NewRow(f.kind)
    OBVIOUS
  <2>2. plan.status = "CREATE" /\ todo = executeCreate(f, cells, r)
    BY <1>0, <1>4, <2>1 DEF Plan
  <2>3. r \in Unused(f.kind)
    BY <1>0, <2>1, <2>2, ChooseIn DEF NewRow
  <2>4. r \in Rows /\ kindOf[r] = f.kind /\ View(c, r) = NoRow
    BY <1>1, <2>3 DEF Unused, Known, RowsOf, View
  <2>5. todo # <<>>
    <3>1. Runs(executeCreate(f, cells, r), "create", r,
               [x \in CreatedColumns(f.kind) |-> cells[x]], Discount(f, cells, r))
      BY <1>3, <1>4, <2>4, CreateRuns
    <3> QED
      BY <2>2, <3>1 DEF Runs
  <2> QED
    BY <1>0, <1>4, <2>2, <2>4, <2>5 DEF UnderWay
<1>5. ASSUME Ready(c, f, i), NEW r \in ByKey(c, f.kind, cells["key"])
      PROVE  r \in Rows /\ kindOf[r] = f.kind /\ About(c, f, i, r)
  BY <1>0, <1>1, <1>5 DEF ByKey, RowsOf, About
<1>6. ASSUME Ready(c, f, i), NEW r \in ByKey(c, f.kind, cells["key"]),
             \/ /\ f.kind = "ProductUnit" /\ View(c, r)["parent"] # cells["parent"]
                /\ plan = Plan("ERROR", <<>>)
             \/ /\ ~changed(f, cells, View(c, r))
                /\ plan = Plan("NO_CHANGE", <<>>)
      PROVE  todo = <<>> /\ Settled(c, f, i)
  <2>1. r \in Rows /\ About(c, f, i, r)
    BY <1>5, <1>6
  <2>2. todo = <<>>
    BY <1>0, <1>6 DEF Plan
  <2>3. ~changed(f, cells, View(c, r)) =>
          /\ Says(c, f, i, r)
          /\ "discount" \in f.present => View(c, r)["discount"] = cells["discount"]
    BY <1>0, NoChange DEF Says
  <2> QED
    BY <1>0, <1>6, <2>1, <2>2, <2>3 DEF Settled
<1>7. ASSUME Ready(c, f, i), NEW r \in ByKey(c, f.kind, cells["key"]),
             plan = Plan("UPDATE", executeUpdate(f, cells, r, View(c, r)))
      PROVE  todo # <<>> /\ UnderWay(c, f, i, todo)
  <2>1. r \in Rows /\ kindOf[r] = f.kind /\ About(c, f, i, r)
    BY <1>5, <1>7
  <2>2. todo = executeUpdate(f, cells, r, View(c, r))
    BY <1>0, <1>7 DEF Plan
  <2>3. todo # <<>>
    <3>1. PICK row : row = View(c, r)
      OBVIOUS
    <3>2. Runs(executeUpdate(f, cells, r, row), "update", r,
               Saves(f, cells, row), Discount(f, cells, r))
      BY <1>3, <1>7, <2>1, UpdateRuns
    <3> QED
      BY <2>2, <3>1, <3>2 DEF Runs
  <2> QED
    BY <1>0, <1>7, <2>1, <2>2, <2>3 DEF UnderWay
<1>8. CanPlan(c, f, i, cells, plan)
  BY <1>0, PlanIs
<1> QED
  BY <1>2, <1>4, <1>6, <1>7, <1>8 DEF CanPlan

\* A step that changes nothing of the rows, or of what c has done of its file.
LEMMA SameFile ==
  ASSUME Inv, NEW c \in Callers, NEW f \in Files, FileOK(c, f), db' = db,
         tx'[c].wrote = tx[c].wrote, tx'[c].draft = tx[c].draft,
         tx'[c].plan = tx[c].plan, tx'[c].todo = tx[c].todo
  PROVE  FileOK(c, f)'
<1>1. \A q : View(c, q)' = View(c, q)
  BY DEF View, Drafted
<1>2. /\ Len(tx[c].plan) \in Nat /\ Len(tx[c].plan) <= Len(f.rows)
      /\ Len(f.rows) \in Nat /\ DOMAIN f.rows = 1..Len(f.rows)
  BY TransactionType DEF FileOK, Transactions
<1>3. ASSUME NEW i \in 1..Len(tx[c].plan), Settled(c, f, i) PROVE Settled(c, f, i)'
  <2>1. i \in DOMAIN f.rows
    BY <1>2
  <2> QED
    BY <1>1, <1>3, <2>1, SettledAlike
<1>4. PICK n, todo : n = Len(tx[c].plan) /\ todo = tx[c].todo
  OBVIOUS
<1>5. UnderWay(c, f, n, todo) => UnderWay(c, f, n, todo)'
  BY <1>1, UnderWayAlike
<1>6. Len(tx[c].plan)' = n /\ tx'[c].todo = todo
  BY <1>4
<1> QED
  BY <1>2, <1>3, <1>4, <1>5, <1>6 DEF FileOK

LEMMA ImportFile ==
  ASSUME Inv, NEW c \in Callers, NEW f \in Files, Importing(c, f), FileOK(c, f), ImportRow(c)
  PROVE  FileOK(c, f)'
<1>0. PICK n, i, plan : n = Len(tx[c].plan) /\ i = n + 1 /\ plan = PlanRow(c, f, i)
  OBVIOUS
<1>1. /\ tx[c] \in Transactions /\ tx[c].todo = <<>> /\ RowsLeft(c) /\ tx[c].file = f
      /\ UNCHANGED db /\ n \in Nat /\ tx \in [Callers -> Transactions]
  BY <1>0, TransactionType DEF ImportRow, Inv, Importing, Transactions, TypeOK
<1>2. /\ i \in DOMAIN f.rows /\ DOMAIN f.rows = 1..Len(f.rows) /\ Len(f.rows) \in Nat
  BY <1>0, <1>1 DEF RowsLeft, NextRow
<1>3. /\ plan.status = "CREATE" => Unused(f.kind) # {}
      /\ Go(c, [tx[c] EXCEPT !.todo = plan.todo, !.plan = Append(@, plan.status)])
  BY <1>0, <1>1 DEF ImportRow, NextRow
<1>4. /\ tx'[c].wrote = tx[c].wrote /\ tx'[c].draft = tx[c].draft
      /\ tx'[c].plan = Append(tx[c].plan, plan.status) /\ tx'[c].todo = plan.todo
  BY <1>1, <1>3 DEF Go, Transactions
<1>5. Len(tx'[c].plan) = i
  BY <1>0, <1>1, <1>4 DEF Transactions
<1>6. \A q : View(c, q)' = View(c, q)
  BY <1>1, <1>4 DEF View, Drafted
<1>7. ASSUME NEW j \in 1..n PROVE Settled(c, f, j)'
  <2>1. Settled(c, f, j)
    BY <1>0, <1>1 DEF FileOK
  <2>2. j \in DOMAIN f.rows
    BY <1>0, <1>1, <1>2
  <2> QED
    BY <1>6, <2>1, <2>2, SettledAlike
<1>8. PICK todo : todo = plan.todo
  OBVIOUS
<1>9. IF todo = <<>> THEN Settled(c, f, i) ELSE UnderWay(c, f, i, todo)
  BY <1>0, <1>2, <1>3, <1>8, Planned DEF Inv
<1>10. IF todo = <<>> THEN Settled(c, f, i)' ELSE UnderWay(c, f, i, todo)'
  BY <1>2, <1>6, <1>9, SettledAlike, UnderWayAlike
<1>11. \A r \in tx'[c].wrote : db'[r] # NoRow =>
         /\ tx'[c].draft[r] # NoRow
         /\ \A x \in Spared(f) : tx'[c].draft[r][x] = db'[r][x]
  BY <1>1, <1>4 DEF FileOK
<1>12. \A j \in 1..i : j < i \/ todo = <<>> => Settled(c, f, j)'
  BY <1>0, <1>1, <1>7, <1>10
<1> QED
  BY <1>2, <1>4, <1>5, <1>8, <1>10, <1>11, <1>12 DEF FileOK

LEMMA ReadFile ==
  ASSUME Inv, LogOK, NEW c \in Callers, NEW f \in Files, Importing(c, f), FileOK(c, f),
         ReadRow(c)
  PROVE  FileOK(c, f)'
<1>1. tx[c] \in Transactions /\ tx \in [Callers -> Transactions] /\ tx[c].todo # <<>>
  BY TransactionType DEF ReadRow, AtOperation, Inv, TypeOK
<1>2. ~NothingToClear(c)
  <2>1. Op(c) = tx[c].todo[1] /\ 1 \in 1..Len(tx[c].todo)
    BY <1>1, OpType DEF Inv
  <2>2. tx[c].file # NoFile
    BY DEF Importing
  <2> QED
    BY <2>1, <2>2 DEF LogOK, ToldOK, NothingToClear
<1>3. Go(c, [tx[c] EXCEPT !.pc = "write", !.before = View(c, Op(c).row)]) /\ UNCHANGED db
  BY <1>2 DEF ReadRow
<1>4. /\ tx'[c].wrote = tx[c].wrote /\ tx'[c].draft = tx[c].draft
      /\ tx'[c].plan = tx[c].plan /\ tx'[c].todo = tx[c].todo
  BY <1>1, <1>3 DEF Go, Transactions
<1> QED
  BY <1>3, <1>4, SameFile

\* A file that is imported from now on.
LEMMA StartFile ==
  ASSUME NEW c \in Callers, NEW f \in Files, tx'[c].wrote = {}, tx'[c].plan = <<>>,
         tx'[c].todo = <<>>
  PROVE  FileOK(c, f)'
<1>1. Len(tx'[c].plan) = 0 /\ Len(f.rows) \in Nat
  <2>1. f.rows \in Seq(Row \cup {NULL})
    OBVIOUS
  <2> QED
    BY <2>1
<1> QED
  BY <1>1 DEF FileOK

\* What the others do does not change what c sees, until they commit.
LEMMA OthersFile ==
  ASSUME Inv, FilesOK, NEW c \in Callers, NEW f \in Files, Importing(c, f)',
         tx'[c] = tx[c], db' = db
  PROVE  FileOK(c, f)'
<1>1. Importing(c, f)
  BY DEF Importing, Open
<1>2. FileOK(c, f)
  BY <1>1 DEF FilesOK
<1> QED
  BY <1>2, SameFile

LEMMA StepFile ==
  ASSUME Inv, LogOK, FilesOK, NEW c \in Callers, Request(c) \/ Step(c) \/ Fail(c),
         NEW f \in Files, Importing(c, f)'
  PROVE  FileOK(c, f)'
<1>0. tx[c] \in Transactions /\ tx \in [Callers -> Transactions]
  BY TransactionType DEF Inv, TypeOK
<1>1. CASE Request(c)
  <2>0. StartsOK(c)
    BY <1>1, RequestStarts
  <2>1. PICK todo \in Seq(Operations), file \in Files \cup {NoFile} :
          Start(c, todo, file) /\ (file # NoFile => todo = <<>>)
    BY <2>0 DEF StartsOK
  <2>2. tx'[c] = [Idle EXCEPT !.pc = "read", !.call = calls + 1, !.todo = todo, !.file = file]
    BY <1>0, <2>1 DEF Start
  <2>3. /\ tx'[c].wrote = {} /\ tx'[c].plan = <<>> /\ tx'[c].todo = todo
        /\ tx'[c].file = file
    BY <2>2 DEF Idle
  <2>4. todo = <<>>
    BY <2>1, <2>3 DEF Importing
  <2> QED
    BY <2>3, <2>4, StartFile
<1>2. CASE Abort(c) \/ Commit(c)
  <2>1. ~Open(c)'
    BY <1>0, <1>2, IdleType, CommitTypes DEF Abort, Go, Open
  <2> QED
    BY <2>1 DEF Importing
<1>3. CASE ImportRow(c) \/ ReadRow(c) \/ WriteRow(c)
  <2>1. Open(c) /\ tx'[c].quiet = tx[c].quiet /\ tx'[c].file = tx[c].file
    <3>1. CASE ImportRow(c)
      BY <1>0, <3>1 DEF ImportRow, Open, Go, Transactions
    <3>2. CASE ReadRow(c)
      <4>1. PICK row : row = View(c, Op(c).row)
        OBVIOUS
      <4>2. /\ tx[c].pc = "read"
            /\ \/ tx'[c] = [tx[c] EXCEPT !.todo = Tail(@)]
               \/ tx'[c] = [tx[c] EXCEPT !.pc = "write", !.before = row]
        BY <1>0, <3>2, <4>1 DEF ReadRow, AtOperation, Go
      <4>3. CASE tx'[c] = [tx[c] EXCEPT !.todo = Tail(@)]
        BY <1>0, <4>2, <4>3 DEF Open, Transactions
      <4>4. CASE tx'[c] = [tx[c] EXCEPT !.pc = "write", !.before = row]
        BY <1>0, <4>2, <4>4 DEF Open, Transactions
      <4> QED
        BY <4>2, <4>3, <4>4
    <3>3. CASE WriteRow(c)
      BY <1>0, <3>3 DEF WriteRow, Turn, Open, Go, Transactions
    <3> QED
      BY <1>3, <3>1, <3>2, <3>3
  <2>2. Importing(c, f)
    BY <2>1 DEF Importing
  <2>3. FileOK(c, f)
    BY <2>2 DEF FilesOK
  <2> QED
    BY <1>3, <2>2, <2>3, ImportFile, ReadFile, WriteFile
<1> QED
  BY <1>1, <1>2, <1>3 DEF Step, Fail, RefuseRow, RefuseWrite, BreakDeadlock

LEMMA InitFiles == Init => FilesOK
  BY IdleType DEF Init, FilesOK, Importing, Open

LEMMA NextFiles == Inv /\ LogOK /\ FilesOK /\ [Next]_vars => FilesOK'
<1> SUFFICES ASSUME Inv, LogOK, FilesOK, [Next]_vars,
                    NEW c \in Callers, NEW f \in Files, Importing(c, f)'
             PROVE  FileOK(c, f)'
  BY DEF FilesOK
<1>1. ASSUME UNCHANGED <<db, tx>> PROVE FileOK(c, f)'
  BY <1>1, OthersFile
<1>2. ASSUME NEW d \in Callers, Request(d) \/ Step(d) \/ Fail(d) PROVE FileOK(c, f)'
  <2>1. CASE d = c
    BY <1>2, <2>1, StepFile
  <2>2. CASE d # c /\ Commit(d)
    <3>1. tx'[c] = IF Open(c) THEN [tx[c] EXCEPT !.quiet = FALSE] ELSE tx[c]
      BY <2>2 DEF Commit
    <3>2. tx[c] \in Transactions
      BY TransactionType DEF Inv
    <3> QED
      BY <3>1, <3>2 DEF Importing, Open, Transactions
  <2>3. CASE d # c /\ ~Commit(d)
    <3>1. ASSUME Request(d) PROVE db' = db /\ tx'[c] = tx[c]
      <4>1. PICK todo, file : Start(d, todo, file)
        BY <3>1, RequestStarts DEF StartsOK
      <4> QED
        BY <2>3, <4>1 DEF Start, Inv, TypeOK
    <3>2. ASSUME Step(d) \/ Fail(d) PROVE db' = db /\ tx'[c] = tx[c]
      BY <2>3, <3>2 DEF Step, Fail, ImportRow, ReadRow, RefuseRow, WriteRow, RefuseWrite,
                        BreakDeadlock, Abort, Go, Inv, TypeOK
    <3> QED
      BY <1>2, <3>1, <3>2, OthersFile
  <2> QED
    BY <2>1, <2>2, <2>3
<1>3. ASSUME NEW b \in Readers, listBuyerCatalog(b) \/ Look(b)
      PROVE  UNCHANGED <<db, tx>>
  BY <1>3 DEF listBuyerCatalog, Look, ReadCustomer, ReadUnit, ReadProduct, ReadVisibility,
              ReadAssignment, ReadList, ReadItem, GoOn, Read
<1> QED
  BY <1>1, <1>2, <1>3 DEF Next, Rest, vars

LEMMA FilesHold == Spec => [](Inv /\ LogOK /\ FilesOK)
<1>1. Init => Inv /\ LogOK /\ FilesOK
  BY InitInv, InitLog, InitFiles
<1>2. Inv /\ LogOK /\ FilesOK /\ [Next]_vars => (Inv /\ LogOK /\ FilesOK)'
  BY NextInv, NextLog, NextFiles
<1> QED
  BY <1>1, <1>2, PTL DEF Spec

\* A file that was imported while nobody else committed.
LEMMA ImportedIs ==
  ASSUME Inv, FilesOK, [Next]_vars, NEW c \in Callers, Imported(c), NEW f, f = tx[c].file
  PROVE  /\ f \in Files /\ FileOK(c, f) /\ Commit(c) /\ tx[c].todo = <<>>
         /\ Len(tx[c].plan) = Len(f.rows)
<1>1. /\ Committed(c) /\ tx[c].quiet /\ f # NoFile /\ f \in Files
      /\ tx[c].todo = <<>> /\ Open(c) /\ ~RowsLeft(c)
  BY TransactionType DEF Imported, Committed, Inv, Transactions
<1>2. FileOK(c, f)
  BY <1>1 DEF FilesOK, Importing
<1>3. Len(tx[c].plan) \in Nat /\ Len(f.rows) \in Nat
  <2>1. f.rows \in Seq(Row \cup {NULL}) /\ tx[c].plan \in Seq(Status)
    BY <1>1, TransactionType DEF Inv, Transactions
  <2> QED
    BY <2>1
<1>4. Len(tx[c].plan) = Len(f.rows)
  BY <1>1, <1>2, <1>3 DEF RowsLeft, NextRow, FileOK
<1> QED
  BY <1>1, <1>2, <1>4, CommittedIs

\* A column that a file lacks is saved as it was when the row was read; as
\* long as nobody else commits, that is as it is.
THEOREM AbsentColumnsStay == Spec => AbsentColumnsKept
<1>1. Inv /\ FilesOK /\ [Next]_vars =>
        [\A c \in Callers : Imported(c) => \A f \in {tx[c].file} :
           \A r \in Rows : KeptBy(f, r, Optional(f.kind))]_vars
  <2> SUFFICES ASSUME Inv, FilesOK, [Next]_vars, NEW c \in Callers, Imported(c),
                      NEW f, f = tx[c].file, NEW r \in Rows, db[r] # NoRow,
                      NEW x \in Spared(f)
               PROVE  db'[r][x] = db[r][x]
    BY DEF KeptBy, Spared
  <2>1. FileOK(c, f) /\ Commit(c)
    BY ImportedIs
  <2>2. db'[r] = View(c, r)
    BY <2>1, CommitTypes
  <2>3. CASE r \in tx[c].wrote
    BY <2>1, <2>2, <2>3 DEF FileOK, View, Drafted
  <2>4. CASE r \notin tx[c].wrote
    BY <2>2, <2>4 DEF View, Drafted
  <2> QED
    BY <2>3, <2>4
<1> QED
  BY <1>1, FilesHold, PTL DEF Spec, AbsentColumnsKept

\* The driver has nothing to do for a row that is settled, since no two rows
\* have its key.
AllPlanned ==
  \A c \in Callers, f \in Files : \A i \in DOMAIN f.rows :
    Settled(c, f, i) => PlanRow(c, f, i).status \in {"NO_CHANGE", "ERROR"}

LEMMA SettledPlanned == Inv /\ TermsOK => AllPlanned
<1> SUFFICES ASSUME Inv, TermsOK, NEW c \in Callers, NEW f \in Files, NEW i \in DOMAIN f.rows,
                    Settled(c, f, i)
             PROVE  PlanRow(c, f, i).status \in {"NO_CHANGE", "ERROR"}
  BY DEF AllPlanned
<1>0. PICK cells, plan : cells = CellsOf(c, f, i) /\ plan = PlanRow(c, f, i)
  OBVIOUS
<1>1. CASE ~Ready(c, f, i)
  <2>1. CanPlan(c, f, i, cells, plan)
    BY <1>0, PlanIs
  <2> QED
    BY <1>0, <1>1, <2>1 DEF CanPlan, Plan
<1>2. CASE Ready(c, f, i)
  <2>1. PICK r \in Rows :
          /\ About(c, f, i, r)
          /\ \/ f.kind = "ProductUnit" /\ View(c, r)["parent"] # cells["parent"]
             \/ /\ Says(c, f, i, r)
                /\ "discount" \in f.present => View(c, r)["discount"] = cells["discount"]
    BY <1>0, <1>2 DEF Settled
  <2>2. f.kind \in Kinds /\ f.kind \in ImportKinds /\ f.rows[i] \in Row /\ f.rows[i] # NULL
    BY <1>2 DEF ImportKinds, SolidKinds, Kinds, Ready, Accepted
  <2>3. CellsOK(cells, f.kind)
    BY <1>0, <1>2, <2>2, ResolvedCells DEF Ready, CellsOf
  <2>4. cells["key"] # NULL
    <3>1. CASE f.kind = "PriceListItem"
      <4>1. cells["key"] = <<cells["parent"], cells["other"]>>
        BY <2>3, <3>1 DEF CellsOK, Shaped
      <4>2. cells["parent"] \in Rows /\ cells["other"] \in Rows
        BY <2>3, <3>1, SolidRows DEF CellsOK, LookedUp
      <4> QED
        BY <4>1, <4>2
    <3>2. CASE f.kind # "PriceListItem"
      <4>1. cells["key"] = f.rows[i]["key"]
        BY <1>0, <3>2, ColumnsApart DEF CellsOf, Resolved, Columns, References
      <4>2. Keyed(f)
        BY KeyAssumption
      <4> QED
        BY <2>2, <4>1, <4>2 DEF Keyed
    <3> QED
      BY <3>1, <3>2
  <2>5. ASSUME NEW q \in ByKey(c, f.kind, cells["key"]) PROVE q = r
    <3>1. q \in Rows /\ kindOf[q] = f.kind /\ Sees(c, q) /\ View(c, q)["key"] = cells["key"]
      BY <2>2, <2>5 DEF ByKey, RowsOf
    <3>2. kindOf[r] = f.kind /\ Sees(c, r) /\ View(c, r)["key"] = cells["key"]
      BY <1>0, <2>1 DEF About
    <3>3. q # r => ~Clash(q, View(c, q), r, View(c, r))
      BY <3>1 DEF TermsOK, KeysOK
    <3> QED
      BY <2>4, <3>1, <3>2, <3>3 DEF Clash, Sees
  <2>6. r \in ByKey(c, f.kind, cells["key"])
    BY <1>0, <2>1, <2>2 DEF About, ByKey, RowsOf
  <2>7. \/ f.kind = "ProductUnit" /\ View(c, r)["parent"] # cells["parent"]
        \/ ~changed(f, cells, View(c, r))
    BY <1>0, <2>1, NoChange DEF Says
  <2>8. /\ Plan("ERROR", <<>>).status = "ERROR"
        /\ Plan("NO_CHANGE", <<>>).status = "NO_CHANGE"
    BY DEF Plan
  <2>9. ~(plan.status \in {"NO_CHANGE", "ERROR"}) =>
          \E q \in ByKey(c, f.kind, cells["key"]) :
            /\ ~(f.kind = "ProductUnit" /\ View(c, q)["parent"] # cells["parent"])
            /\ changed(f, cells, View(c, q))
    <3>1. CanPlan(c, f, i, cells, plan)
      BY <1>0, PlanIs
    <3> QED
      BY <1>2, <2>6, <2>8, <3>1 DEF CanPlan
  <2> QED
    BY <1>0, <2>5, <2>7, <2>9
<1> QED
  BY <1>1, <1>2

\* Once a file is imported, each of its rows that can be read is in the tables
\* as the file has it, so that importing it again would find nothing to do.
THEOREM ImportsSettle == Spec => ImportSettles
<1>1. Inv /\ FilesOK /\ AllPlanned' /\ [Next]_vars =>
        [\A c \in Callers : Imported(c) => \A f \in {tx[c].file} :
           \A i \in DOMAIN f.rows :
             PlanRow(c, f, i)'.status \in {"NO_CHANGE", "ERROR"}]_vars
  <2> SUFFICES ASSUME Inv, FilesOK, AllPlanned', [Next]_vars, NEW c \in Callers, Imported(c),
                      NEW f, f = tx[c].file, NEW i \in DOMAIN f.rows
               PROVE  PlanRow(c, f, i)'.status \in {"NO_CHANGE", "ERROR"}
    OBVIOUS
  <2>1. /\ f \in Files /\ FileOK(c, f) /\ Commit(c) /\ tx[c].todo = <<>>
        /\ Len(tx[c].plan) = Len(f.rows)
    BY ImportedIs
  <2>2. i \in 1..Len(f.rows)
    <3>1. f.rows \in Seq(Row \cup {NULL})
      BY <2>1
    <3> QED
      BY <3>1
  <2>3. Settled(c, f, i)
    BY <2>1, <2>2 DEF FileOK
  <2>4. \A q \in Rows : View(c, q)' = View(c, q)
    BY <2>1, CommitTypes, IdleType DEF View, Drafted
  <2>5. Settled(c, f, i)'
    BY <2>1, <2>3, <2>4, SettledAlike
  <2> QED
    BY <2>1, <2>5 DEF AllPlanned
<1>2. Spec => []AllPlanned
  BY TermsHold, SettledPlanned, PTL
<1> QED
  BY <1>1, <1>2, FilesHold, PTL DEF Spec, ImportSettles
=============================================================================
