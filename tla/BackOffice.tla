------------------------------ MODULE BackOffice ------------------------------
(***************************************************************************)
(* The seller's back office: the catalog, its prices and the customers'    *)
(* terms (lib/domain/catalog, pricing, customers), the CSV imports that    *)
(* write the same rows (lib/domain/import), and the prices that buyers     *)
(* are shown meanwhile (pricing-resolution.ts, buyer-catalog-service.ts).  *)
(*                                                                         *)
(* Every operation is one READ COMMITTED transaction: it checks the rows   *)
(* it refers to, reads the row it changes, writes the columns it is given  *)
(* and an audit entry.  No row is locked before it is written.  An import  *)
(* does this row after row in one transaction.  A price is read from six   *)
(* tables, one statement each.                                             *)
(*                                                                         *)
(* A row of any table is a function on Columns, or NoRow.  "parent" and "other" are  *)
(* its references: a product's category; a unit's product and measure; a   *)
(* price's list and unit; an assignment's customer and list; an override's *)
(* customer and product.  "extra" is a product's image and a customer's    *)
(* contact.  Categories, products, measures, units, lists and customers    *)
(* are never deleted, and nothing moves a row to another tenant.           *)
(*                                                                         *)
(* A definition named X_Y, before X, is X with a bug.                      *)
(***************************************************************************)
EXTENDS Naturals, Sequences, FiniteSets, Permissions

CONSTANTS
  Rows, kindOf,       \* the rows there can be, and the table of each
  Seed,               \* the rows that exist at first
  Callers, tenantOf, roleOf,  \* sessions of a seller's staff
  Readers, customerOf, unitOf,  \* buyers, and the unit whose price each is shown
  Forms,              \* the forms that can be submitted
  Files,              \* the CSV files that can be imported
  Values,             \* what a column can hold, but for rows
  MaxCalls,           \* how many requests are made: a bound on the run
  NULL, SAME,         \* no value; a column that is not written
  YES, NO, VISIBLE, HIDDEN    \* the values of "active", and of an override

Kinds ==
  {"Category", "UnitOfMeasure", "Product", "ProductUnit", "PriceList",
   "Customer", "PriceListItem", "Assignment", "Visibility"}

Columns ==
  {"tenant", "key", "parent", "other", "active", "data", "extra", "discount"}

References == {"parent", "other"}

RowsOf == [kind \in Kinds |-> {r \in Rows : kindOf[r] = kind}]

\* Nothing deletes these, and only these are referred to.
SolidKinds == Kinds \ {"PriceListItem", "Assignment", "Visibility"}
Solid == {r \in Rows : kindOf[r] \in SolidKinds}

NoRow == [x \in {} |-> NULL]
NoFile == [kind |-> NULL, present |-> {}, rows |-> <<>>]

Content ==
  Values \cup Rows \cup (Rows \X Rows) \cup {NULL, YES, NO, VISIBLE, HIDDEN}
Row == [Columns -> Content]
Offers == [price : Content, discount : Content, currency : Content]
FormColumns == {"key", "data", "active", "extra"}
ImportKinds == SolidKinds \cup {"PriceListItem"}

RefsWithin(rows) ==
  \A r \in Rows : rows[r] # NoRow =>
    \A x \in References : rows[r][x] # NULL =>
      /\ rows[r][x] \in Solid /\ rows[rows[r][x]] # NoRow
      /\ rows[rows[r][x]]["tenant"] = rows[r]["tenant"]

\* The unique indexes: a tenant has one row of a table with a key.
KeysUnique(rows) ==
  \A r, s \in Rows :
    /\ r # s /\ kindOf[r] = kindOf[s] /\ rows[r] # NoRow /\ rows[s] # NoRow
    /\ rows[r]["tenant"] = rows[s]["tenant"] /\ rows[r]["key"] = rows[s]["key"]
    => rows[r]["key"] = NULL

\* A price's key is its list and unit, and an assignment has a list.
Shaped(kind, row) ==
  /\ kind = "PriceListItem" => row["key"] = <<row["parent"], row["other"]>>
  /\ kind = "Assignment" => row["other"] # NULL

\* Every row of a file that is read has a key (normalizeRow), and a price's is
\* made of the codes of its list and unit (keyOf).
Keyed(f) ==
  \A i, j \in DOMAIN f.rows : f.rows[i] # NULL /\ f.rows[j] # NULL =>
    /\ f.rows[i]["key"] # NULL
    /\ f.kind = "PriceListItem" /\ (\A x \in References : f.rows[i][x] = f.rows[j][x])
         => f.rows[i]["key"] = f.rows[j]["key"]

ASSUME BackOfficeAssumption ==
  /\ kindOf \in [Rows -> Kinds]
  /\ tenantOf \in [Callers -> Values] /\ roleOf \in [Callers -> TenantRole]
  /\ Forms \subseteq [FormColumns -> Content]
  /\ Files \subseteq [kind : ImportKinds, present : SUBSET Columns,
                      rows : Seq(Row \cup {NULL})]
  /\ \A f \in Files : "discount" \in f.present => f.kind = "Customer"
  /\ Seed \in [Rows -> Row \cup {NoRow}] /\ RefsWithin(Seed) /\ KeysUnique(Seed)
  /\ \A r \in Rows : Seed[r] # NoRow => Shaped(kindOf[r], Seed[r])
  /\ \A b \in Readers : /\ customerOf[b] \in Solid /\ Seed[customerOf[b]] # NoRow
                        /\ <<customerOf[b]>> \in RowsOf["Assignment"]
                        /\ unitOf[b] \in Rows
  /\ SAME \notin Content /\ NULL \notin Rows \cup (Rows \X Rows) \cup Offers
  /\ MaxCalls \in Nat

ASSUME KeyAssumption == \A f \in Files : Keyed(f)

VARIABLES
  db,       \* db[r]: the committed row, or NoRow
  history,  \* history[r]: its committed audit entries
  calls,    \* how many requests were made
  tx,       \* tx[c]: the transaction of caller c
  reads     \* reads[b]: the price that buyer b is being shown

vars == <<db, history, calls, tx, reads>>

Idle ==
  [pc |-> "idle", call |-> 0, todo |-> <<>>, before |-> NoRow, wrote |-> {},
   draft |-> [r \in Rows |-> NoRow], told |-> [r \in Rows |-> <<>>],
   file |-> NoFile, plan |-> <<>>, quiet |-> TRUE]

NoRead ==
  [pc |-> "idle", discount |-> NULL, list |-> NULL, currency |-> NULL,
   offer |-> NULL, withheld |-> {}, quiet |-> TRUE]

Init ==
  /\ db = Seed
  /\ history = [r \in Rows |-> <<>>]
  /\ calls = 0
  /\ tx = [c \in Callers |-> Idle]
  /\ reads = [b \in Readers |-> NoRead]

-----------------------------------------------------------------------------
(* What a transaction sees, and what it waits for.                          *)

Open(c) == tx[c].pc # "idle"

Drafted(c, r) == r \in tx[c].wrote

View(c, r) == IF Drafted(c, r) THEN tx[c].draft[r] ELSE db[r]

\* The query extension adds the tenant to every query, and the policies of
\* the tables without a tenant go by the row's parent.
Sees(c, r) == View(c, r) # NoRow /\ View(c, r)["tenant"] = tenantOf[c]

ByKey(c, kind, key) == {r \in RowsOf[kind] : Sees(c, r) /\ View(c, r)["key"] = key}

Merge(sets, row) ==
  [x \in Columns |-> IF sets[x] = SAME THEN row[x] ELSE sets[x]]

Set(sets) == {x \in Columns : sets[x] # SAME}

Blank == [x \in Columns |-> NULL]

\* The statement that c is about to run, and the key that it gives its row.
Op(c) == Head(tx[c].todo)
Key(c) == Op(c).sets["key"]

HasKey(r, row, kind, tenant, key) ==
  kindOf[r] = kind /\ row # NoRow /\ row["tenant"] = tenant /\ row["key"] = key

\* A row lock, or an entry of a unique index that is not committed yet.
WaitsFor(c, d) ==
  /\ c # d /\ Open(d)
  /\ tx[c].pc = "write"
  /\ \/ Drafted(d, Op(c).row)
     \/ /\ Key(c) \notin {SAME, NULL}
        /\ \E r \in Rows \ {Op(c).row} :
             /\ Drafted(d, r)
             /\ \/ HasKey(r, db[r], Op(c).kind, tenantOf[c], Key(c))
                \/ HasKey(r, tx[d].draft[r], Op(c).kind, tenantOf[c], Key(c))

Duplicate(c) ==
  /\ Key(c) \notin {SAME, NULL}
  /\ ByKey(c, Op(c).kind, Key(c)) \ {Op(c).row} # {}

-----------------------------------------------------------------------------
(* Calls.  An operation of a call names the row, the columns it sets, and   *)
(* the rows it refers to.                                                   *)

Operation(verb, kind, row, columns, refs) ==
  [verb |-> verb, kind |-> kind, row |-> row, refs |-> refs,
   sets |-> [x \in Columns |-> IF x \in DOMAIN columns THEN columns[x] ELSE SAME]]

Start(c, todo, file) ==
  /\ calls' = calls + 1
  /\ tx' = [tx EXCEPT ![c] = [Idle EXCEPT !.pc = "read", !.call = calls + 1,
                                          !.todo = todo, !.file = file]]
  /\ UNCHANGED <<db, history, reads>>

Call(c, verb, kind, row, sets, refs) ==
  Start(c, <<Operation(verb, kind, row, sets, refs)>>, NoFile)

May(c, capability) ==
  /\ ~Open(c) /\ calls < MaxCalls
  /\ hasCapability(roleOf[c], capability)

\* Rows that a page can name: they exist, or did.
Known(kind) == {r \in RowsOf[kind] : db[r] # NoRow \/ history[r] # <<>>}

\* The row that the next INSERT makes.
Unused(kind) ==
  {r \in RowsOf[kind] \ Known(kind) :
     \A d \in Callers :
       ~Drafted(d, r) /\ \A i \in DOMAIN tx[d].todo : tx[d].todo[i].row # r}

NewRow(kind) == CHOOSE r \in Unused(kind) : TRUE

create(c, kind, sets, refs) ==
  Unused(kind) # {} /\ Call(c, "create", kind, NewRow(kind), sets, refs)

Form(in, columns) == [x \in columns |-> in[x]]
Named == {"key", "data", "active"}

setActive(c, kind) ==
  \E r \in Known(kind), on \in {YES, NO} :
    Call(c, "update", kind, r, [active |-> on], {})

createCategory(c) == \E in \in Forms : create(c, "Category", Form(in, Named), {})
updateCategory(c) ==
  \E r \in Known("Category"), in \in Forms :
    Call(c, "update", "Category", r, Form(in, Named), {})
setCategoryActive(c) == setActive(c, "Category")

createUnitOfMeasure(c) ==
  \E in \in Forms : create(c, "UnitOfMeasure", Form(in, Named), {})
updateUnitOfMeasure(c) ==
  \E r \in Known("UnitOfMeasure"), in \in Forms :
    Call(c, "update", "UnitOfMeasure", r, Form(in, Named), {})
setUnitOfMeasureActive(c) == setActive(c, "UnitOfMeasure")

ProductForm(in, g) ==
  [x \in Named \cup {"extra", "parent"} |-> IF x = "parent" THEN g ELSE in[x]]

createProduct(c) ==
  \E in \in Forms, g \in RowsOf["Category"] :
    create(c, "Product", ProductForm(in, g), {g})
updateProduct(c) ==
  \E r \in Known("Product"), in \in Forms, g \in RowsOf["Category"] :
    Call(c, "update", "Product", r, ProductForm(in, g), {g})
setProductActive(c) == setActive(c, "Product")

UnitForm(in, m) ==
  [x \in Named \cup {"other"} |-> IF x = "other" THEN m ELSE in[x]]

\* The product of a unit is set when it is created, and never again.
createProductUnit(c) ==
  \E in \in Forms, p \in RowsOf["Product"], m \in RowsOf["UnitOfMeasure"] :
    create(c, "ProductUnit",
           [x \in Named \cup {"other", "parent"} |->
              IF x = "parent" THEN p ELSE UnitForm(in, m)[x]], {p, m})
updateProductUnit(c) ==
  \E r \in Known("ProductUnit"), in \in Forms, m \in RowsOf["UnitOfMeasure"] :
    Call(c, "update", "ProductUnit", r, UnitForm(in, m), {m})
setProductUnitActive(c) == setActive(c, "ProductUnit")

createPriceList(c) == \E in \in Forms : create(c, "PriceList", Form(in, Named), {})
updatePriceList(c) ==
  \E r \in Known("PriceList"), in \in Forms :
    Call(c, "update", "PriceList", r, Form(in, Named), {})
setPriceListActive(c) == setActive(c, "PriceList")

createPriceListItem(c) ==
  \E in \in Forms, l \in RowsOf["PriceList"], u \in RowsOf["ProductUnit"] :
    create(c, "PriceListItem",
           [key |-> <<l, u>>, parent |-> l, other |-> u, data |-> in.data], {l, u})
updatePriceListItem(c) ==
  \E r \in Known("PriceListItem"), in \in Forms :
    Call(c, "update", "PriceListItem", r, Form(in, {"data"}), {})
deletePriceListItem(c) ==
  \E r \in Known("PriceListItem") :
    Call(c, "delete", "PriceListItem", r, NoRow, {})

createCustomer(c) ==
  \E in \in Forms : create(c, "Customer", Form(in, Named \cup {"extra"}), {})
updateCustomer(c) ==
  \E r \in Known("Customer"), in \in Forms :
    Call(c, "update", "Customer", r, Form(in, Named \cup {"extra"}), {})
updateCustomerContactInfo(c) ==
  \E r \in Known("Customer"), in \in Forms :
    Call(c, "update", "Customer", r, Form(in, {"extra"}), {})
setCustomerActive(c) == setActive(c, "Customer")
setCustomerDiscount(c) ==
  \E r \in Known("Customer"), in \in Forms :
    Call(c, "update", "Customer", r, [discount |-> in.data], {})

\* An assignment is found by its customer and an override by its customer and
\* product, which also name its row here.
setCustomerPriceListAssignment(c) ==
  \E k \in RowsOf["Customer"] :
    /\ <<k>> \in RowsOf["Assignment"]
    /\ \/ \E l \in RowsOf["PriceList"] :
            Call(c, "upsert", "Assignment", <<k>>,
                 [key |-> k, parent |-> k, other |-> l], {k, l})
       \/ Call(c, "clear", "Assignment", <<k>>, NoRow, {k})

setCustomerProductVisibility(c) ==
  \E k \in RowsOf["Customer"], p \in RowsOf["Product"] :
    /\ <<k, p>> \in RowsOf["Visibility"]
    /\ \/ \E v \in {VISIBLE, HIDDEN} :
            Call(c, "upsert", "Visibility", <<k, p>>,
                 [key |-> <<k, p>>, parent |-> k, other |-> p, data |-> v], {k, p})
       \/ Call(c, "clear", "Visibility", <<k, p>>, NoRow, {k, p})

-----------------------------------------------------------------------------
(* Imports.  A file has a kind, the optional columns its header names, and  *)
(* rows of cells: what normalizeRow makes of them, or NULL.                 *)

\* A key that another row has too: an error on every row that has it.
Repeated(f, i) ==
  \E j \in DOMAIN f.rows \ {i} :
    f.rows[j] # NULL /\ f.rows[j]["key"] = f.rows[i]["key"]

Accepted(f, i) == f.rows[i] # NULL /\ ~Repeated(f, i)

confirmImport(c) == \E f \in Files : Start(c, <<>>, f)

\* The tables that the codes in the parent and other cells are looked up in.
LookedUp(kind) ==
  CASE kind = "Product"       -> [parent |-> "Category"]
    [] kind = "ProductUnit"   -> [parent |-> "Product", other |-> "UnitOfMeasure"]
    [] kind = "PriceListItem" -> [parent |-> "PriceList", other |-> "ProductUnit"]
    [] OTHER                  -> NoRow

\* The columns that diff compares.
Compared(kind) ==
  CASE kind = "Product"       -> {"data", "active", "parent"}
    [] kind = "ProductUnit"   -> {"data", "active", "other"}
    [] kind = "PriceListItem" -> {"data"}
    [] kind = "Customer"      -> {"data", "active", "extra"}
    [] OTHER                  -> {"data", "active"}

\* The cells with every code replaced by the row it was found to be.
Resolved(c, cells, kind) ==
  LET found(x) == CHOOSE r \in ByKey(c, LookedUp(kind)[x], cells[x]) : TRUE
  IN  [x \in Columns |->
         IF x \in DOMAIN LookedUp(kind) THEN found(x)
         ELSE IF x = "key" /\ kind = "PriceListItem"
              THEN <<found("parent"), found("other")>> ELSE cells[x]]

ReferencesFound(c, cells, kind) ==
  \A x \in DOMAIN LookedUp(kind) : ByKey(c, LookedUp(kind)[x], cells[x]) # {}

\* The columns that a file may lack.
Optional(kind) ==
  CASE kind = "PriceListItem" -> {}
    [] kind = "PriceList"     -> {"active", "data"}
    [] kind = "Customer"      -> {"active", "extra", "discount"}
    [] OTHER                  -> {"active"}

updateData_EveryColumn(f, cells, row) == [x \in Compared(f.kind) |-> cells[x]]

\* diff: what the row will be, from the file or else from the row.
updateData(f, cells, row) ==
  [x \in Compared(f.kind) |->
     IF x \in Optional(f.kind) \ f.present THEN row[x] ELSE cells[x]]

changed_AbsentToo(f, cells, row) ==
  \E x \in Compared(f.kind) : cells[x] # row[x]

changed(f, cells, row) ==
  \/ \E x \in Compared(f.kind) : updateData(f, cells, row)[x] # row[x]
  \/ "discount" \in f.present /\ cells["discount"] # row["discount"]

\* The operations that write a row of the file: customers have their discount
\* set by a second one.
Discount(f, cells, row) ==
  IF "discount" \in f.present
  THEN <<Operation("update", "Customer", row, [discount |-> cells["discount"]], {})>>
  ELSE <<>>

\* The columns that an update of an import writes: all that are compared, the
\* key, but for a price's, and the image of a product.
Saved(kind) ==
  CASE kind = "PriceListItem" -> Compared(kind)
    [] kind = "Product"       -> Compared(kind) \cup {"key", "extra"}
    [] OTHER                  -> Compared(kind) \cup {"key"}

\* A file has no column for the image, which becomes null.
Saves(f, cells, row) ==
  [x \in Saved(f.kind) |->
     IF x \in Compared(f.kind) THEN updateData(f, cells, row)[x]
     ELSE IF x = "key" THEN cells["key"] ELSE NULL]

executeUpdate(f, cells, row, before) ==
  <<Operation("update", f.kind, row, Saves(f, cells, before),
              {cells[x] : x \in DOMAIN LookedUp(f.kind) \cap Compared(f.kind)})>>
    \o Discount(f, cells, row)

executeCreate(f, cells, row) ==
  <<Operation("create", f.kind, row,
              [x \in Compared(f.kind) \cup {"key"} \cup DOMAIN LookedUp(f.kind) |->
                 cells[x]],
              {cells[x] : x \in DOMAIN LookedUp(f.kind)})>>
    \o Discount(f, cells, row)

\* What the driver plans for a row that normalizeRow accepted: its status, and
\* the operations that carry it out.
Plan(status, todo) == [status |-> status, todo |-> todo]

PlanRow(c, f, i) ==
  LET cells == Resolved(c, f.rows[i], f.kind)
      existing == ByKey(c, f.kind, cells["key"])
      r == CHOOSE r \in existing : TRUE
      row == View(c, r)
  IN  IF ~Accepted(f, i) \/ ~ReferencesFound(c, f.rows[i], f.kind)
      THEN Plan("ERROR", <<>>)
      ELSE IF existing = {}
      THEN Plan("CREATE", executeCreate(f, cells, NewRow(f.kind)))
      ELSE IF f.kind = "ProductUnit" /\ row["parent"] # cells["parent"]
      THEN Plan("ERROR", <<>>)
      ELSE IF changed(f, cells, row)
      THEN Plan("UPDATE", executeUpdate(f, cells, r, row))
      ELSE Plan("NO_CHANGE", <<>>)

-----------------------------------------------------------------------------
(* The steps of a transaction.                                              *)

Go(c, record) == tx' = [tx EXCEPT ![c] = record]

Abort(c) == Go(c, Idle) /\ UNCHANGED <<db, history, calls, reads>>

AtOperation(c) == tx[c].pc = "read" /\ tx[c].todo # <<>>

\* The row of the file that comes next, and whether there is one.
NextRow(c) == Len(tx[c].plan) + 1
RowsLeft(c) == NextRow(c) <= Len(tx[c].file.rows)

ImportRow(c) ==
  /\ tx[c].pc = "read" /\ tx[c].todo = <<>> /\ RowsLeft(c)
  /\ LET plan == PlanRow(c, tx[c].file, NextRow(c))
     IN  /\ plan.status = "CREATE" => Unused(tx[c].file.kind) # {}
         /\ Go(c, [tx[c] EXCEPT !.todo = plan.todo,
                                 !.plan = Append(@, plan.status)])
  /\ UNCHANGED <<db, history, calls, reads>>

Found_RowOnly(c) ==
  Op(c).verb \in {"update", "delete"} => Sees(c, Op(c).row)

\* assert...BelongsToTenant, and findUniqueOrThrow where there must be a row.
Found(c) ==
  /\ \A r \in Op(c).refs : Sees(c, r)
  /\ Op(c).verb \in {"update", "delete"} => Sees(c, Op(c).row)

NothingToClear(c) == Op(c).verb = "clear" /\ View(c, Op(c).row) = NoRow

ReadRow(c) ==
  /\ AtOperation(c)
  /\ Found(c)
  /\ IF NothingToClear(c)
     THEN Go(c, [tx[c] EXCEPT !.todo = Tail(@)])
     ELSE Go(c, [tx[c] EXCEPT !.pc = "write", !.before = View(c, Op(c).row)])
  /\ UNCHANGED <<db, history, calls, reads>>

RefuseRow(c) ==
  /\ AtOperation(c)
  /\ ~Found(c)
  /\ Abort(c)

Turn(c) == tx[c].pc = "write" /\ ~\E d \in Callers : WaitsFor(c, d)

\* The row was deleted since it was read, the key is taken, or the row that an
\* upsert would update is another tenant's.
Conflict(c) ==
  \/ Op(c).verb \in {"update", "delete", "clear"} /\ View(c, Op(c).row) = NoRow
  \/ View(c, Op(c).row) # NoRow /\ ~Sees(c, Op(c).row)
  \/ Duplicate(c)

Written_OntoRead(c) ==
  IF Op(c).verb \in {"delete", "clear"} THEN NoRow
  ELSE IF tx[c].before # NoRow THEN Merge(Op(c).sets, tx[c].before)
  ELSE Merge(Op(c).sets, [Blank EXCEPT !["tenant"] = tenantOf[c]])

Written(c) ==
  LET row == View(c, Op(c).row)
      sets == Op(c).sets
  IN  IF Op(c).verb \in {"delete", "clear"} THEN NoRow
      ELSE IF row # NoRow THEN Merge(sets, row)
      ELSE Merge(sets, [Blank EXCEPT !["tenant"] = tenantOf[c]])

\* Only a discount is told on its own.
Tells(sets, row) ==
  IF row # NoRow /\ Set(sets) = {"discount"}
  THEN [x \in Columns |-> IF x = "discount" THEN row[x] ELSE SAME]
  ELSE row

Entry_OldAfterWrite(c) ==
  [old |-> Tells(Op(c).sets, Written(c)), new |-> Tells(Op(c).sets, Written(c)),
   set |-> Set(Op(c).sets), by |-> tx[c].call]

Entry_NewFromRead(c) ==
  LET read == tx[c].before
  IN  [old |-> read, set |-> Set(Op(c).sets), by |-> tx[c].call,
       new |-> IF Op(c).verb = "update" THEN Merge(Op(c).sets, read)
               ELSE Written(c)]

Entry(c) ==
  [old |-> Tells(Op(c).sets, tx[c].before), new |-> Tells(Op(c).sets, Written(c)),
   set |-> Set(Op(c).sets), by |-> tx[c].call]

WriteRow_StaysWriting(c) ==
  /\ Turn(c) /\ ~Conflict(c)
  /\ Go(c, [tx[c] EXCEPT !.todo = Tail(@), !.wrote = @ \cup {Op(c).row},
                         !.draft[Op(c).row] = Written(c)])
  /\ UNCHANGED <<db, history, calls, reads>>

WriteRow(c) ==
  /\ Turn(c) /\ ~Conflict(c)
  /\ LET r == Op(c).row
     IN  Go(c, [tx[c] EXCEPT !.pc = "read", !.todo = Tail(@),
                              !.wrote = @ \cup {r}, !.draft[r] = Written(c),
                              !.told[r] = Append(@, Entry(c))])
  /\ UNCHANGED <<db, history, calls, reads>>

RefuseWrite(c) ==
  /\ Turn(c) /\ Conflict(c)
  /\ Abort(c)

\* PostgreSQL aborts a transaction of a cycle.
Deadlocked(c) ==
  \E d \in Callers :
    /\ WaitsFor(c, d)
    /\ \/ WaitsFor(d, c)
       \/ \E e \in Callers : WaitsFor(d, e) /\ WaitsFor(e, c)

BreakDeadlock(c) == Deadlocked(c) /\ Abort(c)

\* What a buyer may not be shown, whatever its price.
Product(u) == db[u]["parent"]
Override(b) == db[<<customerOf[b], Product(unitOf[b])>>]
Assignment(b) == db[<<customerOf[b]>>]

Withheld(b) ==
  {why \in {"customer", "unit", "product", "hidden", "unassigned"} :
     CASE why = "customer"   -> db[customerOf[b]]["active"] = NO
       [] why = "unit"       -> db[unitOf[b]]["active"] = NO
       [] why = "product"    -> db[Product(unitOf[b])]["active"] = NO
       [] why = "hidden"     -> Override(b) # NoRow /\ Override(b)["data"] = HIDDEN
       [] why = "unassigned" -> Assignment(b) = NoRow}

Reading(b) == reads[b].pc \notin {"idle", "done"}

Commit(c) ==
  /\ tx[c].pc = "read" /\ tx[c].todo = <<>> /\ ~RowsLeft(c)
  /\ db' = [r \in Rows |-> View(c, r)]
  /\ history' = [r \in Rows |-> history[r] \o tx[c].told[r]]
  /\ tx' = [d \in Callers |-> IF d = c THEN Idle
                              ELSE IF Open(d) THEN [tx[d] EXCEPT !.quiet = FALSE]
                              ELSE tx[d]]
  /\ reads' = [b \in Readers |->
                 IF Reading(b)
                 THEN [reads[b] EXCEPT !.quiet = FALSE,
                                       !.withheld = @ \cap Withheld(b)']
                 ELSE reads[b]]
  /\ UNCHANGED calls

\* The transaction times out, or its connection or process is lost.
Fail(c) == Open(c) /\ Abort(c)

-----------------------------------------------------------------------------
(* The price of a unit, for a buyer: the catalog lists the active units,    *)
(* then resolveEffectivePrice reads one table after the other.              *)

Read(b, allowed, next, record) ==
  /\ reads' = [reads EXCEPT ![b] = [record EXCEPT !.pc = IF allowed THEN next
                                                         ELSE "done"]]
  /\ UNCHANGED <<db, history, tx>>

\* Go on with the next table if the last allows it, or offer nothing.
GoOn(b, pc, allowed, next, record) ==
  reads[b].pc = pc /\ Read(b, allowed, next, record) /\ UNCHANGED calls

listBuyerCatalog(b) ==
  /\ ~Reading(b) /\ calls < MaxCalls
  /\ calls' = calls + 1
  /\ Read(b, {"unit", "product"} \cap Withheld(b) = {}, "customer",
          [NoRead EXCEPT !.withheld = Withheld(b)])

ReadCustomer(b) ==
  GoOn(b, "customer", "customer" \notin Withheld(b), "unit",
       [reads[b] EXCEPT !.discount = db[customerOf[b]]["discount"]])

ReadUnit(b) == GoOn(b, "unit", "unit" \notin Withheld(b), "product", reads[b])

ReadProduct(b) ==
  GoOn(b, "product", "product" \notin Withheld(b), "visibility", reads[b])

ReadVisibility_Unchecked(b) ==
  GoOn(b, "visibility", TRUE, "assignment", reads[b])

ReadVisibility(b) ==
  GoOn(b, "visibility", "hidden" \notin Withheld(b), "assignment", reads[b])

ReadAssignment(b) ==
  LET assigned == "unassigned" \notin Withheld(b)
  IN  GoOn(b, "assignment", assigned, "list",
           [reads[b] EXCEPT !.list = IF assigned THEN Assignment(b)["other"] ELSE NULL])

ReadList_Inactive(b) ==
  LET list == reads[b].list
  IN  GoOn(b, "list", list # NULL, "item",
           [reads[b] EXCEPT !.currency = IF list = NULL THEN NULL ELSE db[list]["data"]])

ReadList(b) ==
  LET list == reads[b].list
  IN  GoOn(b, "list", list # NULL /\ db[list]["active"] = YES, "item",
           [reads[b] EXCEPT !.currency = IF list = NULL THEN NULL ELSE db[list]["data"]])

Priced(list, unit) ==
  {r \in RowsOf["PriceListItem"] : db[r] # NoRow /\ db[r]["key"] = <<list, unit>>}

Offer(price, discount, currency) ==
  [price |-> price, discount |-> discount, currency |-> currency]

ReadItem(b) ==
  LET priced == Priced(reads[b].list, unitOf[b])
      price == db[CHOOSE r \in priced : TRUE]["data"]
  IN  GoOn(b, "item", priced # {}, "done",
           [reads[b] EXCEPT !.offer = IF priced = {} THEN NULL
              ELSE Offer(price, reads[b].discount, reads[b].currency)])

-----------------------------------------------------------------------------
categoriesActions(c) ==
  May(c, "catalog:write")
    /\ (createCategory(c) \/ updateCategory(c) \/ setCategoryActive(c))

unitsActions(c) ==
  May(c, "catalog:write")
    /\ (createUnitOfMeasure(c) \/ updateUnitOfMeasure(c) \/ setUnitOfMeasureActive(c))

productsActions(c) ==
  May(c, "catalog:write")
    /\ (createProduct(c) \/ updateProduct(c) \/ setProductActive(c))

productUnitsActions(c) ==
  May(c, "catalog:write")
    /\ (createProductUnit(c) \/ updateProductUnit(c) \/ setProductUnitActive(c))

priceListsActions(c) ==
  May(c, "pricing:write")
    /\ (createPriceList(c) \/ updatePriceList(c) \/ setPriceListActive(c))

priceListItemsActions(c) ==
  May(c, "pricing:write")
    /\ (createPriceListItem(c) \/ updatePriceListItem(c) \/ deletePriceListItem(c))

\* A sales representative saves the same form, and only the contact is taken.
customersActions(c) ==
  \/ May(c, "customers:write:full") /\ (createCustomer(c) \/ updateCustomer(c))
  \/ May(c, "customers:write:limited") /\ updateCustomerContactInfo(c)
  \/ May(c, "customers:activate") /\ setCustomerActive(c)

customerPricingActions(c) ==
  May(c, "pricing:write")
    /\ (setCustomerPriceListAssignment(c) \/ setCustomerDiscount(c))

visibilityActions(c) ==
  May(c, "customer-visibility:write") /\ setCustomerProductVisibility(c)

importsActions(c) == May(c, "imports:manage") /\ confirmImport(c)

Request(c) ==
  \/ categoriesActions(c) \/ unitsActions(c) \/ productsActions(c)
  \/ productUnitsActions(c) \/ priceListsActions(c) \/ priceListItemsActions(c)
  \/ customersActions(c) \/ customerPricingActions(c) \/ visibilityActions(c)
  \/ importsActions(c)

Step(c) ==
  \/ ImportRow(c) \/ ReadRow(c) \/ RefuseRow(c) \/ WriteRow(c) \/ RefuseWrite(c)
  \/ BreakDeadlock(c) \/ Commit(c)

Look(b) ==
  \/ ReadCustomer(b) \/ ReadUnit(b) \/ ReadProduct(b) \/ ReadVisibility(b)
  \/ ReadAssignment(b) \/ ReadList(b) \/ ReadItem(b)

\* Everything was done that the bounds allow.
Rest ==
  /\ calls = MaxCalls /\ \A c \in Callers : ~Open(c)
  /\ \A b \in Readers : ~Reading(b)
  /\ UNCHANGED vars

Next ==
  \/ \E c \in Callers : Request(c) \/ Step(c) \/ Fail(c)
  \/ \E b \in Readers : listBuyerCatalog(b) \/ Look(b)
  \/ Rest

Spec == Init /\ [][Next]_vars
=============================================================================
