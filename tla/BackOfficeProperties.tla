------------------------ MODULE BackOfficeProperties ------------------------
(* What the back office's transactions guarantee, whatever overlaps, and    *)
(* one thing that its import promises and does not do.                      *)
EXTENDS BackOffice

Sets == [Columns -> Content \cup {SAME}]
RowOrNone == Row \cup {NoRow}
Operations ==
  [verb : {"create", "update", "delete", "upsert", "clear"}, kind : Kinds,
   row : Rows, refs : SUBSET Solid, sets : Sets]
Entries ==
  [old : Sets \cup {NoRow}, new : Sets \cup {NoRow}, set : SUBSET Columns, by : Nat]
Status == {"CREATE", "UPDATE", "NO_CHANGE", "ERROR"}
Transactions ==
  [pc : {"idle", "read", "write"}, call : Nat, todo : Seq(Operations),
   before : RowOrNone, wrote : SUBSET Rows, draft : [Rows -> RowOrNone],
   told : [Rows -> Seq(Entries)], file : Files \cup {NoFile}, plan : Seq(Status),
   quiet : BOOLEAN]
Reasons == {"customer", "unit", "product", "hidden", "unassigned"}
Prices ==
  [pc : {"idle", "customer", "unit", "product", "visibility", "assignment", "list",
         "item", "done"},
   discount : Content, list : Solid \cup {NULL}, currency : Content,
   offer : Offers \cup {NULL}, withheld : SUBSET Reasons, quiet : BOOLEAN]

\* Every variable holds what its comment says; a transaction has one statement
\* to run when it waits to write, and only rows it wrote have drafts.
TypeOK ==
  /\ db \in [Rows -> RowOrNone]
  /\ history \in [Rows -> Seq(Entries)]
  /\ calls \in 0..MaxCalls
  /\ tx \in [Callers -> Transactions]
  /\ \A c \in Callers : tx[c].pc = "write" => tx[c].todo # <<>>
  /\ reads \in [Readers -> Prices]

\* A reference never leads to another tenant: foreign keys do not check it,
\* the look-ups before each write do (assertCategoryBelongsToTenant and the
\* like), for every order in which forms and imports write.
RefsWithinTenant ==
  \A r \in Rows : db[r] # NoRow =>
    \A x \in References :
      db[r][x] # NULL =>
        /\ db[db[r][x]] # NoRow
        /\ db[db[r][x]]["tenant"] = db[r]["tenant"]

\* A row after an audit entry that says it became new.
After(new, row) == IF new = NoRow \/ row = NoRow THEN new ELSE Merge(new, row)

\* Row r after its first n audit entries.
Replayed(r, n) ==
  LET after[k \in 0..n] ==
        IF k = 0 THEN Seed[r] ELSE After(history[r][k].new, after[k - 1])
  IN  after[n]

\* The audit log tells all that happened to a row: replaying its entries
\* gives the row, although each was written from a row read without a lock.
AuditReplays == \A r \in Rows : Replayed(r, Len(history[r])) = db[r]

\* The step commits what c wrote.
Committed(c) ==
  Open(c) /\ tx[c].todo = <<>> /\ ~RowsLeft(c) /\ ~Open(c)' /\ history' # history

\* The old value of an entry is the row as it was, if nobody else committed
\* since the call began (writeAuditLogEntry's oldValue is read before the
\* write, without a lock).
AuditTellsOld ==
  [][\A c \in Callers : Committed(c) /\ tx[c].quiet =>
       \A r \in Rows : tx[c].told[r] # <<>> =>
         LET old == Head(tx[c].told[r]).old
         IN  IF old = NoRow \/ db[r] = NoRow THEN old = db[r]
             ELSE \A x \in Set(old) : old[x] = db[r][x]]_vars

\* What a sales representative saves changes the contact of a customer and no
\* other column or row, whatever was committed since the form's row was read:
\* "never code/name/isActive/etc." (updateCustomerContactInfo).
OnlyContact ==
  [][\A c \in Callers : Committed(c) /\ roleOf[c] = "SALES_REP" =>
       \A r \in Rows : db'[r] # db[r] =>
         /\ kindOf[r] = "Customer" /\ db[r] # NoRow /\ db'[r] # NoRow
         /\ \A x \in Columns \ {"extra"} : db'[r][x] = db[r][x]]_vars

Imported(c) == Committed(c) /\ tx[c].quiet /\ tx[c].file # NoFile

\* What diff compares is what executeUpdate writes: a file that was imported
\* while nobody else wrote would change nothing if it were imported again.
ImportSettles ==
  [][\A c \in Callers : Imported(c) => \A f \in {tx[c].file} :
       \A i \in DOMAIN f.rows :
         PlanRow(c, f, i)'.status \in {"NO_CHANGE", "ERROR"}]_vars

KeptBy(f, r, columns) ==
  kindOf[r] = f.kind /\ db[r] # NoRow =>
    \A x \in columns \ f.present : db'[r][x] = db[r][x]

\* A column that a file does not have keeps its value in every row that the
\* file updates while nobody else writes.
AbsentColumnsKept ==
  [][\A c \in Callers : Imported(c) => \A f \in {tx[c].file} :
       \A r \in Rows : KeptBy(f, r, Optional(f.kind))]_vars

\* A column absent from the header leaves the existing value untouched
\* (driver.ts:33), also while others write: what was committed after resolve
\* read the row is not undone.
AbsentColumnsUntouched ==
  [][\A c \in Callers : Committed(c) /\ tx[c].file # NoFile =>
       \A f \in {tx[c].file} : \A r \in Rows : KeptBy(f, r, Optional(f.kind))]_vars

\* What a buyer's price is by the rules of pricing-resolution.ts.
Quote(b) ==
  LET prices == {i \in RowsOf["PriceListItem"] :
                   /\ db[i] # NoRow
                   /\ db[i]["parent"] = Assignment(b)["other"]
                   /\ db[i]["other"] = unitOf[b]}
      list == db[Assignment(b)["other"]]
  IN  IF Withheld(b) # {} THEN {}
      ELSE {Offer(db[i]["data"], db[customerOf[b]]["discount"], list["data"]) :
              i \in {i \in prices : list["active"] = YES}}

\* A price that was read while nobody wrote is the price by the rules, and
\* there is none if the rules give none.
QuietOfferExact ==
  [][\A b \in Readers :
       Reading(b) /\ ~Reading(b)' /\ reads[b].quiet =>
         Quote(b) = {reads'[b].offer} \ {NULL}]_vars

\* A buyer is never offered what was withheld all the time that the price was
\* read, by a customer, unit or product that is switched off, by an override or
\* for want of a price list, whatever was written between the reads.
NoOfferWhileWithheld ==
  \A b \in Readers : reads[b].offer # NULL => reads[b].withheld = {}

=============================================================================
