-------------------------- MODULE CustomerAddresses --------------------------
(***************************************************************************)
(* The addresses of one customer: the seller's forms                       *)
(* (lib/domain/customers/customer-address-service.ts) and the CSV import   *)
(* (lib/domain/import/driver.ts), which saves through the same functions.  *)
(*                                                                         *)
(* A call is one READ COMMITTED transaction.  A form saves one row; a file *)
(* resolves its rows in order, each against what the transaction has       *)
(* written so far, and saves those that create or change an address.       *)
(* Saving a default address takes three statements: the row is written, a  *)
(* second UPDATE finds the other defaults, and clears each when it has its *)
(* lock.  mine holds what a transaction wrote, until it commits.           *)
(*                                                                         *)
(* isDefault stands for isDefaultDelivery and isDefaultBilling, which are  *)
(* treated alike, and isActive also for the columns without a rule.        *)
(* A definition named X_Y, before X, is X with a bug.                      *)
(***************************************************************************)
EXTENDS Naturals, Sequences

CONSTANTS
  Ids, Labels,
  Forms,   \* what a form can hold
  Files,   \* the files that can be imported
  Callers, \* seller sessions, each with one call at a time
  NULL

Address == [label: Labels, isDefault: BOOLEAN, isActive: BOOLEAN]

\* A row that fails the schema is NULL; one with an unknown word for true or
\* false is not ok.  A file has the two columns or not.
Row == [label: Labels, isDefault: BOOLEAN, isActive: BOOLEAN, ok: BOOLEAN]
File == [rows: Seq(Row \cup {NULL}), hasDefault: BOOLEAN, hasActive: BOOLEAN]

Call ==
  [op: {"create"}, form: Forms]
  \cup [op: {"update"}, id: Ids, form: Forms]
  \cup [op: {"setActive"}, id: Ids, isActive: BOOLEAN]
  \cup [op: {"import"}, file: Files]

ASSUME CustomerAddressesAssumption ==
  /\ Forms \subseteq Address
  /\ Files \subseteq File
  /\ NULL \notin Address \cup Row \cup Ids \cup Call

VARIABLES
  address,   \* committed rows, NULL for an id not in use
  pc, call,
  at,        \* the file's next row
  id, form,  \* the address to save (NULL: a new one), and what is written to it
  mine,      \* the rows the transaction wrote
  others,    \* the other defaults, still to be cleared
  overlapped \* history: a call has begun while another was under way

local == <<pc, call, at, id, form, mine, others>>
vars == <<address, local, overlapped>>

-----------------------------------------------------------------------------
(* The plan of a file.                                                     *)

\* Rows without an error: with a key that no other row has.
Accepted_Repeated(f) == {k \in 1..Len(f.rows) : f.rows[k] # NULL /\ f.rows[k].ok}
Accepted(f) ==
  {k \in 1..Len(f.rows) :
    /\ f.rows[k] # NULL /\ f.rows[k].ok
    /\ \A j \in 1..Len(f.rows) \ {k} : f.rows[j] = NULL \/ f.rows[j].label # f.rows[k].label}

\* The rows that have a label.
Matches(rows, l) == {i \in DOMAIN rows : rows[i] # NULL /\ rows[i].label = l}

\* normalizeRow's defaults for columns that the file does not have, and diff's.
NewAddress(f, k) ==
  [label |-> f.rows[k].label,
   isDefault |-> f.hasDefault /\ f.rows[k].isDefault,
   isActive |-> f.hasActive => f.rows[k].isActive]
Merged_DefaultsAbsent(f, k, existing) == NewAddress(f, k)
Merged(f, k, existing) ==
  [label |-> f.rows[k].label,
   isDefault |-> IF f.hasDefault THEN f.rows[k].isDefault ELSE existing.isDefault,
   isActive |-> IF f.hasActive THEN f.rows[k].isActive ELSE existing.isActive]

\* The status of row k in a plan made while rows are seen.
RowStatus(f, k, rows) ==
  IF k \notin Accepted(f) THEN "ERROR"
  ELSE IF Matches(rows, f.rows[k].label) = {} THEN "CREATE"
  ELSE IF \E i \in Matches(rows, f.rows[k].label) : Merged(f, k, rows[i]) = rows[i] THEN "NO_CHANGE"
  ELSE "UPDATE"

-----------------------------------------------------------------------------
(* Transactions.                                                           *)

NoRows == [i \in {} |-> NULL]

\* What the statements of c's transaction see.
view(c) == [i \in Ids |-> IF i \in DOMAIN mine[c] THEN mine[c][i] ELSE address[i]]

Wrote(c, i, a) ==
  mine' = [mine EXCEPT ![c] = [j \in DOMAIN mine[c] \cup {i} |-> IF j = i THEN a ELSE mine[c][j]]]

\* Other transactions' uncommitted writes hold their rows, and the labels that
\* these rows get or lose.
RowHeldBy_Anyone(c, i, d) == i \in DOMAIN mine[d]
RowHeldBy(c, i, d) == d # c /\ i \in DOMAIN mine[d]
LabelHeldBy(c, l, d) ==
  d # c /\ \E i \in DOMAIN mine[d] : mine[d][i].label = l \/ (address[i] # NULL /\ address[i].label = l)
RowHeld(c, i) == \E d \in Callers : RowHeldBy(c, i, d)
LabelHeld(c, l) == \E d \in Callers : LabelHeldBy(c, l, d)

Init ==
  /\ address = [i \in Ids |-> NULL]
  /\ pc = [c \in Callers |-> "idle"]
  /\ call = [c \in Callers |-> NULL]
  /\ at = [c \in Callers |-> 1]
  /\ id = [c \in Callers |-> NULL]
  /\ form = [c \in Callers |-> NULL]
  /\ mine = [c \in Callers |-> NoRows]
  /\ others = [c \in Callers |-> {}]
  /\ overlapped = FALSE

Begin(c, k, stage, i, a) ==
  /\ pc[c] = "idle"
  /\ pc' = [pc EXCEPT ![c] = stage]
  /\ call' = [call EXCEPT ![c] = k]
  /\ id' = [id EXCEPT ![c] = i]
  /\ form' = [form EXCEPT ![c] = a]
  /\ overlapped' = (overlapped \/ \E d \in Callers : pc[d] # "idle")
  /\ UNCHANGED <<address, at, mine, others>>

\* The addresses that a page offers for an edit are committed ones.
createCustomerAddress(c) ==
  \E a \in Forms : Begin(c, [op |-> "create", form |-> a], "saving", NULL, a)
updateCustomerAddress(c) ==
  \E i \in Ids, a \in Forms :
    address[i] # NULL /\ Begin(c, [op |-> "update", id |-> i, form |-> a], "saving", i, a)
setCustomerAddressActive(c) ==
  \E i \in Ids, b \in BOOLEAN :
    /\ address[i] # NULL
    /\ Begin(c, [op |-> "setActive", id |-> i, isActive |-> b], "setting", i,
             [address[i] EXCEPT !.isActive = b])
confirmImport(c) ==
  \E f \in Files : Begin(c, [op |-> "import", file |-> f], "planning", NULL, NULL)

\* The transaction ends.  What it wrote is gone, or was committed.
End(c) ==
  /\ pc' = [pc EXCEPT ![c] = "idle"]
  /\ call' = [call EXCEPT ![c] = NULL]
  /\ at' = [at EXCEPT ![c] = 1]
  /\ id' = [id EXCEPT ![c] = NULL]
  /\ form' = [form EXCEPT ![c] = NULL]
  /\ mine' = [mine EXCEPT ![c] = NoRows]
  /\ others' = [others EXCEPT ![c] = {}]
  /\ UNCHANGED overlapped

\* The form is saved, or the file's row: on to the next row, if there is one.
Saved(c) ==
  IF call[c].op = "import"
    THEN pc' = [pc EXCEPT ![c] = "planning"] /\ at' = [at EXCEPT ![c] = @ + 1]
  ELSE pc' = [pc EXCEPT ![c] = "done"] /\ UNCHANGED at

-----------------------------------------------------------------------------
(* Steps.                                                                  *)

\* Resolves the next row of the file, and saves it unless there is no need.
PlanRow(c) ==
  LET f == call[c].file
      k == at[c]
      l == f.rows[k].label
      save(i, a) ==
        /\ pc' = [pc EXCEPT ![c] = "saving"]
        /\ id' = [id EXCEPT ![c] = i]
        /\ form' = [form EXCEPT ![c] = a]
        /\ UNCHANGED at IN
  /\ pc[c] = "planning"
  /\ k <= Len(f.rows)
  /\ \/ /\ RowStatus(f, k, view(c)) \in {"ERROR", "NO_CHANGE"}
        /\ at' = [at EXCEPT ![c] = k + 1]
        /\ UNCHANGED <<pc, id, form>>
     \/ /\ RowStatus(f, k, view(c)) = "CREATE"
        /\ save(NULL, NewAddress(f, k))
     \/ /\ RowStatus(f, k, view(c)) = "UPDATE"
        /\ \E i \in Matches(view(c), l) : save(i, Merged(f, k, view(c)[i]))
  /\ UNCHANGED <<address, call, mine, others, overlapped>>

\* All rows of the file are done.
Planned(c) ==
  /\ pc[c] = "planning"
  /\ at[c] > Len(call[c].file.rows)
  /\ pc' = [pc EXCEPT ![c] = "done"]
  /\ UNCHANGED <<address, call, at, id, form, mine, others, overlapped>>

\* The INSERT or UPDATE of row i.
Writes(c, i) ==
  /\ Wrote(c, i, form[c])
  /\ id' = [id EXCEPT ![c] = i]
  /\ \/ form[c].isDefault /\ pc' = [pc EXCEPT ![c] = "defaulting"] /\ UNCHANGED at
     \/ ~form[c].isDefault /\ Saved(c)
  /\ UNCHANGED <<address, call, form, others, overlapped>>

\* DuplicateValueError, thrown out of the transaction.
Duplicate(c) == End(c) /\ UNCHANGED address

SameLabel(c) == Matches(view(c), form[c].label)
Unused(i) == address[i] = NULL /\ \A d \in Callers : i \notin DOMAIN mine[d]

InsertAddress(c) ==
  /\ pc[c] = "saving"
  /\ id[c] = NULL
  /\ ~LabelHeld(c, form[c].label)
  /\ \/ SameLabel(c) = {} /\ \E i \in Ids : Unused(i) /\ Writes(c, i)
     \/ SameLabel(c) # {} /\ Duplicate(c)

UpdateAddress(c) ==
  /\ pc[c] = "saving"
  /\ id[c] # NULL
  /\ ~RowHeld(c, id[c])
  /\ ~LabelHeld(c, form[c].label)
  /\ \/ SameLabel(c) \subseteq {id[c]} /\ Writes(c, id[c])
     \/ ~(SameLabel(c) \subseteq {id[c]}) /\ Duplicate(c)

\* Only the column isActive is written, not what was read of the others.
WriteActive_WholeRow(c) ==
  /\ pc[c] = "setting"
  /\ ~RowHeld(c, id[c])
  /\ Wrote(c, id[c], form[c])
  /\ Saved(c)
  /\ UNCHANGED <<address, call, id, form, others, overlapped>>
WriteActive(c) ==
  /\ pc[c] = "setting"
  /\ ~RowHeld(c, id[c])
  /\ Wrote(c, id[c], [view(c)[id[c]] EXCEPT !.isActive = form[c].isActive])
  /\ Saved(c)
  /\ UNCHANGED <<address, call, id, form, others, overlapped>>

\* clearOtherDefaults: its UPDATE sees what was committed when it begins ...
Defaults(rows) == {i \in DOMAIN rows : rows[i] # NULL /\ rows[i].isDefault}
OtherDefaults_Committed(c) == Defaults(address) \ {id[c]}
OtherDefaults(c) == Defaults(view(c)) \ {id[c]}

FindOthers(c) ==
  /\ pc[c] = "defaulting"
  /\ others' = [others EXCEPT ![c] = OtherDefaults(c)]
  /\ pc' = [pc EXCEPT ![c] = "clearing"]
  /\ UNCHANGED <<address, call, at, id, form, mine, overlapped>>

\* ... waits for each row, and looks again whether it is a default.
ClearOther(c) ==
  /\ pc[c] = "clearing"
  /\ \E i \in others[c] :
       /\ ~RowHeld(c, i)
       /\ others' = [others EXCEPT ![c] = @ \ {i}]
       /\ \/ view(c)[i].isDefault /\ Wrote(c, i, [view(c)[i] EXCEPT !.isDefault = FALSE])
          \/ ~view(c)[i].isDefault /\ UNCHANGED mine
  /\ UNCHANGED <<address, pc, call, at, id, form, overlapped>>

Cleared(c) ==
  /\ pc[c] = "clearing"
  /\ others[c] = {}
  /\ Saved(c)
  /\ UNCHANGED <<address, call, id, form, mine, others, overlapped>>

Commit(c) ==
  /\ pc[c] = "done"
  /\ address' = view(c)
  /\ End(c)

\* PostgreSQL ends one of the transactions that wait for each other in a circle.
WaitsFor(c, d) ==
  \/ pc[c] = "saving" /\ (LabelHeldBy(c, form[c].label, d) \/ RowHeldBy(c, id[c], d))
  \/ pc[c] = "setting" /\ RowHeldBy(c, id[c], d)
  \/ pc[c] = "clearing" /\ \E i \in others[c] : RowHeldBy(c, i, d)
Deadlocked(c) ==
  \E C \in SUBSET Callers :
    /\ c \in C
    /\ \A d \in C : /\ \E e \in C \ {d} : WaitsFor(d, e)
                    /\ \E e \in C \ {d} : WaitsFor(e, d)
Deadlock(c) == Deadlocked(c) /\ End(c) /\ UNCHANGED address

\* The transaction times out, a statement fails, or the process stops.
Fail(c) == pc[c] # "idle" /\ End(c) /\ UNCHANGED address

Step(c) ==
  \/ PlanRow(c) \/ Planned(c) \/ InsertAddress(c) \/ UpdateAddress(c) \/ WriteActive(c)
  \/ FindOthers(c) \/ ClearOther(c) \/ Cleared(c) \/ Commit(c) \/ Deadlock(c)

Next ==
  \E c \in Callers :
    \/ createCustomerAddress(c) \/ updateCustomerAddress(c)
    \/ setCustomerAddressActive(c) \/ confirmImport(c)
    \/ Step(c) \/ Fail(c)

Spec == Init /\ [][Next]_vars
=============================================================================
