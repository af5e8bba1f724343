--------------------- MODULE CustomerAddressesProperties ---------------------
(* What the addresses of a customer keep, and what the comment above        *)
(* clearOtherDefaults says that they do not.                                *)
EXTENDS CustomerAddresses

\* Each variable has its type.
TypeOK ==
  /\ address \in [Ids -> Address \cup {NULL}]
  /\ pc \in [Callers ->
       {"idle", "planning", "saving", "setting", "defaulting", "clearing", "done"}]
  /\ call \in [Callers -> Call \cup {NULL}]
  /\ at \in [Callers -> Nat \ {0}]
  /\ id \in [Callers -> Ids \cup {NULL}]
  /\ form \in [Callers -> Address \cup {NULL}]
  /\ DOMAIN mine = Callers
  /\ \A c \in Callers : DOMAIN mine[c] \subseteq Ids /\ mine[c] \in [DOMAIN mine[c] -> Address]
  /\ others \in [Callers -> SUBSET Ids]
  /\ overlapped \in BOOLEAN

AtMostOneDefault == \A i, j \in Defaults(address) : i = j

\* A customer has one default address at most, however forms and files set and
\* clear it, as long as no two calls have overlapped.
OneDefault == overlapped \/ AtMostOneDefault

\* "It's enforced here" (customer-address-service.ts).  It does not hold when
\* calls overlap: neither sees the default that the other has not committed.
AlwaysOneDefault == AtMostOneDefault

\* However calls overlap and clear each other's defaults, the customer is left
\* without one only by a call that says so of some address: a form or a file
\* row with the box not ticked.  A file without the column writes back what it
\* read, which may be too old, and is the exception.
Unticks(k) ==
  \/ k.op \in {"create", "update"} /\ ~k.form.isDefault
  \/ k.op = "import" /\ \E j \in Accepted(k.file) : k.file.hasDefault => ~k.file.rows[j].isDefault
SomeDefaultStays ==
  [][Defaults(address) # {} /\ Defaults(address') = {} =>
       \E c \in Callers : pc[c] = "done" /\ pc'[c] = "idle" /\ Unticks(call[c])]_vars

\* The confirmation plans again, in the middle of its own writes.  It gives a
\* row the status that the preview showed, unless a row before it took over the
\* default: previewImport and confirmImport plan alike, but for that.
TakesDefault(f, k) == k \in Accepted(f) /\ f.hasDefault /\ f.rows[k].isDefault
PreviewTellsConfirm ==
  \A c \in Callers : pc[c] = "planning" /\ ~overlapped =>
    LET f == call[c].file IN
    \/ at[c] > Len(f.rows)
    \/ RowStatus(f, at[c], view(c)) = RowStatus(f, at[c], address)
    \/ \E k \in 1..(at[c] - 1) : TakesDefault(f, k)

\* Each call has the effect of one step, if no other overlaps it: of a form, the
\* saved address; of a file, exactly what it says, whatever the rows before a row
\* did to it; or nothing.
AddressBook == INSTANCE AddressBookSpec WITH
  book <- address, asked <- call, raced <- overlapped
ImplementsAddressBook == AddressBook!Spec

\* When c's next step can be taken: whenever it need not wait for another
\* transaction, whatever it finds, or when the database ends it.
CanGoOn(c) ==
  \/ pc[c] \in {"planning", "defaulting", "done"}
  \/ /\ pc[c] = "saving" /\ id[c] = NULL
     /\ ~LabelHeld(c, form[c].label)
     /\ SameLabel(c) = {} => \E i \in Ids : Unused(i)
  \/ /\ pc[c] = "saving" /\ id[c] # NULL
     /\ ~RowHeld(c, id[c]) /\ ~LabelHeld(c, form[c].label)
  \/ pc[c] = "setting" /\ ~RowHeld(c, id[c])
  \/ pc[c] = "clearing" /\ (others[c] = {} \/ \E i \in others[c] : ~RowHeld(c, i))
  \/ Deadlocked(c)

\* While calls are under way, one of them can go on: nobody waits for a
\* transaction of its own, and whoever wait for each other (files, in different
\* orders) are told so by the database.
SomeoneGoesOn ==
  (\E c \in Callers : pc[c] # "idle") => \E c \in Callers : CanGoOn(c)
=============================================================================
