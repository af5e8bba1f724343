--------------------------- MODULE AddressBookSpec ---------------------------
(* What the address services and the import promise: a call is answered in  *)
(* one step, or not at all; a saved default is the only one; and a file     *)
(* leaves exactly what it says.  Calls that overlap promise nothing.        *)
EXTENDS Naturals, Sequences

CONSTANTS Ids, Labels, Callers, Call, NULL

Address == [label: Labels, isDefault: BOOLEAN, isActive: BOOLEAN]

VARIABLES book, asked, raced

Init ==
  /\ book = [i \in Ids |-> NULL]
  /\ asked = [c \in Callers |-> NULL]
  /\ raced = FALSE

Ask(c, k) ==
  /\ asked[c] = NULL
  /\ asked' = [asked EXCEPT ![c] = k]
  /\ raced' = (raced \/ \E d \in Callers : asked[d] # NULL)
  /\ UNCHANGED book

Used(b) == {i \in Ids : b[i] # NULL}

\* A form is saved, as the only default if it is one.
Saves(i, a) ==
  /\ \A j \in Used(book) \ {i} : book[j].label # a.label
  /\ book' = [j \in Ids |->
       IF j = i THEN a
       ELSE IF j \in Used(book) /\ a.isDefault THEN [book[j] EXCEPT !.isDefault = FALSE]
       ELSE book[j]]

\* The rows of a file that count: readable, with a label of their own.
Counts(f) ==
  {k \in 1..Len(f.rows) :
    /\ f.rows[k] # NULL /\ f.rows[k].ok
    /\ {j \in 1..Len(f.rows) : f.rows[j] # NULL /\ f.rows[j].label = f.rows[k].label} = {k}}
LabelsOf(f) == {f.rows[k].label : k \in Counts(f)}

\* The last of them that says that it is the default, is.
Claims(f) == {k \in Counts(f) : f.hasDefault /\ f.rows[k].isDefault}
LastClaim(f, l) ==
  \E k \in Claims(f) : f.rows[k].label = l /\ \A j \in Claims(f) : j <= k

IsDefaultAfter(f, l, before) ==
  IF Claims(f) # {} THEN LastClaim(f, l)
  ELSE before /\ ~(f.hasDefault /\ l \in LabelsOf(f))

IsActiveAfter(f, l, before) ==
  IF f.hasActive /\ l \in LabelsOf(f)
    THEN \E k \in Counts(f) : f.rows[k].label = l /\ f.rows[k].isActive
  ELSE before

LabelsIn(b) == {b[i].label : i \in Used(b)}

Imports(f) ==
  /\ book' \in [Ids -> Address \cup {NULL}]
  /\ LabelsIn(book') = LabelsIn(book) \cup LabelsOf(f)
  /\ \A i, j \in Used(book') : book'[i].label = book'[j].label => i = j
  /\ \A i \in Used(book) : i \in Used(book') /\ book'[i].label = book[i].label
  /\ \A i \in Used(book') :
       LET l == book'[i].label
           known == i \in Used(book) IN
       /\ book'[i].isDefault = IsDefaultAfter(f, l, known /\ book[i].isDefault)
       /\ book'[i].isActive = IsActiveAfter(f, l, known => book[i].isActive)

Answered(k) ==
  \/ k.op = "create" /\ \E i \in Ids \ Used(book) : Saves(i, k.form)
  \/ k.op = "update" /\ Saves(k.id, k.form)
  \/ k.op = "setActive" /\ book' = [book EXCEPT ![k.id].isActive = k.isActive]
  \/ k.op = "import" /\ Imports(k.file)

\* A call that fails changes nothing.
Answer(c) ==
  /\ asked[c] # NULL
  /\ asked' = [asked EXCEPT ![c] = NULL]
  /\ raced \/ Answered(asked[c]) \/ UNCHANGED book
  /\ UNCHANGED raced

Next == \E c \in Callers : (\E k \in Call : Ask(c, k)) \/ Answer(c)

Spec == Init /\ [][Next]_<<book, asked, raced>>
=============================================================================
