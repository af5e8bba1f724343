----------------------- MODULE CustomerAddressesProofs -----------------------
(* Proofs about CustomerAddresses, for any calls at any time: its types, and *)
(* who takes the last default away.  For calls that do not overlap: the one  *)
(* default of a customer, that a file does what its preview told, and that   *)
(* each call has the effect of one step of AddressBookSpec.                  *)
EXTENDS CustomerAddressesProperties, FiniteSetTheorems, TLAPS

USE CustomerAddressesAssumption

-----------------------------------------------------------------------------
(* The invariant behind the types: what a call holds at each of its stages.  *)

Stages == {"idle", "planning", "saving", "setting", "defaulting", "clearing", "done"}

CallerOK(c) ==
  /\ pc[c] = "idle" <=> call[c] = NULL
  /\ pc[c] = "idle" => DOMAIN mine[c] = {}
  /\ pc[c] = "planning" => call[c].op = "import"
  /\ pc[c] \in {"saving", "setting", "defaulting", "clearing"} => form[c] # NULL
  /\ pc[c] \in {"setting", "defaulting", "clearing"} => id[c] # NULL
  /\ pc[c] = "setting" => view(c)[id[c]] # NULL
  /\ \A i \in others[c] : view(c)[i] # NULL

Inv == TypeOK /\ \A c \in Callers : CallerOK(c)

\* A step of one caller leaves the others' state alone, and rows are not deleted.
OthersKeep(c) ==
  \A d \in Callers : d # c =>
    /\ pc'[d] = pc[d] /\ call'[d] = call[d] /\ at'[d] = at[d] /\ id'[d] = id[d]
    /\ form'[d] = form[d] /\ mine'[d] = mine[d] /\ others'[d] = others[d]

-----------------------------------------------------------------------------
(* What a transaction sees and writes.                                       *)

LEMMA ViewTyped ==
  ASSUME TypeOK, NEW c \in Callers
  PROVE  view(c) \in [Ids -> Address \cup {NULL}]
  BY DEF TypeOK, view

\* A call is of one of four kinds.
LEMMA CallKinds ==
  ASSUME NEW k \in Call
  PROVE  /\ k # NULL
         /\ k.op = "import" => k.file \in File
         /\ k.op \in {"create", "update"} => k.form \in Address
  BY DEF Call

\* A statement that writes row i leaves the caller with the row as written.
LEMMA WroteTyped ==
  ASSUME TypeOK, NEW c \in Callers, NEW i \in Ids, NEW a \in Address, Wrote(c, i, a)
  PROVE  /\ DOMAIN mine' = Callers
         /\ \A d \in Callers : DOMAIN mine'[d] \subseteq Ids /\ mine'[d] \in [DOMAIN mine'[d] -> Address]
         /\ \A d \in Callers : d # c => mine'[d] = mine[d]
         /\ DOMAIN mine'[c] = DOMAIN mine[c] \cup {i}
         /\ mine'[c][i] = a
         /\ \A j \in DOMAIN mine[c] : j # i => mine'[c][j] = mine[c][j]
<1>1. mine'[c] = [j \in DOMAIN mine[c] \cup {i} |-> IF j = i THEN a ELSE mine[c][j]]
  BY DEF Wrote, TypeOK
<1>2. DOMAIN mine' = Callers /\ \A d \in Callers : d # c => mine'[d] = mine[d]
  BY DEF Wrote, TypeOK
<1>3. DOMAIN mine[c] \subseteq Ids /\ mine[c] \in [DOMAIN mine[c] -> Address]
  BY DEF TypeOK
<1>4. DOMAIN mine'[c] \subseteq Ids /\ mine'[c] \in [DOMAIN mine'[c] -> Address]
  BY <1>1, <1>3
<1>5. ASSUME NEW d \in Callers
      PROVE  DOMAIN mine'[d] \subseteq Ids /\ mine'[d] \in [DOMAIN mine'[d] -> Address]
  BY <1>2, <1>4, <1>5 DEF TypeOK
<1> QED
  BY <1>1, <1>2, <1>5

\* In what the caller sees, only row i has changed.
LEMMA WroteView ==
  ASSUME TypeOK, NEW c \in Callers, NEW i \in Ids, NEW a \in Address, Wrote(c, i, a),
         UNCHANGED address
  PROVE  view(c)' = [view(c) EXCEPT ![i] = a]
<1>1. \A j \in Ids : view(c)'[j] = IF j \in DOMAIN mine'[c] THEN mine'[c][j] ELSE address[j]
  BY DEF view
<1>2. \A j \in Ids : view(c)[j] = IF j \in DOMAIN mine[c] THEN mine[c][j] ELSE address[j]
  BY DEF view
<1>3. \A j \in Ids : view(c)'[j] = [view(c) EXCEPT ![i] = a][j]
  BY <1>1, <1>2, WroteTyped, ViewTyped
<1>4. view(c)' = [j \in Ids |-> view(c)'[j]] /\ view(c) = [j \in Ids |-> view(c)[j]]
  BY DEF view
<1> QED
  BY <1>3, <1>4

\* A row that a file's row becomes is an address.
LEMMA FileRows ==
  ASSUME NEW f \in File, NEW k \in Accepted(f)
  PROVE  /\ NewAddress(f, k) \in Address
         /\ \A a \in Address : Merged(f, k, a) \in Address
<1>1. f.rows \in Seq(Row \cup {NULL}) /\ f.hasDefault \in BOOLEAN /\ f.hasActive \in BOOLEAN
  BY DEF File
<1>2. k \in 1..Len(f.rows) /\ f.rows[k] # NULL
  BY DEF Accepted
<1>3. f.rows[k] \in Row
  BY <1>1, <1>2
<1>4. f.rows[k].label \in Labels /\ f.rows[k].isDefault \in BOOLEAN /\ f.rows[k].isActive \in BOOLEAN
  BY <1>3 DEF Row
<1>5. NewAddress(f, k) \in Address
  BY <1>1, <1>4 DEF NewAddress, Address
<1>6. ASSUME NEW a \in Address PROVE Merged(f, k, a) \in Address
  BY <1>1, <1>4, <1>6 DEF Merged, Address
<1> QED
  BY <1>5, <1>6

-----------------------------------------------------------------------------
(* Steps.                                                                    *)

LEMMA EndResets ==
  ASSUME TypeOK, NEW c \in Callers, End(c)
  PROVE  /\ pc'[c] = "idle" /\ call'[c] = NULL /\ DOMAIN mine'[c] = {} /\ others'[c] = {}
         /\ OthersKeep(c)
         /\ pc' \in [Callers -> Stages]
         /\ call' \in [Callers -> Call \cup {NULL}]
         /\ at' \in [Callers -> Nat \ {0}]
         /\ id' \in [Callers -> Ids \cup {NULL}]
         /\ form' \in [Callers -> Address \cup {NULL}]
         /\ DOMAIN mine' = Callers
         /\ \A d \in Callers : DOMAIN mine'[d] \subseteq Ids /\ mine'[d] \in [DOMAIN mine'[d] -> Address]
         /\ others' \in [Callers -> SUBSET Ids]
<1>1. /\ pc'[c] = "idle" /\ call'[c] = NULL /\ mine'[c] = NoRows /\ others'[c] = {}
      /\ OthersKeep(c)
  BY DEF End, TypeOK, OthersKeep
<1>2. DOMAIN NoRows = {} /\ NoRows \in [{} -> Address]
  BY DEF NoRows
<1>3. \A d \in Callers : DOMAIN mine'[d] \subseteq Ids /\ mine'[d] \in [DOMAIN mine'[d] -> Address]
  BY <1>1, <1>2 DEF TypeOK, OthersKeep
<1>4. /\ pc' \in [Callers -> Stages] /\ call' \in [Callers -> Call \cup {NULL}]
      /\ at' \in [Callers -> Nat \ {0}] /\ id' \in [Callers -> Ids \cup {NULL}]
      /\ form' \in [Callers -> Address \cup {NULL}]
      /\ DOMAIN mine' = Callers /\ others' \in [Callers -> SUBSET Ids]
  BY DEF End, TypeOK, Stages
<1> QED
  BY <1>1, <1>2, <1>3, <1>4

\* The other callers see at least the rows that they saw.
LEMMA Frame ==
  ASSUME Inv, NEW c \in Callers, OthersKeep(c),
         \A i \in Ids : address[i] # NULL => address'[i] # NULL
  PROVE  \A d \in Callers : d # c => CallerOK(d)'
<1> SUFFICES ASSUME NEW d \in Callers, d # c PROVE CallerOK(d)'
  OBVIOUS
<1>1. /\ pc'[d] = pc[d] /\ call'[d] = call[d] /\ id'[d] = id[d]
      /\ form'[d] = form[d] /\ mine'[d] = mine[d] /\ others'[d] = others[d]
  BY DEF OthersKeep
<1>2. CallerOK(d) /\ mine[d] \in [DOMAIN mine[d] -> Address]
  BY DEF Inv, TypeOK
<1>3. ASSUME NEW i \in Ids, view(d)[i] # NULL PROVE view(d)'[i] # NULL
  <2>1. view(d)[i] = IF i \in DOMAIN mine[d] THEN mine[d][i] ELSE address[i]
    BY DEF view
  <2>2. view(d)'[i] = IF i \in DOMAIN mine'[d] THEN mine'[d][i] ELSE address'[i]
    BY DEF view
  <2> QED
    BY <1>1, <1>3, <2>1, <2>2
<1>4. others[d] \subseteq Ids /\ id[d] \in Ids \cup {NULL}
  BY DEF Inv, TypeOK
<1> QED
  BY <1>1, <1>2, <1>3, <1>4 DEF CallerOK

\* A call that ends without a commit keeps the invariant.
LEMMA EndStep ==
  ASSUME Inv, NEW c \in Callers, End(c), UNCHANGED address
  PROVE  Inv'
<1>1. TypeOK
  BY DEF Inv
<1>2. TypeOK'
  BY <1>1, EndResets DEF TypeOK, Stages, End
<1>3. CallerOK(c)'
  BY <1>1, EndResets DEF CallerOK
<1>4. \A d \in Callers : d # c => CallerOK(d)'
  BY <1>1, EndResets, Frame
<1> QED
  BY <1>2, <1>3, <1>4 DEF Inv

\* So does a commit: the rows that it makes the committed ones are addresses.
LEMMA CommitStep ==
  ASSUME Inv, NEW c \in Callers, Commit(c)
  PROVE  Inv'
<1>1. TypeOK /\ End(c) /\ address' = view(c)
  BY DEF Inv, Commit
<1>2. address' \in [Ids -> Address \cup {NULL}]
  BY <1>1, ViewTyped
<1>3. TypeOK'
  BY <1>1, <1>2, EndResets DEF TypeOK, Stages, End
<1>4. \A i \in Ids : address[i] # NULL => address'[i] # NULL
  BY <1>1 DEF view, TypeOK
<1>5. CallerOK(c)'
  BY <1>1, EndResets DEF CallerOK
<1>6. \A d \in Callers : d # c => CallerOK(d)'
  BY <1>1, <1>4, EndResets, Frame
<1> QED
  BY <1>3, <1>5, <1>6 DEF Inv

\* And the beginning of a call.
LEMMA BeginStep ==
  ASSUME Inv, NEW c \in Callers, NEW k \in Call, NEW stage \in Stages, NEW i \in Ids \cup {NULL},
         NEW a \in Address \cup {NULL}, Begin(c, k, stage, i, a),
         stage \in {"planning", "saving", "setting"},
         stage = "planning" => k.op = "import",
         stage # "planning" => a # NULL,
         stage = "setting" => i # NULL /\ address[i] # NULL
  PROVE  Inv'
<1>1. TypeOK /\ CallerOK(c) /\ pc[c] = "idle"
  BY DEF Inv, Begin
<1>2. /\ pc'[c] = stage /\ call'[c] = k /\ id'[c] = i /\ form'[c] = a
      /\ mine' = mine /\ others' = others /\ address' = address
      /\ OthersKeep(c)
  BY <1>1 DEF Begin, TypeOK, OthersKeep
<1>3. TypeOK'
  <2>1. pc' \in [Callers -> Stages] /\ call' \in [Callers -> Call \cup {NULL}]
    BY <1>1 DEF Begin, TypeOK, Stages
  <2>2. id' \in [Callers -> Ids \cup {NULL}] /\ form' \in [Callers -> Address \cup {NULL}]
    BY <1>1 DEF Begin, TypeOK
  <2>3. overlapped' \in BOOLEAN
    BY <1>1 DEF Begin, TypeOK
  <2> QED
    BY <1>1, <1>2, <2>1, <2>2, <2>3 DEF Begin, TypeOK, Stages
<1>4. view(c)' = view(c) /\ (i # NULL => view(c)[i] = address[i])
  BY <1>1, <1>2 DEF view, CallerOK
<1>5. CallerOK(c)'
  BY <1>1, <1>2, <1>4, CallKinds DEF CallerOK
<1>6. \A d \in Callers : d # c => CallerOK(d)'
  BY <1>2, Frame
<1> QED
  BY <1>3, <1>5, <1>6 DEF Inv

\* The end of a save: the caller goes on with its file, or is done.
LEMMA SavedTyped ==
  ASSUME TypeOK, NEW c \in Callers, Saved(c)
  PROVE  /\ pc' \in [Callers -> Stages] /\ at' \in [Callers -> Nat \ {0}]
         /\ pc'[c] \in {"planning", "done"}
         /\ pc'[c] = "planning" => call[c].op = "import"
         /\ \A d \in Callers : d # c => pc'[d] = pc[d] /\ at'[d] = at[d]
<1>1. CASE call[c].op = "import"
  BY <1>1 DEF Saved, TypeOK, Stages
<1>2. CASE call[c].op # "import"
  BY <1>2 DEF Saved, TypeOK, Stages
<1> QED
  BY <1>1, <1>2

\* What a running caller holds.
LEMMA Running ==
  ASSUME Inv, NEW c \in Callers, pc[c] # "idle"
  PROVE  /\ call[c] \in Call
         /\ id[c] \in Ids \cup {NULL} /\ form[c] \in Address \cup {NULL}
         /\ at[c] \in Nat \ {0} /\ others[c] \subseteq Ids
  BY DEF Inv, TypeOK, CallerOK

\* Resolving a row writes nothing, and chooses an address to save.
LEMMA PlanRowStep ==
  ASSUME Inv, NEW c \in Callers, PlanRow(c)
  PROVE  Inv' /\ OthersKeep(c)
<1> DEFINE f == call[c].file
           k == at[c]
<1>1. TypeOK /\ CallerOK(c) /\ pc[c] = "planning" /\ k <= Len(f.rows)
  BY DEF Inv, PlanRow
<1>2. UNCHANGED <<address, call, mine, others, overlapped>>
  BY DEF PlanRow
<1>3. call[c] \in Call /\ f \in File /\ k \in Nat \ {0}
  BY <1>1, Running, CallKinds DEF CallerOK
<1>4. view(c) \in [Ids -> Address \cup {NULL}] /\ view(c)' = view(c)
  BY <1>1, <1>2, ViewTyped DEF view
<1>5. CASE at' = [at EXCEPT ![c] = k + 1] /\ UNCHANGED <<pc, id, form>>
  <2>1. TypeOK'
    BY <1>1, <1>2, <1>3, <1>5 DEF TypeOK
  <2>2. OthersKeep(c)
    BY <1>1, <1>2, <1>5 DEF OthersKeep, TypeOK
  <2>3. CallerOK(c)'
    BY <1>1, <1>2, <1>4, <1>5 DEF CallerOK
  <2>4. \A d \in Callers : d # c => CallerOK(d)'
    BY <1>2, <2>2, Frame
  <2> QED
    BY <2>1, <2>2, <2>3, <2>4 DEF Inv
<1>6. ASSUME NEW i \in Ids \cup {NULL}, NEW a \in Address,
             pc' = [pc EXCEPT ![c] = "saving"], id' = [id EXCEPT ![c] = i],
             form' = [form EXCEPT ![c] = a], UNCHANGED at
      PROVE  Inv' /\ OthersKeep(c)
  <2>1. pc' \in [Callers -> Stages] /\ id' \in [Callers -> Ids \cup {NULL}]
        /\ form' \in [Callers -> Address \cup {NULL}]
    BY <1>1, <1>6 DEF TypeOK, Stages
  <2>2. TypeOK'
    BY <1>1, <1>2, <1>6, <2>1 DEF TypeOK, Stages
  <2>3. /\ OthersKeep(c)
        /\ pc'[c] = "saving" /\ id'[c] = i /\ form'[c] = a
    BY <1>1, <1>2, <1>6 DEF OthersKeep, TypeOK
  <2>4. CallerOK(c)'
    BY <1>1, <1>2, <1>4, <2>3 DEF CallerOK
  <2>5. \A d \in Callers : d # c => CallerOK(d)'
    BY <1>2, <2>3, Frame
  <2> QED
    BY <2>2, <2>3, <2>4, <2>5 DEF Inv
<1>7. CASE RowStatus(f, k, view(c)) \in {"CREATE", "UPDATE"}
  <2>1. k \in Accepted(f)
    BY <1>7 DEF RowStatus
  <2>2. CASE RowStatus(f, k, view(c)) = "CREATE"
    BY <1>3, <1>6, <2>1, <2>2, FileRows DEF PlanRow
  <2>3. CASE RowStatus(f, k, view(c)) = "UPDATE"
    <3>1. PICK i \in Matches(view(c), f.rows[k].label) :
            /\ pc' = [pc EXCEPT ![c] = "saving"] /\ id' = [id EXCEPT ![c] = i]
            /\ form' = [form EXCEPT ![c] = Merged(f, k, view(c)[i])] /\ UNCHANGED at
      BY <2>3 DEF PlanRow
    <3>2. i \in Ids /\ view(c)[i] \in Address
      BY <1>4, <3>1 DEF Matches
    <3>3. Merged(f, k, view(c)[i]) \in Address
      BY <1>3, <2>1, <3>2, FileRows
    <3> QED
      BY <1>6, <3>1, <3>2, <3>3
  <2> QED
    BY <1>7, <2>2, <2>3
<1>8. CASE RowStatus(f, k, view(c)) \notin {"CREATE", "UPDATE"}
  BY <1>5, <1>8 DEF PlanRow
<1> QED
  BY <1>7, <1>8

LEMMA PlannedStep ==
  ASSUME Inv, NEW c \in Callers, Planned(c)
  PROVE  Inv' /\ OthersKeep(c)
<1>1. TypeOK /\ CallerOK(c) /\ pc[c] = "planning"
  BY DEF Inv, Planned
<1>2. UNCHANGED <<address, call, at, id, form, mine, others, overlapped>>
      /\ pc' = [pc EXCEPT ![c] = "done"]
  BY DEF Planned
<1>3. TypeOK' /\ OthersKeep(c) /\ pc'[c] = "done"
  BY <1>1, <1>2 DEF TypeOK, OthersKeep
<1>4. view(c)' = view(c)
  BY <1>2 DEF view
<1>5. CallerOK(c)'
  BY <1>1, <1>2, <1>3, <1>4 DEF CallerOK
<1>6. \A d \in Callers : d # c => CallerOK(d)'
  BY <1>2, <1>3, Frame
<1> QED
  BY <1>3, <1>5, <1>6 DEF Inv

\* A statement that writes row i with address b, and leaves the caller at a stage
\* that no address is needed for, or at the one that clears the other defaults.
LEMMA WroteStep ==
  ASSUME Inv, NEW c \in Callers, NEW i \in Ids, NEW b \in Address, Wrote(c, i, b),
         pc[c] # "idle", form[c] # NULL,
         id' = [id EXCEPT ![c] = i],
         \/ Saved(c)
         \/ pc' = [pc EXCEPT ![c] = "defaulting"] /\ UNCHANGED at,
         UNCHANGED <<address, call, form, others, overlapped>>
  PROVE  Inv' /\ OthersKeep(c)
<1>1. TypeOK /\ CallerOK(c)
  BY DEF Inv
<1>2. /\ pc' \in [Callers -> Stages] /\ at' \in [Callers -> Nat \ {0}]
      /\ pc'[c] \in {"planning", "done", "defaulting"}
      /\ pc'[c] = "planning" => call[c].op = "import"
      /\ \A d \in Callers : d # c => pc'[d] = pc[d] /\ at'[d] = at[d]
  <2>1. CASE Saved(c)
    BY <1>1, <2>1, SavedTyped
  <2>2. CASE pc' = [pc EXCEPT ![c] = "defaulting"] /\ UNCHANGED at
    BY <1>1, <2>2 DEF TypeOK, Stages
  <2> QED
    BY <2>1, <2>2
<1>3. id' \in [Callers -> Ids \cup {NULL}] /\ id'[c] = i
      /\ \A d \in Callers : d # c => id'[d] = id[d]
  BY <1>1 DEF TypeOK
<1>4. TypeOK'
  BY <1>1, <1>2, <1>3, WroteTyped DEF TypeOK, Stages
<1>5. OthersKeep(c)
  BY <1>1, <1>2, <1>3, WroteTyped DEF OthersKeep
<1>6. view(c)' = [view(c) EXCEPT ![i] = b] /\ view(c) \in [Ids -> Address \cup {NULL}]
  BY <1>1, WroteView, ViewTyped
<1>7. \A j \in others[c] : view(c)'[j] # NULL
  BY <1>1, <1>6 DEF CallerOK, TypeOK
<1>8. CallerOK(c)'
  BY <1>1, <1>2, <1>3, <1>7 DEF CallerOK
<1>9. \A d \in Callers : d # c => CallerOK(d)'
  BY <1>5, Frame
<1> QED
  BY <1>4, <1>5, <1>8, <1>9 DEF Inv

\* A refused save ends the call, the others are the INSERT and the UPDATE.
LEMMA SavingStep ==
  ASSUME Inv, NEW c \in Callers, InsertAddress(c) \/ UpdateAddress(c)
  PROVE  Inv' /\ OthersKeep(c)
<1>1. TypeOK /\ CallerOK(c) /\ pc[c] = "saving"
  BY DEF Inv, InsertAddress, UpdateAddress
<1>2. form[c] \in Address /\ id[c] \in Ids \cup {NULL}
  BY <1>1, Running DEF CallerOK
<1>3. CASE Duplicate(c)
  BY <1>1, <1>3, EndStep, EndResets DEF Duplicate
<1>4. ASSUME NEW i \in Ids, Writes(c, i) PROVE Inv' /\ OthersKeep(c)
  <2>1. /\ Wrote(c, i, form[c]) /\ id' = [id EXCEPT ![c] = i]
        /\ Saved(c) \/ (pc' = [pc EXCEPT ![c] = "defaulting"] /\ UNCHANGED at)
        /\ UNCHANGED <<address, call, form, others, overlapped>>
    BY <1>4 DEF Writes
  <2> QED
    BY <1>1, <1>2, <2>1, WroteStep
<1>5. Duplicate(c) \/ \E i \in Ids : Writes(c, i)
  BY <1>2 DEF InsertAddress, UpdateAddress
<1> QED
  BY <1>3, <1>4, <1>5

LEMMA WriteActiveStep ==
  ASSUME Inv, NEW c \in Callers, WriteActive(c)
  PROVE  Inv' /\ OthersKeep(c)
<1> DEFINE b == [view(c)[id[c]] EXCEPT !.isActive = form[c].isActive]
<1>1. TypeOK /\ CallerOK(c) /\ pc[c] = "setting"
  BY DEF Inv, WriteActive
<1>2. form[c] \in Address /\ id[c] \in Ids /\ view(c)[id[c]] \in Address
  BY <1>1, Running, ViewTyped DEF CallerOK
<1>3. b \in Address
  BY <1>2 DEF Address
<1>4. /\ Wrote(c, id[c], b) /\ Saved(c)
      /\ UNCHANGED <<address, call, id, form, others, overlapped>>
  BY DEF WriteActive
<1>5. id' = [id EXCEPT ![c] = id[c]]
  BY <1>1, <1>4 DEF TypeOK
<1> HIDE DEF b
<1> QED
  BY <1>1, <1>2, <1>3, <1>4, <1>5, WroteStep

LEMMA FindOthersStep ==
  ASSUME Inv, NEW c \in Callers, FindOthers(c)
  PROVE  Inv' /\ OthersKeep(c)
<1>1. TypeOK /\ CallerOK(c) /\ pc[c] = "defaulting"
  BY DEF Inv, FindOthers
<1>2. /\ UNCHANGED <<address, call, at, id, form, mine, overlapped>>
      /\ pc' = [pc EXCEPT ![c] = "clearing"]
      /\ others' = [others EXCEPT ![c] = OtherDefaults(c)]
  BY DEF FindOthers
<1>3. view(c)' = view(c) /\ view(c) \in [Ids -> Address \cup {NULL}]
  BY <1>1, <1>2, ViewTyped DEF view
<1>4. OtherDefaults(c) \subseteq Ids /\ \A i \in OtherDefaults(c) : view(c)[i] # NULL
  BY <1>3 DEF OtherDefaults, Defaults
<1>5. others' \in [Callers -> SUBSET Ids] /\ others'[c] = OtherDefaults(c)
  BY <1>1, <1>2, <1>4 DEF TypeOK
<1>6. TypeOK'
  BY <1>1, <1>2, <1>5 DEF TypeOK
<1>7. OthersKeep(c) /\ pc'[c] = "clearing"
  BY <1>1, <1>2 DEF TypeOK, OthersKeep
<1>8. CallerOK(c)'
  BY <1>1, <1>2, <1>3, <1>4, <1>5, <1>7 DEF CallerOK
<1>9. \A d \in Callers : d # c => CallerOK(d)'
  BY <1>2, <1>7, Frame
<1> QED
  BY <1>6, <1>7, <1>8, <1>9 DEF Inv

\* What the clearing of one default does to its caller.
LEMMA ClearOtherEffect ==
  ASSUME Inv, NEW c \in Callers, ClearOther(c)
  PROVE  \E i \in others[c] :
           /\ others'[c] = others[c] \ {i}
           /\ view(c)'[i] \in Address /\ ~view(c)'[i].isDefault
           /\ \A j \in Ids \ {i} : view(c)'[j] = view(c)[j]
           /\ DOMAIN mine' = Callers
           /\ \A d \in Callers : DOMAIN mine'[d] \subseteq Ids /\ mine'[d] \in [DOMAIN mine'[d] -> Address]
           /\ \A d \in Callers : d # c => mine'[d] = mine[d]
<1>1. TypeOK /\ CallerOK(c) /\ UNCHANGED address
  BY DEF Inv, ClearOther
<1>2. PICK i \in others[c] :
        /\ others' = [others EXCEPT ![c] = @ \ {i}]
        /\ \/ view(c)[i].isDefault /\ Wrote(c, i, [view(c)[i] EXCEPT !.isDefault = FALSE])
           \/ ~view(c)[i].isDefault /\ UNCHANGED mine
  BY DEF ClearOther
<1>3. i \in Ids /\ others'[c] = others[c] \ {i}
  BY <1>1, <1>2 DEF TypeOK
<1>4. view(c) \in [Ids -> Address \cup {NULL}] /\ view(c)[i] \in Address
  BY <1>1, <1>3, ViewTyped DEF CallerOK
<1>5. CASE Wrote(c, i, [view(c)[i] EXCEPT !.isDefault = FALSE])
  <2> DEFINE b == [view(c)[i] EXCEPT !.isDefault = FALSE]
  <2>1. b \in Address /\ ~b.isDefault
    BY <1>4 DEF Address
  <2>2. Wrote(c, i, b)
    BY <1>5
  <2> HIDE DEF b
  <2>3. view(c)' = [view(c) EXCEPT ![i] = b]
    BY <1>1, <1>3, <2>1, <2>2, WroteView
  <2> QED
    BY <1>1, <1>3, <1>4, <2>1, <2>2, <2>3, WroteTyped
<1>6. CASE ~view(c)[i].isDefault /\ UNCHANGED mine
  <2>1. view(c)' = view(c)
    BY <1>1, <1>6 DEF view
  <2> QED
    BY <1>1, <1>3, <1>4, <1>6, <2>1 DEF TypeOK
<1> QED
  BY <1>2, <1>5, <1>6

LEMMA ClearOtherStep ==
  ASSUME Inv, NEW c \in Callers, ClearOther(c)
  PROVE  Inv' /\ OthersKeep(c)
<1>1. TypeOK /\ CallerOK(c) /\ pc[c] = "clearing"
  BY DEF Inv, ClearOther
<1>2. UNCHANGED <<address, pc, call, at, id, form, overlapped>>
  BY DEF ClearOther
<1>3. /\ DOMAIN mine' = Callers
      /\ \A d \in Callers : DOMAIN mine'[d] \subseteq Ids /\ mine'[d] \in [DOMAIN mine'[d] -> Address]
      /\ \A d \in Callers : d # c => mine'[d] = mine[d]
  BY ClearOtherEffect
<1>4. \A j \in others'[c] : view(c)'[j] # NULL
  BY <1>1, ClearOtherEffect DEF CallerOK, TypeOK
<1>5. others' \in [Callers -> SUBSET Ids] /\ \A d \in Callers : d # c => others'[d] = others[d]
  BY <1>1 DEF ClearOther, TypeOK
<1>6. TypeOK'
  BY <1>1, <1>2, <1>3, <1>5 DEF TypeOK
<1>7. OthersKeep(c)
  BY <1>2, <1>3, <1>5 DEF OthersKeep
<1>8. CallerOK(c)'
  BY <1>1, <1>2, <1>4 DEF CallerOK
<1>9. \A d \in Callers : d # c => CallerOK(d)'
  BY <1>2, <1>7, Frame
<1> QED
  BY <1>6, <1>7, <1>8, <1>9 DEF Inv

LEMMA ClearedStep ==
  ASSUME Inv, NEW c \in Callers, Cleared(c)
  PROVE  Inv' /\ OthersKeep(c)
<1>1. TypeOK /\ CallerOK(c) /\ pc[c] = "clearing"
  BY DEF Inv, Cleared
<1>2. UNCHANGED <<address, call, id, form, mine, others, overlapped>> /\ Saved(c)
  BY DEF Cleared
<1>3. /\ pc' \in [Callers -> Stages] /\ at' \in [Callers -> Nat \ {0}]
      /\ pc'[c] \in {"planning", "done"}
      /\ pc'[c] = "planning" => call[c].op = "import"
      /\ \A d \in Callers : d # c => pc'[d] = pc[d] /\ at'[d] = at[d]
  BY <1>1, <1>2, SavedTyped
<1>4. TypeOK'
  BY <1>1, <1>2, <1>3 DEF TypeOK, Stages
<1>5. OthersKeep(c)
  BY <1>2, <1>3 DEF OthersKeep
<1>6. view(c)' = view(c)
  BY <1>2 DEF view
<1>7. CallerOK(c)'
  BY <1>1, <1>2, <1>3, <1>6 DEF CallerOK
<1>8. \A d \in Callers : d # c => CallerOK(d)'
  BY <1>2, <1>5, Frame
<1> QED
  BY <1>4, <1>5, <1>7, <1>8 DEF Inv

-----------------------------------------------------------------------------
(* The types.                                                                *)

\* The steps of a running caller.
LEMMA StepKeeps ==
  ASSUME Inv, NEW c \in Callers, Step(c)
  PROVE  Inv' /\ OthersKeep(c) /\ pc[c] # "idle" /\ UNCHANGED overlapped
<1>1. TypeOK
  BY DEF Inv
<1>2. CASE PlanRow(c)
  BY <1>2, PlanRowStep DEF PlanRow
<1>3. CASE Planned(c)
  BY <1>3, PlannedStep DEF Planned
<1>4. CASE InsertAddress(c) \/ UpdateAddress(c)
  <2>1. pc[c] # "idle" /\ UNCHANGED overlapped
    BY <1>4 DEF InsertAddress, UpdateAddress, Writes, Duplicate, End
  <2> QED
    BY <1>4, <2>1, SavingStep
<1>5. CASE WriteActive(c)
  BY <1>5, WriteActiveStep DEF WriteActive
<1>6. CASE FindOthers(c)
  BY <1>6, FindOthersStep DEF FindOthers
<1>7. CASE ClearOther(c)
  BY <1>7, ClearOtherStep DEF ClearOther
<1>8. CASE Cleared(c)
  BY <1>8, ClearedStep DEF Cleared
<1>9. CASE Commit(c)
  BY <1>1, <1>9, CommitStep, EndResets DEF Commit, End
<1>10. CASE Deadlock(c)
  <2>1. pc[c] # "idle"
    BY <1>10 DEF Deadlock, Deadlocked, WaitsFor
  <2> QED
    BY <1>1, <1>10, <2>1, EndStep, EndResets DEF Deadlock, End
<1> QED
  BY <1>2, <1>3, <1>4, <1>5, <1>6, <1>7, <1>8, <1>9, <1>10 DEF Step

\* The four calls begin at a stage that has what it needs.
Begins(c) ==
  \/ createCustomerAddress(c) \/ updateCustomerAddress(c)
  \/ setCustomerAddressActive(c) \/ confirmImport(c)

LEMMA BeginsStep ==
  ASSUME Inv, NEW c \in Callers, Begins(c)
  PROVE  Inv'
<1>1. TypeOK
  BY DEF Inv
<1>2. ASSUME createCustomerAddress(c) PROVE Inv'
  <2>1. PICK a \in Forms : Begin(c, [op |-> "create", form |-> a], "saving", NULL, a)
    BY <1>2 DEF createCustomerAddress
  <2>2. a \in Address /\ a # NULL /\ [op |-> "create", form |-> a] \in Call /\ "saving" \in Stages
    BY DEF Call, Stages
  <2> QED
    BY <2>1, <2>2, BeginStep
<1>3. ASSUME updateCustomerAddress(c) PROVE Inv'
  <2>1. PICK i \in Ids, a \in Forms :
          Begin(c, [op |-> "update", id |-> i, form |-> a], "saving", i, a)
    BY <1>3 DEF updateCustomerAddress
  <2>2. a \in Address /\ a # NULL /\ [op |-> "update", id |-> i, form |-> a] \in Call
        /\ "saving" \in Stages
    BY DEF Call, Stages
  <2> QED
    BY <2>1, <2>2, BeginStep
<1>4. ASSUME setCustomerAddressActive(c) PROVE Inv'
  <2>1. PICK i \in Ids, b \in BOOLEAN :
          /\ address[i] # NULL
          /\ Begin(c, [op |-> "setActive", id |-> i, isActive |-> b], "setting", i,
                   [address[i] EXCEPT !.isActive = b])
    BY <1>4 DEF setCustomerAddressActive
  <2> DEFINE a == [address[i] EXCEPT !.isActive = b]
  <2>2. address[i] \in Address
    BY <1>1, <2>1 DEF TypeOK
  <2>3. a \in Address /\ a # NULL /\ [op |-> "setActive", id |-> i, isActive |-> b] \in Call
        /\ "setting" \in Stages
    BY <2>2 DEF Address, Call, Stages
  <2>4. Begin(c, [op |-> "setActive", id |-> i, isActive |-> b], "setting", i, a)
    BY <2>1
  <2> HIDE DEF a
  <2>5. i # NULL
    OBVIOUS
  <2> QED
    BY <2>1, <2>3, <2>4, <2>5, BeginStep
<1>5. ASSUME confirmImport(c) PROVE Inv'
  <2>1. PICK f \in Files : Begin(c, [op |-> "import", file |-> f], "planning", NULL, NULL)
    BY <1>5 DEF confirmImport
  <2>2. [op |-> "import", file |-> f] \in Call /\ "planning" \in Stages
    BY DEF Call, Stages
  <2>3. [op |-> "import", file |-> f].op = "import"
    OBVIOUS
  <2> QED
    BY <2>1, <2>2, <2>3, BeginStep
<1> QED
  BY <1>2, <1>3, <1>4, <1>5 DEF Begins

LEMMA InitInv == Init => Inv
<1> SUFFICES ASSUME Init PROVE Inv
  OBVIOUS
<1>1. /\ \A c \in Callers : pc[c] = "idle" /\ call[c] = NULL /\ mine[c] = NoRows /\ others[c] = {}
      /\ DOMAIN mine = Callers
  BY DEF Init
<1>2. DOMAIN NoRows = {} /\ NoRows \in [{} -> Address]
  BY DEF NoRows
<1>3. TypeOK
  <2>1. \A c \in Callers : DOMAIN mine[c] \subseteq Ids /\ mine[c] \in [DOMAIN mine[c] -> Address]
    BY <1>1, <1>2
  <2>2. address \in [Ids -> Address \cup {NULL}] /\ pc \in [Callers -> Stages]
    BY DEF Init, Stages
  <2>3. call \in [Callers -> Call \cup {NULL}] /\ at \in [Callers -> Nat \ {0}]
    BY DEF Init
  <2>4. id \in [Callers -> Ids \cup {NULL}] /\ form \in [Callers -> Address \cup {NULL}]
    BY DEF Init
  <2>5. others \in [Callers -> SUBSET Ids] /\ overlapped \in BOOLEAN
    BY DEF Init
  <2> QED
    BY <1>1, <2>1, <2>2, <2>3, <2>4, <2>5 DEF TypeOK, Stages
<1>4. \A c \in Callers : CallerOK(c)
  BY <1>1, <1>2 DEF CallerOK
<1> QED
  BY <1>3, <1>4 DEF Inv

LEMMA NextInv == Inv /\ [Next]_vars => Inv'
<1> SUFFICES ASSUME Inv, [Next]_vars PROVE Inv'
  OBVIOUS
<1>1. ASSUME UNCHANGED vars PROVE Inv'
  <2>1. TypeOK'
    BY <1>1 DEF Inv, TypeOK, vars, local
  <2>2. \A c \in Callers : view(c)' = view(c)
    BY <1>1 DEF view, vars, local
  <2>3. \A c \in Callers : CallerOK(c)'
    BY <1>1, <2>2 DEF Inv, CallerOK, vars, local
  <2> QED
    BY <2>1, <2>3 DEF Inv
<1>2. ASSUME NEW c \in Callers, Begins(c) PROVE Inv'
  BY <1>2, BeginsStep
<1>3. ASSUME NEW c \in Callers, Step(c) PROVE Inv'
  BY <1>3, StepKeeps
<1>4. ASSUME NEW c \in Callers, Fail(c) PROVE Inv'
  BY <1>4, EndStep DEF Fail
<1> QED
  BY <1>1, <1>2, <1>3, <1>4 DEF Next, Begins

\* The variables keep their types, whatever calls overlap and fail.
THEOREM TypeCorrect == Spec => []TypeOK
<1>1. Inv => TypeOK
  BY DEF Inv
<1> QED
  BY <1>1, InitInv, NextInv, PTL DEF Spec

-----------------------------------------------------------------------------
(* One default.  With one call at a time, the committed rows have at most one *)
(* default, and so has what the call sees, except between its own write of a  *)
(* default and the last of the statements that clear the others: then the     *)
(* defaults are the address that it saves and those still to be cleared.      *)

OneOf(rows) == \A i, j \in Defaults(rows) : i = j

LoneCaller(c) ==
  /\ pc[c] \in {"planning", "saving", "setting", "done"} => OneOf(view(c))
  /\ pc[c] = "clearing" => Defaults(view(c)) \subseteq {id[c]} \cup others[c]

Lone ==
  /\ \A c, d \in Callers : pc[c] # "idle" /\ pc[d] # "idle" => c = d
  /\ OneOf(address)
  /\ \A c \in Callers : LoneCaller(c)

LoneInv == overlapped \/ Lone

\* Rows with no more defaults than others that have one at most.
LEMMA FewerDefaults ==
  ASSUME NEW rows, NEW new, OneOf(rows), Defaults(new) \subseteq Defaults(rows)
  PROVE  OneOf(new)
  BY DEF OneOf

\* While one caller runs, the others are idle, and what is said of the one
\* that runs is all that there is to show.
LEMMA LoneFrame ==
  ASSUME Inv, Lone, NEW c \in Callers, pc[c] # "idle", OthersKeep(c),
         OneOf(address'), LoneCaller(c)'
  PROVE  Lone'
<1>1. \A d \in Callers : d # c => pc'[d] = "idle"
  BY DEF Lone, OthersKeep
<1>2. \A d \in Callers : d # c => LoneCaller(d)'
  BY <1>1 DEF LoneCaller
<1>3. OneOf(address)'
  BY DEF OneOf, Defaults
<1> QED
  BY <1>1, <1>2, <1>3 DEF Lone

\* A write that sets the flag is followed by the clearing; one that does not
\* leaves at most the defaults that there were.
LEMMA LoneWrites ==
  ASSUME Inv, NEW c \in Callers, NEW i \in Ids, Writes(c, i), OneOf(view(c)),
         form[c] \in Address, pc[c] = "saving"
  PROVE  LoneCaller(c)'
<1>1. TypeOK /\ Wrote(c, i, form[c]) /\ UNCHANGED address
  BY DEF Inv, Writes
<1>2. view(c)' = [view(c) EXCEPT ![i] = form[c]] /\ view(c) \in [Ids -> Address \cup {NULL}]
  BY <1>1, WroteView, ViewTyped
<1>3. CASE pc' = [pc EXCEPT ![c] = "defaulting"]
  <2>1. pc'[c] = "defaulting"
    BY <1>1, <1>3 DEF TypeOK
  <2> QED
    BY <2>1 DEF LoneCaller
<1>4. CASE ~form[c].isDefault /\ Saved(c)
  <2>1. pc'[c] \in {"planning", "done"}
    BY <1>1, <1>4, SavedTyped
  <2>2. Defaults(view(c)') \subseteq Defaults(view(c))
    BY <1>2, <1>4 DEF Defaults
  <2>3. OneOf(view(c)')
    BY <2>2, FewerDefaults
  <2>4. OneOf(view(c))'
    BY <2>3 DEF OneOf, Defaults
  <2> QED
    BY <2>1, <2>4 DEF LoneCaller
<1> QED
  BY <1>3, <1>4 DEF Writes

LEMMA LoneStep ==
  ASSUME Inv, Lone, NEW c \in Callers, Step(c)
  PROVE  Lone'
<1>1. /\ TypeOK /\ CallerOK(c) /\ LoneCaller(c) /\ OneOf(address)
      /\ OthersKeep(c) /\ pc[c] # "idle"
  BY StepKeeps DEF Inv, Lone
<1>2. view(c) \in [Ids -> Address \cup {NULL}]
  BY <1>1, ViewTyped
<1>3. OneOf(address') /\ LoneCaller(c)'
  <2>1. CASE PlanRow(c) \/ Planned(c)
    <3>1. view(c)' = view(c) /\ address' = address
      BY <2>1 DEF view, PlanRow, Planned
    <3>2. pc[c] = "planning" /\ pc'[c] \in {"planning", "saving", "done"}
      BY <1>1, <2>1 DEF PlanRow, Planned, TypeOK
    <3>3. OneOf(view(c))'
      BY <1>1, <3>1, <3>2 DEF LoneCaller, OneOf, Defaults
    <3> QED
      BY <1>1, <3>1, <3>2, <3>3 DEF LoneCaller
  <2>2. CASE InsertAddress(c) \/ UpdateAddress(c)
    <3>1. pc[c] = "saving" /\ OneOf(view(c)) /\ form[c] \in Address /\ id[c] \in Ids \cup {NULL}
      BY <1>1, <2>2, Running DEF InsertAddress, UpdateAddress, LoneCaller, CallerOK
    <3>2. Duplicate(c) \/ \E i \in Ids : Writes(c, i)
      BY <2>2, <3>1 DEF InsertAddress, UpdateAddress
    <3>3. CASE Duplicate(c)
      BY <1>1, <3>3, EndResets DEF Duplicate, LoneCaller
    <3>4. ASSUME NEW i \in Ids, Writes(c, i) PROVE OneOf(address') /\ LoneCaller(c)'
      BY <1>1, <3>1, <3>4, LoneWrites DEF Writes
    <3> QED
      BY <3>2, <3>3, <3>4
  <2>3. CASE WriteActive(c)
    <3> DEFINE b == [view(c)[id[c]] EXCEPT !.isActive = form[c].isActive]
    <3>1. pc[c] = "setting" /\ OneOf(view(c)) /\ Saved(c) /\ address' = address /\ Wrote(c, id[c], b)
      BY <1>1, <2>3 DEF WriteActive, LoneCaller
    <3>2. form[c] \in Address /\ id[c] \in Ids /\ view(c)[id[c]] \in Address
      BY <1>1, <1>2, <3>1, Running DEF CallerOK
    <3>3. b \in Address /\ b.isDefault = view(c)[id[c]].isDefault
      BY <3>2 DEF Address
    <3>4. pc'[c] \in {"planning", "done"}
      BY <1>1, <3>1, SavedTyped
    <3> HIDE DEF b
    <3>5. view(c)' = [view(c) EXCEPT ![id[c]] = b]
      BY <1>1, <3>1, <3>2, <3>3, WroteView
    <3>6. Defaults(view(c)') \subseteq Defaults(view(c))
      BY <1>2, <3>2, <3>3, <3>5 DEF Defaults
    <3>7. OneOf(view(c)')
      BY <3>1, <3>6, FewerDefaults
    <3>8. OneOf(view(c))'
      BY <3>7 DEF OneOf, Defaults
    <3> QED
      BY <1>1, <3>1, <3>4, <3>8 DEF LoneCaller
  <2>4. CASE FindOthers(c)
    <3>1. view(c)' = view(c) /\ address' = address /\ id' = id
      BY <2>4 DEF view, FindOthers
    <3>2. pc'[c] = "clearing" /\ others'[c] = Defaults(view(c)) \ {id[c]}
      BY <1>1, <2>4 DEF FindOthers, OtherDefaults, TypeOK
    <3>3. Defaults(view(c))' = Defaults(view(c))
      BY <3>1 DEF Defaults
    <3> QED
      BY <1>1, <3>1, <3>2, <3>3 DEF LoneCaller
  <2>5. CASE ClearOther(c)
    <3>1. pc[c] = "clearing" /\ pc' = pc /\ id' = id /\ address' = address
      BY <2>5 DEF ClearOther
    <3>2. PICK i \in others[c] :
            /\ others'[c] = others[c] \ {i}
            /\ view(c)'[i] \in Address /\ ~view(c)'[i].isDefault
            /\ \A j \in Ids \ {i} : view(c)'[j] = view(c)[j]
      BY <2>5, ClearOtherEffect
    <3>3. DOMAIN view(c)' = Ids /\ DOMAIN view(c) = Ids
      BY DEF view
    <3>4. Defaults(view(c)') \subseteq Defaults(view(c)) \ {i}
      BY <3>2, <3>3 DEF Defaults
    <3>5. Defaults(view(c))' = Defaults(view(c)')
      BY DEF Defaults
    <3>6. Defaults(view(c)) \subseteq {id[c]} \cup others[c]
      BY <1>1, <3>1 DEF LoneCaller
    <3> QED
      BY <1>1, <3>1, <3>2, <3>4, <3>5, <3>6 DEF LoneCaller
  <2>6. CASE Cleared(c)
    <3>1. /\ pc[c] = "clearing" /\ others[c] = {} /\ Saved(c)
          /\ UNCHANGED <<address, id, mine>>
      BY <2>6 DEF Cleared
    <3>2. pc'[c] \in {"planning", "done"}
      BY <1>1, <3>1, SavedTyped
    <3>3. view(c)' = view(c)
      BY <3>1 DEF view
    <3>4. OneOf(view(c))
      BY <1>1, <3>1 DEF LoneCaller, OneOf
    <3>5. OneOf(view(c))'
      BY <3>3, <3>4 DEF OneOf, Defaults
    <3> QED
      BY <1>1, <3>1, <3>2, <3>5 DEF LoneCaller
  <2>7. CASE Commit(c)
    <3>1. OneOf(view(c)) /\ address' = view(c) /\ End(c)
      BY <1>1, <2>7 DEF Commit, LoneCaller
    <3> QED
      BY <1>1, <3>1, EndResets DEF LoneCaller
  <2>8. CASE Deadlock(c)
    BY <1>1, <2>8, EndResets DEF Deadlock, LoneCaller
  <2> QED
    BY <2>1, <2>2, <2>3, <2>4, <2>5, <2>6, <2>7, <2>8 DEF Step
<1> QED
  BY <1>1, <1>3, LoneFrame

\* A call that begins alone sees the committed rows.
LEMMA LoneBegin ==
  ASSUME Inv, LoneInv, NEW c \in Callers, NEW k, NEW stage, NEW i, NEW a,
         Begin(c, k, stage, i, a), stage \in {"planning", "saving", "setting"}
  PROVE  LoneInv'
<1> SUFFICES ASSUME ~overlapped' PROVE Lone'
  BY DEF LoneInv
<1>1. ~overlapped /\ \A d \in Callers : pc[d] = "idle"
  BY DEF Begin
<1>2. TypeOK /\ Lone /\ UNCHANGED <<address, mine>> /\ pc' = [pc EXCEPT ![c] = stage]
  BY <1>1 DEF Inv, LoneInv, Begin
<1>3. pc'[c] = stage /\ \A d \in Callers : d # c => pc'[d] = "idle"
  BY <1>1, <1>2 DEF TypeOK
<1>4. DOMAIN mine[c] = {}
  BY <1>1 DEF Inv, CallerOK
<1>5. view(c)' = [j \in Ids |-> address[j]] /\ address = [j \in Ids |-> address[j]]
  BY <1>2, <1>4 DEF view, TypeOK
<1>6. OneOf(address)' /\ OneOf(view(c))'
  BY <1>2, <1>5 DEF Lone, OneOf, Defaults
<1>7. \A d \in Callers : LoneCaller(d)'
  BY <1>3, <1>6 DEF LoneCaller
<1> QED
  BY <1>3, <1>6, <1>7 DEF Lone

LEMMA LoneInit == Init => LoneInv
  BY DEF Init, LoneInv, Lone, LoneCaller, OneOf, Defaults

LEMMA LoneNext == Inv /\ LoneInv /\ [Next]_vars => LoneInv'
<1> SUFFICES ASSUME Inv, LoneInv, [Next]_vars PROVE LoneInv'
  OBVIOUS
<1>1. ASSUME UNCHANGED vars PROVE LoneInv'
  <2>1. \A c \in Callers : view(c)' = view(c)
    BY <1>1 DEF view, vars, local
  <2> QED
    BY <1>1, <2>1 DEF LoneInv, Lone, LoneCaller, OneOf, Defaults, vars, local
<1>2. ASSUME NEW c \in Callers, Begins(c) PROVE LoneInv'
  BY <1>2, LoneBegin DEF Begins, createCustomerAddress, updateCustomerAddress,
     setCustomerAddressActive, confirmImport
<1>3. ASSUME NEW c \in Callers, Step(c) PROVE LoneInv'
  BY <1>3, LoneStep, StepKeeps DEF LoneInv
<1>4. ASSUME NEW c \in Callers, Fail(c) PROVE LoneInv'
  <2>1. CASE overlapped
    BY <1>4, <2>1 DEF Fail, End, LoneInv
  <2>2. CASE Lone
    <3>1. /\ pc[c] # "idle" /\ OthersKeep(c) /\ address' = address
          /\ pc'[c] = "idle"
      BY <1>4, EndResets DEF Fail, Inv
    <3> QED
      BY <2>2, <3>1, LoneFrame DEF LoneInv, Lone, LoneCaller
  <2> QED
    BY <2>1, <2>2 DEF LoneInv
<1> QED
  BY <1>1, <1>2, <1>3, <1>4 DEF Next, Begins

\* A customer has one default address at most, as long as no two calls have
\* overlapped: for any addresses, forms, files and callers.
THEOREM AloneOneDefault == Spec => []OneDefault
<1>1. LoneInv => OneDefault
  BY DEF LoneInv, Lone, OneOf, OneDefault, AtMostOneDefault
<1> QED
  BY <1>1, InitInv, NextInv, LoneInit, LoneNext, PTL DEF Spec

-----------------------------------------------------------------------------
(* Who takes a customer's last default away, whatever overlaps.  A row has   *)
(* one writer.  A switch leaves isDefault as it is committed; a call that    *)
(* unticks nothing has written a default, if it has written anything.        *)

Exclusive == \A c, d \in Callers : c # d => \A i \in DOMAIN mine[c] : i \notin DOMAIN mine[d]

SwitchOK(c) ==
  /\ call[c].op = "setActive" /\ pc[c] \in {"setting", "done"}
  /\ \A i \in DOMAIN mine[c] :
       address[i] # NULL /\ mine[c][i].isDefault = address[i].isDefault

SavesDefault(c) ==
  /\ call[c].op # "setActive" /\ pc[c] # "setting"
  /\ pc[c] \in {"saving", "defaulting", "clearing"} => form[c].isDefault
  /\ DOMAIN mine[c] # {} => \E i \in DOMAIN mine[c] : mine[c][i].isDefault
  /\ pc[c] \in {"defaulting", "clearing"} =>
       id[c] \in DOMAIN mine[c] /\ mine[c][id[c]].isDefault
  /\ pc[c] = "clearing" => id[c] \notin others[c]

Ticked(c) == pc[c] = "idle" \/ Unticks(call[c]) \/ SwitchOK(c) \/ SavesDefault(c)

TickedInv == Exclusive /\ \A c \in Callers : Ticked(c)

\* A statement waits for the row that it writes.
LEMMA ExclusiveWrite ==
  ASSUME TypeOK, Exclusive, NEW c \in Callers, NEW i \in Ids, NEW a \in Address, Wrote(c, i, a),
         \A d \in Callers : d # c => i \notin DOMAIN mine[d]
  PROVE  Exclusive'
<1>1. /\ \A d \in Callers : d # c => mine'[d] = mine[d]
      /\ DOMAIN mine'[c] = DOMAIN mine[c] \cup {i}
  BY WroteTyped
<1> QED
  BY <1>1 DEF Exclusive

\* What the steps of one caller write, and when.
LEMMA ExclusiveStep ==
  ASSUME Inv, Exclusive, NEW c \in Callers, Step(c) \/ Fail(c) \/ Begins(c)
  PROVE  Exclusive'
<1>1. TypeOK /\ CallerOK(c)
  BY DEF Inv
<1>2. CASE mine' = mine
  BY <1>2 DEF Exclusive
<1>3. CASE End(c)
  <2>1. DOMAIN mine'[c] = {} /\ \A d \in Callers : d # c => mine'[d] = mine[d]
    BY <1>1, <1>3, EndResets DEF OthersKeep
  <2> QED
    BY <2>1 DEF Exclusive
<1>4. CASE InsertAddress(c) \/ UpdateAddress(c)
  <2>1. form[c] \in Address /\ id[c] \in Ids \cup {NULL}
    BY <1>1, <1>4, Running DEF CallerOK, InsertAddress, UpdateAddress
  <2>2. \/ End(c)
        \/ \E i \in Ids : Writes(c, i) /\ \A d \in Callers : d # c => i \notin DOMAIN mine[d]
    BY <1>4, <2>1 DEF InsertAddress, UpdateAddress, Duplicate, Unused, RowHeld, RowHeldBy
  <2> QED
    BY <1>1, <1>3, <2>1, <2>2, ExclusiveWrite DEF Writes
<1>5. CASE WriteActive(c)
  <2> DEFINE b == [view(c)[id[c]] EXCEPT !.isActive = form[c].isActive]
  <2>1. form[c] \in Address /\ id[c] \in Ids /\ view(c)[id[c]] \in Address
    BY <1>1, <1>5, Running, ViewTyped DEF CallerOK, WriteActive
  <2>2. b \in Address /\ Wrote(c, id[c], b)
    BY <1>5, <2>1 DEF Address, WriteActive
  <2>3. \A d \in Callers : d # c => id[c] \notin DOMAIN mine[d]
    BY <1>5 DEF WriteActive, RowHeld, RowHeldBy
  <2> HIDE DEF b
  <2> QED
    BY <1>1, <2>1, <2>2, <2>3, ExclusiveWrite
<1>6. CASE ClearOther(c)
  <2>1. PICK i \in others[c] :
          /\ ~RowHeld(c, i)
          /\ \/ Wrote(c, i, [view(c)[i] EXCEPT !.isDefault = FALSE])
             \/ UNCHANGED mine
    BY <1>6 DEF ClearOther
  <2>2. i \in Ids /\ view(c)[i] \in Address
    BY <1>1, <2>1, ViewTyped DEF CallerOK, TypeOK
  <2>3. [view(c)[i] EXCEPT !.isDefault = FALSE] \in Address
    BY <2>2 DEF Address
  <2>4. \A d \in Callers : d # c => i \notin DOMAIN mine[d]
    BY <2>1 DEF RowHeld, RowHeldBy
  <2>5. CASE UNCHANGED mine
    BY <1>2, <2>5
  <2>6. CASE Wrote(c, i, [view(c)[i] EXCEPT !.isDefault = FALSE])
    BY <1>1, <2>2, <2>3, <2>4, <2>6, ExclusiveWrite
  <2> QED
    BY <2>1, <2>5, <2>6
<1> QED
  BY <1>2, <1>3, <1>4, <1>5, <1>6
     DEF Step, Fail, Deadlock, Commit, PlanRow, Planned, FindOthers, Cleared, Begins, Begin,
         createCustomerAddress, updateCustomerAddress, setCustomerAddressActive, confirmImport

\* Another caller's step leaves what is said of a call true: its commit changes
\* no row that this one wrote.
LEMMA TickedFrame ==
  ASSUME Inv, TickedInv, NEW c \in Callers, OthersKeep(c),
         address' = address \/ address' = view(c)
  PROVE  \A d \in Callers : d # c => Ticked(d)'
<1> SUFFICES ASSUME NEW d \in Callers, d # c  PROVE Ticked(d)'
  OBVIOUS
<1>1. /\ pc'[d] = pc[d] /\ call'[d] = call[d] /\ id'[d] = id[d]
      /\ form'[d] = form[d] /\ mine'[d] = mine[d] /\ others'[d] = others[d]
  BY DEF OthersKeep
<1>2. \A i \in DOMAIN mine[d] : address'[i] = address[i]
  BY DEF view, TickedInv, Exclusive, Inv, TypeOK
<1>3. CASE pc[d] = "idle" \/ Unticks(call[d])
  BY <1>1, <1>3 DEF Ticked, Unticks
<1>4. CASE SwitchOK(d)
  BY <1>1, <1>2, <1>4 DEF Ticked, SwitchOK
<1>5. CASE SavesDefault(d)
  BY <1>1, <1>5 DEF Ticked, SavesDefault
<1> QED
  BY <1>3, <1>4, <1>5 DEF TickedInv, Ticked

\* A call begins with nothing written.
LEMMA TickedBegins ==
  ASSUME Inv, NEW c \in Callers, Begins(c)
  PROVE  Ticked(c)' /\ OthersKeep(c) /\ address' = address
<1>1. TypeOK /\ CallerOK(c)
  BY DEF Inv
<1>2. ASSUME NEW k, NEW stage, NEW i, NEW a, Begin(c, k, stage, i, a)
      PROVE  /\ pc'[c] = stage /\ call'[c] = k /\ form'[c] = a /\ DOMAIN mine'[c] = {}
             /\ OthersKeep(c) /\ address' = address
  BY <1>1, <1>2 DEF Begin, TypeOK, CallerOK, OthersKeep
<1>3. CASE createCustomerAddress(c)
  <2>1. PICK a \in Forms : Begin(c, [op |-> "create", form |-> a], "saving", NULL, a)
    BY <1>3 DEF createCustomerAddress
  <2> QED
    BY <1>2, <2>1 DEF Ticked, SavesDefault, Unticks
<1>4. CASE updateCustomerAddress(c)
  <2>1. PICK j \in Ids, a \in Forms :
          Begin(c, [op |-> "update", id |-> j, form |-> a], "saving", j, a)
    BY <1>4 DEF updateCustomerAddress
  <2> QED
    BY <1>2, <2>1 DEF Ticked, SavesDefault, Unticks
<1>5. CASE setCustomerAddressActive(c)
  <2>1. PICK j \in Ids, b \in BOOLEAN :
          Begin(c, [op |-> "setActive", id |-> j, isActive |-> b], "setting", j,
                [address[j] EXCEPT !.isActive = b])
    BY <1>5 DEF setCustomerAddressActive
  <2> QED
    BY <1>2, <2>1 DEF Ticked, SwitchOK
<1>6. CASE confirmImport(c)
  <2>1. PICK f \in Files : Begin(c, [op |-> "import", file |-> f], "planning", NULL, NULL)
    BY <1>6 DEF confirmImport
  <2> QED
    BY <1>2, <2>1 DEF Ticked, SavesDefault
<1> QED
  BY <1>3, <1>4, <1>5, <1>6 DEF Begins

\* A file that unticks nothing saves defaults only.
LEMMA TickedRows ==
  ASSUME NEW f \in File, NEW k \in Accepted(f),
         ~(\E j \in Accepted(f) : f.hasDefault => ~f.rows[j].isDefault)
  PROVE  NewAddress(f, k).isDefault /\ \A a \in Address : Merged(f, k, a).isDefault
<1>1. f.hasDefault /\ f.rows[k].isDefault
  OBVIOUS
<1> QED
  BY <1>1 DEF NewAddress, Merged

\* A caller's own step, one stage after the other.
LEMMA TickedStep ==
  ASSUME Inv, NEW c \in Callers, Step(c) \/ Fail(c), Ticked(c)
  PROVE  Ticked(c)'
<1>1. TypeOK /\ CallerOK(c) /\ view(c) \in [Ids -> Address \cup {NULL}]
  BY ViewTyped DEF Inv
<1>2. CASE End(c)
  BY <1>1, <1>2, EndResets DEF Ticked
<1> SUFFICES ASSUME ~End(c), pc[c] # "idle"  PROVE Ticked(c)'
  BY <1>2, StepKeeps DEF Fail
<1>3. Step(c) /\ call' = call /\ address' = address
  BY DEF Step, Fail, Deadlock, Commit, PlanRow, Planned, InsertAddress, UpdateAddress,
     Duplicate, Writes, WriteActive, FindOthers, ClearOther, Cleared
<1>4. CASE Unticks(call[c])
  BY <1>3, <1>4 DEF Ticked, Unticks
<1>5. CASE SwitchOK(c)
  <2>1. WriteActive(c) /\ pc[c] = "setting"
    <3>1. pc[c] \in {"setting", "done"}
      BY <1>5 DEF SwitchOK
    <3>2. ~Commit(c) /\ ~Deadlock(c)
      BY DEF Commit, Deadlock
    <3>3. /\ ~PlanRow(c) /\ ~Planned(c) /\ ~InsertAddress(c) /\ ~UpdateAddress(c)
          /\ ~FindOthers(c) /\ ~ClearOther(c) /\ ~Cleared(c)
      BY <3>1 DEF PlanRow, Planned, InsertAddress, UpdateAddress, FindOthers, ClearOther, Cleared
    <3> QED
      BY <1>3, <3>2, <3>3 DEF Step, WriteActive
  <2> DEFINE b == [view(c)[id[c]] EXCEPT !.isActive = form[c].isActive]
  <2>2. form[c] \in Address /\ id[c] \in Ids /\ view(c)[id[c]] \in Address
    BY <1>1, <2>1, Running DEF CallerOK
  <2>3. b \in Address /\ b.isDefault = view(c)[id[c]].isDefault /\ Wrote(c, id[c], b)
    BY <2>1, <2>2 DEF Address, WriteActive
  <2>4. address[id[c]] # NULL /\ view(c)[id[c]].isDefault = address[id[c]].isDefault
    <3>1. view(c)[id[c]] = IF id[c] \in DOMAIN mine[c] THEN mine[c][id[c]] ELSE address[id[c]]
      BY <2>2 DEF view
    <3> QED
      BY <1>5, <2>2, <3>1 DEF SwitchOK
  <2>5. pc'[c] = "done"
    BY <1>1, <1>5, <2>1 DEF WriteActive, Saved, SwitchOK, TypeOK
  <2> HIDE DEF b
  <2>6. \A i \in DOMAIN mine'[c] :
          address[i] # NULL /\ mine'[c][i].isDefault = address[i].isDefault
    BY <1>1, <1>5, <2>2, <2>3, <2>4, WroteTyped DEF SwitchOK
  <2> QED
    BY <1>3, <1>5, <2>5, <2>6 DEF Ticked, SwitchOK
<1>6. CASE SavesDefault(c) /\ ~Unticks(call[c])
  <2>1. CASE PlanRow(c)
    <3> DEFINE f == call[c].file
               k == at[c]
    <3>1. pc[c] = "planning" /\ mine' = mine /\ call[c].op = "import" /\ f \in File
      BY <1>1, <2>1, Running, CallKinds DEF PlanRow, CallerOK
    <3>2. ~(\E j \in Accepted(f) : f.hasDefault => ~f.rows[j].isDefault)
      BY <1>6, <3>1 DEF Unticks
    <3>3. pc'[c] = "planning" \/ (pc'[c] = "saving" /\ form'[c].isDefault)
      <4>1. CASE UNCHANGED pc
        BY <3>1, <4>1
      <4>2. CASE k \in Accepted(f) /\ pc' = [pc EXCEPT ![c] = "saving"]
                 /\ form' = [form EXCEPT ![c] = NewAddress(f, k)]
        BY <1>1, <3>1, <3>2, <4>2, TickedRows DEF TypeOK
      <4>3. ASSUME NEW i \in Matches(view(c), f.rows[k].label), k \in Accepted(f),
                   pc' = [pc EXCEPT ![c] = "saving"],
                   form' = [form EXCEPT ![c] = Merged(f, k, view(c)[i])]
            PROVE  pc'[c] = "saving" /\ form'[c].isDefault
        <5>1. view(c)[i] \in Address
          BY <1>1 DEF Matches
        <5>2. Merged(f, k, view(c)[i]).isDefault
          BY <3>1, <3>2, <4>3, <5>1, TickedRows
        <5> QED
          BY <1>1, <4>3, <5>2 DEF TypeOK
      <4> QED
        BY <2>1, <4>1, <4>2, <4>3 DEF PlanRow, RowStatus
    <3> QED
      BY <1>3, <1>6, <3>1, <3>3 DEF Ticked, SavesDefault
  <2>2. CASE Planned(c)
    <3>1. mine' = mine /\ pc'[c] = "done"
      BY <1>1, <2>2 DEF Planned, TypeOK
    <3> QED
      BY <1>3, <1>6, <3>1 DEF Ticked, SavesDefault
  <2>3. CASE InsertAddress(c) \/ UpdateAddress(c)
    <3>1. pc[c] = "saving" /\ form[c] \in Address /\ form[c].isDefault /\ id[c] \in Ids \cup {NULL}
      BY <1>1, <1>6, <2>3, Running DEF InsertAddress, UpdateAddress, CallerOK, SavesDefault
    <3>2. PICK i \in Ids : Writes(c, i)
      BY <2>3, <3>1 DEF InsertAddress, UpdateAddress, Duplicate
    <3>3. /\ Wrote(c, i, form[c]) /\ id'[c] = i /\ pc'[c] = "defaulting" /\ form' = form
      BY <1>1, <3>1, <3>2 DEF Writes, TypeOK
    <3>4. i \in DOMAIN mine'[c] /\ mine'[c][i] = form[c]
      BY <1>1, <3>1, <3>3, WroteTyped
    <3> QED
      BY <1>3, <1>6, <3>1, <3>3, <3>4 DEF Ticked, SavesDefault
  <2>4. CASE FindOthers(c)
    <3>1. /\ pc[c] = "defaulting" /\ pc'[c] = "clearing" /\ mine' = mine /\ id' = id /\ form' = form
          /\ others'[c] = OtherDefaults(c)
      BY <1>1, <2>4 DEF FindOthers, TypeOK
    <3>2. id[c] \notin OtherDefaults(c)
      BY DEF OtherDefaults
    <3> QED
      BY <1>3, <1>6, <3>1, <3>2 DEF Ticked, SavesDefault
  <2>5. CASE ClearOther(c)
    <3>1. pc[c] = "clearing" /\ pc' = pc /\ id' = id /\ form' = form
      BY <2>5 DEF ClearOther
    <3>2. PICK i \in others[c] :
            /\ others' = [others EXCEPT ![c] = @ \ {i}]
            /\ \/ Wrote(c, i, [view(c)[i] EXCEPT !.isDefault = FALSE])
               \/ UNCHANGED mine
      BY <2>5 DEF ClearOther
    <3>3. i \in Ids /\ view(c)[i] \in Address /\ i # id[c] /\ others'[c] \subseteq others[c]
      BY <1>1, <1>6, <3>1, <3>2 DEF CallerOK, TypeOK, SavesDefault
    <3>4. [view(c)[i] EXCEPT !.isDefault = FALSE] \in Address
      BY <3>3 DEF Address
    <3>5. id[c] \in DOMAIN mine[c] /\ mine[c][id[c]].isDefault
      BY <1>6, <3>1 DEF SavesDefault
    <3>6. id[c] \in DOMAIN mine'[c] /\ mine'[c][id[c]].isDefault
      BY <1>1, <3>2, <3>3, <3>4, <3>5, WroteTyped
    <3> QED
      BY <1>3, <1>6, <3>1, <3>3, <3>6 DEF Ticked, SavesDefault
  <2>6. CASE Cleared(c)
    <3>1. mine' = mine /\ pc'[c] \in {"planning", "done"}
      BY <1>1, <2>6, SavedTyped DEF Cleared
    <3> QED
      BY <1>3, <1>6, <3>1 DEF Ticked, SavesDefault
  <2>7. ~WriteActive(c) /\ ~Commit(c) /\ ~Deadlock(c)
    BY <1>6 DEF SavesDefault, WriteActive, Commit, Deadlock
  <2> QED
    BY <1>3, <2>1, <2>2, <2>3, <2>4, <2>5, <2>6, <2>7 DEF Step
<1> QED
  BY <1>4, <1>5, <1>6 DEF Ticked

\* Idle calls have written nothing.
LEMMA TickedInit == Init => TickedInv
<1> SUFFICES ASSUME Init PROVE TickedInv
  OBVIOUS
<1>1. \A c \in Callers : pc[c] = "idle" /\ DOMAIN mine[c] = {}
  BY DEF Init, NoRows
<1> QED
  BY <1>1 DEF TickedInv, Exclusive, Ticked

\* What a step does to the committed rows.
LEMMA AddressStep ==
  ASSUME Inv, NEW c \in Callers, Step(c) \/ Fail(c)
  PROVE  OthersKeep(c) /\ (address' = address \/ (Commit(c) /\ address' = view(c)))
<1>1. OthersKeep(c)
  BY StepKeeps, EndResets DEF Fail, Inv
<1>2. address' = address \/ Commit(c)
  BY DEF Step, Fail, Deadlock, PlanRow, Planned, InsertAddress, UpdateAddress,
     Duplicate, Writes, WriteActive, FindOthers, ClearOther, Cleared
<1> QED
  BY <1>1, <1>2 DEF Commit

\* Every step keeps the invariant: a call begins, goes on, or fails.
LEMMA TickedNext == Inv /\ TickedInv /\ [Next]_vars => TickedInv'
<1> SUFFICES ASSUME Inv, TickedInv, [Next]_vars PROVE TickedInv'
  OBVIOUS
<1>1. ASSUME UNCHANGED vars PROVE TickedInv'
  BY <1>1 DEF TickedInv, Exclusive, Ticked, Unticks, SwitchOK, SavesDefault, vars, local
<1>2. ASSUME NEW c \in Callers, Begins(c) PROVE TickedInv'
  <2>1. Exclusive'
    BY <1>2, ExclusiveStep DEF TickedInv
  <2>2. \A d \in Callers : Ticked(d)'
    BY <1>2, TickedBegins, TickedFrame
  <2> QED
    BY <2>1, <2>2 DEF TickedInv
<1>3. ASSUME NEW c \in Callers, Step(c) \/ Fail(c) PROVE TickedInv'
  <2>1. Exclusive'
    BY <1>3, ExclusiveStep DEF TickedInv
  <2>2. Ticked(c)'
    BY <1>3, TickedStep DEF TickedInv
  <2>3. \A d \in Callers : d # c => Ticked(d)'
    BY <1>3, AddressStep, TickedFrame
  <2> QED
    BY <2>1, <2>2, <2>3 DEF TickedInv
<1> QED
  BY <1>1, <1>2, <1>3 DEF Next, Begins

\* However calls overlap, a customer loses its last default address only to a
\* call that unticks one (or to a file without the column), never to two calls
\* that clear each other's default.
THEOREM LastDefaultIsUnticked == Spec => SomeDefaultStays
<1>1. Inv /\ TickedInv /\ [Next]_vars =>
        [Defaults(address) # {} /\ Defaults(address') = {} =>
           \E c \in Callers : pc[c] = "done" /\ pc'[c] = "idle" /\ Unticks(call[c])]_vars
  <2> SUFFICES ASSUME Inv, TickedInv, [Next]_vars, Defaults(address) # {}, Defaults(address') = {}
               PROVE  \E c \in Callers : pc[c] = "done" /\ pc'[c] = "idle" /\ Unticks(call[c])
    OBVIOUS
  <2>1. address' # address
    BY DEF Defaults
  <2>2. PICK c \in Callers : Step(c) \/ Fail(c)
    BY <2>1 DEF Next, vars, Begin, createCustomerAddress, updateCustomerAddress,
       setCustomerAddressActive, confirmImport
  <2>3. Commit(c) /\ address' = view(c)
    BY <2>1, <2>2, AddressStep
  <2>4. TypeOK /\ pc[c] = "done" /\ pc'[c] = "idle"
    BY <2>3, EndResets DEF Commit, Inv
  <2>5. PICK i \in Ids : address[i] # NULL /\ address[i].isDefault
    BY <2>4 DEF Defaults, TypeOK
  <2>6. \A j \in Ids : view(c)[j] = NULL \/ ~view(c)[j].isDefault
    BY <2>3 DEF Defaults, view
  <2>7. ~SwitchOK(c)
    <3>1. view(c)[i] = IF i \in DOMAIN mine[c] THEN mine[c][i] ELSE address[i]
      BY DEF view
    <3>2. i \in DOMAIN mine[c] => mine[c][i] # NULL
      BY <2>4 DEF TypeOK
    <3> QED
      BY <2>5, <2>6, <3>1, <3>2 DEF SwitchOK
  <2>8. ~SavesDefault(c)
    <3>1. DOMAIN mine[c] # {}
      BY <2>5, <2>6 DEF view
    <3>2. ASSUME NEW j \in DOMAIN mine[c], mine[c][j].isDefault  PROVE FALSE
      <4>1. j \in Ids /\ mine[c][j] \in Address /\ view(c)[j] = mine[c][j]
        BY <2>4, <3>2 DEF TypeOK, view
      <4> QED
        BY <2>6, <3>2, <4>1
    <3> QED
      BY <3>1, <3>2 DEF SavesDefault
  <2> QED
    BY <2>4, <2>7, <2>8 DEF TickedInv, Ticked
<1> QED
  BY <1>1, InitInv, NextInv, TickedInit, TickedNext, PTL DEF Spec, SomeDefaultStays

-----------------------------------------------------------------------------
(* What a call that runs alone has done so far.  A file's call has brought    *)
(* the committed rows to where its rows up to n take them; a form's call sees  *)
(* the committed rows, and then those with its form.  Between its own write of *)
(* a default and the last of the statements that clear the others, this is so  *)
(* of the rows that the call will leave.                                       *)

Distinct(rows) ==
  \A i, j \in Ids : rows[i] # NULL /\ rows[j] # NULL /\ rows[i].label = rows[j].label => i = j

\* The rows up to n that count, their labels, and those that say they are the default.
UpTo(f, n) == {k \in Accepted(f) : k <= n}
LabelsUpTo(f, n) == {f.rows[k].label : k \in UpTo(f, n)}
ClaimsUpTo(f, n) == {k \in UpTo(f, n) : f.hasDefault /\ f.rows[k].isDefault}

DefaultUpTo(f, n, l, before) ==
  \/ \E k \in ClaimsUpTo(f, n) : f.rows[k].label = l /\ \A j \in ClaimsUpTo(f, n) : j <= k
  \/ ClaimsUpTo(f, n) = {} /\ before /\ ~(f.hasDefault /\ l \in LabelsUpTo(f, n))
ActiveUpTo(f, n, l, before) ==
  \/ f.hasActive /\ \E k \in UpTo(f, n) : f.rows[k].label = l /\ f.rows[k].isActive
  \/ ~(f.hasActive /\ l \in LabelsUpTo(f, n)) /\ before

\* The rows up to n of file f turn base into rows.
Takes(f, n, base, rows) ==
  /\ Distinct(rows)
  /\ \A i \in Ids : base[i] # NULL => rows[i] # NULL /\ rows[i].label = base[i].label
  /\ \A l \in LabelsUpTo(f, n) : \E i \in Ids : rows[i] # NULL /\ rows[i].label = l
  /\ \A i \in Ids : rows[i] # NULL =>
       /\ base[i] = NULL => rows[i].label \in LabelsUpTo(f, n)
       /\ rows[i].isDefault <=>
            DefaultUpTo(f, n, rows[i].label, base[i] # NULL /\ base[i].isDefault)
       /\ rows[i].isActive <=>
            ActiveUpTo(f, n, rows[i].label, base[i] # NULL => base[i].isActive)

\* Row i is saved as a, and the others' flags are cleared if a is a default.
Saving(rows, i, a) ==
  [j \in Ids |-> IF j = i THEN a
                 ELSE IF rows[j] # NULL /\ a.isDefault THEN [rows[j] EXCEPT !.isDefault = FALSE]
                 ELSE rows[j]]

\* What call k does, of a file up to row n.
Effect(k, n, base, rows) ==
  /\ k.op = "import" => Takes(k.file, n, base, rows)
  /\ k.op = "setActive" =>
       base[k.id] # NULL /\ rows = [base EXCEPT ![k.id].isActive = k.isActive]
  /\ k.op \in {"create", "update"} =>
       \E i \in Ids :
         /\ k.op = "create" => base[i] = NULL
         /\ k.op = "update" => i = k.id
         /\ \A j \in Ids \ {i} : base[j] # NULL => base[j].label # k.form.label
         /\ rows = Saving(base, i, k.form)

\* What row k of file f is saved as, in row i (NULL: a new one) of rows.
SavesRow(f, k, rows, i, a) ==
  \/ i = NULL /\ Matches(rows, f.rows[k].label) = {} /\ a = NewAddress(f, k)
  \/ i \in Matches(rows, f.rows[k].label) /\ a = Merged(f, k, rows[i])

ToSave(c) ==
  /\ call[c].op = "import" =>
       /\ at[c] \in Accepted(call[c].file)
       /\ Takes(call[c].file, at[c] - 1, address, view(c))
       /\ SavesRow(call[c].file, at[c], view(c), id[c], form[c])
  /\ call[c].op # "import" =>
       /\ call[c].op \in {"create", "update"} /\ view(c) = address /\ form[c] = call[c].form
       /\ call[c].op = "create" => id[c] = NULL
       /\ call[c].op = "update" => id[c] = call[c].id

Story(c) ==
  /\ pc[c] = "idle" => at[c] = 1
  /\ pc[c] = "planning" => Takes(call[c].file, at[c] - 1, address, view(c))
  /\ pc[c] = "saving" => ToSave(c)
  /\ pc[c] = "setting" =>
       /\ call[c].op = "setActive" /\ view(c) = address
       /\ id[c] = call[c].id /\ form[c].isActive = call[c].isActive
  /\ pc[c] \in {"defaulting", "clearing"} =>
       /\ view(c)[id[c]] = form[c] /\ form[c].isDefault /\ call[c].op # "setActive"
       /\ Effect(call[c], at[c], address, Saving(view(c), id[c], form[c]))
  /\ pc[c] = "clearing" => id[c] \notin others[c]
  /\ pc[c] = "done" =>
       /\ Effect(call[c], at[c] - 1, address, view(c))
       /\ call[c].op = "import" => at[c] > Len(call[c].file.rows)

StoryInv == overlapped \/ (Distinct(address) /\ \A c \in Callers : Story(c))

\* The rows of a file up to n, and one more.
LEMMA UpToNext ==
  ASSUME NEW f \in File, NEW k \in Nat \ {0}
  PROVE  /\ k \in Accepted(f) =>
              /\ UpTo(f, k) = UpTo(f, k - 1) \cup {k}
              /\ \A j \in UpTo(f, k - 1) : j < k /\ f.rows[j].label # f.rows[k].label
         /\ k \notin Accepted(f) => UpTo(f, k) = UpTo(f, k - 1)
<1>1. \A j \in Accepted(f) : j \in Nat /\ j \in 1..Len(f.rows) /\ f.rows[j] # NULL
  <2>1. Len(f.rows) \in Nat
    BY DEF File
  <2> QED
    BY <2>1 DEF Accepted
<1>2. \A j \in UpTo(f, k - 1) : j < k
  BY <1>1 DEF UpTo
<1>3. k \in Accepted(f) => UpTo(f, k) = UpTo(f, k - 1) \cup {k}
  BY <1>1 DEF UpTo
<1>4. k \notin Accepted(f) => UpTo(f, k) = UpTo(f, k - 1)
  BY <1>1 DEF UpTo
<1>5. ASSUME k \in Accepted(f), NEW j \in UpTo(f, k - 1)
      PROVE  f.rows[j].label # f.rows[k].label
  BY <1>1, <1>2, <1>5 DEF UpTo, Accepted
<1> QED
  BY <1>2, <1>3, <1>4, <1>5

\* Nothing is done before the first row.
LEMMA TakesNone ==
  ASSUME NEW f \in File, NEW base \in [Ids -> Address \cup {NULL}], Distinct(base)
  PROVE  Takes(f, 0, base, base)
<1>1. UpTo(f, 0) = {}
  <2>1. Len(f.rows) \in Nat
    BY DEF File
  <2> QED
    BY <2>1 DEF UpTo, Accepted
<1>2. LabelsUpTo(f, 0) = {} /\ ClaimsUpTo(f, 0) = {}
  BY <1>1 DEF LabelsUpTo, ClaimsUpTo
<1> QED
  BY <1>1, <1>2 DEF Takes, DefaultUpTo, ActiveUpTo

\* A row that does not count changes nothing.
LEMMA TakesSkipped ==
  ASSUME NEW f \in File, NEW k \in Nat \ {0}, NEW base, NEW rows, k \notin Accepted(f),
         Takes(f, k - 1, base, rows)
  PROVE  Takes(f, k, base, rows)
<1>1. UpTo(f, k) = UpTo(f, k - 1)
  BY UpToNext
<1>2. LabelsUpTo(f, k) = LabelsUpTo(f, k - 1) /\ ClaimsUpTo(f, k) = ClaimsUpTo(f, k - 1)
  BY <1>1 DEF LabelsUpTo, ClaimsUpTo
<1> QED
  BY <1>1, <1>2 DEF Takes, DefaultUpTo, ActiveUpTo

\* What a row sets: its label's row, and only that row's label.
LEMMA SavesRowTyped ==
  ASSUME NEW f \in File, NEW k \in Accepted(f), NEW rows \in [Ids -> Address \cup {NULL}],
         NEW i, NEW a, SavesRow(f, k, rows, i, a)
  PROVE  /\ a \in Address /\ a.label = f.rows[k].label
         /\ i = NULL \/ (i \in Ids /\ rows[i] \in Address /\ rows[i].label = a.label)
<1>1. CASE i = NULL /\ a = NewAddress(f, k)
  BY <1>1, FileRows DEF NewAddress
<1>2. CASE i \in Matches(rows, f.rows[k].label) /\ a = Merged(f, k, rows[i])
  BY <1>2, FileRows DEF Merged, Matches
<1> QED
  BY <1>1, <1>2 DEF SavesRow

\* The labels and the claims, with one more row.
LEMMA ReadNext ==
  ASSUME NEW f \in File, NEW k \in Nat \ {0}, k \in Accepted(f)
  PROVE  /\ LabelsUpTo(f, k) = LabelsUpTo(f, k - 1) \cup {f.rows[k].label}
         /\ f.rows[k].label \notin LabelsUpTo(f, k - 1)
         /\ f.hasDefault /\ f.rows[k].isDefault => ClaimsUpTo(f, k) = ClaimsUpTo(f, k - 1) \cup {k}
         /\ ~(f.hasDefault /\ f.rows[k].isDefault) => ClaimsUpTo(f, k) = ClaimsUpTo(f, k - 1)
<1>1. /\ UpTo(f, k) = UpTo(f, k - 1) \cup {k}
      /\ \A j \in UpTo(f, k - 1) : j < k /\ f.rows[j].label # f.rows[k].label
  BY UpToNext
<1> QED
  BY <1>1 DEF LabelsUpTo, ClaimsUpTo

\* Who is the default after a row that counts: it, if it says so, and then
\* nobody else; it is not, if it says so; and it says nothing of the others.
LEMMA DefaultNext ==
  ASSUME NEW f \in File, NEW k \in Nat \ {0}, k \in Accepted(f), NEW l, NEW before \in BOOLEAN
  PROVE  /\ f.hasDefault /\ f.rows[k].isDefault =>
              (DefaultUpTo(f, k, l, before) <=> l = f.rows[k].label)
         /\ f.hasDefault /\ ~f.rows[k].isDefault =>
              (DefaultUpTo(f, k, l, before) <=>
                 DefaultUpTo(f, k - 1, l, before) /\ l # f.rows[k].label)
         /\ ~f.hasDefault => (DefaultUpTo(f, k, l, before) <=> before)
<1>1. /\ LabelsUpTo(f, k) = LabelsUpTo(f, k - 1) \cup {f.rows[k].label}
      /\ f.hasDefault /\ f.rows[k].isDefault => ClaimsUpTo(f, k) = ClaimsUpTo(f, k - 1) \cup {k}
      /\ ~(f.hasDefault /\ f.rows[k].isDefault) => ClaimsUpTo(f, k) = ClaimsUpTo(f, k - 1)
  BY ReadNext
<1>2. /\ \A j \in ClaimsUpTo(f, k - 1) : j \in Nat /\ j < k /\ f.rows[j].label # f.rows[k].label
      /\ ~f.hasDefault => ClaimsUpTo(f, k - 1) = {}
  <2>1. Len(f.rows) \in Nat
    BY DEF File
  <2> QED
    BY <2>1, UpToNext DEF ClaimsUpTo, UpTo, Accepted
<1>3. CASE f.hasDefault /\ f.rows[k].isDefault
  <2>1. ClaimsUpTo(f, k) = ClaimsUpTo(f, k - 1) \cup {k}
    BY <1>1, <1>3
  <2>2. \A j \in ClaimsUpTo(f, k) : j <= k
    BY <1>2, <2>1
  <2>3. \A i \in ClaimsUpTo(f, k) : (\A j \in ClaimsUpTo(f, k) : j <= i) => i = k
    BY <1>2, <2>1
  <2>4. DefaultUpTo(f, k, l, before) <=>
          \E i \in ClaimsUpTo(f, k) : f.rows[i].label = l /\ \A j \in ClaimsUpTo(f, k) : j <= i
    BY <2>1 DEF DefaultUpTo
  <2>5. DefaultUpTo(f, k, l, before) <=> l = f.rows[k].label
    BY <2>1, <2>2, <2>3, <2>4
  <2> QED
    BY <1>3, <2>5
<1>4. CASE f.hasDefault /\ ~f.rows[k].isDefault
  <2>1. ClaimsUpTo(f, k) = ClaimsUpTo(f, k - 1)
    BY <1>1, <1>4
  <2>2. DefaultUpTo(f, k, l, before) <=>
          DefaultUpTo(f, k - 1, l, before) /\ l # f.rows[k].label
    BY <1>1, <1>2, <1>4, <2>1 DEF DefaultUpTo
  <2> QED
    BY <1>4, <2>2
<1>5. CASE ~f.hasDefault
  <2>1. ClaimsUpTo(f, k) = {} /\ ClaimsUpTo(f, k - 1) = {}
    BY <1>1, <1>2, <1>5
  <2> QED
    BY <1>5, <2>1 DEF DefaultUpTo
<1> QED
  BY <1>3, <1>4, <1>5

\* So with isActive, which rows do not take from each other.
LEMMA ActiveNext ==
  ASSUME NEW f \in File, NEW k \in Nat \ {0}, k \in Accepted(f), NEW l, NEW before \in BOOLEAN
  PROVE  /\ l # f.rows[k].label =>
              (ActiveUpTo(f, k, l, before) <=> ActiveUpTo(f, k - 1, l, before))
         /\ l = f.rows[k].label =>
              (ActiveUpTo(f, k, l, before) <=> IF f.hasActive THEN f.rows[k].isActive ELSE before)
         /\ ~f.hasActive => (ActiveUpTo(f, k - 1, l, before) <=> before)
<1>1. /\ UpTo(f, k) = UpTo(f, k - 1) \cup {k}
      /\ \A j \in UpTo(f, k - 1) : f.rows[j].label # f.rows[k].label
  BY UpToNext
<1>2. LabelsUpTo(f, k) = LabelsUpTo(f, k - 1) \cup {f.rows[k].label}
  BY ReadNext
<1>3. CASE l # f.rows[k].label
  <2>1. /\ l \in LabelsUpTo(f, k) <=> l \in LabelsUpTo(f, k - 1)
        /\ \A b \in UpTo(f, k) : f.rows[b].label = l => b \in UpTo(f, k - 1)
    BY <1>1, <1>2, <1>3
  <2> QED
    BY <1>1, <1>3, <2>1 DEF ActiveUpTo
<1>4. CASE l = f.rows[k].label
  BY <1>1, <1>2, <1>4 DEF ActiveUpTo
<1> QED
  BY <1>3, <1>4 DEF ActiveUpTo

\* The rows that a save leaves.
LEMMA SavingRows ==
  ASSUME NEW rows \in [Ids -> Address \cup {NULL}], NEW i \in Ids, NEW a \in Address
  PROVE  /\ Saving(rows, i, a) \in [Ids -> Address \cup {NULL}]
         /\ Saving(rows, i, a)[i] = a
         /\ \A j \in Ids \ {i} :
              /\ rows[j] = NULL => Saving(rows, i, a)[j] = NULL
              /\ rows[j] # NULL =>
                   /\ Saving(rows, i, a)[j] \in Address
                   /\ Saving(rows, i, a)[j].label = rows[j].label
                   /\ Saving(rows, i, a)[j].isActive = rows[j].isActive
                   /\ Saving(rows, i, a)[j].isDefault = (rows[j].isDefault /\ ~a.isDefault)
<1>1. \A b \in Address : /\ [b EXCEPT !.isDefault = FALSE] \in Address
                         /\ [b EXCEPT !.isDefault = FALSE].label = b.label
                         /\ [b EXCEPT !.isDefault = FALSE].isActive = b.isActive
                         /\ [b EXCEPT !.isDefault = FALSE].isDefault = FALSE
                         /\ b.isDefault \in BOOLEAN
  BY DEF Address
<1>2. a.isDefault \in BOOLEAN
  BY DEF Address
<1>3. ASSUME NEW j \in Ids \ {i}
      PROVE  Saving(rows, i, a)[j] =
               IF rows[j] # NULL /\ a.isDefault THEN [rows[j] EXCEPT !.isDefault = FALSE] ELSE rows[j]
  BY DEF Saving
<1>4. Saving(rows, i, a)[i] = a
  BY DEF Saving
<1>5. ASSUME NEW j \in Ids \ {i}, rows[j] # NULL
      PROVE  /\ Saving(rows, i, a)[j] \in Address
             /\ Saving(rows, i, a)[j].label = rows[j].label
             /\ Saving(rows, i, a)[j].isActive = rows[j].isActive
             /\ Saving(rows, i, a)[j].isDefault = (rows[j].isDefault /\ ~a.isDefault)
  <2>1. rows[j] \in Address
    BY <1>5
  <2>2. CASE a.isDefault
    <3>1. Saving(rows, i, a)[j] = [rows[j] EXCEPT !.isDefault = FALSE]
      BY <1>3, <1>5, <2>2
    <3> DEFINE b == [rows[j] EXCEPT !.isDefault = FALSE]
    <3>2. /\ b \in Address /\ b.label = rows[j].label /\ b.isActive = rows[j].isActive
          /\ b.isDefault = FALSE
      BY <1>1, <2>1
    <3>3. Saving(rows, i, a)[j] = b
      BY <3>1
    <3> HIDE DEF b
    <3> QED
      BY <2>2, <3>2, <3>3
  <2>3. CASE ~a.isDefault
    BY <1>1, <1>3, <2>1, <2>3
  <2> QED
    BY <1>2, <2>2, <2>3
<1>6. Saving(rows, i, a) \in [Ids -> Address \cup {NULL}]
  <2>1. \A j \in Ids : Saving(rows, i, a)[j] \in Address \cup {NULL}
    BY <1>3, <1>4, <1>5
  <2> QED
    BY <2>1 DEF Saving
<1> QED
  BY <1>3, <1>4, <1>5, <1>6

\* Labels stay distinct if the saved row's is no other row's.
LEMMA SavingDistinct ==
  ASSUME NEW rows \in [Ids -> Address \cup {NULL}], NEW i \in Ids, NEW a \in Address,
         Distinct(rows), \A j \in Ids \ {i} : rows[j] # NULL => rows[j].label # a.label
  PROVE  Distinct(Saving(rows, i, a))
<1> DEFINE new == Saving(rows, i, a)
<1>1. /\ new[i] = a
      /\ \A j \in Ids \ {i} : new[j] # NULL => rows[j] # NULL /\ new[j].label = rows[j].label
  BY SavingRows
<1> HIDE DEF new
<1>2. Distinct(new)
  BY <1>1 DEF Distinct
<1> QED
  BY <1>2 DEF new

\* A row that counts, and is saved, is taken.
LEMMA TakesRow ==
  ASSUME NEW f \in File, NEW k \in Nat \ {0}, k \in Accepted(f),
         NEW base \in [Ids -> Address \cup {NULL}], NEW rows \in [Ids -> Address \cup {NULL}],
         Takes(f, k - 1, base, rows), OneOf(rows),
         NEW p, NEW i \in Ids, NEW a, SavesRow(f, k, rows, p, a),
         p = NULL => rows[i] = NULL, p # NULL => i = p
  PROVE  Takes(f, k, base, Saving(rows, i, a))
<1> DEFINE new == Saving(rows, i, a)
           l == f.rows[k].label
           was(j) == base[j] # NULL /\ base[j].isDefault
           on(j) == base[j] # NULL => base[j].isActive
<1>1. /\ a \in Address /\ a.label = l
      /\ rows[i] = NULL \/ (rows[i] \in Address /\ rows[i].label = l)
  BY SavesRowTyped
<1>2. /\ new[i] = a
      /\ \A j \in Ids \ {i} :
           /\ rows[j] = NULL => new[j] = NULL
           /\ rows[j] # NULL =>
                /\ new[j] \in Address /\ new[j] # NULL
                /\ new[j].label = rows[j].label
                /\ new[j].isActive = rows[j].isActive
                /\ new[j].isDefault = (rows[j].isDefault /\ ~a.isDefault)
  BY <1>1, SavingRows
<1>3. /\ LabelsUpTo(f, k) = LabelsUpTo(f, k - 1) \cup {l}
      /\ l \notin LabelsUpTo(f, k - 1)
  BY ReadNext
<1>4. \A j \in Ids : /\ was(j) \in BOOLEAN /\ on(j) \in BOOLEAN
                     /\ rows[j] # NULL => rows[j] \in Address
                     /\ rows[j] # NULL => rows[j].isDefault \in BOOLEAN /\ rows[j].isActive \in BOOLEAN
  BY DEF Address
<1>5. f.hasDefault \in BOOLEAN /\ f.hasActive \in BOOLEAN /\ f.rows[k] \in Row
      /\ f.rows[k].isDefault \in BOOLEAN /\ f.rows[k].isActive \in BOOLEAN
  BY DEF File, Accepted, Row
<1>6. /\ Distinct(rows)
      /\ \A j \in Ids : base[j] # NULL => rows[j] # NULL /\ rows[j].label = base[j].label
      /\ \A m \in LabelsUpTo(f, k - 1) : \E j \in Ids : rows[j] # NULL /\ rows[j].label = m
      /\ \A j \in Ids : rows[j] # NULL =>
           /\ base[j] = NULL => rows[j].label \in LabelsUpTo(f, k - 1)
           /\ rows[j].isDefault <=> DefaultUpTo(f, k - 1, rows[j].label, was(j))
           /\ rows[j].isActive <=> ActiveUpTo(f, k - 1, rows[j].label, on(j))
  BY DEF Takes
<1>7. \A j \in Ids \ {i} : rows[j] # NULL => rows[j].label # l
  <2>1. CASE rows[i] # NULL
    BY <1>1, <1>6, <2>1 DEF Distinct
  <2>2. CASE rows[i] = NULL
    <3>1. Matches(rows, l) = {}
      BY <2>2 DEF SavesRow, Matches
    <3> QED
      BY <3>1 DEF Matches
  <2> QED
    BY <2>1, <2>2
<1>8. \/ /\ rows[i] = NULL /\ base[i] = NULL
         /\ a.isDefault <=> f.hasDefault /\ f.rows[k].isDefault
         /\ a.isActive <=> (f.hasActive => f.rows[k].isActive)
      \/ /\ rows[i] # NULL
         /\ a.isDefault = IF f.hasDefault THEN f.rows[k].isDefault ELSE rows[i].isDefault
         /\ a.isActive = IF f.hasActive THEN f.rows[k].isActive ELSE rows[i].isActive
  <2>1. CASE p = NULL /\ a = NewAddress(f, k)
    BY <1>6, <2>1 DEF NewAddress
  <2>2. CASE p \in Matches(rows, l) /\ a = Merged(f, k, rows[p])
    BY <2>2 DEF Merged, Matches
  <2> QED
    BY <2>1, <2>2 DEF SavesRow
<1>9. Distinct(new)
  BY <1>1, <1>6, <1>7, SavingDistinct
<1> HIDE DEF new, l, was, on
<1>10. ASSUME NEW j \in Ids, base[j] # NULL
       PROVE  new[j] # NULL /\ new[j].label = base[j].label
  BY <1>1, <1>2, <1>6, <1>10
<1>11. ASSUME NEW m \in LabelsUpTo(f, k)
       PROVE  \E j \in Ids : new[j] # NULL /\ new[j].label = m
  BY <1>1, <1>2, <1>3, <1>6, <1>11
<1>12. ASSUME NEW j \in Ids, new[j] # NULL, base[j] = NULL
       PROVE  new[j].label \in LabelsUpTo(f, k)
  BY <1>1, <1>2, <1>3, <1>6, <1>12
<1>13. ASSUME NEW j \in Ids, new[j] # NULL
       PROVE  new[j].isDefault <=> DefaultUpTo(f, k, new[j].label, was(j))
  <2>1. CASE f.hasDefault /\ f.rows[k].isDefault
    <3>1. a.isDefault
      BY <1>8, <2>1
    <3>2. DefaultUpTo(f, k, new[j].label, was(j)) <=> new[j].label = l
      BY <1>4, <2>1, DefaultNext DEF l
    <3> QED
      BY <1>1, <1>2, <1>7, <1>13, <3>1, <3>2
  <2>2. CASE f.hasDefault /\ ~f.rows[k].isDefault
    <3>1. ~a.isDefault
      BY <1>8, <2>2
    <3>2. DefaultUpTo(f, k, new[j].label, was(j)) <=>
            DefaultUpTo(f, k - 1, new[j].label, was(j)) /\ new[j].label # l
      BY <1>4, <2>2, DefaultNext DEF l
    <3>3. CASE j = i
      BY <1>1, <1>2, <3>1, <3>2, <3>3
    <3>4. CASE j # i
      <4>1. rows[j] # NULL /\ new[j].label = rows[j].label /\ new[j].isDefault = rows[j].isDefault
        BY <1>2, <1>4, <1>13, <3>1, <3>4
      <4> QED
        BY <1>6, <1>7, <3>2, <3>4, <4>1
    <3> QED
      BY <3>3, <3>4
  <2>3. CASE ~f.hasDefault
    <3>1. DefaultUpTo(f, k, new[j].label, was(j)) <=> was(j)
      BY <1>4, <2>3, DefaultNext
    <3>2. rows[j] # NULL => (rows[j].isDefault <=> was(j))
      <4>1. ClaimsUpTo(f, k - 1) = {}
        BY <2>3 DEF ClaimsUpTo
      <4>2. DefaultUpTo(f, k - 1, rows[j].label, was(j)) <=> was(j)
        BY <2>3, <4>1 DEF DefaultUpTo
      <4>3. rows[j] # NULL =>
              (rows[j].isDefault <=> DefaultUpTo(f, k - 1, rows[j].label, was(j)))
        BY <1>6
      <4> QED
        BY <4>2, <4>3
    <3>3. CASE j = i
      BY <1>2, <1>8, <2>3, <3>1, <3>2, <3>3 DEF was
    <3>4. CASE j # i /\ ~a.isDefault
      BY <1>2, <1>4, <1>13, <3>1, <3>2, <3>4
    <3>5. CASE j # i /\ a.isDefault
      <4>1. rows[i] # NULL /\ rows[i].isDefault
        BY <1>8, <2>3, <3>5
      <4>2. rows[j] # NULL /\ ~rows[j].isDefault
        <5>1. rows[j] # NULL
          BY <1>2, <1>13, <3>5
        <5>2. DOMAIN rows = Ids
          OBVIOUS
        <5> QED
          BY <3>5, <4>1, <5>1, <5>2 DEF OneOf, Defaults
      <4>3. ~new[j].isDefault
        BY <1>2, <3>5, <4>2
      <4> QED
        BY <3>1, <3>2, <4>2, <4>3
    <3> QED
      BY <1>1, <3>3, <3>4, <3>5
  <2> QED
    BY <2>1, <2>2, <2>3
<1>14. ASSUME NEW j \in Ids, new[j] # NULL
       PROVE  new[j].isActive <=> ActiveUpTo(f, k, new[j].label, on(j))
  <2>1. CASE j # i
    <3>1. /\ rows[j] # NULL /\ new[j].label = rows[j].label /\ new[j].isActive = rows[j].isActive
          /\ new[j].label # l
      BY <1>2, <1>7, <1>14, <2>1
    <3>2. ActiveUpTo(f, k, new[j].label, on(j)) <=> ActiveUpTo(f, k - 1, new[j].label, on(j))
      BY <1>4, <3>1, ActiveNext DEF l
    <3>3. rows[j].isActive <=> ActiveUpTo(f, k - 1, rows[j].label, on(j))
      BY <1>6, <3>1
    <3> QED
      BY <3>1, <3>2, <3>3
  <2>2. CASE j = i
    <3>1. ActiveUpTo(f, k, l, on(i)) <=> IF f.hasActive THEN f.rows[k].isActive ELSE on(i)
      BY <1>4, ActiveNext DEF l
    <3>2. ~f.hasActive /\ rows[i] # NULL => (rows[i].isActive <=> on(i))
      <4>1. on(i) \in BOOLEAN
        BY <1>4
      <4>2. ~f.hasActive => (ActiveUpTo(f, k - 1, rows[i].label, on(i)) <=> on(i))
        BY <4>1, ActiveNext
      <4>3. rows[i] # NULL => (rows[i].isActive <=> ActiveUpTo(f, k - 1, rows[i].label, on(i)))
        BY <1>6
      <4> QED
        BY <4>2, <4>3
    <3>3. base[i] = NULL => on(i)
      BY DEF on
    <3>4. ActiveUpTo(f, k, l, on(i)) <=> a.isActive
      BY <1>4, <1>5, <1>8, <3>1, <3>2, <3>3
    <3> QED
      BY <1>1, <1>2, <2>2, <3>4
  <2> QED
    BY <2>1, <2>2
<1>15. \A j \in Ids : new[j] # NULL =>
         /\ new[j].isDefault <=>
              DefaultUpTo(f, k, new[j].label, base[j] # NULL /\ base[j].isDefault)
         /\ new[j].isActive <=>
              ActiveUpTo(f, k, new[j].label, base[j] # NULL => base[j].isActive)
  BY <1>13, <1>14 DEF was, on
<1>16. Takes(f, k, base, new)
  BY <1>9, <1>10, <1>11, <1>12, <1>15 DEF Takes
<1> QED
  BY <1>16 DEF new

\* A row that is the default already, or stays what it is, changes nothing.
LEMMA SavingSame ==
  ASSUME NEW rows \in [Ids -> Address \cup {NULL}], NEW i \in Ids, rows[i] # NULL, OneOf(rows)
  PROVE  Saving(rows, i, rows[i]) = rows
<1>1. ASSUME NEW j \in Ids PROVE Saving(rows, i, rows[i])[j] = rows[j]
  <2>1. CASE j # i /\ rows[j] # NULL /\ rows[i].isDefault
    <3>1. ~rows[j].isDefault
      <4>1. DOMAIN rows = Ids
        OBVIOUS
      <4> QED
        BY <2>1, <4>1 DEF OneOf, Defaults
    <3>2. rows[j] \in Address
      BY <2>1
    <3>3. [rows[j] EXCEPT !.isDefault = FALSE] = rows[j]
      BY <3>1, <3>2 DEF Address
    <3> QED
      BY <2>1, <3>3 DEF Saving
  <2>2. CASE j = i \/ rows[j] = NULL \/ ~rows[i].isDefault
    BY <2>2 DEF Saving
  <2> QED
    BY <2>1, <2>2
<1>2. DOMAIN Saving(rows, i, rows[i]) = Ids /\ DOMAIN rows = Ids
  BY DEF Saving
<1>3. Saving(rows, i, rows[i]) = [j \in Ids |-> Saving(rows, i, rows[i])[j]]
  BY <1>2 DEF Saving
<1>4. rows = [j \in Ids |-> rows[j]]
  OBVIOUS
<1> QED
  BY <1>1, <1>3, <1>4

\* The row's own write, and the clearing of another, are parts of one save.
LEMMA SavingParts ==
  ASSUME NEW rows \in [Ids -> Address \cup {NULL}], NEW i \in Ids, NEW a \in Address,
         NEW new \in [Ids -> Address \cup {NULL}],
         new[i] = a, \A j \in Ids \ {i} : new[j] = rows[j]
  PROVE  /\ new[i] = a /\ Saving(new, i, a) = Saving(rows, i, a)
         /\ ~a.isDefault => new = Saving(rows, i, a)
         /\ rows[i] = a /\ Defaults(rows) \subseteq {i} => Saving(rows, i, a) = rows
<1>1. new[i] = a /\ Saving(new, i, a) = Saving(rows, i, a)
  BY DEF Saving
<1>2. ~a.isDefault => new = Saving(rows, i, a)
  BY DEF Saving
<1>3. ASSUME rows[i] = a, Defaults(rows) \subseteq {i} PROVE Saving(rows, i, a) = rows
  <2>1. OneOf(rows) /\ rows[i] # NULL
    BY <1>3 DEF OneOf
  <2> QED
    BY <1>3, <2>1, SavingSame
<1> QED
  BY <1>1, <1>2, <1>3

LEMMA SavingCleared ==
  ASSUME NEW rows \in [Ids -> Address \cup {NULL}], NEW i \in Ids, NEW a \in Address, a.isDefault,
         NEW j \in Ids \ {i}, rows[j] # NULL, NEW new,
         new[j] = [rows[j] EXCEPT !.isDefault = FALSE],
         \A m \in Ids \ {j} : new[m] = rows[m]
  PROVE  Saving(new, i, a) = Saving(rows, i, a)
<1>1. PICK b : b = [rows[j] EXCEPT !.isDefault = FALSE]
  OBVIOUS
<1>2. rows[j] \in Address
  OBVIOUS
<1>3. [b EXCEPT !.isDefault = FALSE] = b
  BY <1>1, <1>2 DEF Address
<1>4. ASSUME NEW m \in Ids PROVE Saving(new, i, a)[m] = Saving(rows, i, a)[m]
  <2>1. CASE m = j
    BY <1>1, <1>3, <2>1 DEF Saving
  <2>2. CASE m # j
    BY <2>2 DEF Saving
  <2> QED
    BY <2>1, <2>2
<1>5. /\ Saving(new, i, a) = [m \in Ids |-> Saving(new, i, a)[m]]
      /\ Saving(rows, i, a) = [m \in Ids |-> Saving(rows, i, a)[m]]
  BY DEF Saving
<1> QED
  BY <1>4, <1>5

\* A caller is told of in terms of its own state and of the committed rows.
LEMMA StoryFrame ==
  ASSUME Inv, Lone, NEW c \in Callers, pc[c] # "idle", OthersKeep(c),
         \A d \in Callers : Story(d), Story(c)', Distinct(address')
  PROVE  Distinct(address)' /\ \A d \in Callers : Story(d)'
<1>1. ASSUME NEW d \in Callers, d # c PROVE Story(d)'
  <2>1. pc[d] = "idle" /\ at[d] = 1 /\ pc'[d] = "idle" /\ at'[d] = 1
    BY <1>1 DEF Lone, OthersKeep, Story
  <2> QED
    BY <2>1 DEF Story
<1>2. Distinct(address)'
  BY DEF Distinct
<1> QED
  BY <1>1, <1>2

\* What a call that runs alone knows of its file, its address and its row.
LEMMA StoryTypes ==
  ASSUME Inv, NEW c \in Callers, pc[c] # "idle"
  PROVE  /\ TypeOK /\ CallerOK(c) /\ call[c] \in Call
         /\ call[c].op \in {"create", "update", "setActive", "import"}
         /\ call[c].op = "import" => call[c].file \in File
         /\ call[c].op \in {"create", "update"} => call[c].form \in Address
         /\ at[c] \in Nat \ {0}
         /\ view(c) \in [Ids -> Address \cup {NULL}]
         /\ address \in [Ids -> Address \cup {NULL}]
         /\ id[c] \in Ids \cup {NULL} /\ form[c] \in Address \cup {NULL}
<1>1. TypeOK /\ CallerOK(c)
  BY DEF Inv
<1>2. call[c] \in Call
  BY Running
<1>3. call[c].op \in {"create", "update", "setActive", "import"}
  BY <1>2 DEF Call
<1> QED
  BY <1>1, <1>2, <1>3, CallKinds, Running, ViewTyped DEF TypeOK

\* The rows of a file, resolved and skipped.
LEMMA StoryPlans ==
  ASSUME Inv, Lone, NEW c \in Callers, Story(c), PlanRow(c) \/ Planned(c)
  PROVE  Story(c)' /\ address' = address
<1>1. pc[c] = "planning" /\ UNCHANGED <<address, call, mine, others>>
  BY DEF PlanRow, Planned
<1>2. /\ TypeOK /\ CallerOK(c) /\ call[c].op = "import" /\ call[c].file \in File
      /\ at[c] \in Nat \ {0} /\ view(c) \in [Ids -> Address \cup {NULL}]
      /\ address \in [Ids -> Address \cup {NULL}]
  BY <1>1, StoryTypes DEF CallerOK
<1>3. PICK f, k, rows : f = call[c].file /\ k = at[c] /\ rows = view(c)
  OBVIOUS
<1>4. Takes(f, k - 1, address, rows) /\ OneOf(rows)
  BY <1>1, <1>3 DEF Story, Lone, LoneCaller
<1>5. view(c)' = view(c)
  BY <1>1 DEF view
<1>6. ASSUME NEW n, n = at'[c], pc'[c] = "planning", Takes(f, n - 1, address, rows)
      PROVE  Story(c)'
  <2>1. Takes(call[c].file, at[c] - 1, address, view(c))'
    BY <1>1, <1>3, <1>5, <1>6
  <2> QED
    BY <1>6, <2>1 DEF Story
<1>7. ASSUME pc'[c] = "saving", at'[c] = k, k \in Accepted(f),
             SavesRow(f, k, rows, id'[c], form'[c])
      PROVE  Story(c)'
  <2>1. ToSave(c)'
    BY <1>1, <1>2, <1>3, <1>4, <1>5, <1>7 DEF ToSave
  <2> QED
    BY <1>7, <2>1 DEF Story
<1>8. CASE PlanRow(c)
  <2>1. \/ /\ RowStatus(f, k, rows) \in {"ERROR", "NO_CHANGE"}
           /\ at'[c] = k + 1 /\ pc'[c] = "planning"
        \/ /\ RowStatus(f, k, rows) = "CREATE"
           /\ pc'[c] = "saving" /\ at'[c] = k /\ id'[c] = NULL /\ form'[c] = NewAddress(f, k)
        \/ /\ RowStatus(f, k, rows) = "UPDATE"
           /\ \E i \in Matches(rows, f.rows[k].label) :
                pc'[c] = "saving" /\ at'[c] = k /\ id'[c] = i /\ form'[c] = Merged(f, k, rows[i])
    BY <1>1, <1>2, <1>3, <1>8 DEF PlanRow, TypeOK
  <2>2. CASE RowStatus(f, k, rows) = "ERROR" /\ at'[c] = k + 1 /\ pc'[c] = "planning"
    <3>1. k \notin Accepted(f)
      BY <2>2 DEF RowStatus
    <3>2. Takes(f, k, address, rows)
      BY <1>2, <1>3, <1>4, <3>1, TakesSkipped
    <3>3. PICK n : n = at'[c]
      OBVIOUS
    <3>4. n - 1 = k
      BY <1>2, <1>3, <2>2, <3>3
    <3> QED
      BY <1>1, <1>6, <2>2, <3>2, <3>3, <3>4
  <2>3. CASE RowStatus(f, k, rows) = "NO_CHANGE" /\ at'[c] = k + 1 /\ pc'[c] = "planning"
    <3>1. /\ k \in Accepted(f)
          /\ \E i \in Matches(rows, f.rows[k].label) : Merged(f, k, rows[i]) = rows[i]
      BY <2>3 DEF RowStatus
    <3>2. PICK i \in Matches(rows, f.rows[k].label) : Merged(f, k, rows[i]) = rows[i]
      BY <3>1
    <3>3. i \in Ids /\ rows[i] # NULL /\ SavesRow(f, k, rows, i, rows[i])
      BY <1>2, <1>3, <3>2 DEF Matches, SavesRow
    <3>4. Takes(f, k, address, Saving(rows, i, rows[i]))
      BY <1>2, <1>3, <1>4, <3>1, <3>3, TakesRow
    <3>5. Saving(rows, i, rows[i]) = rows
      BY <1>2, <1>3, <1>4, <3>3, SavingSame
    <3>6. PICK n : n = at'[c]
      OBVIOUS
    <3>7. n - 1 = k
      BY <1>2, <1>3, <2>3, <3>6
    <3> QED
      BY <1>1, <1>6, <2>3, <3>4, <3>5, <3>6, <3>7
  <2>4. CASE /\ RowStatus(f, k, rows) = "CREATE"
             /\ pc'[c] = "saving" /\ at'[c] = k /\ id'[c] = NULL /\ form'[c] = NewAddress(f, k)
    <3>1. k \in Accepted(f) /\ Matches(rows, f.rows[k].label) = {}
      BY <2>4 DEF RowStatus
    <3>2. SavesRow(f, k, rows, id'[c], form'[c])
      BY <2>4, <3>1 DEF SavesRow
    <3> QED
      BY <1>1, <1>7, <2>4, <3>1, <3>2
  <2>5. CASE /\ RowStatus(f, k, rows) = "UPDATE"
             /\ \E i \in Matches(rows, f.rows[k].label) :
                  pc'[c] = "saving" /\ at'[c] = k /\ id'[c] = i /\ form'[c] = Merged(f, k, rows[i])
    <3>1. k \in Accepted(f)
      BY <2>5 DEF RowStatus
    <3>2. SavesRow(f, k, rows, id'[c], form'[c])
      BY <2>5 DEF SavesRow
    <3> QED
      BY <1>1, <1>7, <2>5, <3>1, <3>2
  <2> QED
    BY <2>1, <2>2, <2>3, <2>4, <2>5
<1>9. CASE Planned(c)
  <2>1. pc'[c] = "done" /\ at'[c] = k /\ k > Len(f.rows)
    BY <1>2, <1>3, <1>9 DEF Planned, TypeOK
  <2>2. Effect(call[c], k - 1, address, rows)
    BY <1>2, <1>3, <1>4 DEF Effect
  <2>3. Effect(call[c], at[c] - 1, address, view(c))'
    BY <1>1, <1>3, <1>5, <2>1, <2>2
  <2> QED
    BY <1>1, <1>3, <2>1, <2>3 DEF Story
<1> QED
  BY <1>1, <1>8, <1>9

\* A call that has ended is told of no more.
LEMMA StoryEnds ==
  ASSUME TypeOK, NEW c \in Callers, End(c)
  PROVE  Story(c)'
<1>1. pc'[c] = "idle" /\ at'[c] = 1
  BY DEF End, TypeOK
<1> QED
  BY <1>1 DEF Story

\* A save is over: the form is done, or the file goes on.
LEMMA StorySaved ==
  ASSUME TypeOK, NEW c \in Callers, Saved(c), UNCHANGED <<address, call>>,
         call[c].op \in {"create", "update", "setActive", "import"},
         NEW new, view(c)' = new, Effect(call[c], at[c], address, new)
  PROVE  Story(c)'
<1>1. PICK k, n, base : k = call[c] /\ n = at[c] /\ base = address
  OBVIOUS
<1>2. call'[c] = k /\ address' = base /\ Effect(k, n, base, new) /\ n \in Nat
  BY <1>1 DEF TypeOK
<1>3. CASE k.op = "import"
  <2>1. pc'[c] = "planning" /\ at'[c] = n + 1
    BY <1>1, <1>3 DEF Saved, TypeOK
  <2>2. Takes(k.file, n, base, new)
    BY <1>2, <1>3 DEF Effect
  <2>3. PICK m : m = at'[c]
    OBVIOUS
  <2>4. m - 1 = n
    BY <1>2, <2>1, <2>3
  <2>5. Takes(call[c].file, at[c] - 1, address, view(c))'
    BY <1>2, <2>2, <2>3, <2>4
  <2> QED
    BY <2>1, <2>5 DEF Story
<1>4. CASE k.op # "import"
  <2>1. pc'[c] = "done" /\ at'[c] = n
    BY <1>1, <1>4 DEF Saved, TypeOK
  <2>2. Effect(k, n - 1, base, new)
    BY <1>2, <1>4 DEF Effect
  <2>3. Effect(call[c], at[c] - 1, address, view(c))'
    BY <1>2, <2>1, <2>2
  <2> QED
    BY <1>2, <1>4, <2>1, <2>3 DEF Story
<1> QED
  BY <1>3, <1>4

\* A row is written: the call's effect is that of the save, when it is over.
LEMMA SavesEffect ==
  ASSUME Inv, Lone, NEW c \in Callers, Story(c), pc[c] = "saving", NEW i \in Ids,
         id[c] = NULL => view(c)[i] = NULL, id[c] # NULL => i = id[c],
         Matches(view(c), form[c].label) \subseteq {i}
  PROVE  /\ form[c] \in Address /\ call[c].op # "setActive"
         /\ Effect(call[c], at[c], address, Saving(view(c), i, form[c]))
<1>1. PICK k, n, base, rows, p, a :
        /\ k = call[c] /\ n = at[c] /\ base = address /\ rows = view(c)
        /\ p = id[c] /\ a = form[c]
  OBVIOUS
<1>2. /\ ToSave(c) /\ OneOf(rows) /\ a \in Address
      /\ n \in Nat \ {0} /\ rows \in [Ids -> Address \cup {NULL}]
      /\ base \in [Ids -> Address \cup {NULL}]
      /\ k.op = "import" => k.file \in File
  BY <1>1, StoryTypes DEF Story, Lone, LoneCaller, CallerOK
<1>3. CASE k.op = "import"
  <2>1. n \in Accepted(k.file) /\ Takes(k.file, n - 1, base, rows) /\ SavesRow(k.file, n, rows, p, a)
    BY <1>1, <1>2, <1>3 DEF ToSave
  <2>2. p = NULL => rows[i] = NULL
    BY <1>1
  <2>3. p # NULL => i = p
    BY <1>1
  <2>4. Takes(k.file, n, base, Saving(rows, i, a))
    BY <1>2, <1>3, <2>1, <2>2, <2>3, TakesRow
  <2>5. Effect(k, n, base, Saving(rows, i, a))
    BY <1>3, <2>4 DEF Effect
  <2> QED
    BY <1>1, <1>2, <1>3, <2>5
<1>4. CASE k.op # "import"
  <2>1. /\ k.op \in {"create", "update"} /\ rows = base /\ a = k.form
        /\ k.op = "create" => p = NULL
        /\ k.op = "update" => p = k.id
    BY <1>1, <1>2, <1>4 DEF ToSave
  <2>2. \A j \in Ids \ {i} : base[j] # NULL => base[j].label # k.form.label
    BY <1>1, <1>2, <2>1 DEF Matches
  <2>3. k.op = "create" => base[i] = NULL
    BY <1>1, <2>1
  <2>4. k.op = "update" => i = k.id
    <3>1. k.op = "update" => k.id \in Ids
      BY <1>1, StoryTypes DEF Call
    <3> QED
      BY <1>1, <2>1, <3>1
  <2>5. Effect(k, n, base, Saving(rows, i, a))
    BY <1>4, <2>1, <2>2, <2>3, <2>4 DEF Effect
  <2> QED
    BY <1>1, <1>2, <2>1, <2>5
<1> QED
  BY <1>3, <1>4

LEMMA StoryWrites ==
  ASSUME Inv, Lone, NEW c \in Callers, Story(c), pc[c] = "saving", NEW i \in Ids, Writes(c, i),
         id[c] = NULL => view(c)[i] = NULL, id[c] # NULL => i = id[c],
         Matches(view(c), form[c].label) \subseteq {i}
  PROVE  Story(c)'
<1>1. PICK k, n, base, rows, a :
        k = call[c] /\ n = at[c] /\ base = address /\ rows = view(c) /\ a = form[c]
  OBVIOUS
<1>2. /\ a \in Address /\ k.op # "setActive" /\ Effect(k, n, base, Saving(rows, i, a))
      /\ rows \in [Ids -> Address \cup {NULL}] /\ TypeOK
      /\ k.op \in {"create", "update", "setActive", "import"}
  BY <1>1, SavesEffect, StoryTypes
<1>3. /\ Wrote(c, i, a) /\ UNCHANGED <<address, call, form>>
      /\ id'[c] = i /\ call'[c] = k /\ address' = base /\ form'[c] = a
  BY <1>1, <1>2 DEF Writes, TypeOK
<1>4. PICK new : new = [rows EXCEPT ![i] = a]
  OBVIOUS
<1>5. view(c)' = new
  BY <1>1, <1>2, <1>3, <1>4, WroteView
<1>6. new \in [Ids -> Address \cup {NULL}] /\ new[i] = a /\ \A j \in Ids \ {i} : new[j] = rows[j]
  BY <1>2, <1>4
<1>7. CASE a.isDefault /\ pc' = [pc EXCEPT ![c] = "defaulting"] /\ UNCHANGED at
  <2>1. pc'[c] = "defaulting" /\ at'[c] = n
    BY <1>1, <1>2, <1>7 DEF TypeOK
  <2>2. new[i] = a /\ Saving(new, i, a) = Saving(rows, i, a)
    BY <1>2, <1>6, SavingParts
  <2>3. Effect(k, n, base, Saving(new, i, a))
    BY <1>2, <2>2
  <2>4. Effect(call[c], at[c], address, Saving(view(c), id[c], form[c]))'
    BY <1>3, <1>5, <2>1, <2>3
  <2>5. (view(c)[id[c]] = form[c] /\ form[c].isDefault /\ call[c].op # "setActive")'
    BY <1>2, <1>3, <1>5, <1>7, <2>2
  <2> QED
    BY <2>1, <2>4, <2>5 DEF Story
<1>8. CASE ~a.isDefault /\ Saved(c)
  <2>1. new = Saving(rows, i, a)
    BY <1>2, <1>8, <1>6, SavingParts
  <2>2. Effect(call[c], at[c], address, new)
    BY <1>1, <1>2, <2>1
  <2> QED
    BY <1>1, <1>2, <1>3, <1>5, <1>8, <2>2, StorySaved
<1> QED
  BY <1>1, <1>7, <1>8 DEF Writes

LEMMA StorySaves ==
  ASSUME Inv, Lone, NEW c \in Callers, Story(c), InsertAddress(c) \/ UpdateAddress(c)
  PROVE  Story(c)' /\ address' = address
<1>1. pc[c] = "saving" /\ address' = address
  BY DEF InsertAddress, UpdateAddress, Writes, Duplicate
<1>2. /\ TypeOK /\ id[c] \in Ids \cup {NULL}
      /\ view(c) \in [Ids -> Address \cup {NULL}]
  BY <1>1, StoryTypes
<1>3. CASE Duplicate(c)
  BY <1>1, <1>2, <1>3, StoryEnds DEF Duplicate
<1>4. CASE ~Duplicate(c)
  <2>1. PICK i \in Ids :
          /\ Writes(c, i)
          /\ id[c] = NULL => Unused(i) /\ SameLabel(c) = {}
          /\ id[c] # NULL => i = id[c] /\ SameLabel(c) \subseteq {i}
    BY <1>2, <1>4 DEF InsertAddress, UpdateAddress
  <2>2. id[c] = NULL => view(c)[i] = NULL
    BY <2>1 DEF Unused, view
  <2>3. Matches(view(c), form[c].label) \subseteq {i}
    BY <2>1 DEF SameLabel
  <2> QED
    BY <1>1, <2>1, <2>2, <2>3, StoryWrites
<1> QED
  BY <1>3, <1>4

\* A switch writes the one column.
LEMMA StorySwitches ==
  ASSUME Inv, NEW c \in Callers, Story(c), WriteActive(c)
  PROVE  Story(c)' /\ address' = address
<1>1. pc[c] = "setting" /\ Saved(c) /\ UNCHANGED <<address, call, id, form>>
  BY DEF WriteActive
<1>2. PICK k, n, base, i, a :
        k = call[c] /\ n = at[c] /\ base = address /\ i = id[c] /\ a = form[c]
  OBVIOUS
<1>3. /\ TypeOK /\ k.op = "setActive" /\ view(c) = base /\ i = k.id /\ a.isActive = k.isActive
      /\ base \in [Ids -> Address \cup {NULL}] /\ a \in Address /\ i \in Ids /\ base[i] \in Address
  BY <1>1, <1>2, StoryTypes DEF Story, CallerOK
<1>4. PICK b : b = [base[i] EXCEPT !.isActive = a.isActive]
  OBVIOUS
<1>5. b \in Address /\ Wrote(c, i, b)
  BY <1>2, <1>3, <1>4 DEF Address, WriteActive
<1>6. view(c)' = [base EXCEPT ![i] = b]
  BY <1>1, <1>3, <1>5, WroteView
<1>7. [base EXCEPT ![i] = b] = [base EXCEPT ![k.id].isActive = k.isActive]
  BY <1>3, <1>4
<1>8. Effect(k, n, base, [base EXCEPT ![i] = b])
  BY <1>3, <1>7 DEF Effect
<1>9. Effect(call[c], at[c], address, [base EXCEPT ![i] = b])
  BY <1>2, <1>8
<1> QED
  BY <1>1, <1>2, <1>3, <1>6, <1>9, StorySaved

\* The other defaults are found, and cleared one by one.
LEMMA StoryClears ==
  ASSUME Inv, Lone, NEW c \in Callers, Story(c), FindOthers(c) \/ ClearOther(c) \/ Cleared(c)
  PROVE  Story(c)' /\ address' = address
<1>1. /\ pc[c] \in {"defaulting", "clearing"}
      /\ UNCHANGED <<address, call, id, form>>
  BY DEF FindOthers, ClearOther, Cleared
<1>2. PICK k, n, base, rows, i, a :
        /\ k = call[c] /\ n = at[c] /\ base = address /\ rows = view(c)
        /\ i = id[c] /\ a = form[c]
  OBVIOUS
<1>3. /\ TypeOK /\ CallerOK(c) /\ i \in Ids /\ a \in Address
      /\ rows \in [Ids -> Address \cup {NULL}]
      /\ k.op \in {"create", "update", "setActive", "import"}
  BY <1>1, <1>2, StoryTypes DEF CallerOK
<1>4. /\ rows[i] = a /\ a.isDefault /\ k.op # "setActive"
      /\ Effect(k, n, base, Saving(rows, i, a))
  BY <1>1, <1>2 DEF Story
<1>5. call'[c] = k /\ address' = base /\ id'[c] = i /\ form'[c] = a
  BY <1>1, <1>2
<1>6. ASSUME NEW new, view(c)' = new, new[i] = a, Saving(new, i, a) = Saving(rows, i, a),
             at'[c] = n, pc'[c] = "clearing", i \notin others'[c]
      PROVE  Story(c)'
  <2>1. Effect(k, n, base, Saving(new, i, a))
    BY <1>4, <1>6
  <2>2. Effect(call[c], at[c], address, Saving(view(c), id[c], form[c]))'
    BY <1>5, <1>6, <2>1
  <2>3. (view(c)[id[c]] = form[c] /\ form[c].isDefault /\ call[c].op # "setActive")'
    BY <1>4, <1>5, <1>6
  <2> QED
    BY <1>5, <1>6, <2>2, <2>3 DEF Story
<1>7. CASE FindOthers(c)
  <2>1. /\ mine' = mine /\ at' = at /\ pc'[c] = "clearing"
        /\ others'[c] = OtherDefaults(c)
    BY <1>3, <1>7 DEF FindOthers, TypeOK
  <2>2. view(c)' = rows
    BY <1>1, <1>2, <2>1 DEF view
  <2>3. i \notin others'[c]
    BY <1>2, <2>1 DEF OtherDefaults
  <2> QED
    BY <1>1, <1>2, <1>4, <1>6, <2>1, <2>2, <2>3
<1>8. CASE ClearOther(c)
  <2>1. pc[c] = "clearing" /\ pc'[c] = "clearing" /\ at'[c] = n
    BY <1>2, <1>8 DEF ClearOther
  <2>2. i \notin others[c]
    BY <1>2, <2>1 DEF Story
  <2>3. PICK j \in others[c] :
          /\ others' = [others EXCEPT ![c] = @ \ {j}]
          /\ \/ Wrote(c, j, [view(c)[j] EXCEPT !.isDefault = FALSE])
             \/ UNCHANGED mine
    BY <1>8 DEF ClearOther
  <2>4. j \in Ids \ {i} /\ rows[j] \in Address /\ rows[j] # NULL /\ i \notin others'[c]
    BY <1>2, <1>3, <2>2, <2>3 DEF CallerOK, TypeOK
  <2>5. CASE UNCHANGED mine
    <3>1. view(c)' = rows
      BY <1>1, <1>2, <2>5 DEF view
    <3> QED
      BY <1>1, <1>4, <1>6, <2>1, <2>4, <3>1
  <2>6. CASE Wrote(c, j, [view(c)[j] EXCEPT !.isDefault = FALSE])
    <3>1. PICK b : b = [rows[j] EXCEPT !.isDefault = FALSE]
      OBVIOUS
    <3>2. b \in Address /\ Wrote(c, j, b)
      BY <1>2, <2>4, <2>6, <3>1 DEF Address
    <3>3. PICK new : new = [rows EXCEPT ![j] = b]
      OBVIOUS
    <3>4. view(c)' = new
      BY <1>1, <1>2, <1>3, <2>4, <3>2, <3>3, WroteView
    <3>5. new[i] = a
      BY <1>3, <1>4, <2>4, <3>3
    <3>6. new[j] = [rows[j] EXCEPT !.isDefault = FALSE]
          /\ \A m \in Ids \ {j} : new[m] = rows[m]
      BY <1>3, <2>4, <3>1, <3>3
    <3>7. Saving(new, i, a) = Saving(rows, i, a)
      BY <1>3, <1>4, <2>4, <3>6, SavingCleared
    <3> QED
      BY <1>1, <1>6, <2>1, <2>4, <3>4, <3>5, <3>7
  <2> QED
    BY <2>3, <2>5, <2>6
<1>9. CASE Cleared(c)
  <2>1. pc[c] = "clearing" /\ others[c] = {} /\ Saved(c) /\ mine' = mine
    BY <1>9 DEF Cleared
  <2>2. Defaults(rows) \subseteq {i}
    BY <1>2, <2>1 DEF Lone, LoneCaller
  <2>3. Saving(rows, i, a) = rows
    BY <1>3, <1>4, <2>2, SavingParts
  <2>4. view(c)' = rows
    BY <1>1, <1>2, <2>1 DEF view
  <2>5. Effect(call[c], at[c], address, rows)
    BY <1>2, <1>4, <2>3
  <2> QED
    BY <1>1, <1>2, <1>3, <2>1, <2>4, <2>5, StorySaved
<1> QED
  BY <1>7, <1>8, <1>9

\* No call leaves two addresses with one label.
LEMMA EffectDistinct ==
  ASSUME NEW k \in Call, NEW n, NEW base \in [Ids -> Address \cup {NULL}], NEW rows,
         Distinct(base), Effect(k, n, base, rows)
  PROVE  Distinct(rows)
<1>1. CASE k.op = "import"
  BY <1>1 DEF Effect, Takes
<1>2. CASE k.op = "setActive"
  <2>1. base[k.id] # NULL /\ rows = [base EXCEPT ![k.id].isActive = k.isActive]
    BY <1>2 DEF Effect
  <2>2. \A j \in Ids : /\ rows[j] # NULL => base[j] # NULL
                       /\ base[j] # NULL => rows[j].label = base[j].label
    <3>1. ASSUME NEW j \in Ids, base[j] # NULL PROVE rows[j].label = base[j].label
      BY <2>1, <3>1 DEF Address
    <3> QED
      BY <2>1, <3>1
  <2> QED
    BY <2>2 DEF Distinct
<1>3. CASE k.op \in {"create", "update"}
  <2>1. PICK i \in Ids :
          /\ \A j \in Ids \ {i} : base[j] # NULL => base[j].label # k.form.label
          /\ rows = Saving(base, i, k.form)
    BY <1>3 DEF Effect
  <2> QED
    BY <1>3, <2>1, CallKinds, SavingDistinct
<1> QED
  BY <1>1, <1>2, <1>3 DEF Call

\* The effect of a call is committed as a whole.
LEMMA StoryCommits ==
  ASSUME Inv, NEW c \in Callers, Story(c), Distinct(address), Commit(c)
  PROVE  /\ Effect(call[c], at[c] - 1, address, address')
         /\ call[c].op = "import" => at[c] > Len(call[c].file.rows)
         /\ Story(c)' /\ Distinct(address')
<1>1. /\ pc[c] = "done" /\ address' = view(c) /\ End(c)
      /\ TypeOK /\ call[c] \in Call /\ address \in [Ids -> Address \cup {NULL}]
  BY StoryTypes DEF Commit
<1>2. PICK new : new = view(c)
  OBVIOUS
<1>3. PICK k, n, base : k = call[c] /\ n = at[c] - 1 /\ base = address
  OBVIOUS
<1>4. Effect(k, n, base, new) /\ (call[c].op = "import" => at[c] > Len(call[c].file.rows))
  BY <1>1, <1>2, <1>3 DEF Story
<1>5. Distinct(new)
  BY <1>1, <1>3, <1>4, EffectDistinct
<1> QED
  BY <1>1, <1>2, <1>3, <1>4, <1>5, StoryEnds

LEMMA StoryStep ==
  ASSUME Inv, Lone, Distinct(address), \A d \in Callers : Story(d), NEW c \in Callers, Step(c)
  PROVE  Distinct(address)' /\ \A d \in Callers : Story(d)'
<1>1. TypeOK /\ OthersKeep(c) /\ pc[c] # "idle"
  BY StepKeeps DEF Inv
<1>2. Story(c)' /\ Distinct(address')
  <2>1. CASE PlanRow(c) \/ Planned(c)
    BY <2>1, StoryPlans
  <2>2. CASE InsertAddress(c) \/ UpdateAddress(c)
    BY <2>2, StorySaves
  <2>3. CASE WriteActive(c)
    BY <2>3, StorySwitches
  <2>4. CASE FindOthers(c) \/ ClearOther(c) \/ Cleared(c)
    BY <2>4, StoryClears
  <2>5. CASE Commit(c)
    BY <2>5, StoryCommits
  <2>6. CASE Deadlock(c)
    BY <1>1, <2>6, StoryEnds DEF Deadlock
  <2> QED
    BY <2>1, <2>2, <2>3, <2>4, <2>5, <2>6 DEF Step
<1> QED
  BY <1>1, <1>2, StoryFrame

\* A call that begins alone has the committed rows before it.
LEMMA StoryBegins ==
  ASSUME Inv, StoryInv, NEW c \in Callers, Begins(c)
  PROVE  StoryInv'
<1> SUFFICES ASSUME ~overlapped' PROVE StoryInv'
  BY DEF StoryInv
<1>1. /\ pc[c] = "idle" /\ UNCHANGED <<address, at, mine, others>>
      /\ ~overlapped /\ \A d \in Callers : pc[d] = "idle"
      /\ \A d \in Callers : d # c => pc'[d] = pc[d]
  BY DEF Begins, Begin, createCustomerAddress, updateCustomerAddress,
     setCustomerAddressActive, confirmImport, Inv, TypeOK
<1>2. /\ TypeOK /\ DOMAIN mine[c] = {} /\ Distinct(address) /\ at[c] = 1
      /\ address \in [Ids -> Address \cup {NULL}]
  BY <1>1 DEF Inv, CallerOK, StoryInv, Story, TypeOK
<1>3. PICK base : base = address
  OBVIOUS
<1>4. view(c)' = base /\ address' = base /\ at'[c] = 1
  BY <1>1, <1>2, <1>3 DEF view
<1>5. ASSUME NEW k, NEW stage, NEW i, NEW a, Begin(c, k, stage, i, a)
      PROVE  pc'[c] = stage /\ call'[c] = k /\ id'[c] = i /\ form'[c] = a
  BY <1>2, <1>5 DEF Begin, TypeOK
<1>6. Story(c)'
  <2>1. CASE createCustomerAddress(c)
    <3>1. PICK a \in Forms : Begin(c, [op |-> "create", form |-> a], "saving", NULL, a)
      BY <2>1 DEF createCustomerAddress
    <3>2. /\ pc'[c] = "saving" /\ call'[c] = [op |-> "create", form |-> a]
          /\ id'[c] = NULL /\ form'[c] = a
      BY <1>5, <3>1
    <3>3. ToSave(c)'
      BY <1>4, <3>2 DEF ToSave
    <3> QED
      BY <3>2, <3>3 DEF Story
  <2>2. CASE updateCustomerAddress(c)
    <3>1. PICK i \in Ids, a \in Forms :
            Begin(c, [op |-> "update", id |-> i, form |-> a], "saving", i, a)
      BY <2>2 DEF updateCustomerAddress
    <3>2. /\ pc'[c] = "saving" /\ call'[c] = [op |-> "update", id |-> i, form |-> a]
          /\ id'[c] = i /\ form'[c] = a
      BY <1>5, <3>1
    <3>3. ToSave(c)'
      BY <1>4, <3>2 DEF ToSave
    <3> QED
      BY <3>2, <3>3 DEF Story
  <2>3. CASE setCustomerAddressActive(c)
    <3>1. PICK i \in Ids, b \in BOOLEAN :
            /\ address[i] # NULL
            /\ Begin(c, [op |-> "setActive", id |-> i, isActive |-> b], "setting", i,
                     [address[i] EXCEPT !.isActive = b])
      BY <2>3 DEF setCustomerAddressActive
    <3>2. PICK a : a = [address[i] EXCEPT !.isActive = b]
      OBVIOUS
    <3>3. Begin(c, [op |-> "setActive", id |-> i, isActive |-> b], "setting", i, a)
      BY <3>1, <3>2
    <3>4. /\ pc'[c] = "setting" /\ call'[c] = [op |-> "setActive", id |-> i, isActive |-> b]
          /\ id'[c] = i /\ form'[c] = a
      BY <1>5, <3>3
    <3>5. a.isActive = b
      BY <1>2, <3>1, <3>2 DEF Address
    <3> QED
      BY <1>4, <3>4, <3>5 DEF Story
  <2>4. CASE confirmImport(c)
    <3>1. PICK f \in Files : Begin(c, [op |-> "import", file |-> f], "planning", NULL, NULL)
      BY <2>4 DEF confirmImport
    <3>2. pc'[c] = "planning" /\ call'[c].file = f
      BY <1>5, <3>1
    <3>3. Takes(f, 0, base, base)
      BY <1>2, <1>3, TakesNone
    <3>4. PICK n : n = at'[c]
      OBVIOUS
    <3>5. n - 1 = 0
      BY <1>4, <3>4
    <3>6. Takes(call[c].file, at[c] - 1, address, view(c))'
      BY <1>4, <3>2, <3>3, <3>4, <3>5
    <3> QED
      BY <3>2, <3>6 DEF Story
  <2> QED
    BY <2>1, <2>2, <2>3, <2>4 DEF Begins
<1>7. ASSUME NEW d \in Callers, d # c PROVE Story(d)'
  <2>1. pc'[d] = "idle" /\ at'[d] = 1
    BY <1>1, <1>7 DEF StoryInv, Story
  <2> QED
    BY <2>1 DEF Story
<1>8. Distinct(address)'
  BY <1>1, <1>2 DEF Distinct
<1> QED
  BY <1>6, <1>7, <1>8 DEF StoryInv

LEMMA StoryInit == Init => StoryInv
  BY DEF Init, StoryInv, Distinct, Story

LEMMA StoryNext == Inv /\ LoneInv /\ StoryInv /\ [Next]_vars => StoryInv'
<1> SUFFICES ASSUME Inv, LoneInv, StoryInv, [Next]_vars PROVE StoryInv'
  OBVIOUS
<1>1. ASSUME UNCHANGED vars PROVE StoryInv'
  <2>1. ASSUME NEW c \in Callers, Story(c) PROVE Story(c)'
    <3>1. PICK k, n, base, rows, i, a :
            /\ k = call[c] /\ n = at[c] /\ base = address /\ rows = view(c)
            /\ i = id[c] /\ a = form[c]
      OBVIOUS
    <3>2. /\ call'[c] = k /\ at'[c] = n /\ address' = base /\ view(c)' = rows
          /\ id'[c] = i /\ form'[c] = a /\ pc'[c] = pc[c] /\ others'[c] = others[c]
      BY <1>1, <3>1 DEF view, vars, local
    <3> QED
      BY <2>1, <3>1, <3>2 DEF Story, ToSave
  <2> QED
    BY <1>1, <2>1 DEF StoryInv, Distinct, vars, local
<1>2. ASSUME NEW c \in Callers, Begins(c) PROVE StoryInv'
  BY <1>2, StoryBegins
<1>3. ASSUME NEW c \in Callers, Step(c) PROVE StoryInv'
  <2>1. CASE overlapped
    BY <1>3, <2>1, StepKeeps DEF StoryInv
  <2>2. CASE ~overlapped
    BY <1>3, <2>2, StoryStep DEF StoryInv, LoneInv
  <2> QED
    BY <2>1, <2>2
<1>4. ASSUME NEW c \in Callers, Fail(c) PROVE StoryInv'
  <2>1. TypeOK /\ End(c) /\ address' = address /\ pc[c] # "idle" /\ OthersKeep(c)
        /\ overlapped' = overlapped
    BY <1>4, EndResets DEF Fail, Inv, End
  <2>2. CASE overlapped
    BY <2>1, <2>2 DEF StoryInv
  <2>3. CASE ~overlapped
    BY <2>1, <2>3, StoryEnds, StoryFrame DEF StoryInv, LoneInv
  <2> QED
    BY <2>2, <2>3
<1> QED
  BY <1>1, <1>2, <1>3, <1>4 DEF Next, Begins

-----------------------------------------------------------------------------
(* What follows for a call that runs alone.                                  *)

\* A file's rows before row k do not change what becomes of row k, unless one
\* of them took over the default: its label is none of theirs.
LEMMA StatusKept ==
  ASSUME NEW f \in File, NEW k \in Nat \ {0}, NEW base \in [Ids -> Address \cup {NULL}],
         NEW rows \in [Ids -> Address \cup {NULL}], Takes(f, k - 1, base, rows),
         ClaimsUpTo(f, k - 1) = {}
  PROVE  RowStatus(f, k, rows) = RowStatus(f, k, base)
<1>1. CASE k \notin Accepted(f)
  BY <1>1 DEF RowStatus
<1>2. CASE k \in Accepted(f)
  <2> DEFINE l == f.rows[k].label
  <2>1. l \notin LabelsUpTo(f, k - 1)
    BY <1>2, ReadNext
  <2>2. /\ Distinct(rows)
        /\ \A i \in Ids : base[i] # NULL => rows[i] # NULL /\ rows[i].label = base[i].label
        /\ \A i \in Ids : rows[i] # NULL =>
             /\ base[i] = NULL => rows[i].label \in LabelsUpTo(f, k - 1)
             /\ rows[i].isDefault <=>
                  DefaultUpTo(f, k - 1, rows[i].label, base[i] # NULL /\ base[i].isDefault)
             /\ rows[i].isActive <=>
                  ActiveUpTo(f, k - 1, rows[i].label, base[i] # NULL => base[i].isActive)
    BY DEF Takes
  <2>3. ASSUME NEW i \in Ids, rows[i] # NULL, rows[i].label = l
        PROVE  base[i] = rows[i]
    <3>1. base[i] # NULL /\ base[i].label = rows[i].label
      BY <2>1, <2>2, <2>3
    <3>2. rows[i] \in Address /\ base[i] \in Address
      BY <2>3, <3>1
    <3>3. rows[i].isDefault <=> base[i].isDefault
      <4>1. rows[i].isDefault <=>
              DefaultUpTo(f, k - 1, l, base[i] # NULL /\ base[i].isDefault)
        BY <2>2, <2>3
      <4> QED
        BY <2>1, <3>1, <4>1 DEF DefaultUpTo
    <3>4. rows[i].isActive <=> base[i].isActive
      <4>1. rows[i].isActive <=>
              ActiveUpTo(f, k - 1, l, base[i] # NULL => base[i].isActive)
        BY <2>2, <2>3
      <4>2. \A j \in UpTo(f, k - 1) : f.rows[j].label # l
        BY <2>1 DEF LabelsUpTo
      <4> QED
        BY <2>1, <3>1, <4>1, <4>2 DEF ActiveUpTo
    <3> QED
      BY <3>1, <3>2, <3>3, <3>4 DEF Address
  <2>4. Matches(rows, l) = Matches(base, l)
    BY <2>2, <2>3 DEF Matches
  <2>5. \A i \in Matches(rows, l) : rows[i] = base[i]
    BY <2>3 DEF Matches
  <2> QED
    BY <2>4, <2>5 DEF RowStatus
<1> QED
  BY <1>1, <1>2

\* The confirmation gives a row the status that the preview showed, unless a row
\* before it took over the default: for any files, addresses and callers.
THEOREM PreviewHolds == Spec => []PreviewTellsConfirm
<1>1. ASSUME Inv, StoryInv PROVE PreviewTellsConfirm
  <2> SUFFICES ASSUME NEW c \in Callers, pc[c] = "planning", ~overlapped,
                      at[c] <= Len(call[c].file.rows),
                      ~\E k \in 1..(at[c] - 1) : TakesDefault(call[c].file, k)
               PROVE  RowStatus(call[c].file, at[c], view(c)) = RowStatus(call[c].file, at[c], address)
    <3>1. ASSUME NEW c \in Callers, pc[c] = "planning" PROVE
            at[c] \in Nat /\ Len(call[c].file.rows) \in Nat
      BY <1>1, <3>1, StoryTypes DEF CallerOK, File
    <3> QED
      BY <3>1 DEF PreviewTellsConfirm
  <2>1. /\ TypeOK /\ call[c].file \in File /\ at[c] \in Nat \ {0}
        /\ view(c) \in [Ids -> Address \cup {NULL}] /\ address \in [Ids -> Address \cup {NULL}]
    BY <1>1, StoryTypes DEF CallerOK
  <2>2. Takes(call[c].file, at[c] - 1, address, view(c))
    BY <1>1 DEF StoryInv, Story
  <2>3. PICK f, k, base, rows :
          f = call[c].file /\ k = at[c] /\ base = address /\ rows = view(c)
    OBVIOUS
  <2>4. \A j \in 1..(k - 1) : ~TakesDefault(f, j)
    BY <2>3
  <2>5. ClaimsUpTo(f, k - 1) = {}
    <3>1. Len(f.rows) \in Nat
      BY <2>1, <2>3 DEF File
    <3>2. \A j \in UpTo(f, k - 1) : j \in 1..(k - 1) /\ j \in Accepted(f)
      BY <2>1, <2>3, <3>1 DEF UpTo, Accepted
    <3> QED
      BY <2>4, <3>2 DEF ClaimsUpTo, UpTo, TakesDefault
  <2>6. RowStatus(f, k, rows) = RowStatus(f, k, base)
    BY <2>1, <2>2, <2>3, <2>5, StatusKept
  <2> QED
    BY <2>3, <2>6
<1> QED
  BY <1>1, InitInv, NextInv, LoneInit, LoneNext, StoryInit, StoryNext, PTL DEF Spec

-----------------------------------------------------------------------------
(* The address book.                                                         *)

\* All rows of a file, in the words of AddressBookSpec.
LEMMA WholeFile ==
  ASSUME NEW f \in File, NEW n \in Nat, n >= Len(f.rows)
  PROVE  /\ UpTo(f, n) = AddressBook!Counts(f)
         /\ LabelsUpTo(f, n) = AddressBook!LabelsOf(f)
         /\ ClaimsUpTo(f, n) = AddressBook!Claims(f)
<1>1. Len(f.rows) \in Nat
  BY DEF File
<1>2. UpTo(f, n) = Accepted(f)
  BY <1>1 DEF UpTo, Accepted
<1>3. ASSUME NEW k \in 1..Len(f.rows), f.rows[k] # NULL, f.rows[k].ok
      PROVE  (\A j \in 1..Len(f.rows) \ {k} : f.rows[j] = NULL \/ f.rows[j].label # f.rows[k].label)
             <=> {j \in 1..Len(f.rows) : f.rows[j] # NULL /\ f.rows[j].label = f.rows[k].label} = {k}
  BY <1>3
<1>4. Accepted(f) = AddressBook!Counts(f)
  BY <1>3 DEF Accepted, AddressBook!Counts
<1> QED
  BY <1>2, <1>4 DEF LabelsUpTo, ClaimsUpTo, AddressBook!LabelsOf, AddressBook!Claims

LEMMA WholeFlags ==
  ASSUME NEW f \in File, NEW n \in Nat, n >= Len(f.rows), NEW l, NEW before \in BOOLEAN
  PROVE  /\ AddressBook!IsDefaultAfter(f, l, before) \in BOOLEAN
         /\ AddressBook!IsActiveAfter(f, l, before) \in BOOLEAN
         /\ DefaultUpTo(f, n, l, before) <=> AddressBook!IsDefaultAfter(f, l, before)
         /\ ActiveUpTo(f, n, l, before) <=> AddressBook!IsActiveAfter(f, l, before)
<1>1. /\ UpTo(f, n) = AddressBook!Counts(f)
      /\ LabelsUpTo(f, n) = AddressBook!LabelsOf(f)
      /\ ClaimsUpTo(f, n) = AddressBook!Claims(f)
  BY WholeFile
<1>2. AddressBook!IsDefaultAfter(f, l, before) \in BOOLEAN
  BY DEF AddressBook!IsDefaultAfter, AddressBook!LastClaim
<1>3. DefaultUpTo(f, n, l, before) <=> AddressBook!IsDefaultAfter(f, l, before)
  <2>1. CASE AddressBook!Claims(f) # {}
    BY <1>1, <2>1 DEF DefaultUpTo, AddressBook!IsDefaultAfter, AddressBook!LastClaim
  <2>2. CASE AddressBook!Claims(f) = {}
    BY <1>1, <2>2 DEF DefaultUpTo, AddressBook!IsDefaultAfter
  <2> QED
    BY <2>1, <2>2
<1>4. AddressBook!IsActiveAfter(f, l, before) \in BOOLEAN
  BY DEF AddressBook!IsActiveAfter
<1>5. ActiveUpTo(f, n, l, before) <=> AddressBook!IsActiveAfter(f, l, before)
  <2>1. CASE f.hasActive /\ l \in AddressBook!LabelsOf(f)
    BY <1>1, <2>1 DEF ActiveUpTo, AddressBook!IsActiveAfter
  <2>2. CASE ~(f.hasActive /\ l \in AddressBook!LabelsOf(f))
    <3>1. ~(f.hasActive /\ \E k \in UpTo(f, n) : f.rows[k].label = l /\ f.rows[k].isActive)
      BY <1>1, <2>2 DEF AddressBook!LabelsOf
    <3> QED
      BY <1>1, <2>2, <3>1 DEF ActiveUpTo, AddressBook!IsActiveAfter
  <2> QED
    BY <2>1, <2>2
<1> QED
  BY <1>2, <1>3, <1>4, <1>5

\* What a file's rows take the committed rows to is what the book says of it.
LEMMA FileAnswered ==
  ASSUME NEW f \in File, NEW n \in Nat, n >= Len(f.rows),
         NEW base \in [Ids -> Address \cup {NULL}], address = base,
         NEW rows \in [Ids -> Address \cup {NULL}], address' = rows,
         Takes(f, n, base, rows)
  PROVE  AddressBook!Imports(f)
<1>1. \A b : AddressBook!Used(b) = {i \in Ids : b[i] # NULL}
  BY DEF AddressBook!Used
<1>2. LabelsUpTo(f, n) = AddressBook!LabelsOf(f)
  BY WholeFile
<1>3. rows \in [Ids -> AddressBook!Address \cup {NULL}]
  BY DEF AddressBook!Address, Address
<1>4. AddressBook!LabelsIn(rows) = AddressBook!LabelsIn(base) \cup AddressBook!LabelsOf(f)
  <2>1. /\ AddressBook!LabelsIn(rows) = {rows[i].label : i \in {j \in Ids : rows[j] # NULL}}
        /\ AddressBook!LabelsIn(base) = {base[i].label : i \in {j \in Ids : base[j] # NULL}}
    BY <1>1 DEF AddressBook!LabelsIn
  <2>2. ASSUME NEW l \in AddressBook!LabelsIn(rows)
        PROVE  l \in AddressBook!LabelsIn(base) \cup LabelsUpTo(f, n)
    BY <2>1, <2>2 DEF Takes
  <2>3. ASSUME NEW l \in AddressBook!LabelsIn(base) \cup LabelsUpTo(f, n)
        PROVE  l \in AddressBook!LabelsIn(rows)
    BY <2>1, <2>3 DEF Takes
  <2> QED
    BY <1>2, <2>2, <2>3
<1>5. \A i, j \in AddressBook!Used(rows) : rows[i].label = rows[j].label => i = j
  BY <1>1 DEF Takes, Distinct
<1>6. \A i \in AddressBook!Used(base) :
        i \in AddressBook!Used(rows) /\ rows[i].label = base[i].label
  BY <1>1 DEF Takes
<1>7. ASSUME NEW i \in AddressBook!Used(rows)
      PROVE  LET l == rows[i].label
                 known == i \in AddressBook!Used(base) IN
             /\ rows[i].isDefault = AddressBook!IsDefaultAfter(f, l, known /\ base[i].isDefault)
             /\ rows[i].isActive = AddressBook!IsActiveAfter(f, l, known => base[i].isActive)
  <2>1. PICK l, was, on :
          /\ l = rows[i].label
          /\ was = (base[i] # NULL /\ base[i].isDefault)
          /\ on = (base[i] # NULL => base[i].isActive)
    OBVIOUS
  <2>2. i \in Ids /\ rows[i] # NULL /\ rows[i] \in Address /\ (i \in AddressBook!Used(base) <=> base[i] # NULL)
    BY <1>1, <1>7
  <2>3. was \in BOOLEAN /\ on \in BOOLEAN /\ rows[i].isDefault \in BOOLEAN /\ rows[i].isActive \in BOOLEAN
    BY <2>1, <2>2 DEF Address
  <2>4. /\ rows[i].isDefault <=> DefaultUpTo(f, n, l, was)
        /\ rows[i].isActive <=> ActiveUpTo(f, n, l, on)
    BY <2>1, <2>2 DEF Takes
  <2>5. rows[i].isDefault = AddressBook!IsDefaultAfter(f, l, was)
    BY <2>3, <2>4, WholeFlags
  <2>6. rows[i].isActive = AddressBook!IsActiveAfter(f, l, on)
    BY <2>3, <2>4, WholeFlags
  <2> QED
    BY <2>1, <2>2, <2>5, <2>6
<1> QED
  BY <1>3, <1>4, <1>5, <1>6, <1>7 DEF AddressBook!Imports

LEMMA CallAnswered ==
  ASSUME NEW k \in Call, NEW n \in Nat, k.op = "import" => n >= Len(k.file.rows),
         NEW base \in [Ids -> Address \cup {NULL}], address = base,
         NEW rows \in [Ids -> Address \cup {NULL}], address' = rows,
         Effect(k, n, base, rows)
  PROVE  AddressBook!Answered(k)
<1>1. CASE k.op = "import"
  <2>1. AddressBook!Imports(k.file)
    BY <1>1, CallKinds, FileAnswered DEF Effect
  <2> QED
    BY <1>1, <2>1 DEF AddressBook!Answered
<1>2. CASE k.op = "setActive"
  BY <1>2 DEF Effect, AddressBook!Answered
<1>3. CASE k.op \in {"create", "update"}
  <2>1. PICK i \in Ids :
          /\ k.op = "create" => base[i] = NULL
          /\ k.op = "update" => i = k.id
          /\ \A j \in Ids \ {i} : base[j] # NULL => base[j].label # k.form.label
          /\ rows = Saving(base, i, k.form)
    BY <1>3 DEF Effect
  <2>2. AddressBook!Used(base) = {j \in Ids : base[j] # NULL}
    BY DEF AddressBook!Used
  <2>3. rows = [j \in Ids |->
                  IF j = i THEN k.form
                  ELSE IF j \in AddressBook!Used(base) /\ k.form.isDefault
                         THEN [base[j] EXCEPT !.isDefault = FALSE]
                  ELSE base[j]]
    BY <2>1, <2>2 DEF Saving
  <2>4. AddressBook!Saves(i, k.form)
    BY <2>1, <2>2, <2>3 DEF AddressBook!Saves
  <2>5. k.op = "create" => i \in Ids \ AddressBook!Used(base)
    BY <2>1, <2>2
  <2> QED
    BY <1>3, <2>1, <2>4, <2>5 DEF AddressBook!Answered
<1> QED
  BY <1>1, <1>2, <1>3 DEF Call

\* A call is asked when it begins, and answered when its transaction ends; the
\* steps between do not show.
LEMMA AsksOnce ==
  ASSUME Inv, NEW c \in Callers, NEW k \in Call, NEW stage, NEW i, NEW a, Begin(c, k, stage, i, a)
  PROVE  AddressBook!Ask(c, k)
<1>1. /\ pc[c] = "idle" /\ call' = [call EXCEPT ![c] = k]
      /\ overlapped' = (overlapped \/ \E d \in Callers : pc[d] # "idle")
      /\ UNCHANGED address
  BY DEF Begin
<1>2. \A d \in Callers : pc[d] = "idle" <=> call[d] = NULL
  BY DEF Inv, CallerOK
<1>3. (\E d \in Callers : pc[d] # "idle") <=> (\E d \in Callers : call[d] # NULL)
  BY <1>2
<1> QED
  BY <1>1, <1>2, <1>3 DEF AddressBook!Ask

LEMMA Asked ==
  ASSUME Inv, NEW c \in Callers, Begins(c)
  PROVE  \E k \in Call : AddressBook!Ask(c, k)
<1>1. CASE createCustomerAddress(c)
  <2>1. PICK a \in Forms : Begin(c, [op |-> "create", form |-> a], "saving", NULL, a)
    BY <1>1 DEF createCustomerAddress
  <2>2. [op |-> "create", form |-> a] \in Call
    BY DEF Call
  <2> QED
    BY <2>1, <2>2, AsksOnce
<1>2. CASE updateCustomerAddress(c)
  <2>1. PICK i \in Ids, a \in Forms :
          Begin(c, [op |-> "update", id |-> i, form |-> a], "saving", i, a)
    BY <1>2 DEF updateCustomerAddress
  <2>2. [op |-> "update", id |-> i, form |-> a] \in Call
    BY DEF Call
  <2> QED
    BY <2>1, <2>2, AsksOnce
<1>3. CASE setCustomerAddressActive(c)
  <2>1. PICK i \in Ids, b \in BOOLEAN :
          Begin(c, [op |-> "setActive", id |-> i, isActive |-> b], "setting", i,
                [address[i] EXCEPT !.isActive = b])
    BY <1>3 DEF setCustomerAddressActive
  <2>2. PICK a : a = [address[i] EXCEPT !.isActive = b]
    OBVIOUS
  <2>3. Begin(c, [op |-> "setActive", id |-> i, isActive |-> b], "setting", i, a)
    BY <2>1, <2>2
  <2>4. [op |-> "setActive", id |-> i, isActive |-> b] \in Call
    BY DEF Call
  <2> QED
    BY <2>3, <2>4, AsksOnce
<1>4. CASE confirmImport(c)
  <2>1. PICK f \in Files : Begin(c, [op |-> "import", file |-> f], "planning", NULL, NULL)
    BY <1>4 DEF confirmImport
  <2>2. [op |-> "import", file |-> f] \in Call
    BY DEF Call
  <2> QED
    BY <2>1, <2>2, AsksOnce
<1> QED
  BY <1>1, <1>2, <1>3, <1>4 DEF Begins

\* The steps of a caller that end no transaction do not show in the book.
LEMMA Silent ==
  ASSUME NEW c \in Callers, Step(c), ~End(c)
  PROVE  UNCHANGED <<address, call, overlapped>>
BY DEF Step, Deadlock, Commit, PlanRow, Planned, InsertAddress, UpdateAddress,
   Duplicate, Writes, WriteActive, FindOthers, ClearOther, Cleared

LEMMA BookStep ==
  ASSUME Inv, LoneInv, StoryInv, [Next]_vars
  PROVE  [AddressBook!Next]_<<address, call, overlapped>>
<1>1. CASE UNCHANGED vars
  BY <1>1 DEF vars, local
<1>2. ASSUME NEW c \in Callers, Begins(c)
      PROVE  [AddressBook!Next]_<<address, call, overlapped>>
  <2>1. \E k \in Call : AddressBook!Ask(c, k)
    BY <1>2, Asked
  <2> QED
    BY <2>1 DEF AddressBook!Next
<1>3. ASSUME NEW c \in Callers, Step(c) \/ Fail(c)
      PROVE  [AddressBook!Next]_<<address, call, overlapped>>
  <2>1. CASE End(c)
    <3>1. TypeOK /\ call[c] # NULL /\ call' = [call EXCEPT ![c] = NULL] /\ UNCHANGED overlapped
      BY <1>3, <2>1, StepKeeps DEF Fail, End, Inv, CallerOK
    <3>2. overlapped \/ AddressBook!Answered(call[c]) \/ UNCHANGED address
      <4>1. CASE Commit(c) /\ ~overlapped
        <5>1. /\ Effect(call[c], at[c] - 1, address, address')
              /\ call[c].op = "import" => at[c] > Len(call[c].file.rows)
          BY <4>1, StoryCommits DEF StoryInv
        <5>2. /\ call[c] \in Call /\ at[c] \in Nat \ {0}
              /\ address \in [Ids -> Address \cup {NULL}] /\ view(c) \in [Ids -> Address \cup {NULL}]
              /\ call[c].op = "import" => call[c].file \in File
          BY <4>1, StoryTypes DEF Commit
        <5>3. PICK k, n, base, rows :
                k = call[c] /\ n = at[c] - 1 /\ base = address /\ rows = view(c)
          OBVIOUS
        <5>4. address' = rows /\ Effect(k, n, base, rows) /\ n \in Nat
          BY <4>1, <5>1, <5>2, <5>3 DEF Commit
        <5>5. k.op = "import" => n >= Len(k.file.rows)
          <6>1. k.op = "import" => Len(k.file.rows) \in Nat
            BY <5>2, <5>3 DEF File
          <6> QED
            BY <5>1, <5>2, <5>3, <6>1
        <5>6. AddressBook!Answered(k)
          BY <5>2, <5>3, <5>4, <5>5, CallAnswered
        <5> QED
          BY <5>3, <5>6
      <4>2. CASE ~Commit(c)
        BY <1>3, <4>2, AddressStep
      <4> QED
        BY <4>1, <4>2
    <3>3. AddressBook!Answer(c)
      BY <3>1, <3>2 DEF AddressBook!Answer
    <3> QED
      BY <3>3 DEF AddressBook!Next
  <2>2. CASE ~End(c)
    BY <1>3, <2>2, Silent DEF Fail
  <2> QED
    BY <2>1, <2>2
<1> QED
  BY <1>1, <1>2, <1>3 DEF Next, Begins

\* Each call has the effect of one step, or none, if no other overlaps it: of a
\* form, the saved address; of a file, exactly what it says.
THEOREM AddressesImplementBook == Spec => ImplementsAddressBook
<1>1. Init => AddressBook!Init
  BY DEF Init, AddressBook!Init
<1>2. Inv /\ LoneInv /\ StoryInv /\ [Next]_vars => [AddressBook!Next]_<<address, call, overlapped>>
  BY BookStep
<1> QED
  BY <1>1, <1>2, InitInv, NextInv, LoneInit, LoneNext, StoryInit, StoryNext, PTL
     DEF Spec, ImplementsAddressBook, AddressBook!Spec

-----------------------------------------------------------------------------
(* Somebody goes on, whatever overlaps.  First the labels: those of the      *)
(* committed rows are distinct, and so are those that each transaction sees; *)
(* and no two transactions have a label in hand that is the other's too.     *)

LabelsDiffer(rows) ==
  \A i, j \in Ids : rows[i] # NULL /\ rows[j] # NULL /\ rows[i].label = rows[j].label => i = j

Apart(c, d) ==
  \A i \in DOMAIN mine[c], j \in DOMAIN mine[d] :
    /\ mine[c][i].label # mine[d][j].label
    /\ address[j] # NULL => mine[c][i].label # address[j].label

LabelInv ==
  /\ Exclusive /\ LabelsDiffer(address)
  /\ \A c \in Callers : LabelsDiffer(view(c))
  /\ \A c, d \in Callers : c # d => Apart(c, d)

\* What is written keeps the row's label, or has one that nobody else uses.
Labelled(c, i, a) ==
  \/ view(c)[i] # NULL /\ a.label = view(c)[i].label
  \/ ~LabelHeld(c, a.label) /\ Matches(view(c), a.label) \subseteq {i}

LEMMA LabelWrite ==
  ASSUME TypeOK, LabelInv, NEW c \in Callers, NEW i \in Ids, NEW a \in Address,
         Wrote(c, i, a), \A d \in Callers : d # c => i \notin DOMAIN mine[d],
         Labelled(c, i, a), UNCHANGED address
  PROVE  LabelInv'
<1>1. Exclusive'
  BY ExclusiveWrite DEF LabelInv
<1>2. /\ \A d \in Callers : DOMAIN mine[d] \subseteq Ids /\ mine[d] \in [DOMAIN mine[d] -> Address]
      /\ \A d \in Callers : d # c => mine'[d] = mine[d]
      /\ DOMAIN mine'[c] = DOMAIN mine[c] \cup {i} /\ mine'[c][i] = a
      /\ \A j \in DOMAIN mine[c] : j # i => mine'[c][j] = mine[c][j]
  BY WroteTyped DEF TypeOK
<1>3. \A d \in Callers : view(d) \in [Ids -> Address \cup {NULL}]
  BY ViewTyped
<1>4. view(c)' = [view(c) EXCEPT ![i] = a]
  BY WroteView
<1>5. \A j \in Ids : j # i /\ view(c)[j] # NULL => view(c)[j].label # a.label
  <2>1. CASE view(c)[i] # NULL /\ a.label = view(c)[i].label
    BY <2>1 DEF LabelInv, LabelsDiffer
  <2>2. CASE Matches(view(c), a.label) \subseteq {i}
    BY <1>3, <2>2 DEF Matches
  <2> QED
    BY <2>1, <2>2 DEF Labelled
<1>6. LabelsDiffer(view(c))'
  <2>1. LabelsDiffer(view(c))
    BY DEF LabelInv
  <2>2. \A j \in Ids : view(c)'[j] = IF j = i THEN a ELSE view(c)[j]
    BY <1>3, <1>4
  <2> QED
    BY <1>5, <2>1, <2>2 DEF LabelsDiffer
<1>7. \A d \in Callers : d # c => LabelsDiffer(view(d))'
  <2>1. \A d \in Callers : d # c => view(d)' = view(d)
    BY <1>2 DEF view
  <2> QED
    BY <2>1 DEF LabelInv, LabelsDiffer
<1>8. ASSUME NEW d \in Callers, d # c
      PROVE  /\ address[i] # NULL => \A j \in DOMAIN mine[d] : mine[d][j].label # address[i].label
             /\ \A j \in DOMAIN mine[d] : mine[d][j].label # a.label
             /\ \A j \in DOMAIN mine[d] : address[j] # NULL => a.label # address[j].label
  <2>1. ASSUME NEW j \in DOMAIN mine[d], address[i] # NULL
        PROVE  mine[d][j].label # address[i].label
    <3>1. i \in Ids /\ j \in Ids /\ i # j /\ i \notin DOMAIN mine[d] /\ mine[d][j] # NULL
      BY <1>2, <1>8
    <3>2. view(d)[i] = address[i] /\ view(d)[j] = mine[d][j]
      BY <3>1 DEF view
    <3>3. LabelsDiffer(view(d))
      BY DEF LabelInv
    <3> QED
      BY <2>1, <3>1, <3>2, <3>3 DEF LabelsDiffer
  <2>2. CASE view(c)[i] # NULL /\ a.label = view(c)[i].label
    <3>1. CASE i \in DOMAIN mine[c]
      <4>1. view(c)[i] = mine[c][i]
        BY <3>1 DEF view
      <4>2. Apart(c, d)
        BY <1>8 DEF LabelInv
      <4> QED
        BY <2>1, <2>2, <3>1, <4>1, <4>2 DEF Apart
    <3>2. CASE i \notin DOMAIN mine[c]
      <4>1. view(c)[i] = address[i]
        BY <3>2 DEF view
      <4>2. \A j \in DOMAIN mine[d] : j \in Ids /\ j # i
        BY <1>2, <1>8
      <4>3. \A j \in DOMAIN mine[d] : address[j] # NULL => address[i].label # address[j].label
        BY <2>2, <4>1, <4>2 DEF LabelInv, LabelsDiffer
      <4> QED
        BY <2>1, <2>2, <4>1, <4>3
    <3> QED
      BY <3>1, <3>2
  <2>3. CASE ~LabelHeld(c, a.label)
    BY <1>8, <2>1, <2>3 DEF LabelHeld, LabelHeldBy
  <2> QED
    BY <2>1, <2>2, <2>3 DEF Labelled
<1>9. ASSUME NEW d \in Callers, NEW e \in Callers, d # e PROVE Apart(d, e)'
  <2>1. Apart(d, e)
    BY <1>9 DEF LabelInv
  <2>2. CASE d # c /\ e # c
    BY <1>2, <2>1, <2>2 DEF Apart
  <2>3. CASE d = c /\ e # c
    BY <1>2, <1>8, <2>1, <2>3 DEF Apart
  <2>4. CASE d # c /\ e = c
    BY <1>2, <1>8, <2>1, <2>4 DEF Apart
  <2> QED
    BY <1>9, <2>2, <2>3, <2>4
<1>10. LabelsDiffer(address)'
  BY DEF LabelInv, LabelsDiffer
<1> QED
  BY <1>1, <1>6, <1>7, <1>9, <1>10 DEF LabelInv

LEMMA LabelSame ==
  ASSUME LabelInv, UNCHANGED <<address, mine>>
  PROVE  LabelInv'
<1>1. \A c \in Callers : view(c)' = view(c)
  BY DEF view
<1> QED
  BY <1>1 DEF LabelInv, Exclusive, LabelsDiffer, Apart

\* The end of a transaction, with or without a commit.
LEMMA LabelEnd ==
  ASSUME TypeOK, LabelInv, NEW c \in Callers, End(c), address' \in {address, view(c)}
  PROVE  LabelInv'
<1>1. DOMAIN mine'[c] = {} /\ \A d \in Callers : d # c => mine'[d] = mine[d]
  BY EndResets DEF OthersKeep
<1>2. Exclusive'
  BY <1>1 DEF LabelInv, Exclusive
<1>3. LabelsDiffer(address)'
  BY DEF LabelInv, LabelsDiffer
<1>4. view(c)' = address'
  BY <1>1, ViewTyped DEF view, TypeOK
<1>5. \A d \in Callers : DOMAIN mine[d] \subseteq Ids /\ mine[d] \in [DOMAIN mine[d] -> Address]
  BY DEF TypeOK
<1>6. ASSUME NEW d \in Callers, d # c
      PROVE  \A j \in DOMAIN mine[d] : address'[j] = address[j]
  <2>1. \A j \in DOMAIN mine[d] : j \notin DOMAIN mine[c] /\ j \in Ids
    BY <1>5, <1>6 DEF LabelInv, Exclusive
  <2> QED
    BY <2>1 DEF view
<1>7. ASSUME NEW d \in Callers, d # c PROVE LabelsDiffer(view(d))'
  <2>1. LabelsDiffer(view(d)) /\ LabelsDiffer(view(c)) /\ Apart(c, d) /\ Apart(d, c)
    BY <1>7 DEF LabelInv
  <2>2. CASE address' = address
    <3>1. view(d)' = view(d)
      BY <1>1, <1>7, <2>2 DEF view
    <3> QED
      BY <2>1, <3>1 DEF LabelsDiffer
  <2>3. CASE address' = view(c)
    <3>1. \A j \in Ids : view(d)'[j] = IF j \in DOMAIN mine[d] THEN mine[d][j] ELSE view(c)[j]
      BY <1>1, <1>7, <2>3 DEF view
    <3>2. \A j \in Ids : view(d)[j] = IF j \in DOMAIN mine[d] THEN mine[d][j] ELSE address[j]
      BY DEF view
    <3>3. \A j \in Ids : view(c)[j] = IF j \in DOMAIN mine[c] THEN mine[c][j] ELSE address[j]
      BY DEF view
    <3>4. ASSUME NEW i \in DOMAIN mine[d], NEW j \in Ids, j \notin DOMAIN mine[d],
                 view(c)[j] # NULL
          PROVE  mine[d][i].label # view(c)[j].label
      <4>1. CASE j \in DOMAIN mine[c]
        BY <2>1, <3>3, <4>1 DEF Apart
      <4>2. CASE j \notin DOMAIN mine[c]
        BY <1>5, <2>1, <3>2, <3>3, <3>4, <4>2 DEF LabelsDiffer
      <4> QED
        BY <4>1, <4>2
    <3>5. ASSUME NEW i \in Ids, NEW j \in Ids, view(d)'[i] # NULL, view(d)'[j] # NULL,
                 view(d)'[i].label = view(d)'[j].label
          PROVE  i = j
      <4>1. CASE i \in DOMAIN mine[d] /\ j \in DOMAIN mine[d]
        BY <2>1, <3>1, <3>2, <3>5, <4>1 DEF LabelsDiffer
      <4>2. CASE i \notin DOMAIN mine[d] /\ j \notin DOMAIN mine[d]
        BY <2>1, <3>1, <3>5, <4>2 DEF LabelsDiffer
      <4>3. CASE ~(i \in DOMAIN mine[d] <=> j \in DOMAIN mine[d])
        BY <3>1, <3>4, <3>5, <4>3
      <4> QED
        BY <4>1, <4>2, <4>3
    <3> QED
      BY <3>5 DEF LabelsDiffer
  <2> QED
    BY <2>2, <2>3
<1>8. ASSUME NEW d \in Callers, NEW e \in Callers, d # e PROVE Apart(d, e)'
  BY <1>1, <1>6, <1>8 DEF LabelInv, Apart
<1>9. LabelsDiffer(view(c))'
  BY <1>3, <1>4 DEF LabelsDiffer
<1> QED
  BY <1>2, <1>3, <1>7, <1>8, <1>9 DEF LabelInv

LEMMA LabelStep ==
  ASSUME Inv, LabelInv, NEW c \in Callers, Step(c) \/ Fail(c) \/ Begins(c)
  PROVE  LabelInv'
<1>1. TypeOK /\ CallerOK(c) /\ view(c) \in [Ids -> Address \cup {NULL}]
  BY ViewTyped DEF Inv
<1>2. CASE UNCHANGED <<address, mine>>
  BY <1>2, LabelSame
<1>3. CASE End(c) /\ address' \in {address, view(c)}
  BY <1>1, <1>3, LabelEnd
<1>4. CASE InsertAddress(c) \/ UpdateAddress(c)
  <2>1. form[c] \in Address /\ id[c] \in Ids \cup {NULL}
    BY <1>1, <1>4, Running DEF CallerOK, InsertAddress, UpdateAddress
  <2>2. \/ End(c) /\ UNCHANGED address
        \/ \E i \in Ids : /\ Writes(c, i) /\ \A d \in Callers : d # c => i \notin DOMAIN mine[d]
                          /\ ~LabelHeld(c, form[c].label) /\ SameLabel(c) \subseteq {i}
    BY <1>4, <2>1 DEF InsertAddress, UpdateAddress, Duplicate, Unused, RowHeld, RowHeldBy
  <2>3. ASSUME NEW i \in Ids, Writes(c, i), \A d \in Callers : d # c => i \notin DOMAIN mine[d],
               ~LabelHeld(c, form[c].label), SameLabel(c) \subseteq {i}
        PROVE  LabelInv'
    <3>1. Wrote(c, i, form[c]) /\ UNCHANGED address
      BY <2>3 DEF Writes
    <3>2. Labelled(c, i, form[c])
      BY <2>3 DEF Labelled, SameLabel
    <3> QED
      BY <1>1, <2>1, <2>3, <3>1, <3>2, LabelWrite
  <2> QED
    BY <1>3, <2>2, <2>3
<1>5. CASE WriteActive(c)
  <2> DEFINE b == [view(c)[id[c]] EXCEPT !.isActive = form[c].isActive]
  <2>1. form[c] \in Address /\ id[c] \in Ids /\ view(c)[id[c]] \in Address
    BY <1>1, <1>5, Running DEF CallerOK, WriteActive
  <2>2. b \in Address /\ Wrote(c, id[c], b) /\ UNCHANGED address
    BY <1>5, <2>1 DEF Address, WriteActive
  <2>3. \A d \in Callers : d # c => id[c] \notin DOMAIN mine[d]
    BY <1>5 DEF WriteActive, RowHeld, RowHeldBy
  <2>4. b.label = view(c)[id[c]].label
    BY <2>1 DEF Address
  <2>5. view(c)[id[c]] # NULL
    BY <2>1
  <2> HIDE DEF b
  <2>6. Labelled(c, id[c], b)
    BY <2>4, <2>5 DEF Labelled
  <2> QED
    BY <1>1, <2>1, <2>2, <2>3, <2>6, LabelWrite
<1>6. CASE ClearOther(c)
  <2>1. PICK i \in others[c] :
          /\ ~RowHeld(c, i)
          /\ \/ Wrote(c, i, [view(c)[i] EXCEPT !.isDefault = FALSE])
             \/ UNCHANGED mine
    BY <1>6 DEF ClearOther
  <2>2. i \in Ids /\ view(c)[i] \in Address /\ UNCHANGED address
    BY <1>1, <1>6, <2>1 DEF CallerOK, TypeOK, ClearOther
  <2> DEFINE b == [view(c)[i] EXCEPT !.isDefault = FALSE]
  <2>3. b \in Address /\ b.label = view(c)[i].label /\ view(c)[i] # NULL
    BY <2>2 DEF Address
  <2>4. \A d \in Callers : d # c => i \notin DOMAIN mine[d]
    BY <2>1 DEF RowHeld, RowHeldBy
  <2>5. CASE UNCHANGED mine
    BY <1>2, <2>2, <2>5
  <2>6. CASE Wrote(c, i, b)
    <3> HIDE DEF b
    <3>1. Labelled(c, i, b)
      BY <2>3 DEF Labelled
    <3> QED
      BY <1>1, <2>2, <2>3, <2>4, <2>6, <3>1, LabelWrite
  <2> QED
    BY <2>1, <2>5, <2>6
<1> QED
  BY <1>2, <1>3, <1>4, <1>5, <1>6
     DEF Step, Fail, Deadlock, Commit, PlanRow, Planned, FindOthers, Cleared, Begins, Begin,
         createCustomerAddress, updateCustomerAddress, setCustomerAddressActive, confirmImport

LEMMA LabelInit == Init => LabelInv
<1> SUFFICES ASSUME Init PROVE LabelInv
  OBVIOUS
<1>1. \A c \in Callers : mine[c] = NoRows
  BY DEF Init
<1>2. \A c \in Callers : DOMAIN mine[c] = {}
  BY <1>1 DEF NoRows
<1>3. \A i \in Ids : address[i] = NULL
  BY DEF Init
<1>4. \A c \in Callers : \A i \in Ids : view(c)[i] = NULL
  BY <1>2, <1>3 DEF view
<1>5. LabelsDiffer(address) /\ \A c \in Callers : LabelsDiffer(view(c))
  BY <1>3, <1>4 DEF LabelsDiffer
<1>6. Exclusive /\ \A c, d \in Callers : Apart(c, d)
  BY <1>2 DEF Exclusive, Apart
<1> QED
  BY <1>5, <1>6 DEF LabelInv

LEMMA LabelNext == Inv /\ LabelInv /\ [Next]_vars => LabelInv'
<1> SUFFICES ASSUME Inv, LabelInv, [Next]_vars PROVE LabelInv'
  OBVIOUS
<1>1. CASE UNCHANGED vars
  BY <1>1, LabelSame DEF vars, local
<1>2. ASSUME NEW c \in Callers, Step(c) \/ Fail(c) \/ Begins(c) PROVE LabelInv'
  BY <1>2, LabelStep
<1> QED
  BY <1>1, <1>2 DEF Next, Begins

-----------------------------------------------------------------------------
(* Whoever cannot go on waits for another call under way.  Where everyone    *)
(* does, some of them wait in a circle.                                      *)

\* Of B, where each x follows f[x], some follow each other.
FollowEachOther(B, f) ==
  \E C \in SUBSET B :
    /\ C # {}
    /\ \A x \in C : f[x] \in C
    /\ \A y \in C : \E x \in C : f[x] = y

\* Of finitely many, each with one to follow, some follow each other.
LEMMA SomeFollowEachOther ==
  ASSUME NEW B, IsFiniteSet(B), B # {}, NEW f \in [B -> B]
  PROVE  FollowEachOther(B, f)
<1> DEFINE Closed == {C \in SUBSET B : C # {} /\ \A x \in C : f[x] \in C}
<1>1. B \in Closed
  OBVIOUS
<1>2. IsWellFoundedOn(StrictSubsetOrdering(B), SUBSET B)
  BY FS_StrictSubsetOrderingWellFounded, FS_FiniteSubsetsOfFinite
<1>3. Closed \subseteq SUBSET B /\ Closed # {}
  BY <1>1
<1>4. PICK C \in Closed : \A D \in Closed : <<D, C>> \notin StrictSubsetOrdering(B)
  <2> HIDE DEF Closed
  <2> QED
    BY <1>2, <1>3, WFMin
<1> DEFINE D == {f[x] : x \in C}
<1>5. D \in SUBSET C /\ D # {}
  BY <1>4
<1>6. \A y \in D : f[y] \in D
  BY <1>5
<1>7. D \in Closed
  BY <1>4, <1>5, <1>6
<1>8. D = C
  <2>1. <<D, C>> \notin StrictSubsetOrdering(B) /\ D \in SUBSET B /\ C \in SUBSET B
    BY <1>4, <1>7
  <2> HIDE DEF D
  <2> QED
    BY <1>5, <2>1 DEF StrictSubsetOrdering
<1> QED
  BY <1>4, <1>8 DEF FollowEachOther

\* Everybody waits: then somebody is on a circle of those who do.
LEMMA CircleOfWaiting ==
  ASSUME IsFiniteSet(Callers), NEW B \in SUBSET Callers, B # {},
         \A c \in B : \E d \in B \ {c} : WaitsFor(c, d)
  PROVE  \E c \in B : Deadlocked(c)
<1>1. PICK f \in [B -> B] : \A c \in B : f[c] \in B \ {c} /\ WaitsFor(c, f[c])
  <2> DEFINE g == [c \in B |-> CHOOSE d \in B \ {c} : WaitsFor(c, d)]
  <2>1. \A c \in B : g[c] \in B \ {c} /\ WaitsFor(c, g[c])
    OBVIOUS
  <2>2. g \in [B -> B]
    BY <2>1
  <2> QED
    BY <2>1, <2>2
<1>2. IsFiniteSet(B)
  BY FS_Subset
<1>3. FollowEachOther(B, f)
  BY <1>2, SomeFollowEachOther
<1>4. PICK C \in SUBSET B :
        /\ C # {}
        /\ \A x \in C : f[x] \in C
        /\ \A y \in C : \E x \in C : f[x] = y
  BY <1>3 DEF FollowEachOther
<1>5. ASSUME NEW d \in C
      PROVE  /\ \E e \in C \ {d} : WaitsFor(d, e)
             /\ \E e \in C \ {d} : WaitsFor(e, d)
  <2>1. d \in B /\ f[d] \in C \ {d} /\ WaitsFor(d, f[d])
    BY <1>1, <1>4
  <2>2. PICK x \in C : f[x] = d
    BY <1>4
  <2>3. x \in C \ {d} /\ WaitsFor(x, d)
    BY <1>1, <1>4, <2>2
  <2> QED
    BY <2>1, <2>3
<1>6. PICK c \in C : TRUE
  BY <1>4
<1>7. C \in SUBSET Callers
  BY <1>4
<1>8. Deadlocked(c)
  BY <1>5, <1>6, <1>7 DEF Deadlocked
<1> QED
  BY <1>6, <1>8

\* An id is left, where there are as many as labels: of the rows in use each
\* has another label in hand.
LEMMA IdIsLeft ==
  ASSUME Inv, LabelInv, NEW c \in Callers, NEW l \in Labels,
         ~LabelHeld(c, l), Matches(view(c), l) = {},
         IsFiniteSet(Ids), IsFiniteSet(Labels), Cardinality(Labels) <= Cardinality(Ids)
  PROVE  \E i \in Ids : Unused(i)
<1> SUFFICES ASSUME \A i \in Ids : ~Unused(i) PROVE FALSE
  OBVIOUS
<1>1. \A d \in Callers : /\ view(d) \in [Ids -> Address \cup {NULL}]
                         /\ DOMAIN mine[d] \subseteq Ids /\ mine[d] \in [DOMAIN mine[d] -> Address]
  BY ViewTyped DEF Inv, TypeOK
<1> DEFINE sees(i, d) == (\E e \in Callers : i \in DOMAIN mine[e]) => i \in DOMAIN mine[d]
           holder == [i \in Ids |-> CHOOSE d \in Callers : sees(i, d)]
           label == [i \in Ids |-> view(holder[i])[i].label]
<1>2. \A i \in Ids : holder[i] \in Callers /\ sees(i, holder[i])
  OBVIOUS
<1> HIDE DEF holder
<1>3. ASSUME NEW i \in Ids
      PROVE  \E d \in Callers : d = holder[i] /\ sees(i, d) /\ view(d)[i] \in Address
  <2>1. PICK d \in Callers : d = holder[i] /\ sees(i, d)
    BY <1>2
  <2>2. view(d)[i] = IF i \in DOMAIN mine[d] THEN mine[d][i] ELSE address[i]
    BY DEF view
  <2>3. CASE i \in DOMAIN mine[d]
    BY <1>1, <2>1, <2>2, <2>3
  <2>4. CASE i \notin DOMAIN mine[d]
    <3>1. \A e \in Callers : i \notin DOMAIN mine[e]
      BY <2>1, <2>4
    <3>2. address[i] # NULL
      BY <3>1 DEF Unused
    <3> QED
      BY <1>1, <2>1, <2>2, <2>4, <3>2
  <2> QED
    BY <2>3, <2>4
<1>4. ASSUME NEW i \in Ids PROVE label[i] \in Labels \ {l}
  <2>1. PICK d \in Callers : d = holder[i] /\ sees(i, d) /\ view(d)[i] \in Address
    BY <1>3
  <2>2. label[i] = view(d)[i].label /\ label[i] \in Labels
    BY <2>1 DEF Address
  <2>3. view(d)[i] = IF i \in DOMAIN mine[d] THEN mine[d][i] ELSE address[i]
    BY DEF view
  <2>4. view(c)[i] = IF i \in DOMAIN mine[c] THEN mine[c][i] ELSE address[i]
    BY DEF view
  <2>5. CASE i \in DOMAIN mine[d] /\ d # c
    BY <2>1, <2>2, <2>3, <2>5 DEF LabelHeld, LabelHeldBy
  <2>6. CASE i \notin DOMAIN mine[d] \/ d = c
    <3>1. view(c)[i] = view(d)[i]
      BY <2>1, <2>3, <2>4, <2>6
    <3> QED
      BY <1>1, <2>1, <2>2, <3>1 DEF Matches
  <2> QED
    BY <2>5, <2>6
<1>5. ASSUME NEW i \in Ids, NEW j \in Ids, label[i] = label[j] PROVE i = j
  <2>1. PICK d \in Callers : d = holder[i] /\ sees(i, d) /\ view(d)[i] \in Address
    BY <1>3
  <2>2. PICK e \in Callers : e = holder[j] /\ sees(j, e) /\ view(e)[j] \in Address
    BY <1>3
  <2>3. view(d)[i].label = view(e)[j].label /\ view(d)[i] # NULL /\ view(e)[j] # NULL
    BY <1>5, <2>1, <2>2
  <2>4. /\ view(d)[i] = IF i \in DOMAIN mine[d] THEN mine[d][i] ELSE address[i]
        /\ view(d)[j] = IF j \in DOMAIN mine[d] THEN mine[d][j] ELSE address[j]
        /\ view(e)[i] = IF i \in DOMAIN mine[e] THEN mine[e][i] ELSE address[i]
        /\ view(e)[j] = IF j \in DOMAIN mine[e] THEN mine[e][j] ELSE address[j]
    BY DEF view
  <2>5. LabelsDiffer(view(d)) /\ LabelsDiffer(view(e))
    BY DEF LabelInv
  <2>6. CASE d = e
    BY <2>3, <2>5, <2>6 DEF LabelsDiffer
  <2>7. CASE d # e /\ i \in DOMAIN mine[d] /\ j \in DOMAIN mine[e]
    BY <2>3, <2>4, <2>7 DEF LabelInv, Apart
  <2>8. CASE j \notin DOMAIN mine[e]
    <3>1. view(d)[j] = view(e)[j]
      BY <2>2, <2>4, <2>8
    <3> QED
      BY <2>3, <2>5, <3>1 DEF LabelsDiffer
  <2>9. CASE i \notin DOMAIN mine[d]
    <3>1. view(e)[i] = view(d)[i]
      BY <2>1, <2>4, <2>9
    <3> QED
      BY <2>3, <2>5, <3>1 DEF LabelsDiffer
  <2> QED
    BY <2>6, <2>7, <2>8, <2>9
<1> HIDE DEF label
<1>6. label \in Injection(Ids, Labels \ {l})
  <2>1. label \in [Ids -> Labels \ {l}]
    BY <1>4 DEF label
  <2> QED
    BY <1>5, <2>1 DEF Injection, IsInjective
<1>7. /\ IsFiniteSet(Labels \ {l}) /\ Cardinality(Labels \ {l}) = Cardinality(Labels) - 1
      /\ Cardinality(Labels) \in Nat /\ Cardinality(Ids) \in Nat
  BY FS_RemoveElement, FS_CardinalityType
<1>8. Cardinality(Ids) <= Cardinality(Labels) - 1
  BY <1>6, <1>7, FS_Injection
<1> QED
  BY <1>7, <1>8

\* Whoever cannot go on waits for a call under way.
LEMMA StuckWaits ==
  ASSUME Inv, LabelInv, NEW c \in Callers, pc[c] # "idle", ~CanGoOn(c),
         IsFiniteSet(Ids), IsFiniteSet(Labels), Cardinality(Labels) <= Cardinality(Ids)
  PROVE  \E d \in Callers \ {c} : WaitsFor(c, d) /\ pc[d] # "idle"
<1>1. TypeOK /\ CallerOK(c) /\ \A d \in Callers : CallerOK(d)
  BY DEF Inv
<1>2. \A d \in Callers : DOMAIN mine[d] # {} => pc[d] # "idle"
  BY <1>1 DEF CallerOK
<1>3. pc[c] \in {"saving", "setting", "clearing"}
  BY <1>1 DEF TypeOK, CanGoOn
<1>4. CASE pc[c] = "saving"
  <2>1. form[c] \in Address /\ form[c].label \in Labels
    BY <1>1, <1>4, Running DEF CallerOK, Address
  <2>2. LabelHeld(c, form[c].label) \/ RowHeld(c, id[c])
    BY <1>4, <2>1, IdIsLeft DEF CanGoOn, SameLabel
  <2>3. PICK d \in Callers : LabelHeldBy(c, form[c].label, d) \/ RowHeldBy(c, id[c], d)
    BY <2>2 DEF LabelHeld, RowHeld
  <2> QED
    BY <1>2, <1>4, <2>3 DEF WaitsFor, LabelHeldBy, RowHeldBy
<1>5. CASE pc[c] = "setting"
  <2>1. PICK d \in Callers : RowHeldBy(c, id[c], d)
    BY <1>5 DEF CanGoOn, RowHeld
  <2> QED
    BY <1>2, <1>5, <2>1 DEF WaitsFor, RowHeldBy
<1>6. CASE pc[c] = "clearing"
  <2>1. PICK i \in others[c] : RowHeld(c, i)
    BY <1>6 DEF CanGoOn
  <2>2. PICK d \in Callers : RowHeldBy(c, i, d)
    BY <2>1 DEF RowHeld
  <2> QED
    BY <1>2, <1>6, <2>1, <2>2 DEF WaitsFor, RowHeldBy
<1> QED
  BY <1>3, <1>4, <1>5, <1>6

\* Whatever forms and files are saved at once, by however many sellers, one of
\* the calls can go on, or is ended because it waits for itself by way of others
\* (customer-address-service.ts:73, driver.ts:133).  The ids are as many as labels.
THEOREM SomeCallGoesOn ==
  ASSUME IsFiniteSet(Callers), IsFiniteSet(Ids), IsFiniteSet(Labels),
         Cardinality(Labels) <= Cardinality(Ids)
  PROVE  Spec => []SomeoneGoesOn
<1>1. Inv /\ LabelInv => SomeoneGoesOn
  <2> SUFFICES ASSUME Inv, LabelInv, \E c \in Callers : pc[c] # "idle",
                      \A c \in Callers : ~CanGoOn(c)
               PROVE  FALSE
    BY DEF SomeoneGoesOn
  <2>1. PICK B \in SUBSET Callers : B = {c \in Callers : pc[c] # "idle"}
    OBVIOUS
  <2>2. \A c \in B : \E d \in B \ {c} : WaitsFor(c, d)
    BY <2>1, StuckWaits
  <2>3. B # {}
    BY <2>1
  <2>4. \E c \in B : Deadlocked(c)
    BY <2>2, <2>3, CircleOfWaiting
  <2> QED
    BY <2>4 DEF CanGoOn
<1> QED
  BY <1>1, InitInv, NextInv, LabelInit, LabelNext, PTL DEF Spec
=============================================================================
