----------------------------- MODULE AccountsProofs ----------------------------
(* Proofs about Accounts, for any number of users, sellers and operators, and   *)
(* any scripts: one bootstrap at most succeeds; a script that is done has left  *)
(* behind what it is for; what is left of one never stops the next; and scripts *)
(* never wait for each other for ever.                                          *)
EXTENDS AccountsProperties, FiniteSetTheorems, SequenceTheorems, TLAPS

USE NoneAssumption, OperatorsAssumption, InstallationsAssumption

-------------------------------------------------------------------------------
(* Types.                                                                       *)

RowsOK == rows \in [Rows -> Row \cup {None}]

Drafts == UNION {[D -> Row] : D \in SUBSET Rows}

Steps ==
    {"start", "lock", "check", "create tenant", "create user", "create membership",
     "customer", "user", "membership", "admin", "price lists", "relationship",
     "invite", "accept", "request", "price list", "assignment", "assign", "end"}

Jobs ==
    [task : Nat, step : Steps, draft : Drafts,
     result : {"ready", "running", "done", "refused", "failed", "interrupted"},
     starts : Nat]

JobsOK ==
    /\ job \in [Operators -> Jobs]
    /\ \A p \in Operators : job[p].result = "running" => job[p].task \in 1..Len(Script(p))

Types == installation \in Installations /\ RowsOK /\ JobsOK

(* What is inserted is not deleted.                                             *)
RowsGrow == RowsOK' /\ \A r \in Rows : Exists(r) => Exists(r)'

-------------------------------------------------------------------------------
(* One bootstrap.                                                               *)

Bootstraps(p, i) == Script(p)[i].does = "bootstrap"

At(p, steps) ==
    /\ job[p].result = "running"
    /\ Bootstraps(p, job[p].task)
    /\ job[p].step \in steps

(* p has a bootstrap behind it.                                                 *)
Past(p) ==
    \E i \in 1..Len(Script(p)) :
        /\ Bootstraps(p, i)
        /\ \/ job[p].result = "done"
           \/ job[p].result = "running" /\ i < job[p].task

Creating(p) == At(p, {"create tenant", "create user", "create membership"})

(* The lock is held from the second check to the commit, so that what the check *)
(* found stays true of every other bootstrap.                                   *)
Bootstrap ==
    /\ \A p \in Operators : Past(p) => ~RootStateIsEmpty
    /\ \A p \in Operators : Creating(p) \/ At(p, {"check"}) => lock = p
    /\ \A p, q \in Operators : Creating(p) => ~Past(q)
    /\ \A p, q \in Operators : Past(p) /\ Past(q) => p = q
    /\ \A p \in Operators : At(p, {"create user", "create membership"}) =>
           Tenant(Script(p)[job[p].task].tenant) \in DOMAIN job[p].draft

Inv == Types /\ Bootstrap

-------------------------------------------------------------------------------
(* Steps of one script.                                                         *)

(* How a script gets from one of its steps to another.                          *)
GoesOn(i, j, n) ==
    \/ j.result \in {"refused", "failed", "interrupted"}
    \/ j.result = "running" /\ i.result = "running" /\ j.task = i.task
    \/ /\ j.result = "running" /\ i.result = "running" /\ i.task < n
       /\ j.task = i.task + 1 /\ j.step = "start"
    \/ j.result = "done" /\ i.result = "running" /\ j.task = n /\ i.task = n
    \/ j.result = "running" /\ j.task = 1 /\ j.step = "start" /\ n > 0

(* What a step of p's script does, if it is none of a bootstrap.                *)
Moves(p) ==
    /\ UNCHANGED installation
    /\ RowsGrow
    /\ lock' = lock \/ (lock = p /\ lock' = None)
    /\ \E j \in Jobs : job' = [job EXCEPT ![p] = j] /\ GoesOn(job[p], j, Len(Script(p)))

LEMMA ScriptTyped ==
    ASSUME Types, NEW p \in Operators
    PROVE  Script(p) \in Seq(AnyTask)
BY DEF Types, Script

LEMMA TaskTyped ==
    ASSUME Types, NEW p \in Operators, job[p].result = "running"
    PROVE  Task(p) \in AnyTask
BY ScriptTyped DEF Types, JobsOK, Task

LEMMA JobTyped ==
    ASSUME Types, NEW p \in Operators
    PROVE  /\ job[p] \in Jobs
           /\ job = [q \in Operators |-> job[q]]
           /\ Len(Script(p)) \in Nat
           /\ NoDraft \in Drafts
<1>1. NoDraft \in [{} -> Row]
  BY DEF NoDraft
<1>2. {} \in SUBSET Rows
  OBVIOUS
<1>3. NoDraft \in Drafts
  BY <1>1, <1>2 DEF Drafts
<1> QED
  BY <1>3, ScriptTyped DEF Types, JobsOK

LEMMA ProceedMoves ==
    ASSUME Types, NEW p \in Operators, job[p].result = "running", NEW step \in Steps,
           Proceed(p, step)
    PROVE  Moves(p)
<1> DEFINE j == [job[p] EXCEPT !.step = step]
<1>1. j \in Jobs
  BY JobTyped DEF Jobs
<1>2. job' = [job EXCEPT ![p] = j]
  BY JobTyped DEF Proceed, Types, JobsOK
<1>3. GoesOn(job[p], j, Len(Script(p)))
  BY JobTyped DEF GoesOn, Jobs
<1>4. RowsGrow /\ UNCHANGED <<installation, lock>>
  BY DEF Proceed, tableVars, RowsGrow, RowsOK, Types, Exists
<1> QED
  BY <1>1, <1>2, <1>3, <1>4 DEF Moves

LEMMA StopMoves ==
    ASSUME Types, NEW p \in Operators, NEW result \in {"refused", "failed", "interrupted"},
           Stop(p, result)
    PROVE  Moves(p)
<1> DEFINE j == [job[p] EXCEPT !.result = result, !.draft = NoDraft]
<1>1. j \in Jobs
  BY JobTyped DEF Jobs
<1>2. job' = [job EXCEPT ![p] = j]
  BY JobTyped DEF Stop, Types, JobsOK
<1>3. GoesOn(job[p], j, Len(Script(p)))
  BY JobTyped DEF GoesOn, Jobs
<1>4. RowsGrow /\ UNCHANGED installation
  BY DEF Stop, tableVars, RowsGrow, RowsOK, Types, Exists
<1>5. lock' = lock \/ (lock = p /\ lock' = None)
  BY DEF Stop, Unlock
<1> QED
  BY <1>1, <1>2, <1>3, <1>4, <1>5 DEF Moves

LEMMA AfterTaskGoesOn ==
    ASSUME Types, NEW p \in Operators, job[p].result = "running"
    PROVE  AfterTask(p) \in Jobs /\ GoesOn(job[p], AfterTask(p), Len(Script(p)))
<1>1. job[p].task \in 1..Len(Script(p)) /\ job[p] \in Jobs /\ NoDraft \in Drafts
  BY JobTyped DEF Types, JobsOK
<1>2. CASE job[p].task < Len(Script(p))
  <2>1. PICK next \in Nat : next = job[p].task + 1
    BY <1>1, JobTyped
  <2> DEFINE j == [job[p] EXCEPT !.task = next, !.step = "start", !.draft = NoDraft]
  <2>2. AfterTask(p) = j
    BY <1>2, <2>1 DEF AfterTask
  <2>3. j \in Jobs
    <3>1. PICK i \in Jobs : i = job[p]
      BY <1>1
    <3>2. [i EXCEPT !.task = next, !.step = "start", !.draft = NoDraft] \in Jobs
      BY <1>1, <2>1, <3>1 DEF Jobs, Steps
    <3> QED
      BY <3>1, <3>2
  <2>4. j.result = job[p].result /\ j.task = next /\ j.step = "start"
    BY <1>1 DEF Jobs
  <2> HIDE DEF j
  <2> QED
    BY <1>2, <2>1, <2>2, <2>3, <2>4 DEF GoesOn
<1>3. CASE ~(job[p].task < Len(Script(p)))
  <2> DEFINE j == [job[p] EXCEPT !.result = "done", !.draft = NoDraft]
  <2>1. AfterTask(p) = j
    BY <1>3 DEF AfterTask
  <2>2. j \in Jobs /\ j.result = "done" /\ j.task = job[p].task
    BY <1>1, JobTyped DEF Jobs
  <2>3. job[p].task = Len(Script(p))
    BY <1>1, <1>3, JobTyped
  <2> HIDE DEF j
  <2> QED
    BY <2>1, <2>2, <2>3 DEF GoesOn
<1> QED
  BY <1>2, <1>3

LEMMA SkipMoves ==
    ASSUME Types, NEW p \in Operators, job[p].result = "running", Skip(p)
    PROVE  Moves(p)
<1>1. job' = [job EXCEPT ![p] = AfterTask(p)]
  BY DEF Skip
<1>2. RowsGrow /\ UNCHANGED installation
  BY DEF Skip, tableVars, RowsGrow, RowsOK, Types, Exists
<1>3. lock' = lock \/ (lock = p /\ lock' = None)
  BY DEF Skip, Unlock
<1> QED
  BY <1>1, <1>2, <1>3, AfterTaskGoesOn DEF Moves

(* A transaction that commits keeps what there was, also at the end of a task.  *)
LEMMA EndMoves ==
    ASSUME Types, NEW p \in Operators, job[p].result = "running",
           NEW new \in [Rows -> Row \cup {None}],
           \A r \in Rows : Exists(r) => new[r] # None,
           rows' = new, UNCHANGED installation, Unlock(p),
           job' = [job EXCEPT ![p] = AfterTask(p)]
    PROVE  Moves(p)
<1>1. RowsGrow
  BY DEF RowsGrow, RowsOK, Exists
<1>2. lock' = lock \/ (lock = p /\ lock' = None)
  BY DEF Unlock
<1> QED
  BY <1>1, <1>2, AfterTaskGoesOn DEF Moves

LEMMA CommitMoves ==
    ASSUME Types, NEW p \in Operators, job[p].result = "running",
           NEW new \in [Rows -> Row \cup {None}], NEW step \in Steps,
           \A r \in Rows : Exists(r) => new[r] # None,
           Commit(p, new, step)
    PROVE  Moves(p)
<1>1. RowsGrow /\ UNCHANGED installation
  BY DEF Commit, Write, RowsGrow, RowsOK, Exists
<1>2. lock' = lock \/ (lock = p /\ lock' = None)
  BY DEF Commit, Unlock
<1>3. CASE step = "end"
  BY <1>3, EndMoves DEF Commit, Write
<1>4. CASE step # "end"
  <2> DEFINE j == [job[p] EXCEPT !.step = step, !.draft = NoDraft]
  <2>1. j \in Jobs
    BY JobTyped DEF Jobs
  <2>2. job' = [job EXCEPT ![p] = j]
    BY <1>4, JobTyped DEF Commit, Types, JobsOK
  <2>3. GoesOn(job[p], j, Len(Script(p)))
    BY JobTyped DEF GoesOn, Jobs
  <2> QED
    BY <1>1, <1>2, <2>1, <2>2, <2>3 DEF Moves
<1> QED
  BY <1>3, <1>4

LEMMA WithTyped ==
    ASSUME NEW d \in Drafts, NEW r \in Rows, NEW is \in Values
    PROVE  /\ With(d, r, is) \in Drafts
           /\ DOMAIN With(d, r, is) = DOMAIN d \cup {r}
<1>1. PICK D \in SUBSET Rows : d \in [D -> Row]
  BY DEF Drafts
<1>2. NewRow(is) \in Row
  BY DEF NewRow, Row
<1>3. With(d, r, is) \in [D \cup {r} -> Row]
  BY <1>1, <1>2 DEF With
<1>4. D \cup {r} \in SUBSET Rows
  OBVIOUS
<1> QED
  BY <1>1, <1>3, <1>4 DEF Drafts

LEMMA InsertedGrows ==
    ASSUME Types, NEW d \in Drafts
    PROVE  /\ Inserted(d) \in [Rows -> Row \cup {None}]
           /\ \A r \in Rows : Exists(r) \/ r \in DOMAIN d => Inserted(d)[r] # None
<1>1. PICK D \in SUBSET Rows : d \in [D -> Row]
  BY DEF Drafts
<1> QED
  BY <1>1 DEF Inserted, Types, RowsOK, Exists

LEMMA InsertMoves ==
    ASSUME Types, NEW p \in Operators, job[p].result = "running",
           NEW r \in Rows, NEW is \in Values, NEW step \in Steps,
           Insert(p, r, is, step)
    PROVE  Moves(p)
<1>1. CASE Exists(r)
  BY <1>1, StopMoves DEF Insert
<1>2. CASE ~Exists(r)
  <2> DEFINE j == [job[p] EXCEPT !.step = step, !.draft = With(job[p].draft, r, is)]
  <2>1. j \in Jobs
    BY JobTyped, WithTyped DEF Jobs
  <2>2. job' = [job EXCEPT ![p] = j]
    BY <1>2, JobTyped DEF Insert, Types, JobsOK
  <2>3. GoesOn(job[p], j, Len(Script(p)))
    BY JobTyped DEF GoesOn, Jobs
  <2>4. RowsGrow /\ UNCHANGED <<installation, lock>>
    BY <1>2 DEF Insert, tableVars, RowsGrow, RowsOK, Types, Exists
  <2> QED
    BY <2>1, <2>2, <2>3, <2>4 DEF Moves
<1> QED
  BY <1>1, <1>2

LEMMA InsertLastMoves ==
    ASSUME Types, NEW p \in Operators, job[p].result = "running",
           NEW r \in Rows, NEW is \in Values, InsertLast(p, r, is)
    PROVE  Moves(p)
<1>1. CASE Exists(r)
  BY <1>1, StopMoves DEF InsertLast
<1>2. CASE ~Exists(r)
  <2>1. PICK d : d = With(job[p].draft, r, is)
    OBVIOUS
  <2>2. d \in Drafts
    BY <2>1, JobTyped, WithTyped DEF Jobs
  <2>3. PICK new : new = Inserted(d)
    OBVIOUS
  <2>4. new \in [Rows -> Row \cup {None}] /\ \A x \in Rows : Exists(x) => new[x] # None
    BY <2>2, <2>3, InsertedGrows
  <2>5. /\ rows' = new /\ UNCHANGED installation /\ Unlock(p)
        /\ job' = [job EXCEPT ![p] = AfterTask(p)]
    BY <1>2, <2>1, <2>3 DEF InsertLast, Commit, Write
  <2> QED
    BY <2>4, <2>5, EndMoves
<1> QED
  BY <1>1, <1>2

(* Every step of a script but the one that takes the lock.                      *)
LEMMA TaskOf ==
    ASSUME Types, NEW p \in Operators, job[p].result = "running"
    PROVE  /\ Task(p).does \in {"bootstrap", "tenant", "import", "request", "buyer",
                                "pilot buyer", "active", "invitation"}
           /\ Task(p).user \in Users
           /\ Task(p).does # "buyer" => Task(p).tenant \in Tenants
           /\ Task(p).does \in {"pilot buyer", "active", "invitation"} =>
                  Task(p).customer \in Customers
BY TaskTyped DEF AnyTask

LEMMA CreateTenantMoves ==
    ASSUME Types, NEW p \in Operators, createTenantAdminAtomically(p)
    PROVE  Moves(p)
<1>1. job[p].result = "running" /\ Task(p).does # "buyer"
  BY DEF createTenantAdminAtomically, Doing
<1>2. PICK t \in Tenants, u \in Users : t = Task(p).tenant /\ u = Task(p).user
  BY <1>1, TaskOf
<1>3. Tenant(t) \in Rows /\ User(u) \in Rows /\ TenantMembership(u, t) \in Rows
  BY <1>2 DEF Rows, TenantMemberships
<1>4. {"expected name", "SELLER_ADMIN"} \subseteq Values
      /\ {"create user", "create membership"} \subseteq Steps
  BY DEF Values, Steps
<1>5. CASE Insert(p, Tenant(Task(p).tenant), "expected name", "create user")
  <2>1. Insert(p, Tenant(t), "expected name", "create user")
    BY <1>2, <1>5 DEF Insert, Exists
  <2> QED
    BY <1>1, <1>3, <1>4, <2>1, InsertMoves
<1>6. CASE Insert(p, User(Task(p).user), "expected name", "create membership")
  <2>1. Insert(p, User(u), "expected name", "create membership")
    BY <1>2, <1>6 DEF Insert, Exists
  <2> QED
    BY <1>1, <1>3, <1>4, <2>1, InsertMoves
<1>7. CASE InsertLast(p, TenantMembership(Task(p).user, Task(p).tenant), "SELLER_ADMIN")
  <2>1. InsertLast(p, TenantMembership(u, t), "SELLER_ADMIN")
    BY <1>2, <1>7 DEF InsertLast, Exists, Commit, Write
  <2> QED
    BY <1>1, <1>3, <1>4, <2>1, InsertLastMoves
<1> QED
  BY <1>5, <1>6, <1>7 DEF createTenantAdminAtomically

Reads(p) ==
    \/ \E step \in Steps : Proceed(p, step)
    \/ \E result \in {"refused", "failed", "interrupted"} : Stop(p, result)
    \/ Skip(p)

LEMMA ReadsMoves ==
    ASSUME Types, NEW p \in Operators, job[p].result = "running", Reads(p)
    PROVE  Moves(p)
BY ProceedMoves, StopMoves, SkipMoves DEF Reads

LEMMA PilotBuyerMoves ==
    ASSUME Types, NEW p \in Operators,
           OnlyTenant(p) \/ PilotCustomer(p) \/ PilotUser(p) \/ PilotMembership(p)
    PROVE  Moves(p)
<1>1. /\ job[p].result = "running" /\ Task(p).does = "pilot buyer"
      /\ Task(p).does \in {"pilot buyer"}
  BY DEF OnlyTenant, PilotCustomer, PilotUser, PilotMembership, Doing
<1>2. PICK u \in Users, k \in Customers : u = Task(p).user /\ k = Task(p).customer
  BY <1>1, TaskOf
<1>3. User(u) \in Rows /\ CustomerMembership(u, k) \in Rows
  BY <1>2 DEF Rows, CustomerMemberships
<1>4. {"expected name", "BUYER_ADMIN"} \subseteq Values /\ "create membership" \in Steps
  BY DEF Values, Steps
<1>5. CASE Insert(p, User(Task(p).user), "expected name", "create membership")
  <2>1. Insert(p, User(u), "expected name", "create membership")
    BY <1>2, <1>5 DEF Insert, Exists
  <2> QED
    BY <1>1, <1>3, <1>4, <2>1, InsertMoves
<1>6. CASE InsertLast(p, CustomerMembership(Task(p).user, Task(p).customer), "BUYER_ADMIN")
  <2>1. InsertLast(p, CustomerMembership(u, k), "BUYER_ADMIN")
    BY <1>2, <1>6 DEF InsertLast, Exists, Commit, Write
  <2> QED
    BY <1>1, <1>3, <1>4, <2>1, InsertLastMoves
<1>7. CASE Reads(p)
  BY <1>1, <1>7, ReadsMoves
<1> QED
  BY <1>5, <1>6, <1>7
  DEF OnlyTenant, PilotCustomer, PilotUser, PilotMembership, Reads, Steps

LEMMA DemoAccountsMoves ==
    ASSUME Types, NEW p \in Operators, reconcileDemoTenant(p) \/ reconcileDemoBuyer(p)
    PROVE  Moves(p)
<1>1. job[p].result = "running"
  BY DEF reconcileDemoTenant, reconcileDemoBuyer, Doing
<1>2. PICK u \in Users : u = Task(p).user
  BY <1>1, TaskOf
<1>3. User(u) \in Rows /\ "expected name" \in Values
  BY <1>2 DEF Rows, Values
<1>4. CASE InsertLast(p, User(Task(p).user), "expected name")
  <2>1. InsertLast(p, User(u), "expected name")
    BY <1>2, <1>4 DEF InsertLast, Exists, Commit, Write
  <2> QED
    BY <1>1, <1>3, <2>1, InsertLastMoves
<1>5. CASE Reads(p)
  BY <1>1, <1>5, ReadsMoves
<1> QED
  BY <1>4, <1>5 DEF reconcileDemoTenant, reconcileDemoBuyer, Reads, Steps

LEMMA ImportMoves ==
    ASSUME Types, NEW p \in Operators, importAllDemoCsvFiles(p)
    PROVE  Moves(p)
<1>1. job[p].result = "running" /\ Task(p).does # "buyer"
  BY DEF importAllDemoCsvFiles, Doing
<1>2. PICK t \in Tenants : t = Task(p).tenant
  BY <1>1, TaskOf
<1>3. {"price lists", "end"} \subseteq Steps
  BY DEF Steps
<1>4. CASE Reads(p)
  BY <1>1, <1>4, ReadsMoves
<1> DEFINE Imported(K) == [r \in Rows |-> IF ~Exists(r) /\ r \in {Customer(k) : k \in K}
                                          THEN NewRow("no price list") ELSE rows[r]]
           customers == {k \in Customers : TenantOf[k] = Task(p).tenant}
<1>5. CASE Commit(p, Imported(customers), "price lists")
  <2>1. PICK new : new = Imported(customers)
    OBVIOUS
  <2>2. NewRow("no price list") \in Row
    BY DEF NewRow, Row, Values
  <2>3. new \in [Rows -> Row \cup {None}] /\ \A r \in Rows : Exists(r) => new[r] # None
    BY <2>1, <2>2 DEF Types, RowsOK, Exists
  <2>4. Commit(p, new, "price lists")
    BY <1>5, <2>1 DEF Commit, Write
  <2> QED
    BY <1>1, <1>3, <2>3, <2>4, CommitMoves
<1> DEFINE Listed(t1) == [rows EXCEPT ![StandardPriceList(t1)] =
                              IF @ = None THEN NewRow("expected name") ELSE @]
<1>6. CASE Commit(p, Listed(Task(p).tenant), "end")
  <2>1. PICK new : new = Listed(t)
    OBVIOUS
  <2>2. NewRow("expected name") \in Row /\ StandardPriceList(t) \in Rows
    <3>1. NewRow("expected name") \in Row
      BY DEF NewRow, Row, Values
    <3>2. StandardPriceList(t) \in Rows
      BY <1>2 DEF Rows
    <3> QED
      BY <3>1, <3>2
  <2>3. new \in [Rows -> Row \cup {None}] /\ \A r \in Rows : Exists(r) => new[r] # None
    BY <2>1, <2>2 DEF Types, RowsOK, Exists
  <2>4. Commit(p, new, "end")
    BY <1>2, <1>6, <2>1 DEF Commit, Write
  <2> QED
    BY <1>1, <1>3, <2>3, <2>4, CommitMoves
<1> QED
  BY <1>4, <1>5, <1>6 DEF importAllDemoCsvFiles, Reads

LEMMA RelationshipMoves ==
    ASSUME Types, NEW p \in Operators,
           \/ Required(p) \/ reconcileRelationshipState(p)
           \/ inviteBuyerForCustomer(p) \/ acceptInvitation(p) \/ requestConnection(p)
    PROVE  Moves(p)
<1>1. job[p].result = "running" /\ Task(p).does \in SetUp
  BY DEF Required, reconcileRelationshipState, inviteBuyerForCustomer, acceptInvitation,
         requestConnection, Doing, SetUp
<1>2. PICK u \in Users, t \in Tenants : u = Task(p).user /\ t = Task(p).tenant
  BY <1>1, TaskOf DEF SetUp
<1>3. PICK r \in Rows : r = Relationship(p)
  BY <1>2 DEF Relationship, Rows
<1>4. NewRow("PENDING by SELLER") \in Row /\ NewRow("PENDING by BUYER") \in Row
      /\ NewRow("ACTIVE") \in Row /\ NewRow("BUYER_ADMIN") \in Row
  BY DEF NewRow, Row, Values
<1>5. CASE Reads(p)
  BY <1>1, <1>5, ReadsMoves
<1>6. ASSUME NEW is \in {"PENDING by SELLER", "PENDING by BUYER"}, NEW step \in Steps,
             NEW held,
             Commit(p, [rows EXCEPT ![Relationship(p)] = IF held THEN @ ELSE NewRow(is)], step)
      PROVE  Moves(p)
  <2>1. PICK new : new = [rows EXCEPT ![r] = IF held THEN @ ELSE NewRow(is)]
    OBVIOUS
  <2>2. NewRow(is) \in Row
    BY <1>4
  <2>3. new \in [Rows -> Row \cup {None}] /\ \A x \in Rows : Exists(x) => new[x] # None
    BY <1>3, <2>1, <2>2 DEF Types, RowsOK, Exists
  <2>4. Commit(p, new, step)
    BY <1>3, <1>6, <2>1 DEF Commit, Write
  <2> QED
    BY <1>1, <2>3, <2>4, CommitMoves
<1>7. ASSUME NEW k \in Customers, NEW s \in Steps,
             Commit(p, [rows EXCEPT ![Relationship(p)] = NewRow("ACTIVE"),
                                    ![CustomerMembership(Task(p).user, k)] =
                                        NewRow("BUYER_ADMIN")], s)
      PROVE  Moves(p)
  <2>1. PICK new : new = [rows EXCEPT ![r] = NewRow("ACTIVE"),
                                      ![CustomerMembership(u, k)] = NewRow("BUYER_ADMIN")]
    OBVIOUS
  <2>2. CustomerMembership(u, k) \in Rows
    BY <1>2 DEF Rows, CustomerMemberships
  <2>3. new \in [Rows -> Row \cup {None}] /\ \A x \in Rows : Exists(x) => new[x] # None
    BY <1>3, <1>4, <2>1, <2>2 DEF Types, RowsOK, Exists
  <2>4. Commit(p, new, s)
    BY <1>2, <1>3, <1>7, <2>1 DEF Commit, Write
  <2> QED
    BY <1>1, <2>3, <2>4, CommitMoves
<1>8. CASE Required(p) \/ reconcileRelationshipState(p)
  BY <1>5, <1>8 DEF Required, reconcileRelationshipState, Reads, Steps
<1>9. CASE inviteBuyerForCustomer(p) /\ ~Reads(p)
  <2>1. PICK held : held = Is(Relationship(p), "PENDING by BUYER")
    OBVIOUS
  <2>2. PICK step \in Steps : step = IF Task(p).does = "active" THEN "accept" ELSE "end"
    BY DEF Steps
  <2>3. Commit(p, [rows EXCEPT ![Relationship(p)] =
                      IF held THEN @ ELSE NewRow("PENDING by SELLER")], step)
    BY <1>9, <2>1, <2>2 DEF inviteBuyerForCustomer, Reads, Commit, Write
  <2> QED
    BY <1>6, <2>2, <2>3
<1>10. CASE acceptInvitation(p) /\ ~Reads(p)
  <2>1. Task(p).does = "active"
    BY <1>10 DEF acceptInvitation, Doing
  <2>2. PICK k \in Customers : k = Task(p).customer
    BY <1>1, <2>1, TaskOf
  <2>3. Commit(p, [rows EXCEPT ![Relationship(p)] = NewRow("ACTIVE"),
                               ![CustomerMembership(Task(p).user, k)] =
                                   NewRow("BUYER_ADMIN")], "price list")
    BY <1>10, <2>2 DEF acceptInvitation, Reads, Commit, Write
  <2> QED
    BY <1>7, <2>2, <2>3 DEF Steps
<1>11. CASE requestConnection(p) /\ ~Reads(p)
  <2>1. PICK held : held = Is(Relationship(p), "PENDING by SELLER")
    OBVIOUS
  <2>2. Commit(p, [rows EXCEPT ![Relationship(p)] =
                      IF held THEN @ ELSE NewRow("PENDING by BUYER")], "end")
    BY <1>11, <2>1 DEF requestConnection, Reads, Commit, Write
  <2> QED
    BY <1>6, <2>2 DEF Steps
<1> QED
  BY <1>5, <1>8, <1>9, <1>10, <1>11

LEMMA PriceListMoves ==
    ASSUME Types, NEW p \in Operators, ensureStandardPriceListAssigned(p)
    PROVE  Moves(p)
<1>1. job[p].result = "running" /\ Task(p).does = "active"
  BY DEF ensureStandardPriceListAssigned, Doing
<1>2. PICK k \in Customers : k = Task(p).customer
  BY <1>1, TaskOf
<1>3. CASE Reads(p)
  BY <1>1, <1>3, ReadsMoves
<1>4. CASE Commit(p, [rows EXCEPT ![Customer(Task(p).customer)].is = "STD"], "end")
           /\ Exists(Customer(k))
  <2>1. PICK new : new = [rows EXCEPT ![Customer(k)].is = "STD"]
    OBVIOUS
  <2>2. Customer(k) \in Rows
    BY <1>2 DEF Rows
  <2>3. PICK row \in Row : row = rows[Customer(k)]
    BY <1>4, <2>2 DEF Types, RowsOK, Exists
  <2>4. [row EXCEPT !.is = "STD"] \in Row
    BY <2>3 DEF Row, Values
  <2>5. new \in [Rows -> Row \cup {None}] /\ \A x \in Rows : Exists(x) => new[x] # None
    BY <2>1, <2>2, <2>3, <2>4 DEF Types, RowsOK, Exists
  <2>6. Commit(p, new, "end")
    BY <1>2, <1>4, <2>1 DEF Commit, Write
  <2> QED
    BY <1>1, <2>5, <2>6, CommitMoves DEF Steps
<1> QED
  BY <1>2, <1>3, <1>4 DEF ensureStandardPriceListAssigned, Reads, Steps

LEMMA StartMoves ==
    ASSUME Types, NEW p \in Operators, Start(p)
    PROVE  Moves(p)
<1>1. PICK i \in Jobs : i = job[p]
  BY JobTyped
<1>2. PICK n \in Nat : n = i.starts + 1
  BY <1>1 DEF Jobs
<1> DEFINE j == [i EXCEPT !.task = 1, !.step = "start", !.result = "running", !.starts = n]
<1>3. j \in Jobs /\ j.result = "running" /\ j.task = 1 /\ j.step = "start"
  BY <1>1, <1>2, ZenonT(60) DEF Jobs, Steps
<1>4. job' = [job EXCEPT ![p] = j]
  BY <1>1, <1>2, JobTyped DEF Start, Types, JobsOK
<1>5. Len(Script(p)) > 0
  BY ScriptTyped DEF Start
<1>6. RowsGrow /\ UNCHANGED <<installation, lock>>
  BY DEF Start, tableVars, RowsGrow, RowsOK, Types, Exists
<1> HIDE DEF j
<1> QED
  BY <1>3, <1>4, <1>5, <1>6 DEF Moves, GoesOn

LEMMA PerformMoves ==
    ASSUME Types, NEW p \in Operators, Perform(p), ~acquireBootstrapLock(p)
    PROVE  Moves(p) /\ job[p].result = "running"
<1>1. CASE Preflight(p) \/ bootstrapPilotTenant(p)
  BY <1>1, ReadsMoves
  DEF Preflight, bootstrapPilotTenant, checkBootstrapPreconditions, Doing, Reads, Steps
<1>2. Moves(p)
  BY <1>1, CreateTenantMoves, PilotBuyerMoves, DemoAccountsMoves, ImportMoves,
     RelationshipMoves, PriceListMoves
  DEF Perform
<1>3. job[p].result = "running"
  BY <1>1
  DEF Perform, Preflight, bootstrapPilotTenant, createTenantAdminAtomically, Doing,
      OnlyTenant, PilotCustomer, PilotUser, PilotMembership, reconcileDemoTenant,
      reconcileDemoBuyer, importAllDemoCsvFiles, Required, reconcileRelationshipState,
      inviteBuyerForCustomer, acceptInvitation, requestConnection,
      ensureStandardPriceListAssigned
<1> QED
  BY <1>2, <1>3

-------------------------------------------------------------------------------
(* Types, by every step.                                                        *)

LEMMA MovesTyped ==
    ASSUME Types, NEW p \in Operators, Moves(p)
    PROVE  Types'
<1>1. PICK j \in Jobs : job' = [job EXCEPT ![p] = j] /\ GoesOn(job[p], j, Len(Script(p)))
  BY DEF Moves
<1>2. job' \in [Operators -> Jobs]
  BY <1>1 DEF Types, JobsOK
<1>3. ASSUME NEW q \in Operators, job'[q].result = "running"
      PROVE  job'[q].task \in 1..Len(Script(q))
  <2>1. CASE q # p
    BY <1>1, <1>3, <2>1 DEF Types, JobsOK
  <2>2. CASE q = p
    <3>1. job'[p] = j
      BY <1>1 DEF Types, JobsOK
    <3>2. j.task \in Nat /\ job[p].task \in Nat
      BY <1>1, JobTyped DEF Jobs
    <3>3. job[p].result = "running" => job[p].task \in 1..Len(Script(p))
      BY DEF Types, JobsOK
    <3> QED
      BY <1>1, <1>3, <2>2, <3>1, <3>2, <3>3, JobTyped DEF GoesOn
  <2> QED
    BY <2>1, <2>2
<1> QED
  BY <1>2, <1>3 DEF Moves, Types, JobsOK, RowsGrow, Script

LEMMA AcquireTyped ==
    ASSUME Types, NEW p \in Operators, acquireBootstrapLock(p), lock = None
    PROVE  /\ Types' /\ RowsGrow /\ UNCHANGED <<installation, rows>>
           /\ lock' = p
           /\ job' = [job EXCEPT ![p].step = "check"]
<1>1. job[p].result = "running"
  BY DEF acquireBootstrapLock, Doing
<1>2. lock' = p /\ job' = [job EXCEPT ![p].step = "check"] /\ UNCHANGED tableVars
  BY DEF acquireBootstrapLock
<1>3. RowsGrow /\ UNCHANGED <<installation, rows>>
  BY <1>2 DEF tableVars, RowsGrow, RowsOK, Types, Exists
<1>4. PICK i \in Jobs : i = job[p]
  BY JobTyped
<1>5. [i EXCEPT !.step = "check"] \in Jobs
  BY DEF Jobs, Steps
<1>6. JobsOK'
  BY <1>2, <1>3, <1>4, <1>5 DEF Types, JobsOK, Script, Jobs
<1> QED
  BY <1>2, <1>3, <1>6 DEF Types, RowsGrow

LEMMA RequestsTyped ==
    ASSUME Types, Requests
    PROVE  Types' /\ RowsGrow /\ UNCHANGED <<installation, job, lock>>
<1>1. UNCHANGED <<job, lock>>
  BY DEF Requests, setupVars
<1>2. CASE UNCHANGED <<installation, rows>>
  BY <1>1, <1>2 DEF Types, RowsGrow, RowsOK, JobsOK, Script, Exists
<1>3. ASSUME NEW r \in Rows, Switch(r)
      PROVE  UNCHANGED installation /\ RowsGrow
  <2>1. PICK row \in Row : row = rows[r]
    BY <1>3 DEF Switch, Types, RowsOK, Exists
  <2>2. PICK on \in BOOLEAN : on = ~rows[r].on
    OBVIOUS
  <2>3. [row EXCEPT !.on = on] \in Row
    BY <2>1, <2>2 DEF Row
  <2>4. rows' = [rows EXCEPT ![r] = [row EXCEPT !.on = on]] /\ UNCHANGED installation
    BY <1>3, <2>1, <2>2 DEF Switch, Write, Types, RowsOK
  <2> QED
    BY <2>3, <2>4 DEF RowsGrow, Types, RowsOK, Exists
<1>4. ASSUME revokeConnectionAction, ~UNCHANGED <<installation, rows>>
      PROVE  UNCHANGED installation /\ RowsGrow
  <2>1. PICK m, r : m = request.of /\ r = RelationshipOf(request.of)
    OBVIOUS
  <2> DEFINE new == [x \in Rows |-> CASE x = r -> [rows[x] EXCEPT !.is = "ENDED"]
                                      [] x = m /\ Exists(m) -> [rows[x] EXCEPT !.on = FALSE]
                                      [] OTHER -> rows[x]]
  <2>2. Exists(r)
    BY <1>4, <2>1 DEF revokeConnectionAction, redirect, Send, tableVars, Is, Exists
  <2>3. rows' = new /\ UNCHANGED installation
    BY <1>4, <2>1 DEF revokeConnectionAction, redirect, Send, Write, tableVars, Exists
  <2>4. ASSUME NEW x \in Rows
        PROVE  new[x] \in Row \cup {None} /\ (Exists(x) => new[x] # None)
    <3>1. CASE Exists(x)
      <4>1. PICK row \in Row : row = rows[x]
        BY <3>1 DEF Types, RowsOK, Exists
      <4>2. [row EXCEPT !.is = "ENDED"] \in Row /\ [row EXCEPT !.on = FALSE] \in Row
        BY <4>1 DEF Row, Values
      <4> QED
        BY <4>1, <4>2
    <3>2. CASE ~Exists(x)
      BY <2>2, <3>2 DEF Exists
    <3> QED
      BY <3>1, <3>2
  <2> QED
    BY <2>3, <2>4 DEF RowsGrow, RowsOK, Exists
<1>5. CASE Browse
  BY <1>2, <1>5 DEF Browse, Visit, signIn, signOut, selectActiveSeller, revokeConnection,
                    redirect, Send
<1>6. CASE Answer /\ ~revokeConnectionAction
  BY <1>2, <1>6
  DEF Answer, ReadUser, ReadTenantMemberships, ReadTenants, ReadCustomerMemberships,
      NextCandidate, ReadCustomer, ReadCustomersTenant, ReadOwnMembership,
      HomePage, requireSellerSession, requireBuyerSession, requirePlatformAdminSession,
      requireAuthenticatedSession, SignInPage, selectActiveSellerAction,
      Valid, Invalid, Resolved, Show, Go, redirect, Send, tableVars
<1>7. ASSUME UNCHANGED installation, RowsGrow
      PROVE  Types'
  BY <1>1, <1>7 DEF Types, RowsGrow, JobsOK, Script
<1> QED
  BY <1>1, <1>2, <1>3, <1>4, <1>5, <1>6, <1>7 DEF Requests, SessionsNext

-------------------------------------------------------------------------------
(* The bootstraps, by every step.                                               *)

Late == {"check", "create tenant", "create user", "create membership"}

(* What p does is not a bootstrap's business.                                   *)
Quiet(p) ==
    /\ \A q \in Operators \ {p} : job'[q] = job[q]
    /\ lock' = lock \/ (lock = p /\ lock' = None)
    /\ UNCHANGED installation /\ RowsGrow
    /\ ~At(p, Late)'
    /\ Past(p)' => Past(p)

LEMMA StillNotEmpty ==
    ASSUME RowsGrow, ~RootStateIsEmpty
    PROVE  ~RootStateIsEmpty'
<1>1. PICK u \in Users, t \in Tenants : Exists(User(u)) \/ Exists(Tenant(t))
  BY DEF RootStateIsEmpty
<1>2. User(u) \in Rows /\ Tenant(t) \in Rows
  BY DEF Rows
<1> QED
  BY <1>1, <1>2 DEF RootStateIsEmpty, RowsGrow

(* The others, whose script p's step leaves alone.                              *)
LEMMA OthersAsTheyWere ==
    ASSUME UNCHANGED installation, NEW q \in Operators, job'[q] = job[q]
    PROVE  /\ Past(q)' <=> Past(q)
           /\ Creating(q)' <=> Creating(q)
           /\ At(q, {"check"})' <=> At(q, {"check"})
           /\ At(q, {"create user", "create membership"})' <=>
                  At(q, {"create user", "create membership"})
BY DEF Past, Creating, At, Bootstraps, Script

LEMMA QuietBootstrap ==
    ASSUME Inv, NEW p \in Operators, Quiet(p)
    PROVE  Bootstrap'
<1>1. ASSUME NEW q \in Operators
      PROVE  /\ Past(q)' => Past(q)
             /\ Creating(q)' => Creating(q) /\ q # p
             /\ At(q, {"check"})' => At(q, {"check"}) /\ q # p
             /\ At(q, {"create user", "create membership"})' =>
                    At(q, {"create user", "create membership"}) /\ q # p
  <2>1. CASE q # p
    BY <2>1, OthersAsTheyWere DEF Quiet
  <2>2. CASE q = p
    BY <2>2 DEF Quiet, Late, Creating, At
  <2> QED
    BY <2>1, <2>2
<1>2. \A q \in Operators : Past(q)' => ~RootStateIsEmpty'
  BY <1>1, StillNotEmpty DEF Inv, Bootstrap, Quiet
<1>3. \A q \in Operators : Creating(q)' \/ At(q, {"check"})' => lock' = q
  BY <1>1 DEF Inv, Bootstrap, Quiet
<1>4. \A q, r \in Operators : Creating(q)' => ~Past(r)'
  BY <1>1 DEF Inv, Bootstrap
<1>5. \A q, r \in Operators : Past(q)' /\ Past(r)' => q = r
  BY <1>1 DEF Inv, Bootstrap
<1>6. ASSUME NEW q \in Operators, At(q, {"create user", "create membership"})'
      PROVE  Tenant(Script(q)'[job'[q].task].tenant) \in DOMAIN job'[q].draft
  <2>1. At(q, {"create user", "create membership"}) /\ q # p
    BY <1>1, <1>6
  <2>2. job'[q] = job[q] /\ Script(q)' = Script(q)
    BY <2>1 DEF Quiet, Script
  <2> QED
    BY <2>1, <2>2 DEF Inv, Bootstrap
<1> QED
  BY <1>2, <1>3, <1>4, <1>5, <1>6 DEF Bootstrap

LEMMA OtherTasksQuiet ==
    ASSUME Inv, NEW p \in Operators, Moves(p),
           job[p].result = "running" => ~Bootstraps(p, job[p].task)
    PROVE  Quiet(p)
<1>1. PICK j \in Jobs : job' = [job EXCEPT ![p] = j] /\ GoesOn(job[p], j, Len(Script(p)))
  BY DEF Moves
<1>2. job'[p] = j /\ \A q \in Operators \ {p} : job'[q] = job[q]
  BY <1>1 DEF Inv, Types, JobsOK
<1>3. Script(p)' = Script(p)
  BY DEF Moves, Script
<1>4. j.task \in Nat /\ job[p].task \in Nat
  BY <1>1, JobTyped DEF Jobs, Inv
<1>5. ~At(p, Late)'
  BY <1>1, <1>2, <1>3 DEF At, Late, GoesOn, Bootstraps
<1>6. ASSUME Past(p)' PROVE Past(p)
  <2>1. PICK i \in 1..Len(Script(p)) :
            /\ Bootstraps(p, i)
            /\ j.result = "done" \/ (j.result = "running" /\ i < j.task)
    BY <1>2, <1>3, <1>6 DEF Past, Bootstraps
  <2>2. job[p].result = "running" /\ i < job[p].task
    BY <1>1, <1>4, <2>1, JobTyped DEF GoesOn, Inv
  <2> QED
    BY <2>1, <2>2 DEF Past
<1> QED
  BY <1>2, <1>5, <1>6 DEF Quiet, Moves

LEMMA StopQuiet ==
    ASSUME Inv, NEW p \in Operators, NEW result \in {"refused", "failed", "interrupted"},
           Stop(p, result)
    PROVE  Quiet(p)
<1>1. job'[p].result = result /\ \A q \in Operators \ {p} : job'[q] = job[q]
  BY JobTyped DEF Stop, Inv, Types, JobsOK, Jobs
<1>2. ~At(p, Late)' /\ ~Past(p)'
  BY <1>1 DEF At, Past
<1>3. RowsGrow /\ UNCHANGED installation
  BY DEF Stop, tableVars, RowsGrow, RowsOK, Inv, Types, Exists
<1>4. lock' = lock \/ (lock = p /\ lock' = None)
  BY DEF Stop, Unlock
<1> QED
  BY <1>1, <1>2, <1>3, <1>4 DEF Quiet

(* p goes on within its bootstrap, which nobody else can be in.                 *)
LEMMA WithinBootstrap ==
    ASSUME Inv, NEW p \in Operators, NEW j \in Jobs,
           job' = [job EXCEPT ![p] = j], j.task = job[p].task,
           job[p].result = "running", j.result = "running", Bootstraps(p, job[p].task),
           lock' = p, UNCHANGED installation, RowsGrow,
           \A q \in Operators \ {p} : ~Creating(q) /\ ~At(q, {"check"}),
           j.step \in {"create tenant", "create user", "create membership"} =>
               \A q \in Operators : ~Past(q),
           j.step \in {"create user", "create membership"} =>
               Tenant(Script(p)[j.task].tenant) \in DOMAIN j.draft
    PROVE  Bootstrap'
<1>1. job'[p] = j /\ \A q \in Operators \ {p} : job'[q] = job[q]
  BY DEF Inv, Types, JobsOK
<1>2. Script(p)' = Script(p)
  BY DEF Script
<1>3. ASSUME NEW q \in Operators
      PROVE  Past(q)' => Past(q)
  <2>1. CASE q # p
    BY <1>1, <2>1, OthersAsTheyWere
  <2>2. CASE q = p
    BY <1>1, <1>2, <2>2 DEF Past, Bootstraps
  <2> QED
    BY <2>1, <2>2
<1>4. ASSUME NEW q \in Operators \ {p}
      PROVE  ~Creating(q)' /\ ~At(q, {"check"})'
             /\ ~At(q, {"create user", "create membership"})'
  BY <1>1, <1>4, OthersAsTheyWere DEF Creating, At
<1>5. \A q \in Operators : Past(q)' => ~RootStateIsEmpty'
  BY <1>3, StillNotEmpty DEF Inv, Bootstrap
<1>6. \A q \in Operators : Creating(q)' \/ At(q, {"check"})' => lock' = q
  BY <1>4
<1>7. \A q, r \in Operators : Creating(q)' => ~Past(r)'
  <2>1. Creating(p)' => j.step \in {"create tenant", "create user", "create membership"}
    BY <1>1 DEF Creating, At
  <2> QED
    BY <1>3, <1>4, <2>1
<1>8. \A q, r \in Operators : Past(q)' /\ Past(r)' => q = r
  BY <1>3 DEF Inv, Bootstrap
<1>9. ASSUME NEW q \in Operators, At(q, {"create user", "create membership"})'
      PROVE  Tenant(Script(q)'[job'[q].task].tenant) \in DOMAIN job'[q].draft
  <2>1. q = p /\ j.step \in {"create user", "create membership"}
    BY <1>1, <1>4, <1>9 DEF At
  <2> QED
    BY <1>1, <1>2, <2>1
<1> QED
  BY <1>5, <1>6, <1>7, <1>8, <1>9 DEF Bootstrap

LEMMA PreflightBootstrap ==
    ASSUME Inv, NEW p \in Operators, Preflight(p)
    PROVE  Bootstrap'
<1>1. CASE Stop(p, "refused")
  BY <1>1, StopQuiet, QuietBootstrap
<1>2. CASE Proceed(p, "lock")
  <2>1. Moves(p)
    BY <1>2, ReadsMoves DEF Inv, Reads, Steps, Preflight, Doing
  <2>2. /\ job'[p].step = "lock" /\ job'[p].task = job[p].task
        /\ job'[p].result = job[p].result
        /\ \A q \in Operators \ {p} : job'[q] = job[q]
    BY <1>2, JobTyped DEF Proceed, Inv, Types, JobsOK, Jobs
  <2>3. ~At(p, Late)'
    BY <2>2 DEF At, Late
  <2>4. Past(p)' => Past(p)
    BY <2>1, <2>2 DEF Moves, Past, Bootstraps, Script
  <2> QED
    BY <2>1, <2>2, <2>3, <2>4, QuietBootstrap DEF Quiet, Moves
<1> QED
  BY <1>1, <1>2 DEF Preflight, checkBootstrapPreconditions

LEMMA AcquireBootstrap ==
    ASSUME Inv, NEW p \in Operators, acquireBootstrapLock(p)
    PROVE  Types' /\ Bootstrap'
<1>1. CASE Stop(p, "failed")
  BY <1>1, StopQuiet, QuietBootstrap, StopMoves, MovesTyped
  DEF acquireBootstrapLock, Doing, Inv
<1>2. CASE lock = None
  <2>1. /\ Types' /\ RowsGrow /\ UNCHANGED installation /\ lock' = p
        /\ job' = [job EXCEPT ![p].step = "check"]
    BY <1>2, AcquireTyped DEF Inv
  <2>2. job[p].result = "running" /\ Bootstraps(p, job[p].task)
    BY DEF acquireBootstrapLock, Doing, Task, Bootstraps
  <2>3. PICK i \in Jobs : i = job[p]
    BY JobTyped DEF Inv
  <2> DEFINE j == [i EXCEPT !.step = "check"]
  <2>4. j \in Jobs /\ j.task = i.task /\ j.result = i.result /\ j.step = "check"
    BY <2>3 DEF Jobs, Steps
  <2>5. job' = [job EXCEPT ![p] = j]
    BY <2>1, <2>3
  <2>6. \A q \in Operators : ~Creating(q) /\ ~At(q, {"check"})
    BY <1>2, OperatorsAssumption DEF Inv, Bootstrap
  <2> HIDE DEF j
  <2>7. Bootstrap'
    BY <2>1, <2>2, <2>3, <2>4, <2>5, <2>6, WithinBootstrap
  <2> QED
    BY <2>1, <2>7
<1> QED
  BY <1>1, <1>2 DEF acquireBootstrapLock

(* Of the holder of the lock.                                                   *)
LEMMA Alone ==
    ASSUME Inv, NEW p \in Operators, Creating(p) \/ At(p, {"check"})
    PROVE  lock = p /\ \A q \in Operators \ {p} : ~Creating(q) /\ ~At(q, {"check"})
BY DEF Inv, Bootstrap

LEMMA CheckBootstrap ==
    ASSUME Inv, NEW p \in Operators, bootstrapPilotTenant(p)
    PROVE  Bootstrap'
<1>1. At(p, {"check"})
  BY DEF bootstrapPilotTenant, Doing, Task, At, Bootstraps
<1>2. CASE Stop(p, "refused")
  BY <1>2, StopQuiet, QuietBootstrap
<1>3. CASE RootStateIsEmpty /\ Proceed(p, "create tenant")
  <2>1. Moves(p)
    BY <1>1, <1>3, ProceedMoves DEF Inv, Steps, At
  <2>2. PICK i \in Jobs : i = job[p]
    BY JobTyped DEF Inv
  <2> DEFINE j == [i EXCEPT !.step = "create tenant"]
  <2>3. /\ j \in Jobs /\ j.task = i.task /\ j.result = i.result
        /\ j.step = "create tenant"
    BY <2>2 DEF Jobs, Steps
  <2>4. job' = [job EXCEPT ![p] = j]
    BY <1>3, <2>2 DEF Proceed, Inv, Types, JobsOK
  <2>5. \A q \in Operators : ~Past(q)
    BY <1>3 DEF Inv, Bootstrap
  <2>6. lock' = p
    BY <1>1, <1>3, Alone DEF Proceed
  <2> HIDE DEF j
  <2> QED
    BY <1>1, <2>1, <2>2, <2>3, <2>4, <2>5, <2>6, Alone, WithinBootstrap DEF Moves, At
<1> QED
  BY <1>2, <1>3 DEF bootstrapPilotTenant, checkBootstrapPreconditions

LEMMA InsertBootstrap ==
    ASSUME Inv, NEW p \in Operators, Creating(p), NEW r \in Rows, NEW is \in Values,
           NEW step \in {"create user", "create membership"},
           Insert(p, r, is, step),
           \/ r = Tenant(Script(p)[job[p].task].tenant)
           \/ At(p, {"create user", "create membership"})
    PROVE  Bootstrap'
<1>1. CASE Stop(p, "failed")
  BY <1>1, StopQuiet, QuietBootstrap
<1>2. CASE ~Exists(r)
  <2>1. PICK i \in Jobs : i = job[p]
    BY JobTyped DEF Inv
  <2>2. PICK d \in Drafts : d = With(i.draft, r, is) /\ DOMAIN d = DOMAIN i.draft \cup {r}
    <3>1. PICK e \in Drafts : e = i.draft
      BY <2>1 DEF Jobs
    <3>2. With(e, r, is) \in Drafts /\ DOMAIN With(e, r, is) = DOMAIN e \cup {r}
      BY <3>1, WithTyped
    <3> QED
      BY <3>1, <3>2
  <2> DEFINE j == [i EXCEPT !.step = step, !.draft = d]
  <2>3. /\ j \in Jobs /\ j.task = i.task /\ j.result = i.result /\ j.step = step
        /\ j.draft = d
    BY <2>1, <2>2, ZenonT(60) DEF Jobs, Steps
  <2>4. job' = [job EXCEPT ![p] = j]
    BY <1>2, <2>1, <2>2 DEF Insert, Inv, Types, JobsOK
  <2>5. UNCHANGED <<tableVars, lock>>
    BY <1>2 DEF Insert
  <2>6. RowsGrow /\ UNCHANGED installation /\ lock' = p
    BY <2>5, Alone DEF tableVars, RowsGrow, RowsOK, Inv, Types, Exists
  <2>7. \A q \in Operators : ~Past(q)
    BY DEF Inv, Bootstrap
  <2>8. Tenant(Script(p)[i.task].tenant) \in DOMAIN d
    BY <2>1, <2>2 DEF Inv, Bootstrap
  <2>9. i.result = "running" /\ Bootstraps(p, i.task)
    BY <2>1 DEF Creating, At
  <2> HIDE DEF j
  <2> QED
    BY <2>1, <2>3, <2>4, <2>6, <2>7, <2>8, <2>9, Alone, WithinBootstrap
<1> QED
  BY <1>1, <1>2 DEF Insert

LEMMA CommitBootstrap ==
    ASSUME Inv, NEW p \in Operators, At(p, {"create membership"}),
           NEW r \in Rows, NEW is \in Values, InsertLast(p, r, is)
    PROVE  Bootstrap'
<1>1. CASE Stop(p, "failed")
  BY <1>1, StopQuiet, QuietBootstrap
<1>2. CASE ~Exists(r)
  <2>1. /\ job[p].result = "running" /\ Bootstraps(p, job[p].task) /\ Creating(p)
        /\ job[p].task \in 1..Len(Script(p))
    BY DEF At, Creating, Inv, Types, JobsOK
  <2>2. Moves(p)
    BY <2>1, InsertLastMoves DEF Inv
  <2>3. PICK t : t = Tenant(Script(p)[job[p].task].tenant)
    OBVIOUS
  <2>4. t \in DOMAIN job[p].draft
    BY <2>3 DEF Inv, Bootstrap, At
  <2>5. PICK e \in Drafts : e = job[p].draft
    BY JobTyped DEF Jobs, Inv
  <2>6. PICK d \in Drafts : d = With(e, r, is) /\ t \in DOMAIN d
    <3>1. With(e, r, is) \in Drafts /\ DOMAIN With(e, r, is) = DOMAIN e \cup {r}
      BY <2>5, WithTyped
    <3> QED
      BY <2>4, <2>5, <3>1
  <2>7. rows' = Inserted(d)
    BY <1>2, <2>5, <2>6 DEF InsertLast, Commit, Write
  <2>8. t \in Rows
    BY <2>6 DEF Drafts
  <2>9. Exists(t)'
    BY <2>6, <2>7, <2>8, InsertedGrows DEF Exists, Inv
  <2>10. ~RootStateIsEmpty'
    <3>1. Script(p)[job[p].task] \in AnyTask
      BY <2>1, TaskTyped DEF Task, Inv
    <3>2. Script(p)[job[p].task].tenant \in Tenants
      BY <2>1, <3>1 DEF AnyTask, Bootstraps
    <3>3. \E u \in Users : u = u
      BY <2>1, <3>1 DEF AnyTask, Bootstraps
    <3> QED
      BY <2>3, <2>9, <3>2, <3>3 DEF RootStateIsEmpty
  <2>11. PICK j \in Jobs : job' = [job EXCEPT ![p] = j] /\ j = AfterTask(p)
    BY <1>2, <2>1, AfterTaskGoesOn DEF InsertLast, Commit, Inv
  <2>12. job'[p] = j /\ \A q \in Operators \ {p} : job'[q] = job[q]
    BY <2>11 DEF Inv, Types, JobsOK
  <2>13. j.step = "start" \/ j.result = "done"
    BY <2>1, <2>11, JobTyped DEF AfterTask, Inv, Jobs
  <2>14. ~Creating(p)' /\ ~At(p, {"check"})' /\ ~At(p, {"create user", "create membership"})'
    BY <2>12, <2>13 DEF Creating, At
  <2>15. ASSUME NEW q \in Operators \ {p}
         PROVE  /\ ~Creating(q)' /\ ~At(q, {"check"})' /\ ~Past(q)'
                /\ ~At(q, {"create user", "create membership"})'
    <3>1. ~Creating(q) /\ ~At(q, {"check"}) /\ ~Past(q)
      BY <2>1, Alone DEF Inv, Bootstrap
    <3> QED
      BY <2>2, <2>12, <3>1, OthersAsTheyWere DEF Moves, Creating, At
  <2> QED
    BY <2>10, <2>14, <2>15 DEF Bootstrap
<1> QED
  BY <1>1, <1>2 DEF InsertLast

LEMMA CreateBootstrap ==
    ASSUME Inv, NEW p \in Operators, createTenantAdminAtomically(p)
    PROVE  Bootstrap'
<1>1. job[p].result = "running" /\ Task(p).does # "buyer"
  BY DEF createTenantAdminAtomically, Doing
<1>2. CASE ~Bootstraps(p, job[p].task)
  BY <1>2, CreateTenantMoves, OtherTasksQuiet, QuietBootstrap DEF Inv
<1>3. CASE Bootstraps(p, job[p].task)
  <2>1. PICK t \in Tenants, u \in Users : t = Task(p).tenant /\ u = Task(p).user
    BY <1>1, TaskOf DEF Inv
  <2>2. Tenant(t) \in Rows /\ User(u) \in Rows /\ TenantMembership(u, t) \in Rows
    BY <2>1 DEF Rows, TenantMemberships
  <2>3. {"expected name", "SELLER_ADMIN"} \subseteq Values
    BY DEF Values
  <2>4. Tenant(t) = Tenant(Script(p)[job[p].task].tenant)
    BY <2>1 DEF Task
  <2>5. CASE job[p].step = "create tenant"
    <3>1. Insert(p, Tenant(t), "expected name", "create user")
      BY <2>1, <2>5 DEF createTenantAdminAtomically, Doing, Insert, Exists
    <3>2. Creating(p)
      BY <1>1, <1>3, <2>5 DEF Creating, At
    <3> QED
      BY <2>2, <2>3, <2>4, <3>1, <3>2, InsertBootstrap
  <2>6. CASE job[p].step = "create user"
    <3>1. Insert(p, User(u), "expected name", "create membership")
      BY <2>1, <2>6 DEF createTenantAdminAtomically, Doing, Insert, Exists
    <3>2. Creating(p) /\ At(p, {"create user", "create membership"})
      BY <1>1, <1>3, <2>6 DEF Creating, At
    <3> QED
      BY <2>2, <2>3, <3>1, <3>2, InsertBootstrap
  <2>7. CASE job[p].step = "create membership"
    <3>1. InsertLast(p, TenantMembership(u, t), "SELLER_ADMIN")
      BY <2>1, <2>7
      DEF createTenantAdminAtomically, Doing, InsertLast, Exists, Commit, Write
    <3>2. At(p, {"create membership"})
      BY <1>1, <1>3, <2>7 DEF At
    <3> QED
      BY <2>2, <2>3, <3>1, <3>2, CommitBootstrap
  <2> QED
    BY <2>5, <2>6, <2>7 DEF createTenantAdminAtomically, Doing
<1> QED
  BY <1>2, <1>3

LEMMA ScriptsInv ==
    ASSUME Inv, NEW p \in Operators, Start(p) \/ Interrupt(p) \/ Perform(p)
    PROVE  Inv'
<1>1. CASE Start(p)
  <2>1. Moves(p) /\ job[p].result # "running"
    BY <1>1, StartMoves DEF Inv, Start
  <2> QED
    BY <2>1, MovesTyped, OtherTasksQuiet, QuietBootstrap DEF Inv
<1>2. CASE Interrupt(p)
  BY <1>2, StopMoves, MovesTyped, StopQuiet, QuietBootstrap DEF Inv, Interrupt
<1>3. CASE acquireBootstrapLock(p)
  BY <1>3, AcquireBootstrap DEF Inv
<1>4. CASE Perform(p) /\ ~acquireBootstrapLock(p)
  <2>1. Moves(p) /\ job[p].result = "running" /\ Types'
    BY <1>4, PerformMoves, MovesTyped DEF Inv
  <2>2. CASE ~Bootstraps(p, job[p].task)
    BY <2>1, <2>2, OtherTasksQuiet, QuietBootstrap DEF Inv
  <2>3. CASE Bootstraps(p, job[p].task)
    <3>1. Preflight(p) \/ bootstrapPilotTenant(p) \/ createTenantAdminAtomically(p)
      BY <1>4, <2>3
      DEF Perform, Doing, Bootstraps, Task,
          OnlyTenant, PilotCustomer, PilotUser, PilotMembership, reconcileDemoTenant,
          reconcileDemoBuyer, importAllDemoCsvFiles, Required, reconcileRelationshipState,
          inviteBuyerForCustomer, acceptInvitation, requestConnection,
          ensureStandardPriceListAssigned, SetUp
    <3> QED
      BY <2>1, <3>1, PreflightBootstrap, CheckBootstrap, CreateBootstrap DEF Inv
  <2> QED
    BY <2>2, <2>3
<1> QED
  BY <1>1, <1>2, <1>3, <1>4 DEF Perform

LEMMA UnmovedBootstrap ==
    ASSUME Bootstrap, RowsGrow, UNCHANGED <<installation, job, lock>>
    PROVE  Bootstrap'
<1>1. ASSUME NEW q \in Operators
      PROVE  /\ Past(q)' <=> Past(q)
             /\ Creating(q)' <=> Creating(q)
             /\ At(q, {"check"})' <=> At(q, {"check"})
             /\ At(q, {"create user", "create membership"})' <=>
                    At(q, {"create user", "create membership"})
  BY OthersAsTheyWere
<1>2. \A q \in Operators : Past(q)' => ~RootStateIsEmpty'
  BY <1>1, StillNotEmpty DEF Bootstrap
<1>3. \A q \in Operators : Creating(q)' \/ At(q, {"check"})' => lock' = q
  BY <1>1 DEF Bootstrap
<1>4. \A q \in Operators : At(q, {"create user", "create membership"})' =>
          Tenant(Script(q)'[job'[q].task].tenant) \in DOMAIN job'[q].draft
  BY <1>1 DEF Bootstrap, Script
<1> QED
  BY <1>1, <1>2, <1>3, <1>4 DEF Bootstrap

LEMMA InitInv == Init => Inv
<1> SUFFICES ASSUME Init PROVE Inv
  OBVIOUS
<1>1. installation \in Installations
  BY DEF Init
<1>2. RowsOK
  BY <1>1 DEF Init, RowsOK
<1>3. NoDraft \in Drafts
  <2>1. NoDraft \in [{} -> Row] /\ {} \in SUBSET Rows
    BY DEF NoDraft
  <2> QED
    BY <2>1 DEF Drafts
<1>4. job = [p \in Operators |-> [task |-> 1, step |-> "start", draft |-> NoDraft,
                                 result |-> "ready", starts |-> 0]]
  BY DEF Init, SetupInit
<1>5. JobsOK
  BY <1>3, <1>4 DEF JobsOK, Jobs, Steps
<1>6. Bootstrap
  BY <1>4 DEF Bootstrap, Past, Creating, At
<1> QED
  BY <1>1, <1>2, <1>5, <1>6 DEF Inv, Types

LEMMA NextInv == Inv /\ [Next]_vars => Inv'
<1> SUFFICES ASSUME Inv, [Next]_vars PROVE Inv'
  OBVIOUS
<1>1. CASE Scripts
  BY <1>1, ScriptsInv DEF Scripts, SetupNext
<1>2. CASE Requests
  BY <1>2, RequestsTyped, UnmovedBootstrap DEF Inv
<1>3. CASE UNCHANGED vars
  <2>1. RowsGrow /\ UNCHANGED <<installation, job, lock>>
    BY <1>3 DEF vars, tableVars, setupVars, RowsGrow, RowsOK, Inv, Types, Exists
  <2>2. Types'
    BY <2>1 DEF Inv, Types, RowsGrow, JobsOK, Script
  <2> QED
    BY <2>1, <2>2, UnmovedBootstrap DEF Inv
<1> QED
  BY <1>1, <1>2, <1>3 DEF Next

LEMMA InvOneBootstrap == Inv => OneBootstrap
<1> SUFFICES ASSUME Inv PROVE OneBootstrap
  OBVIOUS
<1> DEFINE S == {p \in Operators :
                    Finished(p) /\ \E task \in Tasks(p) : task.does = "bootstrap"}
<1>1. \A p \in S : Past(p)
  BY DEF Past, Finished, Tasks, Bootstraps
<1>2. \A p, q \in S : p = q
  BY <1>1 DEF Inv, Bootstrap
<1>3. OneBootstrap <=> Cardinality(S) <= 1
  BY DEF OneBootstrap
<1> HIDE DEF S
<1>4. CASE S = {}
  <2>1. Cardinality(S) = 0
    BY <1>4, FS_EmptySet
  <2> QED
    BY <1>3, <2>1
<1>5. CASE S # {}
  <2>1. PICK p : S = {p}
    BY <1>2, <1>5
  <2>2. Cardinality(S) = 1
    BY <2>1, FS_Singleton
  <2> QED
    BY <1>3, <2>2
<1> QED
  BY <1>4, <1>5

(* However many operators start bootstraps, with whatever names, beside any     *)
(* other scripts and requests, interrupted anywhere, one bootstrap at most      *)
(* succeeds (bootstrap-service.ts:100): the advisory lock orders them, and      *)
(* nothing deletes what the second check looks for.                             *)
THEOREM OneBootstrapHolds == Spec => []OneBootstrap
<1>1. Init => Inv
  BY InitInv
<1>2. Inv /\ [Next]_vars => Inv'
  BY NextInv
<1>3. Inv => OneBootstrap
  BY InvOneBootstrap
<1> QED
  BY <1>1, <1>2, <1>3, PTL DEF Spec

-------------------------------------------------------------------------------
(* What a script finds and leaves behind.                                       *)

Relation(x) == TradingRelationship(x.user, x.tenant)
Membership(x) == CustomerMembership(x.user, x.customer)

Steady == switches = 0 /\ BeganOn
Firm == Steady /\ OneRelationship
Sound == Undisturbed /\ OneAdmin /\ InOrder

(* What a transaction that creates a tenant or a user has inserted so far.      *)
DraftFits(x, j) ==
    /\ \A r \in DOMAIN j.draft : j.draft[r] = NewRow("expected name")
    /\ j.result # "running" => DOMAIN j.draft = {}
    /\ j.result = "running" =>
        /\ DOMAIN j.draft \subseteq {Tenant(x.tenant), User(x.user)}
        /\ Tenant(x.tenant) \in DOMAIN j.draft => x.does \in Creates
        /\ x.does \in Creates /\ j.step \in {"create user", "create membership"} =>
               Tenant(x.tenant) \in DOMAIN j.draft
        /\ x.does \in Creates /\ j.step = "create membership" =>
               User(x.user) \in DOMAIN j.draft

(* What it read of the accounts before it came to its step: nothing deletes it. *)
Found(x, j) ==
    j.result = "running" =>
        /\ x.does = "tenant" /\ j.step \in {"admin", "membership"} =>
               Exists(Tenant(x.tenant))
        /\ x.does \in {"tenant", "pilot buyer"} /\ j.step = "membership" =>
               Exists(User(x.user))
        /\ x.does = "pilot buyer" /\ j.step = "create membership" =>
               Exists(User(x.user)) \/ User(x.user) \in DOMAIN j.draft

(* And of the relationship that it sets up: only scripts that are after the     *)
(* same state change it.                                                        *)
Related(x, j) ==
    j.result = "running" =>
        /\ x.does = "active" /\ j.step \in {"price list", "assignment", "assign"} =>
               Is(Relation(x), "ACTIVE") /\ Exists(Membership(x))
        /\ x.does = "invitation" /\ j.step = "invite" => ~Is(Relation(x), "PENDING by BUYER")
        /\ x.does = "request" /\ j.step = "request" => ~Is(Relation(x), "PENDING by SELLER")

Expected(x) == x.does \in SetUp => OneRelationship

(* The i-th task of p is done.                                                  *)
Passed(p, i) ==
    job[p].result = "done" \/ (job[p].result = "running" /\ i < job[p].task)

RefusedFor == {"tenant", "buyer", "import"}

Progress ==
    /\ switches \in Nat
    /\ \A p \in Operators : DraftFits(Task(p), job[p]) /\ Found(Task(p), job[p])
    /\ Steady => \A r \in Rows : Exists(r) => On(r)
    /\ Steady => \A p \in Operators : \A i \in 1..Len(Script(p)) :
           Passed(p, i) /\ Expected(Script(p)[i]) => Met(Script(p)[i])
    /\ Firm => \A x \in Wanted :
           x.does = "active" /\ Is(Relation(x), "ACTIVE") => Exists(Membership(x))
    /\ Firm => \A p \in Operators : Related(Task(p), job[p])
    /\ Undisturbed /\ OneAdmin => \A x \in Wanted :
           x.does \in Creates /\ Exists(Tenant(x.tenant)) =>
               /\ Exists(User(x.user))
               /\ Is(TenantMembership(x.user, x.tenant), "SELLER_ADMIN")
    /\ Undisturbed => \A r \in Rows :
           r[1] \in {"User", "Tenant"} /\ Exists(r) => Is(r, "expected name")
    /\ Sound => \A p \in Operators :
           ~(job[p].result = "refused" /\ Task(p).does \in RefusedFor)

-------------------------------------------------------------------------------
(* How a step of a script changes the rows, whichever it is.                    *)

Changes(r, old, new) ==
    \/ new = old
    \/ r[1] \in {"User", "Tenant"} /\ new = NewRow("expected name")
    \/ r[1] = "TenantMembership" /\ old = None /\ new = NewRow("SELLER_ADMIN")
    \/ r[1] = "PriceList" /\ old = None /\ new = NewRow("expected name")
    \/ r[1] = "CustomerMembership" /\ new = NewRow("BUYER_ADMIN")
    \/ r[1] = "Customer" /\ old = None /\ new = NewRow("no price list")
    \/ r[1] = "Customer" /\ old # None /\ new = [old EXCEPT !.is = "STD"]
    \/ /\ r[1] = "TradingRelationship"
       /\ ~(old # None /\ old.is = "ACTIVE")
       /\ new \in {NewRow("PENDING by SELLER"), NewRow("PENDING by BUYER"), NewRow("ACTIVE")}

(* A tenant comes with its admin.                                               *)
TenantsChange(x) ==
    \A t \in Tenants :
        \/ rows'[Tenant(t)] = rows[Tenant(t)]
        \/ /\ t = x.tenant /\ x.does \in Creates
           /\ rows'[User(x.user)] # None
           /\ rows'[TenantMembership(x.user, x.tenant)] = NewRow("SELLER_ADMIN")

RelationsChange(x) ==
    \A u \in Users, t \in Tenants :
        LET r == TradingRelationship(u, t)
        IN  \/ rows'[r] = rows[r]
            \/ /\ u = x.user /\ t = x.tenant
               /\ \/ /\ x.does \in {"active", "invitation"}
                     /\ ~Is(r, "PENDING by BUYER")
                     /\ rows'[r] = NewRow("PENDING by SELLER")
                  \/ /\ x.does = "active"
                     /\ rows'[r] = NewRow("ACTIVE")
                     /\ rows'[Membership(x)] # None
                  \/ /\ x.does = "request"
                     /\ ~Is(r, "PENDING by SELLER")
                     /\ rows'[r] = NewRow("PENDING by BUYER")

RowsStep(x) ==
    /\ RowsGrow
    /\ \A r \in Rows : Changes(r, rows[r], rows'[r])
    /\ TenantsChange(x)
    /\ RelationsChange(x)

(* How it changes the job.                                                      *)
Stays(p, x, j) ==
    /\ job[p].result = "running" /\ j.result = "running" /\ j.task = job[p].task
    /\ DraftFits(x, j) /\ Found(x, j)'
    /\ Firm => Related(x, j)'
Ends(p, x, j) ==
    /\ job[p].result = "running" /\ DOMAIN j.draft = {}
    /\ \/ j.result = "done" /\ j.task = job[p].task /\ j.task = Len(Script(p))
       \/ j.result = "running" /\ j.step = "start" /\ j.task = job[p].task + 1
    /\ Steady /\ Expected(x) => Met(x)'
Stops(p, x, j) ==
    /\ DOMAIN j.draft = {} /\ j.task = job[p].task
    /\ j.result \in {"refused", "failed", "interrupted"}
    /\ Sound /\ j.result = "refused" => x.does \notin RefusedFor
Starts(j) ==
    DOMAIN j.draft = {} /\ j.result = "running" /\ j.step = "start" /\ j.task = 1

JobStep(p, x) ==
    \E j \in Jobs :
        /\ job' = [job EXCEPT ![p] = j]
        /\ Stays(p, x, j) \/ Ends(p, x, j) \/ Stops(p, x, j) \/ Starts(j)

Effect(p, x) == UNCHANGED installation /\ JobStep(p, x) /\ RowsStep(x)

LEMMA NoDraftEmpty == DOMAIN NoDraft = {}
BY DEF NoDraft

LEMMA SameRows ==
    ASSUME Types, UNCHANGED rows, NEW x
    PROVE  RowsStep(x)
<1>1. RowsGrow
  BY DEF RowsGrow, RowsOK, Types, Exists
<1> QED
  BY <1>1 DEF RowsStep, Changes, TenantsChange, RelationsChange

LEMMA ProceedEffect ==
    ASSUME Types, NEW p \in Operators, job[p].result = "running", NEW step \in Steps,
           Proceed(p, step), NEW x,
           \A j \in Jobs : j.result = "running" /\ j.step = step /\ j.draft = job[p].draft =>
               DraftFits(x, j) /\ Found(x, j) /\ (Firm => Related(x, j))
    PROVE  Effect(p, x)
<1>1. PICK i \in Jobs : i = job[p]
  BY JobTyped
<1> DEFINE j == [i EXCEPT !.step = step]
<1>2. /\ j \in Jobs /\ j.result = "running" /\ j.task = i.task /\ j.step = step
      /\ j.draft = i.draft
  BY <1>1 DEF Jobs
<1>3. job' = [job EXCEPT ![p] = j]
  BY <1>1 DEF Proceed, Types, JobsOK
<1>4. UNCHANGED <<installation, rows>>
  BY DEF Proceed, tableVars
<1> HIDE DEF j
<1>5. DraftFits(x, j) /\ Found(x, j) /\ (Firm => Related(x, j))
  BY <1>1, <1>2
<1>6. Found(x, j)' /\ (Firm => Related(x, j)')
  BY <1>4, <1>5 DEF Found, Related, Exists, Is
<1>7. Stays(p, x, j)
  BY <1>1, <1>2, <1>5, <1>6 DEF Stays
<1> QED
  BY <1>2, <1>3, <1>4, <1>7, SameRows DEF Effect, JobStep

LEMMA StopEffect ==
    ASSUME Types, NEW p \in Operators, NEW result \in {"refused", "failed", "interrupted"},
           Stop(p, result), NEW x,
           Sound /\ result = "refused" => x.does \notin RefusedFor
    PROVE  Effect(p, x)
<1>1. PICK i \in Jobs : i = job[p]
  BY JobTyped
<1> DEFINE j == [i EXCEPT !.result = result, !.draft = NoDraft]
<1>2. j \in Jobs /\ j.result = result /\ j.task = i.task /\ j.draft = NoDraft
  BY <1>1, JobTyped DEF Jobs
<1>3. job' = [job EXCEPT ![p] = j]
  BY <1>1 DEF Stop, Types, JobsOK
<1>4. UNCHANGED <<installation, rows>>
  BY DEF Stop, tableVars
<1> HIDE DEF j
<1>5. Stops(p, x, j)
  BY <1>1, <1>2, NoDraftEmpty DEF Stops
<1> QED
  BY <1>2, <1>3, <1>4, <1>5, SameRows DEF Effect, JobStep

(* The end of a task, which is done.                                            *)
LEMMA EndJob ==
    ASSUME Types, NEW p \in Operators, job[p].result = "running", NEW x,
           job' = [job EXCEPT ![p] = AfterTask(p)],
           Steady /\ Expected(x) => Met(x)'
    PROVE  JobStep(p, x)
<1>1. job[p].task \in 1..Len(Script(p)) /\ job[p] \in Jobs /\ NoDraft \in Drafts
  BY JobTyped DEF Types, JobsOK
<1>2. PICK j \in Jobs : j = AfterTask(p)
  BY AfterTaskGoesOn
<1>3. CASE job[p].task < Len(Script(p))
  <2>1. j.result = "running" /\ j.step = "start" /\ j.task = job[p].task + 1
        /\ j.draft = NoDraft
    BY <1>1, <1>2, <1>3 DEF AfterTask, Jobs
  <2>2. Ends(p, x, j)
    BY <2>1, NoDraftEmpty DEF Ends
  <2> QED
    BY <1>2, <2>2 DEF JobStep
<1>4. CASE ~(job[p].task < Len(Script(p)))
  <2>1. j.result = "done" /\ j.task = job[p].task /\ j.draft = NoDraft
    BY <1>1, <1>2, <1>4 DEF AfterTask, Jobs
  <2>2. j.task = Len(Script(p))
    BY <1>1, <1>4, <2>1, JobTyped
  <2>3. Ends(p, x, j)
    BY <2>1, <2>2, NoDraftEmpty DEF Ends
  <2> QED
    BY <1>2, <2>3 DEF JobStep
<1> QED
  BY <1>3, <1>4

LEMMA SkipEffect ==
    ASSUME Types, NEW p \in Operators, job[p].result = "running", NEW x, Skip(p),
           Steady /\ Expected(x) => Met(x)'
    PROVE  Effect(p, x)
<1>1. UNCHANGED <<installation, rows>> /\ job' = [job EXCEPT ![p] = AfterTask(p)]
  BY DEF Skip, tableVars
<1> QED
  BY <1>1, EndJob, SameRows DEF Effect

LEMMA MetSame ==
    ASSUME UNCHANGED rows, NEW x
    PROVE  Met(x)' <=> Met(x)
BY DEF Met, Has, On, Is, Exists

LEMMA Tags ==
    /\ \A u : User(u)[1] = "User"
    /\ \A t : Tenant(t)[1] = "Tenant"
    /\ \A k : Customer(k)[1] = "Customer"
    /\ \A t : StandardPriceList(t)[1] = "PriceList"
    /\ \A u, t : TenantMembership(u, t)[1] = "TenantMembership"
    /\ \A u, k : CustomerMembership(u, k)[1] = "CustomerMembership"
    /\ \A u, t : TradingRelationship(u, t)[1] = "TradingRelationship"
BY DEF User, Tenant, Customer, StandardPriceList, TenantMembership, CustomerMembership,
       TradingRelationship

LEMMA RelationshipRow ==
    /\ \A u \in Users, t \in Tenants : TradingRelationship(u, t) \in Rows
    /\ \A t \in Tenants : Tenant(t) \in Rows
BY DEF Rows

LEMMA SomeRow ==
    \A is \in Values : /\ NewRow(is) \in Row /\ NewRow(is) # None
                      /\ NewRow(is).on = TRUE /\ NewRow(is).is = is
<1>1. \A is \in Values : NewRow(is) \in Row
  BY DEF NewRow, Row
<1>2. \A is \in Values : NewRow(is).on = TRUE /\ NewRow(is).is = is
  BY DEF NewRow
<1> QED
  BY <1>1, <1>2

LEMMA TaskFacts ==
    ASSUME NEW x \in AnyTask
    PROVE  /\ x.user \in Users /\ User(x.user) \in Rows
           /\ x.does # "buyer" =>
                  /\ x.tenant \in Tenants /\ Tenant(x.tenant) \in Rows
                  /\ TenantMembership(x.user, x.tenant) \in Rows
                  /\ Relation(x) \in Rows
                  /\ StandardPriceList(x.tenant) \in Rows
           /\ x.does \in {"pilot buyer", "active", "invitation"} =>
                  /\ x.customer \in Customers /\ Customer(x.customer) \in Rows
                  /\ Membership(x) \in Rows
<1>1. x.user \in Users
  BY DEF AnyTask
<1>2. x.does # "buyer" => x.tenant \in Tenants
  BY DEF AnyTask
<1>3. x.does \in {"pilot buyer", "active", "invitation"} => x.customer \in Customers
  BY DEF AnyTask
<1>4. ASSUME x.does # "buyer"
      PROVE  /\ Tenant(x.tenant) \in Rows /\ TenantMembership(x.user, x.tenant) \in Rows
             /\ Relation(x) \in Rows /\ StandardPriceList(x.tenant) \in Rows
  <2>1. PICK u \in Users, t \in Tenants : u = x.user /\ t = x.tenant
    BY <1>1, <1>2, <1>4
  <2>2. Tenant(t) \in Rows /\ StandardPriceList(t) \in Rows
    BY DEF Rows
  <2>3. TenantMembership(u, t) \in Rows /\ TradingRelationship(u, t) \in Rows
    BY DEF Rows, TenantMemberships
  <2> QED
    BY <2>1, <2>2, <2>3 DEF Relation
<1>5. ASSUME x.does \in {"pilot buyer", "active", "invitation"}
      PROVE  Customer(x.customer) \in Rows /\ Membership(x) \in Rows
  <2>1. PICK u \in Users, k \in Customers : u = x.user /\ k = x.customer
    BY <1>1, <1>3, <1>5
  <2>2. Customer(k) \in Rows /\ CustomerMembership(u, k) \in Rows
    BY DEF Rows, CustomerMemberships
  <2> QED
    BY <2>1, <2>2 DEF Membership
<1>6. User(x.user) \in Rows
  BY <1>1 DEF Rows
<1> QED
  BY <1>1, <1>2, <1>3, <1>4, <1>5, <1>6

Fits(x, j) == DraftFits(x, j) /\ Found(x, j) /\ (Firm => Related(x, j))
Extends(j, d, r, is) ==
    /\ DOMAIN j.draft = DOMAIN d \cup {r} /\ j.draft[r] = NewRow(is)
    /\ \A q \in DOMAIN d \ {r} : j.draft[q] = d[q]

LEMMA InsertEffect ==
    ASSUME Types, NEW p \in Operators, job[p].result = "running",
           NEW r \in Rows, NEW is \in Values, NEW step \in Steps,
           Insert(p, r, is, step), NEW x,
           \A j \in Jobs :
               j.result = "running" /\ j.step = step /\ Extends(j, job[p].draft, r, is) =>
                   Fits(x, j)
    PROVE  Effect(p, x)
<1>1. CASE Exists(r)
  BY <1>1, StopEffect DEF Insert
<1>2. CASE ~Exists(r)
  <2>1. PICK i \in Jobs : i = job[p]
    BY JobTyped
  <2>2. PICK e \in Drafts : e = i.draft
    BY <2>1 DEF Jobs
  <2>3. PICK d \in Drafts : d = With(e, r, is)
    BY WithTyped
  <2>4. /\ DOMAIN d = DOMAIN e \cup {r} /\ d[r] = NewRow(is)
        /\ \A q \in DOMAIN e \ {r} : d[q] = e[q]
    BY <2>3 DEF With
  <2> DEFINE j == [i EXCEPT !.step = step, !.draft = d]
  <2>5. /\ j \in Jobs /\ j.result = "running" /\ j.task = i.task /\ j.step = step
        /\ j.draft = d
    BY <2>1, <2>2 DEF Jobs
  <2>6. job' = [job EXCEPT ![p] = j]
    BY <1>2, <2>1, <2>2, <2>3 DEF Insert, Types, JobsOK
  <2>7. UNCHANGED <<installation, rows>>
    BY <1>2 DEF Insert, tableVars
  <2> HIDE DEF j
  <2>8. DraftFits(x, j) /\ Found(x, j) /\ (Firm => Related(x, j))
    <3>1. Extends(j, job[p].draft, r, is)
      BY <2>1, <2>2, <2>4, <2>5 DEF Extends
    <3> QED
      BY <2>5, <3>1 DEF Fits
  <2>9. Found(x, j)' /\ (Firm => Related(x, j)')
    BY <2>7, <2>8 DEF Found, Related, Exists, Is
  <2>10. Stays(p, x, j)
    BY <2>1, <2>5, <2>8, <2>9 DEF Stays
  <2> QED
    BY <2>5, <2>6, <2>7, <2>10, SameRows DEF Effect, JobStep
<1> QED
  BY <1>1, <1>2

(* What the last insert of a transaction commits.                               *)
(* The drafted rows D are inserted as they were drafted, and r as the last of them. *)
Inserts(r, is, D) ==
    /\ RowsGrow
    /\ rows'[r] = NewRow(is)
    /\ \A q \in Rows \ {r} :
           rows'[q] = IF q \in D THEN NewRow("expected name") ELSE rows[q]

LEMMA InsertedRows ==
    ASSUME Types, NEW p \in Operators, job[p].result = "running",
           NEW r \in Rows, NEW is \in Values, ~Exists(r), InsertLast(p, r, is),
           NEW x, DraftFits(x, job[p]), NEW D, D = DOMAIN job[p].draft
    PROVE  Inserts(r, is, D)
<1>1. PICK e \in Drafts : e = job[p].draft
  BY JobTyped DEF Jobs
<1>2. PICK d \in Drafts : d = With(e, r, is) /\ DOMAIN d = DOMAIN e \cup {r}
  <2>1. With(e, r, is) \in Drafts /\ DOMAIN With(e, r, is) = DOMAIN e \cup {r}
    BY WithTyped
  <2> QED
    BY <2>1
<1>3. d[r] = NewRow(is) /\ \A q \in DOMAIN e \ {r} : d[q] = NewRow("expected name")
  BY <1>1, <1>2 DEF With, DraftFits
<1>4. rows' = Inserted(d)
  BY <1>1, <1>2 DEF InsertLast, Commit, Write
<1>5. RowsGrow
  BY <1>4, InsertedGrows DEF RowsGrow, RowsOK, Exists
<1>6. \A q \in Rows : rows'[q] = IF q \in DOMAIN d THEN d[q] ELSE rows[q]
  BY <1>4 DEF Inserted
<1> QED
  BY <1>1, <1>2, <1>3, <1>5, <1>6 DEF Inserts

LEMMA InsertLastEffect ==
    ASSUME Types, NEW p \in Operators, job[p].result = "running",
           NEW r \in Rows, NEW is \in Values, InsertLast(p, r, is),
           NEW x \in AnyTask, DraftFits(x, job[p]),
           \/ r = User(x.user) /\ is = "expected name" /\ x.does \notin Creates
           \/ r = Membership(x) /\ is = "BUYER_ADMIN" /\ x.does \notin Creates
           \/ /\ r = TenantMembership(x.user, x.tenant) /\ is = "SELLER_ADMIN"
              /\ User(x.user) \in DOMAIN job[p].draft,
           /\ rows'[r] = NewRow(is)
           /\ \A q \in (DOMAIN job[p].draft \cap Rows) \ {r} :
                  rows'[q] = NewRow("expected name")
           /\ \A q \in Rows \ (DOMAIN job[p].draft \cup {r}) : rows'[q] = rows[q]
           => (Steady => Met(x)')
    PROVE  Effect(p, x)
<1>1. CASE Exists(r)
  BY <1>1, StopEffect DEF InsertLast
<1>2. CASE ~Exists(r)
  <2>1. PICK D : D = DOMAIN job[p].draft
    OBVIOUS
  <2>2. /\ UNCHANGED installation /\ job' = [job EXCEPT ![p] = AfterTask(p)]
        /\ RowsGrow
        /\ rows'[r] = NewRow(is)
        /\ \A q \in Rows \ {r} :
               rows'[q] = IF q \in D THEN NewRow("expected name") ELSE rows[q]
    <3>1. UNCHANGED installation /\ job' = [job EXCEPT ![p] = AfterTask(p)]
      BY <1>2 DEF InsertLast, Commit, Write
    <3>2. Inserts(r, is, D)
      BY <1>2, <2>1, InsertedRows
    <3> QED
      BY <3>1, <3>2 DEF Inserts
  <2>3. JobStep(p, x)
    <3>1. \A q \in (D \cap Rows) \ {r} : rows'[q] = NewRow("expected name")
      BY <2>2
    <3>2. \A q \in Rows \ (D \cup {r}) : rows'[q] = rows[q]
      BY <2>2
    <3>3. Steady => Met(x)'
      BY <2>1, <2>2, <3>1, <3>2
    <3> QED
      BY <2>2, <3>3, EndJob
  <2>10. \/ r[1] = "User" /\ is = "expected name"
         \/ r[1] = "CustomerMembership" /\ is = "BUYER_ADMIN"
         \/ r[1] = "TenantMembership" /\ is = "SELLER_ADMIN"
    <3>1. /\ User(x.user)[1] = "User" /\ Membership(x)[1] = "CustomerMembership"
          /\ TenantMembership(x.user, x.tenant)[1] = "TenantMembership"
      BY Tags DEF Membership
    <3> QED
      BY <3>1
  <2>4. D \subseteq {Tenant(x.tenant), User(x.user)}
        /\ (Tenant(x.tenant) \in D => x.does \in Creates)
    BY <2>1 DEF DraftFits
  <2>5. ASSUME NEW q \in Rows
        PROVE  Changes(q, rows[q], rows'[q])
    <3>1. CASE q = r
      <4>1. rows[q] = None
        BY <1>2, <3>1 DEF Exists
      <4> QED
        BY <2>2, <2>10, <3>1, <4>1 DEF Changes
    <3>2. CASE q # r
      <4>1. q \in D => q[1] \in {"User", "Tenant"}
        BY <2>4, Tags
      <4> QED
        BY <2>2, <3>2, <4>1 DEF Changes
    <3> QED
      BY <3>1, <3>2
  <2>6. TenantsChange(x)
    <3>1. SUFFICES ASSUME NEW t \in Tenants, rows'[Tenant(t)] # rows[Tenant(t)]
                   PROVE  /\ t = x.tenant /\ x.does \in Creates
                          /\ rows'[User(x.user)] # None
                          /\ rows'[TenantMembership(x.user, x.tenant)]
                                 = NewRow("SELLER_ADMIN")
      BY DEF TenantsChange
    <3>2. Tenant(t) \in Rows /\ Tenant(t) # r
      <4>1. Tenant(t)[1] = "Tenant"
        BY Tags
      <4> QED
        BY <2>10, <4>1, RelationshipRow
    <3>3. Tenant(t) \in D
      BY <2>2, <3>1, <3>2
    <3>4. t = x.tenant /\ x.does \in Creates
      BY <2>4, <3>3 DEF Tenant, User
    <3>5. r = TenantMembership(x.user, x.tenant) /\ is = "SELLER_ADMIN" /\ User(x.user) \in D
      BY <2>1, <3>4
    <3>6. User(x.user) \in Rows \ {r}
      BY <3>5, TaskFacts DEF User, TenantMembership
    <3>7. rows'[User(x.user)] = NewRow("expected name")
      BY <2>2, <3>5, <3>6
    <3>8. NewRow("expected name") # None
      BY SomeRow DEF Values
    <3> QED
      BY <2>2, <3>4, <3>5, <3>7, <3>8
  <2>7. RelationsChange(x)
    <3>1. ASSUME NEW u \in Users, NEW t \in Tenants
          PROVE  rows'[TradingRelationship(u, t)] = rows[TradingRelationship(u, t)]
      <4>1. TradingRelationship(u, t) \in Rows
        BY RelationshipRow
      <4>2. TradingRelationship(u, t)[1] = "TradingRelationship"
        BY Tags
      <4>3. Tenant(x.tenant)[1] = "Tenant" /\ User(x.user)[1] = "User"
        BY Tags
      <4>4. TradingRelationship(u, t) # r
        BY <2>10, <4>2
      <4>5. TradingRelationship(u, t) \notin D
        BY <2>4, <4>2, <4>3
      <4> QED
        BY <2>2, <4>1, <4>4, <4>5
    <3> QED
      BY <3>1 DEF RelationsChange
  <2> QED
    BY <2>2, <2>3, <2>5, <2>6, <2>7 DEF Effect, RowsStep
<1> QED
  BY <1>1, <1>2

(* A transaction that commits, and goes on with the same task.                  *)
LEMMA CommitEffect ==
    ASSUME Types, NEW p \in Operators, job[p].result = "running",
           NEW new, NEW step \in Steps, step # "end", Commit(p, new, step),
           NEW x, RowsStep(x),
           \A j \in Jobs : j.result = "running" /\ j.step = step /\ DOMAIN j.draft = {} =>
               DraftFits(x, j) /\ Found(x, j)' /\ (Firm => Related(x, j)')
    PROVE  Effect(p, x)
<1>1. PICK i \in Jobs : i = job[p]
  BY JobTyped
<1> DEFINE j == [i EXCEPT !.step = step, !.draft = NoDraft]
<1>2. /\ j \in Jobs /\ j.result = "running" /\ j.task = i.task /\ j.step = step
      /\ j.draft = NoDraft
  BY <1>1, JobTyped DEF Jobs
<1>3. job' = [job EXCEPT ![p] = j] /\ UNCHANGED installation
  BY <1>1 DEF Commit, Write, Types, JobsOK
<1> HIDE DEF j
<1>4. DraftFits(x, j) /\ Found(x, j)' /\ (Firm => Related(x, j)')
  BY <1>2, NoDraftEmpty
<1>5. Stays(p, x, j)
  BY <1>1, <1>2, <1>4 DEF Stays
<1> QED
  BY <1>2, <1>3, <1>5 DEF Effect, JobStep

LEMMA CommitEndEffect ==
    ASSUME Types, NEW p \in Operators, job[p].result = "running",
           NEW new, Commit(p, new, "end"), NEW x, RowsStep(x),
           Steady /\ Expected(x) => Met(x)'
    PROVE  Effect(p, x)
BY EndJob DEF Commit, Write, Effect

-------------------------------------------------------------------------------
(* Every step of a script.                                                      *)

LEMMA Here ==
    ASSUME Types, Progress, NEW p \in Operators, job[p].result = "running",
           NEW x, x = Task(p)
    PROVE  /\ x \in AnyTask /\ x \in Wanted
           /\ x.does \in {"bootstrap", "tenant", "import", "request", "buyer",
                          "pilot buyer", "active", "invitation"}
           /\ DraftFits(x, job[p]) /\ Found(x, job[p])
           /\ Firm => Related(x, job[p])
           /\ Steady => \A r \in Rows : Exists(r) => On(r)
<1>1. x \in AnyTask
  BY TaskTyped
<1>2. x \in Wanted
  <2>1. job[p].task \in 1..Len(Script(p))
    BY DEF Types, JobsOK
  <2>2. x \in Tasks(p)
    BY <2>1 DEF Tasks, Task
  <2> QED
    BY <2>2 DEF Wanted
<1> QED
  BY <1>1, <1>2, TaskOf DEF Progress

LEMMA ProceedTo ==
    ASSUME Types, Progress, NEW p \in Operators, job[p].result = "running",
           NEW x, x = Task(p), NEW step \in Steps, Proceed(p, step),
           step \in {"create user", "create membership"} => x.does \notin Creates,
           x.does = "tenant" /\ step \in {"admin", "membership"} => Exists(Tenant(x.tenant)),
           x.does \in {"tenant", "pilot buyer"} /\ step = "membership" =>
               Exists(User(x.user)),
           x.does = "pilot buyer" /\ step = "create membership" => Exists(User(x.user)),
           Firm => /\ x.does = "active" /\ step \in {"price list", "assignment", "assign"} =>
                          Is(Relation(x), "ACTIVE") /\ Exists(Membership(x))
                   /\ x.does = "invitation" /\ step = "invite" =>
                          ~Is(Relation(x), "PENDING by BUYER")
                   /\ x.does = "request" /\ step = "request" =>
                          ~Is(Relation(x), "PENDING by SELLER")
    PROVE  Effect(p, x)
<1>1. DraftFits(x, job[p])
  BY Here
<1>2. ASSUME NEW j \in Jobs, j.result = "running", j.step = step, j.draft = job[p].draft
      PROVE  DraftFits(x, j) /\ Found(x, j) /\ (Firm => Related(x, j))
  <2>1. DraftFits(x, j)
    BY <1>1, <1>2 DEF DraftFits
  <2>2. Found(x, j)
    BY <1>2 DEF Found
  <2>3. Firm => Related(x, j)
    BY <1>2 DEF Related
  <2> QED
    BY <2>1, <2>2, <2>3
<1>3. \A j \in Jobs : j.result = "running" /\ j.step = step /\ j.draft = job[p].draft =>
          DraftFits(x, j) /\ Found(x, j) /\ (Firm => Related(x, j))
  BY <1>2
<1> QED
  BY <1>3, ProceedEffect, ZenonT(30)

LEMMA BootstrapEffect ==
    ASSUME Types, Progress, NEW p \in Operators, NEW x, x = Task(p),
           Preflight(p) \/ bootstrapPilotTenant(p)
    PROVE  Effect(p, x)
<1>1. job[p].result = "running" /\ x.does = "bootstrap"
  BY DEF Preflight, bootstrapPilotTenant, Doing
<1>2. ASSUME NEW step \in {"lock", "create tenant"}, Proceed(p, step)
      PROVE  Effect(p, x)
  BY <1>1, <1>2, ProceedTo DEF Steps
<1>3. CASE Stop(p, "refused")
  BY <1>1, <1>3, StopEffect DEF RefusedFor
<1> QED
  BY <1>2, <1>3 DEF Preflight, bootstrapPilotTenant, checkBootstrapPreconditions

LEMMA AcquireEffect ==
    ASSUME Types, Progress, NEW p \in Operators, NEW x, x = Task(p),
           acquireBootstrapLock(p)
    PROVE  Effect(p, x)
<1>1. job[p].result = "running" /\ x.does = "bootstrap"
  BY DEF acquireBootstrapLock, Doing
<1>2. CASE Stop(p, "failed")
  BY <1>2, StopEffect
<1>3. CASE job' = [job EXCEPT ![p].step = "check"] /\ UNCHANGED tableVars
  <2>1. PICK i \in Jobs : i = job[p]
    BY JobTyped
  <2> DEFINE j == [i EXCEPT !.step = "check"]
  <2>2. /\ j \in Jobs /\ j.result = "running" /\ j.task = i.task /\ j.step = "check"
        /\ j.draft = i.draft
    BY <1>1, <2>1 DEF Jobs, Steps
  <2>3. job' = [job EXCEPT ![p] = j] /\ UNCHANGED <<installation, rows>>
    BY <1>3, <2>1 DEF Types, JobsOK, tableVars
  <2> HIDE DEF j
  <2>4. DraftFits(x, j)
    <3>1. DraftFits(x, i) /\ i.result = "running"
      BY <1>1, <2>1, Here
    <3> QED
      BY <2>2, <3>1 DEF DraftFits
  <2>5. Found(x, j)' /\ Related(x, j)'
    BY <1>1, <2>2 DEF Found, Related
  <2>6. Stays(p, x, j)
    BY <1>1, <2>1, <2>2, <2>4, <2>5 DEF Stays
  <2> QED
    BY <2>2, <2>3, <2>6, SameRows DEF Effect, JobStep
<1> QED
  BY <1>2, <1>3 DEF acquireBootstrapLock

LEMMA CreateTenantEffect ==
    ASSUME Types, Progress, NEW p \in Operators, NEW x, x = Task(p),
           createTenantAdminAtomically(p)
    PROVE  Effect(p, x)
<1>1. job[p].result = "running" /\ x.does \in Creates /\ x.does # "buyer"
  BY DEF createTenantAdminAtomically, Doing, Creates
<1>2. /\ x \in AnyTask /\ DraftFits(x, job[p])
      /\ Steady => \A r \in Rows : Exists(r) => On(r)
  BY <1>1, Here
<1>3. /\ Tenant(x.tenant) \in Rows /\ User(x.user) \in Rows
      /\ TenantMembership(x.user, x.tenant) \in Rows
      /\ x.user \in Users /\ x.tenant \in Tenants
  BY <1>1, <1>2, TaskFacts
<1>4. /\ "expected name" \in Values /\ "SELLER_ADMIN" \in Values
      /\ "create user" \in Steps /\ "create membership" \in Steps
  BY DEF Values, Steps
<1>5. CASE job[p].step = "create tenant"
  <2> DEFINE r == Tenant(x.tenant)
  <2>0. PICK step \in Steps, is \in Values : step = "create user" /\ is = "expected name"
    BY <1>4
  <2>1. Insert(p, r, is, step)
    BY <1>5, <2>0 DEF createTenantAdminAtomically, Doing, Insert, Exists
  <2>2. ASSUME NEW j \in Jobs, j.result = "running", j.step = step,
               Extends(j, job[p].draft, r, is)
        PROVE  Fits(x, j)
    <3>1. DraftFits(x, j)
      BY <1>1, <1>2, <2>0, <2>2 DEF DraftFits, Extends
    <3> QED
      BY <1>1, <2>0, <2>2, <3>1 DEF Fits, Found, Related, Creates
  <2>3. r \in Rows
    BY <1>3
  <2>4. \A j \in Jobs :
            j.result = "running" /\ j.step = step /\ Extends(j, job[p].draft, r, is) =>
                Fits(x, j)
    BY <2>2
  <2>5. job[p].result = "running"
    BY <1>1
  <2> HIDE DEF r
  <2> QED
    BY <2>1, <2>3, <2>4, <2>5, InsertEffect
<1>6. CASE job[p].step = "create user"
  <2> DEFINE r == User(x.user)
  <2>0. PICK step \in Steps, is \in Values : step = "create membership" /\ is = "expected name"
    BY <1>4
  <2>1. Insert(p, r, is, step)
    BY <1>6, <2>0 DEF createTenantAdminAtomically, Doing, Insert, Exists
  <2>2. ASSUME NEW j \in Jobs, j.result = "running", j.step = step,
               Extends(j, job[p].draft, r, is)
        PROVE  Fits(x, j)
    <3>1. DraftFits(x, j)
      BY <1>1, <1>2, <1>6, <2>0, <2>2 DEF DraftFits, Extends
    <3> QED
      BY <1>1, <2>0, <2>2, <3>1 DEF Fits, Found, Related, Creates
  <2>3. r \in Rows
    BY <1>3
  <2>4. \A j \in Jobs :
            j.result = "running" /\ j.step = step /\ Extends(j, job[p].draft, r, is) =>
                Fits(x, j)
    BY <2>2
  <2>5. job[p].result = "running"
    BY <1>1
  <2> HIDE DEF r
  <2> QED
    BY <2>1, <2>3, <2>4, <2>5, InsertEffect
<1>7. CASE job[p].step = "create membership"
  <2> DEFINE r == TenantMembership(x.user, x.tenant)
  <2>1. InsertLast(p, r, "SELLER_ADMIN")
    BY <1>7 DEF createTenantAdminAtomically, Doing, InsertLast, Exists, Commit, Write
  <2>2. {Tenant(x.tenant), User(x.user)} \subseteq DOMAIN job[p].draft
    BY <1>1, <1>2, <1>7 DEF DraftFits
  <2>3. Tenant(x.tenant) # r /\ User(x.user) # r
    BY Tags
  <2>4. ASSUME rows'[r] = NewRow("SELLER_ADMIN"),
               \A q \in (DOMAIN job[p].draft \cap Rows) \ {r} :
                   rows'[q] = NewRow("expected name")
        PROVE  Met(x)'
    <3>1. /\ rows'[Tenant(x.tenant)] = NewRow("expected name")
          /\ rows'[User(x.user)] = NewRow("expected name")
      BY <1>3, <2>2, <2>3, <2>4
    <3>2. On(Tenant(x.tenant))' /\ On(User(x.user))'
      BY <1>4, <3>1, SomeRow DEF On, Exists
    <3>3. Has(TenantMembership(x.user, x.tenant), "SELLER_ADMIN")'
      BY <1>4, <2>4, SomeRow DEF Has, On, Is, Exists
    <3> QED
      BY <1>1, <3>2, <3>3 DEF Met, Creates
  <2> HIDE DEF r
  <2> QED
    BY <1>1, <1>2, <1>3, <1>4, <2>1, <2>2, <2>4, InsertLastEffect DEF r
<1> QED
  BY <1>5, <1>6, <1>7 DEF createTenantAdminAtomically, Doing

LEMMA SoundSteady == Sound => Steady /\ Undisturbed /\ OneAdmin /\ InOrder
BY DEF Sound, Undisturbed, Steady, BeganOn

LEMMA PilotReadsEffect ==
    ASSUME Types, Progress, NEW p \in Operators, NEW x, x = Task(p),
           OnlyTenant(p) \/ PilotCustomer(p) \/ PilotUser(p)
    PROVE  Effect(p, x)
<1>1. job[p].result = "running" /\ x.does = "pilot buyer"
  BY DEF OnlyTenant, PilotCustomer, PilotUser, Doing
<1>2. CASE \E step \in {"customer", "user", "create user"} : Proceed(p, step)
  <2>1. PICK step \in {"customer", "user", "create user"} : Proceed(p, step)
    BY <1>2
  <2>2. step \in Steps /\ x.does \notin Creates
    BY <1>1 DEF Steps, Creates
  <2> QED
    BY <1>1, <2>1, <2>2, ProceedTo
<1>3. CASE Proceed(p, "membership") /\ Exists(User(x.user))
  BY <1>1, <1>3, ProceedTo DEF Steps
<1>4. CASE Stop(p, "refused") \/ Stop(p, "failed")
  BY <1>1, <1>4, StopEffect DEF RefusedFor
<1> QED
  BY <1>2, <1>3, <1>4 DEF OnlyTenant, PilotCustomer, PilotUser

LEMMA PilotMembershipEffect ==
    ASSUME Types, Progress, NEW p \in Operators, NEW x, x = Task(p), PilotMembership(p)
    PROVE  Effect(p, x)
<1>1. job[p].result = "running" /\ x.does = "pilot buyer" /\ x.does \notin Creates
  BY DEF PilotMembership, Doing, Creates
<1>2. /\ x \in AnyTask /\ DraftFits(x, job[p]) /\ Found(x, job[p])
      /\ Steady => \A r \in Rows : Exists(r) => On(r)
  BY <1>1, Here
<1>3. User(x.user) \in Rows /\ Membership(x) \in Rows
  BY <1>1, <1>2, TaskFacts
<1>4. CASE job[p].step = "membership"
  <2>1. Exists(User(x.user))
    BY <1>1, <1>2, <1>4 DEF Found
  <2>2. CASE Proceed(p, "create membership")
    BY <1>1, <2>1, <2>2, ProceedTo DEF Steps
  <2>3. CASE Skip(p) /\ On(Membership(x))
    <3>1. Steady => On(User(x.user))
      BY <1>2, <1>3, <2>1
    <3>2. Steady => Met(x)
      BY <1>1, <2>3, <3>1 DEF Met, Membership
    <3>3. UNCHANGED rows
      BY <2>3 DEF Skip, tableVars
    <3>4. Met(x)' <=> Met(x)
      BY <3>3, MetSame
    <3> QED
      BY <1>1, <2>3, <3>2, <3>4, SkipEffect
  <2>4. CASE Stop(p, "refused")
    BY <1>1, <2>4, StopEffect DEF RefusedFor
  <2> QED
    BY <1>4, <2>2, <2>3, <2>4 DEF PilotMembership, Doing, Membership
<1>5. CASE job[p].step = "create user"
  <2> DEFINE r == User(x.user)
  <2>1. PICK step \in Steps, is \in Values : step = "create membership" /\ is = "expected name"
    BY DEF Steps, Values
  <2>2. Insert(p, r, is, step)
    BY <1>5, <2>1 DEF PilotMembership, Doing, Insert, Exists
  <2>3. ASSUME NEW j \in Jobs, j.result = "running", j.step = step,
               Extends(j, job[p].draft, r, is)
        PROVE  Fits(x, j)
    <3>1. DraftFits(x, j)
      <4>1. Tenant(x.tenant) # r
        BY Tags
      <4> QED
        BY <1>1, <1>2, <2>1, <2>3, <4>1 DEF DraftFits, Extends
    <3>2. r \in DOMAIN j.draft
      BY <2>3 DEF Extends
    <3> QED
      BY <1>1, <2>1, <2>3, <3>1, <3>2 DEF Fits, Found, Related
  <2>4. \A j \in Jobs :
            j.result = "running" /\ j.step = step /\ Extends(j, job[p].draft, r, is) =>
                Fits(x, j)
    BY <2>3
  <2>5. job[p].result = "running" /\ r \in Rows
    BY <1>1, <1>3
  <2> HIDE DEF r
  <2> QED
    BY <2>2, <2>4, <2>5, InsertEffect
<1>6. CASE job[p].step = "create membership"
  <2> DEFINE r == Membership(x)
  <2>1. InsertLast(p, r, "BUYER_ADMIN") /\ "BUYER_ADMIN" \in Values
    BY <1>6
    DEF PilotMembership, Doing, InsertLast, Exists, Commit, Write, Membership, Values
  <2>2. User(x.user) # r
    BY Tags DEF Membership
  <2>3. ASSUME rows'[r] = NewRow("BUYER_ADMIN"), Steady,
               \A q \in (DOMAIN job[p].draft \cap Rows) \ {r} :
                   rows'[q] = NewRow("expected name"),
               \A q \in Rows \ (DOMAIN job[p].draft \cup {r}) : rows'[q] = rows[q]
        PROVE  Met(x)'
    <3>1. On(Membership(x))'
      BY <2>1, <2>3, SomeRow DEF On, Exists
    <3>2. On(User(x.user))'
      <4>1. CASE User(x.user) \in DOMAIN job[p].draft
        <5>1. rows'[User(x.user)] = NewRow("expected name")
          BY <1>3, <2>2, <2>3, <4>1
        <5> QED
          BY <5>1, SomeRow DEF On, Exists, Values
      <4>2. CASE User(x.user) \notin DOMAIN job[p].draft
        <5>1. Exists(User(x.user))
          BY <1>1, <1>2, <1>6, <4>2 DEF Found
        <5>2. On(User(x.user))
          BY <1>2, <1>3, <2>3, <5>1
        <5>3. rows'[User(x.user)] = rows[User(x.user)]
          BY <1>3, <2>2, <2>3, <4>2
        <5> QED
          BY <5>2, <5>3 DEF On, Exists
      <4> QED
        BY <4>1, <4>2
    <3> QED
      BY <1>1, <3>1, <3>2 DEF Met, Membership
  <2>4. r \in Rows
    BY <1>3
  <2> QED
    BY <1>1, <1>2, <2>1, <2>3, <2>4, InsertLastEffect
<1> QED
  BY <1>4, <1>5, <1>6 DEF PilotMembership, Doing

LEMMA DemoTenantEffect ==
    ASSUME Types, Progress, NEW p \in Operators, NEW x, x = Task(p), reconcileDemoTenant(p)
    PROVE  Effect(p, x)
<1>1. job[p].result = "running" /\ x.does = "tenant" /\ x.does \in Creates
  BY DEF reconcileDemoTenant, Doing, Creates
<1>2. /\ x \in AnyTask /\ x \in Wanted /\ Found(x, job[p])
      /\ Steady => \A r \in Rows : Exists(r) => On(r)
  BY <1>1, Here
<1>3. /\ Tenant(x.tenant) \in Rows /\ User(x.user) \in Rows
      /\ TenantMembership(x.user, x.tenant) \in Rows
  BY <1>1, <1>2, TaskFacts
<1>4. CASE job[p].step = "start"
  <2>1. CASE Proceed(p, "create tenant")
    BY <1>1, <2>1, ProceedTo DEF Steps
  <2>2. CASE Proceed(p, "admin") /\ Exists(Tenant(x.tenant))
    BY <1>1, <2>2, ProceedTo DEF Steps
  <2>3. CASE Stop(p, "refused") /\ Is(Tenant(x.tenant), "another name")
    <3>1. Tenant(x.tenant)[1] = "Tenant"
      BY Tags
    <3>2. ~Undisturbed
      BY <1>3, <2>3, <3>1 DEF Progress, Is, Exists
    <3> QED
      BY <2>3, <3>2, StopEffect, SoundSteady
  <2> QED
    BY <1>4, <2>1, <2>2, <2>3 DEF reconcileDemoTenant, Doing
<1>5. CASE job[p].step = "admin"
  <2>1. Exists(Tenant(x.tenant))
    BY <1>1, <1>2, <1>5 DEF Found
  <2>2. CASE Proceed(p, "membership") /\ Exists(User(x.user))
    BY <1>1, <2>1, <2>2, ProceedTo DEF Steps
  <2>3. CASE Stop(p, "refused") /\ ~Exists(User(x.user))
    <3>1. ~Sound
      BY <1>1, <1>2, <2>1, <2>3, SoundSteady DEF Progress
    <3> QED
      BY <2>3, <3>1, StopEffect
  <2> QED
    BY <1>5, <2>2, <2>3 DEF reconcileDemoTenant, Doing
<1>6. CASE job[p].step = "membership"
  <2>1. Exists(Tenant(x.tenant)) /\ Exists(User(x.user))
    BY <1>1, <1>2, <1>6 DEF Found
  <2>2. CASE Skip(p) /\ Has(TenantMembership(x.user, x.tenant), "SELLER_ADMIN")
    <3>1. Steady => On(Tenant(x.tenant)) /\ On(User(x.user))
      BY <1>2, <1>3, <2>1
    <3>2. Steady => Met(x)
      BY <1>1, <2>2, <3>1 DEF Met
    <3>3. UNCHANGED rows
      BY <2>2 DEF Skip, tableVars
    <3>4. Met(x)' <=> Met(x)
      BY <3>3, MetSame
    <3> QED
      BY <1>1, <2>2, <3>2, <3>4, SkipEffect
  <2>3. CASE Stop(p, "refused") /\ ~Has(TenantMembership(x.user, x.tenant), "SELLER_ADMIN")
    <3>1. Sound => Is(TenantMembership(x.user, x.tenant), "SELLER_ADMIN")
      BY <1>1, <1>2, <2>1, SoundSteady DEF Progress
    <3>2. Sound => On(TenantMembership(x.user, x.tenant))
      BY <1>2, <1>3, <3>1, SoundSteady DEF Is
    <3>3. ~Sound
      BY <2>3, <3>1, <3>2 DEF Has
    <3> QED
      BY <2>3, <3>3, StopEffect
  <2> QED
    BY <1>6, <2>2, <2>3 DEF reconcileDemoTenant, Doing, Has
<1> QED
  BY <1>4, <1>5, <1>6 DEF reconcileDemoTenant, Doing

LEMMA DemoBuyerEffect ==
    ASSUME Types, Progress, NEW p \in Operators, NEW x, x = Task(p), reconcileDemoBuyer(p)
    PROVE  Effect(p, x)
<1>1. job[p].result = "running" /\ x.does = "buyer" /\ x.does \notin Creates
  BY DEF reconcileDemoBuyer, Doing, Creates
<1>2. /\ x \in AnyTask /\ DraftFits(x, job[p])
      /\ Steady => \A r \in Rows : Exists(r) => On(r)
  BY <1>1, Here
<1>3. User(x.user) \in Rows /\ User(x.user)[1] = "User"
  BY <1>2, TaskFacts, Tags
<1>4. CASE job[p].step = "start"
  <2>1. CASE Proceed(p, "create user")
    BY <1>1, <2>1, ProceedTo DEF Steps
  <2>2. CASE Skip(p) /\ Has(User(x.user), "expected name")
    <3>1. Met(x)
      BY <1>1, <2>2 DEF Met
    <3>2. UNCHANGED rows
      BY <2>2 DEF Skip, tableVars
    <3>3. Met(x)' <=> Met(x)
      BY <3>2, MetSame
    <3> QED
      BY <1>1, <2>2, <3>1, <3>3, SkipEffect
  <2>3. CASE Stop(p, "refused") /\ Exists(User(x.user)) /\ ~Has(User(x.user), "expected name")
    <3>1. Sound => Is(User(x.user), "expected name")
      BY <1>3, <2>3, SoundSteady DEF Progress
    <3>2. Sound => On(User(x.user))
      BY <1>2, <1>3, <2>3, SoundSteady
    <3>3. ~Sound
      BY <2>3, <3>1, <3>2 DEF Has
    <3> QED
      BY <2>3, <3>3, StopEffect
  <2> QED
    BY <1>4, <2>1, <2>2, <2>3 DEF reconcileDemoBuyer, Doing, Has
<1>5. CASE job[p].step = "create user"
  <2> DEFINE r == User(x.user)
  <2>1. InsertLast(p, r, "expected name") /\ "expected name" \in Values
    BY <1>5 DEF reconcileDemoBuyer, Doing, InsertLast, Exists, Commit, Write, Values
  <2>2. ASSUME rows'[r] = NewRow("expected name") PROVE Met(x)'
    <3>1. Has(User(x.user), "expected name")'
      BY <2>1, <2>2, SomeRow DEF Has, On, Is, Exists
    <3> QED
      BY <1>1, <3>1 DEF Met
  <2>3. r \in Rows
    BY <1>3
  <2> QED
    BY <1>1, <1>2, <2>1, <2>2, <2>3, InsertLastEffect
<1> QED
  BY <1>4, <1>5 DEF reconcileDemoBuyer, Doing

(* A transaction that changes neither tenants nor relationships.                *)
LEMMA OtherRowsStep ==
    ASSUME RowsGrow, NEW x,
           \A r \in Rows :
               \/ rows'[r] = rows[r]
               \/ /\ r[1] \in {"PriceList", "Customer"}
                  /\ Changes(r, rows[r], rows'[r])
    PROVE  RowsStep(x)
<1>1. \A r \in Rows : Changes(r, rows[r], rows'[r])
  BY DEF Changes
<1>2. ASSUME NEW r \in Rows, r[1] \in {"Tenant", "TradingRelationship"}
      PROVE  rows'[r] = rows[r]
  BY <1>2
<1>3. TenantsChange(x)
  BY <1>2, RelationshipRow, Tags DEF TenantsChange
<1>4. RelationsChange(x)
  BY <1>2, RelationshipRow, Tags DEF RelationsChange
<1> QED
  BY <1>1, <1>3, <1>4 DEF RowsStep

LEMMA ImportEffect ==
    ASSUME Types, Progress, NEW p \in Operators, NEW x, x = Task(p), importAllDemoCsvFiles(p)
    PROVE  Effect(p, x)
<1>1. job[p].result = "running" /\ x.does = "import" /\ x.does # "buyer" /\ x.does \notin Creates
  BY DEF importAllDemoCsvFiles, Doing, Creates
<1>2. /\ x \in AnyTask /\ x \in Wanted
      /\ Steady => \A r \in Rows : Exists(r) => On(r)
  BY <1>1, Here
<1>3. StandardPriceList(x.tenant) \in Rows /\ x.tenant \in Tenants
  BY <1>1, <1>2, TaskFacts
<1>4. RowsGrow
  BY ImportMoves DEF Moves
<1>5. CASE job[p].step = "start"
  <2> DEFINE imported == {k \in Customers : TenantOf[k] = x.tenant}
             new == [r \in Rows |-> IF ~Exists(r) /\ r \in {Customer(k) : k \in imported}
                                    THEN NewRow("no price list") ELSE rows[r]]
  <2>1. CASE Commit(p, new, "price lists")
    <3>1. PICK step \in Steps : step = "price lists"
      BY DEF Steps
    <3>2. rows' = new
      BY <2>1 DEF Commit, Write
    <3>3. ASSUME NEW r \in Rows, rows'[r] # rows[r]
          PROVE  r[1] = "Customer" /\ rows[r] = None /\ rows'[r] = NewRow("no price list")
      <4>1. ~Exists(r) /\ r \in {Customer(k) : k \in imported}
        BY <3>2, <3>3
      <4>2. rows'[r] = NewRow("no price list")
        BY <3>2, <4>1
      <4>3. r[1] = "Customer"
        BY <4>1, Tags
      <4> QED
        BY <4>1, <4>2, <4>3 DEF Exists
    <3>4. RowsStep(x)
      BY <1>4, <3>3, OtherRowsStep DEF Changes
    <3>5. \A j \in Jobs : j.result = "running" /\ j.step = step /\ DOMAIN j.draft = {} =>
              DraftFits(x, j) /\ Found(x, j)' /\ (Firm => Related(x, j)')
      BY <1>1, <3>1 DEF DraftFits, Found, Related, Creates
    <3>6. Commit(p, new, step) /\ step # "end" /\ job[p].result = "running"
      BY <1>1, <2>1, <3>1
    <3> HIDE DEF new
    <3> QED
      BY <3>4, <3>5, <3>6, CommitEffect
  <2>2. CASE Stop(p, "refused") /\ ~(Exists(Tenant(x.tenant)) /\ Exists(User(x.user)))
    <3>1. ASSUME Sound PROVE FALSE
      <4>1. job[p].task \in 1..Len(Script(p)) /\ Script(p)[job[p].task] = x
        BY <1>1 DEF Types, JobsOK, Task
      <4>2. PICK i \in 1..(job[p].task - 1) :
                /\ Script(p)[i].does \in Creates
                /\ Script(p)[i].tenant = x.tenant /\ Script(p)[i].user = x.user
        BY <1>1, <3>1, <4>1, SoundSteady DEF InOrder
      <4>3. i \in 1..Len(Script(p)) /\ i < job[p].task
        BY <4>1, <4>2, JobTyped
      <4>4. Passed(p, i) /\ Expected(Script(p)[i])
        BY <1>1, <4>2, <4>3 DEF Passed, Expected, Creates, SetUp
      <4>5. Met(Script(p)[i])
        BY <3>1, <4>3, <4>4, SoundSteady DEF Progress
      <4> QED
        BY <2>2, <4>2, <4>5 DEF Met, On, Creates
    <3> QED
      BY <2>2, <3>1, StopEffect
  <2> QED
    BY <1>5, <2>1, <2>2 DEF importAllDemoCsvFiles, Doing
<1>6. CASE job[p].step = "price lists"
  <2> DEFINE r == StandardPriceList(x.tenant)
             new == [rows EXCEPT ![r] = IF @ = None THEN NewRow("expected name") ELSE @]
  <2>1. Commit(p, new, "end")
    BY <1>6 DEF importAllDemoCsvFiles, Doing
  <2>2. rows' = new
    BY <2>1 DEF Commit, Write
  <2>3. /\ rows'[r] = IF rows[r] = None THEN NewRow("expected name") ELSE rows[r]
        /\ \A q \in Rows \ {r} : rows'[q] = rows[q]
    BY <1>3, <2>2 DEF Types, RowsOK
  <2>4. r[1] = "PriceList"
    BY Tags
  <2>5. RowsStep(x)
    <3>1. ASSUME NEW q \in Rows, rows'[q] # rows[q]
          PROVE  q[1] = "PriceList" /\ Changes(q, rows[q], rows'[q])
      <4>1. q = r
        BY <2>3, <3>1
      <4> HIDE DEF r
      <4> QED
        BY <2>3, <2>4, <3>1, <4>1 DEF Changes
    <3> QED
      BY <1>4, <3>1, OtherRowsStep
  <2>6. ASSUME Steady PROVE Met(x)'
    <3>1. On(r)'
      <4>1. CASE rows[r] = None
        BY <2>3, <4>1, SomeRow DEF On, Exists, Values
      <4>2. CASE rows[r] # None
        BY <1>2, <1>3, <2>3, <2>6, <4>2 DEF On, Exists
      <4> QED
        BY <4>1, <4>2
    <3> QED
      BY <1>1, <3>1 DEF Met
  <2>7. job[p].result = "running"
    BY <1>1
  <2> HIDE DEF new
  <2> QED
    BY <2>1, <2>5, <2>6, <2>7, CommitEndEffect
<1> QED
  BY <1>5, <1>6 DEF importAllDemoCsvFiles, Doing

LEMMA RequiredEffect ==
    ASSUME Types, Progress, NEW p \in Operators, NEW x, x = Task(p), Required(p)
    PROVE  Effect(p, x)
<1>1. job[p].result = "running" /\ x.does \in SetUp
  BY DEF Required, Doing
<1>2. CASE Proceed(p, "relationship")
  BY <1>1, <1>2, ProceedTo DEF Steps
<1>3. CASE Stop(p, "refused")
  BY <1>1, <1>3, StopEffect DEF RefusedFor, SetUp
<1> QED
  BY <1>2, <1>3 DEF Required

LEMMA ReconcileEffect ==
    ASSUME Types, Progress, NEW p \in Operators, NEW x, x = Task(p),
           reconcileRelationshipState(p)
    PROVE  Effect(p, x)
<1>1. job[p].result = "running" /\ x.does \in SetUp
  BY DEF reconcileRelationshipState, Doing
<1>2. x \in AnyTask /\ x \in Wanted /\ Relation(x) = Relationship(p)
  BY <1>1, Here DEF Relation, Relationship
<1>3. CASE ~Exists(Relation(x)) /\ \E step \in {"request", "invite"} : Proceed(p, step)
  <2>1. PICK step \in {"request", "invite"} : Proceed(p, step)
    BY <1>3
  <2>2. /\ step \in Steps /\ step \notin {"create user", "create membership"}
        /\ step \notin {"admin", "membership", "price list", "assignment", "assign"}
    BY <2>1 DEF Steps
  <2>3. ~Is(Relation(x), "PENDING by BUYER") /\ ~Is(Relation(x), "PENDING by SELLER")
    BY <1>3 DEF Is
  <2>4. Firm => /\ x.does = "active" /\ step \in {"price list", "assignment", "assign"} =>
                       Is(Relation(x), "ACTIVE") /\ Exists(Membership(x))
                /\ x.does = "invitation" /\ step = "invite" =>
                       ~Is(Relation(x), "PENDING by BUYER")
                /\ x.does = "request" /\ step = "request" =>
                       ~Is(Relation(x), "PENDING by SELLER")
    BY <2>2, <2>3
  <2>5. /\ step \in {"create user", "create membership"} => x.does \notin Creates
        /\ x.does = "tenant" /\ step \in {"admin", "membership"} => Exists(Tenant(x.tenant))
        /\ x.does \in {"tenant", "pilot buyer"} /\ step = "membership" =>
               Exists(User(x.user))
        /\ x.does = "pilot buyer" /\ step = "create membership" => Exists(User(x.user))
    BY <2>2
  <2>6. job[p].result = "running"
    BY <1>1
  <2> QED
    BY <2>1, <2>2, <2>4, <2>5, <2>6, ProceedTo
<1>4. CASE Is(Relation(x), "ACTIVE") /\ x.does = "active" /\ Proceed(p, "price list")
  <2>1. Firm => Exists(Membership(x))
    BY <1>2, <1>4 DEF Progress
  <2> QED
    BY <1>1, <1>4, <2>1, ProceedTo DEF Steps
<1>5. CASE Is(Relation(x), Target(x.does)) /\ x.does # "active" /\ Skip(p)
  <2>1. Met(x)
    BY <1>1, <1>5 DEF Met, Relation, SetUp
  <2>2. UNCHANGED rows
    BY <1>5 DEF Skip, tableVars
  <2>3. Met(x)' <=> Met(x)
    BY <2>2, MetSame
  <2> QED
    BY <1>1, <1>5, <2>1, <2>3, SkipEffect
<1>6. CASE Stop(p, "refused")
  BY <1>1, <1>6, StopEffect DEF RefusedFor, SetUp
<1>7. CASE ~Exists(Relationship(p))
  <2>1. ~Is(Relationship(p), Target(Task(p).does))
    BY <1>7 DEF Is
  <2>2. \E step \in {"request", "invite"} : Proceed(p, step)
    BY <1>7, <2>1 DEF reconcileRelationshipState
  <2>3. ~Exists(Relation(x))
    BY <1>2, <1>7
  <2> QED
    BY <1>3, <2>2, <2>3
<1>8. CASE Exists(Relationship(p)) /\ Is(Relationship(p), Target(x.does))
  BY <1>2, <1>4, <1>5, <1>8 DEF reconcileRelationshipState, Target
<1>9. CASE Exists(Relationship(p)) /\ ~Is(Relationship(p), Target(x.does))
  BY <1>6, <1>9 DEF reconcileRelationshipState
<1> QED
  BY <1>7, <1>8, <1>9

LEMMA RelationTags ==
    ASSUME NEW x
    PROVE  Relation(x)[1] = "TradingRelationship" /\ Membership(x)[1] = "CustomerMembership"
BY DEF Relation, Membership, TradingRelationship, CustomerMembership

LEMMA RelationOf ==
    ASSUME NEW x, NEW u, NEW t, TradingRelationship(u, t) = Relation(x)
    PROVE  u = x.user /\ t = x.tenant
BY DEF Relation, TradingRelationship

LEMMA RelationRowsStep ==
    ASSUME RowsGrow, NEW x \in AnyTask, x.does \in SetUp,
           \A q \in Rows \ {Relation(x)} :
               \/ rows'[q] = rows[q]
               \/ /\ x.does = "active" /\ q = Membership(x)
                  /\ rows'[q] = NewRow("BUYER_ADMIN"),
           \/ rows'[Relation(x)] = rows[Relation(x)]
           \/ /\ ~Is(Relation(x), "ACTIVE")
              /\ \/ /\ x.does \in {"active", "invitation"}
                    /\ ~Is(Relation(x), "PENDING by BUYER")
                    /\ rows'[Relation(x)] = NewRow("PENDING by SELLER")
                 \/ /\ x.does = "active"
                    /\ rows'[Relation(x)] = NewRow("ACTIVE")
                    /\ rows'[Membership(x)] # None
                 \/ /\ x.does = "request"
                    /\ ~Is(Relation(x), "PENDING by SELLER")
                    /\ rows'[Relation(x)] = NewRow("PENDING by BUYER")
    PROVE  RowsStep(x)
<1>1. /\ Relation(x)[1] = "TradingRelationship"
      /\ Membership(x)[1] = "CustomerMembership"
  BY RelationTags
<1>2. ASSUME NEW r \in Rows
      PROVE  Changes(r, rows[r], rows'[r])
  <2>1. CASE r = Relation(x)
    BY <1>1, <2>1 DEF Changes, Is, Exists
  <2>2. CASE r # Relation(x)
    BY <1>1, <2>2 DEF Changes
  <2> QED
    BY <2>1, <2>2
<1>3. TenantsChange(x)
  <2>1. ASSUME NEW t \in Tenants
        PROVE  rows'[Tenant(t)] = rows[Tenant(t)]
    <3>1. Tenant(t) \in Rows /\ Tenant(t)[1] = "Tenant"
      BY RelationshipRow, Tags
    <3> QED
      BY <1>1, <3>1
  <2> QED
    BY <2>1 DEF TenantsChange
<1>4. RelationsChange(x)
  <2> SUFFICES ASSUME NEW u \in Users, NEW t \in Tenants, NEW r,
                      r = TradingRelationship(u, t), rows'[r] # rows[r]
               PROVE  /\ u = x.user /\ t = x.tenant
                      /\ \/ /\ x.does \in {"active", "invitation"}
                            /\ ~Is(r, "PENDING by BUYER")
                            /\ rows'[r] = NewRow("PENDING by SELLER")
                         \/ /\ x.does = "active"
                            /\ rows'[r] = NewRow("ACTIVE")
                            /\ rows'[Membership(x)] # None
                         \/ /\ x.does = "request"
                            /\ ~Is(r, "PENDING by SELLER")
                            /\ rows'[r] = NewRow("PENDING by BUYER")
    BY DEF RelationsChange
  <2>1. r \in Rows /\ r[1] = "TradingRelationship"
    <3>1. r \in Rows
      BY RelationshipRow
    <3>2. r[1] = "TradingRelationship"
      BY DEF TradingRelationship
    <3> QED
      BY <3>1, <3>2
  <2>2. r = Relation(x)
    <3>1. r # Membership(x)
      BY <1>1, <2>1
    <3>2. CASE r # Relation(x)
      <4>1. rows'[r] = rows[r]
        BY <2>1, <3>1, <3>2
      <4> QED
        BY <4>1
    <3> QED
      BY <3>2
  <2>3. u = x.user /\ t = x.tenant
    BY <2>2, RelationOf
  <2> QED
    BY <2>2, <2>3 DEF Is, Exists
<1> QED
  BY <1>2, <1>3, <1>4 DEF RowsStep

LEMMA InviteEffect ==
    ASSUME Types, Progress, NEW p \in Operators, NEW x, x = Task(p), inviteBuyerForCustomer(p)
    PROVE  Effect(p, x)
<1>1. /\ job[p].result = "running" /\ x.does \in {"active", "invitation"}
      /\ x.does \in SetUp /\ x.does # "buyer" /\ x.does \notin Creates
      /\ job[p].step = "invite"
  BY DEF inviteBuyerForCustomer, Doing, SetUp, Creates
<1>2. x \in AnyTask /\ Relation(x) = Relationship(p) /\ (Firm => Related(x, job[p]))
  BY <1>1, Here DEF Relation, Relationship
<1>3. PICK r \in Rows : r = Relation(x)
  BY <1>1, <1>2, TaskFacts
<1>4. CASE Stop(p, "failed")
  BY <1>4, StopEffect
<1>5. CASE ~Stop(p, "failed")
  <2> DEFINE new == [rows EXCEPT ![r] = IF Is(r, "PENDING by BUYER") THEN @
                                        ELSE NewRow("PENDING by SELLER")]
  <2>1. PICK step \in Steps : step = IF x.does = "active" THEN "accept" ELSE "end"
    BY DEF Steps
  <2>2. Commit(p, new, step) /\ ~Is(r, "ACTIVE")
    <3>1. /\ ~Is(Relationship(p), "ACTIVE")
          /\ Commit(p, [rows EXCEPT ![Relationship(p)] =
                            IF Is(Relationship(p), "PENDING by BUYER") THEN @
                            ELSE NewRow("PENDING by SELLER")],
                    IF Task(p).does = "active" THEN "accept" ELSE "end")
      BY <1>5 DEF inviteBuyerForCustomer
    <3>2. r = Relationship(p)
      BY <1>2, <1>3
    <3>3. step = IF Task(p).does = "active" THEN "accept" ELSE "end"
      BY <2>1
    <3> QED
      BY <3>1, <3>2, <3>3 DEF Commit, Write
  <2>3. rows' = new /\ UNCHANGED installation
    BY <2>2 DEF Commit, Write
  <2>4. /\ rows'[r] = IF Is(r, "PENDING by BUYER") THEN rows[r]
                      ELSE NewRow("PENDING by SELLER")
        /\ \A q \in Rows \ {r} : rows'[q] = rows[q]
    BY <1>3, <2>3 DEF Types, RowsOK
  <2>5. RowsGrow
    BY RelationshipMoves DEF Moves
  <2>6. RowsStep(x)
    BY <1>1, <1>2, <1>3, <2>2, <2>4, <2>5, RelationRowsStep
  <2> HIDE DEF new
  <2>7. CASE x.does = "active"
    <3>1. \A j \in Jobs : j.result = "running" /\ j.step = step /\ DOMAIN j.draft = {} =>
              DraftFits(x, j) /\ Found(x, j)' /\ (Firm => Related(x, j)')
      BY <1>1, <2>1, <2>7 DEF DraftFits, Found, Related, Creates
    <3>2. step # "end" /\ job[p].result = "running"
      BY <1>1, <2>1, <2>7
    <3> QED
      BY <2>2, <2>6, <3>1, <3>2, CommitEffect
  <2>8. CASE x.does = "invitation"
    <3>1. ASSUME Steady, Expected(x) PROVE Met(x)'
      <4>1. Firm
        BY <1>1, <3>1 DEF Firm, Expected
      <4>2. ~Is(r, "PENDING by BUYER")
        BY <1>1, <1>2, <1>3, <2>8, <4>1 DEF Related
      <4>3. rows'[r] = NewRow("PENDING by SELLER")
        BY <2>4, <4>2
      <4>4. Is(r, "PENDING by SELLER")'
        BY <4>3, SomeRow DEF Is, Exists, Values
      <4> QED
        BY <1>3, <2>8, <4>4 DEF Met, Target, Relation
    <3>2. Commit(p, new, "end") /\ job[p].result = "running"
      BY <1>1, <2>1, <2>2, <2>8
    <3> QED
      BY <2>6, <3>1, <3>2, CommitEndEffect
  <2> QED
    BY <1>1, <2>7, <2>8
<1> QED
  BY <1>4, <1>5

LEMMA AcceptEffect ==
    ASSUME Types, Progress, NEW p \in Operators, NEW x, x = Task(p), acceptInvitation(p)
    PROVE  Effect(p, x)
<1>1. /\ job[p].result = "running" /\ x.does = "active"
      /\ x.does \in SetUp /\ x.does # "buyer" /\ x.does \notin Creates
  BY DEF acceptInvitation, Doing, SetUp, Creates
<1>2. x \in AnyTask /\ Relation(x) = Relationship(p)
  BY <1>1, Here DEF Relation, Relationship
<1>3. PICK r \in Rows, m \in Rows : r = Relation(x) /\ m = Membership(x)
  BY <1>1, <1>2, TaskFacts
<1>4. CASE Stop(p, "failed")
  BY <1>4, StopEffect
<1>5. CASE ~Stop(p, "failed")
  <2> DEFINE new == [rows EXCEPT ![r] = NewRow("ACTIVE"), ![m] = NewRow("BUYER_ADMIN")]
  <2>1. PICK step \in Steps : step = "price list"
    BY DEF Steps
  <2>2. Commit(p, new, step) /\ Is(r, "PENDING by SELLER")
    BY <1>2, <1>3, <1>5, <2>1 DEF acceptInvitation, Commit, Write, Membership
  <2>3. rows' = new
    BY <2>2 DEF Commit, Write
  <2>4. r # m
    <3>1. r[1] = "TradingRelationship" /\ m[1] = "CustomerMembership"
      BY <1>3, Tags DEF Relation, Membership
    <3> QED
      BY <3>1
  <2>5. /\ rows'[r] = NewRow("ACTIVE") /\ rows'[m] = NewRow("BUYER_ADMIN")
        /\ \A q \in Rows \ {r, m} : rows'[q] = rows[q]
    BY <1>3, <2>3, <2>4 DEF Types, RowsOK
  <2>6. RowsGrow
    BY RelationshipMoves DEF Moves
  <2>7. rows'[m] # None /\ ~Is(r, "ACTIVE")
    BY <2>2, <2>5, SomeRow DEF Is, Values
  <2>8. RowsStep(x)
    BY <1>1, <1>2, <1>3, <2>5, <2>6, <2>7, RelationRowsStep
  <2>9. Is(r, "ACTIVE")' /\ Exists(m)'
    BY <2>5, <2>7, SomeRow DEF Is, Exists, Values
  <2>10. \A j \in Jobs : j.result = "running" /\ j.step = step /\ DOMAIN j.draft = {} =>
             DraftFits(x, j) /\ Found(x, j)' /\ (Firm => Related(x, j)')
    BY <1>1, <1>3, <2>1, <2>9 DEF DraftFits, Found, Related, Creates
  <2>11. step # "end" /\ job[p].result = "running"
    BY <1>1, <2>1
  <2> HIDE DEF new
  <2> QED
    BY <2>2, <2>8, <2>10, <2>11, CommitEffect
<1> QED
  BY <1>4, <1>5

LEMMA RequestEffect ==
    ASSUME Types, Progress, NEW p \in Operators, NEW x, x = Task(p), requestConnection(p)
    PROVE  Effect(p, x)
<1>1. /\ job[p].result = "running" /\ x.does = "request"
      /\ x.does \in SetUp /\ x.does # "buyer" /\ job[p].step = "request"
  BY DEF requestConnection, Doing, SetUp
<1>2. x \in AnyTask /\ Relation(x) = Relationship(p) /\ (Firm => Related(x, job[p]))
  BY <1>1, Here DEF Relation, Relationship
<1>3. PICK r \in Rows : r = Relation(x)
  BY <1>1, <1>2, TaskFacts
<1>4. CASE Stop(p, "failed")
  BY <1>4, StopEffect
<1>5. CASE ~Stop(p, "failed")
  <2> DEFINE new == [rows EXCEPT ![r] = IF Is(r, "PENDING by SELLER") THEN @
                                        ELSE NewRow("PENDING by BUYER")]
  <2>1. Commit(p, new, "end") /\ ~Is(r, "ACTIVE")
    <3>1. /\ ~Is(Relationship(p), "ACTIVE")
          /\ Commit(p, [rows EXCEPT ![Relationship(p)] =
                            IF Is(Relationship(p), "PENDING by SELLER") THEN @
                            ELSE NewRow("PENDING by BUYER")], "end")
      BY <1>5 DEF requestConnection
    <3>2. r = Relationship(p)
      BY <1>2, <1>3
    <3> QED
      BY <3>1, <3>2 DEF Commit, Write
  <2>2. rows' = new
    BY <2>1 DEF Commit, Write
  <2>3. /\ rows'[r] = IF Is(r, "PENDING by SELLER") THEN rows[r]
                      ELSE NewRow("PENDING by BUYER")
        /\ \A q \in Rows \ {r} : rows'[q] = rows[q]
    BY <1>3, <2>2 DEF Types, RowsOK
  <2>4. RowsGrow
    BY RelationshipMoves DEF Moves
  <2>5. RowsStep(x)
    BY <1>1, <1>2, <1>3, <2>1, <2>3, <2>4, RelationRowsStep
  <2>6. ASSUME Steady, Expected(x) PROVE Met(x)'
    <3>1. Firm
      BY <1>1, <2>6 DEF Firm, Expected
    <3>2. ~Is(r, "PENDING by SELLER")
      BY <1>1, <1>2, <1>3, <3>1 DEF Related
    <3>3. rows'[r] = NewRow("PENDING by BUYER")
      BY <2>3, <3>2
    <3>4. Is(r, "PENDING by BUYER")'
      BY <3>3, SomeRow DEF Is, Exists, Values
    <3> QED
      BY <1>1, <1>3, <3>4 DEF Met, Target, Relation
  <2>7. job[p].result = "running"
    BY <1>1
  <2> HIDE DEF new
  <2> QED
    BY <2>1, <2>5, <2>6, <2>7, CommitEndEffect
<1> QED
  BY <1>4, <1>5

LEMMA PriceListEffect ==
    ASSUME Types, Progress, NEW p \in Operators, NEW x, x = Task(p),
           ensureStandardPriceListAssigned(p)
    PROVE  Effect(p, x)
<1>1. /\ job[p].result = "running" /\ x.does = "active"
      /\ job[p].step \in {"price list", "assignment", "assign"}
  BY DEF ensureStandardPriceListAssigned, Doing
<1>2. /\ x \in AnyTask /\ (Firm => Related(x, job[p]))
      /\ Steady => \A r \in Rows : Exists(r) => On(r)
  BY <1>1, Here
<1>3. PICK r \in Rows, m \in Rows, k \in Rows :
          r = Relation(x) /\ m = Membership(x) /\ k = Customer(x.customer)
  BY <1>1, <1>2, TaskFacts
<1>4. Firm => Is(r, "ACTIVE") /\ Exists(m) /\ On(m)
  BY <1>1, <1>2, <1>3 DEF Related, Firm
<1>5. CASE \E step \in {"assignment", "assign"} : Proceed(p, step)
  <2>1. PICK step \in {"assignment", "assign"} : Proceed(p, step)
    BY <1>5
  <2>2. /\ step \in Steps
        /\ step \notin {"create user", "create membership", "admin", "membership",
                        "invite", "request"}
    BY <2>1 DEF Steps
  <2>3. Firm => /\ x.does = "active" /\ step \in {"price list", "assignment", "assign"} =>
                       Is(Relation(x), "ACTIVE") /\ Exists(Membership(x))
                /\ x.does = "invitation" /\ step = "invite" =>
                       ~Is(Relation(x), "PENDING by BUYER")
                /\ x.does = "request" /\ step = "request" =>
                       ~Is(Relation(x), "PENDING by SELLER")
    BY <1>3, <1>4, <2>2
  <2>4. /\ step \in {"create user", "create membership"} => x.does \notin Creates
        /\ x.does = "tenant" /\ step \in {"admin", "membership"} => Exists(Tenant(x.tenant))
        /\ x.does \in {"tenant", "pilot buyer"} /\ step = "membership" =>
               Exists(User(x.user))
        /\ x.does = "pilot buyer" /\ step = "create membership" => Exists(User(x.user))
    BY <2>2
  <2>5. job[p].result = "running"
    BY <1>1
  <2> QED
    BY <2>1, <2>2, <2>3, <2>4, <2>5, ProceedTo
<1>6. CASE Stop(p, "refused") \/ Stop(p, "failed")
  BY <1>1, <1>6, StopEffect DEF RefusedFor
<1>7. CASE Skip(p) /\ Is(k, "STD")
  <2>1. Firm => Met(x)
    BY <1>1, <1>3, <1>4, <1>7 DEF Met, Relation, Membership
  <2>2. Steady /\ Expected(x) => Met(x)
    BY <1>1, <2>1 DEF Firm, Expected, SetUp
  <2>3. UNCHANGED rows
    BY <1>7 DEF Skip, tableVars
  <2>4. Met(x)' <=> Met(x)
    BY <2>3, MetSame
  <2> QED
    BY <1>1, <1>7, <2>2, <2>4, SkipEffect
<1>8. CASE Exists(k) /\ Commit(p, [rows EXCEPT ![k].is = "STD"], "end")
  <2> DEFINE new == [rows EXCEPT ![k].is = "STD"]
  <2>1. rows' = new
    BY <1>8 DEF Commit, Write
  <2>2. k[1] = "Customer" /\ k # r /\ k # m
    <3>1. /\ r[1] = "TradingRelationship" /\ m[1] = "CustomerMembership"
          /\ k[1] = "Customer"
      BY <1>3, RelationTags, Tags
    <3> QED
      BY <3>1
  <2>3. /\ rows'[k] = [rows[k] EXCEPT !.is = "STD"]
        /\ \A q \in Rows \ {k} : rows'[q] = rows[q]
    BY <1>3, <2>1 DEF Types, RowsOK
  <2>4. PICK row \in Row : row = rows[k] /\ row # None
    BY <1>8 DEF Types, RowsOK, Exists
  <2>5. RowsStep(x)
    <3>1. RowsGrow
      BY PriceListMoves DEF Moves
    <3>2. ASSUME NEW q \in Rows, rows'[q] # rows[q]
          PROVE  q[1] = "Customer" /\ Changes(q, rows[q], rows'[q])
      <4>1. q = k
        BY <2>3, <3>2
      <4> QED
        BY <2>2, <2>3, <2>4, <4>1 DEF Changes
    <3> QED
      BY <3>1, <3>2, OtherRowsStep
  <2>6. ASSUME Firm PROVE Met(x)'
    <3>1. rows'[r] = rows[r] /\ rows'[m] = rows[m]
      BY <1>3, <2>2, <2>3
    <3>2. Is(r, "ACTIVE")' /\ On(m)'
      BY <1>4, <2>6, <3>1 DEF Is, On, Exists
    <3>3. Is(k, "STD")'
      <4>1. rows'[k] = [row EXCEPT !.is = "STD"]
        BY <2>3, <2>4
      <4>2. [row EXCEPT !.is = "STD"] \in Row /\ [row EXCEPT !.is = "STD"].is = "STD"
        BY <2>4 DEF Row, Values
      <4> QED
        BY <4>1, <4>2 DEF Is, Exists
    <3> QED
      BY <1>1, <1>3, <3>2, <3>3 DEF Met, Relation, Membership
  <2>7. Steady /\ Expected(x) => Met(x)'
    BY <1>1, <2>6 DEF Firm, Expected, SetUp
  <2>8. job[p].result = "running" /\ Commit(p, new, "end")
    BY <1>1, <1>8
  <2> HIDE DEF new
  <2> QED
    BY <2>5, <2>7, <2>8, CommitEndEffect
<1> QED
  BY <1>3, <1>5, <1>6, <1>7, <1>8 DEF ensureStandardPriceListAssigned

LEMMA StartEffect ==
    ASSUME Types, Progress, NEW p \in Operators, NEW x, Start(p)
    PROVE  Effect(p, x)
<1>1. PICK i \in Jobs : i = job[p]
  BY JobTyped
<1>2. PICK n \in Nat : n = i.starts + 1
  BY <1>1 DEF Jobs
<1> DEFINE j == [i EXCEPT !.task = 1, !.step = "start", !.result = "running", !.starts = n]
<1>3. /\ j \in Jobs /\ j.result = "running" /\ j.task = 1 /\ j.step = "start"
      /\ j.draft = i.draft
  BY <1>1, <1>2, ZenonT(60) DEF Jobs, Steps
<1>4. job' = [job EXCEPT ![p] = j]
  BY <1>1, <1>2, JobTyped DEF Start, Types, JobsOK
<1>5. DOMAIN i.draft = {}
  BY <1>1 DEF Start, Progress, DraftFits
<1>6. UNCHANGED <<installation, rows>>
  BY DEF Start, tableVars
<1> HIDE DEF j
<1>7. Starts(j)
  BY <1>3, <1>5 DEF Starts
<1> QED
  BY <1>3, <1>4, <1>6, <1>7, SameRows DEF Effect, JobStep

(* Whatever operator p does.                                                    *)
LEMMA ScriptEffect ==
    ASSUME Types, Progress, NEW p \in Operators, Start(p) \/ Interrupt(p) \/ Perform(p)
    PROVE  \E x \in Wanted :
               /\ Effect(p, x)
               /\ x = Task(p) \/ (job[p].result # "running" /\ job'[p].result = "running")
<1>1. CASE Start(p)
  <2>1. Script(p) \in Seq(AnyTask) /\ Script(p) # <<>>
    BY <1>1, ScriptTyped DEF Start
  <2>2. 1 \in 1..Len(Script(p))
    BY <2>1
  <2>3. PICK x : x = Script(p)[1]
    OBVIOUS
  <2>4. x \in Wanted
    BY <2>2, <2>3 DEF Wanted, Tasks
  <2>5. job[p].result # "running" /\ job'[p].result = "running"
    <3>1. PICK i \in Jobs : i = job[p]
      BY JobTyped
    <3> QED
      BY <1>1, <3>1 DEF Start, Types, JobsOK, Jobs
  <2> QED
    BY <1>1, <2>4, <2>5, StartEffect
<1>2. CASE Interrupt(p) \/ Perform(p)
  <2>1. job[p].result = "running"
    BY <1>2, PerformMoves DEF Interrupt, acquireBootstrapLock, Doing
  <2>2. PICK x : x = Task(p)
    OBVIOUS
  <2>3. x \in Wanted
    BY <2>1, <2>2, Here
  <2>4. CASE Interrupt(p)
    BY <2>2, <2>3, <2>4, StopEffect DEF Interrupt
  <2>5. CASE Perform(p)
    BY <2>2, <2>3, <2>5, BootstrapEffect, AcquireEffect, CreateTenantEffect,
       PilotReadsEffect, PilotMembershipEffect, DemoTenantEffect, DemoBuyerEffect,
       ImportEffect, RequiredEffect, ReconcileEffect, InviteEffect, AcceptEffect,
       RequestEffect, PriceListEffect
    DEF Perform
  <2> QED
    BY <1>2, <2>4, <2>5
<1> QED
  BY <1>1, <1>2

-------------------------------------------------------------------------------
(* What a step of a script keeps for everybody.                                 *)

LEMMA WantedTyped ==
    ASSUME Types, NEW y \in Wanted
    PROVE  y \in AnyTask
<1>1. PICK q \in Operators : y \in Tasks(q)
  BY DEF Wanted
<1>2. PICK i \in 1..Len(Script(q)) : y = Script(q)[i]
  BY <1>1 DEF Tasks
<1> QED
  BY <1>2, ScriptTyped

LEMMA GrowKeeps ==
    ASSUME RowsGrow, NEW r \in Rows, Exists(r)
    PROVE  Exists(r)'
BY DEF RowsGrow

LEMMA FoundKept ==
    ASSUME RowsGrow, NEW y \in AnyTask, NEW i, Found(y, i)
    PROVE  Found(y, i)'
<1>1. User(y.user) \in Rows /\ (y.does # "buyer" => Tenant(y.tenant) \in Rows)
  BY TaskFacts
<1>2. Exists(User(y.user)) => Exists(User(y.user))'
  BY <1>1, GrowKeeps
<1>3. y.does = "tenant" => (Exists(Tenant(y.tenant)) => Exists(Tenant(y.tenant))')
  BY <1>1, GrowKeeps
<1> QED
  BY <1>2, <1>3 DEF Found

LEMMA OnKept ==
    ASSUME Types, NEW x, RowsStep(x), \A r \in Rows : Exists(r) => On(r)
    PROVE  \A r \in Rows : Exists(r)' => On(r)'
<1> SUFFICES ASSUME NEW r \in Rows, Exists(r)' PROVE On(r)'
  OBVIOUS
<1>1. Changes(r, rows[r], rows'[r]) /\ rows'[r] # None
  BY DEF RowsStep, Exists
<1>2. \A is \in Values : NewRow(is).on = TRUE
  BY SomeRow
<1>3. CASE rows'[r] = rows[r]
  BY <1>1, <1>3 DEF On, Exists
<1>4. CASE rows[r] # None /\ rows'[r] = [rows[r] EXCEPT !.is = "STD"]
  <2>1. PICK row \in Row : row = rows[r] /\ row.on
    BY <1>4 DEF Types, RowsOK, On, Exists
  <2>2. [row EXCEPT !.is = "STD"].on
    BY <2>1 DEF Row
  <2> QED
    BY <1>1, <1>4, <2>1, <2>2 DEF On, Exists
<1>5. CASE \E is \in Values : rows'[r] = NewRow(is)
  BY <1>1, <1>2, <1>5 DEF On, Exists
<1>6. {"expected name", "SELLER_ADMIN", "BUYER_ADMIN", "no price list", "PENDING by SELLER",
       "PENDING by BUYER", "ACTIVE"} \subseteq Values
  BY DEF Values
<1> QED
  BY <1>1, <1>3, <1>4, <1>5, <1>6 DEF Changes

(* The values that no script changes again.                                     *)
LEMMA Settled ==
    ASSUME Types, NEW x, RowsStep(x), NEW r \in Rows
    PROVE  /\ r[1] \in {"User", "Tenant"} /\ Is(r, "expected name") => Is(r, "expected name")'
           /\ r[1] = "TenantMembership" /\ Is(r, "SELLER_ADMIN") => Is(r, "SELLER_ADMIN")'
           /\ r[1] = "TradingRelationship" /\ Is(r, "ACTIVE") => Is(r, "ACTIVE")'
           /\ r[1] = "Customer" /\ Is(r, "STD") => Is(r, "STD")'
<1>1. Changes(r, rows[r], rows'[r])
  BY DEF RowsStep
<1>2. NewRow("expected name").is = "expected name" /\ NewRow("expected name") # None
  BY SomeRow DEF Values
<1>3. r[1] \in {"User", "Tenant"} /\ Is(r, "expected name") => Is(r, "expected name")'
  BY <1>1, <1>2 DEF Changes, Is, Exists
<1>4. r[1] = "TenantMembership" /\ Is(r, "SELLER_ADMIN") => Is(r, "SELLER_ADMIN")'
  BY <1>1 DEF Changes, Is, Exists
<1>5. r[1] = "TradingRelationship" /\ Is(r, "ACTIVE") => Is(r, "ACTIVE")'
  BY <1>1 DEF Changes, Is, Exists
<1>6. ASSUME r[1] = "Customer", Is(r, "STD")
      PROVE  Is(r, "STD")'
  <2>1. PICK row \in Row : row = rows[r]
    BY <1>6 DEF Types, RowsOK, Is, Exists
  <2>2. [row EXCEPT !.is = "STD"].is = "STD" /\ [row EXCEPT !.is = "STD"] \in Row
    BY <2>1 DEF Row, Values
  <2>3. rows'[r] = rows[r] \/ rows'[r] = [row EXCEPT !.is = "STD"]
    BY <1>1, <1>6, <2>1 DEF Changes, Is, Exists
  <2> QED
    BY <1>6, <2>2, <2>3 DEF Is, Exists
<1> QED
  BY <1>3, <1>4, <1>5, <1>6

(* Only the scripts that set a relationship up change it.                       *)
LEMMA RelationKept ==
    ASSUME Types, OneRelationship, NEW x \in Wanted, NEW y \in Wanted,
           RowsStep(x), y.does \in SetUp, rows'[Relation(y)] # rows[Relation(y)]
    PROVE  /\ y.does = "invitation" => rows'[Relation(y)] = NewRow("PENDING by SELLER")
           /\ y.does = "request" => rows'[Relation(y)] = NewRow("PENDING by BUYER")
           /\ y.does = "active" => \/ rows'[Relation(y)] = NewRow("PENDING by SELLER")
                                   \/ rows'[Membership(y)] # None
<1>1. y \in AnyTask
  BY WantedTyped
<1>2. PICK u \in Users, t \in Tenants : u = y.user /\ t = y.tenant
  BY <1>1, TaskFacts DEF SetUp
<1>3. PICK r : r = TradingRelationship(u, t) /\ r = Relation(y)
  BY <1>2 DEF Relation
<1>4. /\ u = x.user /\ t = x.tenant
      /\ \/ x.does \in {"active", "invitation"} /\ rows'[r] = NewRow("PENDING by SELLER")
         \/ x.does = "active" /\ rows'[r] = NewRow("ACTIVE") /\ rows'[Membership(x)] # None
         \/ x.does = "request" /\ rows'[r] = NewRow("PENDING by BUYER")
  <2>1. rows'[r] # rows[r] /\ RelationsChange(x)
    BY <1>3 DEF RowsStep
  <2>2. \/ rows'[r] = rows[r]
        \/ /\ u = x.user /\ t = x.tenant
           /\ \/ x.does \in {"active", "invitation"} /\ rows'[r] = NewRow("PENDING by SELLER")
              \/ x.does = "active" /\ rows'[r] = NewRow("ACTIVE") /\ rows'[Membership(x)] # None
              \/ x.does = "request" /\ rows'[r] = NewRow("PENDING by BUYER")
    BY <1>3, <2>1 DEF RelationsChange
  <2> QED
    BY <2>1, <2>2
<1>5. x = y
  BY <1>2, <1>4 DEF OneRelationship, SetUp
<1> QED
  BY <1>3, <1>4, <1>5

LEMMA MetKept ==
    ASSUME Types, NEW x \in Wanted, NEW y \in Wanted, RowsStep(x),
           \A r \in Rows : Exists(r) => On(r), Expected(y), Met(y)
    PROVE  Met(y)'
<1>1. y \in AnyTask
  BY WantedTyped
<1>2. ASSUME NEW r \in Rows, On(r)
      PROVE  On(r)'
  BY <1>2, OnKept, GrowKeeps DEF RowsStep, On
<1>3. User(y.user) \in Rows /\ User(y.user)[1] = "User"
  BY <1>1, TaskFacts, Tags
<1>4. CASE y.does \in Creates
  <2>1. PICK r \in Rows, t \in Rows :
            r = TenantMembership(y.user, y.tenant) /\ t = Tenant(y.tenant)
    BY <1>1, <1>4, TaskFacts DEF Creates
  <2>2. r[1] = "TenantMembership"
    BY <2>1, Tags
  <2>3. On(t) /\ On(User(y.user)) /\ On(r) /\ Is(r, "SELLER_ADMIN")
    BY <1>4, <2>1 DEF Met, Has, Creates
  <2>4. On(t)' /\ On(User(y.user))' /\ On(r)' /\ Is(r, "SELLER_ADMIN")'
    BY <1>2, <1>3, <2>2, <2>3, Settled
  <2> QED
    BY <1>4, <2>1, <2>4 DEF Met, Has, Creates
<1>5. CASE y.does = "buyer"
  <2>1. Has(User(y.user), "expected name")
    BY <1>5 DEF Met
  <2>2. Has(User(y.user), "expected name")'
    BY <1>2, <1>3, <2>1, Settled DEF Has
  <2> QED
    BY <1>5, <2>2 DEF Met
<1>6. CASE y.does = "import"
  <2>1. StandardPriceList(y.tenant) \in Rows /\ On(StandardPriceList(y.tenant))
    BY <1>1, <1>6, TaskFacts DEF Met
  <2> QED
    BY <1>2, <1>6, <2>1 DEF Met
<1>7. CASE y.does = "pilot buyer"
  <2>1. PICK m \in Rows : m = CustomerMembership(y.user, y.customer)
    BY <1>1, <1>7, TaskFacts DEF Membership
  <2>2. On(User(y.user)) /\ On(m)
    BY <1>7, <2>1 DEF Met
  <2>3. On(User(y.user))' /\ On(m)'
    BY <1>2, <1>3, <2>2
  <2> QED
    BY <1>7, <2>1, <2>3 DEF Met
<1>8. CASE y.does = "active"
  <2>1. PICK r \in Rows, m \in Rows, k \in Rows :
            r = Relation(y) /\ m = Membership(y) /\ k = Customer(y.customer)
    BY <1>1, <1>8, TaskFacts
  <2>2. r[1] = "TradingRelationship" /\ k[1] = "Customer"
    BY <2>1, RelationTags, Tags
  <2>3. Is(r, "ACTIVE") /\ On(m) /\ Is(k, "STD")
    BY <1>8, <2>1 DEF Met, Relation, Membership
  <2>4. Is(r, "ACTIVE")' /\ On(m)' /\ Is(k, "STD")'
    BY <1>2, <2>2, <2>3, Settled
  <2> QED
    BY <1>8, <2>1, <2>4 DEF Met, Relation, Membership
<1>9. CASE y.does = "invitation"
  <2>1. PICK r : r = Relation(y)
    OBVIOUS
  <2>2. Is(r, "PENDING by SELLER")
    BY <1>9, <2>1 DEF Met, Relation, Target
  <2>3. rows'[r] = rows[r] \/ rows'[r] = NewRow("PENDING by SELLER")
    BY <1>9, <2>1, RelationKept DEF Expected, SetUp
  <2>4. Is(r, "PENDING by SELLER")'
    BY <2>2, <2>3, SomeRow DEF Is, Exists, Values
  <2> QED
    BY <1>9, <2>1, <2>4 DEF Met, Relation, Target
<1>10. CASE y.does = "request"
  <2>1. PICK r : r = Relation(y)
    OBVIOUS
  <2>2. Is(r, "PENDING by BUYER")
    BY <1>10, <2>1 DEF Met, Relation, Target
  <2>3. rows'[r] = rows[r] \/ rows'[r] = NewRow("PENDING by BUYER")
    BY <1>10, <2>1, RelationKept DEF Expected, SetUp
  <2>4. Is(r, "PENDING by BUYER")'
    BY <2>2, <2>3, SomeRow DEF Is, Exists, Values
  <2> QED
    BY <1>10, <2>1, <2>4 DEF Met, Relation, Target
<1> QED
  BY <1>1, <1>4, <1>5, <1>6, <1>7, <1>8, <1>9, <1>10 DEF AnyTask, Creates

LEMMA MembershipKept ==
    ASSUME Types, OneRelationship, NEW x \in Wanted, NEW y \in Wanted, RowsStep(x),
           y.does = "active", Is(Relation(y), "ACTIVE") => Exists(Membership(y)),
           Is(Relation(y), "ACTIVE")'
    PROVE  Exists(Membership(y))'
<1>1. Membership(y) \in Rows
  BY WantedTyped, TaskFacts
<1>2. CASE rows'[Relation(y)] = rows[Relation(y)]
  <2>1. Is(Relation(y), "ACTIVE")
    BY <1>2 DEF Is, Exists
  <2> QED
    BY <1>1, <2>1, GrowKeeps DEF RowsStep
<1>3. CASE rows'[Relation(y)] # rows[Relation(y)]
  <2>1. rows'[Relation(y)] = NewRow("PENDING by SELLER") \/ rows'[Membership(y)] # None
    BY <1>3, RelationKept DEF SetUp
  <2>2. NewRow("PENDING by SELLER").is # "ACTIVE"
    BY DEF NewRow
  <2> QED
    BY <2>1, <2>2 DEF Is, Exists
<1> QED
  BY <1>2, <1>3

LEMMA RelatedKept ==
    ASSUME Types, OneRelationship, NEW x \in Wanted, NEW y \in Wanted, RowsStep(x),
           NEW i, Related(y, i)
    PROVE  Related(y, i)'
<1> SUFFICES ASSUME i.result = "running"
             PROVE  Related(y, i)'
  BY DEF Related
<1>1. ASSUME y.does = "active", i.step \in {"price list", "assignment", "assign"}
      PROVE  Is(Relation(y), "ACTIVE")' /\ Exists(Membership(y))'
  <2>1. PICK r \in Rows, m \in Rows : r = Relation(y) /\ m = Membership(y)
    BY <1>1, WantedTyped, TaskFacts
  <2>2. r[1] = "TradingRelationship"
    BY <2>1, RelationTags
  <2>3. Is(r, "ACTIVE") /\ Exists(m)
    BY <1>1, <2>1 DEF Related
  <2>4. Is(r, "ACTIVE")' /\ Exists(m)'
    BY <2>2, <2>3, Settled, GrowKeeps DEF RowsStep
  <2> QED
    BY <2>1, <2>4
<1>2. ASSUME y.does = "invitation", i.step = "invite"
      PROVE  ~Is(Relation(y), "PENDING by BUYER")'
  <2>1. ~Is(Relation(y), "PENDING by BUYER")
    BY <1>2 DEF Related
  <2>2. \/ rows'[Relation(y)] = rows[Relation(y)]
        \/ rows'[Relation(y)] = NewRow("PENDING by SELLER")
    BY <1>2, RelationKept DEF SetUp
  <2>3. NewRow("PENDING by SELLER").is # "PENDING by BUYER"
    BY DEF NewRow
  <2> QED
    BY <2>1, <2>2, <2>3 DEF Is, Exists
<1>3. ASSUME y.does = "request", i.step = "request"
      PROVE  ~Is(Relation(y), "PENDING by SELLER")'
  <2>1. ~Is(Relation(y), "PENDING by SELLER")
    BY <1>3 DEF Related
  <2>2. \/ rows'[Relation(y)] = rows[Relation(y)]
        \/ rows'[Relation(y)] = NewRow("PENDING by BUYER")
    BY <1>3, RelationKept DEF SetUp
  <2>3. NewRow("PENDING by BUYER").is # "PENDING by SELLER"
    BY DEF NewRow
  <2> QED
    BY <2>1, <2>2, <2>3 DEF Is, Exists
<1> QED
  BY <1>1, <1>2, <1>3 DEF Related

(* A tenant that was created has its admin.                                     *)
LEMMA AdminKept ==
    ASSUME Types, OneAdmin, NEW x \in Wanted, NEW y \in Wanted, RowsStep(x),
           y.does \in Creates,
           Exists(Tenant(y.tenant)) =>
               /\ Exists(User(y.user))
               /\ Is(TenantMembership(y.user, y.tenant), "SELLER_ADMIN"),
           Exists(Tenant(y.tenant))'
    PROVE  Exists(User(y.user))' /\ Is(TenantMembership(y.user, y.tenant), "SELLER_ADMIN")'
<1>1. PICK t \in Tenants, u \in Rows, r \in Rows, h \in Rows :
          /\ t = y.tenant /\ h = Tenant(y.tenant)
          /\ u = User(y.user) /\ r = TenantMembership(y.user, y.tenant)
  BY WantedTyped, TaskFacts DEF Creates
<1>2. r[1] = "TenantMembership"
  BY <1>1, Tags
<1>3. CASE rows'[h] = rows[h]
  <2>1. Exists(u) /\ Is(r, "SELLER_ADMIN")
    BY <1>1, <1>3 DEF Exists
  <2>2. Exists(u)' /\ Is(r, "SELLER_ADMIN")'
    BY <1>2, <2>1, Settled, GrowKeeps DEF RowsStep
  <2> QED
    BY <1>1, <2>2
<1>4. CASE rows'[h] # rows[h]
  <2>1. h = Tenant(t)
    BY <1>1
  <2>2. /\ t = x.tenant /\ x.does \in Creates
        /\ rows'[User(x.user)] # None
        /\ rows'[TenantMembership(x.user, x.tenant)] = NewRow("SELLER_ADMIN")
    BY <1>4, <2>1 DEF RowsStep, TenantsChange
  <2>3. x.user = y.user
    BY <1>1, <2>2 DEF OneAdmin
  <2>4. rows'[u] # None /\ rows'[r] = NewRow("SELLER_ADMIN")
    BY <1>1, <2>2, <2>3
  <2>5. Exists(u)' /\ Is(r, "SELLER_ADMIN")'
    BY <2>4, SomeRow DEF Exists, Is, Values
  <2> QED
    BY <1>1, <2>5
<1> QED
  BY <1>3, <1>4

LEMMA NamesKept ==
    ASSUME Types, NEW x, RowsStep(x), NEW r \in Rows, r[1] \in {"User", "Tenant"},
           Exists(r) => Is(r, "expected name"), Exists(r)'
    PROVE  Is(r, "expected name")'
<1>1. Changes(r, rows[r], rows'[r])
  BY DEF RowsStep
<1> QED
  BY <1>1, SomeRow DEF Changes, Is, Exists, Values

-------------------------------------------------------------------------------
(* Progress, by every step.                                                     *)

LEMMA SameBeginning ==
    ASSUME UNCHANGED <<installation, switches>>
    PROVE  /\ Steady' <=> Steady
           /\ Undisturbed' <=> Undisturbed
           /\ OneRelationship' <=> OneRelationship
           /\ OneAdmin' <=> OneAdmin
           /\ InOrder' <=> InOrder
           /\ Wanted' = Wanted
           /\ \A q : Script(q)' = Script(q)
<1>1. Wanted' = Wanted /\ \A q : Script(q)' = Script(q)
  BY DEF Wanted, Tasks, Script
<1>2. (Steady' <=> Steady) /\ (Undisturbed' <=> Undisturbed)
  BY DEF Steady, BeganOn, Undisturbed
<1>3. (OneRelationship' <=> OneRelationship) /\ (OneAdmin' <=> OneAdmin)
  BY <1>1 DEF OneRelationship, OneAdmin
<1>4. InOrder' <=> InOrder
  BY <1>1 DEF InOrder
<1> QED
  BY <1>1, <1>2, <1>3, <1>4

(* After a step, q does y, with its job as j says.                              *)
Goes(q, y, j) ==
    /\ DraftFits(y, j) /\ Found(y, j)'
    /\ Firm => Related(y, j)'
    /\ Sound => ~(j.result = "refused" /\ y.does \in RefusedFor)
    /\ Steady => \A i \in 1..Len(Script(q)) : \A z :
           /\ z = Script(q)[i] /\ Expected(z)
           /\ j.result = "done" \/ (j.result = "running" /\ i < j.task)
           => Met(z)'

LEMMA Before ==
    ASSUME Types, Progress, NEW q \in Operators, NEW y, y = Task(q), NEW k, k = job[q]
    PROVE  /\ DraftFits(y, k) /\ Found(y, k)
           /\ Firm => Related(y, k)
           /\ Sound => ~(k.result = "refused" /\ y.does \in RefusedFor)
           /\ Steady => \A i \in 1..Len(Script(q)) : \A z :
                  /\ z = Script(q)[i] /\ Expected(z)
                  /\ k.result = "done" \/ (k.result = "running" /\ i < k.task)
                  => Met(z)
<1>1. DraftFits(y, k) /\ Found(y, k) /\ (Firm => Related(y, k))
  BY DEF Progress
<1>2. Sound => ~(k.result = "refused" /\ y.does \in RefusedFor)
  BY DEF Progress
<1>3. Steady => \A i \in 1..Len(Script(q)) : \A z :
          /\ z = Script(q)[i] /\ Expected(z)
          /\ k.result = "done" \/ (k.result = "running" /\ i < k.task)
          => Met(z)
  BY DEF Progress, Passed
<1> QED
  BY <1>1, <1>2, <1>3

LEMMA PassedKept ==
    ASSUME Types, Progress, NEW x \in Wanted, RowsStep(x), Steady, NEW q \in Operators,
           NEW i \in 1..Len(Script(q)), NEW z, z = Script(q)[i], Expected(z), Met(z)
    PROVE  Met(z)'
<1>1. z \in Wanted
  <2>1. z \in Tasks(q)
    BY DEF Tasks
  <2> QED
    BY <2>1 DEF Wanted
<1>2. \A r \in Rows : Exists(r) => On(r)
  BY DEF Progress
<1> QED
  BY <1>1, <1>2, MetKept

LEMMA OtherGoes ==
    ASSUME Types, Progress, NEW p \in Operators, NEW x \in Wanted, RowsStep(x),
           NEW q \in Operators, NEW y, y = Task(q), NEW j \in Jobs, j = job[q]
    PROVE  Goes(q, y, j)
<1>1. /\ DraftFits(y, j) /\ Found(y, j)
      /\ Firm => Related(y, j)
      /\ Sound => ~(j.result = "refused" /\ y.does \in RefusedFor)
      /\ Steady => \A i \in 1..Len(Script(q)) : \A z :
             /\ z = Script(q)[i] /\ Expected(z)
             /\ j.result = "done" \/ (j.result = "running" /\ i < j.task)
             => Met(z)
  BY Before
<1>2. CASE j.result # "running"
  <2>1. Found(y, j)' /\ Related(y, j)'
    BY <1>2 DEF Found, Related
  <2>2. Steady => \A i \in 1..Len(Script(q)) : \A z :
            /\ z = Script(q)[i] /\ Expected(z)
            /\ j.result = "done" \/ (j.result = "running" /\ i < j.task)
            => Met(z)'
    BY <1>1, PassedKept
  <2> QED
    BY <1>1, <2>1, <2>2 DEF Goes
<1>3. CASE j.result = "running"
  <2>1. y \in AnyTask /\ y \in Wanted
    BY <1>3, Here
  <2>2. Found(y, j)'
    BY <1>1, <2>1, FoundKept DEF RowsStep
  <2>3. Firm => Related(y, j)'
    BY <1>1, <2>1, RelatedKept DEF Firm
  <2>4. Steady => \A i \in 1..Len(Script(q)) : \A z :
            /\ z = Script(q)[i] /\ Expected(z)
            /\ j.result = "done" \/ (j.result = "running" /\ i < j.task)
            => Met(z)'
    BY <1>1, PassedKept
  <2> QED
    BY <1>1, <2>2, <2>3, <2>4 DEF Goes
<1> QED
  BY <1>2, <1>3

LEMMA OwnGoes ==
    ASSUME Types, Progress, NEW p \in Operators, NEW x \in Wanted, RowsStep(x),
           NEW j \in Jobs, Stays(p, x, j) \/ Ends(p, x, j) \/ Stops(p, x, j) \/ Starts(j),
           x = Task(p) \/ (job[p].result # "running" /\ j.result = "running"),
           NEW y, y = Script(p)[j.task]
    PROVE  Goes(p, y, j)
<1>1. PICK k \in Jobs : k = job[p]
  BY JobTyped
<1>2. /\ k.result = "running" => k.task \in 1..Len(Script(p))
      /\ Len(Script(p)) \in Nat /\ k.task \in Nat /\ j.task \in Nat
  BY <1>1, JobTyped DEF Types, JobsOK, Jobs
<1>3. Steady => \A i \in 1..Len(Script(p)) : \A z :
          /\ z = Script(p)[i] /\ Expected(z)
          /\ k.result = "running" /\ i < k.task
          => Met(z)'
  <2>1. Steady => \A i \in 1..Len(Script(p)) : \A z :
            /\ z = Script(p)[i] /\ Expected(z)
            /\ k.result = "done" \/ (k.result = "running" /\ i < k.task)
            => Met(z)
    <3>1. PICK w : w = Task(p)
      OBVIOUS
    <3> QED
      BY <1>1, <3>1, Before
  <2> QED
    BY <2>1, PassedKept
<1>4. CASE Stays(p, x, j)
  <2>1. x = y /\ j.result = "running" /\ k.result = "running" /\ j.task = k.task
    BY <1>1, <1>4 DEF Stays, Task
  <2> QED
    BY <1>3, <1>4, <2>1 DEF Stays, Goes
<1>5. CASE Ends(p, x, j)
  <2>1. x = Script(p)[k.task] /\ k.result = "running"
    BY <1>1, <1>5 DEF Ends, Task
  <2>2. j.result \in {"done", "running"} /\ (j.result = "running" => j.step = "start")
        /\ DOMAIN j.draft = {}
    BY <1>5 DEF Ends
  <2>3. DraftFits(y, j) /\ Found(y, j)' /\ Related(y, j)'
    BY <2>2 DEF DraftFits, Found, Related
  <2>4. ASSUME Steady, NEW i \in 1..Len(Script(p)), NEW z, z = Script(p)[i], Expected(z),
               j.result = "done" \/ (j.result = "running" /\ i < j.task)
        PROVE  Met(z)'
    <3>1. i < k.task \/ i = k.task
      BY <1>1, <1>2, <1>5, <2>4 DEF Ends
    <3>2. CASE i < k.task
      BY <1>3, <2>1, <2>4, <3>2
    <3>3. CASE i = k.task
      <4>1. z = x
        BY <2>1, <2>4, <3>3
      <4> QED
        BY <1>5, <2>4, <4>1 DEF Ends
    <3> QED
      BY <3>1, <3>2, <3>3
  <2> QED
    BY <2>2, <2>3, <2>4 DEF Goes
<1>6. CASE Stops(p, x, j)
  <2>1. j.result \in {"refused", "failed", "interrupted"} /\ DOMAIN j.draft = {}
        /\ j.task = job[p].task
    BY <1>6 DEF Stops
  <2>2. x = y
    BY <2>1 DEF Task
  <2>3. DraftFits(y, j) /\ Found(y, j)' /\ Related(y, j)'
    BY <2>1 DEF DraftFits, Found, Related
  <2> QED
    BY <1>6, <2>1, <2>2, <2>3 DEF Goes, Stops
<1>7. CASE Starts(j)
  <2>1. j.result = "running" /\ j.step = "start" /\ DOMAIN j.draft = {} /\ j.task = 1
    BY <1>7 DEF Starts
  <2>2. DraftFits(y, j) /\ Found(y, j)' /\ Related(y, j)'
    BY <2>1 DEF DraftFits, Found, Related
  <2>3. \A i \in 1..Len(Script(p)) : ~(i < j.task)
    BY <1>2, <2>1
  <2> QED
    BY <2>1, <2>2, <2>3 DEF Goes
<1> QED
  BY <1>4, <1>5, <1>6, <1>7

LEMMA ScriptGoes ==
    ASSUME Types, Progress, NEW p \in Operators, NEW x \in Wanted, Effect(p, x),
           x = Task(p) \/ (job[p].result # "running" /\ job'[p].result = "running"),
           NEW q \in Operators
    PROVE  \E y, j : y = Task(q)' /\ j = job'[q] /\ Goes(q, y, j)
<1>1. PICK n \in Jobs : /\ job' = [job EXCEPT ![p] = n]
                        /\ Stays(p, x, n) \/ Ends(p, x, n) \/ Stops(p, x, n) \/ Starts(n)
  BY DEF Effect, JobStep
<1>2. job'[p] = n /\ (q # p => job'[q] = job[q]) /\ job[q] \in Jobs
  BY <1>1, JobTyped DEF Types, JobsOK
<1>3. UNCHANGED installation /\ RowsStep(x)
  BY DEF Effect
<1>4. PICK j \in Jobs : j = job'[q]
  BY <1>2
<1>5. PICK y : y = Script(q)[j.task]
  OBVIOUS
<1>6. y = Task(q)'
  BY <1>3, <1>4, <1>5 DEF Task, Script
<1>7. CASE q = p
  <2>1. Goes(p, y, n)
    BY <1>1, <1>2, <1>3, <1>4, <1>5, <1>7, OwnGoes
  <2> QED
    BY <1>2, <1>4, <1>6, <1>7, <2>1
<1>8. CASE q # p
  <2>1. j = job[q] /\ y = Task(q)
    BY <1>2, <1>4, <1>5, <1>8 DEF Task
  <2>2. Goes(q, y, j)
    BY <1>3, <2>1, OtherGoes
  <2> QED
    BY <1>4, <1>6, <2>2
<1> QED
  BY <1>7, <1>8

LEMMA ScriptProgress ==
    ASSUME Types, Progress, UNCHANGED switches, NEW p \in Operators,
           Start(p) \/ Interrupt(p) \/ Perform(p)
    PROVE  Progress'
<1>1. PICK x \in Wanted :
          /\ Effect(p, x)
          /\ x = Task(p) \/ (job[p].result # "running" /\ job'[p].result = "running")
  BY ScriptEffect
<1>2. UNCHANGED installation /\ RowsStep(x)
  BY <1>1 DEF Effect
<1>3. /\ Steady' <=> Steady
      /\ Undisturbed' <=> Undisturbed
      /\ OneRelationship' <=> OneRelationship
      /\ OneAdmin' <=> OneAdmin
      /\ InOrder' <=> InOrder
      /\ Wanted' = Wanted
      /\ \A q : Script(q)' = Script(q)
  BY <1>2, SameBeginning
<1>4. (Firm' <=> Firm) /\ (Sound' <=> Sound)
  BY <1>3 DEF Firm, Sound
<1>5. \A q \in Operators : \E y, j : y = Task(q)' /\ j = job'[q] /\ Goes(q, y, j)
  BY <1>1, ScriptGoes
<1>6. switches' \in Nat
  BY DEF Progress
<1>7. \A q \in Operators : DraftFits(Task(q), job[q])' /\ Found(Task(q), job[q])'
  <2> SUFFICES ASSUME NEW q \in Operators
               PROVE  DraftFits(Task(q), job[q])' /\ Found(Task(q), job[q])'
    OBVIOUS
  <2>1. PICK y, j : y = Task(q)' /\ j = job'[q] /\ Goes(q, y, j)
    BY <1>5
  <2>2. DraftFits(y, j) /\ Found(y, j)'
    BY <2>1 DEF Goes
  <2>3. DraftFits(Task(q), job[q])'
    BY <2>1, <2>2 DEF DraftFits
  <2>4. Found(Task(q), job[q])'
    BY <2>1, <2>2 DEF Found
  <2> QED
    BY <2>3, <2>4
<1>8. Steady' => \A r \in Rows : Exists(r)' => On(r)'
  BY <1>2, <1>3, OnKept DEF Progress
<1>9. ASSUME Steady', NEW q \in Operators, NEW i \in 1..Len(Script(q)'),
             Passed(q, i)', Expected(Script(q)[i])'
      PROVE  Met(Script(q)[i])'
  <2>1. PICK y, j : y = Task(q)' /\ j = job'[q] /\ Goes(q, y, j)
    BY <1>5
  <2>2. PICK z : z = Script(q)[i] /\ z = Script(q)'[i]
    BY <1>3
  <2>3. j.result = "done" \/ (j.result = "running" /\ i < j.task)
    BY <1>9, <2>1 DEF Passed
  <2>4. Expected(z)
    BY <1>3, <1>9, <2>2 DEF Expected
  <2>5. Met(z)'
    BY <1>3, <1>9, <2>1, <2>2, <2>3, <2>4 DEF Goes
  <2> QED
    BY <2>2, <2>5 DEF Met
<1>10. ASSUME Firm', NEW y \in Wanted', y.does = "active", Is(Relation(y), "ACTIVE")'
       PROVE  Exists(Membership(y))'
  <2>1. Firm /\ OneRelationship /\ y \in Wanted
    BY <1>3, <1>4, <1>10 DEF Firm
  <2>2. Is(Relation(y), "ACTIVE") => Exists(Membership(y))
    BY <1>10, <2>1 DEF Progress
  <2> QED
    BY <1>2, <1>10, <2>1, <2>2, MembershipKept
<1>11. ASSUME Firm', NEW q \in Operators
       PROVE  Related(Task(q), job[q])'
  <2>1. PICK y, j : y = Task(q)' /\ j = job'[q] /\ Goes(q, y, j)
    BY <1>5
  <2>2. Related(y, j)'
    BY <1>4, <1>11, <2>1 DEF Goes
  <2> QED
    BY <2>1, <2>2 DEF Related, Relation, Membership
<1>12. ASSUME Undisturbed', OneAdmin', NEW y \in Wanted', y.does \in Creates,
              Exists(Tenant(y.tenant))'
       PROVE  /\ Exists(User(y.user))'
              /\ Is(TenantMembership(y.user, y.tenant), "SELLER_ADMIN")'
  <2>1. Undisturbed /\ OneAdmin /\ y \in Wanted
    BY <1>3, <1>12
  <2>2. Exists(Tenant(y.tenant)) =>
            /\ Exists(User(y.user))
            /\ Is(TenantMembership(y.user, y.tenant), "SELLER_ADMIN")
    BY <1>12, <2>1 DEF Progress
  <2> QED
    BY <1>2, <1>12, <2>1, <2>2, AdminKept
<1>13. ASSUME Undisturbed', NEW r \in Rows, r[1] \in {"User", "Tenant"}, Exists(r)'
       PROVE  Is(r, "expected name")'
  <2>1. Exists(r) => Is(r, "expected name")
    BY <1>3, <1>13 DEF Progress
  <2> QED
    BY <1>2, <1>13, <2>1, NamesKept
<1>14. ASSUME Sound', NEW q \in Operators
       PROVE  ~(job'[q].result = "refused" /\ Task(q)'.does \in RefusedFor)
  <2>1. PICK y, j : y = Task(q)' /\ j = job'[q] /\ Goes(q, y, j)
    BY <1>5
  <2> QED
    BY <1>4, <1>14, <2>1 DEF Goes
<1> QED
  BY <1>6, <1>7, <1>8, <1>9, <1>10, <1>11, <1>12, <1>13, <1>14 DEF Progress

(* A request changes a row only where it counts as a switch.                    *)
LEMMA RequestsCount ==
    ASSUME Types, Requests, switches \in Nat
    PROVE  \/ UNCHANGED <<installation, rows, job, switches>>
           \/ switches' = switches + 1
<1>1. UNCHANGED <<job, installation>>
  BY RequestsTyped
<1>2. CASE \E r \in Rows : Switch(r)
  BY <1>2 DEF Switch
<1>3. CASE revokeConnectionAction
  BY <1>1, <1>3 DEF revokeConnectionAction, redirect, Send, tableVars
<1>4. CASE Browse
  BY <1>1, <1>4
  DEF Browse, Visit, signIn, signOut, selectActiveSeller, revokeConnection, redirect, Send
<1>5. CASE Answer /\ ~revokeConnectionAction
  BY <1>1, <1>5
  DEF Answer, ReadUser, ReadTenantMemberships, ReadTenants, ReadCustomerMemberships,
      NextCandidate, ReadCustomer, ReadCustomersTenant, ReadOwnMembership,
      HomePage, requireSellerSession, requireBuyerSession, requirePlatformAdminSession,
      requireAuthenticatedSession, SignInPage, selectActiveSellerAction,
      Valid, Invalid, Resolved, Show, Go, redirect, Send, tableVars
<1> QED
  BY <1>2, <1>3, <1>4, <1>5 DEF Requests, SessionsNext

LEMMA SameProgress ==
    ASSUME Progress, UNCHANGED <<installation, rows, job, switches>>
    PROVE  Progress'
<1>1. /\ Steady' <=> Steady
      /\ Undisturbed' <=> Undisturbed
      /\ OneRelationship' <=> OneRelationship
      /\ OneAdmin' <=> OneAdmin
      /\ InOrder' <=> InOrder
      /\ Wanted' = Wanted
      /\ \A q : Script(q)' = Script(q)
  BY SameBeginning
<1>2. (Firm' <=> Firm) /\ (Sound' <=> Sound)
  BY <1>1 DEF Firm, Sound
<1>3. \A q \in Operators : Task(q)' = Task(q)
  BY <1>1 DEF Task
<1>4. \A r : (Exists(r)' <=> Exists(r)) /\ (On(r)' <=> On(r))
             /\ \A v : Is(r, v)' <=> Is(r, v)
  BY DEF Exists, On, Is
<1>5. switches' \in Nat
  BY DEF Progress
<1>6. \A q \in Operators : DraftFits(Task(q), job[q])' /\ Found(Task(q), job[q])'
  <2> SUFFICES ASSUME NEW q \in Operators
               PROVE  DraftFits(Task(q), job[q])' /\ Found(Task(q), job[q])'
    OBVIOUS
  <2>1. PICK y, j : y = Task(q) /\ j = job[q] /\ y = Task(q)' /\ j = job'[q]
    BY <1>3
  <2>2. DraftFits(y, j) /\ Found(y, j)
    BY <2>1 DEF Progress
  <2>3. Found(y, j)'
    BY <1>4, <2>2 DEF Found
  <2>4. DraftFits(Task(q), job[q])'
    BY <2>1, <2>2 DEF DraftFits
  <2>5. Found(Task(q), job[q])'
    BY <2>1, <2>3 DEF Found
  <2> QED
    BY <2>4, <2>5
<1>7. Steady' => \A r \in Rows : Exists(r)' => On(r)'
  BY <1>1, <1>4 DEF Progress
<1>8. ASSUME Steady', NEW q \in Operators, NEW i \in 1..Len(Script(q)'),
             Passed(q, i)', Expected(Script(q)[i])'
      PROVE  Met(Script(q)[i])'
  <2>1. PICK z : z = Script(q)[i] /\ z = Script(q)'[i]
    BY <1>1
  <2>2. Passed(q, i) /\ Expected(z)
    BY <1>1, <1>8, <2>1 DEF Passed, Expected
  <2>3. Met(Script(q)[i])
    BY <1>1, <1>8, <2>1, <2>2 DEF Progress, Expected
  <2>4. Met(z)
    BY <2>1, <2>3
  <2>5. Met(z)'
    BY <2>4, MetSame
  <2> QED
    BY <2>1, <2>5 DEF Met
<1>9. ASSUME Firm', NEW y \in Wanted', y.does = "active", Is(Relation(y), "ACTIVE")'
      PROVE  Exists(Membership(y))'
  BY <1>1, <1>2, <1>4, <1>9 DEF Progress
<1>10. ASSUME Firm', NEW q \in Operators
       PROVE  Related(Task(q), job[q])'
  <2>1. PICK y, j : y = Task(q) /\ j = job[q] /\ y = Task(q)' /\ j = job'[q]
    BY <1>3
  <2>2. Related(y, j)
    BY <1>2, <1>10, <2>1 DEF Progress
  <2>3. Related(y, j)'
    BY <1>4, <2>2 DEF Related
  <2> QED
    BY <2>1, <2>3 DEF Related, Relation, Membership
<1>11. ASSUME Undisturbed', OneAdmin', NEW y \in Wanted', y.does \in Creates,
              Exists(Tenant(y.tenant))'
       PROVE  /\ Exists(User(y.user))'
              /\ Is(TenantMembership(y.user, y.tenant), "SELLER_ADMIN")'
  BY <1>1, <1>4, <1>11 DEF Progress
<1>12. ASSUME Undisturbed', NEW r \in Rows, r[1] \in {"User", "Tenant"}, Exists(r)'
       PROVE  Is(r, "expected name")'
  BY <1>1, <1>4, <1>12 DEF Progress
<1>13. ASSUME Sound', NEW q \in Operators
       PROVE  ~(job'[q].result = "refused" /\ Task(q)'.does \in RefusedFor)
  BY <1>2, <1>3, <1>13 DEF Progress
<1> QED
  BY <1>5, <1>6, <1>7, <1>8, <1>9, <1>10, <1>11, <1>12, <1>13 DEF Progress

LEMMA RequestProgress ==
    ASSUME Types, Progress, Requests
    PROVE  Progress'
<1>1. RowsGrow /\ UNCHANGED <<installation, job>>
  BY RequestsTyped
<1>2. CASE UNCHANGED <<installation, rows, job, switches>>
  BY <1>2, SameProgress
<1>3. CASE switches' = switches + 1
  <2>1. switches' \in Nat /\ switches' # 0
    <3>1. switches \in Nat
      BY DEF Progress
    <3> QED
      BY <1>3, <3>1
  <2>2. ~Steady' /\ ~Firm' /\ ~Sound' /\ ~Undisturbed'
    BY <2>1 DEF Steady, Firm, Sound, Undisturbed
  <2>3. \A q \in Operators : Task(q)' = Task(q)
    BY <1>1 DEF Task, Script
  <2>4. \A q \in Operators : DraftFits(Task(q), job[q])' /\ Found(Task(q), job[q])'
    <3> SUFFICES ASSUME NEW q \in Operators
                 PROVE  DraftFits(Task(q), job[q])' /\ Found(Task(q), job[q])'
      OBVIOUS
    <3>1. PICK y, j : y = Task(q) /\ j = job[q] /\ y = Task(q)' /\ j = job'[q]
      BY <1>1, <2>3
    <3>2. DraftFits(y, j) /\ Found(y, j)
      BY <3>1 DEF Progress
    <3>3. Found(y, j)'
      <4>1. CASE j.result = "running"
        <5>1. y \in AnyTask
          BY <3>1, <4>1, TaskTyped
        <5> QED
          BY <1>1, <3>2, <5>1, FoundKept
      <4>2. CASE j.result # "running"
        BY <4>2 DEF Found
      <4> QED
        BY <4>1, <4>2
    <3>4. DraftFits(Task(q), job[q])'
      BY <3>1, <3>2 DEF DraftFits
    <3>5. Found(Task(q), job[q])'
      BY <3>1, <3>3 DEF Found
    <3> QED
      BY <3>4, <3>5
  <2> QED
    BY <2>1, <2>2, <2>4 DEF Progress
<1> QED
  BY <1>2, <1>3, RequestsCount DEF Progress

LEMMA InitProgress == Init => Progress
<1> SUFFICES ASSUME Init PROVE Progress
  OBVIOUS
<1>1. /\ job = [p \in Operators |-> [task |-> 1, step |-> "start", draft |-> NoDraft,
                                    result |-> "ready", starts |-> 0]]
      /\ switches = 0
      /\ rows = [r \in Rows |-> IF r \in DOMAIN installation.rows
                                THEN installation.rows[r] ELSE None]
      /\ installation \in Installations
  BY DEF Init, SetupInit, SessionsInit
<1>2. \A p \in Operators : /\ job[p].result = "ready" /\ DOMAIN job[p].draft = {}
                           /\ job[p].step = "start"
  BY <1>1, NoDraftEmpty
<1>3. \A p \in Operators : DraftFits(Task(p), job[p]) /\ Found(Task(p), job[p])
  BY <1>2 DEF DraftFits, Found
<1>4. ASSUME Steady, NEW r \in Rows, Exists(r) PROVE On(r)
  BY <1>1, <1>4 DEF Steady, BeganOn, Exists, On
<1>5. \A p \in Operators : \A i : ~Passed(p, i)
  BY <1>2 DEF Passed
<1>6. ASSUME Firm, NEW x \in Wanted, x.does = "active", Is(Relation(x), "ACTIVE")
      PROVE  Exists(Membership(x))
  <2>1. Types
    BY InitInv DEF Inv
  <2>2. Relation(x) \in Rows /\ Membership(x) \in Rows
    BY <1>6, <2>1, WantedTyped, TaskFacts
  <2>3. Relation(x) \in DOMAIN installation.rows
        /\ installation.rows[Relation(x)].is = "ACTIVE"
    BY <1>1, <1>6, <2>2 DEF Is, Exists
  <2>4. Membership(x) \in DOMAIN installation.rows
    BY <1>6, <2>3 DEF Firm, OneRelationship, Relation, Membership
  <2>5. installation.rows[Membership(x)] \in Row
    BY <1>1, <2>4
  <2> QED
    BY <1>1, <2>2, <2>4, <2>5 DEF Exists
<1>7. \A p \in Operators : Related(Task(p), job[p])
  BY <1>2 DEF Related
<1>8. Undisturbed => \A r \in Rows : ~Exists(r)
  BY <1>1 DEF Undisturbed, Exists
<1>9. ASSUME Undisturbed, NEW x \in Wanted, x.does \in Creates, Exists(Tenant(x.tenant))
      PROVE  FALSE
  <2>1. Types
    BY InitInv DEF Inv
  <2>2. Tenant(x.tenant) \in Rows
    BY <1>9, <2>1, WantedTyped, TaskFacts DEF Creates
  <2> QED
    BY <1>8, <1>9, <2>2
<1> QED
  BY <1>1, <1>2, <1>3, <1>4, <1>5, <1>6, <1>7, <1>8, <1>9 DEF Progress

LEMMA NextProgress == Inv /\ Progress /\ [Next]_vars => Progress'
<1> SUFFICES ASSUME Inv, Progress, [Next]_vars PROVE Progress'
  OBVIOUS
<1>1. Types
  BY DEF Inv
<1>2. CASE Scripts
  <2>1. UNCHANGED switches
    BY <1>2 DEF Scripts, sessionVars
  <2> QED
    BY <1>1, <1>2, <2>1, ScriptProgress DEF Scripts, SetupNext
<1>3. CASE Requests
  BY <1>1, <1>3, RequestProgress
<1>4. CASE UNCHANGED vars
  BY <1>4, SameProgress DEF vars, tableVars, setupVars, sessionVars
<1> QED
  BY <1>2, <1>3, <1>4 DEF Next

LEMMA ProgressDone == Inv /\ Progress => DoneMeansDone
<1> SUFFICES ASSUME Progress, switches = 0, BeganOn, OneRelationship,
                    NEW p \in Operators, Finished(p), NEW task \in Tasks(p)
             PROVE  Met(task)
  BY DEF DoneMeansDone
<1>1. PICK i \in 1..Len(Script(p)) : task = Script(p)[i]
  BY DEF Tasks
<1>2. Passed(p, i) /\ Expected(Script(p)[i]) /\ Steady
  BY DEF Passed, Finished, Expected, Steady
<1>3. Met(Script(p)[i])
  BY <1>2 DEF Progress
<1> QED
  BY <1>1, <1>3

LEMMA ProgressReconciles == Progress => AccountsReconcile
BY DEF Progress, Sound, RefusedFor, AccountsReconcile

(* A script that says it is done has left behind all that it is for, whatever   *)
(* scripts run beside it and wherever they were interrupted (the rule of        *)
(* demo-account-service.ts:8 and demo-relationship-service.ts:7): nothing takes  *)
(* back what a task left, since a tenant, a membership and an ACTIVE            *)
(* relationship are written once, and the scripts that set one relationship up  *)
(* are after the same one.                                                      *)
THEOREM ScriptsDo == Spec => []DoneMeansDone
<1>1. Init => Inv /\ Progress
  BY InitInv, InitProgress
<1>2. (Inv /\ Progress) /\ [Next]_vars => (Inv /\ Progress)'
  BY NextInv, NextProgress
<1>3. Inv /\ Progress => DoneMeansDone
  BY ProgressDone
<1> QED
  BY <1>1, <1>2, <1>3, PTL DEF Spec

(* The accounts are never left such that the demo's scripts refuse to go on     *)
(* with them (demo-account-service.ts:12): a tenant, its admin and the          *)
(* membership that makes one of the other are one transaction.                  *)
THEOREM AccountsGoOn == Spec => []AccountsReconcile
<1>1. Init => Inv /\ Progress
  BY InitInv, InitProgress
<1>2. (Inv /\ Progress) /\ [Next]_vars => (Inv /\ Progress)'
  BY NextInv, NextProgress
<1>3. Inv /\ Progress => AccountsReconcile
  BY ProgressReconciles
<1> QED
  BY <1>1, <1>2, <1>3, PTL DEF Spec

-------------------------------------------------------------------------------
(* Scripts go on.                                                               *)

Holding == {"create user", "create membership"}

(* Where a task's script stands, and where it has inserted without committing.   *)
Stands(x, j) ==
    j.result = "running" =>
        /\ j.step \in StepsOf(x.does)
        /\ DOMAIN j.draft # {} => j.step \in Holding
        /\ User(x.user) \in DOMAIN j.draft => j.step = "create membership"
Standing == \A p \in Operators : Stands(Task(p), job[p])

(* The steps of a task that come after one of its steps.                        *)
Leads(a, b) ==
    \/ /\ a = "start"
       /\ b \in {"lock", "customer", "relationship", "admin", "create tenant",
                 "create user", "price lists"}
    \/ a = "lock" /\ b = "check"
    \/ a = "check" /\ b = "create tenant"
    \/ a = "create tenant" /\ b = "create user"
    \/ a = "create user" /\ b = "create membership"
    \/ a = "customer" /\ b = "user"
    \/ a = "user" /\ b \in {"create user", "membership"}
    \/ a = "membership" /\ b = "create membership"
    \/ a = "admin" /\ b = "membership"
    \/ a = "relationship" /\ b \in {"invite", "request", "price list"}
    \/ a = "invite" /\ b = "accept"
    \/ a = "accept" /\ b = "price list"
    \/ a = "price list" /\ b = "assignment"
    \/ a = "assignment" /\ b = "assign"

(* A step leads on in the task, out of it to the next one, or to an end.        *)
Advances(p, x) ==
    \E j \in Jobs :
        /\ job' = [job EXCEPT ![p] = j]
        /\ \/ j.result # "running"
           \/ /\ j.result = "running" /\ j.step = "start" /\ DOMAIN j.draft = {}
              /\ j.task = job[p].task + 1 /\ job[p].task < Len(Script(p))
           \/ /\ j.result = "running" /\ j.task = job[p].task /\ Stands(x, j)
              /\ Leads(job[p].step, j.step)

LEMMA StepsKnown == \A does : StepsOf(does) \subseteq Steps
BY DEF StepsOf, Steps

LEMMA ToEndTyped == \A step : ToEnd(step) \in 1..LongestTask
BY DEF ToEnd, LongestTask

(* Between inserts nothing is drafted.                                          *)
LEMMA NothingDrafted ==
    ASSUME NEW p \in Operators, job[p].result = "running", NEW x, Stands(x, job[p]),
           job[p].step \notin Holding
    PROVE  DOMAIN job[p].draft = {}
BY DEF Stands

LEMMA ProceedAdvances ==
    ASSUME Types, NEW p \in Operators, job[p].result = "running",
           NEW x, Stands(x, job[p]), job[p].step \notin Holding,
           NEW step \in StepsOf(x.does), Leads(job[p].step, step),
           Proceed(p, step) \/ job' = [job EXCEPT ![p].step = step]
    PROVE  Advances(p, x)
<1> DEFINE j == [job[p] EXCEPT !.step = step]
<1>1. j \in Jobs /\ job[p] \in Jobs
  BY JobTyped, StepsKnown DEF Jobs
<1>2. job' = [job EXCEPT ![p] = j]
  BY JobTyped DEF Proceed, Types, JobsOK
<1>3. /\ j.result = "running" /\ j.task = job[p].task /\ j.step = step
      /\ j.draft = job[p].draft
  BY <1>1 DEF Jobs
<1>4. DOMAIN j.draft = {}
  BY <1>3, NothingDrafted
<1> HIDE DEF j
<1> QED
  BY <1>1, <1>2, <1>3, <1>4 DEF Advances, Stands

LEMMA StopAdvances ==
    ASSUME Types, NEW p \in Operators, NEW x,
           NEW result \in {"refused", "failed", "interrupted"}, Stop(p, result)
    PROVE  Advances(p, x)
<1> DEFINE j == [job[p] EXCEPT !.result = result, !.draft = NoDraft]
<1>1. j \in Jobs /\ j.result # "running"
  BY JobTyped DEF Jobs
<1>2. job' = [job EXCEPT ![p] = j]
  BY JobTyped DEF Stop, Types, JobsOK
<1> HIDE DEF j
<1> QED
  BY <1>1, <1>2 DEF Advances

LEMMA EndAdvances ==
    ASSUME Types, NEW p \in Operators, job[p].result = "running", NEW x,
           job' = [job EXCEPT ![p] = AfterTask(p)]
    PROVE  Advances(p, x)
<1>1. AfterTask(p) \in Jobs /\ job[p] \in Jobs
  BY AfterTaskGoesOn, JobTyped
<1>2. CASE job[p].task < Len(Script(p))
  <2>1. /\ AfterTask(p).result = "running" /\ AfterTask(p).step = "start"
        /\ AfterTask(p).draft = NoDraft /\ AfterTask(p).task = job[p].task + 1
    BY <1>1, <1>2 DEF AfterTask, Jobs
  <2> QED
    BY <1>1, <1>2, <2>1, NoDraftEmpty DEF Advances
<1>3. CASE ~(job[p].task < Len(Script(p)))
  <2>1. AfterTask(p).result = "done"
    BY <1>1, <1>3 DEF AfterTask, Jobs
  <2> QED
    BY <1>1, <2>1 DEF Advances
<1> QED
  BY <1>2, <1>3

LEMMA CommitAdvances ==
    ASSUME Types, NEW p \in Operators, job[p].result = "running", NEW x, NEW new, NEW step,
           step = "end" \/ (step \in StepsOf(x.does) /\ Leads(job[p].step, step)),
           Commit(p, new, step)
    PROVE  Advances(p, x)
<1>1. CASE step = "end"
  BY <1>1, EndAdvances DEF Commit
<1>2. CASE step # "end"
  <2> DEFINE j == [job[p] EXCEPT !.step = step, !.draft = NoDraft]
  <2>1. j \in Jobs /\ job[p] \in Jobs
    BY <1>2, JobTyped, StepsKnown DEF Jobs
  <2>2. job' = [job EXCEPT ![p] = j]
    BY <1>2, JobTyped DEF Commit, Types, JobsOK
  <2>3. /\ j.result = "running" /\ j.task = job[p].task /\ j.step = step
        /\ DOMAIN j.draft = {}
    BY <2>1, NoDraftEmpty DEF Jobs
  <2> HIDE DEF j
  <2> QED
    BY <1>2, <2>1, <2>2, <2>3 DEF Advances, Stands
<1> QED
  BY <1>1, <1>2

LEMMA InsertAdvances ==
    ASSUME Types, NEW p \in Operators, job[p].result = "running", NEW x,
           NEW r \in Rows, NEW is \in Values, NEW step \in StepsOf(x.does) \cap Holding,
           Leads(job[p].step, step),
           step = "create user" => r # User(x.user) /\ DOMAIN job[p].draft = {},
           Insert(p, r, is, step)
    PROVE  Advances(p, x)
<1>1. CASE Exists(r)
  BY <1>1, StopAdvances DEF Insert
<1>2. CASE ~Exists(r)
  <2> DEFINE d == With(job[p].draft, r, is)
             j == [job[p] EXCEPT !.step = step, !.draft = d]
  <2>1. job[p] \in Jobs /\ d \in Drafts /\ DOMAIN d = DOMAIN job[p].draft \cup {r}
    BY JobTyped, WithTyped DEF Jobs
  <2>2. job' = [job EXCEPT ![p] = j]
    BY <1>2, JobTyped DEF Insert, Types, JobsOK
  <2> HIDE DEF d
  <2>3. /\ j \in Jobs /\ j.result = "running" /\ j.task = job[p].task /\ j.step = step
        /\ j.draft = d
    BY <2>1, StepsKnown DEF Jobs
  <2> HIDE DEF j
  <2>4. Stands(x, j)
    BY <2>1, <2>3 DEF Stands, Holding, Leads
  <2> QED
    BY <2>2, <2>3, <2>4 DEF Advances
<1> QED
  BY <1>1, <1>2

LEMMA InsertLastAdvances ==
    ASSUME Types, NEW p \in Operators, job[p].result = "running", NEW x, NEW r, NEW is,
           InsertLast(p, r, is)
    PROVE  Advances(p, x)
BY StopAdvances, CommitAdvances DEF InsertLast

(* The scripts, step by step.                                                   *)
LEMMA BootstrapAdvances ==
    ASSUME Types, NEW p \in Operators, NEW x, x = Task(p), Stands(x, job[p]),
           Preflight(p) \/ acquireBootstrapLock(p) \/ bootstrapPilotTenant(p)
    PROVE  Advances(p, x)
<1>1. job[p].result = "running" /\ x.does = "bootstrap"
  BY DEF Preflight, acquireBootstrapLock, bootstrapPilotTenant, Doing
<1>2. CASE \E result \in {"refused", "failed", "interrupted"} : Stop(p, result)
  BY <1>2, StopAdvances
<1>3. ASSUME NEW step \in {"lock", "check", "create tenant"},
             Proceed(p, step) \/ job' = [job EXCEPT ![p].step = step],
             job[p].step \notin Holding, Leads(job[p].step, step)
      PROVE  Advances(p, x)
  <2>1. step \in StepsOf(x.does)
    BY <1>1 DEF StepsOf
  <2> QED
    BY <1>1, <1>3, <2>1, ProceedAdvances
<1>4. CASE Preflight(p)
  BY <1>2, <1>3, <1>4 DEF Preflight, checkBootstrapPreconditions, Doing, Holding, Leads
<1>5. CASE acquireBootstrapLock(p)
  BY <1>2, <1>3, <1>5 DEF acquireBootstrapLock, Doing, Holding, Leads
<1>6. CASE bootstrapPilotTenant(p)
  BY <1>2, <1>3, <1>6
  DEF bootstrapPilotTenant, checkBootstrapPreconditions, Doing, Holding, Leads
<1> QED
  BY <1>4, <1>5, <1>6

LEMMA CreateTenantAdvances ==
    ASSUME Types, NEW p \in Operators, NEW x, x = Task(p), Stands(x, job[p]),
           createTenantAdminAtomically(p)
    PROVE  Advances(p, x)
<1>1. job[p].result = "running" /\ x.does \in {"bootstrap", "tenant"}
  BY DEF createTenantAdminAtomically, Doing
<1>2. Tenant(x.tenant) \in Rows /\ User(x.user) \in Rows /\ Tenant(x.tenant) # User(x.user)
  <2>1. PICK t \in Tenants, u \in Users : t = x.tenant /\ u = x.user
    BY <1>1, TaskOf
  <2>2. Tenant(t) \in Rows /\ User(u) \in Rows
    BY <2>1 DEF Rows
  <2>3. Tenant(t) # User(u)
    BY DEF Tenant, User
  <2> QED
    BY <2>1, <2>2, <2>3
<1>3. "expected name" \in Values /\ Holding \subseteq StepsOf(x.does)
  BY <1>1 DEF Values, Holding, StepsOf
<1>4. CASE job[p].step = "create tenant" /\ Insert(p, Tenant(x.tenant), "expected name", "create user")
  <2>1. DOMAIN job[p].draft = {} /\ "create user" \in StepsOf(x.does) \cap Holding
        /\ Leads(job[p].step, "create user")
    BY <1>1, <1>3, <1>4, NothingDrafted DEF Holding, Leads
  <2> QED
    BY <1>1, <1>2, <1>3, <1>4, <2>1, InsertAdvances
<1>5. CASE job[p].step = "create user" /\ Insert(p, User(x.user), "expected name", "create membership")
  <2>1. "create membership" \in StepsOf(x.does) \cap Holding
        /\ Leads(job[p].step, "create membership")
    BY <1>3, <1>5 DEF Holding, Leads
  <2> QED
    BY <1>1, <1>2, <1>3, <1>5, <2>1, InsertAdvances
<1>6. CASE InsertLast(p, TenantMembership(x.user, x.tenant), "SELLER_ADMIN")
  BY <1>1, <1>6, InsertLastAdvances
<1> QED
  BY <1>4, <1>5, <1>6 DEF createTenantAdminAtomically, Doing

LEMMA PilotBuyerAdvances ==
    ASSUME Types, NEW p \in Operators, NEW x, x = Task(p), Stands(x, job[p]),
           OnlyTenant(p) \/ PilotCustomer(p) \/ PilotUser(p) \/ PilotMembership(p)
    PROVE  Advances(p, x)
<1>1. job[p].result = "running" /\ x.does = "pilot buyer"
  BY DEF OnlyTenant, PilotCustomer, PilotUser, PilotMembership, Doing
<1>2. CASE \E result \in {"refused", "failed", "interrupted"} : Stop(p, result)
  BY <1>2, StopAdvances
<1>3. CASE Skip(p)
  BY <1>1, <1>3, EndAdvances DEF Skip
<1>4. ASSUME NEW step \in {"customer", "user", "create user", "membership", "create membership"},
             Proceed(p, step), job[p].step \notin Holding, Leads(job[p].step, step)
      PROVE  Advances(p, x)
  <2>1. step \in StepsOf(x.does)
    BY <1>1 DEF StepsOf
  <2> QED
    BY <1>1, <1>4, <2>1, ProceedAdvances
<1>5. CASE OnlyTenant(p)
  BY <1>2, <1>4, <1>5 DEF OnlyTenant, Doing, Holding, Leads
<1>6. CASE PilotCustomer(p)
  BY <1>2, <1>4, <1>6 DEF PilotCustomer, Doing, Holding, Leads
<1>7. CASE PilotUser(p)
  BY <1>2, <1>4, <1>7 DEF PilotUser, Doing, Holding, Leads
<1>8. CASE /\ job[p].step = "create user"
           /\ Insert(p, User(x.user), "expected name", "create membership")
  <2>1. User(x.user) \in Rows /\ "expected name" \in Values
    <3>1. PICK u \in Users : u = x.user
      BY <1>1, TaskOf
    <3> QED
      BY <3>1 DEF Rows, Values
  <2>2. "create membership" \in StepsOf(x.does) \cap Holding
        /\ Leads(job[p].step, "create membership")
    BY <1>1, <1>8 DEF StepsOf, Holding, Leads
  <2> QED
    BY <1>1, <1>8, <2>1, <2>2, InsertAdvances
<1>9. CASE InsertLast(p, CustomerMembership(x.user, x.customer), "BUYER_ADMIN")
  BY <1>1, <1>9, InsertLastAdvances
<1>10. CASE /\ job[p].step = "membership"
            /\ \/ Proceed(p, "create membership") \/ Skip(p)
               \/ \E result \in {"refused", "failed", "interrupted"} : Stop(p, result)
  BY <1>2, <1>3, <1>4, <1>10 DEF Holding, Leads
<1>11. CASE PilotMembership(p)
  BY <1>8, <1>9, <1>10, <1>11 DEF PilotMembership, Doing
<1> QED
  BY <1>5, <1>6, <1>7, <1>11

LEMMA DemoAccountsAdvances ==
    ASSUME Types, NEW p \in Operators, NEW x, x = Task(p), Stands(x, job[p]),
           reconcileDemoTenant(p) \/ reconcileDemoBuyer(p)
    PROVE  Advances(p, x)
<1>1. job[p].result = "running" /\ x.does \in {"tenant", "buyer"}
  BY DEF reconcileDemoTenant, reconcileDemoBuyer, Doing
<1>2. CASE \E result \in {"refused", "failed", "interrupted"} : Stop(p, result)
  BY <1>2, StopAdvances
<1>3. CASE Skip(p)
  BY <1>1, <1>3, EndAdvances DEF Skip
<1>4. ASSUME NEW step \in StepsOf(x.does),
             Proceed(p, step), job[p].step \notin Holding, Leads(job[p].step, step)
      PROVE  Advances(p, x)
  BY <1>1, <1>4, ProceedAdvances
<1>5. CASE /\ x.does = "tenant" /\ job[p].step = "start"
           /\ Proceed(p, "create tenant") \/ Proceed(p, "admin")
  BY <1>4, <1>5 DEF StepsOf, Holding, Leads
<1>6. CASE x.does = "tenant" /\ job[p].step = "admin" /\ Proceed(p, "membership")
  BY <1>4, <1>6 DEF StepsOf, Holding, Leads
<1>7. CASE x.does = "buyer" /\ job[p].step = "start" /\ Proceed(p, "create user")
  BY <1>4, <1>7 DEF StepsOf, Holding, Leads
<1>8. CASE InsertLast(p, User(x.user), "expected name")
  BY <1>1, <1>8, InsertLastAdvances
<1>9. CASE reconcileDemoTenant(p)
  BY <1>2, <1>3, <1>5, <1>6, <1>9 DEF reconcileDemoTenant, Doing
<1>10. CASE reconcileDemoBuyer(p)
  BY <1>2, <1>3, <1>7, <1>8, <1>10 DEF reconcileDemoBuyer, Doing
<1> QED
  BY <1>9, <1>10

LEMMA ImportAdvances ==
    ASSUME Types, NEW p \in Operators, NEW x, x = Task(p), Stands(x, job[p]),
           importAllDemoCsvFiles(p)
    PROVE  Advances(p, x)
<1>1. job[p].result = "running" /\ x.does = "import"
  BY DEF importAllDemoCsvFiles, Doing
<1>2. CASE Stop(p, "refused")
  BY <1>2, StopAdvances
<1>3. ASSUME NEW new, job[p].step = "start", Commit(p, new, "price lists")
      PROVE  Advances(p, x)
  <2>1. "price lists" \in StepsOf(x.does) /\ Leads(job[p].step, "price lists")
    BY <1>1, <1>3 DEF StepsOf, Leads
  <2> QED
    BY <1>1, <1>3, <2>1, CommitAdvances
<1>4. ASSUME NEW new, Commit(p, new, "end") PROVE Advances(p, x)
  BY <1>1, <1>4, CommitAdvances
<1> QED
  BY <1>2, <1>3, <1>4 DEF importAllDemoCsvFiles, Doing

LEMMA RelationshipAdvances ==
    ASSUME Types, NEW p \in Operators, NEW x, x = Task(p), Stands(x, job[p]),
           \/ Required(p) \/ reconcileRelationshipState(p)
           \/ inviteBuyerForCustomer(p) \/ acceptInvitation(p) \/ requestConnection(p)
    PROVE  Advances(p, x)
<1>1. job[p].result = "running" /\ x.does \in {"active", "invitation", "request"}
  BY DEF Required, reconcileRelationshipState, inviteBuyerForCustomer, acceptInvitation,
         requestConnection, Doing, SetUp
<1>2. CASE \E result \in {"refused", "failed", "interrupted"} : Stop(p, result)
  BY <1>2, StopAdvances
<1>3. CASE Skip(p)
  BY <1>1, <1>3, EndAdvances DEF Skip
<1>4. ASSUME NEW step \in StepsOf(x.does),
             Proceed(p, step), job[p].step \notin Holding, Leads(job[p].step, step)
      PROVE  Advances(p, x)
  BY <1>1, <1>4, ProceedAdvances
<1>5. ASSUME NEW new, NEW step,
             step = "end" \/ (step \in StepsOf(x.does) /\ Leads(job[p].step, step)),
             Commit(p, new, step)
      PROVE  Advances(p, x)
  BY <1>1, <1>5, CommitAdvances
<1>6. CASE job[p].step = "start" /\ Proceed(p, "relationship")
  BY <1>1, <1>4, <1>6 DEF StepsOf, Holding, Leads
<1>7. CASE /\ job[p].step = "relationship"
           /\ \/ x.does = "request" /\ Proceed(p, "request")
              \/ x.does # "request" /\ Proceed(p, "invite")
              \/ x.does = "active" /\ Proceed(p, "price list")
  BY <1>1, <1>4, <1>7 DEF StepsOf, Holding, Leads
<1>8. CASE Required(p)
  BY <1>2, <1>6, <1>8 DEF Required, Doing
<1>9. CASE reconcileRelationshipState(p)
  BY <1>2, <1>3, <1>7, <1>9 DEF reconcileRelationshipState, Doing
<1>10. CASE inviteBuyerForCustomer(p)
  <2>1. x.does = "active" => "accept" \in StepsOf(x.does) /\ Leads(job[p].step, "accept")
    BY <1>10 DEF inviteBuyerForCustomer, Doing, StepsOf, Leads
  <2> QED
    BY <1>2, <1>5, <1>10, <2>1 DEF inviteBuyerForCustomer
<1>11. CASE acceptInvitation(p)
  <2>1. "price list" \in StepsOf(x.does) /\ Leads(job[p].step, "price list")
    BY <1>11 DEF acceptInvitation, Doing, StepsOf, Leads
  <2> QED
    BY <1>2, <1>5, <1>11, <2>1 DEF acceptInvitation
<1>12. CASE requestConnection(p)
  BY <1>2, <1>5, <1>12 DEF requestConnection
<1> QED
  BY <1>8, <1>9, <1>10, <1>11, <1>12

LEMMA PriceListAdvances ==
    ASSUME Types, NEW p \in Operators, NEW x, x = Task(p), Stands(x, job[p]),
           ensureStandardPriceListAssigned(p)
    PROVE  Advances(p, x)
<1>1. job[p].result = "running" /\ x.does = "active"
  BY DEF ensureStandardPriceListAssigned, Doing
<1>2. CASE \E result \in {"refused", "failed", "interrupted"} : Stop(p, result)
  BY <1>2, StopAdvances
<1>3. CASE Skip(p)
  BY <1>1, <1>3, EndAdvances DEF Skip
<1>4. ASSUME NEW step \in {"assignment", "assign"},
             Proceed(p, step), job[p].step \notin Holding, Leads(job[p].step, step)
      PROVE  Advances(p, x)
  <2>1. step \in StepsOf(x.does)
    BY <1>1 DEF StepsOf
  <2> QED
    BY <1>1, <1>4, <2>1, ProceedAdvances
<1>5. ASSUME NEW new, Commit(p, new, "end") PROVE Advances(p, x)
  BY <1>1, <1>5, CommitAdvances
<1> QED
  BY <1>2, <1>3, <1>4, <1>5
  DEF ensureStandardPriceListAssigned, Doing, Holding, Leads

LEMMA PerformAdvances ==
    ASSUME Types, Standing, NEW p \in Operators, Perform(p)
    PROVE  Advances(p, Task(p)) /\ job[p].result = "running"
<1>1. PICK x : x = Task(p)
  OBVIOUS
<1>2. Stands(x, job[p])
  BY <1>1 DEF Standing
<1>3. Advances(p, x)
  BY <1>1, <1>2, BootstrapAdvances, CreateTenantAdvances, PilotBuyerAdvances,
     DemoAccountsAdvances, ImportAdvances, RelationshipAdvances, PriceListAdvances
  DEF Perform
<1>4. job[p].result = "running"
  BY PerformMoves DEF acquireBootstrapLock, Doing
<1> QED
  BY <1>1, <1>3, <1>4

LEMMA InitStanding == Init => Standing
<1> SUFFICES ASSUME Init PROVE Standing
  OBVIOUS
<1>1. job = [p \in Operators |-> [task |-> 1, step |-> "start", draft |-> NoDraft,
                                  result |-> "ready", starts |-> 0]]
  BY DEF Init, SetupInit
<1>2. \A p \in Operators : job[p].result = "ready"
  BY <1>1
<1> QED
  BY <1>2 DEF Standing, Stands

LEMMA NextStanding == Inv /\ Progress /\ Standing /\ [Next]_vars => Standing'
<1> SUFFICES ASSUME Inv, Progress, Standing, [Next]_vars PROVE Standing'
  OBVIOUS
<1> USE DEF Inv
<1>1. CASE UNCHANGED <<installation, job>>
  BY <1>1 DEF Standing, Task, Script
<1>2. ASSUME NEW p \in Operators, NEW j \in Jobs, UNCHANGED installation,
             job' = [job EXCEPT ![p] = j], Stands(Script(p)[j.task], j)
      PROVE  Standing'
  <2>1. \A q \in Operators : q # p => job'[q] = job[q]
    BY <1>2, JobTyped
  <2>2. job'[p] = j
    BY <1>2 DEF Types, JobsOK
  <2> QED
    BY <1>2, <2>1, <2>2 DEF Standing, Task, Script
<1>3. ASSUME NEW p \in Operators, Advances(p, Task(p)), UNCHANGED installation
      PROVE  Standing'
  <2>1. PICK j \in Jobs :
            /\ job' = [job EXCEPT ![p] = j]
            /\ \/ j.result # "running"
               \/ j.result = "running" /\ j.step = "start" /\ DOMAIN j.draft = {}
               \/ j.result = "running" /\ j.task = job[p].task /\ Stands(Task(p), j)
    BY <1>3 DEF Advances
  <2>2. Stands(Script(p)[j.task], j)
    BY <2>1 DEF Stands, StepsOf, Task
  <2> QED
    BY <1>2, <1>3, <2>1, <2>2
<1>4. ASSUME NEW p \in Operators, Start(p) PROVE Standing'
  <2>1. PICK j \in Jobs : job' = [job EXCEPT ![p] = j]
    BY <1>4, StartMoves DEF Moves
  <2>2. job[p] \in Jobs /\ job[p].result # "running" /\ UNCHANGED installation
    BY <1>4, JobTyped DEF Start, tableVars
  <2>3. DOMAIN job[p].draft = {}
    BY <2>2 DEF Progress, DraftFits
  <2>4. j = job'[p]
    BY <2>1, JobTyped
  <2>5. j.step = "start" /\ j.draft = job[p].draft
    BY <1>4, <2>2, <2>4, JobTyped DEF Start, Types, JobsOK, Jobs
  <2>6. Stands(Script(p)[j.task], j)
    BY <2>3, <2>5 DEF Stands, StepsOf
  <2> QED
    BY <1>2, <2>1, <2>2, <2>6
<1>5. ASSUME NEW p \in Operators, Interrupt(p) PROVE Standing'
  <2>1. Advances(p, Task(p)) /\ UNCHANGED installation
    BY <1>5, StopAdvances DEF Interrupt, Stop, tableVars
  <2> QED
    BY <1>3, <2>1
<1>6. ASSUME NEW p \in Operators, Perform(p) PROVE Standing'
  <2>1. UNCHANGED installation
    BY <1>6, PerformMoves DEF Moves, acquireBootstrapLock, Stop, tableVars
  <2> QED
    BY <1>3, <1>6, <2>1, PerformAdvances
<1>7. CASE Requests
  BY <1>1, <1>7, RequestsTyped
<1> QED
  BY <1>1, <1>4, <1>5, <1>6, <1>7
  DEF Next, Scripts, SetupNext, vars, tableVars, setupVars

(* Who cannot go on waits for another script's row, which is a tenant or a user. *)
LEMMA WaitsForSome ==
    ASSUME Progress, Standing, NEW p \in Operators, job[p].result = "running", ~CanGoOn(p)
    PROVE  \E q \in Operators :
               /\ WaitsFor(p, q) /\ q # p /\ job[q].result = "running"
               /\ \/ job[p].step = "create tenant" /\ job[q].step \in Holding
                  \/ job[p].step = "create user" /\ job[q].step = "create membership"
<1>1. PICK q \in Operators : WaitsFor(p, q)
  BY DEF CanGoOn, Standing, Stands
<1>2. PICK r \in NextRow(p) : r \in DOMAIN job[q].draft
  BY <1>1 DEF WaitsFor
<1>3. job[q].result = "running" /\ r \in {Tenant(Task(q).tenant), User(Task(q).user)}
  BY <1>2 DEF Progress, DraftFits
<1>4. job[q].step \in Holding /\ (r = User(Task(q).user) => job[q].step = "create membership")
  BY <1>2, <1>3 DEF Standing, Stands
<1>5. r[1] \in {"Tenant", "User"} /\ (r[1] = "User" => job[q].step = "create membership")
  BY <1>3, <1>4, Tags
<1>6. \/ job[p].step = "create tenant"
      \/ job[p].step = "create user" /\ r[1] = "User"
      \/ job[p].step = "create membership" /\ r[1] \in {"CustomerMembership", "TenantMembership"}
  <2>1. job[p].step \in {"create tenant", "create user", "create membership"}
    BY <1>2 DEF NextRow
  <2>2. CASE job[p].step = "create user"
    <3>1. r = User(Task(p).user)
      BY <1>2, <2>2 DEF NextRow
    <3> QED
      BY <2>2, <3>1, Tags
  <2>3. CASE job[p].step = "create membership"
    <3>1. \/ r = CustomerMembership(Task(p).user, Task(p).customer)
          \/ r = TenantMembership(Task(p).user, Task(p).tenant)
      BY <1>2, <2>3 DEF NextRow
    <3>2. r[1] = "CustomerMembership" \/ r[1] = "TenantMembership"
      BY <3>1, Tags
    <3> QED
      BY <2>3, <3>2
  <2> QED
    BY <2>1, <2>2, <2>3
<1> QED
  BY <1>1, <1>3, <1>4, <1>5, <1>6 DEF WaitsFor

(* Scripts never wait in a circle, whatever they insert and however many run at *)
(* once: they insert a tenant before a user and a membership last, and nobody   *)
(* waits for a membership's row.                                                *)
THEOREM EachScriptGoesOn == Spec => []ScriptsGoOn
<1>1. ASSUME Progress, Standing PROVE ScriptsGoOn
  <2> SUFFICES ASSUME NEW p \in Operators, job[p].result = "running", ~CanGoOn(p)
               PROVE  \E q \in Operators :
                          /\ WaitsFor(p, q)
                          /\ CanGoOn(q) \/ \E r \in Operators : WaitsFor(q, r) /\ CanGoOn(r)
    BY DEF ScriptsGoOn
  <2>1. ASSUME NEW r \in Operators, job[r].result = "running",
               job[r].step = "create membership"
        PROVE  CanGoOn(r)
    BY <1>1, <2>1, WaitsForSome
  <2>2. PICK q \in Operators : WaitsFor(p, q) /\ job[q].result = "running" /\ job[q].step \in Holding
    BY <1>1, WaitsForSome DEF Holding
  <2>3. CASE job[q].step = "create membership"
    BY <2>1, <2>2, <2>3
  <2>4. CASE job[q].step = "create user" /\ ~CanGoOn(q)
    <3>1. PICK r \in Operators : WaitsFor(q, r) /\ job[r].result = "running"
                                 /\ job[r].step = "create membership"
      BY <1>1, <2>2, <2>4, WaitsForSome
    <3> QED
      BY <2>1, <2>2, <3>1
  <2> QED
    BY <2>2, <2>3, <2>4 DEF Holding
<1>2. Init => Inv /\ Progress /\ Standing
  BY InitInv, InitProgress, InitStanding
<1>3. (Inv /\ Progress /\ Standing) /\ [Next]_vars => (Inv /\ Progress /\ Standing)'
  BY NextInv, NextProgress, NextStanding
<1> QED
  BY <1>1, <1>2, <1>3, PTL DEF Spec

LEMMA ToEndIs ==
    /\ \A s : s = "start" => ToEnd(s) = 7
    /\ \A s : s \in {"lock", "customer", "relationship"} => ToEnd(s) = 6
    /\ \A s : s \in {"check", "user", "invite", "request"} => ToEnd(s) = 5
    /\ \A s : s \in {"admin", "accept"} => ToEnd(s) = 4
    /\ \A s : s \in {"create tenant", "membership", "price list"} => ToEnd(s) = 3
    /\ \A s : s \in {"create user", "assignment"} => ToEnd(s) = 2
    /\ \A s : s \in {"create membership", "price lists", "assign"} => ToEnd(s) = 1
<1>1. \A s : s = "start" => ToEnd(s) = 7
  BY DEF ToEnd, LongestTask
<1>2. \A s : s \in {"lock", "customer", "relationship"} => ToEnd(s) = 6
  BY DEF ToEnd
<1>3. \A s : s \in {"check", "user", "invite", "request"} => ToEnd(s) = 5
  BY DEF ToEnd
<1>4. \A s : s \in {"admin", "accept"} => ToEnd(s) = 4
  BY DEF ToEnd
<1>5. \A s : s \in {"create tenant", "membership", "price list"} => ToEnd(s) = 3
  BY DEF ToEnd
<1>6. \A s : s \in {"create user", "assignment"} => ToEnd(s) = 2
  BY DEF ToEnd
<1>7. \A s : s \in {"create membership", "price lists", "assign"} => ToEnd(s) = 1
  BY DEF ToEnd
<1> QED
  BY <1>1, <1>2, <1>3, <1>4, <1>5, <1>6, <1>7

LEMMA LeadsNearer ==
    ASSUME NEW a, NEW b, Leads(a, b)
    PROVE  ToEnd(b) < ToEnd(a)
<1>1. PICK m \in Nat, n \in Nat : ToEnd(a) = m /\ ToEnd(b) = n
  BY ToEndTyped DEF LongestTask
<1>2. CASE a = "start"
  <2>1. m = 7 /\ n \in {6, 4, 3, 2, 1}
    BY <1>1, <1>2, ToEndIs DEF Leads
  <2> QED
    BY <1>1, <2>1
<1>3. CASE a \in {"lock", "customer", "relationship"}
  <2>1. m = 6 /\ n \in {5, 3}
    BY <1>1, <1>3, ToEndIs DEF Leads
  <2> QED
    BY <1>1, <2>1
<1>4. CASE a \in {"check", "user", "invite"}
  <2>1. m = 5 /\ n \in {4, 3, 2}
    BY <1>1, <1>4, ToEndIs DEF Leads
  <2> QED
    BY <1>1, <2>1
<1>5. CASE a \in {"accept", "admin"}
  <2>1. m = 4 /\ n = 3
    BY <1>1, <1>5, ToEndIs DEF Leads
  <2> QED
    BY <1>1, <2>1
<1>6. CASE a \in {"create tenant", "membership", "price list"}
  <2>1. m = 3 /\ n \in {2, 1}
    BY <1>1, <1>6, ToEndIs DEF Leads
  <2> QED
    BY <1>1, <2>1
<1>7. CASE a \in {"create user", "assignment"}
  <2>1. m = 2 /\ n = 1
    BY <1>1, <1>7, ToEndIs DEF Leads
  <2> QED
    BY <1>1, <2>1
<1> QED
  BY <1>2, <1>3, <1>4, <1>5, <1>6, <1>7 DEF Leads

LEMMA StepsLeftTyped ==
    ASSUME Types, NEW p \in Operators, job[p].result = "running"
    PROVE  StepsLeft(p) \in Nat \ {0}
<1>1. job[p].task \in 1..Len(Script(p)) /\ Len(Script(p)) \in Nat
  BY JobTyped DEF Types, JobsOK
<1>2. PICK left \in Nat, n \in Nat \ {0} :
          left = LongestTask * (Len(Script(p)) - job[p].task) /\ n = ToEnd(job[p].step)
  BY <1>1, ToEndTyped DEF LongestTask
<1> QED
  BY <1>2 DEF StepsLeft

LEMMA AdvancesDescends ==
    ASSUME Types, NEW p \in Operators, job[p].result = "running", NEW x, Advances(p, x),
           UNCHANGED installation
    PROVE  StepsLeft(p)' < StepsLeft(p)
<1>1. PICK j \in Jobs :
          /\ job' = [job EXCEPT ![p] = j]
          /\ \/ j.result # "running"
             \/ /\ j.result = "running" /\ j.step = "start"
                /\ j.task = job[p].task + 1 /\ job[p].task < Len(Script(p))
             \/ j.result = "running" /\ j.task = job[p].task /\ Leads(job[p].step, j.step)
  BY DEF Advances
<1>2. job'[p] = j /\ Script(p)' = Script(p)
  BY <1>1 DEF Types, JobsOK, Script
<1>3. PICK n \in Nat, t \in Nat : n = Len(Script(p)) /\ t = job[p].task /\ t <= n
  BY JobTyped DEF Types, JobsOK
<1>4. PICK a \in 1..7, b \in 1..7 : a = ToEnd(job[p].step) /\ b = ToEnd(j.step)
  BY ToEndTyped DEF LongestTask
<1>5. PICK d \in Nat, k \in Nat \ {0} : d = n - t /\ k = 7 * d + a /\ StepsLeft(p) = k
  <2>1. PICK d \in Nat : d = n - t
    BY <1>3
  <2>2. StepsLeft(p) = 7 * d + a
    BY <1>3, <1>4, <2>1 DEF StepsLeft, LongestTask
  <2> QED
    BY <2>1, <2>2, StepsLeftTyped
<1>6. CASE j.result # "running"
  <2>1. StepsLeft(p)' = 0
    BY <1>2, <1>6 DEF StepsLeft
  <2> QED
    BY <1>3, <1>4, <1>5, <2>1
<1>7. CASE j.result = "running"
  <2>1. StepsLeft(p)' = 7 * (n - j.task) + b
    BY <1>2, <1>3, <1>4, <1>7 DEF StepsLeft, LongestTask
  <2>2. CASE j.step = "start" /\ j.task = t + 1 /\ t < n
    <3>1. b = 7
      BY <1>4, <2>2, ToEndIs
    <3>2. PICK l \in Int : l = 7 * (d - 1) + 7
      BY <1>5
    <3>3. n - j.task = d - 1
      BY <1>3, <1>5, <2>2
    <3>4. l < k
      BY <1>5, <3>2
    <3>5. StepsLeft(p)' = l
      BY <2>1, <3>1, <3>2, <3>3
    <3> QED
      BY <1>5, <3>2, <3>4, <3>5
  <2>3. CASE j.task = t /\ Leads(job[p].step, j.step)
    <3>1. b < a
      BY <1>4, <2>3, LeadsNearer
    <3>2. PICK l \in Int : l = 7 * d + b
      BY <1>5
    <3>3. StepsLeft(p)' = l
      BY <1>5, <2>1, <2>3, <3>2
    <3>4. l < k
      BY <1>5, <3>1, <3>2
    <3> QED
      BY <1>5, <3>2, <3>3, <3>4
  <2> QED
    BY <1>1, <1>3, <1>7, <2>2, <2>3
<1> QED
  BY <1>6, <1>7

(* Each step of a running script takes at least one of the seven that a task has *)
(* at most, and only an operator who starts it again gives any back.             *)
THEOREM ScriptsComeNearer == Spec => ScriptsDescend
<1> DEFINE A == \A p \in Operators : job[p].result = "running" =>
                  /\ StepsLeft(p) \in Nat \ {0}
                  /\ Perform(p) => StepsLeft(p)' < StepsLeft(p)
                  /\ UNCHANGED job[p] \/ StepsLeft(p)' < StepsLeft(p)
<1>1. ASSUME Inv, Standing, [Next]_vars PROVE A
  <2> SUFFICES ASSUME NEW p \in Operators, job[p].result = "running"
               PROVE  /\ StepsLeft(p) \in Nat \ {0}
                      /\ Perform(p) => StepsLeft(p)' < StepsLeft(p)
                      /\ UNCHANGED job[p] \/ StepsLeft(p)' < StepsLeft(p)
    OBVIOUS
  <2> Types
    BY <1>1 DEF Inv
  <2>1. StepsLeft(p) \in Nat \ {0}
    BY StepsLeftTyped
  <2>2. ASSUME Perform(p) PROVE StepsLeft(p)' < StepsLeft(p)
    <3>1. UNCHANGED installation
      BY <2>2, PerformMoves DEF Moves, acquireBootstrapLock, Stop, tableVars
    <3> QED
      BY <1>1, <2>2, <3>1, PerformAdvances, AdvancesDescends
  <2>3. ASSUME Interrupt(p) PROVE StepsLeft(p)' < StepsLeft(p)
    <3>1. Advances(p, Task(p)) /\ UNCHANGED installation
      BY <2>3, StopAdvances DEF Interrupt, Stop, tableVars
    <3> QED
      BY <3>1, AdvancesDescends
  <2>4. ~Start(p)
    BY DEF Start
  <2>5. ASSUME NEW q \in Operators, q # p, Start(q) \/ Interrupt(q) \/ Perform(q)
        PROVE  UNCHANGED job[p]
    <3>1. \E j : job' = [job EXCEPT ![q] = j]
      BY <1>1, <2>5, StartMoves, StopAdvances, PerformAdvances DEF Moves, Interrupt, Advances
    <3> QED
      BY <2>5, <3>1, JobTyped
  <2>6. Requests \/ UNCHANGED vars => UNCHANGED job[p]
    BY RequestsTyped DEF vars, setupVars
  <2> QED
    BY <1>1, <2>1, <2>2, <2>3, <2>4, <2>5, <2>6 DEF Next, Scripts, SetupNext
<1>2. Inv /\ Standing /\ [Next]_vars => [A]_vars
  BY <1>1
<1>3. Init => Inv /\ Progress /\ Standing
  BY InitInv, InitProgress, InitStanding
<1>4. (Inv /\ Progress /\ Standing) /\ [Next]_vars => (Inv /\ Progress /\ Standing)'
  BY NextInv, NextProgress, NextStanding
<1> QED
  BY <1>2, <1>3, <1>4, PTL DEF Spec, ScriptsDescend
=============================================================================
