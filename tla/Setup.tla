---------------------------------- MODULE Setup --------------------------------
(* The scripts that set an installation up (prisma/*.ts over src/lib/bootstrap): *)
(* bootstrap-pilot, create-pilot-buyer, create-local-demo-accounts,             *)
(* seed-local-demo-relationships and restore-local-demo.  A script is a list of *)
(* tasks; a task reads what is there, one query after the other, and inserts    *)
(* what is missing.  Operators start scripts at the same time, interrupt them   *)
(* and start them again.                                                        *)
EXTENDS AccountTables, Naturals, Sequences

CONSTANTS
    Operators,
    MaxStarts   \* bounds how often an operator starts the script

ASSUME OperatorsAssumption == None \notin Operators

VARIABLES
    job,   \* each operator's script
    lock   \* who holds pg_advisory_xact_lock(BOOTSTRAP_ADVISORY_LOCK_KEYS)

setupVars == <<job, lock>>

(* What a script can be for, and of whom.                                       *)
AnyTask ==
    [does : {"bootstrap", "tenant", "import", "request"},
     tenant : Tenants, user : Users, customer : {None}] \cup
    [does : {"buyer"}, tenant : {None}, user : Users, customer : {None}] \cup
    [does : {"pilot buyer", "active", "invitation"},
     tenant : Tenants, user : Users, customer : Customers]

NoDraft == [r \in {} |-> NewRow("expected name")]

SetupInit ==
    /\ job = [p \in Operators |->
                 [task |-> 1, step |-> "start", draft |-> NoDraft,
                  result |-> "ready", starts |-> 0]]
    /\ lock = None

Script(p) == installation.script[p]
Task(p) == Script(p)[job[p].task]
Doing(p, does, step) ==
    /\ job[p].result = "running"
    /\ Task(p).does \in does
    /\ job[p].step = step

-------------------------------------------------------------------------------
(* Steps of a task.  The end of a transaction, whatever ends it, gives its      *)
(* locks back, the advisory one among them.                                     *)

Unlock(p) == lock' = IF lock = p THEN None ELSE lock

Proceed(p, step) ==
    /\ job' = [job EXCEPT ![p].step = step]
    /\ UNCHANGED <<tableVars, lock>>

Stop(p, result) ==
    /\ job' = [job EXCEPT ![p].result = result, ![p].draft = NoDraft]
    /\ Unlock(p)
    /\ UNCHANGED tableVars

AfterTask(p) ==
    IF job[p].task < Len(Script(p))
    THEN [job[p] EXCEPT !.task = @ + 1, !.step = "start", !.draft = NoDraft]
    ELSE [job[p] EXCEPT !.result = "done", !.draft = NoDraft]

Skip(p) ==
    /\ job' = [job EXCEPT ![p] = AfterTask(p)]
    /\ Unlock(p)
    /\ UNCHANGED tableVars

(* Commits what one transaction writes and goes on with `step`, or the next task. *)
Commit(p, new, step) ==
    /\ Write(new)
    /\ job' = [job EXCEPT ![p] = IF step = "end" THEN AfterTask(p)
                                 ELSE [@ EXCEPT !.step = step, !.draft = NoDraft]]
    /\ Unlock(p)

With(draft, r, is) ==
    [x \in DOMAIN draft \cup {r} |-> IF x = r THEN NewRow(is) ELSE draft[x]]
Inserted(draft) == [r \in Rows |-> IF r \in DOMAIN draft THEN draft[r] ELSE rows[r]]

(* A unique index makes an INSERT wait for the transaction that has the same key *)
(* and fail if that one commits.                                                *)
Free(p, r) == \A q \in Operators \ {p} : r \notin DOMAIN job[q].draft

Insert_Commits(p, r, is, step) ==
    /\ Free(p, r)
    /\ IF Exists(r) THEN Stop(p, "failed")
       ELSE Commit(p, Inserted(With(job[p].draft, r, is)), step)
Insert(p, r, is, step) ==
    /\ Free(p, r)
    /\ IF Exists(r) THEN Stop(p, "failed")
       ELSE /\ job' = [job EXCEPT ![p].step = step,
                                  ![p].draft = With(job[p].draft, r, is)]
            /\ UNCHANGED <<tableVars, lock>>

InsertLast(p, r, is) ==
    /\ Free(p, r)
    /\ IF Exists(r) THEN Stop(p, "failed")
       ELSE Commit(p, Inserted(With(job[p].draft, r, is)), "end")

-------------------------------------------------------------------------------
(* bootstrap-pilot.                                                             *)

RootStateIsEmpty == \A u \in Users, t \in Tenants : ~Exists(User(u)) /\ ~Exists(Tenant(t))

checkBootstrapPreconditions(p, next) ==
    IF RootStateIsEmpty THEN Proceed(p, next) ELSE Stop(p, "refused")

Preflight(p) ==
    /\ Doing(p, {"bootstrap"}, "start")
    /\ checkBootstrapPreconditions(p, "lock")

acquireBootstrapLock(p) ==
    /\ Doing(p, {"bootstrap"}, "lock")
    /\ \/ /\ lock = None
          /\ lock' = p
          /\ job' = [job EXCEPT ![p].step = "check"]
          /\ UNCHANGED tableVars
       \/ lock # None /\ Stop(p, "failed")   \* lock_timeout

bootstrapPilotTenant_CheckedBefore(p) ==
    /\ Doing(p, {"bootstrap"}, "check")
    /\ Proceed(p, "create tenant")
bootstrapPilotTenant(p) ==
    /\ Doing(p, {"bootstrap"}, "check")
    /\ checkBootstrapPreconditions(p, "create tenant")

(* The three inserts of one transaction.                                        *)
createTenantAdminAtomically(p) ==
    LET task == Task(p)
        creates == {"bootstrap", "tenant"}
    IN  \/ /\ Doing(p, creates, "create tenant")
           /\ Insert(p, Tenant(task.tenant), "expected name", "create user")
        \/ /\ Doing(p, creates, "create user")
           /\ Insert(p, User(task.user), "expected name", "create membership")
        \/ /\ Doing(p, creates, "create membership")
           /\ InsertLast(p, TenantMembership(task.user, task.tenant), "SELLER_ADMIN")

-------------------------------------------------------------------------------
(* create-pilot-buyer, which takes the one tenant there is.                     *)

OnlyTenant(p) ==
    /\ Doing(p, {"pilot buyer"}, "start")
    /\ IF {t \in Tenants : Exists(Tenant(t))} = {Task(p).tenant}
       THEN Proceed(p, "customer") ELSE Stop(p, "failed")

PilotCustomer(p) ==
    /\ Doing(p, {"pilot buyer"}, "customer")
    /\ IF On(Customer(Task(p).customer)) THEN Proceed(p, "user") ELSE Stop(p, "refused")

PilotUser(p) ==
    /\ Doing(p, {"pilot buyer"}, "user")
    /\ LET user == User(Task(p).user)
       IN  CASE ~Exists(user) -> Proceed(p, "create user")
             [] Is(user, "another name") -> Stop(p, "refused")
             [] OTHER -> Proceed(p, "membership")

PilotMembership(p) ==
    LET membership == CustomerMembership(Task(p).user, Task(p).customer)
    IN  \/ /\ Doing(p, {"pilot buyer"}, "membership")
           /\ CASE ~Exists(membership) -> Proceed(p, "create membership")
                [] On(membership) -> Skip(p)
                [] OTHER -> Stop(p, "refused")
        \/ /\ Doing(p, {"pilot buyer"}, "create user")
           /\ Insert(p, User(Task(p).user), "expected name", "create membership")
        \/ /\ Doing(p, {"pilot buyer"}, "create membership")
           /\ InsertLast(p, membership, "BUYER_ADMIN")

-------------------------------------------------------------------------------
(* create-local-demo-accounts.                                                  *)

reconcileDemoTenant(p) ==
    LET task == Task(p)
        tenant == Tenant(task.tenant)
        membership == TenantMembership(task.user, task.tenant)
    IN  \/ /\ Doing(p, {"tenant"}, "start")
           /\ CASE ~Exists(tenant) -> Proceed(p, "create tenant")
                [] Is(tenant, "another name") -> Stop(p, "refused")
                [] OTHER -> Proceed(p, "admin")
        \/ /\ Doing(p, {"tenant"}, "admin")
           /\ IF Exists(User(task.user)) THEN Proceed(p, "membership")
              ELSE Stop(p, "refused")
        \/ /\ Doing(p, {"tenant"}, "membership")
           /\ IF On(membership) /\ Is(membership, "SELLER_ADMIN") THEN Skip(p)
              ELSE Stop(p, "refused")

reconcileDemoBuyer(p) ==
    LET user == User(Task(p).user)
    IN  \/ /\ Doing(p, {"buyer"}, "start")
           /\ CASE ~Exists(user) -> Proceed(p, "create user")
                [] On(user) /\ Is(user, "expected name") -> Skip(p)
                [] OTHER -> Stop(p, "refused")
        \/ /\ Doing(p, {"buyer"}, "create user")
           /\ InsertLast(p, user, "expected name")

-------------------------------------------------------------------------------
(* restore-local-demo's import.  The files that later tasks look into are each  *)
(* a transaction that creates what is missing (MODULE BackOffice).              *)

importAllDemoCsvFiles(p) ==
    LET task == Task(p)
        customers == {k \in Customers : TenantOf[k] = task.tenant}
    IN  \/ /\ Doing(p, {"import"}, "start")
           /\ IF Exists(Tenant(task.tenant)) /\ Exists(User(task.user))
              THEN Commit(p, [r \in Rows |->
                                 IF ~Exists(r) /\ r \in {Customer(k) : k \in customers}
                                 THEN NewRow("no price list") ELSE rows[r]], "price lists")
              ELSE Stop(p, "refused")
        \/ /\ Doing(p, {"import"}, "price lists")
           /\ Commit(p, [rows EXCEPT ![StandardPriceList(task.tenant)] =
                                        IF @ = None THEN NewRow("expected name") ELSE @], "end")

-------------------------------------------------------------------------------
(* seed-local-demo-relationships: ACTIVE relationships, invitations, requests.  *)

Relationship(p) == TradingRelationship(Task(p).user, Task(p).tenant)
SetUp == {"active", "invitation", "request"}

Required(p) ==
    /\ Doing(p, SetUp, "start")
    /\ IF /\ Exists(Tenant(Task(p).tenant)) /\ Exists(User(Task(p).user))
          /\ Task(p).does # "request" => Exists(Customer(Task(p).customer))
       THEN Proceed(p, "relationship") ELSE Stop(p, "refused")

Target(does) ==
    CASE does = "active" -> "ACTIVE"
      [] does = "invitation" -> "PENDING by SELLER"
      [] OTHER -> "PENDING by BUYER"

(* reconcileActiveRelationshipState and its two siblings.                       *)
reconcileRelationshipState_SkipsAll(p) ==
    /\ Doing(p, SetUp, "relationship")
    /\ CASE ~Exists(Relationship(p)) ->
                Proceed(p, IF Task(p).does = "request" THEN "request" ELSE "invite")
         [] Is(Relationship(p), Target(Task(p).does)) -> Skip(p)
         [] OTHER -> Stop(p, "refused")
reconcileRelationshipState(p) ==
    /\ Doing(p, SetUp, "relationship")
    /\ CASE ~Exists(Relationship(p)) ->
                Proceed(p, IF Task(p).does = "request" THEN "request" ELSE "invite")
         [] Is(Relationship(p), Target(Task(p).does)) ->
                IF Task(p).does = "active" THEN Proceed(p, "price list") ELSE Skip(p)
         [] OTHER -> Stop(p, "refused")

(* inviteBuyerForCustomer, acceptInvitation and requestConnection, each a       *)
(* transaction of its own (MODULE TradingRelationship, which has the steps).    *)
inviteBuyerForCustomer(p) ==
    /\ Doing(p, {"active", "invitation"}, "invite")
    /\ \/ /\ On(Customer(Task(p).customer)) /\ On(User(Task(p).user))
          /\ ~Is(Relationship(p), "ACTIVE")
          /\ Commit(p, [rows EXCEPT ![Relationship(p)] =
                            IF Is(Relationship(p), "PENDING by BUYER") THEN @
                            ELSE NewRow("PENDING by SELLER")],
                    IF Task(p).does = "active" THEN "accept" ELSE "end")
       \/ /\ \/ ~On(Customer(Task(p).customer)) \/ ~On(User(Task(p).user))
             \/ Exists(Relationship(p))   \* ACTIVE, or inserted at the same time
          /\ Stop(p, "failed")

acceptInvitation(p) ==
    LET membership == CustomerMembership(Task(p).user, Task(p).customer)
    IN  /\ Doing(p, {"active"}, "accept")
        /\ IF On(Customer(Task(p).customer)) /\ Is(Relationship(p), "PENDING by SELLER")
           THEN Commit(p, [rows EXCEPT ![Relationship(p)] = NewRow("ACTIVE"),
                                       ![membership] = NewRow("BUYER_ADMIN")], "price list")
           ELSE Stop(p, "failed")

requestConnection(p) ==
    /\ Doing(p, {"request"}, "request")
    /\ \/ /\ On(Tenant(Task(p).tenant)) /\ ~Is(Relationship(p), "ACTIVE")
          /\ Commit(p, [rows EXCEPT ![Relationship(p)] =
                            IF Is(Relationship(p), "PENDING by SELLER") THEN @
                            ELSE NewRow("PENDING by BUYER")], "end")
       \/ /\ ~On(Tenant(Task(p).tenant)) \/ Exists(Relationship(p))
          /\ Stop(p, "failed")

ensureStandardPriceListAssigned(p) ==
    LET customer == Customer(Task(p).customer)
    IN  \/ /\ Doing(p, {"active"}, "price list")
           /\ IF On(StandardPriceList(Task(p).tenant)) THEN Proceed(p, "assignment")
              ELSE Stop(p, "refused")
        \/ /\ Doing(p, {"active"}, "assignment")
           /\ CASE Is(customer, "no price list") -> Proceed(p, "assign")
                [] Is(customer, "STD") -> Skip(p)
                [] OTHER -> Stop(p, "refused")
        \/ /\ Doing(p, {"active"}, "assign")
           /\ IF Exists(customer)
              THEN Commit(p, [rows EXCEPT ![customer].is = "STD"], "end")
              ELSE Stop(p, "failed")

-------------------------------------------------------------------------------

Start(p) ==
    /\ job[p].result # "running" /\ job[p].starts < MaxStarts
    /\ Script(p) # <<>>
    /\ job' = [job EXCEPT ![p].task = 1, ![p].step = "start",
                          ![p].result = "running", ![p].starts = @ + 1]
    /\ UNCHANGED <<tableVars, lock>>

Interrupt(p) ==
    /\ job[p].result = "running"
    /\ Stop(p, "interrupted")

Perform(p) ==
    \/ Preflight(p) \/ acquireBootstrapLock(p) \/ bootstrapPilotTenant(p)
    \/ createTenantAdminAtomically(p)
    \/ OnlyTenant(p) \/ PilotCustomer(p) \/ PilotUser(p) \/ PilotMembership(p)
    \/ reconcileDemoTenant(p) \/ reconcileDemoBuyer(p) \/ importAllDemoCsvFiles(p)
    \/ Required(p) \/ reconcileRelationshipState(p) \/ inviteBuyerForCustomer(p)
    \/ acceptInvitation(p) \/ requestConnection(p) \/ ensureStandardPriceListAssigned(p)

SetupNext == \E p \in Operators : Start(p) \/ Interrupt(p) \/ Perform(p)
=============================================================================
