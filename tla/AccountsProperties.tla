--------------------------- MODULE AccountsProperties --------------------------
(* What is checked of Accounts.                                                 *)
EXTENDS Accounts

-------------------------------------------------------------------------------
(* Requests.                                                                    *)

(* What a membership's use depends on (active-membership.ts:51, :79).           *)
Behind(m) ==
    {User(m[2]), m} \cup
    (IF m[1] = "TenantMembership" THEN {Tenant(m[3])}
     ELSE {Customer(m[3]), Tenant(TenantOf[m[3]])})

Shown == request.pc = "shown"
Used ==
    request.options \cup
    (IF request.page \in {"seller", "exports", "buyer", "sellers"} /\ request.as # Inactive
     THEN {request.as} ELSE {})

(* A page is served, and a seller offered, only under a membership of the       *)
(* signed-in user of which nothing was off for the whole request: what was      *)
(* committed as switched off before the request counts, at once and for every   *)
(* part of it: user, membership, customer and tenant (auth.ts:18).              *)
ActsOnlyWhileOn ==
    Shown => \A m \in Used : /\ m[2] = browser.user
                             /\ \A r \in Behind(m) : On(r) \/ r \in turned

UsableThroughout(m) == \A r \in Behind(m) : On(r) /\ r \notin turned

(* The seller that the buyer chose on this browser is the one acted for, as     *)
(* long as it can be (require-buyer.ts:26): whatever other sellers there are,   *)
(* in whatever order the database returns them.                                 *)
ChosenSellerKept ==
    Shown /\ request.page \in {"buyer", "sellers"} /\ browser.cookie # None =>
        (UsableThroughout(browser.cookie) /\ browser.cookie[2] = browser.user
            => request.as = browser.cookie)

(* Whoever has one usable membership is not told otherwise because of the ones  *)
(* that are not usable (active-membership.ts:146): the home page sends them on, *)
(* and the list of sellers has every usable one.                                *)
AccessNotLost ==
    /\ Shown /\ request.page = "home" =>
           ~\E m \in TenantMemberships \cup CustomerMemberships :
                m[2] = browser.user /\ UsableThroughout(m)
    /\ Shown /\ request.page = "sellers" =>
           \A m \in CustomerMemberships :
                m[2] = browser.user /\ UsableThroughout(m) => m \in request.options

(* However the guards of the pages send a browser from one to the other, it     *)
(* arrives at a page that is shown.                                             *)
NavigationsSettle == ~Shown ~> Shown

(* What the guards know of a user who is signed in, were they to ask now.       *)
AllOn(m) == m[2] = browser.user /\ \A r \in Behind(m) : On(r)
HasAccount == browser.user # None /\ On(User(browser.user))
Sells == \E m \in TenantMemberships : AllOn(m)
Buys == ~Sells /\ \E m \in CustomerMemberships : AllOn(m)
Administers == HasAccount /\ browser.user \in PlatformAdmins

(* How often a request for a page is redirected.                                *)
FromHome == IF Sells \/ Buys \/ Administers THEN 1 ELSE 0
Redirects(page) ==
    CASE page = "sign-in" -> 0
      [] page = "home" -> FromHome
      [] ~HasAccount /\ page \notin {"sign-in", "home"} -> 1
      [] HasAccount /\ page = "seller" -> IF Sells THEN 0 ELSE 1 + FromHome
      [] HasAccount /\ page = "exports" -> IF Sells THEN 1 ELSE 1 + FromHome
      [] HasAccount /\ page \in {"buyer", "sellers"} -> IF Buys THEN 0 ELSE 1 + FromHome
      [] HasAccount /\ page = "select" -> IF Buys THEN 1 ELSE 2 + FromHome
      [] HasAccount /\ page = "admin" -> IF Administers THEN 0 ELSE 1 + FromHome
      [] OTHER -> 0

(* While a request is answered rows may change, and it is sent anywhere, once.  *)
RedirectsLeft == IF turned = {} THEN Redirects(request.page) ELSE 3

(* And how many queries a request r has left before it.                         *)
EachOf(left) == 3 * Cardinality(left)
AllOfThem == EachOf(CustomerMemberships)
InThisPass(r) ==
    CASE r.pc = "guard" -> 0
      [] r.pc = "candidate" -> EachOf(r.left) + 1
      [] r.pc = "tenant" -> EachOf(r.left) + 2
      [] r.pc = "customer" -> EachOf(r.left) + 3
      [] r.pc = "customerMemberships" -> AllOfThem + 2
      [] r.pc = "tenants" -> AllOfThem + 3
      [] r.pc \in {"tenantMemberships", "membership"} -> AllOfThem + 4
      [] OTHER -> AllOfThem + 5
PassesLeft(r) ==
    IF r.phase = "auth" THEN 2 ELSE IF r.phase = "session" THEN 1 ELSE 0
QueriesOf(r) == PassesLeft(r) * (AllOfThem + 6) + InThisPass(r)
QueriesLeft == QueriesOf(request)

(* Each query and each redirect brings an unanswered request nearer to a page   *)
(* that is shown, as long as no row changes: no two guards disagree about whom  *)
(* they send away, and nobody is redirected more than three times.              *)
Nearer ==
    \/ Shown'
    \/ RedirectsLeft' < RedirectsLeft
    \/ RedirectsLeft' = RedirectsLeft /\ QueriesLeft' < QueriesLeft
NavigationsDescend ==
    [][~Shown /\ rows' = rows =>
           /\ RedirectsLeft \in 0..3 /\ QueriesLeft \in Nat
           /\ Answer => Nearer
           /\ ~Answer => UNCHANGED <<browser, request>>]_vars

-------------------------------------------------------------------------------
(* Scripts.                                                                     *)

Finished(p) == job[p].result = "done"
Tasks(p) == {Script(p)[i] : i \in 1..Len(Script(p))}

(* One bootstrap at most succeeds, however many operators run it at once and    *)
(* whatever names they enter (bootstrap-service.ts:100).                        *)
OneBootstrap ==
    Cardinality({p \in Operators :
        Finished(p) /\ \E task \in Tasks(p) : task.does = "bootstrap"}) <= 1

Has(r, is) == On(r) /\ Is(r, is)

Met(task) ==
    LET relationship == TradingRelationship(task.user, task.tenant)
    IN  CASE task.does \in {"bootstrap", "tenant"} ->
                /\ On(Tenant(task.tenant)) /\ On(User(task.user))
                /\ Has(TenantMembership(task.user, task.tenant), "SELLER_ADMIN")
          [] task.does = "buyer" -> Has(User(task.user), "expected name")
          [] task.does = "import" -> On(StandardPriceList(task.tenant))
          [] task.does = "pilot buyer" ->
                On(User(task.user)) /\ On(CustomerMembership(task.user, task.customer))
          [] task.does = "active" ->
                /\ Is(relationship, "ACTIVE")
                /\ On(CustomerMembership(task.user, task.customer))
                /\ Is(Customer(task.customer), "STD")
          [] OTHER -> Is(relationship, Target(task.does))

Wanted == UNION {Tasks(p) : p \in Operators}

(* The scripts agree with each other and with what was there at first, as the   *)
(* targets in demo-data.ts do.  Of a buyer and a seller there is one            *)
(* relationship to set up, of one customer, whose it is if it is there already. *)
OneRelationship ==
    /\ \A x, y \in Wanted :
         {x.does, y.does} \subseteq SetUp /\ x.user = y.user /\ x.tenant = y.tenant => x = y
    /\ \A x \in Wanted, r \in DOMAIN installation.rows :
         /\ x.does = "active" /\ r = TradingRelationship(x.user, x.tenant)
         /\ installation.rows[r].is = "ACTIVE"
         => CustomerMembership(x.user, x.customer) \in DOMAIN installation.rows

(* A seller has one admin, and the import is run after the accounts are created. *)
Creates == {"bootstrap", "tenant"}
OneAdmin ==
    \A x, y \in Wanted :
        {x.does, y.does} \subseteq Creates /\ x.tenant = y.tenant => x.user = y.user
InOrder ==
    \A p \in Operators : \A j \in 1..Len(Script(p)) :
        Script(p)[j].does = "import" =>
            \E i \in 1..(j - 1) : /\ Script(p)[i].does \in Creates
                                 /\ Script(p)[i].tenant = Script(p)[j].tenant
                                 /\ Script(p)[i].user = Script(p)[j].user

BeganOn == \A r \in DOMAIN installation.rows : installation.rows[r].on

(* A script that says it is done has left behind all that it is for, after      *)
(* whatever interruptions and beside whatever other script, unless something    *)
(* was off at first or somebody switched it off meanwhile.                      *)
DoneMeansDone ==
    switches = 0 /\ BeganOn /\ OneRelationship =>
        \A p \in Operators : Finished(p) => \A task \in Tasks(p) : Met(task)

(* The database was empty at first, and nobody has switched anything since.     *)
Undisturbed == switches = 0 /\ DOMAIN installation.rows = {}

(* The accounts are never left such that the script refuses to go on with them  *)
(* (demo-account-service.ts:12): a tenant has its admin or is not there.        *)
AccountsReconcile ==
    Undisturbed /\ OneAdmin /\ InOrder => \A p \in Operators :
        ~(job[p].result = "refused" /\ Task(p).does \in {"tenant", "buyer", "import"})

(* restore-local-demo.ts:20 says it is safe to re-run after it was interrupted  *)
(* partway through.                                                             *)
RestoreGoesOn ==
    Undisturbed => \A p \in Operators : job[p].result # "refused"

(* The steps of a task, and how far each is from the task's end at most.        *)
StepsOf(does) ==
    {"start"} \cup
    CASE does = "bootstrap" ->
             {"lock", "check", "create tenant", "create user", "create membership"}
      [] does = "tenant" ->
             {"create tenant", "create user", "create membership", "admin", "membership"}
      [] does = "pilot buyer" ->
             {"customer", "user", "create user", "membership", "create membership"}
      [] does = "buyer" -> {"create user"}
      [] does = "import" -> {"price lists"}
      [] does = "request" -> {"relationship", "request"}
      [] does = "invitation" -> {"relationship", "invite"}
      [] OTHER -> {"relationship", "invite", "accept", "price list", "assignment", "assign"}
LongestTask == 7
ToEnd(step) ==
    CASE step = "start" -> LongestTask
      [] step \in {"lock", "customer", "relationship"} -> 6
      [] step \in {"check", "user", "invite", "request"} -> 5
      [] step \in {"admin", "accept"} -> 4
      [] step \in {"create tenant", "membership", "price list"} -> 3
      [] step \in {"create user", "assignment"} -> 2
      [] OTHER -> 1

(* An insert waits for the script that has inserted a row with its key and not  *)
(* committed yet.                                                               *)
NextRow(p) ==
    LET task == Task(p)
    IN  CASE job[p].step = "create tenant" -> {Tenant(task.tenant)}
          [] job[p].step = "create user" -> {User(task.user)}
          [] job[p].step = "create membership" ->
                 {IF task.does = "pilot buyer" THEN CustomerMembership(task.user, task.customer)
                  ELSE TenantMembership(task.user, task.tenant)}
          [] OTHER -> {}
WaitsFor(p, q) == p # q /\ NextRow(p) \cap DOMAIN job[q].draft # {}
CanGoOn(p) ==
    /\ job[p].result = "running" /\ job[p].step \in StepsOf(Task(p).does)
    /\ \A q \in Operators : ~WaitsFor(p, q)

(* Scripts never wait for each other in a circle, whatever they insert: a script *)
(* that cannot go on waits for one that can, or that waits in turn for one that  *)
(* can.  They all insert the tenant before the user and the membership last, so *)
(* that PostgreSQL has no deadlock to end.                                      *)
ScriptsGoOn ==
    \A p \in Operators : job[p].result = "running" /\ ~CanGoOn(p) =>
        \E q \in Operators :
            /\ WaitsFor(p, q)
            /\ CanGoOn(q) \/ \E r \in Operators : WaitsFor(q, r) /\ CanGoOn(r)

(* A running script comes nearer to its end with each of its steps: it repeats  *)
(* nothing, and no other script or request sets it back.                        *)
StepsLeft(p) ==
    IF job[p].result = "running"
    THEN LongestTask * (Len(Script(p)) - job[p].task) + ToEnd(job[p].step)
    ELSE 0
ScriptsDescend ==
    [][\A p \in Operators : job[p].result = "running" =>
           /\ StepsLeft(p) \in Nat \ {0}
           /\ Perform(p) => StepsLeft(p)' < StepsLeft(p)
           /\ UNCHANGED job[p] \/ StepsLeft(p)' < StepsLeft(p)]_vars
=============================================================================
