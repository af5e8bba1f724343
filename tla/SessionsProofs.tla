----------------------------- MODULE SessionsProofs ----------------------------
(* Proofs about the requests of Accounts, for any users, tenants, customers and *)
(* installations, whatever scripts and switches run beside them.                *)
EXTENDS AccountsProperties, FiniteSetTheorems, TLAPS

USE SessionsAssumption, TenantOfAssumption

Memberships == TenantMemberships \cup CustomerMemberships

LEMMA SellerBehind ==
    ASSUME NEW u \in Users, NEW t \in Tenants, NEW m, m = TenantMembership(u, t)
    PROVE  /\ m \in TenantMemberships /\ m \notin CustomerMemberships
           /\ m[2] = u /\ m[3] = t
           /\ Behind(m) = {User(u), m, Tenant(t)}
           /\ Behind(m) \subseteq Rows
<1>1. m \in TenantMemberships /\ m \notin CustomerMemberships /\ m[2] = u /\ m[3] = t
      /\ m[1] = "TenantMembership"
  BY DEF TenantMembership, TenantMemberships, CustomerMembership, CustomerMemberships
<1>2. Behind(m) = {User(u), m, Tenant(t)}
  BY <1>1 DEF Behind
<1> QED
  BY <1>1, <1>2 DEF Rows

LEMMA BuyerBehind ==
    ASSUME NEW m \in CustomerMemberships
    PROVE  /\ m \notin TenantMemberships
           /\ m[2] \in Users /\ m[3] \in Customers /\ TenantOf[m[3]] \in Tenants
           /\ Behind(m) = {User(m[2]), m, Customer(m[3]), Tenant(TenantOf[m[3]])}
           /\ Behind(m) \subseteq Rows
<1>1. PICK u \in Users, k \in Customers : m = CustomerMembership(u, k)
  BY DEF CustomerMemberships
<1>2. m \notin TenantMemberships /\ m[2] = u /\ m[3] = k /\ m[1] = "CustomerMembership"
  BY <1>1 DEF TenantMembership, TenantMemberships, CustomerMembership
<1>3. Behind(m) = {User(m[2]), m, Customer(m[3]), Tenant(TenantOf[m[3]])}
  BY <1>2 DEF Behind
<1> QED
  BY <1>2, <1>3 DEF Rows

LEMMA SellerMembership ==
    ASSUME NEW m \in TenantMemberships
    PROVE  \E u \in Users, t \in Tenants : m = TenantMembership(u, t)
BY DEF TenantMemberships

-------------------------------------------------------------------------------
(* What a request r of the browser b is, and where it can be.                   *)

Reading == {"user", "tenantMemberships", "tenants", "customerMemberships",
            "candidate", "customer", "tenant", "membership"}
Trying == {"candidate", "customer", "tenant"}

AllPages == Pages \cup {"select", "revoke"}

AllRequests ==
    [page : AllPages, of : CustomerMemberships \cup {None},
     phase : {"auth", "session", "list", "own"}, pc : Reading \cup {"guard", "shown"},
     tenants : SUBSET Tenants, left : SUBSET CustomerMemberships,
     default : CustomerMemberships \cup {None}, options : SUBSET CustomerMemberships,
     as : Memberships \cup {None, Inactive}]

Browsers == [user : Users \cup {None}, cookie : CustomerMemberships \cup {None}]

Controlled(r, b) ==
    /\ r.pc \in Reading \/ r.as # Inactive \/ r.tenants # {} => b.user \in Users
    /\ r.phase = "list" =>
           /\ r.pc \in Trying \cup {"customerMemberships", "shown"}
           /\ r.page = "sellers" /\ r.as \in CustomerMemberships
    /\ r.phase = "own" => r.pc \in {"membership", "customer", "tenant"}
    /\ r.phase = "session" => r.page \in {"buyer", "sellers"}
    /\ r.phase = "auth" => r.default = None
    /\ r.pc = "membership" => r.phase = "own"
    /\ r.pc \in {"customer", "tenant", "membership"} => r.of \in CustomerMemberships
    /\ r.page \in {"select", "revoke"} => r.of \in CustomerMemberships
    /\ r.phase = "own" => r.page = "select"
    /\ r.pc = "shown" /\ r.page \in {"seller", "exports"} => r.as \in TenantMemberships
    /\ r.pc = "shown" /\ r.page \in {"buyer", "sellers"} => r.as \in CustomerMemberships

-------------------------------------------------------------------------------
(* What was switched off before the request has no part in it: whatever it goes *)
(* on with has been on at some moment since it began.                           *)

Alive(r) == On(r) \/ r \in turned
Good(m, b) == m[2] = b.user /\ \A r \in Behind(m) : Alive(r)

AliveIn(r, b) ==
    /\ r.pc \in Reading \ {"user"} \/ r.as # Inactive => Alive(User(b.user))
    /\ \A t \in r.tenants : Alive(TenantMembership(b.user, t))
    /\ \A m \in r.left : m[2] = b.user /\ Alive(m)
    /\ r.pc \in {"customer", "tenant"} => r.of[2] = b.user /\ Alive(r.of)
    /\ r.pc = "tenant" => Alive(Customer(r.of[3]))
    /\ r.default # None => Good(r.default, b)
    /\ \A m \in r.options : Good(m, b)
    /\ r.as \notin {None, Inactive} => Good(r.as, b)

(* And what was on all the time is found, unless it is still to be tried.       *)
Usable(m, b) == m[2] = b.user /\ UsableThroughout(m)

Untried(m, r) == m \in r.left \/ (m = r.of /\ r.pc \in {"customer", "tenant"})

UserStays(b) == b.user \in Users /\ On(User(b.user)) /\ User(b.user) \notin turned

FoundIn(r, b) ==
    /\ UserStays(b) /\ r.pc = "guard" => r.as # Inactive
    /\ \A m \in TenantMemberships :
           Usable(m, b) /\ r.phase \in {"auth", "session"} =>
               /\ r.pc = "tenants" => m[3] \in r.tenants
               /\ r.pc \notin Trying \cup {"customerMemberships"}
               /\ r.pc = "guard" => r.as \in TenantMemberships
    /\ \A m \in CustomerMemberships :
           Usable(m, b) =>
               /\ r.phase = "auth" /\ r.pc \in Trying => Untried(m, r)
               /\ r.phase = "session" /\ r.pc \in Trying => Untried(m, r) \/ r.default # None
               /\ r.phase = "session" /\ r.pc = "guard" => r.as \in Memberships
    /\ \A m \in Memberships :
           Usable(m, b) /\ r.phase = "auth" =>
               /\ r.pc = "guard" => r.as \in Memberships
               /\ ~(r.pc = "shown" /\ r.page = "home")
    /\ b.cookie # None /\ Usable(b.cookie, b) =>
           /\ r.phase = "session" /\ r.pc \in Trying => Untried(b.cookie, r)
           /\ r.phase = "session" /\ r.pc = "guard" /\ r.as \in CustomerMemberships =>
                  r.as = b.cookie
           /\ r.phase = "list" => r.as = b.cookie
           /\ r.pc = "shown" /\ r.page \in {"buyer", "sellers"} => r.as = b.cookie
    /\ \A m \in CustomerMemberships :
           Usable(m, b) =>
               /\ r.phase = "list" /\ r.pc \in Trying => Untried(m, r) \/ m \in r.options
               /\ r.pc = "shown" /\ r.page = "sellers" => m \in r.options

RequestOK(r, b) == Controlled(r, b) /\ AliveIn(r, b) /\ FoundIn(r, b)

RequestInv == request \in AllRequests /\ browser \in Browsers /\ RequestOK(request, browser)

-------------------------------------------------------------------------------
(* A new request.                                                               *)

Sent ==
    /\ browser' \in Browsers
    /\ \/ \E page \in Pages : Send(page, None)
       \/ \E page \in AllPages, of \in CustomerMemberships : Send(page, of)

LEMMA NewRequestFields ==
    ASSUME NEW user \in Users \cup {None}, NEW page \in AllPages,
           NEW of \in CustomerMemberships \cup {None}, NEW r, r = NewRequest(user, page, of)
    PROVE  /\ r \in AllRequests
           /\ r.pc \in {"guard", "user"} /\ (r.pc = "user" <=> user # None)
           /\ r.phase = "auth" /\ r.default = None /\ r.as = Inactive
           /\ r.tenants = {} /\ r.left = {} /\ r.options = {}
           /\ r.page = page /\ r.of = of
BY DEF NewRequest, AllRequests, Reading, Memberships

LEMMA NewRequestOK ==
    ASSUME NEW b \in Browsers, NEW page \in AllPages,
           NEW of \in CustomerMemberships \cup {None},
           page \in Pages \/ of \in CustomerMemberships,
           NEW r, r = NewRequest(b.user, page, of)
    PROVE  r \in AllRequests /\ RequestOK(r, b)
<1>1. b.user \in Users \cup {None}
  BY DEF Browsers
<1>2. /\ r \in AllRequests
      /\ r.pc \in {"guard", "user"} /\ (r.pc = "user" <=> b.user # None)
      /\ r.phase = "auth" /\ r.default = None /\ r.as = Inactive
      /\ r.tenants = {} /\ r.left = {} /\ r.options = {}
      /\ r.page = page /\ r.of = of
  BY <1>1, NewRequestFields
<1>3. Controlled(r, b)
  BY <1>1, <1>2 DEF Controlled, Reading, Trying, Pages
<1>4. AliveIn(r, b)
  BY <1>1, <1>2 DEF AliveIn, Reading
<1>5. \A m \in Memberships : m[2] \in Users
  BY SellerMembership, SellerBehind, BuyerBehind DEF Memberships
<1>6. r.pc = "guard" => \A m \in Memberships : ~Usable(m, b)
  BY <1>2, <1>5 DEF Usable
<1>7. FoundIn(r, b)
  BY <1>2, <1>6 DEF FoundIn, UserStays, Trying, Memberships
<1> QED
  BY <1>2, <1>3, <1>4, <1>7 DEF RequestOK

(* A new request begins with what is committed, of which nothing has changed.   *)
LEMMA SentInv ==
    ASSUME Sent
    PROVE  RequestInv'
<1>1. PICK b \in Browsers : b = browser'
  BY DEF Sent
<1>2. PICK page \in AllPages, of \in CustomerMemberships \cup {None} :
          /\ page \in Pages \/ of \in CustomerMemberships
          /\ request' = NewRequest(browser'.user, page, of)
  BY DEF Sent, Send, AllPages
<1>3. PICK r : r = NewRequest(b.user, page, of)
  OBVIOUS
<1>4. r \in AllRequests /\ RequestOK(r, b) /\ r = request'
  BY <1>1, <1>2, <1>3, NewRequestOK
<1>5. /\ r.as = Inactive /\ r.tenants = {} /\ r.left = {} /\ r.options = {}
      /\ r.default = None /\ r.pc \in {"guard", "user"} /\ r.phase = "auth"
      /\ r.pc = "guard" => b.user \notin Users /\ \A m \in Memberships : m[2] # b.user
  <2>1. b.user \in Users \cup {None}
    BY DEF Browsers
  <2>2. \A m \in Memberships : m[2] \in Users
    BY SellerMembership, SellerBehind, BuyerBehind DEF Memberships
  <2> QED
    BY <1>3, <2>1, <2>2, NewRequestFields, <1>2
<1>6. AliveIn(request, browser)'
  BY <1>1, <1>4, <1>5 DEF AliveIn, Reading
<1>7. FoundIn(request, browser)'
  BY <1>1, <1>4, <1>5 DEF FoundIn, UserStays, Trying, Usable, Memberships
<1>8. Controlled(request, browser)'
  BY <1>1, <1>4 DEF RequestOK, Controlled
<1> QED
  BY <1>1, <1>4, <1>6, <1>7, <1>8 DEF RequestInv, RequestOK

(* A step of a request that does not end it.                                    *)
LEMMA GoInv ==
    ASSUME RequestInv, NEW r \in AllRequests, Go(r), RequestOK(r, browser)
    PROVE  RequestInv'
<1>1. UNCHANGED <<rows, turned, browser>> /\ request' = r
  BY DEF Go, tableVars
<1>2. \A x : Alive(x)' <=> Alive(x)
  BY <1>1 DEF Alive, On, Exists
<1>3. \A x : UsableThroughout(x)' <=> UsableThroughout(x)
  BY <1>1 DEF UsableThroughout, On, Exists
<1>4. AliveIn(request, browser)'
  BY <1>1, <1>2 DEF RequestOK, AliveIn, Good
<1>5. UserStays(browser)' <=> UserStays(browser)
  BY <1>1 DEF UserStays, On, Exists
<1>6. FoundIn(request, browser)'
  BY <1>1, <1>3, <1>5 DEF RequestOK, FoundIn, Usable
<1>7. Controlled(request, browser)'
  BY <1>1 DEF RequestOK, Controlled
<1> QED
  BY <1>1, <1>4, <1>6, <1>7 DEF RequestInv, RequestOK

-------------------------------------------------------------------------------
(* Changes to the tables, while the request stands where it is.                 *)

Keeps ==
    \A r \in Rows : /\ Alive(r) => Alive(r)'
                    /\ (On(r) /\ r \notin turned)' => On(r) /\ r \notin turned

LEMMA WriteKeeps ==
    ASSUME turned' = turned \cup {r \in Rows : rows'[r] # rows[r]}
    PROVE  Keeps
BY DEF Keeps, Alive, On, Exists

LEMMA KeepsAlive ==
    ASSUME Keeps, NEW r \in AllRequests, NEW b \in Browsers, Controlled(r, b), AliveIn(r, b)
    PROVE  AliveIn(r, b)'
<1>1. \A m \in Memberships : Behind(m) \subseteq Rows /\ m \in Behind(m)
  BY SellerMembership, SellerBehind, BuyerBehind DEF Memberships
<1>2. \A m \in Memberships : Alive(m) => Alive(m)'
  BY <1>1 DEF Keeps
<1>3. \A m \in Memberships : Good(m, b) => Good(m, b)'
  BY <1>1 DEF Keeps, Good
<1>4. /\ r.tenants \subseteq Tenants /\ r.left \subseteq Memberships
      /\ r.options \subseteq Memberships /\ r.default \in Memberships \cup {None}
      /\ r.as \in Memberships \cup {None, Inactive}
  BY DEF AllRequests, Memberships
<1>5. r.pc \in Reading \ {"user"} \/ r.as # Inactive => Alive(User(b.user))'
  <2>1. r.pc \in Reading \ {"user"} \/ r.as # Inactive =>
            User(b.user) \in Rows /\ Alive(User(b.user))
    BY DEF Controlled, AliveIn, Rows
  <2> QED
    BY <2>1 DEF Keeps
<1>6. \A t \in r.tenants : Alive(TenantMembership(b.user, t))'
  <2>1. \A t \in r.tenants : TenantMembership(b.user, t) \in Memberships
    BY <1>4 DEF Controlled, Memberships, TenantMemberships
  <2> QED
    BY <1>2, <2>1 DEF AliveIn
<1>7. \A m \in r.left : m[2] = b.user /\ Alive(m)'
  BY <1>2, <1>4 DEF AliveIn
<1>8. r.pc \in {"customer", "tenant"} => r.of[2] = b.user /\ Alive(r.of)'
  BY <1>2 DEF AliveIn, Controlled, Memberships
<1>9. r.pc = "tenant" => Alive(Customer(r.of[3]))'
  <2>1. r.pc = "tenant" => Customer(r.of[3]) \in Rows
    BY BuyerBehind DEF Controlled, Rows
  <2> QED
    BY <2>1 DEF AliveIn, Keeps
<1>10. /\ r.default # None => Good(r.default, b)'
       /\ \A m \in r.options : Good(m, b)'
       /\ r.as \notin {None, Inactive} => Good(r.as, b)'
  BY <1>3, <1>4 DEF AliveIn
<1> QED
  BY <1>5, <1>6, <1>7, <1>8, <1>9, <1>10 DEF AliveIn

LEMMA KeepsInv ==
    ASSUME RequestInv, Keeps, UNCHANGED <<request, browser>>
    PROVE  RequestInv'
<1>1. PICK r \in AllRequests, b \in Browsers : r = request /\ b = browser
  BY DEF RequestInv
<1>2. AliveIn(r, b) /\ FoundIn(r, b) /\ Controlled(r, b)
  BY <1>1 DEF RequestInv, RequestOK
<1>3. \A m \in Memberships : Usable(m, b)' => Usable(m, b)
  <2>1. \A m \in Memberships : Behind(m) \subseteq Rows
    BY SellerMembership, SellerBehind, BuyerBehind DEF Memberships
  <2> QED
    BY <2>1 DEF Keeps, Usable, UsableThroughout
<1>4. b.cookie \in CustomerMemberships \cup {None}
  BY DEF Browsers
<1>5. AliveIn(r, b)'
  BY <1>2, KeepsAlive
<1>6. UserStays(b)' => UserStays(b)
  BY DEF Keeps, UserStays, Rows
<1>7. FoundIn(r, b)'
  BY <1>2, <1>3, <1>4, <1>6 DEF FoundIn, Memberships
<1> QED
  BY <1>1, <1>2, <1>5, <1>7 DEF RequestInv, RequestOK, AliveIn, FoundIn, Controlled

-------------------------------------------------------------------------------
(* The steps of an answer.                                                      *)

(* What follows from a usable membership.                                       *)
LEMMA UsableOn ==
    ASSUME NEW b, NEW m \in CustomerMemberships, Usable(m, b)
    PROVE  /\ m[2] = b.user /\ On(m) /\ On(User(b.user)) /\ On(Customer(m[3]))
           /\ On(Tenant(TenantOf[m[3]]))
BY BuyerBehind DEF Usable, UsableThroughout

LEMMA UsableSellerOn ==
    ASSUME NEW b, NEW m \in TenantMemberships, Usable(m, b)
    PROVE  /\ m[3] \in Tenants /\ m = TenantMembership(b.user, m[3])
           /\ On(m) /\ On(User(b.user)) /\ On(Tenant(m[3]))
BY SellerMembership, SellerBehind DEF Usable, UsableThroughout

LEMMA ReadUserInv ==
    ASSUME RequestInv, ReadUser
    PROVE  RequestInv'
<1>1. PICK q \in AllRequests, b \in Browsers : q = request /\ b = browser
  BY DEF RequestInv
<1>2. RequestOK(q, b) /\ q.pc = "user" /\ b.user \in Users
  BY <1>1 DEF RequestInv, RequestOK, ReadUser, Stage, Controlled, Reading
<1>3. CASE On(User(b.user))
  <2> DEFINE r == [q EXCEPT !.pc = "tenantMemberships"]
  <2>1. r \in AllRequests /\ r.pc = "tenantMemberships"
        /\ r.page = q.page /\ r.of = q.of /\ r.phase = q.phase /\ r.tenants = q.tenants
        /\ r.left = q.left /\ r.default = q.default /\ r.options = q.options /\ r.as = q.as
    BY DEF AllRequests, Reading
  <2>2. Go(r)
    BY <1>1, <1>3 DEF ReadUser
  <2> HIDE DEF r
  <2>3. Controlled(r, b)
    BY <1>2, <2>1 DEF RequestOK, Controlled, Reading, Trying
  <2>4. AliveIn(r, b)
    BY <1>2, <1>3, <2>1 DEF RequestOK, AliveIn, Alive, Reading
  <2>5. FoundIn(r, b)
    BY <1>2, <2>1 DEF RequestOK, FoundIn, Trying
  <2> QED
    BY <1>1, <2>1, <2>2, <2>3, <2>4, <2>5, GoInv DEF RequestOK
<1>4. CASE ~On(User(b.user))
  <2> DEFINE r == [q EXCEPT !.pc = "guard", !.as = Inactive]
  <2>1. r \in AllRequests /\ r.pc = "guard" /\ r.as = Inactive
        /\ r.page = q.page /\ r.of = q.of /\ r.phase = q.phase /\ r.tenants = q.tenants
        /\ r.left = q.left /\ r.default = q.default /\ r.options = q.options
    BY DEF AllRequests
  <2>2. Go(r)
    BY <1>1, <1>4 DEF ReadUser, Resolved
  <2> HIDE DEF r
  <2>3. Controlled(r, b)
    BY <1>2, <2>1 DEF RequestOK, Controlled, Reading, Trying
  <2>4. AliveIn(r, b)
    BY <1>2, <2>1 DEF RequestOK, AliveIn, Reading
  <2>5. \A m \in Memberships : ~Usable(m, b)
    BY <1>4, UsableOn, UsableSellerOn DEF Memberships
  <2>6. FoundIn(r, b)
    BY <1>4, <2>1, <2>5, SessionsAssumption
    DEF FoundIn, UserStays, Trying, Memberships, Browsers
  <2> QED
    BY <1>1, <2>1, <2>2, <2>3, <2>4, <2>6, GoInv DEF RequestOK
<1> QED
  BY <1>3, <1>4

LEMMA ReadTenantMembershipsInv ==
    ASSUME RequestInv, ReadTenantMemberships
    PROVE  RequestInv'
<1>1. PICK q \in AllRequests, b \in Browsers : q = request /\ b = browser
  BY DEF RequestInv
<1>2. RequestOK(q, b) /\ q.pc = "tenantMemberships" /\ b.user \in Users
  BY <1>1 DEF RequestInv, RequestOK, ReadTenantMemberships, Stage, Controlled, Reading
<1>3. PICK tenants \in SUBSET Tenants :
          tenants = {t \in Tenants : On(TenantMembership(b.user, t))}
  OBVIOUS
<1> DEFINE r == [q EXCEPT !.pc = "tenants", !.tenants = tenants]
<1>4. r \in AllRequests /\ r.pc = "tenants" /\ r.tenants = tenants
      /\ r.page = q.page /\ r.of = q.of /\ r.phase = q.phase
      /\ r.left = q.left /\ r.default = q.default /\ r.options = q.options /\ r.as = q.as
  BY DEF AllRequests, Reading
<1>5. Go(r)
  BY <1>1, <1>3 DEF ReadTenantMemberships
<1> HIDE DEF r
<1>6. Controlled(r, b)
  BY <1>2, <1>4 DEF RequestOK, Controlled, Reading, Trying
<1>7. AliveIn(r, b)
  BY <1>2, <1>3, <1>4 DEF RequestOK, AliveIn, Alive, Reading
<1>8. \A m \in TenantMemberships : Usable(m, b) => m[3] \in tenants
  BY <1>3, UsableSellerOn
<1>9. FoundIn(r, b)
  BY <1>2, <1>4, <1>8 DEF RequestOK, FoundIn, Trying
<1> QED
  BY <1>1, <1>4, <1>5, <1>6, <1>7, <1>9, GoInv DEF RequestOK

LEMMA ReadTenantsInv ==
    ASSUME RequestInv, ReadTenants
    PROVE  RequestInv'
<1>1. PICK q \in AllRequests, b \in Browsers : q = request /\ b = browser
  BY DEF RequestInv
<1>2. RequestOK(q, b) /\ q.pc = "tenants" /\ b.user \in Users
  BY <1>1 DEF RequestInv, RequestOK, ReadTenants, Stage, Controlled, Reading
<1>3. ASSUME NEW t \in Tenants, t \in q.tenants, On(Tenant(t)),
             Resolved(TenantMembership(browser.user, t))
      PROVE  RequestInv'
  <2>1. PICK m : m = TenantMembership(b.user, t)
    OBVIOUS
  <2>2. m \in TenantMemberships /\ m \notin CustomerMemberships
        /\ m[2] = b.user /\ Behind(m) = {User(b.user), m, Tenant(t)}
    BY <1>2, <2>1, SellerBehind
  <2> DEFINE r == [q EXCEPT !.pc = "guard", !.as = m]
  <2>3. r \in AllRequests /\ r.pc = "guard" /\ r.as = m
        /\ r.page = q.page /\ r.of = q.of /\ r.phase = q.phase /\ r.tenants = q.tenants
        /\ r.left = q.left /\ r.default = q.default /\ r.options = q.options
    BY <2>2 DEF AllRequests, Memberships
  <2>4. Go(r)
    BY <1>1, <1>3, <2>1 DEF Resolved
  <2> HIDE DEF r
  <2>5. Controlled(r, b)
    BY <1>2, <2>2, <2>3 DEF RequestOK, Controlled, Reading, Trying
  <2>6. Good(m, b)
    BY <1>2, <1>3, <2>1, <2>2 DEF RequestOK, AliveIn, Good, Alive, Reading
  <2>7. AliveIn(r, b)
    BY <1>2, <2>3, <2>6 DEF RequestOK, AliveIn, Reading
  <2>8. q.phase # "list"
    BY <1>2 DEF RequestOK, Controlled, Trying
  <2>9. FoundIn(r, b)
    BY <1>2, <2>2, <2>3, <2>8 DEF RequestOK, FoundIn, Trying, Memberships
  <2> QED
    BY <1>1, <2>3, <2>4, <2>5, <2>7, <2>9, GoInv DEF RequestOK
<1>4. ASSUME {t \in q.tenants : On(Tenant(t))} = {},
             Go([request EXCEPT !.pc = "customerMemberships"])
      PROVE  RequestInv'
  <2> DEFINE r == [q EXCEPT !.pc = "customerMemberships"]
  <2>1. r \in AllRequests /\ r.pc = "customerMemberships"
        /\ r.page = q.page /\ r.of = q.of /\ r.phase = q.phase /\ r.tenants = q.tenants
        /\ r.left = q.left /\ r.default = q.default /\ r.options = q.options /\ r.as = q.as
    BY DEF AllRequests, Reading
  <2>2. Go(r)
    BY <1>1, <1>4
  <2> HIDE DEF r
  <2>3. Controlled(r, b)
    BY <1>2, <2>1 DEF RequestOK, Controlled, Reading, Trying
  <2>4. AliveIn(r, b)
    BY <1>2, <2>1 DEF RequestOK, AliveIn, Reading
  <2>5. q.phase \in {"auth", "session"} => \A m \in TenantMemberships : ~Usable(m, b)
    BY <1>2, <1>4, UsableSellerOn DEF RequestOK, FoundIn
  <2>6. FoundIn(r, b)
    BY <1>2, <2>1, <2>5 DEF RequestOK, FoundIn, Trying
  <2> QED
    BY <1>1, <2>1, <2>2, <2>3, <2>4, <2>6, GoInv DEF RequestOK
<1>5. q.tenants \subseteq Tenants
  BY DEF AllRequests
<1> QED
  BY <1>1, <1>3, <1>4, <1>5 DEF ReadTenants

LEMMA ReadCustomerMembershipsInv ==
    ASSUME RequestInv, ReadCustomerMemberships
    PROVE  RequestInv'
<1>1. PICK q \in AllRequests, b \in Browsers : q = request /\ b = browser
  BY DEF RequestInv
<1>2. RequestOK(q, b) /\ q.pc = "customerMemberships" /\ b.user \in Users
  BY <1>1 DEF RequestInv, RequestOK, ReadCustomerMemberships, Stage, Controlled, Reading
<1>3. PICK left \in SUBSET CustomerMemberships :
          left = {m \in CustomerMemberships : m[2] = b.user /\ On(m)}
  OBVIOUS
<1> DEFINE r == [q EXCEPT !.pc = "candidate", !.left = left]
<1>4. r \in AllRequests /\ r.pc = "candidate" /\ r.left = left
      /\ r.page = q.page /\ r.of = q.of /\ r.phase = q.phase /\ r.tenants = q.tenants
      /\ r.default = q.default /\ r.options = q.options /\ r.as = q.as
  BY DEF AllRequests, Reading
<1>5. Go(r)
  BY <1>1, <1>3 DEF ReadCustomerMemberships
<1> HIDE DEF r
<1>6. Controlled(r, b)
  BY <1>2, <1>4 DEF RequestOK, Controlled, Reading, Trying
<1>7. AliveIn(r, b)
  BY <1>2, <1>3, <1>4 DEF RequestOK, AliveIn, Alive, Reading
<1>8. \A m \in CustomerMemberships : Usable(m, b) => m \in left
  BY <1>3, UsableOn
<1>9. b.cookie # None => b.cookie \in CustomerMemberships
  BY DEF Browsers
<1>10. FoundIn(r, b)
  BY <1>2, <1>4, <1>8, <1>9 DEF RequestOK, FoundIn, Trying, Untried
<1> QED
  BY <1>1, <1>4, <1>5, <1>6, <1>7, <1>10, GoInv DEF RequestOK

(* The next candidate, or the end of the search.                                *)
LEMMA NextCandidateInv ==
    ASSUME RequestInv, NextCandidate
    PROVE  RequestInv'
<1>1. PICK q \in AllRequests, b \in Browsers : q = request /\ b = browser
  BY DEF RequestInv
<1>2. RequestOK(q, b) /\ q.pc = "candidate" /\ b.user \in Users
  BY <1>1 DEF RequestInv, RequestOK, NextCandidate, Stage, Controlled, Reading
<1>3. q.left \subseteq CustomerMemberships
  BY DEF AllRequests
<1>4. ASSUME NEW m \in q.left,
             Go([request EXCEPT !.pc = "customer", !.of = m, !.left = @ \ {m}])
      PROVE  RequestInv'
  <2> DEFINE r == [q EXCEPT !.pc = "customer", !.of = m, !.left = q.left \ {m}]
  <2>1. r \in AllRequests /\ r.pc = "customer" /\ r.of = m /\ r.left = q.left \ {m}
        /\ r.page = q.page /\ r.phase = q.phase /\ r.tenants = q.tenants
        /\ r.default = q.default /\ r.options = q.options /\ r.as = q.as
    BY <1>3 DEF AllRequests, Reading
  <2>2. Go(r)
    BY <1>1, <1>4
  <2> HIDE DEF r
  <2>3. Controlled(r, b)
    BY <1>2, <1>3, <1>4, <2>1 DEF RequestOK, Controlled, Reading, Trying
  <2>4. AliveIn(r, b)
    BY <1>2, <1>4, <2>1 DEF RequestOK, AliveIn, Reading
  <2>5. FoundIn(r, b)
    BY <1>2, <1>3, <1>4, <2>1 DEF RequestOK, FoundIn, Trying, Untried
  <2> QED
    BY <1>1, <2>1, <2>2, <2>3, <2>4, <2>5, GoInv DEF RequestOK
<1>5. ASSUME q.left = {}, q.phase = "list", Show
      PROVE  RequestInv'
  <2> DEFINE r == [q EXCEPT !.pc = "shown"]
  <2>1. r \in AllRequests /\ r.pc = "shown" /\ r.of = q.of /\ r.left = q.left
        /\ r.page = q.page /\ r.phase = q.phase /\ r.tenants = q.tenants
        /\ r.default = q.default /\ r.options = q.options /\ r.as = q.as
    BY DEF AllRequests
  <2>2. Go(r)
    BY <1>1, <1>5 DEF Show
  <2> HIDE DEF r
  <2>3. Controlled(r, b)
    BY <1>2, <1>5, <2>1 DEF RequestOK, Controlled, Reading, Trying
  <2>4. AliveIn(r, b)
    BY <1>2, <2>1 DEF RequestOK, AliveIn, Reading
  <2>5. q.page = "sellers"
    BY <1>2, <1>5 DEF RequestOK, Controlled
  <2>6. FoundIn(r, b)
    BY <1>2, <1>5, <2>1, <2>5 DEF RequestOK, FoundIn, Trying, Untried
  <2> QED
    BY <1>1, <2>1, <2>2, <2>3, <2>4, <2>6, GoInv DEF RequestOK
<1>6. ASSUME q.left = {}, q.phase # "list",
             Resolved(IF preferredMembershipId = None THEN request.default
                      ELSE Fallback(request.default))
      PROVE  RequestInv'
  <2> DEFINE r == [q EXCEPT !.pc = "guard", !.as = q.default]
  <2>1. r \in AllRequests /\ r.pc = "guard" /\ r.as = q.default /\ r.left = q.left
        /\ r.page = q.page /\ r.of = q.of /\ r.phase = q.phase /\ r.tenants = q.tenants
        /\ r.default = q.default /\ r.options = q.options
    BY DEF AllRequests, Memberships
  <2>2. Go(r)
    BY <1>1, <1>6 DEF Resolved, Fallback
  <2> HIDE DEF r
  <2>3. Controlled(r, b)
    BY <1>2, <1>6, <2>1 DEF RequestOK, Controlled, Reading, Trying
  <2>4. AliveIn(r, b)
    BY <1>2, <2>1 DEF RequestOK, AliveIn, Reading
  <2>5. q.phase # "own" /\ q.default \in CustomerMemberships \cup {None}
    BY <1>2 DEF RequestOK, Controlled, AllRequests
  <2>6. FoundIn(r, b)
    BY <1>2, <1>6, <2>1, <2>5 DEF RequestOK, FoundIn, Trying, Untried, Memberships
  <2> QED
    BY <1>1, <2>1, <2>2, <2>3, <2>4, <2>6, GoInv DEF RequestOK
<1> QED
  BY <1>1, <1>4, <1>5, <1>6 DEF NextCandidate

(* A candidate that is not valid was not usable throughout.                     *)
LEMMA InvalidInv ==
    ASSUME RequestInv, Invalid,
           request.pc \in {"customer", "tenant", "membership"},
           request.phase # "own" => request.pc \in Trying /\ ~Usable(request.of, browser)
    PROVE  RequestInv'
<1>1. PICK q \in AllRequests, b \in Browsers : q = request /\ b = browser
  BY DEF RequestInv
<1>2. RequestOK(q, b)
  BY <1>1 DEF RequestInv
<1>3. CASE q.phase = "own"
  <2>1. Sent
    BY <1>1, <1>3 DEF Invalid, redirect, Sent, Pages
  <2> QED
    BY <2>1, SentInv
<1>4. CASE q.phase # "own"
  <2> DEFINE r == [q EXCEPT !.pc = "candidate"]
  <2>1. r \in AllRequests /\ r.pc = "candidate" /\ r.of = q.of /\ r.left = q.left
        /\ r.page = q.page /\ r.phase = q.phase /\ r.tenants = q.tenants
        /\ r.default = q.default /\ r.options = q.options /\ r.as = q.as
    BY DEF AllRequests, Reading
  <2>2. Go(r)
    BY <1>1, <1>4 DEF Invalid
  <2> HIDE DEF r
  <2>3. Controlled(r, b)
    BY <1>1, <1>2, <1>4, <2>1 DEF RequestOK, Controlled, Reading, Trying
  <2>4. AliveIn(r, b)
    BY <1>1, <1>2, <1>4, <2>1 DEF RequestOK, AliveIn, Reading, Trying
  <2>5. FoundIn(r, b)
    BY <1>1, <1>2, <1>4, <2>1 DEF RequestOK, FoundIn, Trying, Untried
  <2> QED
    BY <1>1, <2>1, <2>2, <2>3, <2>4, <2>5, GoInv DEF RequestOK
<1> QED
  BY <1>3, <1>4

LEMMA ReadCustomerInv ==
    ASSUME RequestInv, ReadCustomer
    PROVE  RequestInv'
<1>1. PICK q \in AllRequests, b \in Browsers : q = request /\ b = browser
  BY DEF RequestInv
<1>2. RequestOK(q, b) /\ q.pc = "customer" /\ q.of \in CustomerMemberships
  BY <1>1 DEF RequestInv, RequestOK, ReadCustomer, Stage, Controlled, Reading
<1>3. CASE On(Customer(q.of[3]))
  <2> DEFINE r == [q EXCEPT !.pc = "tenant"]
  <2>1. r \in AllRequests /\ r.pc = "tenant" /\ r.of = q.of /\ r.left = q.left
        /\ r.page = q.page /\ r.phase = q.phase /\ r.tenants = q.tenants
        /\ r.default = q.default /\ r.options = q.options /\ r.as = q.as
    BY DEF AllRequests, Reading
  <2>2. Go(r)
    BY <1>1, <1>3 DEF ReadCustomer
  <2> HIDE DEF r
  <2>3. Controlled(r, b)
    BY <1>2, <2>1 DEF RequestOK, Controlled, Reading, Trying
  <2>4. AliveIn(r, b)
    BY <1>2, <1>3, <2>1 DEF RequestOK, AliveIn, Alive, Reading
  <2>5. FoundIn(r, b)
    BY <1>2, <2>1 DEF RequestOK, FoundIn, Trying, Untried
  <2> QED
    BY <1>1, <2>1, <2>2, <2>3, <2>4, <2>5, GoInv DEF RequestOK
<1>4. CASE ~On(Customer(q.of[3]))
  <2>1. ~Usable(q.of, b)
    BY <1>2, <1>4, UsableOn
  <2> QED
    BY <1>1, <1>2, <1>4, <2>1, InvalidInv DEF ReadCustomer, Trying
<1> QED
  BY <1>3, <1>4

LEMMA ReadOwnMembershipInv ==
    ASSUME RequestInv, ReadOwnMembership
    PROVE  RequestInv'
<1>1. PICK q \in AllRequests, b \in Browsers : q = request /\ b = browser
  BY DEF RequestInv
<1>2. RequestOK(q, b) /\ q.pc = "membership" /\ q.phase = "own"
      /\ q.of \in CustomerMemberships /\ b.user \in Users
  BY <1>1 DEF RequestInv, RequestOK, ReadOwnMembership, Stage, Controlled, Reading
<1>3. CASE q.of[2] = b.user /\ On(q.of)
  <2> DEFINE r == [q EXCEPT !.pc = "customer"]
  <2>1. r \in AllRequests /\ r.pc = "customer" /\ r.of = q.of /\ r.left = q.left
        /\ r.page = q.page /\ r.phase = q.phase /\ r.tenants = q.tenants
        /\ r.default = q.default /\ r.options = q.options /\ r.as = q.as
    BY DEF AllRequests, Reading
  <2>2. Go(r)
    BY <1>1, <1>3 DEF ReadOwnMembership
  <2> HIDE DEF r
  <2>3. Controlled(r, b)
    BY <1>2, <2>1 DEF RequestOK, Controlled, Reading, Trying
  <2>4. AliveIn(r, b)
    BY <1>2, <1>3, <2>1 DEF RequestOK, AliveIn, Alive, Reading
  <2>5. FoundIn(r, b)
    BY <1>2, <2>1 DEF RequestOK, FoundIn, Trying
  <2> QED
    BY <1>1, <2>1, <2>2, <2>3, <2>4, <2>5, GoInv DEF RequestOK
<1>4. CASE ~(q.of[2] = b.user /\ On(q.of))
  BY <1>1, <1>2, <1>4, InvalidInv DEF ReadOwnMembership
<1> QED
  BY <1>3, <1>4

(* The customer's tenant is the last that is read of a candidate.               *)
LEMMA ReadCustomersTenantInv ==
    ASSUME RequestInv, ReadCustomersTenant
    PROVE  RequestInv'
<1>1. PICK q \in AllRequests, b \in Browsers : q = request /\ b = browser
  BY DEF RequestInv
<1>2. RequestOK(q, b) /\ q.pc = "tenant" /\ q.of \in CustomerMemberships /\ b.user \in Users
  BY <1>1 DEF RequestInv, RequestOK, ReadCustomersTenant, Stage, Controlled, Reading
<1>3. PICK m \in CustomerMemberships : m = q.of
  BY <1>2
<1>4. CASE ~On(Tenant(TenantOf[m[3]]))
  <2>1. ~Usable(m, b)
    BY <1>4, UsableOn
  <2> QED
    BY <1>1, <1>2, <1>3, <1>4, <2>1, InvalidInv
    DEF ReadCustomersTenant, TenantStatus, Trying
<1>5. CASE On(Tenant(TenantOf[m[3]]))
  <2>1. Good(m, b)
    BY <1>2, <1>3, <1>5, BuyerBehind DEF RequestOK, AliveIn, Good, Alive, Reading
  <2>2. Valid(request.of)
    BY <1>1, <1>3, <1>5 DEF ReadCustomersTenant, TenantStatus
  <2>3. CASE q.phase = "own"
    <3>1. Sent
      BY <1>1, <1>3, <2>2, <2>3 DEF Valid, Sent, Browsers, Pages
    <3> QED
      BY <3>1, SentInv
  <2>4. CASE q.phase = "list"
    <3> DEFINE r == [q EXCEPT !.pc = "candidate", !.options = q.options \cup {m}]
    <3>1. r \in AllRequests /\ r.pc = "candidate" /\ r.options = q.options \cup {m}
          /\ r.page = q.page /\ r.phase = q.phase /\ r.tenants = q.tenants
          /\ r.of = q.of /\ r.left = q.left /\ r.default = q.default /\ r.as = q.as
      BY DEF AllRequests, Reading
    <3>2. Go(r)
      BY <1>1, <1>3, <2>2, <2>4 DEF Valid
    <3> HIDE DEF r
    <3>3. Controlled(r, b)
      BY <1>2, <2>4, <3>1 DEF RequestOK, Controlled, Reading, Trying
    <3>4. AliveIn(r, b)
      BY <1>2, <2>1, <3>1 DEF RequestOK, AliveIn, Reading
    <3>5. FoundIn(r, b)
      BY <1>2, <1>3, <2>4, <3>1 DEF RequestOK, FoundIn, Trying, Untried
    <3> QED
      BY <1>1, <3>1, <3>2, <3>3, <3>4, <3>5, GoInv DEF RequestOK
  <2>5. CASE q.phase \in {"auth", "session"} /\ preferredMembershipId \in {None, m}
    <3> DEFINE r == [q EXCEPT !.pc = "guard", !.as = m]
    <3>1. r \in AllRequests /\ r.pc = "guard" /\ r.as = m
          /\ r.page = q.page /\ r.phase = q.phase /\ r.tenants = q.tenants
          /\ r.of = q.of /\ r.left = q.left /\ r.default = q.default
          /\ r.options = q.options
      BY DEF AllRequests, Memberships
    <3>2. Go(r)
      BY <1>1, <1>3, <2>2, <2>5 DEF Valid, Preferred, Resolved
    <3> HIDE DEF r
    <3>3. Controlled(r, b)
      BY <1>2, <2>5, <3>1 DEF RequestOK, Controlled, Reading, Trying
    <3>4. AliveIn(r, b)
      BY <1>2, <2>1, <3>1 DEF RequestOK, AliveIn, Reading
    <3>5. q.phase = "session" => b.cookie \in {None, m}
      BY <1>1, <2>5 DEF preferredMembershipId
    <3>6. FoundIn(r, b)
      BY <1>2, <1>3, <2>5, <3>1, <3>5 DEF RequestOK, FoundIn, Trying, Untried, Memberships
    <3> QED
      BY <1>1, <3>1, <3>2, <3>3, <3>4, <3>6, GoInv DEF RequestOK
  <2>6. CASE q.phase \in {"auth", "session"} /\ preferredMembershipId \notin {None, m}
    <3>1. q.phase = "session" /\ m # b.cookie
      BY <1>1, <2>6 DEF preferredMembershipId
    <3>2. PICK default \in {m, q.default} :
              default = (IF q.default = None THEN m ELSE q.default) /\ default # None
      OBVIOUS
    <3> DEFINE r == [q EXCEPT !.pc = "candidate", !.default = default]
    <3>3. r \in AllRequests /\ r.pc = "candidate" /\ r.default = default
          /\ r.page = q.page /\ r.phase = q.phase /\ r.tenants = q.tenants
          /\ r.of = q.of /\ r.left = q.left /\ r.options = q.options /\ r.as = q.as
      BY <3>2 DEF AllRequests, Reading
    <3>4. Go(r)
      BY <1>1, <1>3, <2>2, <2>6, <3>2 DEF Valid, Preferred
    <3> HIDE DEF r
    <3>5. Controlled(r, b)
      BY <1>2, <3>1, <3>3 DEF RequestOK, Controlled, Reading, Trying
    <3>6. AliveIn(r, b)
      BY <1>2, <2>1, <3>2, <3>3 DEF RequestOK, AliveIn, Reading
    <3>7. FoundIn(r, b)
      BY <1>2, <1>3, <3>1, <3>2, <3>3 DEF RequestOK, FoundIn, Trying, Untried, Memberships
    <3> QED
      BY <1>1, <3>3, <3>4, <3>5, <3>6, <3>7, GoInv DEF RequestOK
  <2>7. q.phase \in {"auth", "session", "list", "own"}
    BY DEF AllRequests
  <2> QED
    BY <2>3, <2>4, <2>5, <2>6, <2>7
<1> QED
  BY <1>4, <1>5

(* The page itself, once its guard lets the request pass.                       *)
LEMMA ShowInv ==
    ASSUME RequestInv, request.pc = "guard", Show,
           request.page \in {"home", "seller", "exports", "buyer", "admin", "connections",
                             "sign-in"},
           request.page = "home" => request.as \notin Memberships,
           request.page \in {"seller", "exports"} => request.as \in TenantMemberships,
           request.page = "buyer" =>
               request.phase = "session" /\ request.as \in CustomerMemberships
    PROVE  RequestInv'
<1>1. PICK q \in AllRequests, b \in Browsers : q = request /\ b = browser
  BY DEF RequestInv
<1>2. RequestOK(q, b)
  BY <1>1 DEF RequestInv
<1> DEFINE r == [q EXCEPT !.pc = "shown"]
<1>3. r \in AllRequests /\ r.pc = "shown" /\ r.of = q.of /\ r.left = q.left
      /\ r.page = q.page /\ r.phase = q.phase /\ r.tenants = q.tenants
      /\ r.default = q.default /\ r.options = q.options /\ r.as = q.as
  BY DEF AllRequests
<1>4. Go(r)
  BY <1>1 DEF Show
<1> HIDE DEF r
<1>5. q.phase \notin {"list", "own"}
  BY <1>1, <1>2 DEF RequestOK, Controlled, Trying
<1>6. Controlled(r, b)
  BY <1>1, <1>2, <1>3, <1>5 DEF RequestOK, Controlled, Reading, Trying
<1>7. AliveIn(r, b)
  BY <1>1, <1>2, <1>3 DEF RequestOK, AliveIn, Reading
<1>8. q.page = "home" => q.phase = "auth"
  BY <1>2, <1>5 DEF RequestOK, Controlled, AllRequests
<1>9. FoundIn(r, b)
  BY <1>1, <1>2, <1>3, <1>5, <1>8 DEF RequestOK, FoundIn, Trying
<1> QED
  BY <1>1, <1>3, <1>4, <1>6, <1>7, <1>9, GoInv DEF RequestOK

LEMMA PageInv ==
    ASSUME RequestInv,
           \/ HomePage \/ requireSellerSession \/ requirePlatformAdminSession
           \/ requireAuthenticatedSession \/ SignInPage
    PROVE  RequestInv'
<1>1. CASE \E page \in Pages : redirect(page)
  BY <1>1, SentInv DEF redirect, Sent, RequestInv
<1>2. CASE ~\E page \in Pages : redirect(page)
  <2> USE <1>2, ShowInv
  <2>1. request.as \in Memberships \cup {None, Inactive}
    BY DEF RequestInv, AllRequests
  <2>2. CASE HomePage
    BY <2>1, <2>2 DEF HomePage, Guards, Stage, AsSeller, AsBuyer, Pages, Memberships
  <2>3. CASE requireSellerSession
    BY <2>1, <2>3 DEF requireSellerSession, Guards, Stage, AsSeller, SignedIn, Pages
  <2>4. CASE requirePlatformAdminSession
    BY <2>4 DEF requirePlatformAdminSession, Guards, Stage, SignedIn, Pages
  <2>5. CASE requireAuthenticatedSession \/ SignInPage
    BY <2>5 DEF requireAuthenticatedSession, SignInPage, Guards, Stage, Pages
  <2> QED
    BY <2>2, <2>3, <2>4, <2>5
<1> QED
  BY <1>1, <1>2

LEMMA BuyerPageInv ==
    ASSUME RequestInv, requireBuyerSession
    PROVE  RequestInv'
<1>1. CASE \E page \in Pages : redirect(page)
  BY <1>1, SentInv DEF redirect, Sent, RequestInv
<1>2. PICK q \in AllRequests, b \in Browsers : q = request /\ b = browser
  BY DEF RequestInv
<1>3. RequestOK(q, b) /\ q.pc = "guard" /\ q.page \in {"buyer", "sellers"}
  BY <1>2 DEF RequestInv, requireBuyerSession, Guards, Stage
<1>4. q.phase \in {"auth", "session"}
  BY <1>3 DEF RequestOK, Controlled, AllRequests, Trying
<1>5. CASE /\ q.phase = "auth" /\ q.as # Inactive
           /\ Go([request EXCEPT !.pc = "user", !.phase = "session"])
  <2> DEFINE r == [q EXCEPT !.pc = "user", !.phase = "session"]
  <2>1. r \in AllRequests /\ r.pc = "user" /\ r.of = q.of /\ r.left = q.left
        /\ r.page = q.page /\ r.phase = "session" /\ r.tenants = q.tenants
        /\ r.default = q.default /\ r.options = q.options /\ r.as = q.as
    BY DEF AllRequests, Reading
  <2>2. Go(r)
    BY <1>2, <1>5
  <2> HIDE DEF r
  <2>3. Controlled(r, b)
    BY <1>3, <1>5, <2>1 DEF RequestOK, Controlled, Reading, Trying
  <2>4. AliveIn(r, b)
    BY <1>3, <1>5, <2>1 DEF RequestOK, AliveIn, Reading
  <2>5. FoundIn(r, b)
    BY <2>1 DEF FoundIn, Trying
  <2> QED
    BY <1>2, <2>1, <2>2, <2>3, <2>4, <2>5, GoInv DEF RequestOK
<1>6. CASE q.phase = "session" /\ q.as \in CustomerMemberships /\ q.page = "buyer" /\ Show
  BY <1>2, <1>3, <1>6, ShowInv
<1>7. CASE /\ q.phase = "session" /\ q.as \in CustomerMemberships /\ q.page = "sellers"
           /\ Go([request EXCEPT !.pc = "customerMemberships", !.phase = "list"])
  <2> DEFINE r == [q EXCEPT !.pc = "customerMemberships", !.phase = "list"]
  <2>1. r \in AllRequests /\ r.pc = "customerMemberships" /\ r.of = q.of /\ r.left = q.left
        /\ r.page = q.page /\ r.phase = "list" /\ r.tenants = q.tenants
        /\ r.default = q.default /\ r.options = q.options /\ r.as = q.as
    BY DEF AllRequests, Reading
  <2>2. Go(r)
    BY <1>2, <1>7
  <2> HIDE DEF r
  <2>3. q.as # Inactive
    BY <1>7 DEF Memberships
  <2>4. Controlled(r, b)
    BY <1>3, <1>7, <2>1, <2>3 DEF RequestOK, Controlled, Reading, Trying
  <2>5. AliveIn(r, b)
    BY <1>3, <2>1, <2>3 DEF RequestOK, AliveIn, Reading
  <2>6. FoundIn(r, b)
    BY <1>3, <1>7, <2>1 DEF RequestOK, FoundIn, Trying
  <2> QED
    BY <1>2, <2>1, <2>2, <2>4, <2>5, <2>6, GoInv DEF RequestOK
<1> QED
  BY <1>1, <1>2, <1>3, <1>4, <1>5, <1>6, <1>7
  DEF requireBuyerSession, SignedIn, AsBuyer, Pages

LEMMA SelectInv ==
    ASSUME RequestInv, selectActiveSellerAction
    PROVE  RequestInv'
<1>1. CASE redirect("sign-in")
  BY <1>1, SentInv DEF redirect, Sent, RequestInv, Pages
<1>2. CASE request.as # Inactive /\ Go([request EXCEPT !.pc = "membership", !.phase = "own"])
  <2>1. PICK q \in AllRequests, b \in Browsers : q = request /\ b = browser
    BY DEF RequestInv
  <2>2. RequestOK(q, b) /\ q.pc = "guard" /\ q.page = "select"
    BY <2>1 DEF RequestInv, selectActiveSellerAction, Guards, Stage
  <2> DEFINE r == [q EXCEPT !.pc = "membership", !.phase = "own"]
  <2>3. r \in AllRequests /\ r.pc = "membership" /\ r.of = q.of /\ r.left = q.left
        /\ r.page = q.page /\ r.phase = "own" /\ r.tenants = q.tenants
        /\ r.default = q.default /\ r.options = q.options /\ r.as = q.as
    BY DEF AllRequests, Reading
  <2>4. Go(r)
    BY <1>2, <2>1
  <2> HIDE DEF r
  <2>5. Controlled(r, b)
    BY <1>2, <2>1, <2>2, <2>3 DEF RequestOK, Controlled, Reading, Trying
  <2>6. AliveIn(r, b)
    BY <1>2, <2>1, <2>2, <2>3 DEF RequestOK, AliveIn, Reading
  <2>7. FoundIn(r, b)
    BY <2>3 DEF FoundIn, Trying
  <2> QED
    BY <2>1, <2>3, <2>4, <2>5, <2>6, <2>7, GoInv DEF RequestOK
<1> QED
  BY <1>1, <1>2 DEF selectActiveSellerAction, SignedIn

(* The buyer revokes a connection: a write, and the end of the request.         *)
LEMMA RevokeInv ==
    ASSUME RequestInv, revokeConnectionAction
    PROVE  RequestInv'
<1>1. CASE redirect("sign-in")
  BY <1>1, SentInv DEF redirect, Sent, RequestInv, Pages
<1>2. PICK q \in AllRequests, b \in Browsers : q = request /\ b = browser
  BY DEF RequestInv
<1>3. RequestOK(q, b) /\ q.pc = "guard" /\ q.page = "revoke"
  BY <1>2 DEF RequestInv, revokeConnectionAction, Guards, Stage
<1>4. q.phase = "auth"
  BY <1>3 DEF RequestOK, Controlled, Trying, AllRequests
<1>5. CASE SignedIn
  <2> DEFINE r == [q EXCEPT !.pc = "shown", !.page = "connections"]
  <2>1. r \in AllRequests /\ r.pc = "shown" /\ r.of = q.of /\ r.left = q.left
        /\ r.page = "connections" /\ r.phase = q.phase /\ r.tenants = q.tenants
        /\ r.default = q.default /\ r.options = q.options /\ r.as = q.as
    BY DEF AllRequests, AllPages, Pages
  <2>2. request' = r
    BY <1>2, <1>5 DEF revokeConnectionAction
  <2>3. PICK c \in Browsers : c = browser' /\ c.user = b.user
    BY <1>2, <1>5 DEF revokeConnectionAction, Browsers
  <2>4. Keeps
    BY <1>5, WriteKeeps DEF revokeConnectionAction, Write, tableVars
  <2> HIDE DEF r
  <2>5. Controlled(r, c)
    BY <1>3, <1>4, <2>1, <2>3 DEF RequestOK, Controlled, Reading, Trying
  <2>6. AliveIn(r, c)
    BY <1>3, <2>1, <2>3 DEF RequestOK, AliveIn, Good, Reading
  <2>7. FoundIn(r, c)
    BY <1>4, <2>1 DEF FoundIn, Trying
  <2>8. AliveIn(r, c)'
    BY <2>1, <2>4, <2>5, <2>6, KeepsAlive
  <2>9. FoundIn(r, c)'
    BY <1>4, <2>1 DEF FoundIn, Trying
  <2> QED
    BY <2>1, <2>2, <2>3, <2>5, <2>8, <2>9
    DEF RequestInv, RequestOK, Controlled, AliveIn, FoundIn
<1> QED
  BY <1>1, <1>5 DEF revokeConnectionAction

(* Of the scripts it matters only that they change the tables by transactions.  *)
LEMMA ScriptsKeep ==
    ASSUME Scripts
    PROVE  Keeps /\ UNCHANGED <<request, browser>>
<1>1. UNCHANGED <<request, browser>>
  BY DEF Scripts, sessionVars
<1>2. PICK p \in Operators : Start(p) \/ Interrupt(p) \/ Perform(p)
  BY DEF Scripts, SetupNext
<1> USE <1>1, WriteKeeps
    DEF Proceed, Stop, Skip, Commit, Insert, InsertLast, Write, tableVars
<1>3. CASE Start(p) \/ Interrupt(p)
  BY <1>3 DEF Start, Interrupt
<1>4. CASE Preflight(p) \/ acquireBootstrapLock(p) \/ bootstrapPilotTenant(p)
  BY <1>4
  DEF Preflight, acquireBootstrapLock, bootstrapPilotTenant, checkBootstrapPreconditions
<1>5. CASE createTenantAdminAtomically(p)
  BY <1>5 DEF createTenantAdminAtomically
<1>6. CASE OnlyTenant(p) \/ PilotCustomer(p) \/ PilotUser(p) \/ PilotMembership(p)
  BY <1>6 DEF OnlyTenant, PilotCustomer, PilotUser, PilotMembership
<1>7. CASE reconcileDemoTenant(p) \/ reconcileDemoBuyer(p)
  BY <1>7 DEF reconcileDemoTenant, reconcileDemoBuyer
<1>8. CASE importAllDemoCsvFiles(p)
  BY <1>8 DEF importAllDemoCsvFiles
<1>9. CASE Required(p) \/ reconcileRelationshipState(p)
  BY <1>9 DEF Required, reconcileRelationshipState
<1>10. CASE inviteBuyerForCustomer(p) \/ requestConnection(p)
  BY <1>10 DEF inviteBuyerForCustomer, requestConnection
<1>11. CASE acceptInvitation(p) \/ ensureStandardPriceListAssigned(p)
  BY <1>11 DEF acceptInvitation, ensureStandardPriceListAssigned
<1> QED
  BY <1>1, <1>2, <1>3, <1>4, <1>5, <1>6, <1>7, <1>8, <1>9, <1>10, <1>11 DEF Perform

-------------------------------------------------------------------------------

LEMMA InitInv == Init => RequestInv
<1> SUFFICES ASSUME Init PROVE RequestInv
  OBVIOUS
<1>1. PICK b \in Browsers : b = browser /\ b = [user |-> None, cookie |-> None]
  BY DEF Init, SessionsInit, Browsers
<1>2. PICK q : q = NewRequest(None, "home", None)
  OBVIOUS
<1>3. q \in AllRequests /\ q.phase = "auth" /\ q.default = None /\ q.as = Inactive
      /\ q.tenants = {} /\ q.left = {} /\ q.options = {} /\ q.page = "home" /\ q.of = None
  BY <1>2, NewRequestFields DEF AllPages, Pages
<1> DEFINE r == [q EXCEPT !.pc = "shown"]
<1>4. r \in AllRequests /\ r.pc = "shown" /\ r.of = q.of /\ r.left = q.left
      /\ r.page = q.page /\ r.phase = q.phase /\ r.tenants = q.tenants
      /\ r.default = q.default /\ r.options = q.options /\ r.as = q.as
  BY <1>3 DEF AllRequests
<1>5. request = r
  BY <1>2 DEF Init, SessionsInit
<1> HIDE DEF r
<1>6. \A m \in Memberships : m[2] \in Users
  BY SellerMembership, SellerBehind, BuyerBehind DEF Memberships
<1>7. Controlled(r, b) /\ AliveIn(r, b)
  BY <1>3, <1>4 DEF Controlled, AliveIn, Reading, Trying
<1>8. FoundIn(r, b)
  BY <1>1, <1>3, <1>4, <1>6 DEF FoundIn, Trying, Usable, Memberships
<1> QED
  BY <1>1, <1>4, <1>5, <1>7, <1>8 DEF RequestInv, RequestOK

LEMMA NextInv == RequestInv /\ [Next]_vars => RequestInv'
<1> SUFFICES ASSUME RequestInv, [Next]_vars PROVE RequestInv'
  OBVIOUS
<1>1. CASE Scripts
  BY <1>1, ScriptsKeep, KeepsInv
<1>2. CASE Answer
  BY <1>2, ReadUserInv, ReadTenantMembershipsInv, ReadTenantsInv,
     ReadCustomerMembershipsInv, NextCandidateInv, ReadCustomerInv,
     ReadCustomersTenantInv, ReadOwnMembershipInv, PageInv, BuyerPageInv, SelectInv,
     RevokeInv
  DEF Answer
<1>3. CASE Browse
  BY <1>3, SentInv
  DEF Browse, Visit, signIn, signOut, selectActiveSeller, revokeConnection, redirect,
      Sent, RequestInv, Browsers, Pages, AllPages
<1>4. CASE \E r \in Rows : Switch(r)
  BY <1>4, WriteKeeps, KeepsInv DEF Switch, Write
<1>5. CASE UNCHANGED vars
  <2>1. Keeps /\ UNCHANGED <<request, browser>>
    BY <1>5 DEF vars, tableVars, sessionVars, Keeps, Alive, On, Exists
  <2> QED
    BY <2>1, KeepsInv
<1> QED
  BY <1>1, <1>2, <1>3, <1>4, <1>5 DEF Next, Requests, SessionsNext

(* A page is served, and a seller offered, only under a membership of which      *)
(* nothing was off for the whole request (auth.ts:18), whoever switches what     *)
(* between the queries (active-membership.ts:113).                              *)
THEOREM RequestsActWhileOn == Spec => []ActsOnlyWhileOn
<1>1. RequestInv => ActsOnlyWhileOn
  <2> SUFFICES ASSUME RequestInv, Shown, NEW m \in Used
               PROVE  m[2] = browser.user /\ \A r \in Behind(m) : On(r) \/ r \in turned
    BY DEF ActsOnlyWhileOn
  <2>1. PICK q \in AllRequests, b \in Browsers : q = request /\ b = browser
    BY DEF RequestInv
  <2>2. Controlled(q, b) /\ AliveIn(q, b) /\ q.pc = "shown"
    BY <2>1 DEF RequestInv, RequestOK, Shown
  <2>3. Good(m, b)
    <3>1. CASE m \in q.options
      BY <2>2, <3>1 DEF AliveIn
    <3>2. CASE m = q.as /\ q.page \in {"seller", "exports", "buyer", "sellers"}
      <4>1. q.as \in Memberships
        BY <2>2, <3>2 DEF Controlled, Memberships
      <4> QED
        BY <2>2, <3>2, <4>1 DEF AliveIn, Memberships
    <3> QED
      BY <2>1, <3>1, <3>2 DEF Used
  <2> QED
    BY <2>1, <2>3 DEF Good, Alive
<1> QED
  BY <1>1, InitInv, NextInv, PTL DEF Spec

(* The seller that the buyer chose is the one acted for as long as it can be     *)
(* (require-buyer.ts:47), whatever is committed meanwhile and in whatever order  *)
(* the memberships come.                                                        *)
THEOREM ChosenSellersAreKept == Spec => []ChosenSellerKept
<1>1. RequestInv => ChosenSellerKept
  BY DEF RequestInv, RequestOK, FoundIn, ChosenSellerKept, Usable, Shown
<1> QED
  BY <1>1, InitInv, NextInv, PTL DEF Spec

(* What is not usable does not hide what is (active-membership.ts:146).          *)
THEOREM AccessIsFound == Spec => []AccessNotLost
<1>1. RequestInv => AccessNotLost
  <2> SUFFICES ASSUME RequestInv, Shown PROVE AccessNotLost
    BY DEF AccessNotLost
  <2>1. PICK q \in AllRequests, b \in Browsers : q = request /\ b = browser
    BY DEF RequestInv
  <2>2. Controlled(q, b) /\ FoundIn(q, b) /\ q.pc = "shown"
    BY <2>1 DEF RequestInv, RequestOK, Shown
  <2>3. q.page = "home" => q.phase = "auth"
    BY <2>2 DEF Controlled, AllRequests
  <2> QED
    BY <2>1, <2>2, <2>3 DEF FoundIn, AccessNotLost, Usable, Memberships
<1> QED
  BY <1>1, InitInv, NextInv, PTL DEF Spec

-------------------------------------------------------------------------------
(* What a request is sent away for: the guards ask what the queries found, and, *)
(* as long as nothing has changed, it is so.                                    *)

MembersFinite == IsFiniteSet(CustomerMemberships)

LEMMA CustomerMembershipsFinite ==
    ASSUME IsFiniteSet(Users), IsFiniteSet(Customers)
    PROVE  MembersFinite
<1> DEFINE member == [x \in Users \X Customers |-> CustomerMembership(x[1], x[2])]
<1>1. IsFiniteSet(Users \X Customers)
  BY FS_Product
<1>2. member \in [Users \X Customers -> CustomerMemberships]
  BY DEF CustomerMemberships
<1>3. \A m \in CustomerMemberships : \E x \in Users \X Customers : member[x] = m
  <2> SUFFICES ASSUME NEW m \in CustomerMemberships
               PROVE  \E x \in Users \X Customers : member[x] = m
    OBVIOUS
  <2>1. PICK u \in Users, k \in Customers : m = CustomerMembership(u, k)
    BY DEF CustomerMemberships
  <2>2. <<u, k>> \in Users \X Customers /\ member[<<u, k>>] = m
    BY <2>1
  <2> QED
    BY <2>2
<1>4. member \in Surjection(Users \X Customers, CustomerMemberships)
  BY <1>2, <1>3 DEF Surjection
<1> QED
  BY <1>1, <1>4, FS_Surjection DEF MembersFinite

(* The measure of a request's queries.                                          *)
LEMMA Queries ==
    ASSUME MembersFinite, NEW r \in AllRequests
    PROVE  /\ AllOfThem \in Nat /\ EachOf(r.left) \in Nat /\ EachOf(r.left) <= AllOfThem
           /\ InThisPass(r) \in 0..(AllOfThem + 5)
           /\ QueriesOf(r) \in Nat
           /\ r.phase = "auth" => QueriesOf(r) = AllOfThem + AllOfThem + 12 + InThisPass(r)
           /\ r.phase = "session" => QueriesOf(r) = AllOfThem + 6 + InThisPass(r)
           /\ r.phase \notin {"auth", "session"} => QueriesOf(r) = InThisPass(r)
<1>1. /\ Cardinality(CustomerMemberships) \in Nat /\ Cardinality(r.left) \in Nat
      /\ Cardinality(r.left) <= Cardinality(CustomerMemberships)
  BY FS_CardinalityType, FS_Subset DEF MembersFinite, AllRequests
<1>2. AllOfThem \in Nat /\ EachOf(r.left) \in Nat /\ EachOf(r.left) <= AllOfThem
  BY <1>1 DEF AllOfThem, EachOf
<1>3. InThisPass(r) \in 0..(AllOfThem + 5)
  BY <1>2 DEF InThisPass
<1>4. CASE r.phase = "auth"
  <2>1. PassesLeft(r) = 2
    BY <1>4 DEF PassesLeft
  <2> QED
    BY <1>2, <1>3, <1>4, <2>1 DEF QueriesOf
<1>5. CASE r.phase = "session"
  <2>1. PassesLeft(r) = 1
    BY <1>5 DEF PassesLeft
  <2> QED
    BY <1>2, <1>3, <1>5, <2>1 DEF QueriesOf
<1>6. CASE r.phase \notin {"auth", "session"}
  <2>1. PassesLeft(r) = 0
    BY <1>6 DEF PassesLeft
  <2> QED
    BY <1>2, <1>3, <1>6, <2>1 DEF QueriesOf
<1> QED
  BY <1>2, <1>3, <1>4, <1>5, <1>6

(* A query of the same pass leaves fewer of them.                               *)
LEMMA PassGoesOn ==
    ASSUME MembersFinite, NEW q \in AllRequests, NEW r \in AllRequests,
           r.phase = q.phase, InThisPass(r) < InThisPass(q)
    PROVE  QueriesOf(r) < QueriesOf(q)
<1>1. InThisPass(r) \in Nat /\ InThisPass(q) \in Nat /\ AllOfThem \in Nat
  BY Queries
<1> QED
  BY <1>1, Queries

(* An answer's step shows a page, or goes on, or sends the browser elsewhere.   *)
Onward ==
    \E r \in AllRequests : /\ Go(r)
                           /\ r.page = request.page /\ QueriesOf(r) < QueriesOf(request)
SentAway ==
    \E page \in Pages : /\ browser'.user = browser.user /\ Send(page, None)
                        /\ turned = {} => Redirects(page) < Redirects(request.page)
Onwards == Shown' \/ Onward \/ SentAway

LEMMA NothingTurned ==
    ASSUME turned = {}
    PROVE  /\ \A m : AllOn(m) <=> Usable(m, browser)
           /\ \A m : AllOn(m) <=> Good(m, browser)
           /\ HasAccount /\ browser \in Browsers <=> UserStays(browser) /\ browser \in Browsers
<1>1. \A m : AllOn(m) <=> Usable(m, browser)
  BY DEF AllOn, Usable, UsableThroughout
<1>2. \A m : AllOn(m) <=> Good(m, browser)
  BY DEF AllOn, Good, Alive
<1>3. HasAccount /\ browser \in Browsers <=> UserStays(browser) /\ browser \in Browsers
  BY SessionsAssumption DEF HasAccount, UserStays, Browsers
<1> QED
  BY <1>1, <1>2, <1>3

LEMMA GuardsKnow ==
    ASSUME RequestInv, request.pc = "guard", turned = {}
    PROVE  /\ SignedIn <=> HasAccount
           /\ AsSeller <=> Sells
           /\ AsBuyer => Buys
           /\ request.phase = "session" /\ Buys => AsBuyer
<1>1. PICK q \in AllRequests, b \in Browsers : q = request /\ b = browser
  BY DEF RequestInv
<1>2. q.pc = "guard" /\ Controlled(q, b) /\ AliveIn(q, b) /\ FoundIn(q, b)
  BY <1>1 DEF RequestInv, RequestOK
<1>3. q.phase \in {"auth", "session"}
  BY <1>2 DEF Controlled, AllRequests, Trying
<1>4. SignedIn => HasAccount
  <2>1. q.as # Inactive => b.user \in Users /\ On(User(b.user))
    BY <1>2 DEF Controlled, AliveIn, Alive
  <2> QED
    BY <1>1, <2>1, SessionsAssumption DEF SignedIn, HasAccount
<1>5. HasAccount => SignedIn
  BY <1>1, <1>2, NothingTurned DEF SignedIn, FoundIn
<1>6. AsSeller => Sells
  <2>1. q.as \in TenantMemberships => Good(q.as, b)
    BY <1>2, SessionsAssumption DEF AliveIn
  <2> QED
    BY <1>1, <2>1, NothingTurned DEF AsSeller, Sells
<1>7. Sells => AsSeller
  BY <1>1, <1>2, <1>3, NothingTurned DEF AsSeller, Sells, FoundIn
<1>8. AsBuyer => Buys
  <2>1. q.as \in CustomerMemberships => Good(q.as, b) /\ q.as \notin TenantMemberships
    BY <1>2, SessionsAssumption, BuyerBehind DEF AliveIn
  <2> QED
    BY <1>1, <1>7, <2>1, NothingTurned DEF AsBuyer, AsSeller, Buys
<1>9. q.phase = "session" /\ Buys => AsBuyer
  <2>1. q.as \in TenantMemberships => Sells
    BY <1>1, <1>6 DEF AsSeller
  <2>2. ASSUME q.phase = "session", NEW m \in CustomerMemberships, AllOn(m)
        PROVE  q.as \in Memberships
    BY <1>1, <1>2, <2>2, NothingTurned DEF FoundIn
  <2> QED
    BY <1>1, <2>1, <2>2 DEF AsBuyer, Buys, Memberships
<1> QED
  BY <1>1, <1>4, <1>5, <1>6, <1>7, <1>8, <1>9

(* Whoever sells or buys has an account.                                        *)
LEMMA Accounted ==
    ASSUME browser \in Browsers
    PROVE  /\ Sells => HasAccount
           /\ Buys => HasAccount
           /\ FromHome \in {0, 1}
           /\ \A page \in AllPages : Redirects(page) \in 0..3
           /\ \A page \in Pages : Redirects(page) \in 0..2
<1>1. Sells => HasAccount
  <2> SUFFICES ASSUME NEW m \in TenantMemberships, AllOn(m) PROVE HasAccount
    BY DEF Sells
  <2> QED
    BY SellerMembership, SellerBehind, SessionsAssumption DEF AllOn, HasAccount
<1>2. Buys => HasAccount
  <2> SUFFICES ASSUME NEW m \in CustomerMemberships, AllOn(m) PROVE HasAccount
    BY DEF Buys
  <2> QED
    BY BuyerBehind, SessionsAssumption DEF AllOn, HasAccount
<1>3. FromHome \in {0, 1}
  BY DEF FromHome
<1>4. \A page \in AllPages : Redirects(page) \in 0..3
  BY <1>3 DEF Redirects, AllPages, Pages
<1>5. \A page \in Pages : Redirects(page) \in 0..2
  BY <1>3 DEF Redirects, Pages
<1> QED
  BY <1>1, <1>2, <1>3, <1>4, <1>5

LEMMA RedirectSends ==
    ASSUME NEW page \in Pages, redirect(page),
           turned = {} => Redirects(page) < Redirects(request.page)
    PROVE  Onwards
BY DEF redirect, SentAway, Onwards

LEMMA ShowEnds ==
    ASSUME RequestInv, Show
    PROVE  Onwards
<1>1. PICK q \in AllRequests : q = request
  BY DEF RequestInv
<1>2. request' = [q EXCEPT !.pc = "shown"]
  BY <1>1 DEF Show, Go
<1>3. request'.pc = "shown"
  BY <1>2 DEF AllRequests
<1> QED
  BY <1>3 DEF Onwards, Shown

(* The guards: no two of them send a user back and forth.                       *)
LEMMA GuardsAgree ==
    ASSUME RequestInv,
           \/ HomePage \/ requireSellerSession \/ requirePlatformAdminSession
           \/ requireAuthenticatedSession \/ SignInPage
    PROVE  Onwards
<1> USE RedirectSends, ShowEnds
<1>0. browser \in Browsers /\ request.pc = "guard"
  BY DEF RequestInv, HomePage, requireSellerSession, requirePlatformAdminSession,
         requireAuthenticatedSession, SignInPage, Guards, Stage
<1>1. CASE HomePage
  <2>1. turned = {} /\ (AsSeller \/ AsBuyer \/ IsPlatformAdmin) =>
            Redirects("home") = 1
    BY <1>0, GuardsKnow DEF Redirects, FromHome, IsPlatformAdmin, Administers
  <2>2. turned = {} /\ AsSeller => Redirects("seller") = 0
    BY <1>0, GuardsKnow, Accounted DEF Redirects
  <2>3. turned = {} /\ AsBuyer => Redirects("buyer") = 0
    BY <1>0, GuardsKnow, Accounted DEF Redirects
  <2>4. turned = {} /\ IsPlatformAdmin => Redirects("admin") = 0
    BY <1>0, GuardsKnow DEF Redirects, IsPlatformAdmin, Administers
  <2> QED
    BY <1>1, <2>1, <2>2, <2>3, <2>4 DEF HomePage, Guards, Pages
<1>2. Redirects("sign-in") = 0 /\ Redirects("home") = FromHome /\ FromHome \in {0, 1}
  BY <1>0, Accounted DEF Redirects
<1>3. CASE requireSellerSession
  <2>1. turned = {} /\ ~SignedIn => Redirects(request.page) = 1
    BY <1>0, <1>3, GuardsKnow DEF Redirects, requireSellerSession, Guards
  <2>2. turned = {} /\ SignedIn /\ ~AsSeller => Redirects(request.page) = 1 + FromHome
    BY <1>0, <1>3, GuardsKnow DEF Redirects, requireSellerSession, Guards
  <2>3. turned = {} /\ AsSeller => Redirects("exports") = 1 /\ Redirects("seller") = 0
    BY <1>0, GuardsKnow, Accounted DEF Redirects
  <2> QED
    BY <1>2, <1>3, <2>1, <2>2, <2>3 DEF requireSellerSession, Guards, Pages
<1>4. CASE requirePlatformAdminSession
  <2>1. turned = {} /\ ~SignedIn => Redirects("admin") = 1
    BY <1>0, GuardsKnow DEF Redirects
  <2>2. turned = {} /\ SignedIn /\ ~IsPlatformAdmin => Redirects("admin") = 1 + FromHome
    BY <1>0, GuardsKnow DEF Redirects, IsPlatformAdmin, Administers
  <2> QED
    BY <1>2, <1>4, <2>1, <2>2 DEF requirePlatformAdminSession, Guards, Pages
<1>5. CASE requireAuthenticatedSession
  <2>1. turned = {} /\ ~SignedIn => Redirects("connections") = 1
    BY <1>0, GuardsKnow DEF Redirects
  <2> QED
    BY <1>2, <1>5, <2>1 DEF requireAuthenticatedSession, Guards, Pages
<1>6. CASE SignInPage
  BY <1>6 DEF SignInPage
<1> QED
  BY <1>1, <1>3, <1>4, <1>5, <1>6

LEMMA GoesOnward ==
    ASSUME NEW r \in AllRequests, Go(r), r.page = request.page,
           QueriesOf(r) < QueriesOf(request)
    PROVE  Onwards
BY DEF Onward, Onwards

LEMMA BuyerGuardAgrees ==
    ASSUME RequestInv, MembersFinite, requireBuyerSession
    PROVE  Onwards
<1>1. PICK q \in AllRequests, b \in Browsers : q = request /\ b = browser
  BY DEF RequestInv
<1>2. RequestOK(q, b) /\ q.pc = "guard" /\ q.page \in {"buyer", "sellers"}
  BY <1>1 DEF RequestInv, requireBuyerSession, Guards, Stage
<1>3. Redirects("sign-in") = 0 /\ Redirects("home") = FromHome /\ FromHome \in {0, 1}
  BY <1>1, Accounted DEF Redirects
<1>4. CASE ~SignedIn
  <2>1. turned = {} => Redirects(q.page) = 1
    BY <1>1, <1>2, <1>4, GuardsKnow DEF Redirects
  <2> QED
    BY <1>1, <1>2, <1>3, <1>4, <2>1, RedirectSends DEF requireBuyerSession, Pages
<1>5. CASE SignedIn /\ q.phase = "session" /\ ~AsBuyer
  <2>1. turned = {} => Redirects(q.page) = 1 + FromHome
    BY <1>1, <1>2, <1>5, GuardsKnow DEF Redirects
  <2> QED
    BY <1>1, <1>2, <1>3, <1>5, <2>1, RedirectSends DEF requireBuyerSession, Pages
<1>6. CASE SignedIn /\ q.phase = "auth"
  <2> DEFINE r == [q EXCEPT !.pc = "user", !.phase = "session"]
  <2>1. r \in AllRequests /\ r.phase = "session" /\ r.page = q.page
    BY DEF AllRequests, Reading
  <2>2. Go(r)
    BY <1>1, <1>6 DEF requireBuyerSession
  <2> HIDE DEF r
  <2>3. /\ QueriesOf(r) = AllOfThem + 6 + InThisPass(r)
        /\ QueriesOf(q) = AllOfThem + AllOfThem + 12 + InThisPass(q)
        /\ InThisPass(r) \in 0..(AllOfThem + 5) /\ InThisPass(q) \in 0..(AllOfThem + 5)
        /\ AllOfThem \in Nat
    BY <1>6, <2>1, Queries
  <2> QED
    BY <1>1, <2>1, <2>2, <2>3, GoesOnward
<1>7. CASE SignedIn /\ q.phase = "session" /\ AsBuyer /\ q.page = "sellers"
  <2> DEFINE r == [q EXCEPT !.pc = "customerMemberships", !.phase = "list"]
  <2>1. r \in AllRequests /\ r.phase = "list" /\ r.page = q.page
    BY DEF AllRequests, Reading
  <2>2. Go(r)
    BY <1>1, <1>7 DEF requireBuyerSession
  <2> HIDE DEF r
  <2>3. /\ QueriesOf(r) = InThisPass(r)
        /\ QueriesOf(q) = AllOfThem + 6 + InThisPass(q)
        /\ InThisPass(r) \in 0..(AllOfThem + 5) /\ InThisPass(q) \in 0..(AllOfThem + 5)
        /\ AllOfThem \in Nat
    BY <1>7, <2>1, Queries
  <2> QED
    BY <1>1, <2>1, <2>2, <2>3, GoesOnward
<1>8. CASE SignedIn /\ q.phase = "session" /\ AsBuyer /\ q.page = "buyer"
  BY <1>1, <1>8, ShowEnds DEF requireBuyerSession
<1>9. q.phase \in {"auth", "session"}
  BY <1>2 DEF RequestOK, Controlled, Trying, AllRequests
<1> QED
  BY <1>2, <1>4, <1>5, <1>6, <1>7, <1>8, <1>9

LEMMA SelectGoesOn ==
    ASSUME RequestInv, MembersFinite, selectActiveSellerAction
    PROVE  Onwards
<1>1. PICK q \in AllRequests, b \in Browsers : q = request /\ b = browser
  BY DEF RequestInv
<1>2. RequestOK(q, b) /\ q.pc = "guard" /\ q.page = "select"
  BY <1>1 DEF RequestInv, selectActiveSellerAction, Guards, Stage
<1>3. CASE ~SignedIn
  <2>1. turned = {} => Redirects("select") = 1 /\ Redirects("sign-in") = 0
    BY <1>1, <1>2, <1>3, GuardsKnow DEF Redirects
  <2> QED
    BY <1>1, <1>2, <1>3, <2>1, RedirectSends DEF selectActiveSellerAction, Pages
<1>4. CASE SignedIn
  <2> DEFINE r == [q EXCEPT !.pc = "membership", !.phase = "own"]
  <2>1. r \in AllRequests /\ r.phase = "own" /\ r.page = q.page
    BY DEF AllRequests, Reading
  <2>2. Go(r)
    BY <1>1, <1>4 DEF selectActiveSellerAction
  <2> HIDE DEF r
  <2>3. q.phase \in {"auth", "session"}
    BY <1>2 DEF RequestOK, Controlled, Trying, AllRequests
  <2>4. /\ QueriesOf(r) = InThisPass(r)
        /\ QueriesOf(q) \in Nat /\ QueriesOf(q) >= AllOfThem + 6
        /\ InThisPass(r) \in 0..(AllOfThem + 5) /\ AllOfThem \in Nat
    BY <2>1, <2>3, Queries
  <2> QED
    BY <1>1, <2>1, <2>2, <2>4, GoesOnward
<1> QED
  BY <1>3, <1>4

LEMMA RevokeEnds ==
    ASSUME RequestInv, revokeConnectionAction
    PROVE  Onwards
<1>1. PICK q \in AllRequests, b \in Browsers : q = request /\ b = browser
  BY DEF RequestInv
<1>2. q.pc = "guard" /\ q.page = "revoke"
  BY <1>1 DEF RequestInv, revokeConnectionAction, Guards, Stage
<1>3. CASE ~SignedIn
  <2>1. turned = {} => Redirects("revoke") = 1 /\ Redirects("sign-in") = 0
    BY <1>1, <1>2, <1>3, GuardsKnow DEF Redirects
  <2> QED
    BY <1>1, <1>2, <1>3, <2>1, RedirectSends DEF revokeConnectionAction, Pages
<1>4. CASE SignedIn
  <2>1. request' = [q EXCEPT !.pc = "shown", !.page = "connections"]
    BY <1>1, <1>4 DEF revokeConnectionAction
  <2>2. request'.pc = "shown"
    BY <2>1 DEF AllRequests
  <2> QED
    BY <2>2 DEF Onwards, Shown
<1> QED
  BY <1>3, <1>4

-------------------------------------------------------------------------------
(* The queries: each leaves fewer to make.                                      *)

LEMMA StaysOnPage ==
    ASSUME RequestInv, MembersFinite, NEW r \in AllRequests, Go(r),
           r.page = request.page, r.phase = request.phase,
           InThisPass(r) < InThisPass(request)
    PROVE  Onwards
<1>1. request \in AllRequests
  BY DEF RequestInv
<1> QED
  BY <1>1, PassGoesOn, GoesOnward

LEMMA ResolvedEnds ==
    ASSUME RequestInv, MembersFinite, request.pc \in Reading,
           NEW as \in Memberships \cup {None, Inactive}, Resolved(as)
    PROVE  Onwards
<1>1. PICK q \in AllRequests : q = request
  BY DEF RequestInv
<1> DEFINE r == [q EXCEPT !.pc = "guard", !.as = as]
<1>2. r \in AllRequests /\ r.pc = "guard" /\ r.page = q.page /\ r.phase = q.phase
  BY DEF AllRequests
<1>3. Go(r)
  BY <1>1 DEF Resolved
<1> HIDE DEF r
<1>4. InThisPass(r) = 0
  BY <1>2 DEF InThisPass
<1>5. AllOfThem \in Nat /\ EachOf(q.left) \in Nat
  BY Queries
<1>6. InThisPass(q) > 0
  BY <1>1, <1>5 DEF InThisPass, Reading
<1> QED
  BY <1>1, <1>2, <1>3, <1>4, <1>6, StaysOnPage

(* A query that only moves the request on.                                      *)
LEMMA QueryDone ==
    ASSUME RequestInv, MembersFinite, NEW r \in AllRequests, Go(r),
           r.page = request.page, r.phase = request.phase,
           \/ request.pc = "user" /\ r.pc = "tenantMemberships"
           \/ request.pc = "tenantMemberships" /\ r.pc = "tenants"
           \/ request.pc = "tenants" /\ r.pc = "customerMemberships"
           \/ request.pc = "customerMemberships" /\ r.pc = "candidate"
           \/ request.pc = "membership" /\ r.pc = "customer"
           \/ request.pc = "customer" /\ r.pc = "tenant" /\ r.left = request.left
           \/ request.pc \in {"customer", "tenant"} /\ r.pc = "candidate"
              /\ r.left = request.left
    PROVE  Onwards
<1>1. PICK q \in AllRequests : q = request
  BY DEF RequestInv
<1>2. /\ AllOfThem \in Nat /\ EachOf(q.left) \in Nat
      /\ EachOf(r.left) \in Nat /\ EachOf(r.left) <= AllOfThem
  BY Queries
<1>3. InThisPass(r) < InThisPass(q)
  BY <1>1, <1>2 DEF InThisPass
<1> QED
  BY <1>1, <1>3, StaysOnPage

LEMMA SearchGoesOn ==
    ASSUME RequestInv, MembersFinite,
           \/ ReadUser \/ ReadTenantMemberships \/ ReadTenants \/ ReadCustomerMemberships
    PROVE  Onwards
<1>1. PICK q \in AllRequests, b \in Browsers : q = request /\ b = browser
  BY DEF RequestInv
<1>2. CASE ReadUser
  <2>1. q.pc = "user"
    BY <1>1, <1>2 DEF ReadUser, Stage
  <2>2. CASE On(User(b.user))
    <3> DEFINE r == [q EXCEPT !.pc = "tenantMemberships"]
    <3>1. r \in AllRequests /\ r.pc = "tenantMemberships" /\ r.page = q.page
          /\ r.phase = q.phase
      BY DEF AllRequests, Reading
    <3>2. Go(r)
      BY <1>1, <1>2, <2>2 DEF ReadUser
    <3> HIDE DEF r
    <3> QED
      BY <1>1, <2>1, <3>1, <3>2, QueryDone
  <2>3. CASE ~On(User(b.user))
    BY <1>1, <1>2, <2>1, <2>3, ResolvedEnds DEF ReadUser, Reading
  <2> QED
    BY <2>2, <2>3
<1>3. CASE ReadTenantMemberships
  <2>1. q.pc = "tenantMemberships"
    BY <1>1, <1>3 DEF ReadTenantMemberships, Stage
  <2>2. PICK tenants \in SUBSET Tenants :
            tenants = {t \in Tenants : On(TenantMembership(b.user, t))}
    OBVIOUS
  <2> DEFINE r == [q EXCEPT !.pc = "tenants", !.tenants = tenants]
  <2>3. r \in AllRequests /\ r.pc = "tenants" /\ r.page = q.page /\ r.phase = q.phase
    BY DEF AllRequests, Reading
  <2>4. Go(r)
    BY <1>1, <1>3, <2>2 DEF ReadTenantMemberships
  <2> HIDE DEF r
  <2> QED
    BY <1>1, <2>1, <2>3, <2>4, QueryDone
<1>4. CASE ReadTenants
  <2>1. q.pc = "tenants" /\ q.tenants \subseteq Tenants /\ b.user \in Users
    BY <1>1, <1>4
    DEF ReadTenants, Stage, RequestInv, RequestOK, Controlled, Reading, AllRequests
  <2>2. ASSUME NEW t \in q.tenants, Resolved(TenantMembership(b.user, t))
        PROVE  Onwards
    <3>1. TenantMembership(b.user, t) \in Memberships
      BY <2>1 DEF Memberships, TenantMemberships
    <3> QED
      BY <1>1, <2>1, <2>2, <3>1, ResolvedEnds DEF Reading
  <2>3. ASSUME Go([request EXCEPT !.pc = "customerMemberships"])
        PROVE  Onwards
    <3> DEFINE r == [q EXCEPT !.pc = "customerMemberships"]
    <3>1. r \in AllRequests /\ r.pc = "customerMemberships" /\ r.page = q.page
          /\ r.phase = q.phase
      BY DEF AllRequests, Reading
    <3>2. Go(r)
      BY <1>1, <2>3
    <3> HIDE DEF r
    <3> QED
      BY <1>1, <2>1, <3>1, <3>2, QueryDone
  <2> QED
    BY <1>1, <1>4, <2>2, <2>3 DEF ReadTenants
<1>5. CASE ReadCustomerMemberships
  <2>1. q.pc = "customerMemberships"
    BY <1>1, <1>5 DEF ReadCustomerMemberships, Stage
  <2>2. PICK left \in SUBSET CustomerMemberships :
            left = {m \in CustomerMemberships : m[2] = b.user /\ On(m)}
    OBVIOUS
  <2> DEFINE r == [q EXCEPT !.pc = "candidate", !.left = left]
  <2>3. r \in AllRequests /\ r.pc = "candidate" /\ r.page = q.page /\ r.phase = q.phase
    BY DEF AllRequests, Reading
  <2>4. Go(r)
    BY <1>1, <1>5, <2>2 DEF ReadCustomerMemberships
  <2> HIDE DEF r
  <2> QED
    BY <1>1, <2>1, <2>3, <2>4, QueryDone
<1> QED
  BY <1>2, <1>3, <1>4, <1>5

LEMMA NextCandidateGoesOn ==
    ASSUME RequestInv, MembersFinite, NextCandidate
    PROVE  Onwards
<1>1. PICK q \in AllRequests, b \in Browsers : q = request /\ b = browser
  BY DEF RequestInv
<1>2. q.pc = "candidate" /\ q.left \subseteq CustomerMemberships
      /\ q.default \in Memberships \cup {None}
  BY <1>1 DEF NextCandidate, Stage, AllRequests, Memberships
<1>3. ASSUME NEW m \in q.left,
             Go([request EXCEPT !.pc = "customer", !.of = m, !.left = @ \ {m}])
      PROVE  Onwards
  <2> DEFINE r == [q EXCEPT !.pc = "customer", !.of = m, !.left = q.left \ {m}]
  <2>1. r \in AllRequests /\ r.pc = "customer" /\ r.left = q.left \ {m}
        /\ r.page = q.page /\ r.phase = q.phase
    BY <1>2 DEF AllRequests, Reading
  <2>2. Go(r)
    BY <1>1, <1>3
  <2> HIDE DEF r
  <2>3. IsFiniteSet(q.left)
    BY <1>2, FS_Subset DEF MembersFinite
  <2>4. Cardinality(q.left) \in Nat /\ Cardinality(r.left) = Cardinality(q.left) - 1
    BY <2>1, <2>3, FS_CardinalityType, FS_RemoveElement
  <2>5. InThisPass(r) < InThisPass(q)
    BY <1>2, <2>1, <2>4 DEF InThisPass, EachOf
  <2> QED
    BY <1>1, <2>1, <2>2, <2>5, StaysOnPage
<1>4. CASE Show
  BY <1>4, ShowEnds
<1>5. ASSUME Resolved(IF preferredMembershipId = None THEN request.default
                      ELSE Fallback(request.default))
      PROVE  Onwards
  <2>1. Resolved(q.default)
    BY <1>1, <1>5 DEF Fallback
  <2> QED
    BY <1>1, <1>2, <2>1, ResolvedEnds DEF Reading
<1> QED
  BY <1>1, <1>3, <1>4, <1>5 DEF NextCandidate

(* The action that stores the choice sends the buyer back to the list.          *)
LEMMA BackToSellers ==
    ASSUME RequestInv, request.phase = "own", request.pc \in Reading \ {"user"},
           browser'.user = browser.user, Send("sellers", None)
    PROVE  Onwards
<1>1. PICK q \in AllRequests, b \in Browsers : q = request /\ b = browser
  BY DEF RequestInv
<1>2. q.page = "select" /\ b.user \in Users /\ Alive(User(b.user))
  BY <1>1 DEF RequestInv, RequestOK, Controlled, AliveIn
<1>3. turned = {} => HasAccount
  BY <1>1, <1>2, SessionsAssumption DEF Alive, HasAccount
<1>4. turned = {} => Redirects("sellers") < Redirects("select")
  BY <1>1, <1>3, Accounted DEF Redirects
<1> QED
  BY <1>1, <1>2, <1>4 DEF Onwards, SentAway, Pages

LEMMA InvalidGoesOn ==
    ASSUME RequestInv, MembersFinite, Invalid,
           request.pc \in {"customer", "tenant", "membership"}
    PROVE  Onwards
<1>1. PICK q \in AllRequests, b \in Browsers : q = request /\ b = browser
  BY DEF RequestInv
<1>2. CASE q.phase = "own"
  BY <1>1, <1>2, BackToSellers DEF Invalid, redirect, Reading
<1>3. CASE q.phase # "own"
  <2>1. q.pc \in {"customer", "tenant"}
    BY <1>1, <1>3 DEF RequestInv, RequestOK, Controlled
  <2> DEFINE r == [q EXCEPT !.pc = "candidate"]
  <2>2. r \in AllRequests /\ r.pc = "candidate" /\ r.left = q.left /\ r.page = q.page
        /\ r.phase = q.phase
    BY DEF AllRequests, Reading
  <2>3. Go(r)
    BY <1>1, <1>3 DEF Invalid
  <2> HIDE DEF r
  <2> QED
    BY <1>1, <2>1, <2>2, <2>3, QueryDone
<1> QED
  BY <1>2, <1>3

LEMMA CandidateGoesOn ==
    ASSUME RequestInv, MembersFinite, ReadCustomer \/ ReadCustomersTenant \/ ReadOwnMembership
    PROVE  Onwards
<1>1. PICK q \in AllRequests, b \in Browsers : q = request /\ b = browser
  BY DEF RequestInv
<1>2. q.pc \in {"customer", "tenant", "membership"} /\ q.of \in CustomerMemberships
  BY <1>1 DEF RequestInv, RequestOK, Controlled, ReadCustomer, ReadCustomersTenant,
              ReadOwnMembership, Stage
<1>3. CASE Invalid
  BY <1>1, <1>2, <1>3, InvalidGoesOn
<1>4. CASE ~Invalid /\ (ReadCustomer \/ ReadOwnMembership)
  <2>1. PICK pc \in {"tenant", "customer"} :
            /\ \/ q.pc = "customer" /\ pc = "tenant"
               \/ q.pc = "membership" /\ pc = "customer"
            /\ Go([request EXCEPT !.pc = pc])
    BY <1>1, <1>4 DEF ReadCustomer, ReadOwnMembership, Stage
  <2> DEFINE r == [q EXCEPT !.pc = pc]
  <2>2. r \in AllRequests /\ r.pc = pc /\ r.left = q.left /\ r.page = q.page
        /\ r.phase = q.phase
    BY DEF AllRequests, Reading
  <2>3. Go(r)
    BY <1>1, <2>1
  <2> HIDE DEF r
  <2> QED
    BY <1>1, <2>1, <2>2, <2>3, QueryDone
<1>5. CASE ~Invalid /\ ReadCustomersTenant
  <2>1. Valid(request.of) /\ q.pc = "tenant"
    BY <1>1, <1>5 DEF ReadCustomersTenant, Stage
  <2>2. CASE q.phase = "own"
    <3>1. Send("sellers", None) /\ browser' = [browser EXCEPT !.cookie = request.of]
      BY <1>1, <2>1, <2>2 DEF Valid
    <3>2. browser'.user = browser.user
      BY <1>1, <3>1 DEF Browsers
    <3> QED
      BY <1>1, <1>2, <2>2, <3>1, <3>2, BackToSellers DEF Reading
  <2>3. CASE q.phase \in {"auth", "session"} /\ Preferred(q.of)
    BY <1>1, <1>2, <2>1, <2>3, ResolvedEnds DEF Valid, Reading, Memberships
  <2>4. CASE q.phase = "list" \/ (q.phase \in {"auth", "session"} /\ ~Preferred(q.of))
    <3>1. PICK options \in SUBSET CustomerMemberships,
               default \in CustomerMemberships \cup {None} :
              Go([q EXCEPT !.pc = "candidate", !.options = options, !.default = default])
      <4>1. q = [q EXCEPT !.default = q.default] /\ q = [q EXCEPT !.options = q.options]
            /\ q.options \subseteq CustomerMemberships
            /\ q.default \in CustomerMemberships \cup {None}
        BY DEF AllRequests
      <4>2. CASE q.phase = "list"
        <5>1. Go([q EXCEPT !.pc = "candidate", !.options = q.options \cup {q.of}])
          BY <1>1, <2>1, <4>2 DEF Valid
        <5>2. [q EXCEPT !.pc = "candidate", !.options = q.options \cup {q.of}] =
              [q EXCEPT !.pc = "candidate", !.options = q.options \cup {q.of},
                        !.default = q.default]
          BY DEF AllRequests
        <5>3. Go([q EXCEPT !.pc = "candidate", !.options = q.options \cup {q.of},
                           !.default = q.default])
          BY <5>1, <5>2
        <5>4. q.options \cup {q.of} \in SUBSET CustomerMemberships
          BY <1>2, <4>1
        <5> QED
          BY <4>1, <5>3, <5>4
      <4>3. CASE q.phase # "list"
        <5>1. PICK default \in CustomerMemberships \cup {None} :
                  Go([q EXCEPT !.pc = "candidate", !.default = default])
          BY <1>1, <1>2, <2>1, <2>4, <4>1, <4>3 DEF Valid
        <5>2. [q EXCEPT !.pc = "candidate", !.default = default] =
              [q EXCEPT !.pc = "candidate", !.options = q.options, !.default = default]
          BY DEF AllRequests
        <5>3. Go([q EXCEPT !.pc = "candidate", !.options = q.options, !.default = default])
          BY <5>1, <5>2
        <5> QED
          BY <4>1, <5>3
      <4> QED
        BY <4>2, <4>3
    <3> DEFINE r == [q EXCEPT !.pc = "candidate", !.options = options, !.default = default]
    <3>2. r \in AllRequests /\ r.pc = "candidate" /\ r.left = q.left /\ r.page = q.page
          /\ r.phase = q.phase
      BY DEF AllRequests, Reading
    <3>3. Go(r)
      BY <3>1
    <3> HIDE DEF r
    <3> QED
      BY <1>1, <2>1, <3>2, <3>3, QueryDone
  <2>5. q.phase \in {"auth", "session", "list", "own"}
    BY DEF AllRequests
  <2> QED
    BY <2>2, <2>3, <2>4, <2>5
<1> QED
  BY <1>3, <1>4, <1>5

LEMMA AnswersGoOn ==
    ASSUME RequestInv, MembersFinite, Answer
    PROVE  Onwards
BY SearchGoesOn, NextCandidateGoesOn, CandidateGoesOn, GuardsAgree, BuyerGuardAgrees,
   SelectGoesOn, RevokeEnds
DEF Answer

(* What a redirect goes by, if no row changes.                                  *)
LEMMA SameRedirects ==
    ASSUME rows' = rows, browser'.user = browser.user, NEW page
    PROVE  Redirects(page)' = Redirects(page)
<1>1. \A m : AllOn(m)' <=> AllOn(m)
  BY DEF AllOn, On, Exists
<1>2. /\ HasAccount' <=> HasAccount
      /\ Administers' <=> Administers
  BY DEF HasAccount, Administers, On, Exists
<1>3. /\ Sells' <=> Sells
      /\ Buys' <=> Buys
  BY <1>1 DEF Sells, Buys
<1>4. FromHome' = FromHome
  BY <1>2, <1>3 DEF FromHome
<1> QED
  BY <1>2, <1>3, <1>4 DEF Redirects

LEMMA OnwardsNearer ==
    ASSUME RequestInv, MembersFinite, Onwards, rows' = rows
    PROVE  Nearer
<1>1. CASE Shown'
  BY <1>1 DEF Nearer
<1>2. CASE Onward
  <2>1. PICK r \in AllRequests :
            Go(r) /\ r.page = request.page /\ QueriesOf(r) < QueriesOf(request)
    BY <1>2 DEF Onward
  <2>2. UNCHANGED <<turned, browser>> /\ request' = r
    BY <2>1 DEF Go, tableVars
  <2>3. Redirects(request.page)' = Redirects(request.page)
    <3>1. PICK page : page = request.page /\ page = request'.page
      BY <2>1, <2>2
    <3>2. Redirects(page)' = Redirects(page)
      BY <2>2, SameRedirects
    <3> QED
      BY <3>1, <3>2
  <2>4. RedirectsLeft' = RedirectsLeft
    BY <2>2, <2>3 DEF RedirectsLeft
  <2>5. QueriesLeft' = QueriesOf(r)
    BY <2>2 DEF QueriesLeft
  <2> QED
    BY <2>1, <2>4, <2>5 DEF Nearer, QueriesLeft
<1>3. CASE SentAway
  <2>1. PICK page \in Pages :
            /\ browser'.user = browser.user /\ Send(page, None)
            /\ turned = {} => Redirects(page) < Redirects(request.page)
    BY <1>3 DEF SentAway
  <2>2. turned' = {} /\ request'.page = page
    BY <2>1 DEF Send, NewRequest
  <2>3. RedirectsLeft' = Redirects(page)
    BY <2>1, <2>2, SameRedirects DEF RedirectsLeft
  <2>4. Redirects(page) \in 0..2
    BY Accounted DEF RequestInv
  <2> QED
    BY <2>1, <2>3, <2>4 DEF Nearer, RedirectsLeft
<1> QED
  BY <1>1, <1>2, <1>3 DEF Onwards

(* However many memberships and tenants a user has, and whatever of them is on, *)
(* the guards of the pages (home, require-seller, require-buyer, admin) agree:  *)
(* a request is redirected at most three times and makes finitely many queries, *)
(* unless a row changes meanwhile.                                              *)
THEOREM NavigationsComeNearer ==
    ASSUME IsFiniteSet(Users), IsFiniteSet(Customers)
    PROVE  Spec => NavigationsDescend
<1>1. MembersFinite
  BY CustomerMembershipsFinite
<1>2. RequestInv /\ [Next]_vars =>
          [~Shown /\ rows' = rows =>
               /\ RedirectsLeft \in 0..3 /\ QueriesLeft \in Nat
               /\ Answer => Nearer
               /\ ~Answer => UNCHANGED <<browser, request>>]_vars
  <2> SUFFICES ASSUME RequestInv, Next, ~Shown, rows' = rows
               PROVE  /\ RedirectsLeft \in 0..3 /\ QueriesLeft \in Nat
                      /\ Answer => Nearer
                      /\ ~Answer => UNCHANGED <<browser, request>>
    OBVIOUS
  <2>1. request \in AllRequests /\ browser \in Browsers
    BY DEF RequestInv
  <2>2. RedirectsLeft \in 0..3
    BY <2>1, Accounted DEF RedirectsLeft, AllRequests
  <2>3. QueriesLeft \in Nat
    BY <1>1, <2>1, Queries DEF QueriesLeft
  <2>4. Answer => Nearer
    BY <1>1, AnswersGoOn, OnwardsNearer
  <2>5. ~Answer => UNCHANGED <<browser, request>>
    <3>1. ~Browse
      BY DEF Browse, Visit, signIn, signOut, selectActiveSeller, revokeConnection, Stage,
             Shown
    <3> QED
      BY <3>1 DEF Next, Scripts, Requests, SessionsNext, Switch, sessionVars
  <2> QED
    BY <2>2, <2>3, <2>4, <2>5
<1> QED
  BY <1>2, InitInv, NextInv, PTL DEF Spec, NavigationsDescend
=============================================================================
