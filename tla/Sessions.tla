-------------------------------- MODULE Sessions -------------------------------
(* What a browser's requests are served as: src/lib/auth and the pages that use *)
(* it.  A session's token names a user and nothing else; each request resolves  *)
(* the membership it acts under from the database (resolveActiveMembership),    *)
(* one query at a time while other transactions commit, the buyer's pages once  *)
(* more with the seller that this browser chose.                                *)
EXTENDS AccountTables, Naturals

CONSTANTS
    PlatformAdmins,
    Inactive       \* ResolvedIdentity of a request that nobody is signed in for

ASSUME SessionsAssumption ==
    /\ None \notin Users /\ None # Inactive
    /\ {None, Inactive} \cap (TenantMemberships \cup CustomerMemberships) = {}

VARIABLES
    browser,   \* its cookies: the signed-in user, activeBuyerMembershipId
    request,   \* the page it asked for last, and how far the answer is
    switches   \* how often somebody else switched something, or the buyer revoked

sessionVars == <<browser, request, switches>>

Pages == {"home", "seller", "exports", "buyer", "sellers", "admin",
          "connections", "sign-in"}

NewRequest(user, page, membership) ==
    [page |-> page, of |-> membership, phase |-> "auth",
     pc |-> IF user = None THEN "guard" ELSE "user",
     tenants |-> {}, left |-> {}, default |-> None, options |-> {},
     as |-> Inactive]

Send(page, membership) ==
    /\ request' = NewRequest(browser'.user, page, membership)
    /\ turned' = {}
    /\ UNCHANGED <<installation, rows, switches>>

redirect(page) == UNCHANGED browser /\ Send(page, None)
Stage(pc) == request.pc = pc
Go(changed) == request' = changed /\ UNCHANGED <<tableVars, browser, switches>>
Show == Go([request EXCEPT !.pc = "shown"])

SessionsInit ==
    /\ browser = [user |-> None, cookie |-> None]
    /\ request = [NewRequest(None, "home", None) EXCEPT !.pc = "shown"]
    /\ switches = 0

-------------------------------------------------------------------------------
(* The person at the browser, who has a page before them.                       *)

Visit(page) ==
    /\ Stage("shown")
    /\ redirect(page)

signIn(u) ==
    /\ Stage("shown") /\ u \in installation.visitors
    /\ browser' = IF On(User(u)) THEN [browser EXCEPT !.user = u] ELSE browser
    /\ Send(IF On(User(u)) THEN "home" ELSE "sign-in", None)

(* activeBuyerMembershipId outlives the session that chose it.                  *)
signOut ==
    /\ Stage("shown") /\ browser.user # None
    /\ browser' = [browser EXCEPT !.user = None]
    /\ Send("sign-in", None)

selectActiveSeller(m) ==
    /\ Stage("shown") /\ m \in request.options
    /\ UNCHANGED browser
    /\ Send("select", m)

RelationshipOf(m) == TradingRelationship(m[2], TenantOf[m[3]])

revokeConnection(m) ==
    /\ Stage("shown") /\ request.page = "connections" /\ switches < installation.switches
    /\ m[2] = browser.user /\ Is(RelationshipOf(m), "ACTIVE")
    /\ UNCHANGED browser
    /\ Send("revoke", m)

(* Anybody else: an operator, a seller, the buyer in another browser.           *)
Switch(r) ==
    /\ switches < installation.switches /\ Exists(r)
    /\ Write([rows EXCEPT ![r].on = ~@])
    /\ switches' = switches + 1
    /\ UNCHANGED <<browser, request>>

-------------------------------------------------------------------------------
(* resolveActiveMembership, listActiveCustomerMembershipsForUser and            *)
(* findOwnActiveCustomerMembership: one query after the other.                  *)

(* The cookie counts in requireBuyerSession; the jwt callback never has it.     *)
preferredMembershipId == IF request.phase = "session" THEN browser.cookie ELSE None

Resolved(identity) == Go([request EXCEPT !.pc = "guard", !.as = identity])

ReadUser ==
    /\ Stage("user")
    /\ IF On(User(browser.user))
       THEN Go([request EXCEPT !.pc = "tenantMemberships"])
       ELSE Resolved(Inactive)

ReadTenantMemberships ==
    /\ Stage("tenantMemberships")
    /\ Go([request EXCEPT !.pc = "tenants", !.tenants =
              {t \in Tenants : On(TenantMembership(browser.user, t))}])

(* The first one with an ACTIVE tenant, in the order the database has them.     *)
ReadTenants ==
    /\ Stage("tenants")
    /\ LET active == {t \in request.tenants : On(Tenant(t))}
       IN  \/ \E t \in active : Resolved(TenantMembership(browser.user, t))
           \/ /\ active = {}
              /\ Go([request EXCEPT !.pc = "customerMemberships"])

ReadCustomerMemberships ==
    /\ Stage("customerMemberships")
    /\ Go([request EXCEPT !.pc = "candidate", !.left =
              {m \in CustomerMemberships : m[2] = browser.user /\ On(m)}])

Fallback_None(default) == None
Fallback(default) == default

NextCandidate ==
    /\ Stage("candidate")
    /\ \/ \E m \in request.left :
              Go([request EXCEPT !.pc = "customer", !.of = m, !.left = @ \ {m}])
       \/ /\ request.left = {}
          /\ IF request.phase = "list" THEN Show
             ELSE Resolved(IF preferredMembershipId = None THEN request.default
                           ELSE Fallback(request.default))

Preferred_First(m) == TRUE
Preferred(m) == preferredMembershipId \in {None, m}

Valid(m) ==
    CASE request.phase = "list" ->
             Go([request EXCEPT !.pc = "candidate", !.options = @ \cup {m}])
      [] request.phase = "own" ->
             /\ browser' = [browser EXCEPT !.cookie = m]
             /\ Send("sellers", None)
      [] request.phase \in {"auth", "session"} /\ Preferred(m) -> Resolved(m)
      [] OTHER ->
             Go([request EXCEPT !.pc = "candidate",
                                !.default = IF @ = None THEN m ELSE @])

Invalid_Break ==
    IF request.phase = "own" THEN redirect("sellers")
    ELSE Go([request EXCEPT !.pc = "candidate", !.left = {}])
Invalid ==
    IF request.phase = "own" THEN redirect("sellers")
    ELSE Go([request EXCEPT !.pc = "candidate"])

(* validateCustomerMembershipCandidate: the customer, then its tenant.          *)
ReadCustomer ==
    /\ Stage("customer")
    /\ IF On(Customer(request.of[3]))
       THEN Go([request EXCEPT !.pc = "tenant"])
       ELSE Invalid

TenantStatus_Unchecked(t) == TRUE
TenantStatus(t) == On(Tenant(t))

ReadCustomersTenant ==
    /\ Stage("tenant")
    /\ IF TenantStatus(TenantOf[request.of[3]]) THEN Valid(request.of) ELSE Invalid

ReadOwnMembership ==
    /\ Stage("membership")
    /\ IF request.of[2] = browser.user /\ On(request.of)
       THEN Go([request EXCEPT !.pc = "customer"])
       ELSE Invalid

-------------------------------------------------------------------------------
(* The pages' guards.  They redirect; the next request resolves anew.           *)

SignedIn == request.as # Inactive
AsSeller == request.as \in TenantMemberships
AsBuyer == request.as \in CustomerMemberships
IsPlatformAdmin == SignedIn /\ browser.user \in PlatformAdmins

Guards(pages) == Stage("guard") /\ request.page \in pages

HomePage ==
    /\ Guards({"home"})
    /\ CASE AsSeller -> redirect("seller")
         [] AsBuyer -> redirect("buyer")
         [] ~AsSeller /\ ~AsBuyer /\ IsPlatformAdmin -> redirect("admin")
         [] OTHER -> Show

(* One page stands for those whose capability only some roles have.             *)
requireSellerSession ==
    /\ Guards({"seller", "exports"})
    /\ CASE ~SignedIn -> redirect("sign-in")
         [] SignedIn /\ ~AsSeller -> redirect("home")
         [] /\ AsSeller /\ request.page = "exports"
            /\ ~Is(request.as, "SELLER_ADMIN") -> redirect("seller")
         [] OTHER -> Show

requireBuyerSession ==
    /\ Guards({"buyer", "sellers"})
    /\ CASE ~SignedIn -> redirect("sign-in")
         [] SignedIn /\ request.phase = "auth" ->
                Go([request EXCEPT !.pc = "user", !.phase = "session"])
         [] SignedIn /\ request.phase = "session" /\ ~AsBuyer -> redirect("home")
         [] OTHER -> IF request.page = "buyer" THEN Show
                     ELSE Go([request EXCEPT !.pc = "customerMemberships",
                                             !.phase = "list"])

requirePlatformAdminSession ==
    /\ Guards({"admin"})
    /\ CASE ~SignedIn -> redirect("sign-in")
         [] SignedIn /\ ~IsPlatformAdmin -> redirect("home")
         [] OTHER -> Show

requireAuthenticatedSession ==
    /\ Guards({"connections"})
    /\ IF SignedIn THEN Show ELSE redirect("sign-in")

SignInPage == Guards({"sign-in"}) /\ Show

selectActiveSellerAction ==
    /\ Guards({"select"})
    /\ IF SignedIn THEN Go([request EXCEPT !.pc = "membership", !.phase = "own"])
       ELSE redirect("sign-in")

revokeConnectionAction ==
    /\ Guards({"revoke"})
    /\ IF ~SignedIn THEN redirect("sign-in")
       ELSE LET m == request.of
                revoked == Is(RelationshipOf(m), "ACTIVE") /\ switches < installation.switches
            IN  /\ IF revoked
                   THEN /\ Write([r \in Rows |->
                               CASE r = RelationshipOf(m) -> [rows[r] EXCEPT !.is = "ENDED"]
                                 [] r = m /\ Exists(m) -> [rows[r] EXCEPT !.on = FALSE]
                                 [] OTHER -> rows[r]])
                        /\ switches' = switches + 1
                   ELSE UNCHANGED <<tableVars, switches>>
                /\ browser' = IF revoked /\ browser.cookie = m
                              THEN [browser EXCEPT !.cookie = None] ELSE browser
                /\ request' = [request EXCEPT !.pc = "shown", !.page = "connections"]

-------------------------------------------------------------------------------

Answer ==
    \/ ReadUser \/ ReadTenantMemberships \/ ReadTenants \/ ReadCustomerMemberships
    \/ NextCandidate \/ ReadCustomer \/ ReadCustomersTenant \/ ReadOwnMembership
    \/ HomePage \/ requireSellerSession \/ requireBuyerSession
    \/ requirePlatformAdminSession \/ requireAuthenticatedSession \/ SignInPage
    \/ selectActiveSellerAction \/ revokeConnectionAction

Browse ==
    /\ installation.visitors # {}
    /\ \/ \E page \in Pages : Visit(page)
       \/ \E u \in Users : signIn(u)
       \/ signOut
       \/ \E m \in CustomerMemberships : selectActiveSeller(m) \/ revokeConnection(m)

SessionsNext == Answer \/ Browse \/ \E r \in Rows : Switch(r)

SessionsTypeOK ==
    /\ browser \in [user : Users \cup {None}, cookie : CustomerMemberships \cup {None}]
    /\ request.as \in TenantMemberships \cup CustomerMemberships \cup {None, Inactive}
    /\ request.options \subseteq CustomerMemberships
    /\ switches \in 0..installation.switches
=============================================================================
