----------------------------- MODULE AccountTables -----------------------------
(* The rows that say who may use the installation: users, tenants, customers,   *)
(* their memberships and relationships, and the tenants' standard price lists   *)
(* (prisma/schema.prisma).  A row is None until it is inserted; nothing deletes *)
(* one.  `on` is what isActive, or a tenant's status ACTIVE, says; `is` is the  *)
(* one other column that a session or an installation script looks at.          *)
EXTENDS FiniteSets

CONSTANTS
    Users,      \* by their emails
    Tenants,    \* by their slugs
    Customers,  \* by their codes
    TenantOf,   \* the tenant of a customer
    None        \* no row, no user, no choice

ASSUME TenantOfAssumption == TenantOf \in [Customers -> Tenants]

VARIABLES
    installation,   \* what the run begins with, see MODULE Accounts; never changes
    rows,           \* what is committed
    turned          \* the rows changed since the browser's current request began

tableVars == <<installation, rows, turned>>

User(u) == <<"User", u>>
Tenant(t) == <<"Tenant", t>>
Customer(k) == <<"Customer", k>>
StandardPriceList(t) == <<"PriceList", t>>
TenantMembership(u, t) == <<"TenantMembership", u, t>>
CustomerMembership(u, k) == <<"CustomerMembership", u, k>>
TradingRelationship(u, t) == <<"TradingRelationship", u, t>>

TenantMemberships == {TenantMembership(u, t) : u \in Users, t \in Tenants}
CustomerMemberships == {CustomerMembership(u, k) : u \in Users, k \in Customers}

Rows == UNION {{User(u) : u \in Users}, {Tenant(t) : t \in Tenants},
               {Customer(k) : k \in Customers},
               {StandardPriceList(t) : t \in Tenants},
               TenantMemberships, CustomerMemberships,
               {TradingRelationship(u, t) : u \in Users, t \in Tenants}}

(* A tenant's or a user's name; a role; a relationship's status and, while it   *)
(* is PENDING, who began it; the price list assigned to a customer.             *)
Values == {"expected name", "another name",
           "SELLER_ADMIN", "WAREHOUSE_WORKER", "BUYER_ADMIN",
           "PENDING by SELLER", "PENDING by BUYER", "ACTIVE", "ENDED",
           "no price list", "STD", "another price list"}

Row == [on : BOOLEAN, is : Values]
NewRow(is) == [on |-> TRUE, is |-> is]

ASSUME NoneAssumption == None \notin Row

Exists(r) == rows[r] # None
On(r) == Exists(r) /\ rows[r].on
Is(r, value) == Exists(r) /\ rows[r].is = value

Write(new) ==
    /\ rows' = new
    /\ UNCHANGED installation
    /\ turned' = turned \cup {r \in Rows : new[r] # rows[r]}

TablesTypeOK == rows \in [Rows -> Row \cup {None}] /\ turned \subseteq Rows
=============================================================================
