------------------------------- MODULE MCAccounts ------------------------------
(* Accounts for TLC: the installations that a run begins with. *)
EXTENDS AccountsProperties, TLC

CONSTANTS u1, u2, t1, t2, k1, k2, p1, p2

MCTenantOf == k1 :> t1 @@ k2 :> t2

To(does, tenant, user, customer) ==
    [does |-> does, tenant |-> tenant, user |-> user, customer |-> customer]

(* A set of rows <<row, value>>, all of them on.                                *)
Table(rs) ==
    [r \in {x[1] : x \in rs} |-> NewRow((CHOOSE x \in rs : x[1] = r)[2])]

Installation(table, script1, script2, visitors, bound) ==
    [rows |-> Table(table), script |-> p1 :> script1 @@ p2 :> script2,
     visitors |-> visitors, switches |-> bound]

Bootstrapped ==
    {<<User(u1), "expected name">>, <<Tenant(t1), "expected name">>,
     <<TenantMembership(u1, t1), "SELLER_ADMIN">>}

(* Two operators bootstrap different tenants; the admin of one signs in.        *)
Bootstraps ==
    Installation({}, <<To("bootstrap", t1, u1, None)>>, <<To("bootstrap", t2, u2, None)>>,
                 {u1}, 0)

(* The demo accounts are created meanwhile, for the same names.                 *)
BootstrapAndDemo ==
    Installation({}, <<To("bootstrap", t1, u1, None)>>,
                 <<To("tenant", t1, u1, None), To("buyer", None, u2, None)>>, {}, 0)

(* What the demo accounts find is not what they would create.                   *)
NotTheDemo ==
    Installation({<<Tenant(t1), "another name">>, <<Tenant(t2), "expected name">>},
                 <<To("tenant", t1, u1, None)>>, <<To("tenant", t2, u2, None)>>, {}, 0)
NotTheAdmin ==
    Installation({<<Tenant(t1), "expected name">>, <<User(u1), "expected name">>,
                  <<TenantMembership(u1, t1), "WAREHOUSE_WORKER">>,
                  <<User(u2), "another name">>, <<Customer(k1), "no price list">>},
                 <<To("tenant", t1, u1, None)>>, <<To("pilot buyer", t1, u2, k1)>>, {}, 0)

(* Steps left out: no customers, no price list.                                 *)
NotImported ==
    Installation(Bootstrapped \cup {<<User(u2), "expected name">>,
                                    <<Customer(k1), "no price list">>},
                 <<To("invitation", t2, u2, k2)>>, <<To("active", t1, u2, k1)>>, {}, 0)

(* One attaches a buyer to the pilot's customer while the other does the same.  *)
PilotBuyers ==
    Installation(Bootstrapped \cup {<<Customer(k1), "no price list">>},
                 <<To("pilot buyer", t1, u2, k1)>>, <<To("pilot buyer", t1, u2, k1)>>,
                 {}, 1)

RestoreScript ==
    <<To("tenant", t1, u1, None), To("buyer", None, u2, None), To("import", t1, u1, None),
      To("active", t1, u2, k1)>>

Restores == Installation({}, RestoreScript, RestoreScript, {}, 0)

(* A buyer uses the installation while it is restored.                          *)
Restore == Installation({}, RestoreScript, <<>>, {u2}, 0)

(* An invitation and a request to set up, of a buyer of another name.           *)
Pending ==
    Installation(Bootstrapped \cup {<<User(u2), "another name">>,
                                    <<Customer(k1), "another price list">>},
                 <<To("invitation", t1, u2, k1), To("request", t1, u1, None),
                   To("buyer", None, u2, None)>>,
                 <<To("request", t1, u1, None), To("active", t1, u2, k1)>>, {}, 1)

(* Two run the script that sends an invitation and a request.                   *)
Invite == <<To("invitation", t1, u2, k1), To("request", t1, u1, None)>>
Invites ==
    Installation(Bootstrapped \cup {<<User(u2), "expected name">>,
                                    <<Customer(k1), "no price list">>},
                 Invite, Invite, {}, 0)

(* A buyer of two sellers; one who is also staff and a platform admin.          *)
InUse ==
    Installation(Bootstrapped \cup
        {<<User(u2), "expected name">>, <<Tenant(t2), "expected name">>,
         <<Customer(k1), "STD">>, <<Customer(k2), "no price list">>,
         <<CustomerMembership(u2, k1), "BUYER_ADMIN">>,
         <<CustomerMembership(u2, k2), "BUYER_ADMIN">>,
         <<TradingRelationship(u2, t1), "ACTIVE">>,
         <<CustomerMembership(u1, k2), "BUYER_ADMIN">>,
         <<TenantMembership(u2, t2), "WAREHOUSE_WORKER">>},
        <<>>, <<>>, Users, 2)

MCInstallations ==
    {Bootstraps, BootstrapAndDemo, NotTheDemo, NotTheAdmin, NotImported,
     PilotBuyers, Restores, Restore, Pending, Invites, InUse}
MCRestore == {Restore}
=============================================================================
