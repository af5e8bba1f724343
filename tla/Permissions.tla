----------------------------- MODULE Permissions -----------------------------
(* What a role of a seller's staff may do (lib/auth/permissions.ts).        *)

TenantRole == {"SELLER_ADMIN", "SALES_REP", "WAREHOUSE_WORKER", "DELIVERY_DRIVER"}

SALES_REP_CAPABILITIES ==
  {"catalog:read", "customers:read", "customers:write:limited",
   "customers:addresses:write", "pricing:read", "orders:read:all",
   "orders:create", "orders:confirm", "orders:assign-driver",
   "dashboard:sales-analytics"}

WAREHOUSE_WORKER_CAPABILITIES ==
  {"catalog:read", "orders:read:fulfillment", "orders:advance:PICKING",
   "orders:advance:READY"}

DELIVERY_DRIVER_CAPABILITIES ==
  {"orders:read:delivery", "orders:advance:OUT_FOR_DELIVERY",
   "orders:advance:DELIVERED"}

SELLER_ADMIN_CAPABILITIES ==
  (SALES_REP_CAPABILITIES \ {"customers:write:limited"})
    \cup {"catalog:write", "customers:write:full", "customers:activate",
          "customers:addresses:deactivate", "pricing:write",
          "customer-visibility:write", "orders:advance:PICKING",
          "orders:advance:READY", "orders:advance:OUT_FOR_DELIVERY",
          "orders:advance:DELIVERED", "audit:read", "exports:read",
          "imports:manage"}

ROLE_CAPABILITIES ==
  [role \in TenantRole |->
     CASE role = "SELLER_ADMIN"     -> SELLER_ADMIN_CAPABILITIES
       [] role = "SALES_REP"        -> SALES_REP_CAPABILITIES
       [] role = "WAREHOUSE_WORKER" -> WAREHOUSE_WORKER_CAPABILITIES
       [] role = "DELIVERY_DRIVER"  -> DELIVERY_DRIVER_CAPABILITIES]

hasCapability(role, capability) == capability \in ROLE_CAPABILITIES[role]
=============================================================================
