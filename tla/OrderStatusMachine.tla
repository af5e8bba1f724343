------------------------- MODULE OrderStatusMachine -------------------------
(***************************************************************************)
(* The order status machine of lib/domain/orders/order-status-machine.ts:  *)
(* which status may follow which.  Every other module that moves an order  *)
(* consults this table and nothing else.                                   *)
(***************************************************************************)

\* The OrderStatus enum.  DRAFT is reserved: no code path writes it.
OrderStatus == {"DRAFT", "SUBMITTED", "CONFIRMED", "PICKING", "READY",
                "OUT_FOR_DELIVERY", "DELIVERED", "CANCELLED"}

ORDER_STATUS_TRANSITIONS ==
  [s \in OrderStatus |->
     CASE s = "SUBMITTED"        -> {"CONFIRMED", "CANCELLED"}
       [] s = "CONFIRMED"        -> {"PICKING"}
       [] s = "PICKING"          -> {"READY"}
       [] s = "READY"            -> {"OUT_FOR_DELIVERY"}
       [] s = "OUT_FOR_DELIVERY" -> {"DELIVERED"}
       [] OTHER                  -> {}]

isValidOrderTransition(from, to) == to \in ORDER_STATUS_TRANSITIONS[from]

\* The targets of advanceOrderStatus; CONFIRMED and CANCELLED have their own
\* operations.
AdvanceableOrderStatus == {"PICKING", "READY", "OUT_FOR_DELIVERY", "DELIVERED"}

\* The targets a Delivery Driver's session may ask for (auth/permissions.ts).
DriverStatus == {"OUT_FOR_DELIVERY", "DELIVERED"}

\* No driver is assigned to an order in one of these.
TERMINAL_STATUSES == {"DELIVERED", "CANCELLED"}
=============================================================================
