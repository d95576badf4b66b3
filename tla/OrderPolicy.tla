----------------------------- MODULE OrderPolicy -----------------------------
(***************************************************************************)
(* The decision tables of the order domain: which lifecycle changes are    *)
(* legal, who may cancel and why, and how a shipment step relates to the   *)
(* order it belongs to.  Everything here is constant; module Fulfillment   *)
(* turns the tables into actions.                                          *)
(***************************************************************************)
EXTENDS Integers

ShopeeLike == "SHOPEE_LIKE"
TokopediaLike == "TOKOPEDIA_LIKE"
Providers == {ShopeeLike, TokopediaLike}

OrderStatus == {"UNPAID", "PAID", "PROCESSING", "READY_TO_SHIP", "SHIPPED",
                "IN_DELIVERY", "DELIVERED", "COMPLETED", "CANCELLED", "RETURNED"}

PaymentStatus == {"PENDING", "PAID", "FAILED", "EXPIRED"}

Actors == {"CUSTOMER", "SELLER", "SYSTEM"}

(* The order state machine, as the set of its edges. *)
transitions ==
  { <<"UNPAID", "PAID">>,          <<"UNPAID", "CANCELLED">>,
    <<"PAID", "PROCESSING">>,      <<"PAID", "CANCELLED">>,
    <<"PROCESSING", "READY_TO_SHIP">>, <<"PROCESSING", "CANCELLED">>,
    <<"READY_TO_SHIP", "SHIPPED">>,    <<"READY_TO_SHIP", "CANCELLED">>,
    <<"SHIPPED", "IN_DELIVERY">>,
    <<"IN_DELIVERY", "DELIVERED">>, <<"IN_DELIVERY", "RETURNED">>,
    <<"DELIVERED", "COMPLETED">> }

CanTransition(from, to) == <<from, to>> \in transitions

(* Who may cancel an order of a Shopee-like shop, and from which status. *)
ShopeeCancellable ==
  [CUSTOMER |-> {"UNPAID", "PAID"},
   SELLER   |-> {"PAID", "PROCESSING"},
   SYSTEM   |-> {"UNPAID", "PAID", "PROCESSING"}]

CanCancel(provider, status, actor) ==
  IF provider = ShopeeLike THEN status \in ShopeeCancellable[actor]
                           ELSE CanTransition(status, "CANCELLED")

CancellationReasons ==
  [CUSTOMER |-> {"CHANGE_OF_MIND", "DUPLICATE_ORDER", "ADDRESS_ISSUE"},
   SELLER   |-> {"OUT_OF_STOCK", "SELLER_UNFULFILLABLE"},
   SYSTEM   |-> {"PAYMENT_EXPIRED", "PAYMENT_FAILED", "SELLER_SLA_EXPIRED"}]

Reasons == UNION {CancellationReasons[a] : a \in Actors}

ValidCancellationReason(actor, reason) == reason \in CancellationReasons[actor]

-----------------------------------------------------------------------------
(* Shipments.  A shipment and its package share one status from SHIPPED on. *)

ShipmentStatus == {"CREATED", "SHIPPED", "IN_DELIVERY", "DELIVERED",
                   "DELIVERY_FAILED", "RETURNING", "RETURNED"}

ShipmentTargets == ShipmentStatus \ {"CREATED"}

FinalShipment == {"DELIVERED", "RETURNED"}

(* The status a shipment must have for a step to a target. *)
expected ==
  [SHIPPED |-> "CREATED", IN_DELIVERY |-> "SHIPPED", DELIVERED |-> "IN_DELIVERY",
   DELIVERY_FAILED |-> "IN_DELIVERY", RETURNING |-> "DELIVERY_FAILED",
   RETURNED |-> "RETURNING"]

(* The order status a shipment step asks for; "" for the package-only steps. *)
orderTarget ==
  [SHIPPED |-> "SHIPPED", IN_DELIVERY |-> "IN_DELIVERY", DELIVERED |-> "DELIVERED",
   DELIVERY_FAILED |-> "", RETURNING |-> "", RETURNED |-> "RETURNED"]

(* The order status from which the order follows its shipment. *)
expectedOrder ==
  [SHIPPED |-> "READY_TO_SHIP", IN_DELIVERY |-> "SHIPPED", DELIVERED |-> "IN_DELIVERY",
   DELIVERY_FAILED |-> "", RETURNING |-> "", RETURNED |-> "IN_DELIVERY"]

(* How far an order is; every status outside the map ranks 0, as a Go map does. *)
orderRank(status) ==
  CASE status = "READY_TO_SHIP" -> 1
    [] status = "SHIPPED" -> 2
    [] status = "IN_DELIVERY" -> 3
    [] status = "DELIVERED" -> 4
    [] OTHER -> 0
=============================================================================
