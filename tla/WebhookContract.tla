-------------------------- MODULE WebhookContract --------------------------
(* The event types a webhook can subscribe to, and the topics under which the two    *)
(* providers offer them.                                                             *)
SupportedEvents ==
  {"product.created", "product.updated", "product.deleted",
   "order.created", "order.paid", "order.processing", "order.ready_to_ship",
   "order.shipped", "order.in_delivery", "order.delivered", "order.completed",
   "order.cancelled", "order.payment_expired", "order.payment_failed",
   "order.sla_expired",
   "shipment.delivery_failed", "shipment.returning", "shipment.returned"}

SupportsEvent(eventType) == eventType \in SupportedEvents

shopeeSubscriptionEvents(event) ==
  CASE event = "item_update" ->
         {"product.created", "product.updated", "product.deleted"}
    [] event = "order_status_update" ->
         {"order.created", "order.paid", "order.payment_failed", "order.payment_expired",
          "order.processing", "order.ready_to_ship", "order.completed", "order.cancelled",
          "order.sla_expired"}
    [] event = "logistics_status_update" ->
         {"order.shipped", "order.in_delivery", "order.delivered",
          "shipment.delivery_failed", "shipment.returning", "shipment.returned"}
    [] OTHER -> {}

ShopeeTopics == {"item_update", "order_status_update", "logistics_status_update"}

tokopediaSubscriptionEvents(topic) ==
  CASE topic = "ORDER_STATUS_CHANGE" ->
         {"order.created", "order.paid", "order.processing", "order.ready_to_ship",
          "order.completed", "order.cancelled", "order.payment_failed",
          "order.payment_expired", "order.sla_expired"}
    [] topic = "PACKAGE_UPDATE" ->
         {"order.shipped", "order.in_delivery", "order.delivered",
          "shipment.delivery_failed", "shipment.returning", "shipment.returned"}
    [] topic = "PRODUCT_INFORMATION_CHANGE" ->
         {"product.created", "product.updated", "product.deleted"}
    [] OTHER -> {}

TokopediaTopics == {"ORDER_STATUS_CHANGE", "PACKAGE_UPDATE", "PRODUCT_INFORMATION_CHANGE"}
=============================================================================
