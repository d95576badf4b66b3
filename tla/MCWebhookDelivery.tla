------------------------- MODULE MCWebhookDelivery -------------------------
(* Instances of WebhookDelivery for TLC. *)
EXTENDS WebhookDelivery, TLC

(* Every event is an order.paid event. *)
Paid == [e \in Events |-> "order.paid"]

(* Both providers' topics together offer every supported event, each under one topic. *)
ASSUME TopicsPartitionEvents ==
  /\ UNION {shopeeSubscriptionEvents(t) : t \in ShopeeTopics} = SupportedEvents
  /\ UNION {tokopediaSubscriptionEvents(t) : t \in TokopediaTopics} = SupportedEvents
  /\ \A t, u \in ShopeeTopics :
       t # u => shopeeSubscriptionEvents(t) \cap shopeeSubscriptionEvents(u) = {}
  /\ \A t, u \in TokopediaTopics :
       t # u => tokopediaSubscriptionEvents(t) \cap tokopediaSubscriptionEvents(u) = {}

Symmetry == Permutations(Deliveries) \cup Permutations(Workers) \cup Permutations(Schedulers)
=============================================================================
