---------------------------- MODULE GatewayProofs ----------------------------
(* Safety of Gateway for any number of requests, any limit and lifetime, any scenarios *)
(* operators may set and any number of edits, faults and minutes.                      *)
EXTENDS Gateway, FiniteSetTheorems, TLAPS

-----------------------------------------------------------------------------
(* Chains of early returns *)

LEMMA LeastRule ==
  ASSUME NEW holds \in SUBSET {1, 2, 3, 4}, holds # {}
  PROVE  \E m \in holds : \A j \in holds : m =< j
  <1>1. CASE 1 \in holds
    BY <1>1
  <1>2. CASE 1 \notin holds /\ 2 \in holds
    BY <1>2
  <1>3. CASE 1 \notin holds /\ 2 \notin holds /\ 3 \in holds
    BY <1>3
  <1>4. CASE holds = {4}
    BY <1>4
  <1> QED BY <1>1, <1>2, <1>3, <1>4

(* A chain passes if none of its conditions holds, and else refuses with the status *)
(* of a condition that does.                                                        *)
LEMMA Chain ==
  ASSUME NEW rules, DOMAIN rules \in SUBSET {1, 2, 3, 4}
  PROVE  \/ FirstRefusal(rules) = Pass /\ \A i \in DOMAIN rules : ~ rules[i][1]
         \/ \E i \in DOMAIN rules : rules[i][1] /\ FirstRefusal(rules) = rules[i][2]
  <1> DEFINE holds == {i \in DOMAIN rules : rules[i][1]}
  <1>1. CASE holds = {}
    BY <1>1 DEF FirstRefusal
  <1>2. CASE holds # {}
    <2>1. holds \in SUBSET {1, 2, 3, 4}
      OBVIOUS
    <2> HIDE DEF holds
    <2>2. \E m \in holds : \A j \in holds : m =< j
      BY <1>2, <2>1, LeastRule
    <2>3. Min(holds) \in holds
      BY <2>2 DEF Min
    <2>4. FirstRefusal(rules) = rules[Min(holds)][2]
      BY <1>2 DEF FirstRefusal, holds
    <2> QED BY <2>3, <2>4 DEF holds
  <1> QED BY <1>1, <1>2

(* The same for chains of each length. *)
LEMMA Chain1 ==
  ASSUME NEW a \in BOOLEAN, NEW s
  PROVE  LET status == FirstRefusal(<< <<a, s>> >>) IN
         (~a /\ status = Pass) \/ (a /\ status = s)
  BY Chain

LEMMA Chain2 ==
  ASSUME NEW a \in BOOLEAN, NEW b \in BOOLEAN, NEW s, NEW t
  PROVE  LET status == FirstRefusal(<< <<a, s>>, <<b, t>> >>) IN
         (~a /\ ~b /\ status = Pass) \/ (a /\ status = s) \/ (b /\ status = t)
  BY Chain

LEMMA Chain3 ==
  ASSUME NEW a \in BOOLEAN, NEW b \in BOOLEAN, NEW c \in BOOLEAN, NEW s, NEW t, NEW u
  PROVE  LET status == FirstRefusal(<< <<a, s>>, <<b, t>>, <<c, u>> >>) IN
         (~a /\ ~b /\ ~c /\ status = Pass) \/ (a /\ status = s) \/ (b /\ status = t) \/ (c /\ status = u)
  BY Chain

LEMMA Chain4 ==
  ASSUME NEW a \in BOOLEAN, NEW b \in BOOLEAN, NEW c \in BOOLEAN, NEW d \in BOOLEAN, NEW s, NEW t, NEW u, NEW v
  PROVE  LET status == FirstRefusal(<< <<a, s>>, <<b, t>>, <<c, u>>, <<d, v>> >>) IN
         (~a /\ ~b /\ ~c /\ ~d /\ status = Pass) \/ (a /\ status = s) \/ (b /\ status = t) \/ (c /\ status = u) \/ (d /\ status = v)
  BY Chain

-----------------------------------------------------------------------------
(* The generated client and the routes *)

SharedOperations ==
  {"ListWarehouses", "GetWarehouse", "ListWebhooks", "CreateWebhook",
   "DeleteWebhook"}
ShopeeOperations ==
  {"ShopeeListOrders", "ShopeeGetOrder", "ShopeeCancelOrder", "ShopeeCreatePackage",
   "ShopeeReadyToShipOrder", "ShopeeProcessOrder", "ShopeeCreateShipment",
   "ShopeeListProducts", "ShopeeGetProduct", "ShopeeListWebhooks",
   "ShopeeCreateWebhook"}
TokopediaOperations ==
  {"TokopediaSearchOrders", "TokopediaGetOrder", "TokopediaCancelOrder",
   "TokopediaHandoverOrder", "TokopediaPackOrder", "TokopediaCreateShipment",
   "TokopediaSearchProducts", "TokopediaGetProduct", "TokopediaConfigureWebhooks"}

LEMMA AllOperations ==
  Operations = SharedOperations \cup ShopeeOperations \cup TokopediaOperations
  BY DEF Operations, Client, SharedOperations, ShopeeOperations, TokopediaOperations

LEMMA RouteTables ==
  /\ Registered["shared"] = registerSharedRoutes
  /\ Registered["shopee"] = registerShopeeRoutes
  /\ Registered["tokopedia"] = registerTokopediaRoutes
  /\ Contracts = DOMAIN Registered
  BY DEF Registered, Contracts

LEMMA OneContract ==
  ASSUME NEW op \in Operations, NEW c \in Contracts, Matching(op, c) # {},
         \A d \in Contracts \ {c} : Matching(op, d) = {}
  PROVE  Routed(op) /\ ContractOf[op] = c
  <1>1. Routed(op)
    BY DEF Routed
  <1>2. ContractOf[op] = CHOOSE d \in Contracts : Matching(op, d) # {}
    BY <1>1 DEF ContractOf
  <1>3. \A d \in Contracts : Matching(op, d) # {} => d = c
    OBVIOUS
  <1> QED BY <1>1, <1>2, <1>3

LEMMA SharedRoutes ==
  ASSUME NEW op \in SharedOperations
  PROVE  /\ Routed(op) /\ ContractOf[op] = "shared"
         /\ SharedSigned \subseteq Client[op].request.params
  <1>1. /\ Client["ListWarehouses"].request = NewListWarehousesRequest
        /\ Client["GetWarehouse"].request = NewGetWarehouseRequest
        /\ Client["ListWebhooks"].request = NewListWebhooksRequest
        /\ Client["CreateWebhook"].request = NewCreateWebhookRequest
        /\ Client["DeleteWebhook"].request = NewDeleteWebhookRequest
    BY DEF Client
  <1>2. \E route \in registerSharedRoutes :
          route.method = Client[op].request.method /\ route.path = Client[op].request.path
    BY <1>1
    DEF SharedOperations, registerSharedRoutes, Route, NewListWarehousesRequest,
        NewGetWarehouseRequest, NewListWebhooksRequest,
        NewCreateWebhookRequest, NewDeleteWebhookRequest
  <1>3. \A route \in registerShopeeRoutes \cup registerTokopediaRoutes :
          route.path # Client[op].request.path
    BY <1>1
    DEF SharedOperations, registerShopeeRoutes, registerTokopediaRoutes, Route,
        NewListWarehousesRequest, NewGetWarehouseRequest,
        NewListWebhooksRequest, NewCreateWebhookRequest,
        NewDeleteWebhookRequest
  <1>4. SharedSigned \subseteq Client[op].request.params
    BY <1>1
    DEF SharedOperations, NewListWarehousesRequest, NewGetWarehouseRequest,
        NewListWebhooksRequest, NewCreateWebhookRequest,
        NewDeleteWebhookRequest
  <1>5. op \in Operations /\ "shared" \in Contracts
    BY AllOperations DEF Contracts
  <1>6. /\ Matching(op, "shared") # {}
        /\ \A d \in Contracts \ {"shared"} : Matching(op, d) = {}
    BY <1>2, <1>3, RouteTables DEF Matching, Contracts
  <1> QED BY <1>4, <1>5, <1>6, OneContract

LEMMA ShopeeRoutes ==
  ASSUME NEW op \in ShopeeOperations
  PROVE  /\ Routed(op) /\ ContractOf[op] = "shopee"
         /\ ShopeeSigned \subseteq Client[op].request.params
  <1>1. /\ Client["ShopeeListOrders"].request = NewShopeeListOrdersRequest
        /\ Client["ShopeeGetOrder"].request = NewShopeeGetOrderRequest
        /\ Client["ShopeeCancelOrder"].request = NewShopeeCancelOrderRequest
        /\ Client["ShopeeCreatePackage"].request = NewShopeeCreatePackageRequest
        /\ Client["ShopeeReadyToShipOrder"].request = NewShopeeReadyToShipOrderRequest
        /\ Client["ShopeeProcessOrder"].request = NewShopeeProcessOrderRequest
        /\ Client["ShopeeCreateShipment"].request = NewShopeeCreateShipmentRequest
        /\ Client["ShopeeListProducts"].request = NewShopeeListProductsRequest
        /\ Client["ShopeeGetProduct"].request = NewShopeeGetProductRequest
        /\ Client["ShopeeListWebhooks"].request = NewShopeeListWebhooksRequest
        /\ Client["ShopeeCreateWebhook"].request = NewShopeeCreateWebhookRequest
    BY DEF Client
  <1>2. \E route \in registerShopeeRoutes :
          route.method = Client[op].request.method /\ route.path = Client[op].request.path
    BY <1>1
    DEF ShopeeOperations, registerShopeeRoutes, Route, NewShopeeListOrdersRequest,
        NewShopeeGetOrderRequest, NewShopeeCancelOrderRequest,
        NewShopeeCreatePackageRequest, NewShopeeReadyToShipOrderRequest,
        NewShopeeProcessOrderRequest, NewShopeeCreateShipmentRequest,
        NewShopeeListProductsRequest, NewShopeeGetProductRequest,
        NewShopeeListWebhooksRequest, NewShopeeCreateWebhookRequest
  <1>3. \A route \in registerSharedRoutes \cup registerTokopediaRoutes :
          route.path # Client[op].request.path
    BY <1>1
    DEF ShopeeOperations, registerSharedRoutes, registerTokopediaRoutes, Route,
        NewShopeeListOrdersRequest, NewShopeeGetOrderRequest,
        NewShopeeCancelOrderRequest, NewShopeeCreatePackageRequest,
        NewShopeeReadyToShipOrderRequest, NewShopeeProcessOrderRequest,
        NewShopeeCreateShipmentRequest, NewShopeeListProductsRequest,
        NewShopeeGetProductRequest, NewShopeeListWebhooksRequest,
        NewShopeeCreateWebhookRequest
  <1>4. ShopeeSigned \subseteq Client[op].request.params
    BY <1>1
    DEF ShopeeOperations, NewShopeeListOrdersRequest, NewShopeeGetOrderRequest,
        NewShopeeCancelOrderRequest, NewShopeeCreatePackageRequest,
        NewShopeeReadyToShipOrderRequest, NewShopeeProcessOrderRequest,
        NewShopeeCreateShipmentRequest, NewShopeeListProductsRequest,
        NewShopeeGetProductRequest, NewShopeeListWebhooksRequest,
        NewShopeeCreateWebhookRequest
  <1>5. op \in Operations /\ "shopee" \in Contracts
    BY AllOperations DEF Contracts
  <1>6. /\ Matching(op, "shopee") # {}
        /\ \A d \in Contracts \ {"shopee"} : Matching(op, d) = {}
    BY <1>2, <1>3, RouteTables DEF Matching, Contracts
  <1> QED BY <1>4, <1>5, <1>6, OneContract

LEMMA TokopediaRoutes ==
  ASSUME NEW op \in TokopediaOperations
  PROVE  /\ Routed(op) /\ ContractOf[op] = "tokopedia"
         /\ TokopediaSigned \subseteq Client[op].request.params
  <1>1. /\ Client["TokopediaSearchOrders"].request = NewTokopediaSearchOrdersRequest
        /\ Client["TokopediaGetOrder"].request = NewTokopediaGetOrderRequest
        /\ Client["TokopediaCancelOrder"].request = NewTokopediaCancelOrderRequest
        /\ Client["TokopediaHandoverOrder"].request = NewTokopediaHandoverOrderRequest
        /\ Client["TokopediaPackOrder"].request = NewTokopediaPackOrderRequest
        /\ Client["TokopediaCreateShipment"].request = NewTokopediaCreateShipmentRequest
        /\ Client["TokopediaSearchProducts"].request = NewTokopediaSearchProductsRequest
        /\ Client["TokopediaGetProduct"].request = NewTokopediaGetProductRequest
        /\ Client["TokopediaConfigureWebhooks"].request = NewTokopediaConfigureWebhooksRequest
    BY DEF Client
  <1>2. \E route \in registerTokopediaRoutes :
          route.method = Client[op].request.method /\ route.path = Client[op].request.path
    BY <1>1
    DEF TokopediaOperations, registerTokopediaRoutes, Route,
        NewTokopediaSearchOrdersRequest, NewTokopediaGetOrderRequest,
        NewTokopediaCancelOrderRequest, NewTokopediaHandoverOrderRequest,
        NewTokopediaPackOrderRequest, NewTokopediaCreateShipmentRequest,
        NewTokopediaSearchProductsRequest, NewTokopediaGetProductRequest,
        NewTokopediaConfigureWebhooksRequest
  <1>3. \A route \in registerSharedRoutes \cup registerShopeeRoutes :
          route.path # Client[op].request.path
    BY <1>1
    DEF TokopediaOperations, registerSharedRoutes, registerShopeeRoutes, Route,
        NewTokopediaSearchOrdersRequest, NewTokopediaGetOrderRequest,
        NewTokopediaCancelOrderRequest, NewTokopediaHandoverOrderRequest,
        NewTokopediaPackOrderRequest, NewTokopediaCreateShipmentRequest,
        NewTokopediaSearchProductsRequest, NewTokopediaGetProductRequest,
        NewTokopediaConfigureWebhooksRequest
  <1>4. TokopediaSigned \subseteq Client[op].request.params
    BY <1>1
    DEF TokopediaOperations, NewTokopediaSearchOrdersRequest,
        NewTokopediaGetOrderRequest, NewTokopediaCancelOrderRequest,
        NewTokopediaHandoverOrderRequest, NewTokopediaPackOrderRequest,
        NewTokopediaCreateShipmentRequest, NewTokopediaSearchProductsRequest,
        NewTokopediaGetProductRequest, NewTokopediaConfigureWebhooksRequest
  <1>5. op \in Operations /\ "tokopedia" \in Contracts
    BY AllOperations DEF Contracts
  <1>6. /\ Matching(op, "tokopedia") # {}
        /\ \A d \in Contracts \ {"tokopedia"} : Matching(op, d) = {}
    BY <1>2, <1>3, RouteTables DEF Matching, Contracts
  <1> QED BY <1>4, <1>5, <1>6, OneContract

LEMMA TokopediaStatuses ==
  /\ tokopediaError(400) = 400 /\ tokopediaError(413) = 413 /\ tokopediaError(429) = 429
  /\ tokopediaError(500) = 500 /\ tokopediaError(InvalidCredential) = 401
  /\ tokopediaError(TimestampExpired) = 401 /\ tokopediaError(NotPossible) = 400
  BY DEF tokopediaError, InvalidCredential, TimestampExpired, NotPossible

ReadOperations ==
  {"ShopeeListOrders", "ShopeeGetOrder", "ShopeeListProducts", "ShopeeGetProduct",
   "ShopeeListWebhooks", "TokopediaSearchOrders", "TokopediaGetOrder",
   "TokopediaSearchProducts", "TokopediaGetProduct", "ListWarehouses",
   "GetWarehouse", "ListWebhooks"}
Mutations ==
  {"ShopeeCancelOrder", "ShopeeCreatePackage", "ShopeeReadyToShipOrder",
   "ShopeeProcessOrder", "ShopeeCreateShipment", "ShopeeCreateWebhook",
   "TokopediaCancelOrder", "TokopediaHandoverOrder", "TokopediaPackOrder",
   "TokopediaCreateShipment", "TokopediaConfigureWebhooks", "CreateWebhook",
   "DeleteWebhook"}

LEMMA ReadsNotIdempotent ==
  ASSUME NEW op \in ReadOperations
  PROVE  op \notin Idempotent
  <1>1. /\ Client["ShopeeListOrders"].request = NewShopeeListOrdersRequest
        /\ Client["ShopeeGetOrder"].request = NewShopeeGetOrderRequest
        /\ Client["ShopeeListProducts"].request = NewShopeeListProductsRequest
        /\ Client["ShopeeGetProduct"].request = NewShopeeGetProductRequest
        /\ Client["ShopeeListWebhooks"].request = NewShopeeListWebhooksRequest
        /\ Client["TokopediaSearchOrders"].request = NewTokopediaSearchOrdersRequest
        /\ Client["TokopediaGetOrder"].request = NewTokopediaGetOrderRequest
        /\ Client["TokopediaSearchProducts"].request = NewTokopediaSearchProductsRequest
        /\ Client["TokopediaGetProduct"].request = NewTokopediaGetProductRequest
        /\ Client["ListWarehouses"].request = NewListWarehousesRequest
        /\ Client["GetWarehouse"].request = NewGetWarehouseRequest
        /\ Client["ListWebhooks"].request = NewListWebhooksRequest
    BY DEF Client
  <1>2. \A route \in registerSharedRoutes \cup registerShopeeRoutes \cup registerTokopediaRoutes :
          /\ route.method = Client[op].request.method
          /\ route.path = Client[op].request.path
          => ~ route.idempotent
    BY <1>1
    DEF ReadOperations, registerSharedRoutes, registerShopeeRoutes,
        registerTokopediaRoutes, Route, NewShopeeListOrdersRequest,
        NewShopeeGetOrderRequest, NewShopeeListProductsRequest,
        NewShopeeGetProductRequest, NewShopeeListWebhooksRequest,
        NewTokopediaSearchOrdersRequest, NewTokopediaGetOrderRequest,
        NewTokopediaSearchProductsRequest, NewTokopediaGetProductRequest,
        NewListWarehousesRequest, NewGetWarehouseRequest, NewListWebhooksRequest
  <1> QED BY <1>2, RouteTables DEF Idempotent, Matching, Contracts

(* Every mutation decodes its refusals, its conflict and its success. *)
LEMMA MutationsDecode ==
  ASSUME NEW op \in Idempotent
  PROVE  /\ {401, 409, 413} \subseteq Client[op].decodes
         /\ Success(op).body # "none" => Success(op).status \in Client[op].decodes
  <1>1. /\ Client["ShopeeCancelOrder"].decodes = ParseShopeeCancelOrderResponse
        /\ Client["ShopeeCreatePackage"].decodes = ParseShopeeCreatePackageResponse
        /\ Client["ShopeeReadyToShipOrder"].decodes = ParseShopeeReadyToShipOrderResponse
        /\ Client["ShopeeProcessOrder"].decodes = ParseShopeeProcessOrderResponse
        /\ Client["ShopeeCreateShipment"].decodes = ParseShopeeCreateShipmentResponse
        /\ Client["ShopeeCreateWebhook"].decodes = ParseShopeeCreateWebhookResponse
        /\ Client["TokopediaCancelOrder"].decodes = ParseTokopediaCancelOrderResponse
        /\ Client["TokopediaHandoverOrder"].decodes = ParseTokopediaHandoverOrderResponse
        /\ Client["TokopediaPackOrder"].decodes = ParseTokopediaPackOrderResponse
        /\ Client["TokopediaCreateShipment"].decodes = ParseTokopediaCreateShipmentResponse
        /\ Client["TokopediaConfigureWebhooks"].decodes = ParseTokopediaConfigureWebhooksResponse
        /\ Client["CreateWebhook"].decodes = ParseCreateWebhookResponse
        /\ Client["DeleteWebhook"].decodes = ParseDeleteWebhookResponse
    BY DEF Client
  <1>2. op \in Mutations
    BY AllOperations, ReadsNotIdempotent
    DEF Idempotent, Mutations, ReadOperations, SharedOperations, ShopeeOperations,
        TokopediaOperations
  <1>3. /\ {401, 409, 413} \subseteq Client[op].decodes
        /\ op \notin {"CreateWebhook", "DeleteWebhook"} => 200 \in Client[op].decodes
        /\ op = "CreateWebhook" => 201 \in Client[op].decodes
    BY <1>1, <1>2
    DEF Mutations, ParseShopeeCancelOrderResponse, ParseShopeeCreatePackageResponse,
        ParseShopeeReadyToShipOrderResponse, ParseShopeeProcessOrderResponse,
        ParseShopeeCreateShipmentResponse, ParseShopeeCreateWebhookResponse,
        ParseTokopediaCancelOrderResponse, ParseTokopediaHandoverOrderResponse,
        ParseTokopediaPackOrderResponse, ParseTokopediaCreateShipmentResponse,
        ParseTokopediaConfigureWebhooksResponse, ParseCreateWebhookResponse,
        ParseDeleteWebhookResponse
  <1> QED BY <1>3 DEF Success, Data, NoBody

(* Every mutation of the client carries the idempotency key. *)
LEMMA MutationsSendKey ==
  ASSUME NEW op \in Idempotent
  PROVE  "Idempotency-Key" \in Client[op].request.params
  <1>1. /\ Client["ShopeeCancelOrder"].request = NewShopeeCancelOrderRequest
        /\ Client["ShopeeCreatePackage"].request = NewShopeeCreatePackageRequest
        /\ Client["ShopeeReadyToShipOrder"].request = NewShopeeReadyToShipOrderRequest
        /\ Client["ShopeeProcessOrder"].request = NewShopeeProcessOrderRequest
        /\ Client["ShopeeCreateShipment"].request = NewShopeeCreateShipmentRequest
        /\ Client["ShopeeCreateWebhook"].request = NewShopeeCreateWebhookRequest
        /\ Client["TokopediaCancelOrder"].request = NewTokopediaCancelOrderRequest
        /\ Client["TokopediaHandoverOrder"].request = NewTokopediaHandoverOrderRequest
        /\ Client["TokopediaPackOrder"].request = NewTokopediaPackOrderRequest
        /\ Client["TokopediaCreateShipment"].request = NewTokopediaCreateShipmentRequest
        /\ Client["TokopediaConfigureWebhooks"].request = NewTokopediaConfigureWebhooksRequest
        /\ Client["CreateWebhook"].request = NewCreateWebhookRequest
        /\ Client["DeleteWebhook"].request = NewDeleteWebhookRequest
    BY DEF Client
  <1>2. /\ "Idempotency-Key" \in NewShopeeCancelOrderRequest.params
        /\ "Idempotency-Key" \in NewShopeeCreatePackageRequest.params
        /\ "Idempotency-Key" \in NewShopeeReadyToShipOrderRequest.params
        /\ "Idempotency-Key" \in NewShopeeProcessOrderRequest.params
        /\ "Idempotency-Key" \in NewShopeeCreateShipmentRequest.params
        /\ "Idempotency-Key" \in NewShopeeCreateWebhookRequest.params
        /\ "Idempotency-Key" \in NewTokopediaCancelOrderRequest.params
        /\ "Idempotency-Key" \in NewTokopediaHandoverOrderRequest.params
        /\ "Idempotency-Key" \in NewTokopediaPackOrderRequest.params
        /\ "Idempotency-Key" \in NewTokopediaCreateShipmentRequest.params
        /\ "Idempotency-Key" \in NewTokopediaConfigureWebhooksRequest.params
        /\ "Idempotency-Key" \in NewCreateWebhookRequest.params
        /\ "Idempotency-Key" \in NewDeleteWebhookRequest.params
    BY DEF NewShopeeCancelOrderRequest, NewShopeeCreatePackageRequest,
           NewShopeeReadyToShipOrderRequest, NewShopeeProcessOrderRequest,
           NewShopeeCreateShipmentRequest, NewShopeeCreateWebhookRequest,
           NewTokopediaCancelOrderRequest, NewTokopediaHandoverOrderRequest,
           NewTokopediaPackOrderRequest, NewTokopediaCreateShipmentRequest,
           NewTokopediaConfigureWebhooksRequest, NewCreateWebhookRequest, NewDeleteWebhookRequest
  <1>3. op \in Mutations
    BY AllOperations, ReadsNotIdempotent
    DEF Idempotent, Mutations, ReadOperations, SharedOperations, ShopeeOperations,
        TokopediaOperations
  <1> QED BY <1>1, <1>2, <1>3 DEF Mutations

(* What handlers refuse with. *)
LEMMA HandlersRefuse ==
  ASSUME NEW op \in Operations
  PROVE  HandlerRefusals[op] \subseteq {400, 404, 500}
  <1>1. /\ \A x \in DOMAIN catalogRefusals : catalogRefusals[x] \subseteq {400, 404, 500}
        /\ \A x \in DOMAIN fulfillmentRefusals : fulfillmentRefusals[x] \subseteq {400, 404, 500}
        /\ \A x \in DOMAIN tokopediaRefusals : tokopediaRefusals[x] \subseteq {400, 404, 500}
        /\ \A x \in DOMAIN webhookRefusals : webhookRefusals[x] \subseteq {400, 404, 500}
    BY TokopediaStatuses
    DEF catalogRefusals, fulfillmentRefusals, tokopediaRefusals, webhookRefusals
  <1>2. op \in DOMAIN catalogRefusals \cup DOMAIN fulfillmentRefusals
              \cup DOMAIN tokopediaRefusals \cup DOMAIN webhookRefusals
    BY AllOperations
    DEF catalogRefusals, fulfillmentRefusals, tokopediaRefusals, webhookRefusals,
        SharedOperations, ShopeeOperations, TokopediaOperations
  <1> QED BY <1>1, <1>2 DEF HandlerRefusals

-----------------------------------------------------------------------------
(* What the three middlewares have in common *)

RefusalStatus == {400, 401, 403, 413, 429, 500, 503}

(* A sound request of the client, with nothing in its way. *)
Clear(r, signed) ==
  /\ req[r].flaw = "none" /\ signed \subseteq Sent(r)
  /\ credential = "ACTIVE" /\ ~maintenance /\ ~scenario.ForceRateLimit

(* What the status of a middleware step says: a dead credential does not pass the    *)
(* lookup, a counted request does not pass a spent quota, and a sound request is     *)
(* stopped by nothing else.                                                          *)
AuthFits(r, fault, clear, status) ==
  /\ status \in {Pass} \cup RefusalStatus
  /\ req[r].pc = "lookup" /\ credential \in {"REVOKED", "DELETED"} => status # Pass
  /\ req[r].pc = "quota" /\ fault = "none" /\ status = Pass => ~ OverQuota(r, fault)
  /\ clear /\ fault = "none" /\ status # Pass =>
       req[r].pc = "quota" /\ status = 429 /\ OverQuota(r, fault)

Steps == {"admit", "lookup", "scenario", "quota", "verify"}

LEMMA SharedAuth ==
  ASSUME NEW r, NEW fault, req[r].pc \in Steps, scenario.ForceRateLimit \in BOOLEAN
  PROVE  AuthFits(r, fault, Clear(r, SharedSigned), integrationAuth(r, fault))
  <1> DEFINE q == req[r]
             status == integrationAuth(r, fault)
             clear == Clear(r, SharedSigned)
             Goal == AuthFits(r, fault, clear, status)
  <1>1. CASE q.pc = "admit"
    <2> DEFINE c1 == maintenance /\ fault = "none"
               c2 == ~(SharedSigned \subseteq Sent(r))
               c3 == q.flaw = "stale"
    <2>1. status = FirstRefusal(<< <<c1, 503>>, <<c2, 401>>, <<c3, 401>> >>)
      BY <1>1, Zenon DEF integrationAuth
    <2>2. c1 \in BOOLEAN /\ c2 \in BOOLEAN /\ c3 \in BOOLEAN
      OBVIOUS
    <2> HIDE DEF c1, c2, c3, status
    <2>3. \/ ~c1 /\ ~c2 /\ ~c3 /\ status = Pass
          \/ (c1 /\ status = 503) \/ (c2 /\ status = 401) \/ (c3 /\ status = 401)
      BY <2>1, <2>2, Chain3
    <2> QED BY <1>1, <2>3
            DEF c1, c2, c3, status, AuthFits, Clear, RefusalStatus, Pass
  <1>2. CASE q.pc = "lookup"
    <2> DEFINE c1 == fault # "none"
               c2 == credential \in {"NONE", "DELETED"}
               c3 == Revoked
    <2>1. status = FirstRefusal(<< <<c1, 500>>, <<c2, 401>>, <<c3, 403>> >>)
      BY <1>2, Zenon DEF integrationAuth
    <2>2. c1 \in BOOLEAN /\ c2 \in BOOLEAN /\ c3 \in BOOLEAN
      BY DEF Revoked
    <2> HIDE DEF c1, c2, c3, status
    <2>3. \/ ~c1 /\ ~c2 /\ ~c3 /\ status = Pass
          \/ (c1 /\ status = 500) \/ (c2 /\ status = 401) \/ (c3 /\ status = 403)
      BY <2>1, <2>2, Chain3
    <2> QED BY <1>2, <2>3
            DEF c1, c2, c3, status, AuthFits, Clear, RefusalStatus, Pass, Revoked
  <1>3. CASE q.pc = "scenario"
    <2> DEFINE c1 == fault # "none"
               c2 == scenario.ForceRateLimit
    <2>1. status = FirstRefusal(<< <<c1, 500>>, <<c2, 429>> >>)
      BY <1>3, Zenon DEF integrationAuth
    <2>2. c1 \in BOOLEAN /\ c2 \in BOOLEAN
      OBVIOUS
    <2> HIDE DEF c1, c2, status
    <2>3. \/ ~c1 /\ ~c2 /\ status = Pass
          \/ (c1 /\ status = 500) \/ (c2 /\ status = 429)
      BY <2>1, <2>2, Chain2
    <2> QED BY <1>3, <2>3
            DEF c1, c2, status, AuthFits, Clear, RefusalStatus, Pass
  <1>4. CASE q.pc = "quota"
    <2> DEFINE c1 == OverQuota(r, fault)
    <2>1. status = FirstRefusal(<< <<c1, 429>> >>)
      BY <1>4, Zenon DEF integrationAuth
    <2>2. c1 \in BOOLEAN
      BY DEF OverQuota
    <2> HIDE DEF c1, status
    <2>3. \/ ~c1 /\ status = Pass
          \/ (c1 /\ status = 429)
      BY <2>1, <2>2, Chain1
    <2> QED BY <1>4, <2>3
            DEF c1, status, AuthFits, Clear, RefusalStatus, Pass
  <1>5. CASE q.pc = "verify"
    <2> DEFINE c1 == fault # "none"
               c2 == q.flaw = "large"
               c3 == q.flaw = "unreadable"
               c4 == q.flaw = "signature"
    <2>1. status = FirstRefusal(<< <<c1, 500>>, <<c2, 413>>, <<c3, 400>>, <<c4, 401>> >>)
      BY <1>5, Zenon DEF integrationAuth
    <2>2. c1 \in BOOLEAN /\ c2 \in BOOLEAN /\ c3 \in BOOLEAN /\ c4 \in BOOLEAN
      OBVIOUS
    <2> HIDE DEF c1, c2, c3, c4, status
    <2>3. \/ ~c1 /\ ~c2 /\ ~c3 /\ ~c4 /\ status = Pass
          \/ (c1 /\ status = 500) \/ (c2 /\ status = 413)
          \/ (c3 /\ status = 400) \/ (c4 /\ status = 401)
      BY <2>1, <2>2, Chain4
    <2> QED BY <1>5, <2>3
            DEF c1, c2, c3, c4, status, AuthFits, Clear, RefusalStatus, Pass
  <1> QED BY <1>1, <1>2, <1>3, <1>4, <1>5 DEF Steps

LEMMA ShopeeAuth ==
  ASSUME NEW r, NEW fault, req[r].pc \in Steps, scenario.ForceRateLimit \in BOOLEAN
  PROVE  AuthFits(r, fault, Clear(r, ShopeeSigned) /\ profile = "SHOPEE_LIKE", shopeeIntegrationAuth(r, fault))
  <1> DEFINE q == req[r]
             status == shopeeIntegrationAuth(r, fault)
             clear == Clear(r, ShopeeSigned) /\ profile = "SHOPEE_LIKE"
             Goal == AuthFits(r, fault, clear, status)
  <1>1. CASE q.pc = "admit"
    <2> DEFINE c1 == maintenance /\ fault = "none"
               c2 == ~(ShopeeSigned \subseteq Sent(r))
               c3 == q.flaw = "stale"
    <2>1. status = FirstRefusal(<< <<c1, 503>>, <<c2, 401>>, <<c3, 401>> >>)
      BY <1>1, Zenon DEF shopeeIntegrationAuth
    <2>2. c1 \in BOOLEAN /\ c2 \in BOOLEAN /\ c3 \in BOOLEAN
      OBVIOUS
    <2> HIDE DEF c1, c2, c3, status
    <2>3. \/ ~c1 /\ ~c2 /\ ~c3 /\ status = Pass
          \/ (c1 /\ status = 503) \/ (c2 /\ status = 401) \/ (c3 /\ status = 401)
      BY <2>1, <2>2, Chain3
    <2> QED BY <1>1, <2>3
            DEF c1, c2, c3, status, AuthFits, Clear, RefusalStatus, Pass
  <1>2. CASE q.pc = "lookup"
    <2> DEFINE c1 == fault = "statement"
               c2 == credential \in {"NONE", "DELETED"}
               c3 == fault = "profile" \/ profile # "SHOPEE_LIKE"
               c4 == Revoked
    <2>1. status = FirstRefusal(<< <<c1, 500>>, <<c2, 401>>, <<c3, 403>>, <<c4, 403>> >>)
      BY <1>2, Zenon DEF shopeeIntegrationAuth
    <2>2. c1 \in BOOLEAN /\ c2 \in BOOLEAN /\ c3 \in BOOLEAN /\ c4 \in BOOLEAN
      BY DEF Revoked
    <2> HIDE DEF c1, c2, c3, c4, status
    <2>3. \/ ~c1 /\ ~c2 /\ ~c3 /\ ~c4 /\ status = Pass
          \/ (c1 /\ status = 500) \/ (c2 /\ status = 401)
          \/ (c3 /\ status = 403) \/ (c4 /\ status = 403)
      BY <2>1, <2>2, Chain4
    <2> QED BY <1>2, <2>3
            DEF c1, c2, c3, c4, status, AuthFits, Clear, RefusalStatus, Pass, Revoked
  <1>3. CASE q.pc = "scenario"
    <2> DEFINE c1 == fault # "none"
               c2 == scenario.ForceRateLimit
    <2>1. status = FirstRefusal(<< <<c1, 500>>, <<c2, 429>> >>)
      BY <1>3, Zenon DEF shopeeIntegrationAuth
    <2>2. c1 \in BOOLEAN /\ c2 \in BOOLEAN
      OBVIOUS
    <2> HIDE DEF c1, c2, status
    <2>3. \/ ~c1 /\ ~c2 /\ status = Pass
          \/ (c1 /\ status = 500) \/ (c2 /\ status = 429)
      BY <2>1, <2>2, Chain2
    <2> QED BY <1>3, <2>3
            DEF c1, c2, status, AuthFits, Clear, RefusalStatus, Pass
  <1>4. CASE q.pc = "quota"
    <2> DEFINE c1 == OverQuota(r, fault)
    <2>1. status = FirstRefusal(<< <<c1, 429>> >>)
      BY <1>4, Zenon DEF shopeeIntegrationAuth
    <2>2. c1 \in BOOLEAN
      BY DEF OverQuota
    <2> HIDE DEF c1, status
    <2>3. \/ ~c1 /\ status = Pass
          \/ (c1 /\ status = 429)
      BY <2>1, <2>2, Chain1
    <2> QED BY <1>4, <2>3
            DEF c1, status, AuthFits, Clear, RefusalStatus, Pass
  <1>5. CASE q.pc = "verify"
    <2> DEFINE c1 == fault # "none"
               c2 == q.flaw = "large"
               c3 == q.flaw = "unreadable"
               c4 == q.flaw = "signature"
    <2>1. status = FirstRefusal(<< <<c1, 500>>, <<c2, 413>>, <<c3, 400>>, <<c4, 401>> >>)
      BY <1>5, Zenon DEF shopeeIntegrationAuth
    <2>2. c1 \in BOOLEAN /\ c2 \in BOOLEAN /\ c3 \in BOOLEAN /\ c4 \in BOOLEAN
      OBVIOUS
    <2> HIDE DEF c1, c2, c3, c4, status
    <2>3. \/ ~c1 /\ ~c2 /\ ~c3 /\ ~c4 /\ status = Pass
          \/ (c1 /\ status = 500) \/ (c2 /\ status = 413)
          \/ (c3 /\ status = 400) \/ (c4 /\ status = 401)
      BY <2>1, <2>2, Chain4
    <2> QED BY <1>5, <2>3
            DEF c1, c2, c3, c4, status, AuthFits, Clear, RefusalStatus, Pass
  <1> QED BY <1>1, <1>2, <1>3, <1>4, <1>5 DEF Steps

LEMMA TokopediaAuth ==
  ASSUME NEW r, NEW fault, req[r].pc \in Steps, scenario.ForceRateLimit \in BOOLEAN
  PROVE  AuthFits(r, fault, Clear(r, TokopediaSigned) /\ profile = "TOKOPEDIA_LIKE", tokopediaIntegrationAuth(r, fault))
  <1> DEFINE q == req[r]
             status == tokopediaIntegrationAuth(r, fault)
             clear == Clear(r, TokopediaSigned) /\ profile = "TOKOPEDIA_LIKE"
             Goal == AuthFits(r, fault, clear, status)
  <1>1. CASE q.pc = "admit"
    <2> DEFINE c1 == maintenance /\ fault = "none"
               c2 == ~(TokopediaSigned \ {"x-tts-access-token"} \subseteq Sent(r))
               c3 == q.flaw = "stale"
    <2>1. status = FirstRefusal(<< <<c1, tokopediaError(500)>>, <<c2, tokopediaError(InvalidCredential)>>, <<c3, tokopediaError(TimestampExpired)>> >>)
      BY <1>1, Zenon DEF tokopediaIntegrationAuth
    <2>2. c1 \in BOOLEAN /\ c2 \in BOOLEAN /\ c3 \in BOOLEAN
      OBVIOUS
    <2> HIDE DEF c1, c2, c3, status
    <2>3. \/ ~c1 /\ ~c2 /\ ~c3 /\ status = Pass
          \/ (c1 /\ status = tokopediaError(500)) \/ (c2 /\ status = tokopediaError(InvalidCredential))
          \/ (c3 /\ status = tokopediaError(TimestampExpired))
      BY <2>1, <2>2, Chain3
    <2> QED BY <1>1, <2>3, TokopediaStatuses
            DEF c1, c2, c3, status, AuthFits, Clear, RefusalStatus, Pass, TokopediaSigned
  <1>2. CASE q.pc = "lookup"
    <2> DEFINE c1 == fault # "none" \/ profile # "TOKOPEDIA_LIKE" \/ credential # "ACTIVE"
               c2 == q.flaw = "token" \/ "x-tts-access-token" \notin Sent(r)
    <2>1. status = FirstRefusal(<< <<c1, tokopediaError(InvalidCredential)>>, <<c2, tokopediaError(InvalidCredential)>> >>)
      BY <1>2, Zenon DEF tokopediaIntegrationAuth
    <2>2. c1 \in BOOLEAN /\ c2 \in BOOLEAN
      OBVIOUS
    <2> HIDE DEF c1, c2, status
    <2>3. \/ ~c1 /\ ~c2 /\ status = Pass
          \/ (c1 /\ status = tokopediaError(InvalidCredential)) \/ (c2 /\ status = tokopediaError(InvalidCredential))
      BY <2>1, <2>2, Chain2
    <2> QED BY <1>2, <2>3, TokopediaStatuses
            DEF c1, c2, status, AuthFits, Clear, RefusalStatus, Pass, TokopediaSigned
  <1>3. CASE q.pc = "scenario"
    <2> DEFINE c1 == fault # "none"
               c2 == scenario.ForceRateLimit
    <2>1. status = FirstRefusal(<< <<c1, tokopediaError(500)>>, <<c2, tokopediaError(429)>> >>)
      BY <1>3, Zenon DEF tokopediaIntegrationAuth
    <2>2. c1 \in BOOLEAN /\ c2 \in BOOLEAN
      OBVIOUS
    <2> HIDE DEF c1, c2, status
    <2>3. \/ ~c1 /\ ~c2 /\ status = Pass
          \/ (c1 /\ status = tokopediaError(500)) \/ (c2 /\ status = tokopediaError(429))
      BY <2>1, <2>2, Chain2
    <2> QED BY <1>3, <2>3, TokopediaStatuses
            DEF c1, c2, status, AuthFits, Clear, RefusalStatus, Pass
  <1>4. CASE q.pc = "quota"
    <2> DEFINE c1 == OverQuota(r, fault)
    <2>1. status = FirstRefusal(<< <<c1, tokopediaError(429)>> >>)
      BY <1>4, Zenon DEF tokopediaIntegrationAuth
    <2>2. c1 \in BOOLEAN
      BY DEF OverQuota
    <2> HIDE DEF c1, status
    <2>3. \/ ~c1 /\ status = Pass
          \/ (c1 /\ status = tokopediaError(429))
      BY <2>1, <2>2, Chain1
    <2> QED BY <1>4, <2>3, TokopediaStatuses
            DEF c1, status, AuthFits, Clear, RefusalStatus, Pass
  <1>5. CASE q.pc = "verify"
    <2> DEFINE c1 == fault # "none"
               c2 == q.flaw = "large"
               c3 == q.flaw = "unreadable"
               c4 == q.flaw = "signature"
    <2>1. status = FirstRefusal(<< <<c1, tokopediaError(500)>>, <<c2, tokopediaError(413)>>, <<c3, tokopediaError(400)>>, <<c4, tokopediaError(InvalidCredential)>> >>)
      BY <1>5, Zenon DEF tokopediaIntegrationAuth
    <2>2. c1 \in BOOLEAN /\ c2 \in BOOLEAN /\ c3 \in BOOLEAN /\ c4 \in BOOLEAN
      OBVIOUS
    <2> HIDE DEF c1, c2, c3, c4, status
    <2>3. \/ ~c1 /\ ~c2 /\ ~c3 /\ ~c4 /\ status = Pass
          \/ (c1 /\ status = tokopediaError(500)) \/ (c2 /\ status = tokopediaError(413))
          \/ (c3 /\ status = tokopediaError(400)) \/ (c4 /\ status = tokopediaError(InvalidCredential))
      BY <2>1, <2>2, Chain4
    <2> QED BY <1>5, <2>3, TokopediaStatuses
            DEF c1, c2, c3, c4, status, AuthFits, Clear, RefusalStatus, Pass
  <1> QED BY <1>1, <1>2, <1>3, <1>4, <1>5 DEF Steps

-----------------------------------------------------------------------------
(* The inductive invariant's first part: rows and where a request can be *)

Open == Steps \cup {"inject", "handle"}
Answers == [status : {0} \cup 100 .. 599, body : {"none", "data", "error", "idempotency"}]
Works == {"none", "withheld", "refused", "executed", "replayed"}

RequestFits(q) ==
  /\ q.pc = "new" => q = Fresh
  /\ q.pc # "new" => q.op \in Operations
  /\ q.pc # "done" => q.answer = NotAnswered /\ q.work = "none"
  /\ q.pc \in {"admit", "lookup", "scenario", "quota"} => ~q.charged
  /\ q.pc \notin {"handle", "done"} => ~q.late

RequestsFit == \A r \in Requests : RequestFits(req[r])

(* The contract of a request is one of the three, its middleware is the chain above. *)
LEMMA EveryOperationRouted ==
  ASSUME NEW op \in Operations
  PROVE  Routed(op) /\ ContractOf[op] \in Contracts
  BY AllOperations, SharedRoutes, ShopeeRoutes, TokopediaRoutes DEF Contracts

Sound(r) ==
  /\ req[r].flaw = "none" /\ RightProfile(r)
  /\ credential = "ACTIVE" /\ ~maintenance /\ scenario = NoFaults

LEMMA ScenarioType ==
  ASSUME TypeOK
  PROVE  scenario \in ScenarioRow /\ scenario.ForceRateLimit \in BOOLEAN
  <1>1. NoFaults \in ScenarioRow
    BY DEF NoFaults, ScenarioRow
  <1>2. scenario \in ScenarioRow
    BY <1>1, GatewayAssumption DEF TypeOK
  <1> QED BY <1>2 DEF ScenarioRow

LEMMA Refusals ==
  ASSUME TypeOK, NEW r \in Requests, NEW fault, req[r].pc \in Steps, req[r].op \in Operations
  PROVE  AuthFits(r, fault, Sound(r), Refusal(r, fault))
  <1> DEFINE op == req[r].op
  <1>0. scenario.ForceRateLimit \in BOOLEAN /\ ~NoFaults.ForceRateLimit
    BY ScenarioType DEF NoFaults
  <1>1. req[r].flaw = "none" => Sent(r) = Client[op].request.params
    BY DEF Sent
  <1>2. CASE op \in SharedOperations
    <2>1. /\ ContractOfRequest(r) = "shared" /\ SharedSigned \subseteq Client[op].request.params
      BY <1>2, SharedRoutes DEF ContractOfRequest
    <2>2. Refusal(r, fault) = integrationAuth(r, fault)
      BY <2>1, Zenon DEF Refusal
    <2>3. Sound(r) => Clear(r, SharedSigned)
      BY <1>0, <1>1, <2>1 DEF Sound, Clear
    <2>4. AuthFits(r, fault, Clear(r, SharedSigned), integrationAuth(r, fault))
      BY <1>0, SharedAuth
    <2> QED BY <2>2, <2>3, <2>4 DEF AuthFits
  <1>3. CASE op \in ShopeeOperations
    <2>1. /\ ContractOfRequest(r) = "shopee" /\ ShopeeSigned \subseteq Client[op].request.params
      BY <1>3, ShopeeRoutes DEF ContractOfRequest
    <2>2. Refusal(r, fault) = shopeeIntegrationAuth(r, fault)
      BY <2>1, Zenon DEF Refusal
    <2>a. RightProfile(r) <=> profile = "SHOPEE_LIKE"
      BY <2>1, Zenon DEF RightProfile
    <2>3. Sound(r) => Clear(r, ShopeeSigned) /\ profile = "SHOPEE_LIKE"
      BY <1>0, <1>1, <2>1, <2>a DEF Sound, Clear
    <2>4. AuthFits(r, fault, Clear(r, ShopeeSigned) /\ profile = "SHOPEE_LIKE",
                   shopeeIntegrationAuth(r, fault))
      BY <1>0, ShopeeAuth
    <2> QED BY <2>2, <2>3, <2>4 DEF AuthFits
  <1>4. CASE op \in TokopediaOperations
    <2>1. /\ ContractOfRequest(r) = "tokopedia"
          /\ TokopediaSigned \subseteq Client[op].request.params
      BY <1>4, TokopediaRoutes DEF ContractOfRequest
    <2>2. Refusal(r, fault) = tokopediaIntegrationAuth(r, fault)
      BY <2>1, Zenon DEF Refusal
    <2>a. RightProfile(r) <=> profile = "TOKOPEDIA_LIKE"
      BY <2>1, Zenon DEF RightProfile
    <2>3. Sound(r) => Clear(r, TokopediaSigned) /\ profile = "TOKOPEDIA_LIKE"
      BY <1>0, <1>1, <2>1, <2>a DEF Sound, Clear
    <2>4. AuthFits(r, fault, Clear(r, TokopediaSigned) /\ profile = "TOKOPEDIA_LIKE",
                   tokopediaIntegrationAuth(r, fault))
      BY <1>0, TokopediaAuth
    <2> QED BY <2>2, <2>3, <2>4 DEF AuthFits
  <1> QED BY <1>2, <1>3, <1>4, AllOperations

-----------------------------------------------------------------------------
(* The kinds of step there are *)

Success2xx(a) == a.status \in 200 .. 299

WorkDone == {"executed", "replayed"}

(* What an answer a and the work w done for it say of an operation, called with a flaw *)
(* or none, when a statement failed (f) or did not.  Only a lifetime that outlasts the *)
(* injected timeout lets the server send a 200 that means nothing.                     *)
EndFits(op, flaw, a, w, f) ==
  /\ a \in Answers /\ w \in Works /\ a # NoBody(404)
  /\ flaw = "none" => a # idempotencyError(400)
  /\ w \in WorkDone => \/ Success2xx(a) \/ a = NotAnswered
                       \/ f /\ op \in Idempotent /\ a \in {CommitError(op), idempotencyError(500)}
  /\ Success2xx(a) /\ RequestLifetime < SimulatedTimeout => w \in WorkDone
  /\ op \in Idempotent /\ a.body # "none" /\ (Success2xx(a) \/ a.status \in {401, 409, 413}) =>
       a.status \in Client[op].decodes

(* Row e is row q, ended with the answer a. *)
Ended(q, e, a, w, d) ==
  /\ e \in RequestRow
  /\ e.pc = "done" /\ e.answer = a /\ e.work = w /\ e.disturbed = d
  /\ e.op = q.op /\ e.flaw = q.flaw /\ e.dead = q.dead
  /\ e.charged = q.charged /\ e.window = q.window

Counted(r) ==
  counter' = [counter EXCEPT ![ContractOfRequest(r)][minute] = Count(r)]

(* The answers a sound and undisturbed request may get. *)
Served(r, a, w) ==
  \/ w # "none" /\ (Success2xx(a) \/ a.status \in {400, 404, 409})
  \/ a.status = 429 /\ Counted(r) /\ Count(r) > RateLimitPerMinute

EndsBy(r, e, a, w, d) ==
  /\ req[r].pc \in Open
  /\ req' = [req EXCEPT ![r] = e] /\ Ended(req[r], e, a, w, d)
  /\ EndFits(req[r].op, req[r].flaw, a, w, r \in failed')
  /\ req[r].pc \in {"admit", "lookup"} => w = "none" /\ ~Success2xx(a)
  /\ req[r].disturbed => d
  /\ ~d /\ Sound(r) /\ req[r].scenario = NoFaults /\ ~req[r].late => Served(r, a, w)
  /\ Counted(r) \/ UNCHANGED counter
  /\ UNCHANGED <<profile, credential, maintenance, scenario, minute, edits>>
  /\ failed \subseteq failed' /\ failed' \subseteq Requests

Ends(r) ==
  \E e \in RequestRow, a \in Answers, w \in Works, d \in BOOLEAN : EndsBy(r, e, a, w, d)

SendsBy(r, e) ==
  /\ req[r].pc = "new" /\ req' = [req EXCEPT ![r] = e]
  /\ e \in RequestRow /\ e.pc = "admit" /\ e.op \in Operations
  /\ e.scenario = NoFaults /\ ~e.late /\ ~e.charged /\ e.answer = NotAnswered /\ e.work = "none"
  /\ e.dead => credential \in {"REVOKED", "DELETED"}
  /\ ~e.disturbed => Undisturbed
  /\ UNCHANGED <<profile, credential, maintenance, scenario, minute, counter, edits, failed>>

Sends(r) == \E e \in RequestRow : SendsBy(r, e)

(* Row e is row q, further on. *)
Goes(q, e) ==
  /\ e \in RequestRow
  /\ e.op = q.op /\ e.flaw = q.flaw /\ e.dead = q.dead
  /\ e.answer = q.answer /\ e.work = q.work

(* A middleware step that lets the request through. *)
PassesBy(r, e) ==
  /\ req[r].pc \in Steps /\ req' = [req EXCEPT ![r] = e]
  /\ Goes(req[r], e) /\ e.pc = Following[req[r].pc]
  /\ e.scenario \in {req[r].scenario, scenario} /\ e.late = req[r].late
  /\ req[r].pc = "lookup" => credential \notin {"REVOKED", "DELETED"}
  /\ req[r].disturbed => e.disturbed
  /\ e.charged =>
       \/ req[r].charged /\ e.window = req[r].window
       \/ /\ req[r].pc = "quota" /\ ~req[r].charged /\ e.window = minute
          /\ Counted(r) /\ Count(r) <= RateLimitPerMinute
  /\ Counted(r) \/ UNCHANGED counter
  /\ UNCHANGED <<profile, credential, maintenance, scenario, minute, edits>>
  /\ failed \subseteq failed' /\ failed' \subseteq Requests

Passes(r) == \E e \in RequestRow : PassesBy(r, e)

(* A request that outlives its scenario reaches its handler, maybe late. *)
ReachesBy(r, e) ==
  /\ req[r].pc = "inject" /\ req' = [req EXCEPT ![r] = e]
  /\ Goes(req[r], e) /\ e.pc = "handle" /\ e.scenario = req[r].scenario
  /\ e.charged = req[r].charged /\ e.window = req[r].window /\ e.disturbed = req[r].disturbed
  /\ e.late => req[r].scenario # NoFaults
  /\ UNCHANGED <<profile, credential, maintenance, scenario, minute, counter, edits, failed>>

Reaches(r) == \E e \in RequestRow : ReachesBy(r, e)

Operates ==
  /\ req' = Disturb(req)
  /\ credential' \in {"NONE", "ACTIVE", "REVOKED", "DELETED"}
  /\ credential \in {"REVOKED", "DELETED"} => credential' \in {"REVOKED", "DELETED"}
  /\ maintenance' \in BOOLEAN /\ scenario' \in Scenarios \cup {NoFaults}
  /\ edits' \in 0 .. MaxEdits
  /\ UNCHANGED <<profile, minute, counter, failed>>

Idles ==
  /\ UNCHANGED <<profile, maintenance, scenario, counter, req, edits, failed>>
  /\ credential' = credential \/ (credential = "NONE" /\ credential' = "ACTIVE")
  /\ minute' \in 0 .. MaxMinute /\ minute <= minute'

StepKinds ==
  \/ \E r \in Requests : Sends(r) \/ Ends(r) \/ Passes(r) \/ Reaches(r)
  \/ Operates \/ Idles

(* A refusal of which nothing was executed fits, and the client knows the status. *)
LEMMA RefusalFits ==
  ASSUME NEW op \in Operations, NEW flaw, NEW w \in Works \ WorkDone, NEW f \in BOOLEAN,
         NEW status \in RefusalStatus \cup {404, 409},
         NEW a \in {NotAnswered, Error(status), idempotencyError(status)},
         flaw = "none" => a # idempotencyError(400)
  PROVE  EndFits(op, flaw, a, w, f) /\ ~Success2xx(a)
  <1>1. a \in Answers /\ a # NoBody(404) /\ ~Success2xx(a)
    BY DEF NotAnswered, Error, idempotencyError, NoBody, Answers, Success2xx, RefusalStatus
  <1>2. op \in Idempotent /\ a.body # "none" /\ a.status \in {401, 409, 413} =>
          a.status \in Client[op].decodes
    BY MutationsDecode
  <1> QED BY <1>1, <1>2 DEF EndFits

LEMMA ErrorsAreNotTheKeys ==
  /\ \A status : Error(status) # idempotencyError(400)
  /\ NotAnswered # idempotencyError(400)
  <1>1. \A status : Error(status).body = "error" /\ idempotencyError(400).body = "idempotency"
    BY DEF Error, idempotencyError
  <1>2. NotAnswered.body = "none"
    BY DEF NotAnswered
  <1> QED BY <1>1, <1>2

LEMMA SuccessFits ==
  ASSUME NEW op \in Operations, NEW flaw, NEW w \in WorkDone, NEW f \in BOOLEAN
  PROVE  /\ EndFits(op, flaw, Success(op), w, f) /\ Success2xx(Success(op))
         /\ EndFits(op, flaw, NotAnswered, w, f)
  <1>1. /\ Success(op) \in Answers /\ Success2xx(Success(op)) /\ Success(op) # NoBody(404)
        /\ Success(op) # idempotencyError(400)
        /\ NotAnswered \in Answers /\ NotAnswered # NoBody(404) /\ ~Success2xx(NotAnswered)
        /\ NotAnswered.body = "none" /\ w \in Works
    BY DEF Success, Data, NoBody, NotAnswered, Answers, Success2xx, Works, WorkDone, idempotencyError
  <1>2. op \in Idempotent /\ Success(op).body # "none" => Success(op).status \in Client[op].decodes
    BY MutationsDecode
  <1>3. NotAnswered # idempotencyError(400)
    BY ErrorsAreNotTheKeys
  <1>4. EndFits(op, flaw, NotAnswered, w, f)
    BY <1>1, <1>3 DEF EndFits
  <1> DEFINE a == Success(op)
  <1>5. /\ a \in Answers /\ Success2xx(a) /\ a # NoBody(404) /\ a # idempotencyError(400) /\ w \in Works
        /\ op \in Idempotent /\ a.body # "none" => a.status \in Client[op].decodes
    BY <1>1, <1>2
  <1> HIDE DEF a
  <1>6. EndFits(op, flaw, a, w, f)
    BY <1>5 DEF EndFits
  <1> QED BY <1>1, <1>4, <1>6 DEF a

(* A mutation that was executed, and whose COMMIT or whose stored response failed. *)
LEMMA LostFits ==
  ASSUME NEW op \in Idempotent, NEW flaw, NEW a \in {CommitError(op), idempotencyError(500)}
  PROVE  EndFits(op, flaw, a, "executed", TRUE)
  <1>1. a \in {Error(400), Error(500), idempotencyError(500)}
    BY DEF CommitError
  <1>2. /\ a.status \in {400, 500} /\ a \in Answers /\ a # NoBody(404) /\ ~Success2xx(a)
        /\ a # idempotencyError(400)
    BY <1>1 DEF Error, idempotencyError, Answers, NoBody, Success2xx
  <1>3. "executed" \in Works /\ a.status \notin {401, 409, 413}
    BY <1>2 DEF Works
  <1> QED BY <1>2, <1>3 DEF EndFits

(* Failures are remembered. *)
LEMMA FaultsGrow ==
  ASSUME TypeOK, NEW r \in Requests, NEW fault, Fails(r, fault)
  PROVE  /\ failed \subseteq failed' /\ failed' \subseteq Requests
         /\ fault # "none" => r \in failed'
  BY DEF TypeOK, Fails

LEMMA AnsweredEnds ==
  ASSUME NEW q \in RequestRow, NEW a \in Answers, NEW w \in Works, NEW d \in BOOLEAN,
         NEW b, b = IF q.late THEN NotAnswered ELSE a
  PROVE  /\ b \in Answers
         /\ Ended(q, [Answered(q, a) EXCEPT !.disturbed = d, !.work = w], b, w, d)
         /\ Ended(q, [Answered(q, a) EXCEPT !.disturbed = d], b, q.work, d)
         /\ Ended(q, [Answered(q, a) EXCEPT !.work = w], b, w, q.disturbed)
         /\ Ended(q, Answered(q, a), b, q.work, q.disturbed)
  <1> DEFINE z == Answered(q, a)
  <1>1. b \in Answers
    BY DEF Answers, NotAnswered
  <1>2. z = [q EXCEPT !.pc = "done", !.scenario = NoFaults, !.answer = b]
    BY DEF Answered
  <1> HIDE DEF z
  <1>3. /\ z.pc = "done" /\ z.answer = b
        /\ z.op = q.op /\ z.flaw = q.flaw /\ z.dead = q.dead /\ z.work = q.work
        /\ z.charged = q.charged /\ z.window = q.window /\ z.disturbed = q.disturbed
    BY <1>2 DEF RequestRow
  <1>4. z \in RequestRow
    <2> DEFINE Pcs == {"new", "admit", "lookup", "scenario", "quota", "verify", "inject", "handle", "done"}
               Ops == Operations \cup {"none"}
               Bodies == Scenarios \cup {NoFaults}
               Minutes == 0 .. MaxMinute
    <2>1. RequestRow = [pc : Pcs, op : Ops, flaw : AllFlaws, scenario : Bodies, late : BOOLEAN,
                        charged : BOOLEAN, window : Minutes, answer : Answers, work : Works,
                        dead : BOOLEAN, disturbed : BOOLEAN]
      BY DEF RequestRow, Answers, Works
    <2>2. "done" \in Pcs /\ NoFaults \in Bodies
      OBVIOUS
    <2> HIDE DEF Pcs, Ops, Bodies, Minutes
    <2> QED BY <1>1, <1>2, <2>1, <2>2
  <1>5. Ended(q, z, b, q.work, q.disturbed)
    BY <1>3, <1>4 DEF Ended
  <1>6. ASSUME NEW y, NEW v, NEW f, Ended(q, y, b, v, f)
        PROVE  /\ Ended(q, [y EXCEPT !.work = w], b, w, f)
               /\ Ended(q, [y EXCEPT !.disturbed = d], b, v, d)
    <2>1. y \in RequestRow
      BY <1>6 DEF Ended
    <2>2. [y EXCEPT !.work = w] \in RequestRow /\ [y EXCEPT !.disturbed = d] \in RequestRow
      BY <2>1 DEF RequestRow, Works
    <2>3. Ended(q, [y EXCEPT !.work = w], b, w, f)
      BY <1>6, <2>1, <2>2 DEF Ended, RequestRow
    <2>4. Ended(q, [y EXCEPT !.disturbed = d], b, v, d)
      BY <1>6, <2>1, <2>2 DEF Ended, RequestRow
    <2> QED BY <2>3, <2>4
  <1>7. /\ Ended(q, [z EXCEPT !.work = w], b, w, q.disturbed)
        /\ Ended(q, [z EXCEPT !.disturbed = d], b, q.work, d)
    BY <1>5, <1>6
  <1>8. Ended(q, [[z EXCEPT !.work = w] EXCEPT !.disturbed = d], b, w, d)
    BY <1>6, <1>7
  <1>9. /\ [[z EXCEPT !.work = w] EXCEPT !.disturbed = d] = [z EXCEPT !.work = w, !.disturbed = d]
        /\ [[z EXCEPT !.work = w] EXCEPT !.disturbed = d] = [z EXCEPT !.disturbed = d, !.work = w]
    BY <1>4 DEF RequestRow
  <1> QED BY <1>1, <1>5, <1>7, <1>8, <1>9 DEF z

(* What becomes of a row that goes on. *)
Onward(q, pc, d, s, charged, window, late) ==
  [q EXCEPT !.pc = pc, !.disturbed = d, !.scenario = s, !.charged = charged,
            !.window = window, !.late = late]

LEMMA RowGoesOn ==
  ASSUME NEW q \in RequestRow, NEW pc \in Open, NEW s \in Scenarios \cup {NoFaults},
         NEW late \in BOOLEAN, NEW charged \in BOOLEAN, NEW window \in 0 .. MaxMinute, NEW d \in BOOLEAN
  PROVE  LET e == Onward(q, pc, d, s, charged, window, late) IN
         /\ Goes(q, e)
         /\ e.pc = pc /\ e.scenario = s /\ e.late = late /\ e.charged = charged
         /\ e.window = window /\ e.disturbed = d
  <1> DEFINE e == Onward(q, pc, d, s, charged, window, late)
  <1>1. e \in RequestRow
    <2> DEFINE Pcs == {"new", "admit", "lookup", "scenario", "quota", "verify", "inject", "handle", "done"}
               Ops == Operations \cup {"none"}
               Bodies == Scenarios \cup {NoFaults}
               Minutes == 0 .. MaxMinute
    <2>1. RequestRow = [pc : Pcs, op : Ops, flaw : AllFlaws, scenario : Bodies, late : BOOLEAN,
                        charged : BOOLEAN, window : Minutes, answer : Answers, work : Works,
                        dead : BOOLEAN, disturbed : BOOLEAN]
      BY DEF RequestRow, Answers, Works
    <2>2. pc \in Pcs /\ s \in Bodies /\ window \in Minutes
      BY DEF Open, Steps
    <2> HIDE DEF Pcs, Ops, Bodies, Minutes
    <2> QED BY <2>1, <2>2 DEF Onward
  <1>2. /\ e.op = q.op /\ e.flaw = q.flaw /\ e.dead = q.dead /\ e.answer = q.answer /\ e.work = q.work
        /\ e.pc = pc /\ e.scenario = s /\ e.late = late /\ e.charged = charged
        /\ e.window = window /\ e.disturbed = d
    BY DEF RequestRow, Onward
  <1> QED BY <1>1, <1>2 DEF Goes

LEMMA AuthenticateKind ==
  ASSUME TypeOK, RequestsFit, NEW r \in Requests, NEW fault, Authenticate(r, fault)
  PROVE  Ends(r) \/ Passes(r)
  <1> DEFINE q == req[r]
             status == Refusal(r, fault)
             d == q.disturbed \/ fault # "none"
  <1>1. /\ q \in RequestRow /\ q.pc \in Steps /\ q.op \in Operations
        /\ q.work = "none" /\ q.late \in BOOLEAN /\ d \in BOOLEAN
        /\ q.pc \in Open /\ (q.disturbed => d)
    <2>1. q \in RequestRow /\ RequestFits(q)
      BY DEF TypeOK, RequestsFit
    <2>2. q.pc \in Steps
      BY DEF Authenticate, Following, Steps
    <2> QED BY <2>1, <2>2 DEF RequestFits, Steps, Open, RequestRow
  <1>2. AuthFits(r, fault, Sound(r), status)
    BY <1>1, Refusals
  <1>3. /\ failed \subseteq failed' /\ failed' \subseteq Requests
        /\ UNCHANGED <<profile, credential, maintenance, scenario, minute, edits>>
    BY FaultsGrow DEF Authenticate
  <1>4. /\ q.pc = "quota" /\ fault = "none" => Counted(r)
        /\ Counted(r) \/ UNCHANGED counter
    BY DEF Authenticate, Counted
  <1>5. CASE status # Pass
    <2> DEFINE b == IF q.late THEN NotAnswered ELSE Error(status)
               e == [Answered(q, Error(status)) EXCEPT !.disturbed = d]
    <2>1. status \in RefusalStatus
      BY <1>2, <1>5 DEF AuthFits
    <2>2. Error(status) \in Answers
      BY <2>1 DEF Error, Answers, RefusalStatus
    <2>3. b \in {NotAnswered, Error(status), idempotencyError(status)} /\ b # idempotencyError(400)
      BY ErrorsAreNotTheKeys
    <2>4. ~d /\ Sound(r) /\ ~q.late => Served(r, b, "none")
      <3> SUFFICES ASSUME ~d, Sound(r), ~q.late PROVE Served(r, b, "none")
        OBVIOUS
      <3>1. fault = "none" /\ q.pc = "quota" /\ status = 429 /\ OverQuota(r, fault)
        BY <1>2, <1>5 DEF AuthFits
      <3>2. b.status = 429
        BY <3>1 DEF Error
      <3> HIDE DEF b
      <3> QED BY <1>4, <3>1, <3>2 DEF Served, OverQuota
    <2>5. req' = [req EXCEPT ![r] = e]
      <3>1. req' = [req EXCEPT ![r] = [Answered(q, Error(status)) EXCEPT !.disturbed = @ \/ fault # "none"]]
        BY <1>5 DEF Authenticate
      <3>2. Answered(q, Error(status)).disturbed = q.disturbed
        BY <1>1 DEF Answered, RequestRow
      <3> QED BY <3>1, <3>2
    <2>6. b = IF q.late THEN NotAnswered ELSE Error(status)
      OBVIOUS
    <2> HIDE DEF b, d, status
    <2>7. Ended(q, e, b, "none", d) /\ b \in Answers
      BY <1>1, <2>2, <2>6, AnsweredEnds DEF Works
    <2>8. EndFits(q.op, q.flaw, b, "none", r \in failed') /\ ~Success2xx(b)
      <3> DEFINE f == r \in failed'
                 flaw == q.flaw
      <3>1. f \in BOOLEAN /\ "none" \in Works \ WorkDone
        BY DEF Works, WorkDone
      <3> HIDE DEF f, flaw
      <3>2. EndFits(q.op, flaw, b, "none", f) /\ ~Success2xx(b)
        BY <1>1, <2>1, <2>3, <3>1, RefusalFits
      <3> QED BY <3>2 DEF f, flaw
    <2> HIDE DEF e
    <2>9. e \in RequestRow /\ "none" \in Works
      BY <2>7 DEF Ended, Works
    <2>10. EndsBy(r, e, b, "none", d)
      BY <1>1, <1>3, <1>4, <2>4, <2>5, <2>7, <2>8 DEF EndsBy
    <2> QED BY <1>1, <2>7, <2>9, <2>10 DEF Ends
  <1>6. CASE status = Pass
    <2> DEFINE pc == Following[q.pc]
               s == IF q.pc = "scenario" THEN scenario ELSE q.scenario
               charged == IF q.pc = "quota" THEN fault = "none" ELSE q.charged
               window == IF q.pc = "quota" THEN minute ELSE q.window
               late == q.late
               e == Onward(q, pc, d, s, charged, window, late)
    <2>1. req' = [req EXCEPT ![r] = [Advanced(r, fault) EXCEPT !.disturbed = @ \/ fault # "none"]]
      BY <1>6 DEF Authenticate
    <2>2. /\ Advanced(r, fault).disturbed = q.disturbed
          /\ [Advanced(r, fault) EXCEPT !.disturbed = d] = e
      BY <1>1 DEF Advanced, RequestRow, Onward
    <2>3. req' = [req EXCEPT ![r] = e]
      BY <2>1, <2>2
    <2>4. charged \in BOOLEAN /\ window \in 0 .. MaxMinute /\ (q.pc = "quota" => ~q.charged)
      BY <1>1 DEF TypeOK, RequestRow, RequestsFit, RequestFits
    <2>5. charged =>
            \/ q.charged /\ window = q.window
            \/ /\ q.pc = "quota" /\ ~q.charged /\ window = minute
               /\ Counted(r) /\ Count(r) <= RateLimitPerMinute
      <3> SUFFICES ASSUME charged, q.pc = "quota"
                   PROVE  ~q.charged /\ window = minute /\ Counted(r) /\ Count(r) <= RateLimitPerMinute
        OBVIOUS
      <3>1. fault = "none" /\ ~q.charged
        BY <2>4
      <3>2. ~OverQuota(r, fault)
        BY <1>2, <1>6, <3>1 DEF AuthFits
      <3>3. Count(r) \in Nat
        <4>1. ContractOfRequest(r) \in Contracts
          BY <1>1, EveryOperationRouted DEF ContractOfRequest
        <4>2. counter[ContractOfRequest(r)][minute] \in Nat
          BY <4>1 DEF TypeOK
        <4> QED BY <4>2 DEF Count
      <3> QED BY <1>4, <3>1, <3>2, <3>3, GatewayAssumption DEF OverQuota
    <2>6. q.pc = "lookup" => credential \notin {"REVOKED", "DELETED"}
      BY <1>2, <1>6 DEF AuthFits
    <2>7. d \in BOOLEAN /\ late \in BOOLEAN /\ pc \in Open /\ s \in Scenarios \cup {NoFaults} /\ s \in {q.scenario, scenario}
      BY <1>1 DEF TypeOK, RequestRow, Steps, Open, Following
    <2> HIDE DEF pc, s, charged, window, d, late
    <2>a. /\ q \in RequestRow /\ pc \in Open /\ s \in Scenarios \cup {NoFaults} /\ late \in BOOLEAN
          /\ charged \in BOOLEAN /\ window \in 0 .. MaxMinute /\ d \in BOOLEAN
      BY <1>1, <2>4, <2>7
    <2> HIDE DEF q
    <2>8. /\ Goes(q, e)
          /\ e.pc = pc /\ e.scenario = s /\ e.late = late /\ e.charged = charged
          /\ e.window = window /\ e.disturbed = d
      BY <2>a, RowGoesOn
    <2> HIDE DEF e
    <2>9. PassesBy(r, e)
      BY <1>1, <1>3, <1>4, <2>3, <2>5, <2>6, <2>7, <2>8 DEF PassesBy, pc, late, q
    <2> QED BY <2>8, <2>9 DEF Passes, Goes, q
  <1> QED BY <1>5, <1>6

(* What is injected is told as it is, but for the default status of a connection that *)
(* outlives the injected timeout.                                                     *)
LEMMA InjectedFits ==
  ASSUME NEW op \in Operations, NEW flaw, NEW f \in BOOLEAN, NEW c \in Contracts
  PROVE  /\ EndFits(op, flaw, NotAnswered, "none", f)
         /\ EndFits(op, flaw, Error(providerError(c, 500)), "none", f)
         /\ Error(providerError(c, 500)) \in Answers /\ NotAnswered \in Answers /\ NoBody(200) \in Answers
         /\ ~(RequestLifetime < SimulatedTimeout) => EndFits(op, flaw, NoBody(200), "none", f)
  <1>1. tokopediaErrorCode(500) = 500
    BY DEF tokopediaErrorCode
  <1>2. providerError(c, 500) = 500
    BY <1>1, TokopediaStatuses DEF providerError
  <1>3. 500 \in RefusalStatus /\ "none" \in Works \ WorkDone
    BY DEF RefusalStatus, Works, WorkDone
  <1>4. /\ EndFits(op, flaw, NotAnswered, "none", f) /\ EndFits(op, flaw, Error(500), "none", f)
    BY <1>3, RefusalFits, ErrorsAreNotTheKeys
  <1>5. NoBody(200) \in Answers /\ NoBody(200) # NoBody(404) /\ NoBody(200).body = "none"
        /\ NoBody(200) # idempotencyError(400)
    BY DEF NoBody, Answers, idempotencyError
  <1>6. Error(500) \in Answers /\ NotAnswered \in Answers
    BY DEF Error, NotAnswered, Answers
  <1>7. ~(RequestLifetime < SimulatedTimeout) => EndFits(op, flaw, NoBody(200), "none", f)
    BY <1>5 DEF EndFits, Works, WorkDone
  <1> QED BY <1>2, <1>4, <1>5, <1>6, <1>7

LEMMA NoneHits == TRUE \notin Hits(0)
  <1>1. \A draw \in Draws : (draw < 0) = FALSE
    BY DEF Draws
  <1> QED BY <1>1, Zenon DEF Hits

LEMMA ApplyKind ==
  ASSUME TypeOK, RequestsFit, NEW r \in Requests, applyScenario(r)
  PROVE  Ends(r) \/ Reaches(r)
  <1> DEFINE q == req[r]
             c == ContractOfRequest(r)
  <1>1. /\ q \in RequestRow /\ q.pc = "inject" /\ q.op \in Operations /\ q.work = "none"
        /\ q.disturbed \in BOOLEAN
    BY DEF TypeOK, RequestsFit, RequestFits, applyScenario, RequestRow
  <1>2. c \in Contracts
    BY <1>1, EveryOperationRouted DEF ContractOfRequest
  <1>3. UNCHANGED <<profile, credential, maintenance, scenario, minute, counter, edits, failed>>
    BY DEF applyScenario
  <1>4. /\ EndFits(q.op, q.flaw, NotAnswered, "none", r \in failed')
        /\ EndFits(q.op, q.flaw, Error(providerError(c, 500)), "none", r \in failed')
        /\ Error(providerError(c, 500)) \in Answers /\ NotAnswered \in Answers /\ NoBody(200) \in Answers
        /\ ~(RequestLifetime < SimulatedTimeout) => EndFits(q.op, q.flaw, NoBody(200), "none", r \in failed')
    <2> DEFINE f == r \in failed'
               flaw == q.flaw
    <2>1. f \in BOOLEAN
      OBVIOUS
    <2> HIDE DEF f, flaw
    <2>2. /\ EndFits(q.op, flaw, NotAnswered, "none", f)
          /\ EndFits(q.op, flaw, Error(providerError(c, 500)), "none", f)
          /\ Error(providerError(c, 500)) \in Answers /\ NotAnswered \in Answers /\ NoBody(200) \in Answers
          /\ ~(RequestLifetime < SimulatedTimeout) => EndFits(q.op, flaw, NoBody(200), "none", f)
      BY <1>1, <1>2, <2>1, InjectedFits
    <2> QED BY <2>2 DEF f, flaw
  <1> HIDE DEF c
  <1>5. ASSUME NEW a \in Answers, EndFits(q.op, q.flaw, a, "none", r \in failed'), q.scenario # NoFaults,
               req' = [req EXCEPT ![r] = Answered(q, a)]
        PROVE  Ends(r)
    <2> DEFINE b == IF q.late THEN NotAnswered ELSE a
               d == q.disturbed
               e == Answered(q, a)
    <2>1. Ended(q, e, b, "none", d) /\ b \in Answers /\ d \in BOOLEAN /\ (q.disturbed => d)
      BY <1>1, AnsweredEnds DEF Works
    <2>2. EndFits(q.op, q.flaw, b, "none", r \in failed')
      BY <1>4, <1>5
    <2> HIDE DEF b, d, e
    <2>3. e \in RequestRow /\ "none" \in Works /\ q.pc \in Open /\ failed \subseteq failed' /\ failed' \subseteq Requests
          /\ q.pc \notin {"admit", "lookup"} /\ UNCHANGED counter
          /\ UNCHANGED <<profile, credential, maintenance, scenario, minute, edits>>
      BY <1>1, <1>3, <2>1 DEF Ended, Works, Open, TypeOK
    <2>4. req' = [req EXCEPT ![r] = e]
      BY <1>5 DEF e
    <2>5. EndsBy(r, e, b, "none", d)
      BY <1>5, <2>1, <2>2, <2>3, <2>4 DEF EndsBy
    <2> QED BY <2>1, <2>3, <2>5 DEF Ends
  <1>6. ASSUME NEW late \in BOOLEAN, late => q.scenario # NoFaults,
                req' = [req EXCEPT ![r] = [req[r] EXCEPT !.pc = "handle", !.late = late]]
         PROVE  Reaches(r)
    <2> DEFINE pc == "handle"
               d == q.disturbed
               s == q.scenario
               charged == q.charged
               window == q.window
               e == Onward(q, pc, d, s, charged, window, late)
    <2>1. /\ pc \in Open /\ s \in Scenarios \cup {NoFaults} /\ charged \in BOOLEAN
          /\ window \in 0 .. MaxMinute /\ d \in BOOLEAN
      BY <1>1 DEF RequestRow, Open
    <2>2. e = [q EXCEPT !.pc = "handle", !.late = late]
      BY <1>1 DEF RequestRow, Onward
    <2>3. req' = [req EXCEPT ![r] = e]
      BY <1>6, <2>2
    <2> HIDE DEF pc, d, s, charged, window
    <2>4. /\ Goes(q, e)
          /\ e.pc = pc /\ e.scenario = s /\ e.late = late /\ e.charged = charged
          /\ e.window = window /\ e.disturbed = d
      BY <1>1, <2>1, RowGoesOn
    <2> HIDE DEF e
    <2>5. ReachesBy(r, e)
      BY <1>1, <1>3, <1>6, <2>3, <2>4 DEF ReachesBy, pc, d, s, charged, window
    <2> QED BY <2>4, <2>5 DEF Reaches, Goes
  <1>7. CASE Fail(r)
    <2>1. q.scenario # NoFaults
      <3>1. NoFaults.APIRandom500Probability = 0
        BY DEF NoFaults
      <3> QED BY <1>7, <3>1, NoneHits, Zenon DEF Fail
    <2>2. req' = [req EXCEPT ![r] = Answered(q, Error(providerError(c, 500)))]
      BY <1>7 DEF Fail, c
    <2> QED BY <1>4, <1>5, <2>1, <2>2
  <1>8. CASE TimeOut(r)
    <2>1. q.scenario # NoFaults
      <3>1. NoFaults.APITimeoutProbability = 0
        BY DEF NoFaults
      <3> QED BY <1>8, <3>1, NoneHits, Zenon DEF TimeOut
    <2>2. PICK a \in {NotAnswered, IF RequestLifetime < SimulatedTimeout THEN NotAnswered ELSE NoBody(200)} :
            req' = [req EXCEPT ![r] = Answered(q, a)]
      BY <1>8 DEF TimeOut
    <2>3. a \in Answers /\ EndFits(q.op, q.flaw, a, "none", r \in failed')
      BY <1>4
    <2> QED BY <1>5, <2>1, <2>2, <2>3
  <1>9. CASE Slow(r)
    <2>1. q.scenario # NoFaults
      BY <1>9 DEF Slow, NoFaults
    <2>2. CASE req' = [req EXCEPT ![r] = Answered(@, NotAnswered)]
      BY <1>4, <1>5, <2>1, <2>2
    <2>3. CASE req' = [req EXCEPT ![r].pc = "handle",
                           ![r].late = req[r].scenario.APISlowMS >= 1000 * RequestLifetime]
      <3> DEFINE late == req[r].scenario.APISlowMS >= 1000 * RequestLifetime
      <3>1. late \in BOOLEAN
        OBVIOUS
      <3> HIDE DEF late
      <3>2. req' = [req EXCEPT ![r].pc = "handle", ![r].late = late]
        BY <2>3 DEF late
      <3>3. req' = [req EXCEPT ![r] = [req[r] EXCEPT !.pc = "handle", !.late = late]]
        BY <1>1, <3>2 DEF TypeOK
      <3> QED BY <1>6, <2>1, <3>1, <3>3
    <2> QED BY <1>9, <2>2, <2>3 DEF Slow
  <1>10. CASE Continue(r)
    <2>1. q.late = FALSE
      BY <1>1 DEF RequestRow, RequestsFit, RequestFits
    <2>2. [req[r] EXCEPT !.pc = "handle", !.late = FALSE] = [req[r] EXCEPT !.pc = "handle"]
      BY <1>1, <2>1 DEF RequestRow
    <2>3. req' = [req EXCEPT ![r] = [req[r] EXCEPT !.pc = "handle", !.late = FALSE]]
      BY <1>10, <2>2 DEF Continue
    <2> QED BY <1>6, <2>3
  <1> QED BY <1>7, <1>8, <1>9, <1>10 DEF applyScenario

(* How a handler's step, with its idempotency check, ends the request. *)
LEMMA ServeKind ==
  ASSUME TypeOK, RequestsFit, NEW r \in Requests, NEW fault, Serve(r, fault)
  PROVE  Ends(r)
  <1> DEFINE q == req[r]
             op == q.op
             flaw == q.flaw
             f == r \in failed'
  <1>1. /\ q \in RequestRow /\ q.pc = "handle" /\ op \in Operations /\ q.work = "none"
        /\ q.disturbed \in BOOLEAN /\ q.pc \in Open /\ q.pc \notin {"admit", "lookup"}
        /\ f \in BOOLEAN
    BY DEF TypeOK, RequestsFit, RequestFits, Serve, RequestRow, Open
  <1>2. /\ failed \subseteq failed' /\ failed' \subseteq Requests /\ UNCHANGED counter
        /\ UNCHANGED <<profile, credential, maintenance, scenario, minute, edits>>
        /\ fault # "none" => f
    BY FaultsGrow DEF Serve
  <1> HIDE DEF f, flaw, op
  <1>3. ASSUME NEW a \in Answers, NEW w \in Works, w # "none",
               EndFits(op, flaw, a, w, f), EndFits(op, flaw, NotAnswered, w, f),
               fault = "none" => Success2xx(a) \/ a.status \in {400, 404, 409},
               Respond(r, fault, a, w)
        PROVE  Ends(r)
    <2> DEFINE b == IF q.late THEN NotAnswered ELSE a
               d == q.disturbed \/ fault # "none"
               e == [Answered(q, a) EXCEPT !.disturbed = d, !.work = w]
               g == [Answered(q, a) EXCEPT !.work = w, !.disturbed = d]
    <2>1. /\ d \in BOOLEAN /\ (q.disturbed => d) /\ (~d => fault = "none")
          /\ b = IF q.late THEN NotAnswered ELSE a
      BY <1>1
    <2>2. req' = [req EXCEPT ![r] = g]
      <3>1. req' = [req EXCEPT ![r] =
                     [Answered(q, a) EXCEPT !.work = w, !.disturbed = Answered(q, a).disturbed \/ fault # "none"]]
        BY <1>3 DEF Respond
      <3>2. Answered(q, a).disturbed = q.disturbed
        BY <1>1 DEF Answered, RequestRow
      <3> QED BY <3>1, <3>2
    <2>3. EndFits(op, flaw, b, w, f)
      BY <1>3
    <2>4. ~d /\ ~q.late => Served(r, b, w)
      BY <1>3, <2>1 DEF Served
    <2> HIDE DEF b, d
    <2>5. Ended(q, e, b, w, d) /\ b \in Answers
      BY <1>1, <2>1, AnsweredEnds
    <2>6. g = e
      <3>1. Answered(q, a) = [q EXCEPT !.pc = "done", !.scenario = NoFaults,
                                       !.answer = IF q.late THEN NotAnswered ELSE a]
        BY DEF Answered
      <3> QED BY <1>1, <3>1 DEF RequestRow
    <2> HIDE DEF e, g
    <2>7. EndsBy(r, e, b, w, d)
      BY <1>1, <1>2, <2>1, <2>2, <2>3, <2>4, <2>5, <2>6 DEF EndsBy, op, flaw, f
    <2>8. e \in RequestRow
      BY <2>5 DEF Ended
    <2> QED BY <2>1, <2>5, <2>7, <2>8 DEF Ends
  <1>4. ASSUME NEW status \in {400, 404, 409, 500}, NEW w \in {"withheld", "refused"},
               NEW a \in {Error(status), idempotencyError(status)},
               flaw = "none" => a # idempotencyError(400), status = 500 => fault # "none",
               Respond(r, fault, a, w)
        PROVE  Ends(r)
    <2>1. status \in RefusalStatus \cup {404, 409} /\ w \in Works \ WorkDone /\ w # "none"
      BY DEF RefusalStatus, Works, WorkDone
    <2>2. EndFits(op, flaw, a, w, f)
      BY <1>1, <1>4, <2>1, RefusalFits
    <2>3. EndFits(op, flaw, NotAnswered, w, f)
      <3> DEFINE b == NotAnswered
      <3>1. b \in {NotAnswered, Error(status), idempotencyError(status)} /\ b # idempotencyError(400)
        BY ErrorsAreNotTheKeys
      <3>2. op \in Operations /\ w \in Works \ WorkDone /\ f \in BOOLEAN
            /\ status \in RefusalStatus \cup {404, 409}
        BY <1>1, <2>1
      <3> HIDE DEF b, op, flaw, f
      <3>3. EndFits(op, flaw, b, w, f)
        BY <3>1, <3>2, RefusalFits
      <3> QED BY <3>3 DEF b
    <2>4. a \in Answers /\ a.status = status
      BY DEF Answers, Error, idempotencyError
    <2> QED BY <1>3, <1>4, <2>1, <2>2, <2>3, <2>4
  <1>5. ASSUME NEW w \in WorkDone, Respond(r, fault, Success(op), w)
        PROVE  Ends(r)
    <2> DEFINE a == Success(op)
    <2>1. /\ EndFits(op, flaw, a, w, f) /\ Success2xx(a) /\ EndFits(op, flaw, NotAnswered, w, f)
      BY <1>1, SuccessFits
    <2>2. a \in Answers /\ w \in Works /\ w # "none" /\ Respond(r, fault, a, w)
      BY <1>5, <2>1 DEF EndFits, WorkDone
    <2> HIDE DEF a
    <2> QED BY <1>3, <2>1, <2>2
  <1>6. ASSUME fault # "none", op \in Idempotent, NEW a \in {CommitError(op), idempotencyError(500)},
               Respond(r, fault, a, "executed")
        PROVE  Ends(r)
    <2>1. EndFits(op, flaw, a, "executed", TRUE) /\ f = TRUE
      BY <1>1, <1>2, <1>6, LostFits
    <2>2. "executed" \in WorkDone /\ "executed" \in Works
      BY DEF WorkDone, Works
    <2>3. EndFits(op, flaw, NotAnswered, "executed", f)
      BY <1>1, <2>2, SuccessFits
    <2>4. a \in Answers
      BY <2>1 DEF EndFits
    <2> QED BY <1>3, <1>6, <2>1, <2>2, <2>3, <2>4
  <1>7. CASE Handle(r, fault)
    <2>1. HandlerRefusals[op] \subseteq {400, 404, 500}
      BY <1>1, HandlersRefuse
    <2>2. CASE Respond(r, fault, Success(op), "executed")
      BY <1>5, <2>2 DEF WorkDone
    <2>3. CASE \E status \in HandlerRefusals[op] :
                 /\ fault = "none" => status # 500
                 /\ Respond(r, fault, Error(status), "refused")
      <3>1. PICK status \in HandlerRefusals[op] :
                 /\ fault = "none" => status # 500
                 /\ Respond(r, fault, Error(status), "refused")
        BY <2>3
      <3> QED BY <1>4, <2>1, <3>1, ErrorsAreNotTheKeys
    <2>4. CASE /\ fault # "none" /\ op \in Idempotent
               /\ \E answer \in {CommitError(op), idempotencyError(500)} :
                    Respond(r, fault, answer, "executed")
      BY <1>6, <2>4
    <2> QED BY <1>7, <2>2, <2>3, <2>4 DEF Handle, op
  <1>8. CASE op \in Idempotent /\ Withheld(r, fault)
    <2>1. ~Claimable(r) => flaw # "none"
      <3> SUFFICES ASSUME flaw = "none" PROVE Claimable(r)
        OBVIOUS
      <3>1. Sent(r) = Client[op].request.params
        BY DEF Sent, flaw, op
      <3>2. "Idempotency-Key" \in Client[op].request.params
        BY <1>8, MutationsSendKey
      <3> QED BY <3>1, <3>2 DEF Claimable, flaw
    <2>2. idempotencyError(409) # idempotencyError(400) /\ idempotencyError(500) # idempotencyError(400)
      <3>1. /\ idempotencyError(409).status = 409 /\ idempotencyError(400).status = 400
            /\ idempotencyError(500).status = 500
        BY DEF idempotencyError
      <3> QED BY <3>1
    <2>3. CASE ~Claimable(r) /\ Respond(r, fault, idempotencyError(400), "withheld")
      <3> DEFINE a == idempotencyError(400)
      <3>1. flaw = "none" => a # idempotencyError(400)
        BY <2>1, <2>3
      <3>2. a \in {Error(400), idempotencyError(400)} /\ Respond(r, fault, a, "withheld")
        BY <2>3
      <3> HIDE DEF a
      <3> QED BY <1>4, <3>1, <3>2
    <2>4. CASE fault # "none" /\ Respond(r, fault, idempotencyError(500), "withheld")
      <3> DEFINE a == idempotencyError(500)
      <3>1. a # idempotencyError(400) /\ fault # "none"
        BY <2>2, <2>4
      <3>2. a \in {Error(500), idempotencyError(500)} /\ Respond(r, fault, a, "withheld")
        BY <2>4
      <3> HIDE DEF a
      <3> QED BY <1>4, <3>1, <3>2
    <2>5. CASE Respond(r, fault, Success(op), "replayed")
      BY <1>5, <2>5 DEF WorkDone
    <2>6. CASE Respond(r, fault, idempotencyError(409), "withheld")
      <3> DEFINE a == idempotencyError(409)
      <3>1. a # idempotencyError(400)
        BY <2>2
      <3>2. a \in {Error(409), idempotencyError(409)} /\ Respond(r, fault, a, "withheld")
        BY <2>6
      <3> HIDE DEF a
      <3> QED BY <1>4, <3>1, <3>2
    <2> QED BY <1>8, <2>3, <2>4, <2>5, <2>6 DEF Withheld, op
  <1> QED BY <1>7, <1>8 DEF Serve, op

LEMMA SendKind ==
  ASSUME TypeOK, NEW r \in Requests, NEW call \in Calls[r], Send(r, call)
  PROVE  Sends(r)
  <1> DEFINE dead == credential \in {"REVOKED", "DELETED"}
             d == ~Undisturbed
             op == call[1]
             flaw == call[2]
             e == [Fresh EXCEPT !.pc = "admit", !.op = op, !.flaw = flaw, !.dead = dead, !.disturbed = d]
  <1>1. op \in Operations /\ flaw \in AllFlaws /\ dead \in BOOLEAN /\ d \in BOOLEAN
    BY GatewayAssumption DEF Undisturbed
  <1>2. req' = [req EXCEPT ![r] = e] /\ req[r].pc = "new"
    BY <1>1, EveryOperationRouted DEF Send
  <1>3. UNCHANGED <<profile, credential, maintenance, scenario, minute, counter, edits, failed>>
    BY DEF Send
  <1> HIDE DEF op, flaw, dead, d
  <1> DEFINE Pcs == {"new", "admit", "lookup", "scenario", "quota", "verify", "inject", "handle", "done"}
             Ops == Operations \cup {"none"}
             Bodies == Scenarios \cup {NoFaults}
             Minutes == 0 .. MaxMinute
             Rows == [pc : Pcs, op : Ops, flaw : AllFlaws, scenario : Bodies, late : BOOLEAN,
                      charged : BOOLEAN, window : Minutes, answer : Answers, work : Works,
                      dead : BOOLEAN, disturbed : BOOLEAN]
  <1>4. RequestRow = Rows
    BY DEF RequestRow, Answers, Works
  <1>5. /\ "admit" \in Pcs /\ "new" \in Pcs /\ op \in Ops /\ "none" \in Ops /\ NoFaults \in Bodies
        /\ 0 \in Minutes /\ "none" \in Works /\ NotAnswered \in Answers /\ "none" \in AllFlaws
    BY <1>1, GatewayAssumption DEF Works, NotAnswered, Answers, AllFlaws
  <1> HIDE DEF Pcs, Ops, Bodies, Minutes
  <1>6. Fresh \in Rows
    BY <1>5 DEF Fresh
  <1>7. e \in RequestRow
    BY <1>1, <1>4, <1>5, <1>6
  <1>a. /\ e.pc = "admit" /\ e.op = op /\ e.scenario = Fresh.scenario /\ e.late = Fresh.late
        /\ e.charged = Fresh.charged /\ e.answer = Fresh.answer /\ e.work = Fresh.work
        /\ e.dead = dead /\ e.disturbed = d
    BY <1>6
  <1>b. /\ Fresh.scenario = NoFaults /\ ~Fresh.late /\ ~Fresh.charged
        /\ Fresh.answer = NotAnswered /\ Fresh.work = "none"
    BY DEF Fresh
  <1> HIDE DEF e
  <1>8. SendsBy(r, e)
    BY <1>1, <1>2, <1>3, <1>7, <1>a, <1>b DEF SendsBy, dead, d
  <1> QED BY <1>7, <1>8 DEF Sends

(* Every step is of one of the kinds. *)
LEMMA NextKinds ==
  ASSUME TypeOK, RequestsFit, [Next]_vars
  PROVE  StepKinds
  <1>1. ASSUME NEW r \in Requests, NEW call \in Calls[r], Send(r, call) PROVE StepKinds
    BY <1>1, SendKind DEF StepKinds
  <1>2. ASSUME NEW r \in Requests, NEW fault, Authenticate(r, fault) PROVE StepKinds
    BY <1>2, AuthenticateKind DEF StepKinds
  <1>3. ASSUME NEW r \in Requests, NEW fault, Serve(r, fault) PROVE StepKinds
    BY <1>3, ServeKind DEF StepKinds
  <1>4. ASSUME NEW r \in Requests, applyScenario(r) PROVE StepKinds
    BY <1>4, ApplyKind DEF StepKinds
  <1>5. ASSUME Edit PROVE edits' \in 0 .. MaxEdits
    BY <1>5, GatewayAssumption DEF Edit, TypeOK
  <1>6. CASE putScenario
    BY <1>5, <1>6 DEF putScenario, StepKinds, Operates, TypeOK
  <1>7. CASE setMaintenance
    BY <1>5, <1>7 DEF setMaintenance, StepKinds, Operates, TypeOK
  <1>8. CASE revokeCredential
    BY <1>5, <1>8 DEF revokeCredential, StepKinds, Operates, TypeOK
  <1>9. CASE resetShopData
    BY <1>5, <1>9 DEF resetShopData, StepKinds, Operates, TypeOK
  <1>10. CASE createCredential
    BY <1>10 DEF createCredential, StepKinds, Idles, TypeOK
  <1>11. CASE Minute
    <2>1. minute' \in 0 .. MaxMinute /\ minute <= minute'
      BY <1>11, GatewayAssumption DEF Minute, TypeOK
    <2>2. Idles
      BY <1>11, <2>1 DEF Minute, Idles
    <2> QED BY <2>2 DEF StepKinds
  <1>12. CASE UNCHANGED vars
    <2>1. minute' = minute
      BY <1>12 DEF vars
    <2>2. minute' \in 0 .. MaxMinute /\ minute <= minute'
      BY <2>1, GatewayAssumption DEF TypeOK
    <2>3. Idles
      BY <1>12, <2>2 DEF vars, Idles
    <2> QED BY <2>3 DEF StepKinds
  <1> QED BY <1>1, <1>2, <1>3, <1>4, <1>6, <1>7, <1>8, <1>9, <1>10, <1>11, <1>12 DEF Next

-----------------------------------------------------------------------------
(* Types *)

LEMMA RowChanged ==
  ASSUME TypeOK, RequestsFit, NEW r \in Requests, NEW e \in RequestRow, RequestFits(e),
         req' = [req EXCEPT ![r] = e]
  PROVE  req' \in [Requests -> RequestRow] /\ RequestsFit'
  <1>1. \A p \in Requests : req'[p] = IF p = r THEN e ELSE req[p]
    BY DEF TypeOK
  <1>2. req' \in [Requests -> RequestRow]
    BY DEF TypeOK
  <1>3. \A p \in Requests : RequestFits(req[p])
    BY DEF RequestsFit
  <1>4. \A p \in Requests : RequestFits(req'[p])
    BY <1>1, <1>3
  <1> QED BY <1>2, <1>4 DEF RequestsFit

(* Counters are natural numbers and only grow. *)
CountersGrow == \A c \in Contracts, m \in 0 .. MaxMinute : counter[c][m] <= counter'[c][m]
CounterType == [Contracts -> [0 .. MaxMinute -> Nat]]

LEMMA CountersGrew ==
  ASSUME TypeOK, NEW r \in Requests, req[r].op \in Operations, Counted(r) \/ UNCHANGED counter
  PROVE  counter' \in CounterType /\ CountersGrow
  <1>1. counter \in CounterType /\ minute \in 0 .. MaxMinute
    BY DEF TypeOK, CounterType
  <1>2. CASE UNCHANGED counter
    <2>1. \A c \in Contracts, m \in 0 .. MaxMinute : counter[c][m] \in Nat
      BY <1>1 DEF CounterType
    <2>2. \A c \in Contracts, m \in 0 .. MaxMinute : counter[c][m] <= counter'[c][m]
      BY <1>2, <2>1
    <2> QED BY <1>1, <1>2, <2>2 DEF CountersGrow
  <1>3. CASE Counted(r)
    <2> DEFINE c == ContractOfRequest(r)
               n == Count(r)
    <2>1. c \in Contracts
      BY EveryOperationRouted DEF ContractOfRequest
    <2>2. n = counter[c][minute] + 1
      BY DEF Count
    <2>3. counter[c][minute] \in Nat
      BY <1>1, <2>1 DEF CounterType
    <2>4. n \in Nat /\ counter[c][minute] <= n
      BY <2>2, <2>3
    <2>5. counter' = [counter EXCEPT ![c][minute] = n]
      BY <1>3 DEF Counted
    <2> HIDE DEF c, n
    <2>6. counter' \in CounterType
      BY <1>1, <2>1, <2>4, <2>5 DEF CounterType
    <2>7. \A b \in Contracts, m \in 0 .. MaxMinute :
            counter'[b][m] = IF b = c /\ m = minute THEN n ELSE counter[b][m]
      BY <1>1, <2>1, <2>5 DEF CounterType
    <2>8. \A b \in Contracts, m \in 0 .. MaxMinute : counter[b][m] \in Nat
      BY <1>1 DEF CounterType
    <2>9. \A b \in Contracts, m \in 0 .. MaxMinute : counter[b][m] <= counter'[b][m]
      BY <2>4, <2>7, <2>8
    <2> QED BY <2>6, <2>9 DEF CountersGrow
  <1> QED BY <1>2, <1>3

LEMMA Disturbance ==
  ASSUME TypeOK, NEW p \in Requests, req' = Disturb(req)
  PROVE  /\ req'[p] \in RequestRow
         /\ req'[p].pc = req[p].pc /\ req'[p].op = req[p].op /\ req'[p].flaw = req[p].flaw
         /\ req'[p].answer = req[p].answer /\ req'[p].work = req[p].work /\ req'[p].dead = req[p].dead
         /\ req'[p].charged = req[p].charged /\ req'[p].window = req[p].window
         /\ req'[p].late = req[p].late /\ req'[p].scenario = req[p].scenario
         /\ IF req[p].pc \in {"new", "done"} THEN req'[p] = req[p] ELSE req'[p].disturbed = TRUE
  <1> DEFINE q == req[p]
  <1>1. q \in RequestRow
    BY DEF TypeOK
  <1>2. req'[p] = IF q.pc \in {"new", "done"} THEN q ELSE [q EXCEPT !.disturbed = TRUE]
    BY DEF Disturb, InFlight
  <1> HIDE DEF q
  <1>3. [q EXCEPT !.disturbed = TRUE] \in RequestRow
    BY <1>1 DEF RequestRow
  <1>4. req'[p] \in RequestRow
    BY <1>1, <1>2, <1>3
  <1>5. CASE q.pc \in {"new", "done"}
    BY <1>2, <1>4, <1>5 DEF q
  <1>6. CASE q.pc \notin {"new", "done"}
    <2> DEFINE z == [q EXCEPT !.disturbed = TRUE]
    <2>1. /\ z.pc = q.pc /\ z.op = q.op /\ z.flaw = q.flaw /\ z.answer = q.answer
          /\ z.work = q.work /\ z.dead = q.dead /\ z.charged = q.charged /\ z.window = q.window
          /\ z.late = q.late /\ z.scenario = q.scenario /\ z.disturbed = TRUE
      BY <1>1 DEF RequestRow
    <2>2. req'[p] = z
      BY <1>2, <1>6
    <2> HIDE DEF z
    <2> QED BY <1>4, <1>6, <2>1, <2>2 DEF q
  <1> QED BY <1>5, <1>6

LEMMA TypeStep ==
  ASSUME TypeOK, RequestsFit, StepKinds
  PROVE  TypeOK' /\ RequestsFit'
  <1>1. ASSUME NEW r \in Requests, Sends(r) PROVE TypeOK' /\ RequestsFit'
    <2>1. PICK e \in RequestRow : SendsBy(r, e)
      BY <1>1 DEF Sends
    <2>2. RequestFits(e)
      BY <2>1 DEF SendsBy, RequestFits
    <2>3. req' \in [Requests -> RequestRow] /\ RequestsFit'
      BY <2>1, <2>2, RowChanged DEF SendsBy
    <2> QED BY <2>1, <2>3 DEF SendsBy, TypeOK
  <1>2. ASSUME NEW r \in Requests, Ends(r) PROVE TypeOK' /\ RequestsFit'
    <2>1. PICK e \in RequestRow, a \in Answers, w \in Works, d \in BOOLEAN : EndsBy(r, e, a, w, d)
      BY <1>2 DEF Ends
    <2>2. req[r].op \in Operations
      BY <2>1 DEF EndsBy, RequestsFit, RequestFits, Open, Steps
    <2>3. RequestFits(e)
      BY <2>1, <2>2 DEF EndsBy, Ended, RequestFits, Steps
    <2>4. req' \in [Requests -> RequestRow] /\ RequestsFit'
      BY <2>1, <2>3, RowChanged DEF EndsBy
    <2>5. counter' \in CounterType
      BY <2>1, <2>2, CountersGrew DEF EndsBy
    <2> QED BY <2>1, <2>4, <2>5 DEF EndsBy, TypeOK, CounterType
  <1>3. ASSUME NEW r \in Requests, Passes(r) PROVE TypeOK' /\ RequestsFit'
    <2>1. PICK e \in RequestRow : PassesBy(r, e)
      BY <1>3 DEF Passes
    <2>2. RequestFits(req[r]) /\ req[r].op \in Operations
      BY <2>1 DEF PassesBy, RequestsFit, RequestFits, Steps
    <2>3. e.pc \in {"lookup", "scenario", "quota", "verify", "inject"}
          /\ (e.pc \in {"lookup", "scenario", "quota"} => req[r].pc \in {"admit", "lookup", "scenario"})
      BY <2>1 DEF PassesBy, Following, Steps
    <2>4. RequestFits(e)
      BY <2>1, <2>2, <2>3 DEF PassesBy, Goes, RequestFits, Steps
    <2>5. req' \in [Requests -> RequestRow] /\ RequestsFit'
      BY <2>1, <2>4, RowChanged DEF PassesBy
    <2>6. counter' \in CounterType
      BY <2>1, <2>2, CountersGrew DEF PassesBy
    <2> QED BY <2>1, <2>5, <2>6 DEF PassesBy, TypeOK, CounterType
  <1>4. ASSUME NEW r \in Requests, Reaches(r) PROVE TypeOK' /\ RequestsFit'
    <2>1. PICK e \in RequestRow : ReachesBy(r, e)
      BY <1>4 DEF Reaches
    <2>2. RequestFits(req[r])
      BY DEF RequestsFit
    <2>3. RequestFits(e)
      BY <2>1, <2>2 DEF ReachesBy, Goes, RequestFits, Steps
    <2>4. req' \in [Requests -> RequestRow] /\ RequestsFit'
      BY <2>1, <2>3, RowChanged DEF ReachesBy
    <2> QED BY <2>1, <2>4 DEF ReachesBy, TypeOK
  <1>5. CASE Operates
    <2>1. req' = Disturb(req)
      BY <1>5 DEF Operates
    <2>2. \A p \in Requests : req'[p] \in RequestRow /\ RequestFits(req'[p])
      <3> SUFFICES ASSUME NEW p \in Requests PROVE req'[p] \in RequestRow /\ RequestFits(req'[p])
        OBVIOUS
      <3>1. RequestFits(req[p])
        BY DEF RequestsFit
      <3> QED BY <2>1, <3>1, Disturbance DEF RequestFits
    <2>3. req' \in [Requests -> RequestRow]
      BY <2>1, <2>2 DEF Disturb
    <2> QED BY <1>5, <2>2, <2>3 DEF Operates, TypeOK, RequestsFit
  <1>6. CASE Idles
    <2>1. RequestsFit'
      BY <1>6 DEF Idles, RequestsFit
    <2> QED BY <1>6, <2>1 DEF Idles, TypeOK
  <1> QED BY <1>1, <1>2, <1>3, <1>4, <1>5, <1>6 DEF StepKinds

LEMMA TypeInit ==
  ASSUME Init
  PROVE  TypeOK /\ RequestsFit
  <1>1. Fresh \in RequestRow
    <2> DEFINE Pcs == {"new", "admit", "lookup", "scenario", "quota", "verify", "inject", "handle", "done"}
               Ops == Operations \cup {"none"}
               Bodies == Scenarios \cup {NoFaults}
               Minutes == 0 .. MaxMinute
    <2>1. RequestRow = [pc : Pcs, op : Ops, flaw : AllFlaws, scenario : Bodies, late : BOOLEAN,
                        charged : BOOLEAN, window : Minutes, answer : Answers, work : Works,
                        dead : BOOLEAN, disturbed : BOOLEAN]
      BY DEF RequestRow, Answers, Works
    <2>2. /\ "new" \in Pcs /\ "none" \in Ops /\ NoFaults \in Bodies
          /\ 0 \in Minutes /\ "none" \in Works /\ NotAnswered \in Answers /\ "none" \in AllFlaws
      BY GatewayAssumption DEF Works, NotAnswered, Answers, AllFlaws
    <2> HIDE DEF Pcs, Ops, Bodies, Minutes
    <2> QED BY <2>1, <2>2 DEF Fresh
  <1>2. RequestFits(Fresh)
    BY DEF Fresh, RequestFits, Steps
  <1>3. RequestsFit /\ req \in [Requests -> RequestRow]
    BY <1>1, <1>2 DEF Init, RequestsFit
  <1>4. counter \in [Contracts -> [0 .. MaxMinute -> Nat]]
    BY DEF Init
  <1>5. minute \in 0 .. MaxMinute /\ edits \in 0 .. MaxEdits /\ failed \subseteq Requests
    BY GatewayAssumption DEF Init
  <1>6. profile \in {"SHOPEE_LIKE", "TOKOPEDIA_LIKE"} /\ maintenance \in BOOLEAN
        /\ credential \in {"NONE", "ACTIVE", "REVOKED", "DELETED"} /\ scenario \in Scenarios \cup {NoFaults}
    BY DEF Init
  <1> QED BY <1>3, <1>4, <1>5, <1>6 DEF TypeOK

(* Every variable keeps its type, and no provider's error code is ever sent as an HTTP *)
(* status, whatever the requests, scenarios, edits and faults.                         *)
THEOREM GatewayTypeCorrect == Spec => []TypeOK
  <1>1. Init => TypeOK /\ RequestsFit
    BY TypeInit
  <1>2. TypeOK /\ RequestsFit /\ [Next]_vars => (TypeOK /\ RequestsFit)'
    BY NextKinds, TypeStep
  <1> QED BY <1>1, <1>2, PTL DEF Spec

-----------------------------------------------------------------------------
(* Dead credentials, and what answers tell *)

Dead == {"REVOKED", "DELETED"}

(* A request that came with a dead credential gets no further than the lookup. *)
DeadFits(q) ==
  q.dead => /\ credential \in Dead
            /\ q.pc \in {"admit", "lookup", "done"} /\ q.work = "none" /\ ~Success2xx(q.answer)

OutcomeFits(p, q) == q.pc = "done" => EndFits(q.op, q.flaw, q.answer, q.work, p \in failed)

OutcomesFit == \A p \in Requests : DeadFits(req[p]) /\ OutcomeFits(p, req[p])

(* A failing statement that comes later takes nothing back. *)
LEMMA FitsLater ==
  ASSUME NEW op, NEW flaw, NEW a, NEW w, NEW f \in BOOLEAN, NEW g \in BOOLEAN, f => g,
         EndFits(op, flaw, a, w, f)
  PROVE  EndFits(op, flaw, a, w, g)
  BY DEF EndFits

LEMMA OutcomeStep ==
  ASSUME TypeOK, RequestsFit, OutcomesFit, StepKinds
  PROVE  OutcomesFit'
  <1> SUFFICES ASSUME NEW p \in Requests
               PROVE  /\ req'[p].dead => /\ credential' \in Dead
                                         /\ req'[p].pc \in {"admit", "lookup", "done"}
                                         /\ req'[p].work = "none" /\ ~Success2xx(req'[p].answer)
                      /\ req'[p].pc = "done" =>
                           EndFits(req'[p].op, req'[p].flaw, req'[p].answer, req'[p].work, p \in failed')
    BY DEF OutcomesFit, DeadFits, OutcomeFits
  <1> DEFINE q == req[p]
             e == req'[p]
             After(x) == x.pc = "done" => EndFits(x.op, x.flaw, x.answer, x.work, p \in failed')
             Goal == /\ e.dead => /\ credential' \in Dead
                                  /\ e.pc \in {"admit", "lookup", "done"}
                                  /\ e.work = "none" /\ ~Success2xx(e.answer)
                     /\ After(e)
  <1>1. DeadFits(q) /\ OutcomeFits(p, q)
    BY DEF OutcomesFit
  <1>2. \A r \in Requests : \A z : req' = [req EXCEPT ![r] = z] => e = IF p = r THEN z ELSE q
    BY DEF TypeOK
  <1>a. ASSUME failed \subseteq failed' PROVE After(q)
    <2> SUFFICES ASSUME q.pc = "done"
                 PROVE  EndFits(q.op, q.flaw, q.answer, q.work, p \in failed')
      OBVIOUS
    <2>1. EndFits(q.op, q.flaw, q.answer, q.work, p \in failed)
      BY <1>1 DEF OutcomeFits
    <2> DEFINE f == p \in failed
               g == p \in failed'
    <2>2. f \in BOOLEAN /\ g \in BOOLEAN /\ (f => g)
      BY <1>a
    <2>3. EndFits(q.op, q.flaw, q.answer, q.work, f)
      BY <2>1
    <2> HIDE DEF f, g
    <2>4. EndFits(q.op, q.flaw, q.answer, q.work, g)
      BY <2>2, <2>3, FitsLater
    <2> QED BY <2>4 DEF g
  <1>3. ASSUME e = q, credential' = credential, failed \subseteq failed' PROVE Goal
    BY <1>1, <1>3, <1>a DEF DeadFits
  <1>4. ASSUME NEW r \in Requests, Sends(r) PROVE Goal
    <2>1. PICK z \in RequestRow : SendsBy(r, z)
      BY <1>4 DEF Sends
    <2>2. e = (IF p = r THEN z ELSE q) /\ credential' = credential /\ failed \subseteq failed'
      BY <1>2, <2>1 DEF SendsBy
    <2>3. CASE p = r
      <3>1. z.dead => credential \in Dead
        BY <2>1 DEF SendsBy, Dead
      <3>2. z.pc = "admit" /\ z.work = "none" /\ z.answer = NotAnswered
        BY <2>1 DEF SendsBy
      <3>3. ~Success2xx(NotAnswered)
        BY DEF Success2xx, NotAnswered
      <3> QED BY <2>2, <2>3, <3>1, <3>2, <3>3
    <2> QED BY <1>3, <2>2, <2>3
  <1>5. ASSUME NEW r \in Requests, Ends(r) PROVE Goal
    <2>1. PICK z \in RequestRow, a \in Answers, w \in Works, d \in BOOLEAN : EndsBy(r, z, a, w, d)
      BY <1>5 DEF Ends
    <2>2. e = (IF p = r THEN z ELSE q) /\ credential' = credential /\ failed \subseteq failed'
      BY <1>2, <2>1 DEF EndsBy
    <2>3. CASE p = r
      BY <1>1, <2>1, <2>2, <2>3 DEF EndsBy, Ended, DeadFits, Open, Steps
    <2> QED BY <1>3, <2>2, <2>3
  <1>6. ASSUME NEW r \in Requests, Passes(r) PROVE Goal
    <2>1. PICK z \in RequestRow : PassesBy(r, z)
      BY <1>6 DEF Passes
    <2>2. e = (IF p = r THEN z ELSE q) /\ credential' = credential /\ failed \subseteq failed'
      BY <1>2, <2>1 DEF PassesBy
    <2>3. CASE p = r
      <3>1. /\ z.dead = q.dead /\ z.work = q.work /\ z.answer = q.answer /\ q.pc \in Steps
            /\ q.pc = "lookup" => credential \notin Dead
            /\ z.pc = Following[q.pc]
        BY <2>1, <2>3 DEF PassesBy, Goes, Dead
      <3>2. q.pc = "admit" => z.pc = "lookup"
        BY <3>1 DEF Following
      <3>3. z.pc # "done"
        BY <3>1 DEF Following, Steps
      <3> QED BY <1>1, <2>2, <2>3, <3>1, <3>2, <3>3 DEF DeadFits, Steps
    <2> QED BY <1>3, <2>2, <2>3
  <1>7. ASSUME NEW r \in Requests, Reaches(r) PROVE Goal
    <2>1. PICK z \in RequestRow : ReachesBy(r, z)
      BY <1>7 DEF Reaches
    <2>2. e = (IF p = r THEN z ELSE q) /\ credential' = credential /\ failed \subseteq failed'
      BY <1>2, <2>1 DEF ReachesBy
    <2>3. CASE p = r
      BY <1>1, <2>1, <2>2, <2>3 DEF ReachesBy, Goes, DeadFits
    <2> QED BY <1>3, <2>2, <2>3
  <1>8. CASE Operates
    <2>1. /\ e.pc = q.pc /\ e.op = q.op /\ e.answer = q.answer /\ e.work = q.work /\ e.dead = q.dead
          /\ e.flaw = q.flaw /\ failed \subseteq failed'
      BY <1>8, Disturbance DEF Operates
    <2>2. credential \in Dead => credential' \in Dead
      BY <1>8 DEF Operates, Dead
    <2> QED BY <1>1, <1>a, <2>1, <2>2 DEF DeadFits
  <1>9. CASE Idles
    <2>1. e = q /\ failed \subseteq failed'
      BY <1>9 DEF Idles
    <2>2. credential \in Dead => credential' \in Dead
      BY <1>9 DEF Idles, Dead
    <2> QED BY <1>1, <1>a, <2>1, <2>2 DEF DeadFits
  <1> QED BY <1>4, <1>5, <1>6, <1>7, <1>8, <1>9 DEF StepKinds

LEMMA OutcomeInvariant == Spec => [](TypeOK /\ RequestsFit /\ OutcomesFit)
  <1> DEFINE Inv == TypeOK /\ RequestsFit /\ OutcomesFit
  <1>1. Init => Inv
    <2> SUFFICES ASSUME Init PROVE Inv
      OBVIOUS
    <2>1. \A p \in Requests : req[p] = Fresh
      BY DEF Init
    <2>2. DeadFits(Fresh) /\ \A p \in Requests : OutcomeFits(p, Fresh)
      BY DEF Fresh, DeadFits, OutcomeFits
    <2> QED BY <2>1, <2>2, TypeInit DEF OutcomesFit
  <1>2. Inv /\ [Next]_vars => Inv'
    BY NextKinds, TypeStep, OutcomeStep
  <1> QED BY <1>1, <1>2, PTL DEF Spec

(* A request whose credential was revoked, or deleted by a reset, before it arrived is *)
(* neither executed nor answered from a stored response, under any of the contracts    *)
(* and whatever else operators do meanwhile.                                           *)
THEOREM DeadCredentialsServeNothing == Spec => []DeadCredentialServesNothing
  <1>1. TypeOK /\ RequestsFit /\ OutcomesFit => DeadCredentialServesNothing
    BY DEF OutcomesFit, DeadFits, DeadCredentialServesNothing, Success2xx, Succeeded
  <1> QED BY <1>1, OutcomeInvariant, PTL

(* With a server that closes its connections before the injected timeout is over, as    *)
(* with the default of 30 s for 35 s, a success was executed; and a refusal was not, but *)
(* for a mutation that met a failing statement of its own and answers with the error of *)
(* its COMMIT or of its response's storing.                                             *)
THEOREM AnswersTellOutcome ==
  ASSUME RequestLifetime < SimulatedTimeout
  PROVE  Spec => []AnswerTellsOutcome
  <1>1. TypeOK /\ RequestsFit /\ OutcomesFit => AnswerTellsOutcome
    BY DEF OutcomesFit, OutcomeFits, EndFits, AnswerTellsOutcome, Success2xx, Succeeded, Done,
           Worked, WorkDone
  <1> QED BY <1>1, OutcomeInvariant, PTL

-----------------------------------------------------------------------------
(* Quotas *)

Charged(c, m) ==
  {p \in Requests : req[p].charged /\ req[p].window = m /\ ContractOf[req[p].op] = c}

(* The inductive invariant: no more requests are marked as charged than Redis counted, *)
(* and no more than the limit are.                                                     *)
QuotasFit ==
  \A c \in Contracts, m \in 0 .. MaxMinute :
    Cardinality(Charged(c, m)) <= counter[c][m] /\ Cardinality(Charged(c, m)) <= RateLimitPerMinute

LEMMA ChargedFinite ==
  ASSUME NEW c, NEW m
  PROVE  IsFiniteSet(Charged(c, m)) /\ Cardinality(Charged(c, m)) \in Nat
  <1>1. Charged(c, m) \subseteq Requests
    BY DEF Charged
  <1> QED BY <1>1, GatewayAssumption, FS_Subset, FS_CardinalityType

(* A step that charges nobody. *)
Uncharging ==
  \A p \in Requests : req'[p].charged =>
    req[p].charged /\ req'[p].window = req[p].window /\ req'[p].op = req[p].op

LEMMA QuotaKept ==
  ASSUME TypeOK, QuotasFit, Uncharging, counter' \in CounterType, CountersGrow
  PROVE  QuotasFit'
  <1> DEFINE After(c, m) ==
               {p \in Requests : req'[p].charged /\ req'[p].window = m /\ ContractOf[req'[p].op] = c}
  <1> SUFFICES ASSUME NEW c \in Contracts, NEW m \in 0 .. MaxMinute
               PROVE  /\ Cardinality(After(c, m)) <= counter'[c][m]
                      /\ Cardinality(After(c, m)) <= RateLimitPerMinute
    BY DEF QuotasFit, Charged
  <1>1. After(c, m) \subseteq Charged(c, m)
    BY DEF Uncharging, Charged
  <1>2. IsFiniteSet(Charged(c, m)) /\ Cardinality(Charged(c, m)) \in Nat
    BY ChargedFinite
  <1>3. Cardinality(After(c, m)) <= Cardinality(Charged(c, m)) /\ Cardinality(After(c, m)) \in Nat
    BY <1>1, <1>2, FS_Subset, FS_CardinalityType
  <1>4. /\ Cardinality(Charged(c, m)) <= counter[c][m]
        /\ Cardinality(Charged(c, m)) <= RateLimitPerMinute
    BY DEF QuotasFit
  <1>5. /\ counter[c][m] <= counter'[c][m] /\ counter[c][m] \in Nat /\ counter'[c][m] \in Nat
        /\ RateLimitPerMinute \in Nat
    BY GatewayAssumption DEF CountersGrow, CounterType, TypeOK
  <1> HIDE DEF After
  <1> QED BY <1>2, <1>3, <1>4, <1>5

(* The step that charges r: it was not charged, and it was counted. *)
LEMMA QuotaTaken ==
  ASSUME TypeOK, QuotasFit, NEW r \in Requests, NEW e, req' = [req EXCEPT ![r] = e],
         req[r].op \in Operations, e.op = req[r].op, ~req[r].charged, e.window = minute,
         Counted(r), Count(r) <= RateLimitPerMinute
  PROVE  QuotasFit'
  <1> DEFINE After(c, m) ==
               {p \in Requests : req'[p].charged /\ req'[p].window = m /\ ContractOf[req'[p].op] = c}
             k == ContractOf[req[r].op]
             n == Count(r)
  <1> SUFFICES ASSUME NEW c \in Contracts, NEW m \in 0 .. MaxMinute
               PROVE  /\ Cardinality(After(c, m)) <= counter'[c][m]
                      /\ Cardinality(After(c, m)) <= RateLimitPerMinute
    BY DEF QuotasFit, Charged
  <1>1. \A p \in Requests : req'[p] = IF p = r THEN e ELSE req[p]
    BY DEF TypeOK
  <1>2. k \in Contracts /\ minute \in 0 .. MaxMinute /\ n = counter[k][minute] + 1
    BY EveryOperationRouted DEF Count, ContractOfRequest, TypeOK
  <1>3. counter' = [counter EXCEPT ![k][minute] = n]
    BY DEF Counted, ContractOfRequest
  <1>4. /\ counter[c][m] \in Nat /\ RateLimitPerMinute \in Nat
    BY GatewayAssumption DEF TypeOK
  <1>5. IsFiniteSet(Charged(c, m)) /\ Cardinality(Charged(c, m)) \in Nat
    BY ChargedFinite
  <1>6. /\ Cardinality(Charged(c, m)) <= counter[c][m]
        /\ Cardinality(Charged(c, m)) <= RateLimitPerMinute
    BY DEF QuotasFit
  <1>7. CASE c = k /\ m = minute
    <2>1. After(c, m) \subseteq Charged(c, m) \cup {r}
      BY <1>1 DEF Charged
    <2>2. r \notin Charged(c, m)
      BY DEF Charged
    <2>3. /\ IsFiniteSet(Charged(c, m) \cup {r})
          /\ Cardinality(Charged(c, m) \cup {r}) = Cardinality(Charged(c, m)) + 1
      BY <1>5, <2>2, FS_AddElement
    <2>4. Cardinality(After(c, m)) <= Cardinality(Charged(c, m) \cup {r})
          /\ Cardinality(After(c, m)) \in Nat
      BY <2>1, <2>3, FS_Subset, FS_CardinalityType
    <2>5. counter'[c][m] = n /\ n = counter[c][m] + 1 /\ n <= RateLimitPerMinute
      BY <1>2, <1>3, <1>7 DEF TypeOK
    <2> HIDE DEF After, n
    <2> QED BY <1>4, <1>5, <1>6, <2>3, <2>4, <2>5
  <1>8. CASE ~(c = k /\ m = minute)
    <2>1. After(c, m) \subseteq Charged(c, m)
      BY <1>1, <1>8 DEF Charged
    <2>2. Cardinality(After(c, m)) <= Cardinality(Charged(c, m)) /\ Cardinality(After(c, m)) \in Nat
      BY <1>5, <2>1, FS_Subset, FS_CardinalityType
    <2>3. counter'[c][m] = counter[c][m]
      BY <1>2, <1>3, <1>8 DEF TypeOK
    <2> HIDE DEF After
    <2> QED BY <1>4, <1>5, <1>6, <2>2, <2>3
  <1> QED BY <1>7, <1>8

(* What a step that changes one row does to the other rows. *)
LEMMA OtherRows ==
  ASSUME TypeOK, NEW r \in Requests, NEW e, req' = [req EXCEPT ![r] = e]
  PROVE  \A p \in Requests : req'[p] = IF p = r THEN e ELSE req[p]
  BY DEF TypeOK

LEMMA CountersKept ==
  ASSUME TypeOK, UNCHANGED counter
  PROVE  counter' \in CounterType /\ CountersGrow
  <1>1. \A c \in Contracts, m \in 0 .. MaxMinute : counter[c][m] \in Nat
    BY DEF TypeOK
  <1>2. \A c \in Contracts, m \in 0 .. MaxMinute : counter[c][m] <= counter'[c][m]
    BY <1>1
  <1> QED BY <1>2 DEF CountersGrow, CounterType, TypeOK

LEMMA QuotaStep ==
  ASSUME TypeOK, RequestsFit, QuotasFit, StepKinds
  PROVE  QuotasFit'
  <1>1. ASSUME NEW r \in Requests, Sends(r) PROVE QuotasFit'
    <2>1. PICK e \in RequestRow : SendsBy(r, e)
      BY <1>1 DEF Sends
    <2>2. Uncharging
      BY <2>1, OtherRows DEF SendsBy, Uncharging
    <2> QED BY <2>1, <2>2, CountersKept, QuotaKept DEF SendsBy
  <1>2. ASSUME NEW r \in Requests, Ends(r) PROVE QuotasFit'
    <2>1. PICK e \in RequestRow, a \in Answers, w \in Works, d \in BOOLEAN : EndsBy(r, e, a, w, d)
      BY <1>2 DEF Ends
    <2>2. Uncharging
      BY <2>1, OtherRows DEF EndsBy, Ended, Uncharging
    <2>3. req[r].op \in Operations
      BY <2>1 DEF EndsBy, RequestsFit, RequestFits, Open, Steps
    <2> QED BY <2>1, <2>2, <2>3, CountersGrew, QuotaKept DEF EndsBy
  <1>3. ASSUME NEW r \in Requests, Passes(r) PROVE QuotasFit'
    <2>1. PICK e \in RequestRow : PassesBy(r, e)
      BY <1>3 DEF Passes
    <2>2. req[r].op \in Operations
      BY <2>1 DEF PassesBy, RequestsFit, RequestFits, Steps
    <2>3. CASE e.charged /\ ~req[r].charged
      BY <2>1, <2>2, <2>3, QuotaTaken DEF PassesBy, Goes
    <2>4. CASE e.charged => req[r].charged
      <3>1. e.charged => req[r].charged /\ e.window = req[r].window
        BY <2>1, <2>4 DEF PassesBy
      <3>2. Uncharging
        BY <2>1, <3>1, OtherRows DEF PassesBy, Goes, Uncharging
      <3> QED BY <2>1, <2>2, <3>2, CountersGrew, QuotaKept DEF PassesBy
    <2> QED BY <2>3, <2>4
  <1>4. ASSUME NEW r \in Requests, Reaches(r) PROVE QuotasFit'
    <2>1. PICK e \in RequestRow : ReachesBy(r, e)
      BY <1>4 DEF Reaches
    <2>2. Uncharging
      BY <2>1, OtherRows DEF ReachesBy, Goes, Uncharging
    <2> QED BY <2>1, <2>2, CountersKept, QuotaKept DEF ReachesBy
  <1>5. CASE Operates
    <2>1. Uncharging
      BY <1>5, Disturbance DEF Operates, Uncharging
    <2> QED BY <1>5, <2>1, CountersKept, QuotaKept DEF Operates
  <1>6. CASE Idles
    <2>1. Uncharging
      BY <1>6 DEF Idles, Uncharging
    <2> QED BY <1>6, <2>1, CountersKept, QuotaKept DEF Idles
  <1> QED BY <1>1, <1>2, <1>3, <1>4, <1>5, <1>6 DEF StepKinds

(* Of the requests of one contract that a minute's counter charged, no more than the    *)
(* limit get past the quota, for any number of requests and any limit.                  *)
THEOREM QuotasHold == Spec => []QuotaHolds
  <1> DEFINE Inv == TypeOK /\ RequestsFit /\ QuotasFit
  <1>1. Init => Inv
    <2> SUFFICES ASSUME Init PROVE Inv
      OBVIOUS
    <2>1. \A c, m : Charged(c, m) = {}
      BY DEF Init, Fresh, Charged
    <2>2. Cardinality({}) = 0
      BY FS_EmptySet
    <2>3. \A c \in Contracts, m \in 0 .. MaxMinute : counter[c][m] = 0
      BY DEF Init
    <2>4. \A c \in Contracts, m \in 0 .. MaxMinute : Cardinality(Charged(c, m)) = 0
      BY <2>1, <2>2
    <2>5. 0 <= RateLimitPerMinute
      BY GatewayAssumption
    <2>6. QuotasFit
      BY <2>3, <2>4, <2>5 DEF QuotasFit
    <2> QED BY <2>6, TypeInit
  <1>2. Inv /\ [Next]_vars => Inv'
    BY NextKinds, TypeStep, QuotaStep
  <1>3. Inv => QuotaHolds
    BY DEF QuotasFit, Charged, QuotaHolds, ContractOfRequest
  <1> QED BY <1>1, <1>2, <1>3, PTL DEF Spec

-----------------------------------------------------------------------------
(* Undisturbed requests *)

(* RightProfile of a request of operation op, and a quota that is spent. *)
ProfileFor(op, shop) ==
  CASE ContractOf[op] = "shared" -> TRUE
    [] ContractOf[op] = "shopee" -> shop = "SHOPEE_LIKE"
    [] ContractOf[op] = "tokopedia" -> shop = "TOKOPEDIA_LIKE"

LEMMA Profiles ==
  ASSUME NEW r
  PROVE  RightProfile(r) = ProfileFor(req[r].op, profile)
  BY DEF RightProfile, ProfileFor, ContractOfRequest

Spent(op) == \E m \in 0 .. minute : counter[ContractOf[op]][m] > RateLimitPerMinute

(* While nothing disturbs a request, nothing stands in its way; and what it is answered *)
(* then is not a refusal, unless its quota is spent.                                    *)
PathClear(q) ==
  q.pc \notin {"new", "done"} /\ ~q.disturbed => Undisturbed /\ q.scenario = NoFaults /\ ~q.late

WasServed(q) ==
  q.pc = "done" /\ ~q.disturbed /\ q.flaw = "none" /\ ProfileFor(q.op, profile) =>
    \/ q.work # "none" /\ (Success2xx(q.answer) \/ q.answer.status \in {400, 404, 409})
    \/ q.answer.status = 429 /\ Spent(q.op)

ServedFits == \A p \in Requests : PathClear(req[p]) /\ WasServed(req[p])

(* A quota that is spent remains so. *)
LEMMA SpentRemains ==
  ASSUME TypeOK, CountersGrow, counter' \in CounterType, minute' \in 0 .. MaxMinute, minute <= minute',
         NEW op \in Operations, Spent(op)
  PROVE  \E m \in 0 .. minute' : counter'[ContractOf[op]][m] > RateLimitPerMinute
  <1> DEFINE c == ContractOf[op]
  <1>1. c \in Contracts
    BY EveryOperationRouted
  <1>2. PICK m \in 0 .. minute : counter[c][m] > RateLimitPerMinute
    BY DEF Spent
  <1>3. m \in 0 .. MaxMinute /\ m \in 0 .. minute'
    BY <1>2, GatewayAssumption DEF TypeOK
  <1>4. /\ counter[c][m] \in Nat /\ counter'[c][m] \in Nat /\ RateLimitPerMinute \in Nat
        /\ counter[c][m] <= counter'[c][m]
    BY <1>1, <1>3, GatewayAssumption DEF TypeOK, CounterType, CountersGrow
  <1> HIDE DEF c
  <1>5. counter'[c][m] > RateLimitPerMinute
    BY <1>2, <1>4
  <1> QED BY <1>3, <1>5 DEF c

(* What every kind of step leaves of the clock, the counters and the shop. *)
LEMMA ClockAdvances ==
  ASSUME TypeOK, RequestsFit, StepKinds
  PROVE  /\ counter' \in CounterType /\ CountersGrow /\ profile' = profile
         /\ minute' \in 0 .. MaxMinute /\ minute <= minute'
  <1> DEFINE Goal == /\ counter' \in CounterType /\ CountersGrow /\ profile' = profile
                     /\ minute' \in 0 .. MaxMinute /\ minute <= minute'
  <1>1. minute \in 0 .. MaxMinute /\ minute <= minute
    BY GatewayAssumption DEF TypeOK
  <1>2. ASSUME NEW r \in Requests, Sends(r) \/ Reaches(r) PROVE Goal
    BY <1>1, <1>2, CountersKept DEF Sends, SendsBy, Reaches, ReachesBy
  <1>3. ASSUME NEW r \in Requests, Ends(r) PROVE Goal
    <2>1. PICK e \in RequestRow, a \in Answers, w \in Works, d \in BOOLEAN : EndsBy(r, e, a, w, d)
      BY <1>3 DEF Ends
    <2>2. req[r].op \in Operations
      BY <2>1 DEF EndsBy, RequestsFit, RequestFits, Open, Steps
    <2> QED BY <1>1, <2>1, <2>2, CountersGrew DEF EndsBy
  <1>4. ASSUME NEW r \in Requests, Passes(r) PROVE Goal
    <2>1. PICK e \in RequestRow : PassesBy(r, e)
      BY <1>4 DEF Passes
    <2>2. req[r].op \in Operations
      BY <2>1 DEF PassesBy, RequestsFit, RequestFits, Steps
    <2> QED BY <1>1, <2>1, <2>2, CountersGrew DEF PassesBy
  <1>5. CASE Operates
    BY <1>1, <1>5, CountersKept DEF Operates
  <1>6. CASE Idles
    BY <1>6, CountersKept DEF Idles
  <1> QED BY <1>2, <1>3, <1>4, <1>5, <1>6 DEF StepKinds

LEMMA ServedStep ==
  ASSUME TypeOK, RequestsFit, ServedFits, StepKinds
  PROVE  ServedFits'
  <1> DEFINE SpentAfter(op) == \E m \in 0 .. minute' : counter'[ContractOf[op]][m] > RateLimitPerMinute
             Free == credential' = "ACTIVE" /\ ~maintenance' /\ scenario' = NoFaults
             PathAfter(e) == e.pc \notin {"new", "done"} /\ ~e.disturbed =>
                               Free /\ e.scenario = NoFaults /\ ~e.late
             ServedAfter(e) == e.pc = "done" /\ ~e.disturbed /\ e.flaw = "none" /\ ProfileFor(e.op, profile') =>
                                 \/ e.work # "none" /\ (Success2xx(e.answer) \/ e.answer.status \in {400, 404, 409})
                                 \/ e.answer.status = 429 /\ SpentAfter(e.op)
  <1> SUFFICES ASSUME NEW p \in Requests
               PROVE  PathAfter(req'[p]) /\ ServedAfter(req'[p])
    BY DEF ServedFits, PathClear, WasServed, Undisturbed, Spent
  <1> DEFINE q == req[p]
             z == req'[p]
             Goal == PathAfter(z) /\ ServedAfter(z)
  <1>1. PathClear(q) /\ WasServed(q) /\ (q.pc # "new" => q.op \in Operations)
    BY DEF ServedFits, RequestsFit, RequestFits
  <1>2. /\ counter' \in CounterType /\ CountersGrow /\ profile' = profile
        /\ minute' \in 0 .. MaxMinute /\ minute <= minute'
    BY ClockAdvances
  <1>3. q.pc # "new" /\ Spent(q.op) => SpentAfter(q.op)
    BY <1>1, <1>2, SpentRemains
  <1>4. ServedAfter(q)
    BY <1>1, <1>2, <1>3 DEF WasServed
  <1>5. ASSUME z = q, UNCHANGED <<credential, maintenance, scenario>> PROVE Goal
    BY <1>1, <1>4, <1>5 DEF PathClear, Undisturbed
  <1>6. ASSUME NEW r \in Requests, Sends(r) PROVE Goal
    <2>1. PICK e \in RequestRow : SendsBy(r, e)
      BY <1>6 DEF Sends
    <2>2. z = (IF p = r THEN e ELSE q) /\ UNCHANGED <<credential, maintenance, scenario>>
      BY <2>1, OtherRows DEF SendsBy
    <2>3. PathAfter(e) /\ ServedAfter(e)
      BY <2>1, <2>2 DEF SendsBy, Undisturbed
    <2> QED BY <1>5, <2>2, <2>3
  <1>7. ASSUME NEW r \in Requests, Ends(r) PROVE Goal
    <2>1. PICK e \in RequestRow, a \in Answers, w \in Works, d \in BOOLEAN : EndsBy(r, e, a, w, d)
      BY <1>7 DEF Ends
    <2>2. z = (IF p = r THEN e ELSE q) /\ UNCHANGED <<credential, maintenance, scenario>>
      BY <2>1, OtherRows DEF EndsBy
    <2>3. CASE p = r
      <3>1. PathAfter(e)
        BY <2>1 DEF EndsBy, Ended
      <3>2. SUFFICES ASSUME ~e.disturbed, e.flaw = "none", ProfileFor(e.op, profile')
                     PROVE  \/ e.work # "none" /\ (Success2xx(e.answer) \/ e.answer.status \in {400, 404, 409})
                            \/ e.answer.status = 429 /\ SpentAfter(e.op)
        BY <2>2, <2>3, <3>1
      <3>3. /\ e.answer = a /\ e.work = w /\ e.op = q.op /\ q.flaw = "none" /\ ~d /\ ~q.disturbed
            /\ q.pc \notin {"new", "done"} /\ q.op \in Operations
        BY <1>1, <2>1, <2>3, <3>2 DEF EndsBy, Ended, Open, Steps
      <3>4. /\ credential = "ACTIVE" /\ ~maintenance /\ scenario = NoFaults
            /\ q.scenario = NoFaults /\ ~q.late
        BY <1>1, <3>3 DEF PathClear, Undisturbed
      <3>5. RightProfile(r)
        BY <1>2, <2>3, <3>2, <3>3, Profiles
      <3>6. Sound(r)
        BY <2>3, <3>3, <3>4, <3>5 DEF Sound
      <3>7. Served(r, a, w)
        BY <2>1, <2>3, <3>3, <3>4, <3>6 DEF EndsBy
      <3>8. CASE a.status = 429 /\ Counted(r) /\ Count(r) > RateLimitPerMinute
        <4> DEFINE c == ContractOf[q.op]
                   n == Count(r)
        <4>1. c \in Contracts /\ minute \in 0 .. MaxMinute
          BY <3>3, EveryOperationRouted DEF TypeOK
        <4>2. counter' = [counter EXCEPT ![c][minute] = n]
          BY <2>3, <3>8 DEF Counted, ContractOfRequest
        <4> HIDE DEF c, n
        <4>3. counter'[c][minute] = n
          BY <4>1, <4>2 DEF TypeOK
        <4>4. minute \in 0 .. minute'
          BY <1>2, <4>1
        <4> QED BY <3>3, <3>8, <4>3, <4>4 DEF c, n
      <3> QED BY <3>3, <3>7, <3>8 DEF Served
    <2> QED BY <1>5, <2>2, <2>3
  <1>8. ASSUME NEW r \in Requests, Passes(r) PROVE Goal
    <2>1. PICK e \in RequestRow : PassesBy(r, e)
      BY <1>8 DEF Passes
    <2>2. z = (IF p = r THEN e ELSE q) /\ UNCHANGED <<credential, maintenance, scenario>>
      BY <2>1, OtherRows DEF PassesBy
    <2>3. CASE p = r
      <3>1. ~e.disturbed => ~q.disturbed /\ q.pc \notin {"new", "done"}
        BY <2>1, <2>3 DEF PassesBy, Steps
      <3>2. PathAfter(e)
        BY <1>1, <2>1, <2>2, <2>3, <3>1 DEF PassesBy, PathClear, Undisturbed
      <3>3. e.pc # "done"
        BY <2>1 DEF PassesBy, Following, Steps
      <3> QED BY <2>2, <2>3, <3>2, <3>3
    <2> QED BY <1>5, <2>2, <2>3
  <1>9. ASSUME NEW r \in Requests, Reaches(r) PROVE Goal
    <2>1. PICK e \in RequestRow : ReachesBy(r, e)
      BY <1>9 DEF Reaches
    <2>2. z = (IF p = r THEN e ELSE q) /\ UNCHANGED <<credential, maintenance, scenario>>
      BY <2>1, OtherRows DEF ReachesBy
    <2>3. CASE p = r
      <3>1. PathAfter(e) /\ ServedAfter(e)
        BY <1>1, <2>1, <2>2, <2>3 DEF ReachesBy, PathClear, Undisturbed
      <3> QED BY <2>2, <2>3, <3>1
    <2> QED BY <1>5, <2>2, <2>3
  <1>10. CASE Operates
    <2>1. IF q.pc \in {"new", "done"} THEN z = q ELSE z.disturbed = TRUE /\ z.pc = q.pc
      BY <1>10, Disturbance DEF Operates
    <2> QED BY <1>4, <2>1
  <1>11. CASE Idles
    <2>1. z = q /\ UNCHANGED <<maintenance, scenario>> /\ (credential = "ACTIVE" => credential' = "ACTIVE")
      BY <1>11 DEF Idles
    <2>2. PathAfter(q)
      BY <1>1, <2>1 DEF PathClear, Undisturbed
    <2> QED BY <1>4, <2>1, <2>2
  <1> QED BY <1>6, <1>7, <1>8, <1>9, <1>10, <1>11 DEF StepKinds

(* A sound request that nothing disturbed reaches its handler or its key, unless its    *)
(* quota is spent: whatever was in force before it came leaves nothing behind.          *)
THEOREM UndisturbedAreServed == Spec => []UndisturbedRequestIsServed
  <1> DEFINE Inv == TypeOK /\ RequestsFit /\ ServedFits
  <1>1. Init => Inv
    <2> SUFFICES ASSUME Init PROVE Inv
      OBVIOUS
    <2>1. \A p \in Requests : req[p].pc = "new"
      BY DEF Init, Fresh
    <2> QED BY <2>1, TypeInit DEF ServedFits, PathClear, WasServed
  <1>2. Inv /\ [Next]_vars => Inv'
    BY NextKinds, TypeStep, ServedStep
  <1>3. Inv => UndisturbedRequestIsServed
    <2> SUFFICES ASSUME ServedFits, NEW r \in Requests, Done(r), ~req[r].disturbed,
                        req[r].flaw = "none", RightProfile(r)
                 PROVE  \/ /\ req[r].work # "none"
                           /\ Succeeded(r) \/ req[r].answer.status \in {400, 404, 409}
                        \/ /\ req[r].answer.status = 429
                           /\ \E m \in 0 .. minute : counter[ContractOfRequest(r)][m] > RateLimitPerMinute
      BY DEF UndisturbedRequestIsServed
    <2>1. WasServed(req[r]) /\ ProfileFor(req[r].op, profile)
      BY Profiles DEF ServedFits
    <2> QED BY <2>1 DEF WasServed, Done, Succeeded, Success2xx, Spent, ContractOfRequest
  <1> QED BY <1>1, <1>2, <1>3, PTL DEF Spec

(* The generated client and the server fit each other, for every operation: no call is  *)
(* turned away for its route; a sound one never for a missing key, nor, undisturbed and *)
(* on a shop of its profile, for its credential; and the client decodes the success,    *)
(* the refused credential, the conflict and the oversized body of every mutation.       *)
THEOREM ClientsFitServer == Spec => []ClientFitsServer
  <1>1. TypeOK /\ RequestsFit /\ OutcomesFit /\ UndisturbedRequestIsServed => ClientFitsServer
    <2> SUFFICES ASSUME OutcomesFit, UndisturbedRequestIsServed, NEW r \in Requests, Done(r)
                 PROVE  /\ req[r].answer # NoBody(404)
                        /\ req[r].flaw = "none" => req[r].answer # idempotencyError(400)
                        /\ req[r].flaw = "none" /\ ~req[r].disturbed /\ RightProfile(r) =>
                             req[r].answer.status # 401
                        /\ req[r].op \in Idempotent /\ req[r].answer.body # "none"
                             /\ (Succeeded(r) \/ req[r].answer.status \in {401, 409, 413}) =>
                             req[r].answer.status \in Client[req[r].op].decodes
      BY DEF ClientFitsServer
    <2>1. EndFits(req[r].op, req[r].flaw, req[r].answer, req[r].work, r \in failed)
      BY DEF OutcomesFit, OutcomeFits, Done
    <2>2. req[r].flaw = "none" /\ ~req[r].disturbed /\ RightProfile(r) => req[r].answer.status # 401
      BY DEF UndisturbedRequestIsServed, Succeeded
    <2> QED BY <2>1, <2>2 DEF EndFits, Succeeded, Success2xx
  <1> QED BY <1>1, OutcomeInvariant, UndisturbedAreServed, PTL

=============================================================================
