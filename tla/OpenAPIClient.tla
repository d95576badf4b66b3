---------------------------- MODULE OpenAPIClient ----------------------------
(***************************************************************************)
(* The generated Go client of the public API                               *)
(* (internal/api/openapi/client.gen.go): for each of its 25 public         *)
(* operations, the request its builder makes and the statuses whose JSON   *)
(* body its parser decodes.                                                *)
(*                                                                         *)
(* A builder serialises path, query and header parameters and returns the  *)
(* first error it meets; what the gateway tells requests apart by is the   *)
(* method, the path and which parameters are present, so this is what      *)
(* remains of it.  A parser keeps the body and decodes it into the typed   *)
(* field of its status; a status it has no case for, or a body that is not *)
(* JSON, leaves every typed field nil and is no error.                     *)
(***************************************************************************)
EXTENDS Naturals

\* The authentication parameters of the three contracts, headers and (for
\* Tokopedia) query parameters alike.
SharedSigned == {"X-Client-Id", "X-Timestamp", "X-Signature"}
ShopeeSigned ==
    {"X-Shopee-Partner-Id", "X-Shopee-Timestamp", "X-Shopee-Signature"}
TokopediaSigned == {"app_key", "timestamp", "sign", "x-tts-access-token"}

NewShopeeListOrdersRequest == [method |-> "GET",
    path |-> "/api/shopee/v1/orders",
    params |-> ShopeeSigned \cup {"page_no", "page_size", "order_status", "time_from", "time_to"}]
NewShopeeGetOrderRequest == [method |-> "GET",
    path |-> "/api/shopee/v1/orders/:id",
    params |-> ShopeeSigned]
(* Mutant: the header with the idempotency key is not set. *)
NewShopeeCancelOrderKeyless == [method |-> "POST",
    path |-> "/api/shopee/v1/orders/:id/cancel",
    params |-> ShopeeSigned]
NewShopeeCancelOrderRequest == [method |-> "POST",
    path |-> "/api/shopee/v1/orders/:id/cancel",
    params |-> ShopeeSigned \cup {"Idempotency-Key"}]
NewShopeeCreatePackageRequest == [method |-> "POST",
    path |-> "/api/shopee/v1/orders/:id/packages",
    params |-> ShopeeSigned \cup {"Idempotency-Key"}]
NewShopeeReadyToShipOrderRequest == [method |-> "POST",
    path |-> "/api/shopee/v1/orders/:id/ready-to-ship",
    params |-> ShopeeSigned \cup {"Idempotency-Key"}]
NewShopeeProcessOrderRequest == [method |-> "POST",
    path |-> "/api/shopee/v1/orders/:id/ship-order",
    params |-> ShopeeSigned \cup {"Idempotency-Key"}]
NewShopeeCreateShipmentRequest == [method |-> "POST",
    path |-> "/api/shopee/v1/orders/:id/shipments",
    params |-> ShopeeSigned \cup {"Idempotency-Key"}]
NewShopeeListProductsRequest == [method |-> "GET",
    path |-> "/api/shopee/v1/products",
    params |-> ShopeeSigned \cup {"page_no", "page_size", "item_status", "item_name"}]
NewShopeeGetProductRequest == [method |-> "GET",
    path |-> "/api/shopee/v1/products/:id",
    params |-> ShopeeSigned]
NewShopeeListWebhooksRequest == [method |-> "GET",
    path |-> "/api/shopee/v1/webhooks",
    params |-> ShopeeSigned]
NewShopeeCreateWebhookRequest == [method |-> "POST",
    path |-> "/api/shopee/v1/webhooks",
    params |-> ShopeeSigned \cup {"Idempotency-Key"}]
NewTokopediaSearchOrdersRequest == [method |-> "POST",
    path |-> "/api/tokopedia/v202309/orders/search",
    params |-> TokopediaSigned]
NewTokopediaGetOrderRequest == [method |-> "GET",
    path |-> "/api/tokopedia/v202309/orders/:id",
    params |-> TokopediaSigned]
NewTokopediaCancelOrderRequest == [method |-> "POST",
    path |-> "/api/tokopedia/v202309/orders/:id/cancel",
    params |-> TokopediaSigned \cup {"Idempotency-Key"}]
NewTokopediaHandoverOrderRequest == [method |-> "POST",
    path |-> "/api/tokopedia/v202309/orders/:id/handover",
    params |-> TokopediaSigned \cup {"Idempotency-Key"}]
NewTokopediaPackOrderRequest == [method |-> "POST",
    path |-> "/api/tokopedia/v202309/orders/:id/pack",
    params |-> TokopediaSigned \cup {"Idempotency-Key"}]
NewTokopediaCreateShipmentRequest == [method |-> "POST",
    path |-> "/api/tokopedia/v202309/orders/:id/shipments",
    params |-> TokopediaSigned \cup {"Idempotency-Key"}]
NewTokopediaSearchProductsRequest == [method |-> "POST",
    path |-> "/api/tokopedia/v202309/products/search",
    params |-> TokopediaSigned]
NewTokopediaGetProductRequest == [method |-> "GET",
    path |-> "/api/tokopedia/v202309/products/:id",
    params |-> TokopediaSigned]
NewTokopediaConfigureWebhooksRequest == [method |-> "PUT",
    path |-> "/api/tokopedia/v202309/webhooks",
    params |-> TokopediaSigned \cup {"Idempotency-Key"}]
NewListWarehousesRequest == [method |-> "GET",
    path |-> "/api/v1/warehouses",
    params |-> SharedSigned]
NewGetWarehouseRequest == [method |-> "GET",
    path |-> "/api/v1/warehouses/:id",
    params |-> SharedSigned]
NewListWebhooksRequest == [method |-> "GET",
    path |-> "/api/v1/webhooks",
    params |-> SharedSigned \cup {"page", "limit"}]
NewCreateWebhookRequest == [method |-> "POST",
    path |-> "/api/v1/webhooks",
    params |-> SharedSigned \cup {"Idempotency-Key"}]
NewDeleteWebhookRequest == [method |-> "DELETE",
    path |-> "/api/v1/webhooks/:id",
    params |-> SharedSigned \cup {"Idempotency-Key"}]

ParseShopeeListOrdersResponse == {200, 400, 401, 403, 429}
ParseShopeeGetOrderResponse == {200, 401, 404}
ParseShopeeCancelOrderResponse == {200, 400, 401, 409, 413}
ParseShopeeCreatePackageResponse == {200, 400, 401, 409, 413}
ParseShopeeReadyToShipOrderResponse == {200, 400, 401, 409, 413}
ParseShopeeProcessOrderResponse == {200, 400, 401, 409, 413}
ParseShopeeCreateShipmentResponse == {200, 400, 401, 409, 413}
ParseShopeeListProductsResponse == {200, 400, 401, 429}
ParseShopeeGetProductResponse == {200, 401, 404}
ParseShopeeListWebhooksResponse == {200, 401}
ParseShopeeCreateWebhookResponse == {200, 400, 401, 409, 413}
ParseTokopediaSearchOrdersResponse == {200, 400, 429}
ParseTokopediaGetOrderResponse == {200, 400, 429}
ParseTokopediaCancelOrderResponse == {200, 400, 401, 409, 413, 429}
ParseTokopediaHandoverOrderResponse == {200, 400, 401, 409, 413, 429}
ParseTokopediaPackOrderResponse == {200, 400, 401, 409, 413, 429}
ParseTokopediaCreateShipmentResponse == {200, 400, 401, 409, 413, 429}
ParseTokopediaSearchProductsResponse == {200, 400, 429}
ParseTokopediaGetProductResponse == {200, 400, 429}
ParseTokopediaConfigureWebhooksResponse == {200, 400, 401, 409, 413, 429}
ParseListWarehousesResponse == {200, 401, 429, 503}
ParseGetWarehouseResponse == {200, 401, 404, 429, 503}
ParseListWebhooksResponse == {200, 400, 401, 429, 503}
ParseCreateWebhookResponse == {201, 400, 401, 409, 413, 429, 503}
ParseDeleteWebhookResponse == {401, 404, 409, 413, 429, 503}

\* The operations by name: the request each sends and the statuses each decodes.
Client == [
    ShopeeListOrders |-> [request |-> NewShopeeListOrdersRequest,
        decodes |-> ParseShopeeListOrdersResponse],
    ShopeeGetOrder |-> [request |-> NewShopeeGetOrderRequest,
        decodes |-> ParseShopeeGetOrderResponse],
    ShopeeCancelOrder |-> [request |-> NewShopeeCancelOrderRequest,
        decodes |-> ParseShopeeCancelOrderResponse],
    ShopeeCreatePackage |-> [request |-> NewShopeeCreatePackageRequest,
        decodes |-> ParseShopeeCreatePackageResponse],
    ShopeeReadyToShipOrder |-> [request |-> NewShopeeReadyToShipOrderRequest,
        decodes |-> ParseShopeeReadyToShipOrderResponse],
    ShopeeProcessOrder |-> [request |-> NewShopeeProcessOrderRequest,
        decodes |-> ParseShopeeProcessOrderResponse],
    ShopeeCreateShipment |-> [request |-> NewShopeeCreateShipmentRequest,
        decodes |-> ParseShopeeCreateShipmentResponse],
    ShopeeListProducts |-> [request |-> NewShopeeListProductsRequest,
        decodes |-> ParseShopeeListProductsResponse],
    ShopeeGetProduct |-> [request |-> NewShopeeGetProductRequest,
        decodes |-> ParseShopeeGetProductResponse],
    ShopeeListWebhooks |-> [request |-> NewShopeeListWebhooksRequest,
        decodes |-> ParseShopeeListWebhooksResponse],
    ShopeeCreateWebhook |-> [request |-> NewShopeeCreateWebhookRequest,
        decodes |-> ParseShopeeCreateWebhookResponse],
    TokopediaSearchOrders |-> [request |-> NewTokopediaSearchOrdersRequest,
        decodes |-> ParseTokopediaSearchOrdersResponse],
    TokopediaGetOrder |-> [request |-> NewTokopediaGetOrderRequest,
        decodes |-> ParseTokopediaGetOrderResponse],
    TokopediaCancelOrder |-> [request |-> NewTokopediaCancelOrderRequest,
        decodes |-> ParseTokopediaCancelOrderResponse],
    TokopediaHandoverOrder |-> [request |-> NewTokopediaHandoverOrderRequest,
        decodes |-> ParseTokopediaHandoverOrderResponse],
    TokopediaPackOrder |-> [request |-> NewTokopediaPackOrderRequest,
        decodes |-> ParseTokopediaPackOrderResponse],
    TokopediaCreateShipment |-> [request |-> NewTokopediaCreateShipmentRequest,
        decodes |-> ParseTokopediaCreateShipmentResponse],
    TokopediaSearchProducts |-> [request |-> NewTokopediaSearchProductsRequest,
        decodes |-> ParseTokopediaSearchProductsResponse],
    TokopediaGetProduct |-> [request |-> NewTokopediaGetProductRequest,
        decodes |-> ParseTokopediaGetProductResponse],
    TokopediaConfigureWebhooks |-> [request |-> NewTokopediaConfigureWebhooksRequest,
        decodes |-> ParseTokopediaConfigureWebhooksResponse],
    ListWarehouses |-> [request |-> NewListWarehousesRequest,
        decodes |-> ParseListWarehousesResponse],
    GetWarehouse |-> [request |-> NewGetWarehouseRequest,
        decodes |-> ParseGetWarehouseResponse],
    ListWebhooks |-> [request |-> NewListWebhooksRequest,
        decodes |-> ParseListWebhooksResponse],
    CreateWebhook |-> [request |-> NewCreateWebhookRequest,
        decodes |-> ParseCreateWebhookResponse],
    DeleteWebhook |-> [request |-> NewDeleteWebhookRequest,
        decodes |-> ParseDeleteWebhookResponse]]

Operations == DOMAIN Client
=============================================================================
