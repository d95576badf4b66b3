# A verification project for the marketplace simulator

The repository is a marketplace backend in Go (`apps/marketplace`): an HTTP API and a
worker over one PostgreSQL database, with Redis for rate limits and for the task queue
(asynq) between the delivery scheduler and the webhook handlers. External systems integrate with it as they would with a
Shopee-like or a Tokopedia-like marketplace. This directory holds TLA+ modules that model
its core, TLC configurations that check them on small instances, and TLAPS proofs.

Paths below are relative to `src/apps/marketplace/`.

## Inventory

| Component | State | Operations | Interacts with |
| --- | --- | --- | --- |
| Order lifecycle (`internal/orders`, `internal/repository/orders`, `internal/server/lifecycle_handlers.go`) | `orders`: status, payment status, two deadlines, cancellation actor and reason | pay, process, ready to ship, complete, cancel (customer, seller), fail payment, cancel overdue | reservations, shipments, events; called by the API, the provider adapters and the deadline worker |
| Inventory (`internal/inventory`, `internal/server/control_inventory.go`) | `warehouses`, `warehouse_inventory`, `inventory_reservations`, `products.stock` | Allocate, Commit, Release, FulfillPackage, recount, create and edit a warehouse | every order operation |
| Packages and shipments (`internal/server/control_fulfillment.go`, `provider_fulfillment.go`) | `packages`, `package_items`, `shipments` | create a package (three ways), create a shipment, six shipment steps | order status, FulfillPackage |
| Catalogue (`internal/products`, `internal/repository/products`) | `products` | create, update, archive | reservations, events |
| Shop seed and reset (`internal/server/control_shops.go`) | everything of a shop | create, reset to seed | everything |
| Events (`internal/events`) | `domain_events`, `outbox` | Record, inside the caller's transaction | outbox publisher |
| Outbox publisher and webhook worker (`cmd/worker/main.go`, `internal/webhooks`) | `outbox`, `webhook_deliveries`, `webhook_delivery_attempts`, an asynq queue in Redis | publish, schedule, handle a delivery, retry, replay, duplicate, delay | webhook registrations, the receiver |
| Webhook registrations (`internal/server/control_webhooks.go`, `provider_webhooks.go`) | `webhooks` | create, update, delete (cancels what is pending) | the worker |
| Deadline worker (`cmd/worker/deadlines.go`) | a lease on `orders` (`deadline_claimed_until`) | claim a batch by leasing it, cancel each if it is still overdue; a lease is never given back, it runs out | order lifecycle |
| Idempotency (`internal/idempotency`, `provider_middleware.go`) | `idempotency_keys` | Acquire, Complete, Release around every public mutation | every public mutation |
| Rate limit (`internal/ratelimit`) | a Redis counter per contract, client and minute | Allow | the request pipeline |
| Scenario injection (`internal/scenarios`, `provider_middleware.go`) | `scenarios` | load, apply | the request pipeline, fan-out |
| Provider contracts (`routes.go`, `provider_*.go`, `internal/tokopedia`) | none | routing, error conversion, status projection, paged listings | every public request |
| Locks and connections (`pgxpool`, row locks) | connections in use, rows locked | begin, query, lock, commit | every control-plane handler |
| Generated client (`internal/api/openapi`) | none | build a request, parse a response | the public API |
| Authentication (`internal/auth`, `server.go`) | `users`, `sessions`, `credentials` | register, log in, sign, revoke | the request pipeline |

What is hard about it: every handler is a transaction of its own over rows that five other
handlers write too; the API and the worker race on the same orders around two deadlines;
stock is kept in three places (inventory rows, reservations, the product's aggregate) that
each handler adjusts by itself; an order is shipped in several parcels that finish in any
order; deliveries and idempotency claims survive crashes by leases that can expire too
early. `PROJECT.json` lists these hazards at their lines.

What makes the parts correct: stock is never promised twice and the three records of it
agree; a reservation lives exactly as long as its order needs it; the order, its payment
and its audit columns tell one story; every status change follows the one state machine;
nothing of a cancelled order ships; what is announced has happened. A retried request
gets the one response its key stands for, and its mutation runs again only when a lease ran
out or it reported a failure; every delivery ends, its record says what happened, and a
deleted registration is left alone. An overdue order does not stay overdue, and its events
tell one story whichever replica cancels it; no request waits for another for ever; the
quota holds; a dead credential serves nothing; an answer tells what happened; a client that
reads a listing to its end misses nothing without a cause.

## Modules

`OrderPolicy` holds the decision tables as constants: the state machine
(`orders/lifecycle.go`), the provider cancellation rules and reasons
(`orders/provider.go`), and the tables of `transitionShipment`.

`Fulfillment` is one shop. A table is a function from identifiers to rows, and a row that
does not exist has status `NONE`; an absent inventory row counts as (0, 0), as the code
reads it. Every action is one committed transaction: the handlers lock the order row, the
warehouse and inventory rows or the product row before they read what they decide on, so
PostgreSQL serialises those that touch the same rows, and a failed check rolls everything
back. That those locks are taken is an assumption of the model: a FOR UPDATE that is lost
would not be noticed. Which lock orders can deadlock is the question of `ConnectionPool`.

The one handler that locks nothing first is the reset: its DELETEs run one after the other
at READ COMMITTED, that of `domain_events` before that of `orders`, so the events of a
transaction that commits in between outlive what they are about. `resetShopData` keeps up to
`MaxLate` late events for this reason. In everything else it is equal to one step at its
last DELETE: the DELETEs of orders and products wait for transactions that hold their rows,
an order placed meanwhile makes the DELETE of products fail, and the whole reset with it,
on its foreign key, and nothing created later refers to a row that is gone. An identifier
that a late event names is not used again (`Unused`), as `NewID` draws a fresh one.

| Variable | Tables | Action | Code |
| --- | --- | --- | --- |
| `order` | `orders` | `createSimulatedOrder` | `control_fulfillment.go` |
| `res` | `order_items` with `inventory_reservations` | `Transition`, `Cancel`, `CancelOverdue` | `orders/service.go` |
| `pkg`, `content` | `packages`, `shipments`, `package_items` | `failPayment`, `transitionShipment` | `lifecycle_handlers.go` |
| `warehouse`, `onHand`, `reserved` | `warehouses`, `warehouse_inventory` | `createControlPackage` | `control_fulfillment.go` |
| `product` | `products` | `createPackageForOrder`, `createShipmentForOrder` | `provider_fulfillment.go` |
| `events` | `domain_events`, as the set of (aggregate, type); the outbox row of each is `WebhookDelivery`'s | `createControlWarehouse`, `updateControlWarehouse`, `updateWarehouseInventory` | `control_inventory.go` |
| `now` | the clock | `createProduct`, `updateProduct`, `Archive` | `repository/products/postgres.go` |
| `provider` | `shops.provider_profile` | `resetShopData`; `Init` is `createShop` | `control_shops.go` |

Abstractions, all of data: identifiers are model values; a warehouse is named by the
alphabetical rank of its code, which the code may rename but the allocation only compares;
quantities are bounded by `MaxQuantity`; names, prices, addresses, tracking numbers and
payment references are left out; so is the optional `expected_updated_at` of a recount,
which only refuses steps. API, worker and database share one clock. A reset seeds some
products and some COMPLETED orders; the one line of a seeded order has no reservation,
and no operation of the code reads it again, so it has no row in `res`. A request's
default for a missing reason is one of the enumerated reasons. Both providers can reach
all three package paths.

`ReplayStore` is what the idempotency layer promises of one key, without leases or
statements: at most one response is published, by a request that executed, and successful
answers carry it. `Idempotency` is how it is done. Every statement is a step of its own,
because nothing but the row of `idempotency_keys` orders two requests.

| Variable | Code | Action | Code |
| --- | --- | --- | --- |
| `row` | the row of `idempotency_keys` | `acquire`, `Insert`, `Load`, `Renew`, `TryAgain` | `acquire` and `Acquire` of `idempotency/manager.go` |
| `hash` | `requestFingerprint` of each request | `AcquireFails` | a statement fails, executed or not; the middleware answers 500 |
| `pc`, `answer`, `served` | where `idempotent` is and what it answers | `Execute` | `c.Next()`: the handler's transaction |
| `until`, `tries` | locals of `acquire` and `Acquire` | `Complete`, `Release` | the manager's methods with what the middleware does of their results |
| `executed` | requests whose mutation is committed | `Crash`, `Tick` | the process dies or panics; the clock |

Several keys do not interact: every statement names one. `Init` includes a row that
migration 010 turned into a COMPLETED one without fingerprint. `locked_until IS NULL` is
instant 0, which is past for every comparison the code makes.

`WebhookContract` holds the event types and the topics of both providers.
`WebhookDelivery` is one shop's registrations, outbox and deliveries with the scheduler
loops and the handlers.

| Variable | Tables | Action | Code |
| --- | --- | --- | --- |
| `hook` | `webhooks` | `createWebhook`, `shopeeCreateWebhook`, `tokopediaConfigureWebhooks`, `updateControlWebhook`, `retireWebhook` | `provider_webhooks.go`, `provider_tokopedia.go`, `control_webhooks.go` |
| `outbox` | `outbox` | `Record`, `publishOutbox` | `events/outbox.go`, `cmd/worker/main.go` |
| `delivery` | `webhook_deliveries` | `retryDelivery`, `replayEvent`, `createManualEventDeliveries` | `lifecycle_handlers.go` |
| `recorded`, `succeeded` | `webhook_delivery_attempts`: the numbers, and those with SUCCESS | `Lease`, `Enqueue`, `EnqueueFails` | `scheduleDeliveries` |
| `queue`, `scheduler` | asynq; what a scheduler has leased | `Load`, `Send`, `RecordAttempt`, `CountCancelled`, `Finish` | `handleDelivery`, one action per statement |
| `worker` | what each handler is doing | `HandlerFails`, `LeaseExpires`, `BecomesDue` | a failed statement or a dead process; time |

Transactions are single steps; the handler's four statements are not in one, so they are
four steps. A lease and a due time are flags that time may clear at any moment, so a
handler may be slower than any lease. Of the types a registration names, the model keeps
those of which there are events. A task that fails is archived (`MaxRetry(0)`) or put back
by an orderly shutdown. Bodies, headers, signatures and URLs are left out: a request that
cannot be signed is one of the failures. A reset of the shop is not part of this module.

`DeadlineWorker` is the deadline loop of any number of worker replicas
(`cmd/worker/deadlines.go`) against the API's changes to the same orders.

| Variable | Code | Action | Code |
| --- | --- | --- | --- |
| `status`, `events` | `orders.status`, what its transactions recorded | `createSimulatedOrder`, `transition` | the API's handlers, one transaction each |
| `overdue`, `behind` | deadlines passed by the database's clock, in order; those the process's clock has yet to reach | `DeadlinePasses`, `ClockCatchesUp` | time |
| `leased` | `deadline_claimed_until > now()` | `claimDeadlineBatch`, `ClaimSkips`, `ClaimFails`, `LeaseExpires` | the claim statement, `SKIP LOCKED`, its failure before or after it took effect |
| `pc`, `rule`, `claimedAny`, `batch` | the loop's locals | `Tick`, `NextRule`, `CancelOverdue`, `CancelFails`, `BatchDone` | `enforceOrderDeadlines`, `processDeadlineBatch`, `orders.CancelOverdue` |
| | | `Stop`, `Start` | a process dies, is stopped, is started |

The claim is one statement, the cancellation one transaction; between them everything may
happen, the lease's end included. Instants are abstracted to what the queries compare. The
goroutines of a batch take its candidates in any order. A slot whose order is over takes a
new order, so that arrivals never end.

`ConnectionPool` is what can make control-plane requests of one shop wait: the connections
of the API's pool and row locks. A handler is the sequence of its waiting statements, taken
from the code in its order; what it holds follows from how far it is. A row lock has one of
PostgreSQL's four strengths: a foreign key takes the weakest, so that two orders of one
product do not wait for each other when they insert their lines. The database aborts
one transaction of a cycle of row locks (external, like the pool itself); nothing breaks a
cycle through the pool, since the handlers pass a gin context, which never ends. Requests
concern different orders, so the rows they meet on are the shop's, a product's, a webhook's,
each warehouse's and its inventory's.

| Variable | Code | Action | Code |
| --- | --- | --- | --- |
| `poolSize` | `MaxConns` of pgxpool | `BeginTransaction`, `StartQuery`, `EndQuery` | take a connection for the handler; another for a query of its own; give that back |
| `ranking` | the active warehouses by `priority DESC, code ASC` | `LookUpWarehouses` | the snapshot of `Allocate`'s query |
| `kind`, `warehouses`, `tried` | the handler, the warehouses it is about, how many an allocation looks into | `LockRow` | a statement that locks a row |
| `at`, `querying`, `outcome` | where a handler is | `CommitTransaction`, `DeadlockDetected` | commit, which for `updateControlWarehouse` changes the ranking; abort |

Thirteen kinds of requests stand for the handlers: cancellation, failed payment, shipment
step, creation of an order, of a product in the default warehouse and in named ones, update
and removal of a product, recount by an operator and by an administrator, update of a
warehouse with and without a new code (a new key takes a stronger lock), and retry of a
delivery. A creation of an order looks up the active warehouses in the middle of its
transaction and locks all of them in the ranking it saw, then the stock in one after the
other until one has enough; two of them may have seen different rankings. Left out are
handlers that lock rows of their own order only, the statements before the transaction
(they wait for a connection holding nothing), early returns, the worker's transactions, the
reset, which deletes rows of every table in an order of its own, and orders of several
products, whose rows the code sorts.

`OpenAPIClient` is the generated client of the 25 public operations: what each request
builder sends and which statuses each parser decodes. `Gateway` lets such requests run
through the server: routing, the three authentication middlewares as chains of early
returns, the quota, the injected faults, the idempotency wrapper and the handler, each
step that reads or writes shared state being a step of the model.

| Variable | Code | Action | Code |
| --- | --- | --- | --- |
| `credential`, `profile` | `credentials.status`, `shops.provider_profile` | `createCredential`, `revokeCredential`, `resetShopData` | `control_fulfillment.go`, `control_shops.go` |
| `scenario`, `maintenance` | `shop_scenarios`, `system_settings` | `putScenario`, `setMaintenance` | `control_admin.go` |
| `counter`, `minute` | Redis, the clock | `Authenticate` (admit, lookup, scenario, quota, verify) | `integrationAuth`, `shopeeIntegrationAuth`, `tokopediaIntegrationAuth`, `FixedWindow.Allow` |
| `req`, `failed` | each request with its answer and what was done of its work; the requests that met a failing statement | `Send`, `applyScenario`, `Serve` | the client, `applyScenario`, `idempotent` and the handlers |

A handler answers with any status its code can answer with; what it does is the matter of
the other modules. A draw of `rand.IntN(100)` is its least or its greatest value. A key's
claim is reduced to its outcomes; `Idempotency` shows how they come about. A failing
statement may have been executed: a mutation whose COMMIT is not acknowledged answers with
its own 400 or 500 (`CommitError`) although its work is done, and one whose response cannot
be stored with the 500 of the idempotency layer. A list or an order's detail that is read in
part is answered as if it were whole (`PartialReads`: those handlers do not ask `rows.Err()`
or drop the error). `disturbed` and `dead` are ghosts that remember what changed during a
request and before it.

`Listing` is a client that reads one of the four provider listings to its end: by page
number with a count (Shopee; two statements, two steps) or by token (Tokopedia), with any
status filter, while the shop changes. A row is its status and the column the query sorts
by (`table`), and an answer is a slice of the rows found, in the order of `Precedes`, the
ORDER BY. That column is `now()`, which in PostgreSQL is the instant the transaction began.
A change that waited for a row lock therefore commits with an instant of the past, and the
product it changed may move back in the listing instead of to the front: each change picks
any instant. `setback` remembers that one was older than the row's own, `shrank` that a row
left what the client asked for, `outgrown` that there were more rows than counted when the
last page was read. None of the four handlers asks `rows.Err()`, so a read may stop after any
row and still be answered with 200: by page number the rest of the page is missing, by token
everything that follows, since the row that shows there is more was not read either; `lost`
remembers these rows. They are the four causes for which a row nobody touched may be left
out. Reads that fail before that, and rows that cannot be scanned, are answered with 500
(`listFails`), which ends the reading. Name
and time filters are left out, as they select rows by what never changes here; so are
malformed page numbers and tokens, which are refused.

`StockPool` is what `Fulfillment` promises of stock, without warehouses, lines, packages,
deadlines and callers: one pool of every product, in which an order is promised something
once and only what nobody else was promised, gets nothing more, and either gives all of it
back, once, or ships. `OneStockPool` is the refinement: an order's stage is read off its
status, `sellable` is the `products.stock` column, and `promised` what the order's
reservations still hold of a product over all lines and warehouses. A recount, a catalogue
change and a reset are the pool's own steps; payments, processing, package creation and
everything after shipping that consumes no reservation leave the pool as it is.

`MCDeadlineWorker`, `MCConnectionPool`, `MCGateway`, `MCListing`, `MCIdempotency` and
`MCWebhookDelivery` instantiate these modules, the last with an assumption TLC evaluates:
each provider's topics partition the supported events.

`MCFulfillment` instantiates `Fulfillment` for TLC, with symmetry over orders, lines,
products and packages: no definition tells them apart, and the properties checked under
symmetry are invariants and step properties, for which it is sound. It also checks
`Total` (a sum as the cardinality of its unit set, so that no recursion is needed) against
the library's sum. Operators whose comment starts with "Mutant" are deliberate mistakes;
nothing uses them in the model.

## Runs

| Run | Instance | Shows |
| --- | --- | --- |
| `stock` | 2 orders, 1 line, 1 product, 2 warehouses, 2 priorities | `NoOversell`, `LedgersExact` (both ledgers), `ArchivedProductIdle`: competition for the last unit, warehouses switched and reprioritised, recounts, archival, reset |
| `lifecycle` | 1 order, 2 lines, 2 products, clock 0..2, 1 late event | `PaymentAndAudit`, `EventsMirrorOrders`, `SingleStateMachine`: payment, failure, both deadlines and both callers before, at and after the due instant, and resets that an event survives |
| `shipping` | 1 order, 2 lines, 3 packages, quantities to 3 | `TypeOK`, `ReservationFollowsOrder`, `ParcelsFollowOrder`, `FulfilledIsShipped`, `LedgersExact`, `FinishedOrdersFrozen`, and `OneStockPool`, which is the specification of `StockPool`: two lines of one product, splits, recounts, cancellation with packages created, failed deliveries, returns; one order and one product here, contention between orders is theorem `StockIsOnePool`'s |
| `idempotency` | 3 requests, 2 fingerprints, lease 1, clock 0..2, 2 tries | `TypeOK`, `LiveClaimKept`, `DuplicateNeedsExpiredLease`, `OneStoredResponse`, which is the specification of `ReplayStore`, and `EveryRequestAnswered` under fairness |
| `webhooks` | 1 event, 1 registration, 2 deliveries, 2 handlers, 1 scheduler, 2 attempts, 1 operator request, 1 fault | `TypeOK`, `DeletedHookQuiet`, `AttemptsGapless`, `OutcomeEvidenced`, `RetiredHistoryKept` |
| `delivered` | 1 delivery, 2 handlers, 2 attempts, 2 tasks, 1 operator request, no faults | `EveryDeliveryEnds` under fairness |
| `deadlines` | 2 order slots, one of them Shopee's, 2 replicas, batches of 1, 1 fault | `TypeOK`, `OneStoryPerOrder`, `NoDuplicateClaims`, and `OverdueOrdersEnd` under fairness |
| `connections` | any 3 of 13 kinds of request, 2 warehouses, pools of 2 and of 4 | `TypeOK`, `WedgeNeedsInventoryUpdate`, `CycleNeedsInversion`, and `EveryRequestEnds` under fairness |
| `gateway` | every operation, three of them with every flaw, beside a second request; limit 1, 2 minutes, 2 edits, any failing statements of one request | `TypeOK`, `QuotaHolds`, `DeadCredentialServesNothing`, `UndisturbedRequestIsServed`, `AnswerTellsOutcome`, `ClientFitsServer` |
| `listing` | 4 listings, every filter, up to 3 rows; of every status and in pages of 0, 1, 2 and 101 while nothing changes; of 3 statuses and in pages of 1 and 2 under 2 changes at instants 0..3; any read may fail at any row | `QuietListingExact`, `SkippedRowsHaveCause` |
| `poisoned` | 1 delivery, 1 handler, 1 fault | violation of `EveryDeliveryEnds` |
| `wedged` | 2 requests, 2 connections | violation of `PoolNeverWedged` |

Why the bounds are enough: the rows one transaction touches are those of one order and the
inventory it draws on. Two orders give every conflict between two transactions on an
inventory row, two lines every aggregation, two warehouses every choice by priority or by
code, three packages a first, a last and a middle parcel, and a clock of three instants
each side of a deadline and the deadline itself. One late event is one of an order, a package
or a product that a reset removed, which later rows and events must not be taken for; more
would only be more of the same. The type invariant is checked where there are packages, so
that its clauses about them say something. Each run puts its freedom where its
properties look and fixes the rest. `CHECK_DEADLOCK FALSE` because a shop may well come to
rest: every identifier used, every order finished, no operator at work; and so may the
requests of one key and the deliveries of one event.

For `Idempotency`, three requests give an owner, a successor and a third one that meets
both; with a lease of 1 and three instants a claim can expire, be renewed and expire again.
For `WebhookDelivery`, two handlers on one delivery are every conflict its row can have,
two attempts stand for the code's five (a first, a last, and manual retries beyond them),
and the second delivery is what a duplicate or a replay adds. For `DeadlineWorker`, a batch
of one makes every second overdue order wait for another claim, two slots put one order
under each rule or both under one, and two replicas give every pair of claims; one fault
anywhere is a crash between any two steps. For `ConnectionPool`, three requests on two
connections are a holder, one that waits for it and one that waits for both; four
connections are one more than the three can hold. Two warehouses are two that allocations
can lock in either order, and a third request changes the ranking between them. Requests
are numbered by their kinds and warehouses, since their names do not matter. The ranking
starts with both warehouses active; the first one is the default warehouse, the one earlier
orders are served from, an administrator recounts and an update moves, takes out of the
ranking or brings back. Operators recount either, and new products name any. The theorems
need none of this. For `Gateway`, a limit of 1 lets the
second request meet an exhausted quota and the minute's end; a request meets operators only
through what they last wrote, so two edits (set and clear) suffice. For `Listing`, three
rows in pages of one or two have a first, a middle and a last page, and two changes can
move one row in and another out; four instants put a change before, between, at and after
the rows there are. Sizes 0 and 101 are refused, or for a Tokopedia body the default.

Fairness. `Fulfillment` assumes none: nothing in the API has to happen unless a caller
asks. `Idempotency` assumes that a request's goroutine keeps running unless its process
dies (weak fairness of each request's own step); no failure and no tick is relied on.
`WebhookDelivery` assumes that the loops, which tick every second, and the queue's handlers
keep running and that time passes (weak fairness), that the schedulers do not pass over one
due delivery for ever, since they take them in the order of creation (strong fairness of
leasing it), and that leases are long enough often enough: of the leases a delivery gets
for ever, one is still alive when its task is enqueued and one when a handler loads it
(strong fairness of these steps). Without the last, a scheduler and a queue slower than 30
seconds each time would never deliver anything, and the code offers nothing against that.
Operators are not fair: that a delivery ends does not need any of them. `DeadlineWorker`
assumes weak fairness of each replica's loop (ticker, statements, goroutines, restart), of
each cancellation, of leases running out and of lagging clocks catching up; API requests,
new deadlines and faults are not fair. `ConnectionPool` assumes that each request's
goroutine runs and that the database looks for cycles. It states this as weak fairness of
`Next`: every step brings its request nearer its end, so no request can go on for ever
while another may move, and fairness to all is fairness to each. It does not assume
that pool or lock queues are first come, first served, since requests are finitely many.
`Gateway` and `Listing` state safety only.

### Findings

* `poisoned`: a handler inserts the attempt and updates the delivery in two statements.
  When it dies or fails between them, every later handler of the delivery sends the
  webhook and then fails to insert the same attempt number, which is UNIQUE. The delivery
  is sent again with every lease and never becomes DELIVERED or FAILED, although the guide
  promises that a 2xx marks it and that four retries follow a failure.
* `wedged`: an operator's inventory update asks the pool for a second connection, to
  authorize itself, inside its transaction. As many of them as there are connections wait
  for each other for ever, and everybody else with them. A comment in
  `lifecycle_handlers.go` states the rule that this handler breaks. `connections` shows
  that no other modelled handler can cause it, and that one connection more than there are
  requests is enough.

Other disagreements met while modelling, without a run of their own:

* The integration guide says that an order becomes RETURNED only after all its shipments
  are returned. `transitionShipment` lets the last shipment decide.
* A reset inserts COMPLETED orders with `paid_at` but without `payment_status`, whose
  default is PENDING; the guide calls that column authoritative. `PaymentAndAudit` exempts
  seeded orders for this reason.
* A registration deleted between the last two UPDATEs of a handler is seen by neither, and
  the cancelled delivery does not count its recorded attempt; `AttemptsGapless` allows for
  a count that is one behind.
* The quota's key carries a prefix of the contract, so one credential has a quota for the
  shared API and another for its provider's. `QuotaHolds` is stated per contract.
* In maintenance the Tokopedia contract answers 500 where the operations guide says 503.
* The injected timeout writes nothing; gin would send 200 if the server's request timeout,
  30 s by default, were 35 s or more. `AnswerTellsOutcome` holds for less.
* A mutation that is executed although its COMMIT reports a failure answers 400 or 500 like
  one that was refused. `AnswerTellsOutcome` admits these answers, and no others; a retry with
  the same key is how a client finds out.
* `listWarehouses` checks `rows.Err()`, the four paged listings and the reads of an order's
  lines, packages and shipments do not, and answer 200 with what they got.
* `ShopeeCancelOrder` answers 404, 403, 429 and 500 among others, which the generated parser
  has no case for; the test of the contract asks only for 409, 401, 413 and the success, and
  so does `ClientFitsServer`.
* Two allocations may lock the warehouses in opposite orders when a warehouse's priority or
  code changes between their snapshots. The database aborts one of them, and the code does
  not retry it. `CycleNeedsInversion` names this case beside the handlers that lock rows in
  another order.

## Proofs

TLAPS proves for all values of the constants that satisfy the assumptions of `Fulfillment`
(finite identifier sets, warehouses ordered by naturals, positive line quantities below
the bound, nulls outside the sets):

| Theorem | Statement |
| --- | --- |
| `TypeCorrect` | `Spec => []TypeOK` |
| `NeverOversold` | `Spec => []NoOversell` |
| `PaymentAudited` | `Spec => []PaymentAndAudit` |
| `ReservationsFollowOrders` | `Spec => []ReservationFollowsOrder` |
| `ParcelsFollowOrders` | `Spec => []ParcelsFollowOrder` |
| `ArchivedProductsIdle` | `Spec => []ArchivedProductIdle` |
| `EventsMirrored` | `Spec => []EventsMirrorOrders` |
| `StockLedgerExact` | `Spec => []StockLedger` |
| `ReservedLedgerExact` | `Spec => []ReservedLedger` |
| `BooksExact` | `Spec => []LedgersExact` |
| `ShippedIsFulfilled` | `Spec => []FulfilledIsShipped` |
| `OneStateMachine` | `Spec => SingleStateMachine` |
| `FinishedFrozen` | `Spec => FinishedOrdersFrozen` |
| `StockIsOnePool` | `Spec => OneStockPool`: `Fulfillment` implements `StockPool` |

`FulfillmentProofs` first types the helpers (`Total` is a natural number, what an
order needs, holds and ships), then reduces `Next` to a few kinds of step (`StepKinds`,
`NextKinds`): the four ways to cancel are one `CancelStep`, the four ways to create a
package or a shipment one `PackageStep`. Every later proof has one case per kind.
`RowsTyped`, the columns' types, carries the one relation the others need: a package that
exists belongs to an order. `TypeOK`, which adds the ranges the schema's CHECKs declare
(no column of stock or reservations is negative), is proved last, in
`FulfillmentLedgerProofs`: that no stock column goes below zero needs the ledgers.

It then proves each invariant inductive relative to `RowsTyped`. The properties
are written as predicates of single rows (`AuditedRow`, `ReservationFits`, `ParcelFits`),
so each operation gets a lemma about the row it writes, and the step lemma only places it.
`ReservationFollowsOrder` and `ParcelsFollowOrder` are the strengthenings that make their
weaker readings inductive: that stock is released at most once needs to know that only a
cancelled order has RELEASED rows; that nothing of a cancelled order ships needs the
shipment statuses an order in READY_TO_SHIP can have. `FinishedOrdersFrozen` follows from
`ParcelsFollowOrder`, because the only handler that could touch a finished order is a
shipment step. For `EventsMirrorOrders` one lemma (`MirroredEdge`) shows that an edge
of the state machine and the events announced with it keep them in step; a step that
changes an order only has to name its edge, and the others record events of another kind.

`FulfillmentLedgerProofs` is about sums. `Total` counts units, so its laws follow from
those of cardinality: a row that amounts to nothing does not count (`TotalSupport`), a
change of one row changes the sum by as much, and the sum of a union of disjoint parts is
the sum of theirs. Three strengthenings make the books inductive: on-hand stock stays
below the bound its column has in the model (`OnHandFits`); every order something can
still happen to has a warehouse, and an empty slot has none (`WarehouseFits`), without
which a held line would be counted nowhere; what a package holds is a quantity
(`ContentFits`). `ReservedLedger` also uses `ReservationFollowsOrder`, for which rows a
step can find held, and `ArchivedProductIdle`; `FulfilledIsShipped` uses
`ParcelsFollowOrder`. Each kind of step then has one lemma that says which rows enter,
leave or shrink in the set that is summed up.

`StockIsOnePool` needs no invariant of its own: `PoolFits` collects what the theorems above
establish, and `PoolStep` matches each kind of step with one of the pool. What has to be
shown is about sums again (what a new order's rows hold is what the warehouse could still
promise, a cancelled order's rows held exactly what `products.stock` gets back, a package
lowers what its lines hold and nothing else) and about stages: a shipment is only sent for
an order that is in READY_TO_SHIP or beyond (`OrderLeaves`), so that what has shipped is
never promised again or given back.

For `Idempotency`, from its assumptions (positive lease and number of tries, nulls outside
the sets) and for any number of requests:

| Theorem | Statement |
| --- | --- |
| `IdempotencyTypeCorrect` | `Spec => []TypeOK` |
| `LiveClaimsKept` | `Spec => []LiveClaimKept` |
| `DuplicatesNeedExpiredLease` | `Spec => DuplicateNeedsExpiredLease` |
| `StoresOneResponse` | `Spec => OneStoredResponse`: `Idempotency` implements `ReplayStore` |

`LiveClaimKept` is not inductive alone. `IInv` adds what a request's phase says of its
execution and its answer (`RequestsInStep`), so that only an owner can complete or release,
and that a stored response comes from a committed execution with that fingerprint
(`StoredIsExecuted`), which the refinement needs. The refinement
maps `stored` to the row's body; each action is a step of `ReplayStore` or leaves its
variables alone.

For `WebhookDelivery`, from its assumptions and for any number of registrations,
deliveries, handlers, schedulers and attempts:

| Theorem | Statement |
| --- | --- |
| `DeliveryTypeCorrect` | `Spec => []TypeOK` |
| `DeletedHooksQuiet` | `Spec => []DeletedHookQuiet` |
| `AttemptsHaveNoGap` | `Spec => []AttemptsGapless` |
| `OutcomesEvidenced` | `Spec => []OutcomeEvidenced` |
| `RetiredHistoryIsKept` | `Spec => RetiredHistoryKept` |

They rest on one invariant, `Core`: what a delivery's row says of its attempts
(`DeliveryFits`), that a handler's attempt is never ahead of the count and, once recorded,
is exactly the one the delivery waits for unless it is cancelled (`JobFits`), and that two
handlers which have both recorded an attempt do not work on the same delivery unless it is
cancelled (`Exclusive`). The last is what UNIQUE(delivery_id, attempt) buys, and what makes
the count that `Finish` writes the right one. Steps fall into kinds (`NextKinds`); those
that only change registrations, leases, due times and the queue are one `QuietStep`.

For `DeadlineWorker`, from its assumptions and for any number of orders and replicas, any
batch size and any number of faults:

| Theorem | Statement |
| --- | --- |
| `DeadlineTypeCorrect` | `Spec => []TypeOK` |
| `StoriesAreOne` | `Spec => []OneStoryPerOrder` |
| `LeasesExclude` | `Spec => []NoDuplicateClaims` |

`OneStoryPerOrder` alone does not say what an order that is not cancelled has recorded so
far, and so not what its cancellation will follow. `StoryFits` says for each status which sequences of events lead to
it (`Story`): six for a cancelled order, one for every other status. It is inductive
because `CancelOverdue` and the API's handlers look at the status under the row lock
before they append. `DueFits` says that an order is overdue once and only while it has a
deadline; `ClaimsFit` that what a replica still has in its batch is leased, unless the lease
ran out meanwhile, which is what `NoDuplicateClaims` needs when the next replica claims.

For `ConnectionPool`, from its assumptions and for any number of requests and warehouses,
any first ranking and any size of the pool:

| Theorem | Statement |
| --- | --- |
| `PoolTypeCorrect` | `Spec => []TypeOK` |
| `WedgesNeedInventoryUpdate` | `Spec => []WedgeNeedsInventoryUpdate` |
| `CyclesNeedInversion` | `Spec => []CycleNeedsInversion` |

Both properties hold of every well-typed state in which only a request at a query has one
under way (`QueryingFits`). A request waits either for a row or for a connection. Given a
ranking of the warehouses, the rows have a rank (`Rank`): shop, the warehouses as ranked,
their stock in the same order, product. `HandlerIsRegular` shows of each kind that it locks in
ascending rank unless it is one of the five that `Inverts` names; the creation of an order
does so for the ranking it saw, and for any ranking as long as it has seen none. The one
lock out of order, the foreign key of an order's line on the product, keeps nobody waiting
but the product's removal, which inverts too. If no two allocations of a cycle disagree there
is one ranking for all of its requests, and along its waits the rank of the row waited for
would have to grow for ever (`NoEndlessAscent`). In a wedge without an inventory
update at its query every open transaction waits for a row of another; the smallest set of
requests that wait only for each other is a cycle (`MutualWaitsCycle`, by well-founded
induction on finite sets), which the database breaks, so that the requests are not wedged.

For `Gateway`, from its assumptions and for any number of requests, any quota, any
scenarios an operator may set (`ScenarioRow`), any number of edits, requests whose statements
fail, and minutes:

| Theorem | Statement |
| --- | --- |
| `GatewayTypeCorrect` | `Spec => []TypeOK` |
| `QuotasHold` | `Spec => []QuotaHolds` |
| `DeadCredentialsServeNothing` | `Spec => []DeadCredentialServesNothing` |
| `UndisturbedAreServed` | `Spec => []UndisturbedRequestIsServed` |
| `AnswersTellOutcome` | `RequestLifetime < SimulatedTimeout` implies `Spec => []AnswerTellsOutcome` |
| `ClientsFitServer` | `Spec => []ClientFitsServer` |

The hypothesis of `AnswersTellOutcome` is the default configuration: a request lives 30 s
and an injected timeout lasts 35 s (`platform/config.go`, `applyScenario`). With a longer
lifetime the connection is still open after the timeout and the request is answered with
gin's default 200 without having been executed, which is why the hypothesis is stated and
not assumed of the model.

`GatewayProofs` first treats a middleware as what it is, a chain of early returns
(`Chain`: either every condition fails and the request passes, or the status is that of a
condition that holds), and derives for each of the three what each of its steps can refuse
with (`AuthFits`). The 25 operations are looked up once in the tables of routes, client
parameters and decoded statuses. A step then is one of six kinds (`StepKinds`): a request
is sent, ends, passes a check, reaches its handler, an operator acts, or nothing but the
clock and the counters moves. The invariant has four parts: where a request can be and what
its row holds there (`RequestsFit`); that a dead credential is never revived and gets no
further than the lookup, and what a finished request's answer says of its work
(`OutcomesFit`); that the requests a minute has charged are no more than its counter and no
more than the limit (`QuotasFit`: the property alone does not bound the counter from below,
so a late increment could let one more pass); that while nothing disturbs a request nothing
is in force, and that a quota found spent stays spent (`ServedFits`).

For `Listing`, from its assumptions (finitely many natural keys, natural page sizes) and
for any number of rows, any page size, any instants and any number of changes:

| Theorem | Statement |
| --- | --- |
| `SortedIsExact` | for every finite set of rows, `Sorted` is a sequence of as many positions that holds each row once, none before one that precedes it |
| `ListingTypeCorrect` | `Spec => []TypeOK` |
| `QuietListingsExact` | `Spec => []QuietListingExact` |
| `SkippedRowsExplained` | `Spec => []SkippedRowsHaveCause` |

`TypeOK` of `Listing` is proved, and so no run checks it; the other two rest on it.

`SortedIsExact` is what an ORDER BY over a key that breaks ties gives: the number of rows
that come before one of them (`Place`) is a bijection between the rows and the positions.
`QuietInv` says that while nothing has changed and no read has lost a row the client has got
exactly the first rows of the listing, as many as its page number or token says; at the end
the filter's rows are the rows shown as asked (`FilterIsExact`: `CanonicalOrderStatuses` is
the inverse of `tokopediaOrderStatus`). `SkipInv` says that, without one of the causes, a
row that was there from the start, was left alone and was lost by no read has either been
got or stands behind the offset the client has reached. It is inductive because the place of
such a row can only grow (`PlaceGrows`): rows that come before it stay, as none left and
none moved back. That argument is what brought `setback` to light: with the front as the
only place a changed product can go to, the property needs no such cause, and it would not
be about the code.

Only model-checked:

* Every liveness property: `ENABLED` and fairness are out of the prover's reach.
* What the folds and recursive definitions compute for every input.

## Plan

1. Done: `OrderPolicy`, `Fulfillment`, its runs and proofs.
2. Done: `ReplayStore`, `Idempotency`, its run and proofs.
3. Done: `WebhookContract`, `WebhookDelivery`, its runs and proofs.
4. Done: `DeadlineWorker`, `ConnectionPool`, `OpenAPIClient` with `Gateway`, `Listing` and
   their runs.
5. Done: the proofs of every safety and action property that the runs check.
6. Done: `StockPool`, the refinement by `Fulfillment` and its proof.
7. Left for the model: a reset of the shop under webhook handlers in flight.

## Not modelled

* Cryptography: signatures, encryption, password hashing. A signature is valid or not.
* Console sessions, users and roles (`internal/auth`): stateless tokens and password checks.
* The control-plane operations and the struct types of the generated client, and the
  queries sqlc generates: their statements appear in the handlers that call them.
* Request parsing and response formatting beyond the conversions named above; the console's
  searches and lists, which read one page in one request.
* Start-up, configuration and migrations; metrics and logs; the admin UI; the generator of
  dummy data. No property above depends on them.
