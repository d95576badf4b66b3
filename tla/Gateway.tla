------------------------------ MODULE Gateway ------------------------------
(* The public API's way in: a request built by the generated client is routed,        *)
(* authenticated and charged by the middleware of its contract, exposed to the shop's *)
(* failure scenario, and only then reaches its handler, behind the idempotency check  *)
(* if it is a mutation.  Each step of a request that reads or writes shared state is  *)
(* a step here; operators change maintenance, scenario and credential in between.     *)
(*                                                                                    *)
(* One shop and one of its credentials are followed.  What a handler does to orders,  *)
(* stock and webhooks, and how a key is claimed, is the matter of the other modules:  *)
(* here a handler answers with any of the statuses its code can answer with.          *)
EXTENDS OpenAPIClient, Integers, FiniteSets, FiniteSetsExt

CONSTANTS
  Requests,
  Calls,                \* the <<operation, flaw>> pairs each request may be
  Scenarios,            \* the bodies operators send to putScenario
  RateLimitPerMinute,
  RequestLifetime,      \* MARKETPLACE_REQUEST_TIMEOUT, in seconds
  MaxMinute,            \* bound on the clock
  MaxEdits,             \* bound on what operators change
  MaxFaults             \* bound on the requests that meet failing statements

AllFlaws == {"none", "unsigned", "stale", "token", "large", "unreadable", "signature",
             "blankKey", "longKey"}

(* The body of putScenario, before Validate. *)
ScenarioRow ==
  [APISlowMS : Int, APISlowProbability : Int, APIRandom500Probability : Int,
   APITimeoutProbability : Int, ForceRateLimit : BOOLEAN]

ASSUME GatewayAssumption ==
  /\ IsFiniteSet(Requests)
  /\ Calls \in [Requests -> SUBSET (Operations \X AllFlaws)]
  /\ Scenarios \subseteq ScenarioRow
  /\ RateLimitPerMinute \in Nat
  /\ RequestLifetime \in Nat \ {0}
  /\ MaxMinute \in Nat /\ MaxEdits \in Nat /\ MaxFaults \in Nat

VARIABLES
  profile,      \* shops.provider_profile
  credential,   \* credentials.status; NONE before it is issued, DELETED after a reset
  maintenance,  \* system_settings, key maintenance
  scenario,     \* the shop's shop_scenarios row
  minute,       \* time.Now().Unix()/60
  counter,      \* Redis: [contract -> [minute -> requests counted]]
  req,          \* the requests
  edits,
  failed        \* the requests that met a failing statement of their own

vars == <<profile, credential, maintenance, scenario, minute, counter, req, edits, failed>>

-----------------------------------------------------------------------------
(* Scenarios. *)

NoFaults == [APISlowMS |-> 0, APISlowProbability |-> 0, APIRandom500Probability |-> 0,
             APITimeoutProbability |-> 0, ForceRateLimit |-> FALSE]

Validate(v) ==
  /\ v.APISlowMS >= 0
  /\ v.APISlowProbability \in 0 .. 100
  /\ v.APIRandom500Probability \in 0 .. 100
  /\ v.APITimeoutProbability \in 0 .. 100

(* The least and the greatest value of rand.IntN(100). *)
Draws == {0, 99}

(* Mutant: zero is not tested for and the draw is compared with <=. *)
HitsInclusive(p) == {draw <= p : draw \in Draws}

Hits(p) == {draw < p : draw \in Draws}

SimulatedTimeout == 35

-----------------------------------------------------------------------------
(* Routes. *)

Route(method, path, idempotent) == [method |-> method, path |-> path, idempotent |-> idempotent]

registerSharedRoutes ==
  { Route("POST", "/api/v1/webhooks", TRUE),
    Route("GET", "/api/v1/webhooks", FALSE),
    Route("DELETE", "/api/v1/webhooks/:id", TRUE),
    Route("GET", "/api/v1/warehouses", FALSE),
    Route("GET", "/api/v1/warehouses/:id", FALSE) }

registerShopeeRoutes ==
  { Route("GET", "/api/shopee/v1/products", FALSE),
    Route("GET", "/api/shopee/v1/products/:id", FALSE),
    Route("GET", "/api/shopee/v1/orders", FALSE),
    Route("GET", "/api/shopee/v1/orders/:id", FALSE),
    Route("POST", "/api/shopee/v1/orders/:id/cancel", TRUE),
    Route("POST", "/api/shopee/v1/orders/:id/ship-order", TRUE),
    Route("POST", "/api/shopee/v1/orders/:id/ready-to-ship", TRUE),
    Route("POST", "/api/shopee/v1/orders/:id/packages", TRUE),
    Route("POST", "/api/shopee/v1/orders/:id/shipments", TRUE),
    Route("POST", "/api/shopee/v1/webhooks", TRUE),
    Route("GET", "/api/shopee/v1/webhooks", FALSE) }

registerTokopediaRoutes ==
  { Route("POST", "/api/tokopedia/v202309/products/search", FALSE),
    Route("GET", "/api/tokopedia/v202309/products/:id", FALSE),
    Route("POST", "/api/tokopedia/v202309/orders/search", FALSE),
    Route("GET", "/api/tokopedia/v202309/orders/:id", FALSE),
    Route("POST", "/api/tokopedia/v202309/orders/:id/pack", TRUE),
    Route("POST", "/api/tokopedia/v202309/orders/:id/handover", TRUE),
    Route("POST", "/api/tokopedia/v202309/orders/:id/cancel", TRUE),
    Route("POST", "/api/tokopedia/v202309/orders/:id/shipments", TRUE),
    Route("PUT", "/api/tokopedia/v202309/webhooks", TRUE) }

Contracts == {"shared", "shopee", "tokopedia"}

Registered ==
  [shared |-> registerSharedRoutes, shopee |-> registerShopeeRoutes,
   tokopedia |-> registerTokopediaRoutes]

(* The routes of a contract that an operation's request matches: one or none. *)
Matching(op, c) ==
  {route \in Registered[c] : /\ route.method = Client[op].request.method
                             /\ route.path = Client[op].request.path}

Routed(op) == \E c \in Contracts : Matching(op, c) # {}

ContractOf == [op \in {p \in Operations : Routed(p)} |->
  CHOOSE c \in Contracts : Matching(op, c) # {}]

Idempotent == {op \in Operations : \E c \in Contracts : \E route \in Matching(op, c) : route.idempotent}

-----------------------------------------------------------------------------
(* The providers' errors. *)

(* The codes Tokopedia gives an invalid credential, an expired timestamp and an operation *)
(* that is not possible.                                                                  *)
InvalidCredential == 36000001
TimestampExpired == 36000002
NotPossible == 36000003

(* Mutant: the range of the statuses lost its upper end. *)
tokopediaErrorOpen(code) ==
  CASE code \in {413, 429} -> code
    [] code >= 500 -> code
    [] OTHER -> 400

(* The HTTP status of a Tokopedia error code. *)
tokopediaError(code) ==
  CASE code \in {413, 429} -> code
    [] code \in 500 .. 599 -> code
    [] code \in {InvalidCredential, TimestampExpired} -> 401
    [] OTHER -> 400

tokopediaErrorCode(status) ==
  CASE status = 429 -> 429
    [] status = 401 -> InvalidCredential
    [] status >= 500 -> status
    [] OTHER -> 400

providerError(c, status) ==
  IF c = "tokopedia" THEN tokopediaError(tokopediaErrorCode(status)) ELSE status

-----------------------------------------------------------------------------
(* Requests. *)

(* An answer: its status and what its body holds, every kind but "none" as JSON. *)
NotAnswered == [status |-> 0, body |-> "none"]
NoBody(status) == [status |-> status, body |-> "none"]
Data(status) == [status |-> status, body |-> "data"]
Error(status) == [status |-> status, body |-> "error"]
idempotencyError(status) == [status |-> status, body |-> "idempotency"]

Fresh == [pc |-> "new", op |-> "none", flaw |-> "none", scenario |-> NoFaults, late |-> FALSE,
          charged |-> FALSE, window |-> 0, answer |-> NotAnswered, work |-> "none",
          dead |-> FALSE, disturbed |-> FALSE]

ContractOfRequest(r) == ContractOf[req[r].op]

(* The parameters that reach the server: none of the client's if it was called without *)
(* any, and no key if the caller's key is empty.                                       *)
Sent(r) ==
  Client[req[r].op].request.params \
    CASE req[r].flaw = "unsigned" -> Client[req[r].op].request.params
      [] req[r].flaw = "blankKey" -> {"Idempotency-Key"}
      [] OTHER -> {}

InFlight == {r \in Requests : req[r].pc \notin {"new", "done"}}

(* Ghost: something a request depends on changed while it was in flight. *)
Disturb(f) == [r \in Requests |-> IF r \in InFlight THEN [f[r] EXCEPT !.disturbed = TRUE] ELSE f[r]]

Init ==
  /\ profile \in {"SHOPEE_LIKE", "TOKOPEDIA_LIKE"}
  /\ credential = "NONE"
  /\ maintenance = FALSE
  /\ scenario = NoFaults
  /\ minute = 0
  /\ counter = [c \in Contracts |-> [m \in 0 .. MaxMinute |-> 0]]
  /\ req = [r \in Requests |-> Fresh]
  /\ edits = 0
  /\ failed = {}

(* The connection ends with this answer, or with none once the write deadline passed. *)
Answered(q, answer) ==
  [q EXCEPT !.pc = "done", !.scenario = NoFaults, !.answer = IF q.late THEN NotAnswered ELSE answer]

Undisturbed == credential = "ACTIVE" /\ ~maintenance /\ scenario = NoFaults

(* The client calls, with a credential it was issued; a request no route matches is   *)
(* answered by the router.                                                            *)
Send(r, call) ==
  /\ req[r].pc = "new"
  /\ credential # "NONE"
  /\ LET sent == [Fresh EXCEPT !.pc = "admit", !.op = call[1], !.flaw = call[2],
                               !.dead = credential \in {"REVOKED", "DELETED"}, !.disturbed = ~Undisturbed]
     IN req' = [req EXCEPT ![r] = IF Routed(call[1]) THEN sent ELSE Answered(sent, NoBody(404))]
  /\ UNCHANGED <<profile, credential, maintenance, scenario, minute, counter, edits, failed>>

-----------------------------------------------------------------------------
(* Authentication.  Each contract's middleware is a chain of early returns; for the   *)
(* step a request is at, the first condition that holds gives the status it is        *)
(* refused with.                                                                      *)

Pass == 0

FirstRefusal(rules) ==
  LET holds == {i \in DOMAIN rules : rules[i][1]}
  IN IF holds = {} THEN Pass ELSE rules[Min(holds)][2]

Count(r) == counter[ContractOfRequest(r)][minute] + 1

(* Mutant: the count before the increment is compared. *)
OverQuotaByOne(r, fault) == fault = "none" /\ Count(r) - 1 > RateLimitPerMinute

(* FixedWindow.Allow: Redis failures fail open. *)
OverQuota(r, fault) == fault = "none" /\ Count(r) > RateLimitPerMinute

(* Mutant: the status of the credential that was found is not looked at. *)
RevokedUnread == FALSE

Revoked == credential = "REVOKED"

integrationAuth(r, fault) ==
  LET q == req[r] IN
  CASE q.pc = "admit" -> FirstRefusal(<<
         <<maintenance /\ fault = "none", 503>>,
         <<~(SharedSigned \subseteq Sent(r)), 401>>,
         <<q.flaw = "stale", 401>> >>)
    [] q.pc = "lookup" -> FirstRefusal(<<
         <<fault # "none", 500>>,
         <<credential \in {"NONE", "DELETED"}, 401>>,
         <<Revoked, 403>> >>)
    [] q.pc = "scenario" -> FirstRefusal(<<
         <<fault # "none", 500>>,
         <<scenario.ForceRateLimit, 429>> >>)
    [] q.pc = "quota" -> FirstRefusal(<<
         <<OverQuota(r, fault), 429>> >>)
    [] q.pc = "verify" -> FirstRefusal(<<
         <<fault # "none", 500>>,
         <<q.flaw = "large", 413>>,
         <<q.flaw = "unreadable", 400>>,
         <<q.flaw = "signature", 401>> >>)

shopeeIntegrationAuth(r, fault) ==
  LET q == req[r] IN
  CASE q.pc = "admit" -> FirstRefusal(<<
         <<maintenance /\ fault = "none", 503>>,
         <<~(ShopeeSigned \subseteq Sent(r)), 401>>,
         <<q.flaw = "stale", 401>> >>)
    [] q.pc = "lookup" -> FirstRefusal(<<
         <<fault = "statement", 500>>,
         <<credential \in {"NONE", "DELETED"}, 401>>,
         <<fault = "profile" \/ profile # "SHOPEE_LIKE", 403>>,
         <<Revoked, 403>> >>)
    [] q.pc = "scenario" -> FirstRefusal(<<
         <<fault # "none", 500>>,
         <<scenario.ForceRateLimit, 429>> >>)
    [] q.pc = "quota" -> FirstRefusal(<<
         <<OverQuota(r, fault), 429>> >>)
    [] q.pc = "verify" -> FirstRefusal(<<
         <<fault # "none", 500>>,
         <<q.flaw = "large", 413>>,
         <<q.flaw = "unreadable", 400>>,
         <<q.flaw = "signature", 401>> >>)

(* A failed lookup is an invalid app credential here, and the access token is compared *)
(* before anything is charged.                                                         *)
tokopediaIntegrationAuth(r, fault) ==
  LET q == req[r] IN
  CASE q.pc = "admit" -> FirstRefusal(<<
         <<maintenance /\ fault = "none", tokopediaError(500)>>,
         <<~(TokopediaSigned \ {"x-tts-access-token"} \subseteq Sent(r)), tokopediaError(InvalidCredential)>>,
         <<q.flaw = "stale", tokopediaError(TimestampExpired)>> >>)
    [] q.pc = "lookup" -> FirstRefusal(<<
         <<\/ fault # "none"
           \/ profile # "TOKOPEDIA_LIKE"
           \/ credential # "ACTIVE", tokopediaError(InvalidCredential)>>,
         <<q.flaw = "token" \/ "x-tts-access-token" \notin Sent(r), tokopediaError(InvalidCredential)>> >>)
    [] q.pc = "scenario" -> FirstRefusal(<<
         <<fault # "none", tokopediaError(500)>>,
         <<scenario.ForceRateLimit, tokopediaError(429)>> >>)
    [] q.pc = "quota" -> FirstRefusal(<<
         <<OverQuota(r, fault), tokopediaError(429)>> >>)
    [] q.pc = "verify" -> FirstRefusal(<<
         <<fault # "none", tokopediaError(500)>>,
         <<q.flaw = "large", tokopediaError(413)>>,
         <<q.flaw = "unreadable", tokopediaError(400)>>,
         <<q.flaw = "signature", tokopediaError(InvalidCredential)>> >>)

Refusal(r, fault) ==
  CASE ContractOfRequest(r) = "shared" -> integrationAuth(r, fault)
    [] ContractOfRequest(r) = "shopee" -> shopeeIntegrationAuth(r, fault)
    [] ContractOfRequest(r) = "tokopedia" -> tokopediaIntegrationAuth(r, fault)

(* The statements of a step that may fail. *)
Failing(r) ==
  {"statement"} \cup IF req[r].pc = "lookup" /\ ContractOfRequest(r) = "shopee"
                     THEN {"profile"} ELSE {}

Fails(r, fault) ==
  \/ fault = "none" /\ UNCHANGED failed
  \/ fault \in Failing(r) /\ failed' = failed \cup {r} /\ Cardinality(failed') <= MaxFaults

Following == [admit |-> "lookup", lookup |-> "scenario", scenario |-> "quota",
              quota |-> "verify", verify |-> "inject"]

(* Passing a step: the scenario is read once and kept, the quota charged once. *)
Advanced(r, fault) ==
  LET q == [req[r] EXCEPT !.pc = Following[req[r].pc]] IN
  CASE req[r].pc = "scenario" -> [q EXCEPT !.scenario = scenario]
    [] req[r].pc = "quota" -> [q EXCEPT !.charged = (fault = "none"), !.window = minute]
    [] OTHER -> q

Authenticate(r, fault) ==
  /\ req[r].pc \in DOMAIN Following
  /\ Fails(r, fault)
  /\ LET refusal == Refusal(r, fault)
         next == IF refusal = Pass THEN Advanced(r, fault) ELSE Answered(req[r], Error(refusal))
     IN req' = [req EXCEPT ![r] = [next EXCEPT !.disturbed = @ \/ fault # "none"]]
  /\ counter' = IF req[r].pc = "quota" /\ fault = "none"
                THEN [counter EXCEPT ![ContractOfRequest(r)][minute] = Count(r)] ELSE counter
  /\ UNCHANGED <<profile, credential, maintenance, scenario, minute, edits>>

-----------------------------------------------------------------------------
(* The scenario, read by the authentication, strikes before the handler runs. *)

(* Mutant: the failure is answered and the chain is not aborted. *)
FailWithoutAbort(r) ==
  /\ TRUE \in Hits(req[r].scenario.APIRandom500Probability)
  /\ req' = [req EXCEPT ![r] =
       [Answered(@, Error(providerError(ContractOfRequest(r), 500))) EXCEPT !.work = "executed"]]

Fail(r) ==
  /\ TRUE \in Hits(req[r].scenario.APIRandom500Probability)
  /\ req' = [req EXCEPT ![r] = Answered(@, Error(providerError(ContractOfRequest(r), 500)))]

(* Nothing is written for 35 s.  A shorter RequestLifetime has closed the connection by *)
(* then, as has a client that gave up; otherwise gin sends its default status.          *)
TimeOut(r) ==
  /\ FALSE \in Hits(req[r].scenario.APIRandom500Probability)
  /\ TRUE \in Hits(req[r].scenario.APITimeoutProbability)
  /\ \E answer \in {NotAnswered, IF RequestLifetime < SimulatedTimeout THEN NotAnswered ELSE NoBody(200)} :
       req' = [req EXCEPT ![r] = Answered(@, answer)]

Survives(r) ==
  /\ FALSE \in Hits(req[r].scenario.APIRandom500Probability)
  /\ FALSE \in Hits(req[r].scenario.APITimeoutProbability)

(* The request goes on after its delay, maybe past the write deadline, unless the client *)
(* has gone by then.                                                                     *)
Slow(r) ==
  /\ Survives(r)
  /\ req[r].scenario.APISlowMS > 0
  /\ TRUE \in Hits(req[r].scenario.APISlowProbability)
  /\ \/ req' = [req EXCEPT ![r] = Answered(@, NotAnswered)]
     \/ req' = [req EXCEPT ![r].pc = "handle",
                           ![r].late = req[r].scenario.APISlowMS >= 1000 * RequestLifetime]

Continue(r) ==
  /\ Survives(r)
  /\ req[r].scenario.APISlowMS = 0 \/ FALSE \in Hits(req[r].scenario.APISlowProbability)
  /\ req' = [req EXCEPT ![r].pc = "handle"]

applyScenario(r) ==
  /\ req[r].pc = "inject"
  /\ Fail(r) \/ TimeOut(r) \/ Slow(r) \/ Continue(r)
  /\ UNCHANGED <<profile, credential, maintenance, scenario, minute, counter, edits, failed>>

-----------------------------------------------------------------------------
(* The handlers: how each answers what it cannot do.  Statuses of 500 need a failing    *)
(* statement; the other failures of the order handlers are answered as a bad request.  *)

catalogRefusals ==
  [ListWarehouses |-> {500}, GetWarehouse |-> {404},
   ShopeeListProducts |-> {400, 500}, ShopeeGetProduct |-> {404},
   TokopediaSearchProducts |-> {tokopediaError(400), tokopediaError(500)},
   TokopediaGetProduct |-> {tokopediaError(400)}]

fulfillmentRefusals ==
  [ShopeeListOrders |-> {400, 500}, ShopeeGetOrder |-> {404}, ShopeeCancelOrder |-> {400, 404},
   ShopeeProcessOrder |-> {400}, ShopeeReadyToShipOrder |-> {400},
   ShopeeCreatePackage |-> {400}, ShopeeCreateShipment |-> {400},
   TokopediaCancelOrder |-> {tokopediaError(400), tokopediaError(NotPossible)},
   TokopediaCreateShipment |-> {tokopediaError(NotPossible)}]

tokopediaRefusals ==
  [TokopediaSearchOrders |-> {tokopediaError(400), tokopediaError(500)},
   TokopediaGetOrder |-> {tokopediaError(400)},
   TokopediaPackOrder |-> {tokopediaError(400)}, TokopediaHandoverOrder |-> {tokopediaError(400)},
   TokopediaConfigureWebhooks |-> {tokopediaError(400), tokopediaError(500)}]

webhookRefusals ==
  [CreateWebhook |-> {400, 500}, ListWebhooks |-> {400, 500}, DeleteWebhook |-> {404, 500},
   ShopeeCreateWebhook |-> {400, 500}, ShopeeListWebhooks |-> {500}]

HandlerRefusals == [op \in Operations |->
  CASE op \in DOMAIN catalogRefusals -> catalogRefusals[op]
    [] op \in DOMAIN fulfillmentRefusals -> fulfillmentRefusals[op]
    [] op \in DOMAIN tokopediaRefusals -> tokopediaRefusals[op]
    [] OTHER -> webhookRefusals[op]]

Success(op) ==
  CASE op = "CreateWebhook" -> Data(201)
    [] op = "DeleteWebhook" -> NoBody(204)
    [] OTHER -> Data(200)

(* What a mutation answers when its COMMIT, or its one statement, reports a failure: *)
(* the connection may have broken after the database did what it was asked.          *)
CommitError(op) ==
  IF op \in {"CreateWebhook", "DeleteWebhook", "ShopeeCreateWebhook", "TokopediaConfigureWebhooks"}
  THEN Error(500) ELSE Error(400)

(* The reads that go through their rows, or those of an order's lines, packages and     *)
(* shipments, without asking whether they came to the end: the answer holds what was    *)
(* read by then.                                                                        *)
PartialReads ==
  {"ShopeeListProducts", "TokopediaSearchProducts", "ShopeeListOrders", "TokopediaSearchOrders",
   "ListWebhooks", "ShopeeListWebhooks", "ShopeeGetOrder", "TokopediaGetOrder"}

Respond(r, fault, answer, work) ==
  LET q == Answered(req[r], answer)
  IN req' = [req EXCEPT ![r] = [q EXCEPT !.work = work, !.disturbed = q.disturbed \/ fault # "none"]]

(* The handler of a read, or of a mutation whose key was claimed; a mutation's answer is *)
(* held back until it is stored, and replaced if that fails.                             *)
Handle(r, fault) ==
  LET op == req[r].op IN
  \/ /\ fault = "none" \/ op \in PartialReads
     /\ Respond(r, fault, Success(op), "executed")
  \/ \E status \in HandlerRefusals[op] :
       /\ fault = "none" => status # 500
       /\ Respond(r, fault, Error(status), "refused")
  \/ /\ fault # "none" /\ op \in Idempotent
     /\ \E answer \in {CommitError(op), idempotencyError(500)} : Respond(r, fault, answer, "executed")

Claimable(r) == "Idempotency-Key" \in Sent(r) /\ req[r].flaw # "longKey"

(* The key is missing or too long, could not be claimed, or belongs to another request:  *)
(* one that ended is replayed, one with another body or still running is a conflict.     *)
Withheld(r, fault) ==
  \/ /\ ~Claimable(r) /\ fault = "none"
     /\ Respond(r, fault, idempotencyError(400), "withheld")
  \/ /\ Claimable(r) /\ fault # "none"
     /\ Respond(r, fault, idempotencyError(500), "withheld")
  \/ /\ Claimable(r) /\ fault = "none"
     /\ \/ Respond(r, fault, Success(req[r].op), "replayed")
        \/ Respond(r, fault, idempotencyError(409), "withheld")

Serve(r, fault) ==
  /\ req[r].pc = "handle"
  /\ Fails(r, fault)
  /\ IF req[r].op \in Idempotent
     THEN Withheld(r, fault) \/ (Claimable(r) /\ Handle(r, fault))
     ELSE Handle(r, fault)
  /\ UNCHANGED <<profile, credential, maintenance, scenario, minute, counter, edits>>

-----------------------------------------------------------------------------
(* Operators, and the clock. *)

Edit == edits < MaxEdits /\ edits' = edits + 1

putScenario ==
  /\ Edit
  /\ \E v \in Scenarios : Validate(v) /\ scenario' = v
  /\ req' = Disturb(req)
  /\ UNCHANGED <<profile, credential, maintenance, minute, counter, failed>>

setMaintenance ==
  /\ Edit
  /\ maintenance' \in BOOLEAN
  /\ req' = Disturb(req)
  /\ UNCHANGED <<profile, credential, scenario, minute, counter, failed>>

createCredential ==
  /\ credential = "NONE"
  /\ credential' = "ACTIVE"
  /\ UNCHANGED <<profile, maintenance, scenario, minute, counter, req, edits, failed>>

revokeCredential ==
  /\ Edit
  /\ credential \in {"ACTIVE", "REVOKED"}
  /\ credential' = "REVOKED"
  /\ req' = Disturb(req)
  /\ UNCHANGED <<profile, maintenance, scenario, minute, counter, failed>>

(* A reset deletes the shop's credentials; the one it seeds is another one, and the *)
(* scenario stays.                                                                  *)
resetShopData ==
  /\ Edit
  /\ credential # "NONE"
  /\ credential' = "DELETED"
  /\ req' = Disturb(req)
  /\ UNCHANGED <<profile, maintenance, scenario, minute, counter, failed>>

Minute ==
  /\ minute < MaxMinute
  /\ minute' = minute + 1
  /\ UNCHANGED <<profile, credential, maintenance, scenario, counter, req, edits, failed>>

Next ==
  \/ \E r \in Requests : \E call \in Calls[r] : Send(r, call)
  \/ \E r \in Requests, fault \in {"none", "statement", "profile"} : Authenticate(r, fault) \/ Serve(r, fault)
  \/ \E r \in Requests : applyScenario(r)
  \/ putScenario \/ setMaintenance \/ createCredential \/ revokeCredential \/ resetShopData
  \/ Minute

Spec == Init /\ [][Next]_vars

-----------------------------------------------------------------------------
(* Properties. *)

RequestRow ==
  [pc : {"new", "admit", "lookup", "scenario", "quota", "verify", "inject", "handle", "done"},
   op : Operations \cup {"none"}, flaw : AllFlaws,
   scenario : Scenarios \cup {NoFaults}, late : BOOLEAN,
   charged : BOOLEAN, window : 0 .. MaxMinute,
   answer : [status : {0} \cup 100 .. 599, body : {"none", "data", "error", "idempotency"}],
   work : {"none", "withheld", "refused", "executed", "replayed"}, dead : BOOLEAN, disturbed : BOOLEAN]

(* Every variable keeps its type: no error code of a provider is ever sent as an HTTP *)
(* status.                                                                            *)
TypeOK ==
  /\ profile \in {"SHOPEE_LIKE", "TOKOPEDIA_LIKE"}
  /\ credential \in {"NONE", "ACTIVE", "REVOKED", "DELETED"}
  /\ maintenance \in BOOLEAN
  /\ scenario \in Scenarios \cup {NoFaults}
  /\ minute \in 0 .. MaxMinute
  /\ counter \in [Contracts -> [0 .. MaxMinute -> Nat]]
  /\ req \in [Requests -> RequestRow]
  /\ edits \in 0 .. MaxEdits
  /\ failed \subseteq Requests

Done(r) == req[r].pc = "done"
Succeeded(r) == req[r].answer.status \in 200 .. 299

(* The quota comes ahead of the signing path: of the requests of one contract whose    *)
(* count Redis kept, no more than the limit get past it in any minute, however their   *)
(* steps interleave with each other and with the clock.                                *)
QuotaHolds ==
  \A c \in Contracts, m \in 0 .. MaxMinute :
    Cardinality({r \in Requests : /\ req[r].charged /\ req[r].window = m
                                  /\ ContractOfRequest(r) = c}) <= RateLimitPerMinute

(* A credential that was revoked, or deleted by a reset, before a request arrived      *)
(* serves nothing: the request is neither executed nor answered from a stored          *)
(* response, whatever its contract.                                                    *)
DeadCredentialServesNothing ==
  \A r \in Requests : req[r].dead => req[r].work = "none" /\ ~Succeeded(r)

(* The contract whose shops a request's operation belongs to is the shop's own. *)
RightProfile(r) ==
  CASE ContractOfRequest(r) = "shared" -> TRUE
    [] ContractOfRequest(r) = "shopee" -> profile = "SHOPEE_LIKE"
    [] ContractOfRequest(r) = "tokopedia" -> profile = "TOKOPEDIA_LIKE"

(* A sound request during whose flight no fault, maintenance or credential change was  *)
(* in force reaches its handler or its idempotency key, and no failure of the server   *)
(* is its answer, unless its quota is spent: cleared scenarios and past maintenance    *)
(* leave nothing behind.                                                               *)
UndisturbedRequestIsServed ==
  \A r \in Requests :
    Done(r) /\ ~req[r].disturbed /\ req[r].flaw = "none" /\ RightProfile(r) =>
      \/ /\ req[r].work # "none"
         /\ Succeeded(r) \/ req[r].answer.status \in {400, 404, 409}
      \/ /\ req[r].answer.status = 429
         /\ \E m \in 0 .. minute : counter[ContractOfRequest(r)][m] > RateLimitPerMinute

Worked(r) == req[r].work \in {"executed", "replayed"}

(* The answer tells what happened.  A success was executed, now or by the request it   *)
(* replays.  What is refused was not executed, but for one case: a mutation that met a *)
(* failing statement of its own, at its COMMIT or when its response was stored, and     *)
(* answers with the error of that statement.  So neither the middleware, a scenario or *)
(* a conflict nor any 401, 403, 404, 409, 413, 429 or 503 ever hides an executed       *)
(* mutation; a 400 or 500 after a failure, and no answer at all, leave it open.        *)
AnswerTellsOutcome ==
  \A r \in Requests : Done(r) =>
    /\ Succeeded(r) => Worked(r)
    /\ Worked(r) /\ ~Succeeded(r) /\ req[r].answer # NotAnswered =>
         /\ r \in failed /\ req[r].op \in Idempotent
         /\ req[r].answer \in {CommitError(req[r].op), idempotencyError(500)}

(* The generated client and the server fit each other.  The client is never turned     *)
(* away for a route; called with its parameters, never for a missing key, nor, on a    *)
(* shop of its profile that nothing disturbs, for its credential.  And it decodes the  *)
(* answers TestPublicMutationIdempotencyContract asks of the contract it is generated  *)
(* from: the success, the refused credential, the conflict and the oversized body of   *)
(* every mutation.  It does not decode every refusal: the 404 of ShopeeCancelOrder,    *)
(* say, leaves its typed fields empty.                                                 *)
ClientFitsServer ==
  \A r \in Requests : Done(r) =>
    /\ req[r].answer # NoBody(404)
    /\ req[r].flaw = "none" => req[r].answer # idempotencyError(400)
    /\ req[r].flaw = "none" /\ ~req[r].disturbed /\ RightProfile(r) => req[r].answer.status # 401
    /\ req[r].op \in Idempotent /\ req[r].answer.body # "none"
         /\ (Succeeded(r) \/ req[r].answer.status \in {401, 409, 413}) =>
         req[r].answer.status \in Client[req[r].op].decodes
=============================================================================
