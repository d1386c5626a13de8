# A verification of the order system

The repository is a set of NestJS services that take an order, reserve its
stock, charge the customer and tell them how it ended, with RabbitMQ between the
services, one Postgres database per service and, between the order table and
RabbitMQ, Debezium and Kafka.  This directory holds TLA+ models of the parts
that change state concurrently, the TLC runs that check them on small instances,
and theorems proved with TLAPS for every instance.  `PROJECT.json` lists the
components, the runs, the source lines each definition models, the hazards and
the findings.

To check: `tlc -config <run>.cfg <module>.tla` for a run, `tlapm
<module>Proofs.tla` for the proofs.

## 1. The system

| Component | State | Operations |
|---|---|---|
| order creation (`order-service/src/order`) | `orders`, `outbox_events`, the price breaker | `createOrder`: price lookup by RPC, then order and outbox event in one transaction |
| outbox relay (`order-service/src/outbox-relay`) | the Kafka consumer and its group's committed offset | connect with back-off, `eachMessage` republishes `order.created` |
| saga orchestrator (`order-service/src/saga`) | `orders.status`, the inventory breaker | `handleOrderCreated`, `handlePaymentSucceeded`, `handlePaymentFailed` |
| inventory (`inventory-service/src/inventory`) | `stock_items` (availableQuantity, reservedQuantity), `reservations` (unique orderId) | RPCs `reserve`, `confirm`, `release` |
| payment (`payment-service/src/payment`) | `payments`, three retry queues, a DLQ, the gateway breaker | `processPaymentRequested`, `publishResult` |
| notification (`notification-service`) | none | sends on `order.status-changed` |
| catalog (`catalog-service/src/catalog`) | `products` (unique productId) | `create`, `getPrices` RPC |
| accounts (`auth-service/src/auth`) | `users` (unique email) | `register`, `login`, `me`; `roles.guard` |
| gateway (`gateway-service/src`) | a rate-limit counter in a Redis that its replicas share | rate limit, proxying with a timeout |
| health, metrics, tracing, migrations, manifests | none that the above depend on | |

How they interact.  The gateway forwards `POST /orders` to order-service, which
asks catalog for prices and writes the order with its outbox event.  Debezium
copies the event to Kafka; the relay publishes it as `order.created`.  The saga
reserves stock by RPC and, on success, marks the order `INVENTORY_RESERVED` and
publishes `payment.requested`; on a refusal, an error or a timeout it cancels
the order.  payment-service charges once per order and publishes
`payment.succeeded` or `payment.failed`, upon which the saga confirms the
reservation and completes the order, or releases it and cancels the order.  The
final status is published as `order.status-changed`.  Nothing is shared but the
queues: every service has its own database, and every service runs in several
replicas.

What is hard about it:

- *Several handlers, one row.*  Replicas serve requests of different orders for
  the same product, and duplicated requests of one order, at the same time.  The
  transactions run at READ COMMITTED, and the idempotency checks read outside
  them.
- *At least once.*  Kafka, RabbitMQ and the retry queues all duplicate.  A
  handler that dies is run again from the start, after any prefix of its steps.
- *Late calls.*  An RPC that timed out may still be executed later; the caller
  has decided otherwise by then.
- *Errors that stop at a log line.*  Handlers must never throw (the framework
  would lose the ack), so failed publishes and updates are logged and forgotten.
- *Deadlock and liveness.*  Lines of two orders lock product rows in different
  orders; a failed payment waits in a queue that nobody consumes.
- *Breakers.*  One circuit breaker stands before several operations, and the
  calls it times out go on without it: their answers, their failures and their
  requests come later, when it is in another state.
- *Failing open.*  The gateway depends on a Redis it must not depend on: every
  request asks it, waits when it is away, and must be answered all the same.

What makes each part correct:

- inventory: no product is promised beyond what is on hand; the two columns say
  what the reservations say; a booking is made and settled at most once; every
  request is eventually answered.
- payment: one payment per order; a published result is backed by a recorded
  payment; every request is eventually reported; retries end.
- saga: stock never leaves without a successful payment; nobody is charged for
  stock that was not reserved; order, stock, payment and notification end in
  agreement; every order ends.
- relay and order creation: an order is created with its event or not at all,
  and each event is published.
- catalog, accounts: one row per productId and per email, also when two requests
  race; a lookup does not answer for what it could not read; who was told that
  the account exists can log in.
- breakers: a call ends once; one probe at a time; what the service merely
  declines does not count; the breaker closes when the service is back.
- gateway: one limit for all replicas, no refusal without excess, and an answer
  for every request, whatever Redis and the services do.

## 2. The modules

| Module | Models |
|---|---|
| `Inventory` | inventory-service, statement by statement |
| `InventoryLedger` | Inventory against the ledger it keeps, and its callers |
| `StockLedger` | the abstract promise of inventory-service: bookings |
| `InventoryProofs` | theorems about Inventory |
| `LedgerProofs` | theorems about InventoryLedger, and about the sums it is stated with |
| `Payment` | payment-service and its retry and dead-letter queues, await by await |
| `PaymentProofs` | theorems about Payment |
| `OutboxRelay` | the outbox table, Debezium, the Kafka topic and the relays of the replicas |
| `OrderIntake` | catalog's `create` and `getPrices`, and `createOrder`, composed with OutboxRelay |
| `IntakeProofs` | theorems about OrderIntake and OutboxRelay |
| `OrderSaga` | the saga handlers await by await, composed with inventory, payment and notification one transaction at a time |
| `SagaProofs` | theorems about OrderSaga with any faults |
| `SagaStoryProofs` | theorems about OrderSaga until its first fault |
| `OrderLifecycle` | the abstract promise of order-service: the life of an order |
| `RpcBreaker` | the circuit breaker of the saga and the remote calls through it |
| `RpcCall` | the abstract remote call, as the saga takes it to be |
| `BreakerProofs` | theorems about RpcBreaker |
| `Gateway` | the rate limiter with its shared Redis, and the proxy |
| `Accounts` | auth-service: register, login, me |
| `FrontDoor` | Gateway and Accounts composed, and the clients |
| `AccountBook` | the abstract promise of auth-service |
| `FrontDoorProofs` | theorems about FrontDoor |
| `MCInventory`, `MCPayment`, `MCOrderIntake`, `MCOrderSaga`, `MCRpcBreaker`, `MCFrontDoor` | small instances |

`InventoryLedger` extends `Inventory` and shows it to implement `StockLedger`
(refinement mapping: `booking <- reservation`).  `OrderSaga` composes the
services and implements `OrderLifecycle` (`status <- order`).  `OrderIntake`
extends `OutboxRelay`, whose way to RabbitMQ is the one step `Relay` of
`OrderSaga`.  `RpcBreaker` implements `RpcCall` (`outcome <-` where the call of
each handler is), which is the assumption under which `OrderSaga` reduces a call
to an answer, a failure, and a request that may be executed after it.
`FrontDoor` extends `Gateway` and `Accounts` and implements `AccountBook`
(`account <-` the ids of the rows of each email, `granted <-` the logins that
were answered with a token).  An inventory
operation of `OrderSaga` is two steps, as far apart as the code has them: the
lookup of the reservation, and the transaction, which is atomic here and taken
apart in `Inventory`.  Its payment steps are `Payment`'s lookup, save and publish.

### Inventory

A *request* is one AMQP message together with the run of its handler; two
requests of one order with the same operation are duplicates.  `pc` says which
await the handler is at, `item` at which order line.  `stock` and `reservation`
are the committed rows.  A row that a transaction has written is locked: `owner`
is the request that locks it and `draft` the uncommitted version, which only the
owner sees (`Seen`); `Commit` and `Rollback` end the transaction.

| Action | Code (`inventory.service.ts`) |
|---|---|
| `NackRedelivered` | a redelivered message goes to the DLQ (72-82 and the like) |
| `ReserveLookup`, `ConfirmLookup`, `ReleaseLookup` | the reservation is read, before and outside the transaction |
| `EnsureStock`, `SeedStock` | `ensureStockExists`: find, then insert `DEFAULT_STOCK_QUANTITY` |
| `TakeStock`, `DeclineStock` | the conditional update, and `affected === 0` |
| `SaveReservation` | the insert of the reservation (unique orderId) and the commit |
| `DeductStock`, `UnreserveStock` | the two decrements of each line of `confirm` (191-196, 197-202); `release` has the second only |
| `SaveSettled` | the save and the commit of `confirm` and `release` |
| `DatabaseError` | any statement fails; the catch block answers |
| `Respond` | the reply is published, the message acknowledged |
| `DeadlockVictim`, `Crash` | Postgres ends a lock cycle; a replica dies, its messages come back redelivered |

An update whose WHERE clause qualifies waits for the row's lock; one that does
not qualify against the committed row does not wait.  The handler's local state
is dropped when it returns, as in the code.  Between the two decrements of a line,
`confirm`'s own row may have more reserved than available; nobody else sees it.

### Payment

Every copy of `payment.requested` is followed from its publication to its
acknowledgement (`at`, `msg`).  `msg[c].deaths` is what the code reads as
`x-death[0].count`; a message *published* anew has none, and only the *broker*,
when the delay of a retry queue ends (`Expire`), counts one.  `msg[c].retries`
is history: the true number of retries.  `maxRetries` is MAX_RETRIES, fixed at the
start.  `Lookup`, `GatewayAnswers` /
`GatewayFails`, `RetryLater`, `Save`, `PublishResult`, `Ack` and `GiveUp` are
the awaits of `processPaymentRequested`.  The three retry queues differ only in
their delays, which the model does not have, so they are one place, `delayed`.
The gateway is external: it answers, or fails.  The breaker adds a way to fail.

Faults: `Redeliver` (the replica dies, or an error the handler does not catch
ends in a requeue), `ErrorSwallowed` (such an error, with the message
acknowledged: what becomes of it is the framework's decision, so both are
possible), `PublishSwallowed` (`publishResult` logs its error and returns) and
`TimeoutCharged` (the breaker's timer ends a call whose charge goes through: the
gateway gets no idempotency key and is not asked what became of it).

Three history variables say what an order has been through: `charged`, how often
the gateway has charged it; `overlapped`, whether two copies of it were ever
processed at the same time; `faulted`, whether a fault has hit it.  The properties
are stated about *those orders* that met neither, or only one of them, so every
behaviour of the service is in the one specification `Spec`: other orders, and
this order at other times, fail as they like.

### OrderIntake and OutboxRelay

`price` is the catalog's table, `creation[c]` a `POST /products` between its
`findOne` and its insert, `request[o]` a `POST /orders` and `quote[o]` the prices
it was given.  `PriceItems` is a lookup that is answered, `PriceUnknown` every way
it is not (timeout, open breaker, DLQ, a failed query, which `getPrices` reports
as missing products).  `SaveOrder` is one transaction: order and outbox event.

| Action | Code (`outbox-relay.service.ts`, else external) |
|---|---|
| `Capture`, `CaptureAgain` | Debezium copies a committed row to the topic, once or again |
| `Connect` | `connectWithRetry` succeeds |
| `Assign`, `Rebalance` | the consumer group gives the partition to a replica; it starts at the committed offset, or at the end of the topic if there is none (`fromBeginning: false`) |
| `Fetch`, `Publish` | `eachMessage` is called with an event, and returns when the publish resolves |
| `Commit` | kafkajs commits what `eachMessage` has returned from |
| `Crash` | the replica is shut down or dies, or its publish fails and the consumer crashes |

`position[n]` counts the events consumer `n` has behind it, `resolved` the
consumers that have handled something they did not commit.  The topic has one
partition.  A replica that lost the partition may still be in `eachMessage` and
publish its event: that is a duplicate, which the saga has to bear.  The skip of
a message without a value never happens on this topic.

### RpcBreaker

`call[c]` is where the call of handler `c` is: `publishing` (`request` hands it to
RabbitMQ), `stalled` (RabbitMQ is away, the client keeps the request), `waiting`
(for the reply), `lost` (no reply will come in time), and then `answered`,
`failed` or `rejected`.  `window` is the sequence of the fires and failures of
the last `rollingCountTimeout`; `probe` holds the callers let through since the
breaker went half-open; `orphan` counts the requests whose caller has given up.
opossum is external: modelled from the options the constructor passes, and from
what its documentation says of them.

| Action | Code (`saga-orchestrator.service.ts`, else external) |
|---|---|
| `Fire` | `breaker.fire` in the three handlers (85, 129, 161): let through or rejected |
| `Publish`, `Stall` | `amqpConnection.request` with RabbitMQ there, or away |
| `Reply` | the answer; `success: false` resolves, so it is a success to the breaker |
| `Lose`, `Timeout` | the service is dead or late; the RPC's timer fires, or the breaker's, a second later, for a call that was never published |
| `HalfOpen`, `Roll` | `resetTimeout`, `rollingCountTimeout` |
| `Return` | the handler goes on |
| `ServeOrphan` | the request of a call that was given up is executed |
| `Restart` | the replica dies; its breaker starts closed |

createOrder's catalog calls go through a breaker of the same options
(`order.service.ts:36-50`), of which this is a model as well, with one operation.

### Gateway, Accounts and FrontDoor

`reply[r]` is what a client has of its request; `asking[g]` and `proxied[g]` are
the requests that replica `g` holds before and behind the limiter; `hits` is the
counter of the store; `attempts[g]` the reconnections `g` has tried in vain.
`work[r]` is where auth-service is with it, which may be further than the gateway
waits for.  `admitted` and `resent` are history: the requests this window has let
through on a count, and the counts whose answer a dropped connection has lost.

| Action | Code |
|---|---|
| `Arrive`, `Count` | `app.use(rateLimit(...))`: the script of `RedisStore` increments and answers; at most `THROTTLE_LIMIT` pass (`main.ts:74-95`) |
| `Disconnect`, `RedisDies`, `RedisReturns`, `Connect` | a connection drops after some commands were executed, and the client sends them again; Redis comes back empty |
| `ConnectFails` | `retryStrategy`; after `maxRetriesPerRequest` the waiting commands fail, the store reloads its script and asks once more, then `passOnStoreError` (`main.ts:44-84`) |
| `WindowEnds` | `windowMs` |
| `Pass`, `Deliver` | `createProxyMiddleware` (`proxy.setup.ts`) |
| `Relay`, `Sever` | the answer of the service, or `PROXY_TIMEOUT_MS` and unreachable services |
| `ReplicaDies` | its requests are not answered; the new one connects first (`enableOfflineQueue`) |
| `FindUser`, `InsertUser` | `register`: `findOne` and hash, then `save` with the unique email (`auth.service.ts:25-45`) |
| `Login`, `Me`, `Unauthorized` | `login` and `me`; the JWT guard, with a token that may expire at any moment (`auth.service.ts:47-76`) |
| `DatabaseError` | any statement fails |

A client sends its requests one after another and uses any token it was given.

### OrderSaga

`job[w]` is the message a consumer slot of the saga works on and the await it is
at: `call` (inventory-service has not looked the reservation up), `commit` (it
has, and goes on to its transaction), `wait` (for an answer that will not come),
`status`, `notify`, `publish`, `ack`.  `ServeLookup` and `ServeCommit` are the two
halves of `reserve`, `confirm` and `release`: what is committed between them is
not seen, and `confirm` and `release` save their status over it, while `reserve`
is stopped by the unique `orderId`.  `orphan` holds the RPC requests whose caller
has given up, by the half they have reached; `OrphanLookup` and `OrphanCommit`
execute them.  `free` is availableQuantity minus reservedQuantity: the two columns
are told apart in `Inventory` only.  A
redelivered RPC request goes to the DLQ there and is never answered, so a crash
of inventory-service here is `ServeCrash` followed by `TimeoutLost`.

`events` are the `order.status-changed` events that notification-service has yet
to handle, `notified` what customers were told.

Each fault (a lost or late call, `internal_error`, a crash of any service, a
failed update, publish or notification, a duplicate of the relay) takes one of
`MaxFaults`.

## 3. The runs

| Run | Instance | Shows |
|---|---|---|
| `inventory_serial` | 5 requests, 2 products, 2 orders; 107,460 states | `TypeOK`, `NoOversell`, `LedgerExact`, `ImplementsLedger`, `EveryRequestSettles` |
| `inventory_double_release` | release sent twice | `PromisesCovered` fails |
| `payment_requests` | 1 order, 3 copies, 2 requests, MAX_RETRIES 1 and 3; 220,846 states | `TypeOK`, `ResultsAreBacked`, `AtMostOnePayment`, `ChargedOnce`, `EveryRequestReported` |
| `payment_double_charge` | 1 order, 2 copies | `NoDoublePayment` fails |
| `payment_retries` | 1 order, 2 copies, no faults | `RetriesBounded` fails |
| `payment_silent` | 1 order, 2 copies | `PaymentsAreReported` fails |
| `order_intake` | 2 orders, 2 registrations of one product, 2 replicas, 2 faults; 121,088 states | `TypeOK`, `OrdersAsPriced`, `NothingSkipped`, `OrdersAnnounced` |
| `saga_faults` | 1 order, 2 saga slots, 2 payers, 4 faults; 905,666 states up to symmetry | `TypeOK`, `NothingForFree`, `NoPaymentWithoutStock` |
| `saga_faultless` | 3 orders for the stock of 2; 122,405 states | `AllOrNothing`, `FollowsLifecycle`, `EveryOrderEnds` |
| `rpc_breaker` | 2 handlers, 2 operations, window of 3, 2 faults; 94,478 states | `TypeOK`, `OneProbe`, `OnlyFaultsReject`, `ImplementsCall`, `BreakerRecovers` |
| `rpc_breaker_shared` | the same | `OwnBreaker` fails |
| `front_door` | 4 requests of 2 clients, 2 gateway replicas, limit 2, 2 faults; 1,191,221 states | `TypeOK`, `LimitKept`, `RegistrationHolds`, `OnlyExcessRefused`, `EveryRequestAnswered`, `ImplementsAccountBook` |

What the properties say:

- `NoOversell`: no committed row promises more units than are on hand.  `LedgerExact`: the two columns are what the reservations say.
  `ImplementsLedger`: every step books, settles or leaves an order, as
  `StockLedger` has it.  `EveryRequestSettles`: every message is answered or
  dead-lettered, although handlers block each other, deadlock and crash.
- `ResultsAreBacked`: a published result has its payment row, or its dead
  letter.  `AtMostOnePayment`: one row for an order of which no two copies were
  processed at once, whatever crashes and is redelivered, at any step.
  `ChargedOnce`: one charge, if no fault hit the order besides.
  `EveryRequestReported`: however often the gateway fails, the saga is told, unless
  a fault hit the order.
- `OrdersAsPriced`: what is announced is a committed order, and its prices are
  those of the catalog, although registrations of a product race.
  `NothingSkipped`: the committed offset never passes an unpublished event.
  `OrdersAnnounced`: an order written after the first commit is published.
- `NothingForFree`, `NoPaymentWithoutStock`: what survives any fault: stock leaves
  only for a payment, what is paid for was reserved, and a COMPLETED order has been
  paid and its stock has left, unless the order was charged a second time and
  *that* payment failed: then a release may have undone the confirm
  (section 4).  `AllOrNothing`,
  `FollowsLifecycle`, `EveryOrderEnds`: what holds when nothing fails.
- `OneProbe`: a half-open breaker waits for its probe or has exactly one under
  way, although a call made before the breaker opened may end meanwhile and
  close or reopen it.  `OnlyFaultsReject`: orders that inventory declines never
  make it reject.  `ImplementsCall`: a call ends once and always does, although
  two timers race and the reply may come after both.  `BreakerRecovers`: it
  closes for good when calls are no longer lost.
- `LimitKept`: the replicas together let no more than `THROTTLE_LIMIT` requests of
  a window through on a count.  `OnlyExcessRefused`: who is refused is beyond the
  limit, counting what a dropped connection had counted twice.
  `EveryRequestAnswered`: with Redis down for ever, and with services that never
  answer.  `RegistrationHolds`: a client that was told its account is created is
  not told afterwards that its password is wrong.  `ImplementsAccountBook`: an
  email belongs to the first account saved for it, and only its password gets a
  token, whatever the gateway severs, refuses or loses.

### Bounds, and why they are enough

- *Inventory.*  Two orders take p1 and p2 in opposite order, which is the
  smallest lock cycle; together they want one unit of p1 more than there is; p2
  has no row, so both may try to insert it; `o1` is reserved by two messages,
  which is the smallest race for the unique `orderId`; a confirmation and a
  release follow.  Each message may crash its replica any number of times.
- *Payment.*  Three copies are an original, its redelivery and a retry, or an
  original not yet acknowledged, its retry and the retry of that.
  `MaxRequests = 2` is a duplicated request.
  `MAX_RETRIES` is 3 in the code; in the model a build has one of `Limits`, and
  `payment_requests` checks both cases there are.  At 3 the DLQ branch is dead code,
  since the counter never exceeds 1 (see `payment_retries`): nothing but the
  gateway's answer ends a request, which goes round the retry queue any number of
  times.  At 1 the branch runs.  `MaxCounted` bounds the history `retries`, which
  only `payment_retries` looks at.  Orders do not
  interact, and the theorems are about any number of them.
- *OrderIntake.*  Two registrations of one product are the smallest race for the
  unique `productId`, and two orders the smallest relay in which an offset can
  pass an event.  Two faults are a crash and a rebalance, or a duplicate, in one
  behaviour.
- *OrderSaga.*  With one order, four faults are enough for a duplicate, a late
  call and two crashes in one behaviour.  Orders interact only through `free`,
  which `saga_faultless` has three orders compete for.
- *RpcBreaker.*  Two handlers are the smallest case of a call that ends in the
  half-open state of another's probe; with a window of three events one failure
  is above or below the threshold.  Two faults open the breaker and fail the
  probe, or open it and restart the replica.
- *FrontDoor.*  Two clients race for one email, and one of them goes on to log in
  and ask for its profile: four requests, so that a limit of two is exceeded.
  Two replicas share the counter, two faults are Redis and a connection, or a
  connection and a replica.  `MaxRetriesPerRequest` is 1, not 5: a longer outage
  only repeats the same step.  The limit counts each client address for itself;
  the two clients are behind one.

### Assumptions on the environment

- `SerialSend` (`inventory_serial`): the caller asks for one settlement of
  an order at a time and does not confirm after a release.  The saga does so as
  long as payment reports one outcome and does not duplicate it; that it does
  until a first fault is `CallsBeforeFaults` (section 5).  `inventory_double_release`
  drops the assumption, and shows why it is needed.  `NoOversell` needs no such assumption:
  that is what its theorem says.
- `saga_faultless` sets `MaxFaults = 0`: the agreement of all parts and the
  lifecycle are what the code promises when nothing fails.  What survives faults
  is in `saga_faults`.
- A Redis that is connected answers (`Gateway`).  ioredis has no `commandTimeout`
  here, so a server that holds the connection and is silent would hold the requests
  for as long; `EveryRequestAnswered` does not cover that.
- In `RpcBreaker`, `TypeOK` includes that a request outlives its caller only after a
  fault: the handlers await their calls.

### Fairness

A handler that has a message runs to its end: Node schedules every resolved
promise, so each handler is weakly fair, and so are the relay and the consumers.
In `Inventory` the fairness of `Handle(r)` includes `DeadlockVictim`, which
stands for Postgres's deadlock detector; a waiting transaction is not
enabled, and gets its row because its holder ends, and it is not overtaken
for ever because the requests are finitely many.  In `Payment`, the gateway answers a request that it is asked infinitely
often (strong fairness of `GatewayAnswers`): it may fail any number of times but
not for ever.  In `OutboxRelay`, Debezium copies what is committed, and a replica
does what it can: `connectWithRetry` goes on for ever, the group gives a free
partition away, a publish is resolved or crashes the consumer.  The breaker
half-opens after its reset timeout, so it does not
turn that assumption false; that it does is what `RpcBreaker` shows.  There, its
two timers and the timers of the calls fire, and there is always another order
to handle (a breaker only closes when somebody calls); the service need not
answer any particular call, it only loses finitely many (`MaxFaults`).  In `FrontDoor` a client of Redis
reconnects or goes on trying, Redis answers when it is up, and
`PROXY_TIMEOUT_MS` fires; the services need not answer and Redis need not come
back.  No fairness is put on sending, on registering
products, on creating orders, or on any fault: nobody has to order and nothing has to fail, or to stop failing.

## 4. What the checks found

1. `inventory_double_release`.  `confirm` and `release` read the reservation's
   status outside the transaction that changes it.  Two overlapping releases of
   one order both see `RESERVED` and both give the units back, although the
   entity calls the row an idempotency key.
2. `payment_double_charge`.  The lookup of an existing payment and its save are
   apart, and `orderId` is not unique in `payments`: copies processed at the
   same time are both charged.
3. `payment_retries`.  A retry is a newly published message, so `x-death` starts
   over and `MAX_RETRIES` is never reached.
4. `payment_silent`.  A duplicate of a request whose payment is saved is skipped
   without publishing the result, so a result lost once is lost for good and the
   order stays `INVENTORY_RESERVED`.
5. `rpc_breaker_shared`.  The saga has one breaker for its three operations, and
   no `volumeThreshold`: in a quiet window one lost reservation is more than 50%
   of the calls, and a confirmation, which has never failed, is rejected.  The
   handler logs that and acknowledges, so the paid order is never completed.  The
   comment speaks of one breaker per operation.

More that the code does and the models have, but no run is spent on.  All but the last
take a fault or an overlap, as the passing runs show:

- `confirm` stops for a CONFIRMED reservation only.  One that was RELEASED has no
  units any more, and confirming it takes those of other orders.  Opposite outcomes
  of two payments make the saga ask for it.
- The unguarded read of 1, seen from the customer: a release that read RESERVED
  commits after the confirm, and the order that was COMPLETED on the confirm's
  answer has no stock.  One crash of a saga handler is enough: order.created is
  redelivered, payment is requested twice, two consumers charge at once (2), with
  opposite outcomes.  `NothingForFree` says that it takes both payments.
- A release that fails is logged and not retried, while the order is reported as
  cancelled, `inventory released`: its stock stays reserved (`CallFails` or
  `ServeError` of a release in `OrderSaga`).
- `setStatus` sets any status over any other, so a second order.created, which the
  relay publishes after a crash, sets an order that has ended back to
  INVENTORY_RESERVED and requests its payment (`RelayAgain`).
- The relay subscribes with `fromBeginning: false`, and kafkajs commits only what it
  has handled.  While the group has no offset, a consumer that starts skips what is
  already on the topic, and these orders stay PENDING (`StartPosition`).
  `OrdersAnnounced` is therefore about orders written after the first commit.

## 5. What is proved

### Inventory

`InventoryProofs` proves, for any number of orders, products, lines, requests
and any initial stock, under the named assumptions of `Inventory` only:

- `TypeCorrect`: `Spec => []TypeOK`, which includes that a row has an
  uncommitted version exactly while a transaction locks it, and that only a
  handler inside its transaction holds locks;
- `NeverOversold`: `Spec => []NoOversell`.  `Spec` lets order-service send
  anything, any number of times, in any order.

`NoOversell` is about committed rows and not inductive.  What a transaction will
commit must be known before it does, and between the two decrements of a line
`confirm`'s own row *may* promise too much: by the units it has deducted and not
yet unreserved (`Owed`), and by no more (`DraftsCovered`).  `release` takes a line's
units off `reserved` only, and keeps `reserved <= available` *if they are
positive*: a negative line would raise the promise.  `reserve` checks each line as it comes to it, so
every line of an order that *has a reservation* is positive and has a stock row,
and so has every line a running `reserve` has passed.  The inductive invariant
`IInv` therefore joins `TypeOK` and `NoOversell` with `DraftsCovered`, `BookedLines`
(the lines of every reservation on record are positive and on record) and `Positions` (what
each handler knows at the statement it is at: the lines it has passed, and that
an order being settled has a reservation).

The argument has three layers: what each database operation (write, commit,
rollback) preserves; what a step of one handler preserves, given that it moves
only itself (`HandlerStep`, `ControlStep`, `RollbackStep`); and one lemma per
action.  `Invariance` puts them together.

### The ledger

`LedgerProofs` proves, for any finite set of orders, any number of products,
lines, replicas and messages, and a caller as in `SerialSend`:

- `LedgerIsExact`: `SerialSpec => []LedgerExact`;
- `SerialCovers`: `SerialSpec => []PromisesCovered`, which `inventory_double_release`
  shows to fail for other callers;
- `ServiceImplementsLedger`: `SerialSpec => ImplementsLedger`.

`LedgerExact` relates committed rows to committed reservations, and both change in
one step only, the commit; but what the commit writes was put together line by
line, between the statements of others.  `LInv` adds to `IInv` what is known on
the way:

- `Drafts`: the row a transaction has written is the committed row of the product
  with the units of the lines it is past (`Base`, `Passed`, `After`), but for the units
  it owes (`Owed`) between the two decrements of a line, and it is past no line of a product whose row it does not hold.  The row lock is what
  keeps this true: nobody commits a row that somebody else has written;
- `Serial`, `ReleaseAsked`, `StillReserved`: a settlement in progress is the only
  one of its order, and the reservation is still `RESERVED` although it was read
  outside the transaction.  `confirm` would also settle a `RELEASED` one; such a
  one has had its release sent, after which the caller does not confirm;
- `Columns`: `LedgerExact` with a product that has no row counted as the row it
  would be given.

So a commit past the last line moves both columns by the demand of its order
(`CommitBase`), and the sums over the orders by the same (`BookedMove`).

*Sums.*  `Demand` and `Booked` are folds over finite sets, that is, recursive
functions.  `LedgerProofs` proves of them what the ledger needs: a sum over the
empty set is 0, any element can be taken out of a sum (`SumRemove`), sums over
disjoint sets add up (`SumUnion`).  The library's induction theorems take an
operator as a parameter and cannot be used; the inductions are stated of the *set*
of numbers for which a fact holds instead (`NatInd`), which follows from the
well-foundedness of `<` (`Least`).  The fold itself is a `CHOOSE` of a recursive
function, so it is first shown that there is one (`AddsExists`) and that there is
no other (`AddsUnique`).

### Payment

`PaymentProofs` proves, for any number of orders, copies, requests and retries:

- `TypeCorrect`: `Spec => []TypeOK`, which includes that a copy carries an
  outcome exactly while it is being saved or announced;
- `ResultsBacked`: `Spec => []ResultsAreBacked`, with every fault and with copies
  of one order processed at the same time.  The strengthening is that a copy
  about to announce an outcome has it recorded already;
- `PaidOnce`: `Spec => []AtMostOnePayment`.  The strengthening is that, of an
  order that is not in `overlapped`, at most one copy is past the lookup and
  before the save, and it finds the payments of its order still empty;
- `GatewayChargesOnce`: `Spec => []ChargedOnce`.  A charge leads to the save in
  the same handler, so an order with a charge has its row or a copy about to
  write it, unless a fault came between.

### Order intake and relay

`IntakeProofs` proves, for any number of orders, products, registrations,
replicas and faults:

- `TypeCorrect`: `Spec => []TypeOK`;
- `AsPriced`: `Spec => []OrdersAsPriced`.  A price is set once and never
  changes, and Debezium and the relay announce only what was announced or
  written before;
- `NeverSkips`: `Spec => NothingSkipped`, an action property.  It rests on
  `HandAtPosition` (what a consumer has in hand is the event at its position)
  and `OwnerAhead` (the owner of the partition is at or past the committed
  offset, and all in between is published).

### Saga

`SagaProofs` proves, for any number of orders, handlers, payment consumers and
faults, and whatever the stock and the orders' units:

- `TypeCorrect`: `Spec => []TypeOK`;
- `PaidFor`: `Spec => []NothingForFree`;
- `ChargedForStock`: `Spec => []NoPaymentWithoutStock`.

Neither property is inductive: a confirmation may be looked up and executed long
after its caller has gone, over what was committed since, and a status set long
after the answer.  The invariant says that
every message, running handler and orphaned call *carries its cause*: a queued,
running or orphaned confirmation has a successful payment, a release a failed
one, a payment request and a charge a reservation, a handler about to set
`COMPLETED` a settled one (`MessagesBacked`, `OrphansBacked`, `JobsBacked`,
`ChargesBacked`).  A confirm and a release may overwrite each other, but neither
makes an order unsettled, and payments are never undone (`Grows`), so a cause, once
there, stays.  A settled reservation that is not CONFIRMED is RELEASED, which takes
a failed payment.

`SagaStoryProofs` proves, for any number of orders, handlers and payment
consumers:

- `AgreeWithoutFaults`: `MaxFaults = 0 => (Spec => []AllOrNothing)`;
- `ImplementsLifecycle`: `MaxFaults = 0 => (Spec => FollowsLifecycle)`;
- `AgreeBeforeFaults` and `LifecycleBeforeFaults`: the same of every behaviour, up
  to the first fault, whatever `MaxFaults` is;
- `CallsBeforeFaults`: until then, inventory-service is asked one thing of an order
  at a time, to reserve what has no reservation and to settle a RESERVED one, which
  is what `SerialSend` assumes of its caller.

`AllOrNothing` speaks of a quiet system, `FollowsLifecycle` of every update of a
status, although `setStatus` looks at no earlier one.  Both come from one invariant,
`StoryInv`: until the first fault each order is in *exactly one place* (waiting for
the relay, one message in one queue, one handler, one charge, or finished), and its
status, its booking, its payment and what its customer was told are what that place
says (`Story`).  A step takes one order from its place to the next, and leaves the
story of the others as it is (`Apart`).

### Breaker

`BreakerProofs` proves, for any finite set of handlers and any operations,
threshold, window and faults:

- `TypeCorrect`: `Spec => []TypeOK`;
- `SingleProbe`: `Spec => []OneProbe`, with `ProbeOnlyHalfOpen` (a breaker that is
  not half-open knows of no probe), since any call may move the breaker;
- `RejectsAfterFaults`: `Spec => []OnlyFaultsReject`, with `FaultFirst` (what leads
  to a failure of a call, or comes of one, takes a fault);
- `EndsOnce`: every step of the breaker is a step of `RpcCall`, or none: the safety
  part of `ImplementsCall`.  That the call does end is liveness.

### Front door

`FrontDoorProofs` proves, for any finite set of clients' requests, any number of
replicas, any limit and any faults:

- `TypeCorrect`: `Spec => []TypeOK`;
- `LimitHolds`: `Spec => []LimitKept`, with `Counted` (the counter of Redis is at
  least what it let through in this window, and at most that and what was counted
  again, unless the limit is reached);
- `ExcessOnly`: `Spec => OnlyExcessRefused`, from `Counted` too: whoever is refused
  finds the counter at the limit, which `Counted` puts down to this window;
- `RegistrationsHold`: `Spec => []RegistrationHolds`.  A login is sent when all
  earlier requests of its client are answered, and stays with one replica
  (`Carried`, `InTurn`); a client that was told of its account has a row
  (`Recorded`); rows stay;
- `Refinement`: `Spec => ImplementsAccountBook`.  A step of the gateway only moves
  requests forward (`OnlyForward`) and is none of the book; a row saved is `Open`,
  since the unique email keeps the others out; a token is `Grant`.

The gateway's actions reduce to three: requests leave the limiter
(`LimiterStep`), requests are answered (`LeaveStep`), nothing moves
(`StillStep`).

### Assumptions, and what is only model-checked

The theorems use the named assumptions of the modules only: types of the
constants, and that `None` is none of the values it is told apart from.  TLC
evaluates them in the runs.

One of them restricts the system: `OrdersAssumption`, that the orders of
`InventoryLedger` are finitely many, as its sums need.  At no time are there more.

Every invariant, action property and refinement that a passing run checks is a
theorem, with one exception.  Only model-checked: the liveness part of
`ImplementsCall` and the other liveness properties (`EveryRequestSettles`,
`EveryRequestReported`, `EveryOrderEnds`, `OrdersAnnounced`, `BreakerRecovers`,
`EveryRequestAnswered`), since fairness and ENABLED are beyond the prover.  The
invariants used in the proofs were checked with TLC on the instances of the runs
before they were proved.

One branch is covered by the theorems only: the refusal of an order line with a
quantity that is not positive (`EnsureStock`), which no instance sends.

## 6. What is not modelled

- The breaker of payment-service by its states: it stands before one operation
  with no queue behind it, so its rejections and timeouts are outcomes of the
  gateway call in `Payment`.
- The gateway's other prefixes, which differ by target, and its own `/health` and
  `/metrics`, which pass the same limiter and ask nothing else.
- What a client does after no answer: a `POST /orders` sent again is a second
  order, as nothing identifies the request.
- bcrypt, and the signing and verifying of tokens: library calls whose outcome is
  what `Login`, `Me` and `Unauthorized` say.
- Totals, customers and message texts: no property depends on them.
- The payment gateway itself: it is a stand-in in the code and keeps no state;
  `charged` is what a real one would have done.
- Time: delays and timeouts are steps that may happen at any moment.  So it is
  not shown how long a request waits for a Redis that is away: two rounds of
  `maxRetriesPerRequest` attempts a second apart, which is longer than the
  readiness probe of the manifest allows.
- Health, metrics, tracing, migrations and manifests: no state the above depends
  on.  The unique constraints of the migrations and the
  broker settings are modelled where they act.
- Bootstrap scripts and front-end assets: not part of the program's logic.

## 7. Plan

Done:

1. `Inventory`, `InventoryLedger`, `StockLedger`, `InventoryProofs`: the shared
   stock, type correctness, no overselling.
2. `Payment`, `PaymentProofs`: retries, duplicates, the DLQ.
3. `OrderSaga`, `OrderLifecycle`, `SagaProofs`: the composition.
4. `OutboxRelay`, `OrderIntake`, `IntakeProofs`: prices, orders, the outbox.
5. `RpcBreaker`, `RpcCall`, `BreakerProofs`: the breaker between the saga and
   inventory-service.
6. `Gateway`, `Accounts`, `FrontDoor`, `AccountBook`, `FrontDoorProofs`: the
   accounts and the gateway before them.
7. `LedgerProofs`: the ledger is exact, and implemented, for a caller that settles
   an order once.
8. `SagaStoryProofs`: agreement and the life of an order, until a first fault.

Next, in order:

9. `SagaProofs`, continued: what the saga sends to inventory-service satisfies
   `SerialSend` also after faults, as long as payment reports one outcome of an
   order once (`CallsBeforeFaults` stops at the first fault), so that `LedgerProofs`
   applies to the composition.
10. `IntakeProofs`, continued: the safety side of `OrdersAnnounced`, that an order
    written after the first commit is in the outbox, on the topic at or after the
    committed offset, or published.
