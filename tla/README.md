# Zeus back end: models, checks and proofs

Zeus is an ERP back end of four Go services: SALES (orders and their
fulfilment), MRP (demand planning), SCM (purchasing, receiving, shipping) and
SYSTEM (users, sessions, audit). Each has its own SQLite file; they talk over
HTTP and RabbitMQ, and keep queues, counters and caches in Valkey. This
directory holds TLA+ models of the parts where requests, failures and messages
meet, the TLC configurations that check them, and proofs in TLAPS.

    tlc -workers 2 -config sales_faults.cfg MCSales     # any run: X.cfg with its MC module
    tlc -workers 2 -config installation.cfg MCInstallation
    tlapm Sales_proofs.tla                              # any module *_proofs, and Sums

`PROJECT.json` maps every definition to the lines it models and lists the runs,
the mutants (a plausible bug each property must catch), the hazards and the
theorems.

## 1. Inventory

| Part | State | Operations | What is hard | Model |
|---|---|---|---|---|
| Sales orders (`sales/internal/service/order_service.go`) | SQLite `sales_orders`, `sales_order_items` | create, PATCH, cancel, list, `POST /orders/{id}/reserve` | rows are read, tested and later written whole; the order row precedes its lines | `Sales` |
| Sales fulfilment (`fulfillment_service.go`) | SQLite `inventory_reservations`; Valkey queue (sorted set and payload hash), stock counters, reservation hashes | ProcessQueue, GetQueueStatus, the clean-ups | check-then-act over two stores without a transaction; failures between any two steps | `Sales`, `Fulfilment` |
| Sales clients (`client_service.go`) | SQLite clients, copies in Valkey by id and by name | create, read, PATCH, delete; an order counts itself in the client's row | whole rows written back from old copies; deletion with pending orders | `SalesClients` (with `Sales`) |
| Deficit pool (`scm/internal/consumer/deficit_lock.go`, `queues.go`, `rabbitmq.go`) | RabbitMQ pool, reserved (TTL 30 min, dead-letters), DLX | lock a quantity, requeue with back-off, peek, expire, reconcile | messages of partial quantities, acknowledgements before publications, a deferred close | `DeficitPool` |
| Purchase orders (`po_service.go`) | POs and lines | draft, place, add line with lock, approve, void, transition | stale statuses; one vendor, one open draft; numbers from a count | the locked line in `DeficitPool`; status and received quantities in `Receiving`; drafts and numbers in `Planning` |
| Goods receipts (`goods_receipt_service.go`) and ledger (`ledger_service.go`) | receipts, lock columns, stock, ledger entries | lock, blind receipt, release; record an entry, list entries | a sequence of writes without transaction; running balance from the latest entry; pages of a growing list | `Receiving`, `LedgerReading` |
| Shipments (`shipment_service.go`) | shipments, dispatch lock | lock, dispatch, deliver, transition | two ways to move a shipment; a delivery creates a receipt | `Receiving` |
| SCM catalogue (`inventory_service.go`, `inventory_cache.go`) | part rows and stock rows, product models, products and their cache | create, change, delete, read | a part is two rows of two tables; cache filled after the read | `Catalogue`, `Directory` |
| Vendors (`vendor_service.go`, `vendor_cache.go`) | suppliers, offers, ratings, the cached optimal supplier | create, offer, rate, choose | the choice is computed from several reads and cached later | `Directory` |
| MRP demand and readiness (`demand_service.go`, `readiness_service.go`, `production_service.go`) and consumer (`order_consumer.go`) | production orders, shortage rows, three cached answers | plan an event, check one order or all, hand shortages to SCM, delete | redelivered events, repeated publication, checks that rewrite what planning changes | `Planning`, `DemandViews`; its ends of the pool in `DeficitPool` |
| MRP catalogue and SCM client (`catalog_service.go`, `scm/client.go`, `inventory_service.go`) | bills of materials and their cache | assemblies, catalogue endpoints, ledger view and export | a bill replaced by two statements and announced by a call; reading SCM page by page | `Assemblies`, `LedgerReading` |
| System users and sessions (`user_service.go`, `auth_service.go`) | user rows with two copies in Valkey; session rows, tokens, an index, a blacklist | create, change, status, password; login, refresh, logout | two stores changed one after the other; a stale cache fill | `Identity` |
| System audit log (`audit_consumer.go`, handlers) | audit rows, the audit queue | an entry for each action; store each event, requeue on error | duplicates, endless redelivery, an entry after the answer | `AuditTrail` (with `Identity`) |
| Messaging of the four services (`queues.go`, `rabbitmq*.go`, `main.go`) | queues, bindings, what each server believes of its broker | declare, publish, subscribe, reconcile | start orders, queues declared in two ways, a broker that stops | `Messaging` |
| Migrations and seeders (`cmd/migrate`, `seeder`) | the schema and rows of four databases, the manifest file | up, down, seed, copy the manifest | runs cut off, rows seeded again, identifiers that cross databases | `Seeding` |
| Logging (`observability/log.go`) | a bounded queue, a batch | log, ship in batches, stop | what waits when the process ends | `LogShipping` |
| Configuration, `pkg/`, routes and wiring, traces and metrics, `reference/` | none the services act on | decoding, wiring | none | not modelled |

Interactions: SALES publishes manifests and order events to RabbitMQ and asks
the MRP over HTTP to reserve; the MRP consumes order events, plans production,
publishes shortages to the deficit pool and asks SCM over HTTP for purchase
order lines; SCM locks quantities in the pool, announces them on the reserved
queue (which the MRP acknowledges) and receives goods into the stock; all
services publish audit events that SYSTEM stores.

What makes each part correct:

* Fulfilment: an order is reserved once; a manifest is sent once, for what is
  reserved; stock is not promised twice; an order's status moves one way; an
  order that cannot be allocated stays on the queue; ProcessQueue ends.
* Deficit pool: a shortage is bought on one line at most; a line gets exactly
  its quantity of its SKU; nothing published is lost; a lock request answers.
* Receiving: the stock and the ledger never show more than was counted; what was
  counted is entered once; receipts are numbered without a gap; a counted
  receipt stays counted; one operator counts a receipt at a time.
* Planning: an acknowledged event was planned to its end; no more is offered
  or ordered than was recorded; an order's status and its recorded shortages
  tell the same; the views agree with each other and the stock.
* Catalogue: the two halves of a part, a bill and its announcement agree; a
  cache shows what the database holds.
* Identity: a cached account is the row; a login obeys the last change; after
  a logout nothing of the session is left; each action has its audit entry,
  and each valid event of another service is stored.
* Surroundings: rows refer to rows that are there; no message is dropped for
  want of a queue; a log entry is shipped once.

## 2. Plan

The order in which the parts were modelled, which is that of their weight:

1. `Fulfilment` (abstract) and `Sales`: the handlers a statement or command at
   a time, under concurrency and failures; `SalesClients` composes them with
   the client rows and their cached copies.
2. `DeficitPool`: the lock manager and everybody else at the queues.
3. `Receiving`: shipments and their dispatch lock, delivery, receipts, stock,
   ledger and the status of purchase orders.
4. `Planning`: order events to production orders to shortages to drafts, with
   redelivery; `DemandViews` computes the views from its state.
5. `Requests` (how a request moves on, shared by the rest), `Catalogue`,
   `Directory`, and `Assemblies`, which composes both with MRP's bills.
6. `AuditTrail` and `Identity`, which composes it with accounts and sessions.
7. `Seeding`, `Messaging`, `LogShipping`, `LedgerReading`: what the services stand
   on; `Installation` puts them side by side.

Every safety property that a run checks is proved (section 10) but `ViewsAgree` of
`DemandViews`. Parameters are constants with named assumptions and no module uses a
recursive operator, so each module can be proved about.

## 3. `Sales`: orders and fulfilment

A process is one HTTP request. A worker serves `POST /fulfillment/process`; a
clerk serves order creation, PATCH, cancel, the clearing of the queue that ends
`PATCH /clients/{id}`, and `GET /fulfillment/queue`. The program counter `pc[p]` names the next SQLite
statement or Valkey command of the request; each is one step, because nothing
in the service holds a lock across two of them (SQLite serialises statements,
Valkey commands and MULTI blocks). What the request has read is in `cur`, `row`,
`want`, `left` and `list`.

| Variable | In the code |
|---|---|
| `order`, `items`, `resv` | rows of `sales_orders` (status and lock), `sales_order_items`, `inventory_reservations` (one per order, by its unique index) |
| `atp`, `hold` | Valkey `sales:atp:<sku>`, `sales:reservation:<order>` |
| `zset`, `payload` | `sales:allocation_queue` and its payload hash |
| `disabled` | `Repository.disabled`, set by a failed probe until restart |
| `manifest` | what was published on `sales.fulfillment.processed` |

The actions, in the order ProcessQueue runs them: `ListQueue`,
`ListPendingOrders`, `RebuildClear`, `RebuildEnqueue` (rebuildQueue); `PopMin`,
`GetPayload`, `DeletePayload`, `PopEmpty` (DequeueOrder); `LoadItems`,
`CheckATP`, `Requeue`, `EnterReserve`, `RecheckATP`, `ExecReserve`,
`CreateReservation`, `MarkProcessing`, `Publish` (allocateOrder); `ReleaseRead`,
`ReleaseExec`, `DeleteReservation` (its clean-ups). A clerk has `CreateOrder`,
`CreateOrderItem`, `EnqueueNew`; `PatchRead`, `ReplaceOrderItems`, `CancelRead`,
`WriteRow`, `ClearStaleQueue`; `UpdateClient`. Failures are `CallFails`,
`WriteFails`, `ExecAnswerLost` (the block was run, the answer lost),
`ProbeFails` and `Crash`.

Abstractions. An order's columns other than status and lock are dropped. A row
of `sales_order_items` is a quantity of a SKU and who wrote it, `CreateOrder` or
an edit (`Line`): no index keeps an order from having two rows of a SKU. The
queue's score is the creation time, as the code has it, and the identifiers of
orders are numbered in that order. The listing of the queue (two reads) is one
step: it only decides whether to rebuild.

A PATCH may name an order as soon as its row is there, which `GET /orders` and
`GET /fulfillment/queue` show, so it may come between two `CreateOrderItem`
statements: `ReplaceOrderItems` replaces the rows there are, and CreateOrder adds
the rest beside them. The allocation then compares each of the two rows of a SKU
with the counter by itself and lowers it by both, while the reservation hash has one
field for a SKU and keeps the quantity of the row that was created later
(`Later`, `HSet`; either may be, by the clocks); a clean-up gives back
only what that field holds. DELIVERING and COMPLETED are written by no code under
`src/`, so they are not reached. `POST /orders/{id}/reserve` changes no state
of the service.

`SalesClients` extends `Sales` with the rows of clients, their copies under
their id and under the one name that is looked up ("Default Client"), and the
client of each order. It replaces what touches a client and takes the rest of
`Sales` as it is: `CreateOrderOfClient` is `CreateOrder` once the client is in
hand (`ResolveOrCreateClient` or `VerifyClientAPIKey`, then
`GetCachedClientByID`, `ExistsClientByName`, `GetClientByName`, `InsertClient`,
`FetchClient`, `CacheClient`), `CountOrder` writes the copy in hand over the
whole row, `EnqueueCounted` goes on; `RebuildWithClients` reads the client of
each pending order before it clears the queue, and `AllocateForClient` reads
that of the order it has marked. The requests for a client itself are
`CreateClient`, `GetClient`, `PatchClient` and `DeleteClient` with `SaveClient`,
`RemoveClient`, `ForgetOldName`, `DropClient` and `ClearAfterPatch`. Of a client
only the name is kept: its tier, its address and its count of orders are read
and written with it. `StatementFails` and `CacheCommandLost` are the failures,
`Expire` the 30 minutes of a copy.

`Fulfilment` is the abstract promise: an order is reserved, perhaps given up,
and announced once, for the quantities reserved. `Sales` implements it with
`resv` and `manifest` as they are (`ImplementsFulfilment`).

### Runs

| Run | Instance | Shows |
|---|---|---|
| `sales_faults` | 1 order, 1 SKU with 1 unit, 2 workers, 2 clerks, 1 PATCH, 2 failures | types; the counters fall below zero by at most two lines of each worker, less one (`OverdraftBounded`); `ProcessingIsReserved`, `ManifestBacked`, the inductive `OwnershipInv`, the refinement |
| `sales_clients` | 1 order, 1 SKU with 2 units, 1 worker, 1 clerk, 1 client with 2 possible names, 1 edit, 1 lost cache command, fair | stock taken equals stock reserved whenever no worker runs (`StockConserved`), an edit of a client is never overwritten by an order (`EditsKept`), ProcessQueue ends (`ProcessQueueReturns`), also when the rebuild stops at a deleted client |
| `sales_one_way` | 1 order, 1 worker, 1 PATCH, fair | violation: PROCESSING back to PENDING |

Two workers are the least that race: the double allocation of one order needs
one order, two workers and a rebuild or an enqueue, and two failures are enough
for a failing clean-up after a failing write, or for a crash after one. Two clerks
are the least that edit an order while its lines are written. `EditedByTwo` of `MCSales`
has the second do nothing else; after it the first clerk only ends its request, and
nothing fails. With a PATCH of the first clerk one thing may fail, without any PATCH
two, and that clerk lists the queue and edits clients only before the second of
these. With one order the
overdraft comes from that order taken twice, each time for two rows of its SKU:
the counter goes from 1 to -3, which is the bound. The theorems below hold
for any number of orders, and `OverdraftBounded` is stated for any. Quantities
are 0 or 1 (up to 2 in `sales_clients`): the overdraft grows with the quantity
of a line, which the bound names. PATCHes are bounded because each changes the
lines anew; cancellation and creation happen once per order. Workers are
interchangeable, and symmetry is used only in runs without liveness.
`StockConserved` is stated for one worker and no PATCH of an order. With a second
worker, or with a PATCH that changes the lines between two allocations of an
order, the second allocation writes its quantities over the first one's hash, its
reservation row is refused, and the clean-up gives back whatever the hash holds:
the stock of a reserved order. That is the hazard of
`fulfillment_service.go:154`. A PATCH may also leave two rows of a SKU, of which a
clean-up gives back one. `EditsKept` is stated for clerks that come one after
the other, and while no cache command was lost: a copy that outlived its row's
change is what an order writes back.

`FairSpec`, and `ClientsSpec` with the clients, give weak fairness to the steps of a
request that has started: the Go runtime keeps running its goroutine. No request is made to arrive.

### Disagreements with the design document

`Sales_Module_Design.md:25` asks for a one-way state machine; `UpdateOrder` and
`CancelOrder` write back the row they have read (`sales_one_way`). No run
is spent on two more of its lines: `:51` asks for an atomic RESERVE, and the
counters are read outside the MULTI block, so that the stock is promised only
up to the bound of `OverdraftBounded`; `:53` asks to requeue an order
whose RESERVE failed, and the error of the second reading (`RecheckATP`) is not
the one ProcessQueue tests for, so such an order waits for the next rebuild.

## 4. `DeficitPool`: eager slot locking

A message is a quantity of one SKU. In the model it carries that many units,
each with an identity the code does not have, so that one can say which
shortage a line was bought for. `pool`, `reserved` and `dlx` are the queues;
`peeked` is what `PeekPool` has got and will hand back; `matched`, `unmatched`,
`waiting` (in back-off) and `taken` are what a lock request holds; `ordered`
counts the lines that carry a unit.

A queue is a set and may deliver in any order: a redelivery changes the order
in the broker. Each unit has an identity, so two messages are equal only when
one is a copy of the other, made by a lost acknowledgement; a copy that is still
in the same queue as its original is merged with it.

`AddLineItemWithLock` starts a request; `GetMatch`, `GetOther`, `GetNothing` are
the gets of LockDeficit; `AckMatched`, `RequeueWithBackoff`,
`PublishRemainder`, `PublishToReserved`, `Locked`, `CreatePOLineItem` its
success; `Insufficient` its other end. `Republish` is the goroutine of
requeueWithBackoff; when the request returns first the deferred close of the
connection loses what is in `waiting`. The others at the queues are `Publish`
and `ConsumeReserved` (MRP), `Peek` and `PutBack`, `ExpireReserved` (the TTL),
`Reconcile` and `ReconcileUnacked`. `GiveUp` is the five-second limit, a
cancelled caller or a broken link at any step; `LineFails` is an error after
the lock.

| Run | Instance | Shows |
|---|---|---|
| `deficit_pool` | 3 units of 2 SKUs, 2 requests, 1 requeue, 1 failure | types, `NoDoubleBuying`, `ExactLock` |
| `deficit_returns` | 2 units of 2 SKUs, 2 requests, 1 failure, 1 expiry or copy, fair | the inductive `OnePlace`; a lock request answers (`LockReturns`) |
| `deficit_lost` | 2 units, 1 request | violation: a message in its back-off sleep is lost (`deficit_lock.go:201`) |

Two units of one SKU let a message be split, gathered from two parts and
exceed the quantity asked for; the unit of the other SKU is what a request has
to put back. Two requests are the least that take messages from each other.
One requeue before dead-lettering stands for the code's five. `MaxReopenings`
bounds expiries and copied dead letters, after which a unit may be bought
again; the code's 30-minute limit does the same, and `NoDoubleBuying` exempts
exactly these units. `FairSpec` is weakly fair to the goroutine of a lock
request only: neither the sleep of a requeue, nor a reader of the pool, nor the
broker's expiry is made to proceed.

## 5. `Receiving`: shipments, receipts, stock and ledger

A request `r` is an HTTP request being served by the repository-backed services
the server runs; they open no transaction, so each SQL statement is a step and
`req[r]` holds where the request stands and what it has read. The read of the
row, with the tests on it, is the step that starts the request; a single
statement that only tests whether another row exists is not a step.

| Variable | In the code |
|---|---|
| `ship`, `receipt` | status and lock columns of `shipments` and `goods_receipts`; "none" where there is no row |
| `lines`, `typed` | the rows of `gr_line_items` and their `ReceivedQty` (`None` for NULL) |
| `po`, `poline` | status of the purchase orders, `ReceivedQty` of their lines |
| `stock` | the stock row of a component, counted from what it was at the start |
| `balance`, `entered` | running balance of the latest ledger entry, and the sum of all entries |
| `accepted` | not in the code: the sum of the counts ever added to the stock |
| `clock` | expiry of locks: all granted before a tick have expired after it |

Shipments: `CreateShipment`, `AcquireDispatchLock` with `LockShipment`,
`ReleaseDispatchLock`, `DispatchShipment`, `TransitionShipment`, and
`MarkDelivered`, whose rest is `UpdateShipment`, `CountReceipts`, `CreateGR` and
`CreateLine`. Receipts: `AcquireLock` with `LockReceipt`, `ReleaseLock`, and
`ProcessBlindReceipt`, which goes through `ReadLines`, for each line counted
`SaveGRLineItem`, `ReadStock`, `SaveStock`, `GetLatestBalance` and `CreateEntry`,
then `GetPOLineItems`, `SavePOLineItem`, `UpdateGR`, `CountOpen`, `SavePO`.
Orders: `ApprovePO` and `TransitionPO`, with `WritePOStatus`. A failed statement
ends the request (`CallFails`) unless the code goes on: `RetryEntry` and
`EntryGivenUp` for the ledger, and `CountIgnored`, `LinesIgnored`, `SaveIgnored`,
`OpenIgnored` for the errors it drops. `Crash` ends all requests and counts as
two failures.

Abstractions. A purchase order and a receipt have at most one line for a SKU;
the lines of the order are written before. A count is not negative, as the tag
`min=0` of the handler's request intends; the tag of the map has no `dive`, so the
validator does not reach it, and the properties assume what it does not enforce.
Defective items only decide the status of the receipt, which
is left to choice. Columns no property tells apart (names, dates, prices) are
left out; a `Save` of a row writes all modelled columns, and the associations
GORM saves with it change nothing that is modelled. Only receipts change the stock. No code
sets "Inspected".

| Run | Instance | Shows |
|---|---|---|
| `receiving` | 1 order of 1 line, 1 shipment, up to 2 receipts, 2 operators, 2 requests at a time, 5 in all, 2 failures or a crash, 1 expiry | types, `BackedInv`, `EntriesComplete`, `NumberedInv`, `CountedStays` |
| `receiving_lock` | the same with 6 requests and no failure | violation: two operators count one receipt |

Five requests are a transition, a delivery, a lock and two counts, or two
deliveries at the same time and one receipt counted; two at a time are the least
that overlap, and two failures are what it takes to lose an entry, whose
absence after one `EntriesComplete` asserts. Counts and
ordered quantities are 0 and 1: more of a line and more lines go through the
same steps, and the theorems cover them.

`BackedInv` is an upper bound on purpose. Two receipts that count the same
component at the same time may lose a count, and a balance computed from an
older entry may fall behind: the stock can be too small, never too large.

`scm-docs.md:79` asks for atomic session locks of 60 minutes for receiving;
`AcquireLock` reads the lock and writes it in another statement, so two
operators may both pass the test, and one may start to count before the other
overwrites the lock. `receiving_lock` shows it.

## 6. `Planning`: events, production orders, shortages, drafts

A request is an event being consumed or an HTTP request of MRP or SCM; `req[r]`
says where it stands and what it holds. A step is an SQL statement, an HTTP call
or a Valkey command that others can see or disturb.

| Variable | In the code |
|---|---|
| `orders` | MRP `production_orders`: build, quantity, status, deleted or not |
| `rows`, `created` | live `shortage_logs` of each order and part, and how many there ever were |
| `offered`, `handed` | messages published to the deficit pool by a check, and by a hand-off |
| `cache` | Valkey: a readiness row by order, the matrix, the metrics |
| `po`, `stock` | SCM's purchase orders by number (status, lines, whether placed by hand, whether open again after a time it was not), its stock |
| `event`, `deliv`, `made`, `planned` | where each event is, its deliveries, the production orders of each of its lines, the lines planned to the end |
| `alone` | not in the code: orders no two requests worked on together and no failure touched |

An event goes through `Deliver`, for each line `SkipItem`, `RefuseItem` or
`PlanItem`, then `Ack`. Planning a line and checking the readiness of an order
share the explosion: `ListPOs`, `RunBOMExplosion`, `GetShortagesByOrderID`, and
for each part `CreateShortageLog` with `PublishShortage`, `UpdateShortageLog`, or
`DeleteShortageLog`; then `UpdateProductionOrderStatus` and the cache
(`InvalidatePlanned`, `CacheReadinessRow`, `CacheReadinessRows`,
`CacheReadinessMetrics`; `ExpireRow`, `ExpireMatrix`, `ExpireMetrics`). A hand-off
(`GeneratePOForDeficits`, `GeneratePOsForShortages`) goes through
`GetOptimalSuppliers`, SCM's `CreateDraftPO`, `FindPOByVendor`, `CountPOs`,
`CreatePO`, then `OfferShortage` and `AddLineItemWithLock` or `LineRefused` for each
part. `DraftByHand`, `PlacePO`, `TransitionState` with the `UpdatePOStatus` that
follows it, `SaveReceived` (what a goods receipt writes to its order) and
`ReceiveOrUse` are what people do in SCM; `Delete` removes an order; `CallFails` and `Crash` are the failures.

`ListPOs` never succeeds: MRP always sends a search text, and SCM's search names
`target_build` (`po_repo.go:83`), a column that migration 000014 dropped. The
readiness check takes the error for an empty list, so that nothing counts as on
order (`Allocated` is 0) and a part is short whatever drafts would bring. A stock
row that cannot be read (`GetPartCatalogByID`) counts as 0. The bill of materials is fixed
here; `Assemblies` edits it. `PlacePO` accepts any free number: one ahead of the
count makes every later draft choose a number that is taken, and be refused for
good. No document excludes it and no property claims it away.

`DemandViews` computes the answers of the list endpoints: from the rows of a check,
which may be cached, the matrix filtered and cut into pages, the demand summary and
metrics, and the report; from the orders the pick lists and the aggregated demand,
which lists the open orders and explodes each anew, with the stock it finds by then
(`demand_service.go:266`). The aggregated demand may therefore differ from a cached
matrix, and from any stock of one moment; `ViewsAgree` says of it that it asks
for no more of a part than all open orders need beyond the least stock found.

| Run | Instance | Shows |
|---|---|---|
| `planning` | 1 build of 1 part, 1 vendor, 2 events of which 1 is sent (one with an empty item and a good one, one too large), 2 deliveries; 2 requests at a time, 2 in all; 2 production orders, 2 purchase orders; without an event 4 requests and 4 purchase orders; 1 failure, crash or change in SCM | types, `AckedIsPlanned`, `OffersBacked`, `OpenPOsBounded`, `StatusAgreesWithRows`, `ViewsAgree` |

Two requests at a time let two checks, a check and the planner, two hand-offs or
two drafts overlap; two deliveries are a redelivery after an error. A production order
needs 2 of the part; at the start none or 2 are in stock, later also 1 by a change in SCM. Where no event was sent, nothing is in stock
and all requests are about purchase orders, there may be four of them (`TwoParts` of `MCPlanning`).
`OpenPOsBounded` counts
the open orders of a vendor that were neither placed by hand (`PlacePO` does not look)
nor brought back to an open status. The latter happens to an order that is Partial, which
the search for an open one does not count (`po_service.go:168`) and which may go
back to In Transit (`:308`), and to one whose status is written over by a request
that checked an earlier one: with either, any number of open drafts can be made one
after the other. Four requests are enough for a draft, its way to Partial and back
and the draft made in between, or for two drafts at a time and two after them; with a
failed search the bound is three. The aggregated demand is looked at between requests:
it depends on the open orders alone, and a request that changes them leaves them changed.
`ViewsAgree`
also compares the summary with a definition of "the most units that can be built"
over 432 rows of up to two parts, which the instance itself does not reach.

## 7. `Catalogue`, `Directory`, `Assemblies`

`Requests` is what these modules and `Identity` share: slots in which requests go
from step to step, failures (`StepFails`; `Ignored` where the code drops the
error) and two histories. `alone` are the subjects (part numbers, models,
products, vendors, users) on which no two requests met unless both only read, and
on which none failed half-way; `calm` are those on which no read met a change. The
code takes no lock in any of these handlers, so a property about an order of
steps is only true of subjects that saw no such meeting; each history is as large
as the property allows, and `CachedBillCurrent` and `OptimalIsCurrent` hold of
changes that do meet. A request is about what it reads as well: one for the optimal
supplier about the vendors it compares, one that reads where a part is used about the
models that use it. `last` is the bill that the last request about a model which ended
well wrote, or that it deleted the model.

`Catalogue` is SCM's part catalogue: `part_catalogs` (`parts`) and
`component_stocks` (`stocks`), written one after the other (`InsertPartRow`,
`InsertStockRow`; `FindPart`, `UpdateStockName`, `UpdatePartRow`,
`UpdateStockCost`; `DeleteStockRow`, `DeletePartRows`), and the product models
(`FindModel`, `SaveModel`, `MarkModel`). `Directory` is its products and vendors with
their caches: `GetProductByID` and `SetProduct`, `ChangeProduct`; the rating of a
vendor from its receipts (`CountGoodsReceiptsByVendor`,
`FindGoodsReceiptsByVendor`, `UpdateSupplier`, then the drop of each SKU's
copy) and the optimal supplier (`FindSkuMappingsBySKU`, `ScoreSupplier`,
`SetOptimalSupplier`). `Assemblies` composes both with MRP's `bom_entries` and their
cache: a bill is resolved part by part in SCM (`ResolveComponentPartID`), replaced
(`HardDeleteBOMEntriesByModelCode`, `CreateBOMEntries`), its keys dropped
(`InvalidateBOM`), and the model announced (`CreateProductModel`), which runs SCM's
steps in the same request; the MRP endpoints for parts forward to the steps of
`Catalogue`. A text stands for a description and its price; a bill is the set of
its parts, its quantities are left out. A restart of SCM warms the product cache.

| Run | Instance | Shows |
|---|---|---|
| `catalogue` | 1 part number, 2 models, 1 product, 2 vendors, empty or seeded databases, cold or warm caches; 2 requests; 1 failure | `PartWhole`, `BillIsLast`, `CachesCurrent` (products, optimal supplier, bills) |

Two requests are two that meet or two in a row; a cache needs one that
fills it and one that changes what it holds. The rows of different part numbers
never touch one another, and a bill that changes from and to the empty list, which
the services accept like any other, leaves and takes up a part as one that changes
parts would; a list with the part twice is the one a creation refuses and an
update stumbles on. The two models tell the key of one bill from those of all
bills and of a part's uses. The theorems of section 10 hold for any parts and lists.

## 8. `AuditTrail`, `Identity`

`AuditTrail` is the audit log: the entries of system's own handlers (`Ingest`, whose
error is ignored) and the consumer, which takes a message, drops a garbled one,
rejects an invalid one with requeue, inserts, and acknowledges (`TakeDelivery`,
`DropDelivery`, `Requeue`, `InsertEvent`, `AckDelivery`). There is no prefetch limit,
so a rejected message comes again after all the others. `LoseConnection` hands
back what was not acknowledged; only a restart consumes again.

`Identity` extends it with the accounts (`account`, their copies `byId` and
`byEmail`) and sessions (`sessions`, Valkey's `tokens`, `index` and `blacklist`;
`access` is what clients hold). Its requests are `Create`, `Update`, `SetStatus`,
`ChangePassword`, `GetUser`, `Login`, `Refresh` and `Logout`, each statement and each
Valkey command a step in the order of `user_service.go` and `auth_service.go`,
followed by the audit entry of the handler. Copies, tokens and sessions expire,
any command may fail, the service restarts. The time left of a token is cut to whole
seconds when a logout blocks it (`cache/usecases.go:11`), so the block may end before
the token, in its last second; a logout in that second sends a command that Valkey
refuses, and the error is ignored. `ending` are the access tokens in their last second
(`LastSecond`; `BlockEnds`, then or with it `ExpireAccess`): `LoggedOut` has a token
blocked until then. The n-th pair of tokens of a user and
its session have one name, since what a token says is not modelled; an e-mail
address never changes.

| Run | Instance | Shows |
|---|---|---|
| `identity` | 1 user, 2 passwords, 3 events (a valid one, one that cannot be stored, one that does not decode), not there yet, seeded or logged in; 2 requests, 2 failures, fair | `CachedUserCurrent`, `LoginAsMeant`, `LoggedOut`, `Audited`, `AuditStored` |

Users share no row and no key, so one is enough. Two requests are a login and a
logout, a change and a read, or a refresh twice; from a logged-in start the second
is the third of its session. Two failures are a failed command and a restart. The
only fairness is that of the consumer's loop, which the runtime keeps running:
`AuditStored` leads to the entry or to a lost connection, after which nobody
consumes, and no request is made to arrive.

## 9. `Installation`: `Seeding`, `Messaging`, `LogShipping`, `LedgerReading`

Four parts of the surroundings that share no state. `Installation` composes them:
a behaviour is one of them, chosen in the initial state (`part`), so that the sum of
the four state spaces is checked, not their product, and nothing is lost by it.

`Seeding` is how the four databases come to be. A seeder is a list of groups of
statements, each a row to insert or to find (`Ensure`, `Create`, `Assign`), as the
seeder of that service lists them; `Execute` runs the next, `Refused` says what the
unique keys refuse, and `Kill` may come between two. `ApplyUp`, `ApplyFails` and
`ApplyDown` are the migration tools, with the dirty version a failure leaves;
`WriteSeedManifest`, `CopyManifest` and `LoadManifest` the file by which MRP and Sales
learn SCM's identifiers; `ChangeUser` what an administrator does between two
seedings. A row is its table, its key and what a property tells apart.

`Messaging` is the broker: each server declares what its start and its
publications declare, one after the other in a channel (`Dial`, `Declare`,
`BeginPublish`, `FinishPublish`, `Consume`), and decides once, at its start, whether
it has a broker. `kept` and `light` count the messages of a queue that survive a
stop of the broker and those that do not; `gone` is what was dropped and why.
`BeginLock`, `FinishLock` and `Reconcile` are SCM's requests at the pool, as far as the
broker sees them. Declarations with no test between them are one step; the
requests of one server are taken one at a time, as each dials a channel of its
own. A reserved queue that MRP declares first is plain, and refuses the
declarations of SCM and System from then on.

`LogShipping` is the log handler, the same in all four services: `LogRecord` puts
an entry into a bounded queue or drops it, the shipper collects batches
(`Collect`, `Flush`, `Push`) and empties the queue once more when it is told to stop
(`StopLogging`, `Drain`); the process does not wait for it (`Exit`).

`LedgerReading` is MRP's ledger view and CSV export: `GetInventoryLedger` asks for a
page, `ListEntries` (COUNT) and `FindEntries` (SELECT with LIMIT and OFFSET) answer
it, `NextPage` goes on until the count is reached, while `RecordEntry` stamps an
entry and `CreateEntry` inserts it. `ReadingFails` ends it.

| Run | Instance | Shows |
|---|---|---|
| `installation` | 4 parts of three numbers (one has two makers), 3 models, 5 suppliers, 1 account, 3 commands one at a time, 1 refusal or kill, 1 changed user; broker: 1 message, 2 starts of each server, 1 stop or kill; log: batches of 2, a queue of 4, 6 entries; ledger: 2 writers, pages of 2, 6 entries, 1 reading | types, `ReferencesResolve`, `OnlyKnownLosses`, `EntriesListed`, `ReseedKeepsUsers` |

Three commands are a migration, a seeding and a second seeding, or one of SCM, one of
MRP and a copy between. Two parts of one number share a stock row and keep their own
identifiers; whose part the shared row shows is left out. Three numbers are sold by four
suppliers, of which the fourth has a goods receipt, and the fifth sells nothing and gets no
purchase order (`Sells`). Of SCM's own references `ScmResolves` follows those of a line of a bill, a part of a
product, a receipt and an entry of the ledger. One message can be in any queue
(one stands for the five that nobody reads), and the losses do not depend on how many
there are; two starts are a restart. Six entries fill a queue of four and
a batch of two; in the ledger, six in pages of two are three pages, so an entry can be pushed
off a page in the middle and off the last.

What the model of the databases shows beside its properties, and no document
excludes: after a run that was cut off, the seeders of MRP and Sales find a row and
skip the rest for ever; a migration that failed leaves a version marked dirty,
which blocks SCM's later migrations; a seeded user that was marked deleted makes the next
seeding of System fail, as its address is taken; and part numbers shared by
two makers share a stock row.

## 10. Proofs

| Module | Proves about | Theorems |
|---|---|---|
| `Sales_proofs` | `Sales`, `SalesClients` | `TypeCorrect`, `Ownership`, `ProcessingReserved`, `ManifestsBacked`, `Refinement`, `Overdrafts`, `OrdersOfClients`, `EditsAreKept`, `NoStockIsLost` |
| `DeficitPool_proofs` | `DeficitPool` | `TypeCorrect`, `UnitsInOnePlace`, `NotBoughtTwice`, `LocksAreExact` |
| `Receiving_proofs` | `Receiving` | `TypeCorrect`, `NeverInflated`, `NumberedWithoutGap`, `CountedForGood`, `LedgerComplete` |
| `Planning_proofs` | `Planning` | `TypeCorrect`, `EventsPlanned`, `OffersAreBacked`, `OpenPOsAreBounded`, `StatusAgrees` |
| `Identity_proofs` | `AuditTrail`, `Identity` | `TypeCorrect`, `CopiesAreCurrent`, `LoginsAreMeant`, `LogoutsEndAll`, `EntriesAreWritten` |
| `Assemblies_proofs` | `Catalogue`, `Directory`, `Assemblies` | `TypeCorrect`, `PartsAreWhole`, `BillsAreLast`, `ProductsAreCurrent`, `OptimalsAreCurrent`, `BillsShownAreCurrent`, `CachesAreCurrent` |
| `Installation_proofs` | `Installation` and its four parts | `PartsAreTyped`, `ReferencesAreKept`, `UsersAreKept`, `LossesAreKnown`, `EntriesAreListed` |
| `Sums` | sums over finite sets | lemmas only |

They hold for every value of the constants under the assumptions the modules name
(`SalesAssumption`, `ClientsAssumption`, `DeficitAssumption`, `ReceivingAssumption`,
`PlanningAssumption`, `NoneAssumption`, `RequestsAssumption`, `IdentityAssumption`,
`NoAccountAssumption`, `SortAssumption`, `CatalogueAssumption`, `DirectoryAssumption`,
`PriceAssumption`, `RecipesAssumption`, `SubjectsAssumption`, `SeedingAssumption`,
`BrokerAssumption`, `LogAssumption`, `LedgerAssumption`): bounds and quantities are
natural numbers, the requests served at the same time are finitely many, orders are
numbered, no two vendors ask the same price, part numbers, models, products, vendors and
cache keys are told apart, the models of the seed data are made of its parts, the seeded accounts are
finitely many, batches and pages have at least one entry, and `None` is not one of the
values it stands beside. `EditsAreKept` and `NoStockIsLost` have a hypothesis besides. TLC evaluates each
assumption in the run of its module.

`TypeCorrect` in each module is the types; a request is shown to hold what its next
statement uses, which is the part that can be wrong. Where `TypeOK` is not strong
enough for that, `Types` of the proof module is (the kinds of request that may stand at
each step, and which identifiers their rows have). The others:

### Sales

* `Ownership`, `ProcessingReserved`, `ManifestsBacked`. That a PROCESSING order
  has its reservation is not inductive: the clean-up deletes a reservation row
  without looking at the order. `OwnershipInv` adds who may do so: a request
  owns the row of its order from its insertion (which the unique index grants
  to one request) to the manifest or the end of the clean-up; no two own the
  same row; what an owner has read is what the row says; an order whose owner
  has not marked it is not PROCESSING; and an edit writes back a row that was
  not PROCESSING when it was read. Each step of each request keeps each
  conjunct.
* `Refinement`: initial states map to initial states and each step of `Sales`
  to `Reserve`, `Abandon`, `Announce` or a stutter of `Fulfilment`, under the
  same invariant.
* `Overdrafts`. A worker that has read a counter for the last time for a line is promised
  the quantity of that line until it lowers the counter; an order has up to two lines of a
  SKU, one created and one edited, each compared with the counter by itself.
  `PromisesCovered` bounds the sum of what the workers are promised by the counter and all
  their lines of the SKU but one. The step that keeps it is the last reading: the counter it read
  covers this line, and the other line of the worker and the two of every other are no more than the
  rest. Lowering a counter takes away what the promises were.
* `OrdersOfClients`. A step with clients is one of `Sales`, or ends a handler where `Sales`
  has it go on (`Ends`); the invariants above are kept by both.
* `EditsAreKept`, for clerks that come one after the other (`\E c : Clerks = {c}`). What a
  request holds is what the row says at every step that writes it back, and a copy
  says what the row says unless it is one that the request at work is about to delete
  (`Current`). With two clerks it is false, and is the code's: see section 3.
* `NoStockIsLost`, for one request that runs ProcessQueue (`\E w : Workers = {w}`); clerks,
  clients and orders are any number, orders may be cancelled and statements about clients fail.
  Between the MULTI block and the reservation row the units are in the hands of the worker
  (`InHand`): counters, rows and hand add up to the stock there was (`Balanced`). What the clean-up gives
  back is not what was taken but what the hash of the order holds then; the two are the same because a
  hash never has a line that the order has not and, where nobody changes them, the lines of
  an order only become more (`LinesKnown`). So an order that is twice on the queue, or is allocated
  while its lines are still written, loses nothing.

### Deficit pool

* `UnitsInOnePlace`, `NotBoughtTwice`. That a unit is on one line at most is
  not inductive: `OnePlace` adds that a unit not offered again is in one place,
  unpublished, in one message of one queue or request, taken by one request, or
  on a line. The proof states once, for any move of messages from one slot to
  another, that a unit stays in one place; each action is then such a move.
* `LocksAreExact`. The quantity is right at the end of a lock because the
  matches' units were counted when the loop ended, and no message is added or
  dropped until they are acknowledged; the invariant carries this count through
  the acknowledgements.

### Receiving

* `NeverInflated`. That the stock is not above what was accepted is not
  inductive, since a request writes back what it read earlier: `BackedInv` adds
  that a quantity in a request's hands is not above the sum either, which holds
  because the sums only grow.
* `NumberedWithoutGap`. A number is chosen by a count and used later.
  `NumberedInv` adds that the receipts below the chosen number are there; the
  step that chooses it needs that a set of the first numbers without a gap is
  determined by its cardinality, a lemma of the module. A count that failed
  chooses 1, below which there is nothing.
* `CountedForGood`. No step writes "Pending" over a counted receipt: the lock
  columns are updated alone, the save of a count writes a counted status, and a
  creation needs an unused number. The proof uses `NumberedInv`, for a lock
  could otherwise be written to a receipt that is not there.
* `LedgerComplete`. The entries are complete when no request is at work, so the invariant
  speaks of those that are: up to one failure, what is entered and what the requests at
  work still owe add up to what was accepted (`LedgerInv`). A request that tries again has
  met that one failure, so that a second failing in the same call, after which the entry
  is given up (`ledger_service.go`), would be the second failure.

### Planning

* `EventsPlanned`. `EventsInv` adds what the request that serves an event has planned so far:
  the lines before the one it stands at, and that line once its order is there. An
  acknowledgement comes after the last line; a request that fails or stops returns the event
  and leaves only whole lines behind, and a redelivery plans each line once more, which
  the bound counts by deliveries.
* `OffersAreBacked`. Between the shortage row and its message, and between the message and
  the line of a purchase order, the quantity is in the hands of a request; the sums
  over the requests at these steps (`Publishing`, `Adding`) close the gap.
* `OpenPOsAreBounded`. A request that found no open draft creates one later. `DraftsInv` bounds the
  open drafts of a vendor, without those placed by hand or reopened, and the requests between the
  search and the creation, taken together, by the number of requests and of failed searches. A write of a
  status, whatever it was checked against, only takes orders out of this set: what it opens is
  `reopened`.
* `StatusAgrees`. While a plan or a check of an order is under way status and rows differ;
  `AgreesInv` says for each step what has been written and what the results in its
  memory will make of the rest (`Synced`, `Working`), for orders no two requests met on.

### Identity and audit log

An account is looked at while no two requests met on it. `MeetInv` makes this usable: two
requests on such an account both only read. Every invariant is then one per user, which a
step about another user keeps (`SameUserKeeps`) and the only request at work may
disturb.

* `CopiesAreCurrent`, `LoginsAreMeant`. A copy is the row, or the request that changed the row
  still has this copy to write or to delete (`Stale`); what a reader is about to put into the cache is
  the row (`Reader`), since it met no change.
* `LogoutsEndAll`. A logout deletes the sessions, then the tokens that the index lists, then blocks the
  access token. `TokenInv` says that every token is listed, or that the login at work is
  about to list it, and at each step of a logout what may be left. A blocked token is in `blacklist`
  until it is `ending`: of the steps that end a token (`AccessEnds`), one that takes the block
  away finds it there (`AccessEndsSo`).
* `EntriesAreWritten`. The log lacks the entries of the requests that stand between their change and
  its entry, and only those: `EntriesInv` counts them.

### Parts, bills and their caches

The argument is that of `Identity`: `MeetInv` says that requests that met on a subject still
alone all read, and that those on a calm one all read or all change; then one invariant per
subject. A step about another subject keeps it, and so does a failure or a restart, for what
it cuts short had written nothing about a subject that is still alone or calm (`Failed`). `Types` says
besides what a request is about (`About`), what it holds (`Holds`) and when it has written.

* `PartsAreWhole`. The two rows of a part agree unless the only request about it stands between
  them (`Halfway`), and then `Partway` says what it still has to write.
* `BillsAreLast`. A bill is the last one written, or the request about the model is between the
  deletion of the old one and the drop of its keys (`Clearing`); SCM knows of it, or the request has still
  to tell it (`Telling`, `Untelling`). A deletion that nobody was told of is one of the steps that
  end the model's being alone.
* `ProductsAreCurrent`. A cached product is the row, or the request that changed the row has still
  to show it.
* `OptimalsAreCurrent`. Changes may meet here, so that the invariant counts on no single request. A
  cached choice is the best one, or somebody is about to drop it, or to find out that it has to.
  What a reader has compared so far has the best of it in its hands (`Top`), cheapest first; no rating of a
  vendor it compares changes meanwhile, for it would have met. A vendor rated while it begins to be
  offered is the hard case (`Late`): the rating does not know of the SKU, but the new offer drops its
  answer.
* `BillsShownAreCurrent`. The same for bills: what is cached is the database, or a request that
  replaced the bill has still to drop the keys (`Replacing`). An answer where a part is used misses no
  model, or the request that added the part has still to drop it (`Adding`); what a
  reader holds for the cache misses none either, since a bill that came to use the part after
  it read would have met it on the part's number.
* `CachesAreCurrent` is the three together.

### Surroundings

* `ReferencesAreKept`, `UsersAreKept`, `PartsAreTyped` (databases). That rows refer to rows that are there
  is not inductive: a tool writes tomorrow the row that refers to one it wrote, or left out,
  yesterday. `SeedInv` says of each database and of what its tool has still to do: every statement left refers
  to a row that is there or is written earlier in the list (`Refers`), and what the groups to come will
  refer to is there or is in the list, from the group on that writes it (`Promised`: the catalogue, the
  orders of MRP, the clients of Sales). A group may be skipped because its tables have rows; the seeder of
  SCM has deleted them itself (`Fresh`), so that the catalogue it finds is the one it wrote. A row
  it loses ends the promise, which is what `lost` says. Each of the seeders' lists is shown to be well formed
  and to refer to nothing else (`ListOK`), for any catalogue, bills and manifest; the manifest has only
  parts of the catalogue (`ContractOK`), whose identifiers do not depend on the seeding. The lists are
  built by concatenation, which the library defines by recursion; what is needed of it (an
  invariant of the parts is one of the whole) is proved by the least counterexample.
* `LossesAreKnown` (broker). A message is dropped where its queue is not declared. `BrokerInv`
  says what each open channel still wants: every declaration that its job needs is made or is
  in the list the channel goes through (`WantsOK`), and declarations are durable, so that they stay. Only the deficit
  pool and its dead letters hold messages that a stop of the broker takes, those that SCM put back; and where the reserved queue
  holds one, it is SCM's own, with the exchange and the binding by which it expires (`QueuesOK`).
* `LossesAreKnown` (log). Entries move one way, from the queue to a batch to the collector; the order
  of what arrived, the batch and the queue, one after the other, increases (`InOrder3`), so that nothing is shipped twice.
* `EntriesAreListed`. The argument is about places. The entries newer than one that was there at the start
  are at least as many as its place; one that was not read lies beyond the places read so far
  (`ReadingInv`), so it was pushed off by an entry written meanwhile, and there are no more pushed off than written.
  The same count bounds the repetitions.

### Sums and what the prover does not reach

`Sums` has what these proofs need of `SumFunctionOnSet` (a sum changes with one of its summands,
is monotone, is zero when all are). Its definition is a recursion over the set, and the library's induction
theorems cannot be instantiated by the provers installed; the lemmas take the least
counterexample in cardinality instead, with the well-foundedness of the order of the natural numbers.

Only model-checked:

* `ViewsAgree`: what the views compute, products and quotients of quantities and sequences sorted and cut into
  pages, is beyond the arithmetic of the provers;
* liveness: `ProcessQueueReturns`, `LockReturns`, `AuditStored` (and ENABLED is out of the prover's reach);
* the violations, which are counterexamples.

## 11. Not modelled

Within modelled parts:

* Single parts of SCM (install, remove, scrap, condition), the manufacturing
  status of a part and of a stock row, direct endpoints for product models, and
  `RegisterProduct`: one statement each, of columns nothing else reads.
* The database-backed variants of SCM's services, which the server does not run;
  operations of messaging clients that nothing calls.
* Listings, averages, metrics and reports other than those of `DemandViews` and
  `LedgerReading`: they change nothing. The cached list of clients is read by one
  such listing only.
* The e-mail sent at the creation of a user, what a token says and how it is
  signed, the roles table, the ingest endpoint of the audit log (the single insert
  of `Ingest`), authorisation and validation in the middlewares.
* `scm/client.go` of MRP declares `GetInventoryMetrics` and
  `GetInventoryTransactionByID` three times, so that the package does not build as
  it stands; the rest of the file is modelled as if two of each were not there.

Whole parts: configuration, the shared packages, wiring and routes, traces and
metric counters, mocks, the Rust program and SQL texts under `reference/`; they keep
no state that the services act on. The scheduler is a ticker whose `Stop` no server
reaches. Times are not modelled: a time-out, an expiry or a sleep may end at any
moment.

Hazards that stay, because the code does so and no document promises otherwise:

* `order_service.go:149` counts a client's orders by writing back a row read
  earlier, so that the count lags (`Sales_Module_Design.md:104` shows it as the order
  volume of a client); the count is not kept in the model.
* `po_service.go:222`: an approval tests a status read in another statement;
  `goods_receipt_service.go:404`: the last receipt decides RECEIVED or PARTIAL by
  counting the others. Both may follow an older state.
* `rabbitmq.go:455`: `PeekPool` takes the whole pool and hands it back, so that a
  lock request in between finds too little; `Peek` of `DeficitPool` does so.
* `goods_receipt_handler.go:57`: the counts of a blind receipt are tagged `min=0`, but
  the tag of the map has no `dive`, so that negative ones pass; `Receiving` assumes
  they do not.
* The metrics of `po_repo.go:113`-`145` and `inventory_repo.go:246`-`259` reuse one GORM
  statement, whose conditions add up, so that the later counts are of nothing; they
  are listings and not modelled.
* `order_consumer.go:251`: an event that always fails is requeued for ever.
* `readiness_service.go:111` means to count what open purchase orders will bring, but SCM
  refuses every listing it asks for (section 6), so that, as `MRP_Module_Design.md:21` has it,
  an order is clear when the stock suffices; a shortage that is on order already is
  handed over again at the next hand-off.
* `order_service.go:132`: a PATCH between two statements of a creation leaves two rows of one
  SKU, which are both allocated; no document speaks of it (section 3).
* `inventory_service.go:465` asks for 100000 rows and gets 15.
* A server whose broker stopped does not consume again until it restarts, and one
  that started without a broker never looks again; `INSTALL_MRP.md:183` advises to
  start SCM first; nobody declares `sales.client.created`.
