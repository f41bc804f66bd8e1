------------------------------ MODULE Planning ------------------------------
(***************************************************************************)
(* The planning side of the MRP service: sales-order events become         *)
(* production orders (order_consumer.go, production_service.go), a BOM     *)
(* explosion compares what they need with what SCM has and expects         *)
(* (readiness_service.go), the shortages are recorded and offered on the   *)
(* deficit pool, and a hand-off drafts purchase orders for them            *)
(* (demand_service.go), one vendor each (po_service.go).                   *)
(*                                                                         *)
(* A request is an HTTP request or an event being served; each SQL         *)
(* statement, HTTP call or Valkey command that others can see or disturb   *)
(* is a step.  The BOM is fixed here; its edition is in Catalogue.         *)
(***************************************************************************)
EXTENDS Integers, Sequences, FiniteSets, Functions

CONSTANTS
    Builds,       \* product model codes
    Parts,        \* components
    PerUnit,      \* how many of each part a build takes, 0 when not in its BOM
    Vendors,      \* suppliers
    Supplier,     \* the optimal supplier of each part
    Events,       \* sales-order events
    Lines,        \* the items of each event: build (None when empty) and quantity
    Queue,        \* the queue an event arrives on
    Requests,     \* requests being served at the same time
    MaxQty,       \* largest target_quantity the planner accepts
    MaxStock,     \* bound: largest stock
    MaxOrders,    \* bound: production orders
    MaxPOs,       \* bound: purchase orders
    MaxEvents,    \* bound: events that were sent
    MaxDeliver,   \* bound: deliveries of an event
    MaxCalls,     \* bound: requests, events aside
    MaxDisturb,   \* bound: failed calls, crashes, and changes others make in SCM
    None          \* no event, no row, no answer

ASSUME PlanningAssumption ==
    /\ PerUnit \in [Builds -> [Parts -> Nat]]
    /\ Supplier \in [Parts -> Vendors]
    /\ Lines \in [Events -> Seq([build: Builds \cup {None}, qty: Nat])]
    /\ DOMAIN Queue = Events
    /\ {MaxQty, MaxStock, MaxOrders, MaxPOs, MaxEvents, MaxDeliver, MaxCalls, MaxDisturb} \subseteq Nat
    /\ IsFiniteSet(Requests)
    /\ None \notin Builds \cup Parts \cup Vendors \cup Events \cup Nat
    /\ \A p \in Parts : None # p

VARIABLES
    orders,    \* production_orders, in the order they were inserted
    rows,      \* live shortage_logs of each order and part
    created,   \* shortage_logs ever created for each order and part
    offered,   \* messages a check published to the deficit pool for them
    handed,    \* messages a hand-off published for them
    cache,     \* Valkey: readiness rows by order, the matrix, the metrics
    po,        \* purchase orders of SCM by number
    stock,     \* stock_qty of each part in SCM
    event,     \* where each event is: unsent, ready, inflight or acked
    deliv,     \* deliveries of each event
    made,      \* production orders created for each line of an event
    alone,     \* orders no two requests worked on together, and no failure touched (history)
    planned,   \* lines whose planning was completed
    req,       \* where each request stands and what it holds in memory
    calls, moves, faults, misses

database == <<orders, rows, created>>
broker == <<event, deliv, made, planned>>
scm == <<po, stock>>
bounds == <<calls, moves, faults, misses>>
vars == <<orders, rows, created, offered, handed, cache, po, stock,
          event, deliv, made, planned, alone, req, calls, moves, faults, misses>>

-----------------------------------------------------------------------------
Ids == 1..MaxOrders
CLEAR == "CLEAR_TO_BUILD"
SHORTAGE == "SHORTAGE"
OpenStatus == {"Draft", "Approved", "In Transit"}
PONumbers == 1..MaxPOs

(* What an explosion finds for a part of the BOM. *)
Result == [required: Nat, available: Nat, allocated: Nat]
NoResults == [p \in Parts |-> None]
BOM(b) == {p \in Parts : PerUnit[b][p] > 0}

IsShortageOrEven(x) == x.required >= x.available + x.allocated
IsShortage(x) == x.required > x.available + x.allocated
ShortageQty(x) == x.required - (x.available + x.allocated)
Short(results) == {p \in Parts : results[p] # None /\ IsShortage(results[p])}
deriveReadinessStatus(results) == IF Short(results) = {} THEN CLEAR ELSE SHORTAGE

ReadinessRow(o, qty, results) ==
    [order |-> o, qty |-> qty, status |-> deriveReadinessStatus(results), results |-> results]
buildReadinessMetrics(matrix) ==
    [total   |-> Cardinality(matrix),
     blocked |-> Cardinality({x \in matrix : x.status # CLEAR}),
     short   |-> Cardinality(UNION {Short(x.results) : x \in matrix})]

Exists(o) == o \in DOMAIN orders /\ ~orders[o].gone
OpenOrders == {o \in DOMAIN orders : Exists(o) /\ orders[o].status \in {CLEAR, SHORTAGE}}
OpenPO(v) == {n \in PONumbers : po[n] # None /\ po[n].vendor = v /\ po[n].status \in OpenStatus}

(* A purchase order; its lines are those locked for an offered shortage.    *)
(* History: whether it was placed without the search for an open order, and *)
(* whether a write ever brought it back to a status the search looks for.   *)
NewPO(v, placed) == [vendor |-> v, status |-> "Draft", placed |-> placed, reopened |-> FALSE,
                     lines |-> [p \in Parts |-> 0]]

Status == {"Draft", "Approved", "In Transit", "Partial", "Received", "Void"}
PurchaseOrder == [vendor: Vendors, status: Status, placed: BOOLEAN, reopened: BOOLEAN,
                  lines: [Parts -> Nat]]

ASSUME NoneAssumption == None \notin Result /\ None \notin PurchaseOrder

-----------------------------------------------------------------------------
Idle == [at |-> "idle", kind |-> "none", order |-> 0, ev |-> None, line |-> 0,
         qty |-> 0, old |-> CLEAR, results |-> NoResults,
         rest |-> {}, built |-> {}, seen |-> [p \in Parts |-> 0], todo |-> {},
         part |-> None, vendor |-> None, num |-> 0, to |-> None]

Init ==
    /\ orders = <<>>
    /\ rows = [o \in Ids |-> [p \in Parts |-> {}]]
    /\ created = [o \in Ids |-> [p \in Parts |-> 0]]
    /\ offered = [o \in Ids |-> [p \in Parts |-> 0]]
    /\ handed = [o \in Ids |-> [p \in Parts |-> 0]]
    /\ cache = [row |-> [o \in Ids |-> None], matrix |-> None, metrics |-> None]
    /\ po = [n \in PONumbers |-> None]
    /\ stock \in [Parts -> 0..MaxStock]
    /\ event \in [Events -> {"unsent", "ready"}]
    /\ Cardinality({e \in Events : event[e] = "ready"}) <= MaxEvents
    /\ deliv = [e \in Events |-> 0]
    /\ made = [e \in Events |-> [i \in DOMAIN Lines[e] |-> 0]]
    /\ planned = {}
    /\ alone = Ids
    /\ req = [r \in Requests |-> Idle]
    /\ calls = 0
    /\ moves = 0
    /\ faults = 0
    /\ misses = 0

Disturbed == moves + faults + misses

Goto(r, at) == req' = [req EXCEPT ![r].at = at]

AckOnError(r) ==
    /\ req' = [req EXCEPT ![r] = Idle]
    /\ event' = [e \in Events |-> IF e = req[r].ev THEN "acked" ELSE event[e]]
(* A request that fails: an event goes back to its queue. *)
EndWithError(r) ==
    /\ req' = [req EXCEPT ![r] = Idle]
    /\ event' = [e \in Events |-> IF e = req[r].ev THEN "ready" ELSE event[e]]

-----------------------------------------------------------------------------
(* The order consumer. *)

(* One loop per queue takes an event at a time. *)
Deliver(r, e) ==
    /\ req[r].at = "idle"
    /\ event[e] = "ready"
    /\ deliv[e] < MaxDeliver
    /\ \A q \in Requests : req[q].ev # None => Queue[req[q].ev] # Queue[e]
    /\ event' = [event EXCEPT ![e] = "inflight"]
    /\ deliv' = [deliv EXCEPT ![e] = @ + 1]
    /\ req' = [req EXCEPT ![r] = [Idle EXCEPT !.at = "plan", !.kind = "plan", !.ev = e, !.line = 1]]
    /\ UNCHANGED <<alone, database, offered, handed, cache, scm, made, planned, bounds>>

Line(r) == Lines[req[r].ev][req[r].line]
Invalid(x) == x.build = None \/ x.qty = 0
HasLine(r) == req[r].line <= Len(Lines[req[r].ev])

SkipItem(r) ==
    /\ req[r].at = "plan"
    /\ HasLine(r)
    /\ Invalid(Line(r))
    /\ req' = [req EXCEPT ![r].line = @ + 1]
    /\ UNCHANGED <<alone, database, offered, handed, cache, scm, broker, bounds>>

(* The validation of PlanProduction. *)
Accepted(x) == x.qty <= MaxQty

NewOrder(b, qty) == [build |-> b, qty |-> qty, status |-> CLEAR, gone |-> FALSE]

PlanItem(r) ==
    /\ req[r].at = "plan"
    /\ HasLine(r)
    /\ ~Invalid(Line(r))
    /\ Accepted(Line(r))
    /\ Len(orders) < MaxOrders
    /\ orders' = Append(orders, NewOrder(Line(r).build, Line(r).qty))
    /\ made' = [made EXCEPT ![req[r].ev][req[r].line] = @ + 1]
    /\ req' = [req EXCEPT ![r].at = "explode", ![r].order = Len(orders) + 1, ![r].qty = Line(r).qty]
    /\ UNCHANGED <<alone, rows, created, offered, handed, cache, scm, event, deliv, planned, bounds>>

RefuseItem(r) ==
    /\ req[r].at = "plan"
    /\ HasLine(r)
    /\ ~Invalid(Line(r))
    /\ ~Accepted(Line(r))
    /\ EndWithError(r)
    /\ UNCHANGED <<alone, database, offered, handed, cache, scm, deliv, made, planned, bounds>>

Ack(r) ==
    /\ req[r].at = "plan"
    /\ ~HasLine(r)
    /\ event' = [event EXCEPT ![req[r].ev] = "acked"]
    /\ req' = [req EXCEPT ![r] = Idle]
    /\ UNCHANGED <<alone, database, offered, handed, cache, scm, deliv, made, planned, bounds>>

-----------------------------------------------------------------------------
(* The BOM explosion. *)

Build(r) == orders[req[r].order].build

AfterExplosion(kind) ==
    CASE kind = "plan" -> "logs"
      [] kind \in {"check", "matrix", "metrics"} -> "status"
      [] kind \in {"handoff", "bulk"} -> "suppliers"

NothingToExplode(r) ==
    /\ req[r].at = "explode"
    /\ ~Exists(req[r].order) \/ BOM(Build(r)) = {}
    /\ req' = [req EXCEPT ![r].at = AfterExplosion(req[r].kind), ![r].results = NoResults]
    /\ UNCHANGED <<alone, database, offered, handed, cache, scm, broker, bounds>>

(* The open purchase orders for the build are asked of SCM, which searches  *)
(* them with a column it has dropped (po_repo.go:83, migration 000014): the *)
(* answer is an error every time, and that reads as no purchase order.      *)
ListPOs(r) ==
    /\ req[r].at = "explode"
    /\ Exists(req[r].order) /\ BOM(Build(r)) # {}
    /\ Goto(r, "stock")
    /\ UNCHANGED <<alone, database, offered, handed, cache, scm, broker, bounds>>
Allocated == 0

(* SCM answers with what it has of each part; a stock row it fails to read  *)
(* is a stock of 0, and no error.                                           *)
GetPartCatalogByID(found) ==
    \/ found = stock /\ UNCHANGED faults
    \/ /\ Disturbed < MaxDisturb
       /\ faults' = faults + 1
       /\ \E p \in Parts : found = [stock EXCEPT ![p] = 0]

RunBOMExplosion(r) ==
    /\ req[r].at = "stock"
    /\ \E found \in [Parts -> 0..MaxStock] :
         /\ GetPartCatalogByID(found)
         /\ req' = [req EXCEPT
              ![r].at = AfterExplosion(req[r].kind),
              ![r].results = [p \in Parts |->
                 IF p \in BOM(Build(r))
                 THEN [required  |-> PerUnit[Build(r)][p] * orders[req[r].order].qty,
                       available |-> found[p],
                       allocated |-> Allocated]
                 ELSE None]]
    /\ UNCHANGED <<alone, database, offered, handed, cache, scm, broker, calls, moves, misses>>

-----------------------------------------------------------------------------
(* The shortages of an order. *)

GetShortagesByOrderID(r) ==
    /\ req[r].at = "logs"
    /\ \E seen \in [Parts -> {0} \cup {x.id : x \in UNION {rows[req[r].order][p] : p \in Parts}}] :
         /\ \A p \in Parts : IF rows[req[r].order][p] = {} THEN seen[p] = 0
                             ELSE seen[p] \in {x.id : x \in rows[req[r].order][p]}
         /\ req' = [req EXCEPT ![r].at = "sync", ![r].seen = seen,
              ![r].todo = {p \in Parts : req[r].results[p] # None
                                         /\ (p \in Short(req[r].results) \/ seen[p] # 0)}]
    /\ UNCHANGED <<alone, database, offered, handed, cache, scm, broker, bounds>>

CreateShortageLog(r, p) ==
    LET o == req[r].order
        new == [id |-> created[o][p] + 1, qty |-> ShortageQty(req[r].results[p])] IN
    /\ req[r].at = "sync"
    /\ p \in req[r].todo \cap Short(req[r].results)
    /\ req[r].seen[p] = 0
    /\ rows' = [rows EXCEPT ![o][p] = @ \cup {new}]
    /\ created' = [created EXCEPT ![o][p] = @ + 1]
    /\ req' = [req EXCEPT ![r].at = "publish", ![r].part = p]
    /\ UNCHANGED <<alone, orders, offered, handed, cache, scm, broker, bounds>>

(* A failed publication is ignored. *)
PublishShortage(r) ==
    LET p == req[r].part IN
    /\ req[r].at = "publish"
    /\ req' = [req EXCEPT ![r].at = "sync", ![r].todo = @ \ {p}, ![r].part = None]
    /\ \/ /\ offered' = [offered EXCEPT ![req[r].order][p] = @ + 1]
          /\ UNCHANGED faults
       \/ /\ Disturbed < MaxDisturb
          /\ faults' = faults + 1
          /\ UNCHANGED offered
    /\ UNCHANGED <<alone, database, handed, cache, scm, broker, calls, moves, misses>>

UpdateAndOfferAgain(r, p) ==
    /\ req[r].at = "sync"
    /\ p \in req[r].todo \cap Short(req[r].results)
    /\ req[r].seen[p] # 0
    /\ req' = [req EXCEPT ![r].at = "publish", ![r].part = p]
    /\ UNCHANGED <<alone, database, offered, handed, cache, scm, broker, bounds>>
UpdateShortageLog(r, p) ==
    LET o == req[r].order IN
    /\ req[r].at = "sync"
    /\ p \in req[r].todo \cap Short(req[r].results)
    /\ req[r].seen[p] # 0
    /\ rows' = [rows EXCEPT ![o][p] =
         {IF x.id = req[r].seen[p] THEN [x EXCEPT !.qty = ShortageQty(req[r].results[p])] ELSE x : x \in @}]
    /\ req' = [req EXCEPT ![r].todo = @ \ {p}]
    /\ UNCHANGED <<alone, orders, created, offered, handed, cache, scm, broker, bounds>>

KeepResolvedLog(r, p) ==
    /\ req[r].at = "sync"
    /\ p \in req[r].todo \ Short(req[r].results)
    /\ req' = [req EXCEPT ![r].todo = @ \ {p}]
    /\ UNCHANGED <<alone, database, offered, handed, cache, scm, broker, bounds>>
DeleteShortageLog(r, p) ==
    /\ req[r].at = "sync"
    /\ p \in req[r].todo \ Short(req[r].results)
    /\ rows' = [rows EXCEPT ![req[r].order][p] = {}]
    /\ req' = [req EXCEPT ![r].todo = @ \ {p}]
    /\ UNCHANGED <<alone, orders, created, offered, handed, cache, scm, broker, bounds>>

SyncDone(r) ==
    /\ req[r].at = "sync"
    /\ req[r].todo = {}
    /\ Goto(r, IF req[r].kind = "plan" THEN "status" ELSE "cache")
    /\ UNCHANGED <<alone, database, offered, handed, cache, scm, broker, bounds>>

(* A plan writes the status after the shortages, a check before them. *)
UpdateProductionOrderStatus(r) ==
    LET o == req[r].order
        status == deriveReadinessStatus(req[r].results) IN
    /\ req[r].at = "status"
    /\ orders' = IF status # req[r].old THEN [orders EXCEPT ![o].status = status] ELSE orders
    /\ Goto(r, IF req[r].kind = "plan" THEN "invalidate" ELSE "logs")
    /\ UNCHANGED <<alone, rows, created, offered, handed, cache, scm, broker, bounds>>

InvalidateReadinessCache(o) == cache' = [row |-> [cache.row EXCEPT ![o] = None], matrix |-> None, metrics |-> None]

InvalidatePlanned(r) ==
    /\ req[r].at = "invalidate"
    /\ InvalidateReadinessCache(req[r].order)
    /\ Goto(r, "answer")
    /\ UNCHANGED <<alone, database, offered, handed, scm, broker, bounds>>

(* The shortages are read once more for the answer. *)
PlanAnswered(r) ==
    /\ req[r].at = "answer"
    /\ planned' = planned \cup {<<req[r].ev, req[r].line>>}
    /\ req' = [req EXCEPT ![r] = [Idle EXCEPT !.at = "plan", !.kind = "plan",
                                              !.ev = req[r].ev, !.line = req[r].line + 1]]
    /\ UNCHANGED <<alone, database, offered, handed, cache, scm, event, deliv, made, bounds>>

-----------------------------------------------------------------------------
(* Readiness: one order, or the matrix of the open ones. *)

(* An order that another request works on is no longer alone. *)
Shared(r, o) == {o} \cap {req[q].order : q \in Requests \ {r}}

Start(r, first) ==
    /\ req[r].at = "idle"
    /\ calls < MaxCalls
    /\ calls' = calls + 1
    /\ req' = [req EXCEPT ![r] = first]
    /\ alone' = alone \ Shared(r, first.order)
    /\ UNCHANGED <<database, offered, handed, cache, scm, broker, moves, faults, misses>>

OnOrder(x, o, at) == [x EXCEPT !.at = at, !.order = o, !.qty = orders[o].qty, !.old = orders[o].status]

GetReadinessByOrderID(r, o) ==
    /\ Exists(o)
    /\ cache.row[o] = None
    /\ Start(r, OnOrder([Idle EXCEPT !.kind = "check"], o, "explode"))

(* The rows are built side by side, like the rows of two requests; here one *)
(* request builds them one by one, in any order.                            *)
LoadReadinessRows(r, kind) ==
    /\ kind = "metrics" => cache.metrics = None
    /\ \/ /\ cache.matrix = None
          /\ Start(r, [Idle EXCEPT !.kind = kind, !.at = "next", !.rest = OpenOrders])
       \/ /\ kind = "metrics"
          /\ cache.matrix # None
          /\ Start(r, [Idle EXCEPT !.kind = kind, !.at = "metrics", !.built = cache.matrix])

NextOrder(r, o) ==
    /\ req[r].at = "next"
    /\ o \in req[r].rest
    /\ req' = [req EXCEPT ![r] =
         LET x == [req[r] EXCEPT !.rest = @ \ {o}] IN
         IF Exists(o) THEN OnOrder(x, o, "explode") ELSE x]
    /\ alone' = alone \ Shared(r, o)
    /\ UNCHANGED <<database, offered, handed, cache, scm, broker, bounds>>

Row(r) == ReadinessRow(req[r].order, req[r].qty, req[r].results)

CacheReadinessRow(r) ==
    /\ req[r].at = "cache"
    /\ IF req[r].kind = "check"
       THEN /\ cache' = [cache EXCEPT !.row[req[r].order] = Row(r)]
            /\ req' = [req EXCEPT ![r] = Idle]
       ELSE /\ req' = [req EXCEPT ![r].at = "next", ![r].built = @ \cup {Row(r)}, ![r].results = NoResults,
                                  ![r].order = 0, ![r].qty = 0, ![r].old = CLEAR, ![r].seen = Idle.seen]
            /\ UNCHANGED cache
    /\ UNCHANGED <<alone, database, offered, handed, scm, broker, bounds>>

CacheReadinessRows(r) ==
    /\ req[r].at = "next"
    /\ req[r].kind \in {"matrix", "metrics"}
    /\ req[r].rest = {}
    /\ cache' = [cache EXCEPT !.matrix = req[r].built]
    /\ req' = [req EXCEPT ![r] = IF req[r].kind = "matrix" THEN Idle ELSE [@ EXCEPT !.at = "metrics"]]
    /\ UNCHANGED <<alone, database, offered, handed, scm, broker, bounds>>

CacheReadinessMetrics(r) ==
    /\ req[r].at = "metrics"
    /\ cache' = [cache EXCEPT !.metrics = buildReadinessMetrics(req[r].built)]
    /\ req' = [req EXCEPT ![r] = Idle]
    /\ UNCHANGED <<alone, database, offered, handed, scm, broker, bounds>>

(* Every key is set with a time to live. *)
ExpireRow(o) ==
    /\ cache.row[o] # None
    /\ cache' = [cache EXCEPT !.row[o] = None]
    /\ UNCHANGED <<alone, database, offered, handed, scm, broker, req, bounds>>

ExpireMatrix ==
    /\ cache.matrix # None
    /\ cache' = [cache EXCEPT !.matrix = None]
    /\ UNCHANGED <<alone, database, offered, handed, scm, broker, req, bounds>>

ExpireMetrics ==
    /\ cache.metrics # None
    /\ cache' = [cache EXCEPT !.metrics = None]
    /\ UNCHANGED <<alone, database, offered, handed, scm, broker, req, bounds>>

-----------------------------------------------------------------------------
(* The deletion of a production order. *)

Delete(r, o) ==
    /\ Exists(o)
    /\ Start(r, [Idle EXCEPT !.kind = "delete", !.at = "delete", !.order = o])

DeleteProductionOrder(r) ==
    /\ req[r].at = "delete"
    /\ orders' = [orders EXCEPT ![req[r].order].gone = TRUE]
    /\ rows' = [rows EXCEPT ![req[r].order] = [p \in Parts |-> {}]]
    /\ Goto(r, "forget")
    /\ UNCHANGED <<alone, created, offered, handed, cache, scm, broker, bounds>>

InvalidateDeleted(r) ==
    /\ req[r].at = "forget"
    /\ InvalidateReadinessCache(req[r].order)
    /\ req' = [req EXCEPT ![r] = Idle]
    /\ UNCHANGED <<alone, database, offered, handed, scm, broker, bounds>>

-----------------------------------------------------------------------------
(* The hand-off of shortages to SCM. *)

GeneratePOForDeficits(r, o) ==
    /\ Exists(o)
    /\ Start(r, OnOrder([Idle EXCEPT !.kind = "handoff"], o, "explode"))

GeneratePOsForShortages(r) ==
    Start(r, [Idle EXCEPT !.kind = "bulk", !.at = "next", !.rest = OpenOrders])

AfterHandoff(x) == IF x.kind = "bulk" THEN [Idle EXCEPT !.kind = "bulk", !.at = "next", !.rest = x.rest] ELSE Idle

BulkDone(r) ==
    /\ req[r].at = "next"
    /\ req[r].kind = "bulk"
    /\ req[r].rest = {}
    /\ req' = [req EXCEPT ![r] = Idle]
    /\ UNCHANGED <<alone, database, offered, handed, cache, scm, broker, bounds>>

(* The shortages are sorted by the supplier to order them from. *)
GetOptimalSuppliers(r) ==
    /\ req[r].at = "suppliers"
    /\ req' = [req EXCEPT ![r] = IF Short(req[r].results) = {} THEN AfterHandoff(req[r])
                                 ELSE [req[r] EXCEPT !.at = "draft", !.todo = Short(req[r].results)]]
    /\ UNCHANGED <<alone, database, offered, handed, cache, scm, broker, bounds>>

(* An operator drafts an order for a supplier in SCM. *)
DraftByHand(r, v) == Start(r, [Idle EXCEPT !.kind = "draft", !.at = "find", !.vendor = v])

CreateDraftPO(r) ==
    /\ req[r].at = "draft"
    /\ \E p \in req[r].todo :
         req' = [req EXCEPT ![r].at = "find", ![r].vendor = Supplier[p]]
    /\ UNCHANGED <<alone, database, offered, handed, cache, scm, broker, bounds>>

(* CreateDraft of SCM: one open order per vendor, numbered by counting. *)
HasSentPO(v) == \E n \in OpenPO(v) : po[n].status # "Draft"
HasOpenPO(v) == OpenPO(v) # {}

(* A failed search reads as no open order. *)
FindPOByVendor(r) ==
    /\ req[r].at = "find"
    /\ \/ /\ req' = [req EXCEPT ![r] = IF HasOpenPO(@.vendor) THEN Idle ELSE [@ EXCEPT !.at = "count"]]
          /\ UNCHANGED misses
       \/ /\ Disturbed < MaxDisturb
          /\ misses' = misses + 1
          /\ Goto(r, "count")
    /\ UNCHANGED <<alone, database, offered, handed, cache, scm, broker, calls, moves, faults>>

CountPOs(r) ==
    /\ req[r].at = "count"
    /\ req' = [req EXCEPT ![r].at = "create", ![r].num = Cardinality({n \in PONumbers : po[n] # None}) + 1]
    /\ UNCHANGED <<alone, database, offered, handed, cache, scm, broker, bounds>>

CreatePO(r) ==
    /\ req[r].at = "create"
    /\ req[r].num \in PONumbers
    /\ IF po[req[r].num] = None
       THEN /\ po' = [po EXCEPT ![req[r].num] = NewPO(req[r].vendor, FALSE)]
            /\ req' = [req EXCEPT ![r] = IF @.kind = "draft" THEN Idle ELSE [@ EXCEPT !.at = "offer"]]
       ELSE /\ req' = [req EXCEPT ![r] = Idle]
            /\ UNCHANGED po
    /\ UNCHANGED <<alone, database, offered, handed, cache, stock, broker, bounds>>

(* POST /purchase-orders: an order with lines and a number of its own,      *)
(* whatever orders there are; a number that is taken is refused.            *)
PlacePO(v, n) ==
    /\ calls < MaxCalls
    /\ calls' = calls + 1
    /\ po[n] = None
    /\ po' = [po EXCEPT ![n] = NewPO(v, TRUE)]
    /\ UNCHANGED <<alone, database, offered, handed, cache, stock, broker, req, moves, faults, misses>>

(* Each shortage is published, and then locked for a line of the draft. *)
OfferShortage(r) ==
    /\ req[r].at = "offer"
    /\ \E p \in req[r].todo :
         /\ Supplier[p] = req[r].vendor
         /\ handed' = [handed EXCEPT ![req[r].order][p] = @ + 1]
         /\ req' = [req EXCEPT ![r].at = "line", ![r].part = p]
    /\ UNCHANGED <<alone, database, offered, cache, scm, broker, bounds>>

AddLineItemWithLock(r) ==
    LET n == req[r].num
        p == req[r].part
        left == req[r].todo \ {p}
        x == [req[r] EXCEPT !.todo = left, !.part = None] IN
    /\ req[r].at = "line"
    /\ po[n].status = "Draft"
    /\ po' = [po EXCEPT ![n].lines[p] = @ + 1]
    /\ req' = [req EXCEPT ![r] =
         IF left = {} THEN AfterHandoff(x)
         ELSE IF \E q \in left : Supplier[q] = x.vendor THEN [x EXCEPT !.at = "offer"]
         ELSE [x EXCEPT !.at = "draft"]]
    /\ UNCHANGED <<alone, database, offered, handed, cache, stock, broker, bounds>>

(* The deficit is not to be had, or the draft was approved meanwhile. *)
LineRefused(r) ==
    /\ req[r].at = "line"
    /\ req' = [req EXCEPT ![r] = Idle]
    /\ UNCHANGED <<alone, database, offered, handed, cache, scm, broker, bounds>>

-----------------------------------------------------------------------------
(* What others do in SCM. *)

POFlow == <<"Draft", "Approved", "In Transit", "Partial", "Received", "Void">>
Rank(s) == CHOOSE i \in DOMAIN POFlow : POFlow[i] = s
ValidTransition(s, t) == (s = "Partial" /\ t = "In Transit") \/ Rank(t) > Rank(s)

(* PUT .../state, and the approval of a draft: the status is checked as it  *)
(* is read and written later, whatever it has become.  A receipt that is    *)
(* not complete may refuse it in between (the request ends there).         *)
TransitionState(r, n, s) ==
    /\ po[n] # None
    /\ ValidTransition(po[n].status, s)
    /\ Start(r, [Idle EXCEPT !.kind = "state", !.at = "move", !.num = n, !.to = s])

Written(x, s) ==
    [x EXCEPT !.status = s, !.reopened = @ \/ (s \in OpenStatus /\ x.status \notin OpenStatus)]

UpdatePOStatus(r) ==
    /\ req[r].at = "move"
    /\ po' = [po EXCEPT ![req[r].num] = Written(@, req[r].to)]
    /\ req' = [req EXCEPT ![r] = Idle]
    /\ UNCHANGED <<alone, database, offered, handed, cache, stock, broker, bounds>>

(* A goods receipt was counted for the order (Receiving); it saves the      *)
(* order as it is complete or not, from whatever status.                    *)
SaveReceived(n, s) ==
    /\ Disturbed < MaxDisturb
    /\ po[n] # None
    /\ po' = [po EXCEPT ![n] = Written(@, s)]
    /\ moves' = moves + 1
    /\ UNCHANGED <<alone, database, offered, handed, cache, stock, broker, req, calls, faults, misses>>

ReceiveOrUse(p) ==
    /\ Disturbed < MaxDisturb
    /\ moves' = moves + 1
    /\ \/ /\ stock[p] < MaxStock
          /\ stock' = [stock EXCEPT ![p] = @ + 1]
       \/ /\ stock[p] > 0
          /\ stock' = [stock EXCEPT ![p] = @ - 1]
    /\ UNCHANGED <<alone, database, offered, handed, cache, po, broker, req, calls, faults, misses>>

-----------------------------------------------------------------------------
(* A statement or call of a request fails. *)
CallFails(r) ==
    /\ req[r].at \notin {"idle", "publish", "find", "invalidate", "forget", "cache", "metrics"}
    /\ Disturbed < MaxDisturb
    /\ faults' = faults + 1
    /\ EndWithError(r)
    /\ alone' = alone \ {req[r].order}
    /\ UNCHANGED <<database, offered, handed, cache, scm, deliv, made, planned, calls, moves, misses>>

(* The MRP service stops: the broker takes back what was not acknowledged. *)
Crash ==
    /\ Disturbed < MaxDisturb
    /\ \E r \in Requests : req[r].at # "idle"
    /\ faults' = faults + 1
    /\ req' = [r \in Requests |-> IF req[r].kind \in {"draft", "state"} THEN req[r] ELSE Idle]
    /\ event' = [e \in Events |-> IF event[e] = "inflight" THEN "ready" ELSE event[e]]
    /\ alone' = alone \ {req[r].order : r \in Requests}
    /\ UNCHANGED <<database, offered, handed, cache, scm, deliv, made, planned, calls, moves, misses>>

Step(r) ==
    \/ SkipItem(r) \/ PlanItem(r) \/ RefuseItem(r) \/ Ack(r)
    \/ NothingToExplode(r) \/ ListPOs(r) \/ RunBOMExplosion(r)
    \/ GetShortagesByOrderID(r) \/ PublishShortage(r) \/ SyncDone(r)
    \/ \E p \in Parts : CreateShortageLog(r, p) \/ UpdateShortageLog(r, p) \/ DeleteShortageLog(r, p)
    \/ UpdateProductionOrderStatus(r) \/ InvalidatePlanned(r) \/ PlanAnswered(r)
    \/ \E o \in Ids : NextOrder(r, o)
    \/ CacheReadinessRow(r) \/ CacheReadinessRows(r) \/ CacheReadinessMetrics(r)
    \/ DeleteProductionOrder(r) \/ InvalidateDeleted(r)
    \/ BulkDone(r) \/ GetOptimalSuppliers(r) \/ CreateDraftPO(r) \/ FindPOByVendor(r) \/ CountPOs(r)
    \/ CreatePO(r) \/ OfferShortage(r) \/ AddLineItemWithLock(r) \/ LineRefused(r)
    \/ UpdatePOStatus(r)

Request(r) ==
    \/ \E e \in Events : Deliver(r, e)
    \/ \E o \in DOMAIN orders : GetReadinessByOrderID(r, o) \/ Delete(r, o) \/ GeneratePOForDeficits(r, o)
    \/ \E kind \in {"matrix", "metrics"} : LoadReadinessRows(r, kind)
    \/ GeneratePOsForShortages(r)
    \/ \E v \in Vendors : DraftByHand(r, v)
    \/ \E n \in PONumbers, s \in Status : TransitionState(r, n, s)

Next ==
    \/ \E r \in Requests : Request(r) \/ Step(r) \/ CallFails(r)
    \/ \E o \in Ids : ExpireRow(o)
    \/ ExpireMatrix
    \/ ExpireMetrics
    \/ \E v \in Vendors, n \in PONumbers : PlacePO(v, n)
    \/ \E n \in PONumbers, s \in {"Partial", "Received"} : SaveReceived(n, s)
    \/ \E p \in Parts : ReceiveOrUse(p)
    \/ Crash

Spec == Init /\ [][Next]_vars

-----------------------------------------------------------------------------
(* Every variable keeps its type, and a request has the order, the draft    *)
(* and the part its next statement uses.                                    *)
Order == [build: Builds, qty: 1..MaxQty, status: {CLEAR, SHORTAGE}, gone: BOOLEAN]
Results == [Parts -> Result \cup {None}]
Rows == [order: Ids, qty: 1..MaxQty, status: {CLEAR, SHORTAGE}, results: Results]
At == {"idle", "plan", "explode", "stock", "logs", "sync", "publish", "status", "invalidate", "answer",
       "next", "cache", "metrics", "delete", "forget", "suppliers", "draft", "find", "count", "create",
       "offer", "line", "move"}

ReqOK(x) ==
    /\ x.at \in At
    /\ x.results \in Results
    /\ x.rest \subseteq Ids
    /\ x.built \subseteq Rows
    /\ x.todo \subseteq Parts
    /\ x.seen \in [Parts -> Nat]
    /\ x.old \in {CLEAR, SHORTAGE}
    /\ (x.ev # None) <=> (x.kind = "plan")
    /\ x.at = "plan" => x.line \in 1..(Len(Lines[x.ev]) + 1)
    /\ x.at \in {"explode", "stock", "logs", "sync", "publish", "status", "cache", "delete", "forget",
                 "invalidate", "answer", "suppliers"} => x.order \in DOMAIN orders
    /\ x.at \in {"publish", "line"} => x.part \in x.todo
    /\ x.at \in {"offer", "line", "move"} => x.num \in PONumbers /\ po[x.num] # None
    /\ x.at = "move" => x.to \in Status
    /\ x.at \in {"find", "count", "create", "offer", "line"} => x.vendor \in Vendors

TypeOK ==
    /\ orders \in Seq(Order) /\ Len(orders) <= MaxOrders
    /\ \A o \in Ids, p \in Parts : \A x \in rows[o][p] : x.qty > 0 /\ x.id \in 1..created[o][p]
    /\ {created, offered, handed} \subseteq [Ids -> [Parts -> Nat]]
    /\ cache.row \in [Ids -> Rows \cup {None}]
    /\ cache.matrix = None \/ cache.matrix \subseteq Rows
    /\ po \in [PONumbers -> PurchaseOrder \cup {None}]
    /\ stock \in [Parts -> 0..MaxStock]
    /\ event \in [Events -> {"unsent", "ready", "inflight", "acked"}]
    /\ \A r \in Requests : ReqOK(req[r])

(* An event that was acknowledged was planned to the end: for each item     *)
(* that names a build and a quantity there was an explosion, its shortages  *)
(* were recorded and the status written.  The consumer acknowledges late    *)
(* (order_consumer.go:248), so neither an error nor a crash loses an item;  *)
(* and a line gets one production order for each delivery of its event at   *)
(* most, however the deliveries before it ended (order_consumer.go:251).    *)
AckedIsPlanned ==
    \A e \in Events : \A i \in DOMAIN Lines[e] :
      /\ event[e] = "acked" => Invalid(Lines[e][i]) \/ <<e, i>> \in planned
      /\ made[e][i] <= deliv[e]

(* A check publishes a shortage only for a row it has just recorded, so     *)
(* checks that overlap, fail or repeat offer no more deficits than there    *)
(* were rows (readiness_service.go:643); a hand-off publishes each shortage *)
(* before it orders it (demand_service.go:161), so the lines of the orders  *)
(* never exceed the offers.                                                 *)
LinesOf(p) ==
    SumFunctionOnSet([n \in PONumbers |-> IF po[n] = None THEN 0 ELSE po[n].lines[p]], PONumbers)
HandedOf(p) == SumFunctionOnSet([o \in Ids |-> handed[o][p]], Ids)
OffersBacked ==
    \A p \in Parts :
      /\ \A o \in Ids : offered[o][p] <= created[o][p]
      /\ LinesOf(p) <= HandedOf(p)

(* The search for an open order and its creation are two statements, so     *)
(* requests that overlap may open several for one vendor, one each at most, *)
(* and one more for each failed search (po_service.go:167).  Two kinds of   *)
(* orders come on top: those placed with POST /purchase-orders, which does  *)
(* not look, and those a write brought back to an open status, be it from   *)
(* Partial, which the search overlooks (:168, :308), or because the status  *)
(* was changed between the read and the write (:240-258).                   *)
OpenPOsBounded ==
    \A v \in Vendors :
      Cardinality({n \in OpenPO(v) : ~po[n].placed /\ ~po[n].reopened})
        <= Cardinality(Requests) + misses

(* The status of an order and its recorded shortages tell the same, once no *)
(* request works on it and as long as none failed or overlapped another:    *)
(* the planner writes the shortages first, a check the status, and each     *)
(* removes the rows of what is no longer short (readiness_service.go:598).  *)
StatusAgreesWithRows ==
    \A o \in alone \cap DOMAIN orders :
      (Exists(o) /\ \A r \in Requests : req[r].order # o)
        => (orders[o].status = SHORTAGE <=> \E p \in Parts : rows[o][p] # {})
=============================================================================
