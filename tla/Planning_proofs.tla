-------------------------- MODULE Planning_proofs --------------------------
(***************************************************************************)
(* Proofs about planning, for any number of builds, components, suppliers, *)
(* events, requests, orders and calls, and for any stock.                  *)
(***************************************************************************)
EXTENDS Planning, Sums

-----------------------------------------------------------------------------
(***************************************************************************)
(* Type correctness.  What a request holds depends on what it is for and   *)
(* where it stands.                                                        *)
(***************************************************************************)
Kinds == {"none", "plan", "check", "matrix", "metrics", "delete", "handoff", "bulk", "draft", "state"}
Exploding == {"explode", "stock", "status", "logs", "sync", "publish", "cache"}
Ordering == {"explode", "stock", "suppliers", "draft", "find", "count", "create", "offer", "line"}
Places(kind) ==
    CASE kind = "none" -> {"idle"}
      [] kind = "plan" -> (Exploding \ {"cache"}) \cup {"plan", "invalidate", "answer"}
      [] kind = "check" -> Exploding
      [] kind = "matrix" -> Exploding \cup {"next"}
      [] kind = "metrics" -> Exploding \cup {"next", "metrics"}
      [] kind = "delete" -> {"delete", "forget"}
      [] kind = "handoff" -> Ordering
      [] kind = "bulk" -> Ordering \cup {"next"}
      [] kind = "draft" -> {"find", "count", "create"}
      [] kind = "state" -> {"move"}

RequestType ==
    [at: At, kind: Kinds, order: Nat, ev: Events \cup {None}, line: Nat, qty: Nat,
     old: {CLEAR, SHORTAGE}, results: Results, rest: SUBSET Ids,
     built: SUBSET Rows, seen: [Parts -> Nat], todo: SUBSET Parts,
     part: Parts \cup {None}, vendor: Vendors \cup {None}, num: Nat, to: Status \cup {None}]

OnAnOrder(x) == x.kind \notin {"draft", "state"} /\ x.at \notin {"idle", "plan", "next", "metrics"}

Existing == {n \in PONumbers : po[n] # None}
Serving(x, ids, numbers) ==
    /\ x.at \in Places(x.kind)
    /\ (x.ev # None) <=> (x.kind = "plan")
    /\ x.kind = "plan" => /\ x.line \in 1..(Len(Lines[x.ev]) + 1)
                          /\ x.at # "plan" => x.line <= Len(Lines[x.ev])
    /\ IF OnAnOrder(x) THEN x.order \in ids ELSE x.order = 0
    /\ OnAnOrder(x) /\ x.kind # "delete" => x.qty \in 1..MaxQty
    /\ x.at \in {"publish", "line"} => x.part \in x.todo
    /\ x.at \in {"offer", "line", "move"} => x.num \in numbers
    /\ x.at = "move" => x.to \in Status
    /\ x.at \in {"find", "count", "create", "offer", "line"} => x.vendor \in Vendors

RequestsOK == req \in [Requests -> RequestType] /\ \A r \in Requests : Serving(req[r], DOMAIN orders, Existing)

Log == [id: Nat, qty: Nat]
TablesOK ==
    /\ orders \in Seq(Order) /\ Len(orders) <= MaxOrders
    /\ rows \in [Ids -> [Parts -> SUBSET Log]]
    /\ created \in [Ids -> [Parts -> Nat]]
    /\ \A o \in Ids, p \in Parts : \A x \in rows[o][p] : x.qty > 0 /\ x.id \in 1..created[o][p]
OthersOK ==
    /\ offered \in [Ids -> [Parts -> Nat]]
    /\ handed \in [Ids -> [Parts -> Nat]]
    /\ cache = [row |-> cache.row, matrix |-> cache.matrix, metrics |-> cache.metrics]
    /\ cache.row \in [Ids -> Rows \cup {None}]
    /\ cache.matrix = None \/ cache.matrix \subseteq Rows
    /\ po \in [PONumbers -> PurchaseOrder \cup {None}]
    /\ stock \in [Parts -> 0..MaxStock]
    /\ event \in [Events -> {"unsent", "ready", "inflight", "acked"}]
    /\ deliv \in [Events -> Nat]
    /\ DOMAIN made = Events /\ \A e \in Events : made[e] \in [DOMAIN Lines[e] -> Nat]
    /\ alone \subseteq Ids
    /\ misses \in Nat
Types == RequestsOK /\ TablesOK /\ OthersOK

(* The bounds are natural numbers.                                         *)
LEMMA Bounds ==
  /\ {MaxQty, MaxStock, MaxOrders, MaxPOs, MaxDisturb} \subseteq Nat
  /\ MaxQty \in Nat /\ MaxStock \in Nat /\ MaxOrders \in Nat /\ MaxPOs \in Nat /\ MaxDisturb \in Nat
  BY PlanningAssumption

(* What an idle request holds.                                             *)
LEMMA IdleOK == Idle \in RequestType /\ \A ids, numbers : Serving(Idle, ids, numbers)
<1>1. NoResults \in Results
  BY DEF NoResults, Results
<1> QED
  BY <1>1, PlanningAssumption
     DEF Idle, RequestType, Serving, Places, OnAnOrder, At, Kinds, CLEAR, SHORTAGE

(* A step that replaces what one request holds, and may add orders or      *)
(* purchase orders.                                                        *)
LEMMA Replaced ==
  ASSUME RequestsOK, NEW r \in Requests, NEW q \in RequestType, req' = [req EXCEPT ![r] = q],
         Serving(q, (DOMAIN orders)', Existing'),
         DOMAIN orders \subseteq (DOMAIN orders)', Existing \subseteq Existing'
  PROVE  RequestsOK'
<1>1. \A x : Serving(x, DOMAIN orders, Existing) => Serving(x, (DOMAIN orders)', Existing')
  BY DEF Serving
<1> QED
  BY <1>1 DEF RequestsOK

(* The same when neither orders nor purchase orders change.                *)
LEMMA ReplacedAlone ==
  ASSUME RequestsOK, NEW r \in Requests, NEW q \in RequestType, req' = [req EXCEPT ![r] = q],
         Serving(q, DOMAIN orders, Existing), UNCHANGED <<orders, po>>
  PROVE  RequestsOK'
  BY Replaced DEF Existing

(* The line a plan stands at has a build and a quantity when it is not     *)
(* skipped.                                                                *)
LEMMA LineType ==
  ASSUME NEW r \in Requests, req[r] \in RequestType, Serving(req[r], DOMAIN orders, Existing), req[r].at = "plan", HasLine(r),
         ~Invalid(Line(r)), Accepted(Line(r))
  PROVE  Line(r).build \in Builds /\ Line(r).qty \in 1..MaxQty
<1>1. req[r].kind = "plan"
  BY DEF RequestType, Serving, Places, Kinds, Exploding, Ordering
<1>2. req[r].ev \in Events /\ req[r].line \in 1..Len(Lines[req[r].ev])
  BY <1>1 DEF RequestType, Serving, HasLine
<1>3. Lines[req[r].ev] \in Seq([build: Builds \cup {None}, qty: Nat])
  BY <1>2, PlanningAssumption
<1>4. Line(r) \in [build: Builds \cup {None}, qty: Nat]
  <2> DEFINE L == [build: Builds \cup {None}, qty: Nat]
             s == Lines[req[r].ev]
  <2>1. s \in Seq(L) /\ req[r].line \in 1..Len(s)
    BY <1>2, <1>3
  <2> HIDE DEF L, s
  <2>2. s[req[r].line] \in L
    BY <2>1
  <2> QED
    BY <2>2 DEF Line, L, s
<1> QED
  BY <1>4, PlanningAssumption DEF Invalid, Accepted

(* No results are results.                                                 *)
LEMMA NoResultsType == NoResults \in Results
  BY DEF NoResults, Results

(* A plan appends one order.                                               *)
LEMMA OrdersGrow ==
  ASSUME Types, NEW r \in Requests, PlanItem(r)
  PROVE  /\ NewOrder(Line(r).build, Line(r).qty) \in Order
         /\ orders' \in Seq(Order) /\ Len(orders') = Len(orders) + 1 /\ Len(orders') <= MaxOrders
         /\ Len(orders) + 1 \in Ids
         /\ DOMAIN orders = 1..Len(orders) /\ (DOMAIN orders)' = 1..(Len(orders) + 1)
         /\ \A o \in DOMAIN orders : orders'[o] = orders[o]
         /\ orders'[Len(orders) + 1] = NewOrder(Line(r).build, Line(r).qty)
<1> DEFINE x == NewOrder(Line(r).build, Line(r).qty)
<1>1. x \in Order
  BY LineType DEF Types, RequestsOK, PlanItem, NewOrder, Order
<1>2. orders \in Seq(Order) /\ Len(orders) < MaxOrders /\ orders' = Append(orders, x) /\ MaxOrders \in Nat
  BY PlanningAssumption DEF Types, TablesOK, PlanItem
<1> HIDE DEF x
<1>3. Len(orders) \in Nat
  BY <1>2
<1>4. Len(orders) + 1 \in Ids
  BY <1>2, <1>3 DEF Ids
<1>5. orders' \in Seq(Order) /\ Len(orders') = Len(orders) + 1 /\ Len(orders') <= MaxOrders
  BY <1>1, <1>2
<1>6. DOMAIN orders = 1..Len(orders) /\ (DOMAIN orders)' = 1..(Len(orders) + 1)
  BY <1>2, <1>5
<1>7. \A o \in DOMAIN orders : orders'[o] = orders[o]
  BY <1>2
<1>8. orders'[Len(orders) + 1] = x
  BY <1>2
<1> QED
  BY <1>1, <1>4, <1>5, <1>6, <1>7, <1>8 DEF x

(* A write to an order changes its status or deletes it, and no other.     *)
LEMMA OrdersKept ==
  ASSUME orders \in Seq(Order), NEW o, NEW x \in Order,
         orders' = [orders EXCEPT ![o] = x] \/ orders' = orders
  PROVE  orders' \in Seq(Order) /\ Len(orders') = Len(orders) /\ (DOMAIN orders)' = DOMAIN orders
  OBVIOUS

(* Counting the purchase orders gives a natural number.                    *)
LEMMA POCount == Cardinality({n \in PONumbers : po[n] # None}) \in Nat
<1>1. IsFiniteSet(PONumbers)
  BY FS_Interval, Bounds DEF PONumbers
<1> QED
  BY <1>1, FS_Subset, FS_CardinalityType

(* One lemma per action: what the request holds after it is well typed.    *)
LEMMA DeliverReq ==
  ASSUME Types, NEW r \in Requests, NEW e \in Events, Deliver(r, e)
  PROVE  RequestsOK'
<1> DEFINE q == [Idle EXCEPT !.at = "plan", !.kind = "plan", !.ev = e, !.line = 1]
<1>1. req[r] \in RequestType /\ Serving(req[r], DOMAIN orders, Existing)
  BY DEF Types, RequestsOK
<1>2. q \in RequestType
  BY <1>1, IdleOK DEF Deliver, RequestType, At, Kinds
<1>3. Serving(q, DOMAIN orders, Existing)
  BY <1>1, IdleOK, PlanningAssumption
     DEF Deliver, Types, RequestType, Serving, Places, Kinds, Exploding, Ordering, OnAnOrder,
         Idle
<1>4. req' = [req EXCEPT ![r] = q]
  BY DEF Deliver, Goto, EndWithError
<1> QED
  BY <1>2, <1>3, <1>4, ReplacedAlone DEF Deliver, Types, database, scm

LEMMA SkipItemReq ==
  ASSUME Types, NEW r \in Requests, SkipItem(r)
  PROVE  RequestsOK'
<1> DEFINE q == [req[r] EXCEPT !.line = @ + 1]
<1>1. req[r] \in RequestType /\ Serving(req[r], DOMAIN orders, Existing)
  BY DEF Types, RequestsOK
<1>2. q \in RequestType
  BY <1>1 DEF SkipItem, RequestType, At
<1>3. Serving(q, DOMAIN orders, Existing)
  BY <1>1
     DEF SkipItem, Types, RequestType, Serving, Places, Kinds, Exploding, Ordering, OnAnOrder,
         HasLine
<1>4. req' = [req EXCEPT ![r] = q]
  BY DEF SkipItem, Goto, EndWithError
<1> QED
  BY <1>2, <1>3, <1>4, ReplacedAlone DEF SkipItem, Types, database, scm

LEMMA PlanItemReq ==
  ASSUME Types, NEW r \in Requests, PlanItem(r)
  PROVE  RequestsOK'
<1> DEFINE n == Len(orders) + 1
           k == Line(r).qty
           q == [req[r] EXCEPT !.at = "explode", !.order = n, !.qty = k]
<1>1. req[r] \in RequestType /\ Serving(req[r], DOMAIN orders, Existing)
  BY DEF Types, RequestsOK
<1>a. Line(r).qty \in 1..MaxQty /\ Len(orders) + 1 \in Nat /\ MaxQty \in Nat
  <2>1. Line(r).qty \in 1..MaxQty
    BY <1>1, LineType DEF PlanItem
  <2>2. Len(orders) + 1 \in Ids
    BY OrdersGrow
  <2> QED
    BY <2>1, <2>2, Bounds DEF Ids
<1>c. n \in Nat /\ k \in Nat
  BY <1>a
<1>2. q \in RequestType
  <2> HIDE DEF n, k
  <2> QED
    BY <1>1, <1>c DEF RequestType, At
<1>b. req[r].at = "plan" /\ HasLine(r) /\ (DOMAIN orders)' = 1..(Len(orders) + 1)
  BY OrdersGrow, Zenon DEF PlanItem
<1>3. Serving(q, (DOMAIN orders)', Existing')
  <2>1. req[r].kind = "plan"
    BY <1>1, <1>b DEF RequestType, Serving, Places, Kinds, Exploding, Ordering
  <2>2. req[r].line \in 1..Len(Lines[req[r].ev])
    BY <1>1, <1>b, <2>1 DEF Serving, HasLine, RequestType
  <2>3. n \in (DOMAIN orders)'
    BY <1>a, <1>b
  <2>4. k \in 1..MaxQty
    BY <1>a
  <2> HIDE DEF n, k
  <2>5. q.at = "explode" /\ q.kind = "plan" /\ q.order = n /\ q.qty = k /\ q.ev = req[r].ev /\ q.line = req[r].line
    BY <1>1, <2>1 DEF RequestType
  <2> HIDE DEF q
  <2> QED
    BY <1>1, <2>1, <2>2, <2>3, <2>4, <2>5 DEF Serving, Places, Exploding, OnAnOrder
<1>4. req' = [req EXCEPT ![r] = q]
  BY DEF PlanItem, Goto, EndWithError
<1>10. DOMAIN orders \subseteq (DOMAIN orders)'
  BY OrdersGrow
<1>11. RequestsOK /\ UNCHANGED po
  BY DEF PlanItem, Types, scm
<1>12. Existing' = Existing
  BY <1>11 DEF Existing
<1> HIDE DEF q
<1> QED
  BY <1>2, <1>3, <1>4, <1>10, <1>11, <1>12, Replaced

LEMMA RefuseItemReq ==
  ASSUME Types, NEW r \in Requests, RefuseItem(r)
  PROVE  RequestsOK'
<1> DEFINE q == Idle
<1>1. req[r] \in RequestType /\ Serving(req[r], DOMAIN orders, Existing)
  BY DEF Types, RequestsOK
<1>2. q \in RequestType
  BY <1>1, IdleOK DEF RefuseItem, RequestType, At
<1>3. Serving(q, DOMAIN orders, Existing)
  BY <1>1, IdleOK
     DEF RefuseItem, Types, RequestType, Serving, Places, Kinds, Exploding, Ordering,
         OnAnOrder, EndWithError
<1>4. req' = [req EXCEPT ![r] = q]
  BY DEF RefuseItem, Goto, EndWithError
<1> QED
  BY <1>2, <1>3, <1>4, ReplacedAlone DEF RefuseItem, Types, database, scm

LEMMA AckReq ==
  ASSUME Types, NEW r \in Requests, Ack(r)
  PROVE  RequestsOK'
<1> DEFINE q == Idle
<1>1. req[r] \in RequestType /\ Serving(req[r], DOMAIN orders, Existing)
  BY DEF Types, RequestsOK
<1>2. q \in RequestType
  BY <1>1, IdleOK DEF Ack, RequestType, At
<1>3. Serving(q, DOMAIN orders, Existing)
  BY <1>1, IdleOK
     DEF Ack, Types, RequestType, Serving, Places, Kinds, Exploding, Ordering, OnAnOrder,
         EndWithError
<1>4. req' = [req EXCEPT ![r] = q]
  BY DEF Ack, Goto, EndWithError
<1> QED
  BY <1>2, <1>3, <1>4, ReplacedAlone DEF Ack, Types, database, scm

LEMMA InvalidateDeletedReq ==
  ASSUME Types, NEW r \in Requests, InvalidateDeleted(r)
  PROVE  RequestsOK'
<1> DEFINE q == Idle
<1>1. req[r] \in RequestType /\ Serving(req[r], DOMAIN orders, Existing)
  BY DEF Types, RequestsOK
<1>2. q \in RequestType
  BY <1>1, IdleOK DEF InvalidateDeleted, RequestType, At
<1>3. Serving(q, DOMAIN orders, Existing)
  BY <1>1, IdleOK
     DEF InvalidateDeleted, Types, RequestType, Serving, Places, Kinds, Exploding, Ordering,
         OnAnOrder, EndWithError
<1>4. req' = [req EXCEPT ![r] = q]
  BY DEF InvalidateDeleted, Goto, EndWithError
<1> QED
  BY <1>2, <1>3, <1>4, ReplacedAlone DEF InvalidateDeleted, Types, database, scm

LEMMA BulkDoneReq ==
  ASSUME Types, NEW r \in Requests, BulkDone(r)
  PROVE  RequestsOK'
<1> DEFINE q == Idle
<1>1. req[r] \in RequestType /\ Serving(req[r], DOMAIN orders, Existing)
  BY DEF Types, RequestsOK
<1>2. q \in RequestType
  BY <1>1, IdleOK DEF BulkDone, RequestType, At
<1>3. Serving(q, DOMAIN orders, Existing)
  BY <1>1, IdleOK
     DEF BulkDone, Types, RequestType, Serving, Places, Kinds, Exploding, Ordering, OnAnOrder,
         EndWithError
<1>4. req' = [req EXCEPT ![r] = q]
  BY DEF BulkDone, Goto, EndWithError
<1> QED
  BY <1>2, <1>3, <1>4, ReplacedAlone DEF BulkDone, Types, database, scm

LEMMA LineRefusedReq ==
  ASSUME Types, NEW r \in Requests, LineRefused(r)
  PROVE  RequestsOK'
<1> DEFINE q == Idle
<1>1. req[r] \in RequestType /\ Serving(req[r], DOMAIN orders, Existing)
  BY DEF Types, RequestsOK
<1>2. q \in RequestType
  BY <1>1, IdleOK DEF LineRefused, RequestType, At
<1>3. Serving(q, DOMAIN orders, Existing)
  BY <1>1, IdleOK
     DEF LineRefused, Types, RequestType, Serving, Places, Kinds, Exploding, Ordering,
         OnAnOrder, EndWithError
<1>4. req' = [req EXCEPT ![r] = q]
  BY DEF LineRefused, Goto, EndWithError
<1> QED
  BY <1>2, <1>3, <1>4, ReplacedAlone DEF LineRefused, Types, database, scm

LEMMA CacheReadinessMetricsReq ==
  ASSUME Types, NEW r \in Requests, CacheReadinessMetrics(r)
  PROVE  RequestsOK'
<1> DEFINE q == Idle
<1>1. req[r] \in RequestType /\ Serving(req[r], DOMAIN orders, Existing)
  BY DEF Types, RequestsOK
<1>2. q \in RequestType
  BY <1>1, IdleOK DEF CacheReadinessMetrics, RequestType, At
<1>3. Serving(q, DOMAIN orders, Existing)
  BY <1>1, IdleOK
     DEF CacheReadinessMetrics, Types, RequestType, Serving, Places, Kinds, Exploding,
         Ordering, OnAnOrder, EndWithError
<1>4. req' = [req EXCEPT ![r] = q]
  BY DEF CacheReadinessMetrics, Goto, EndWithError
<1> QED
  BY <1>2, <1>3, <1>4, ReplacedAlone DEF CacheReadinessMetrics, Types, database, scm

LEMMA CallFailsReq ==
  ASSUME Types, NEW r \in Requests, CallFails(r)
  PROVE  RequestsOK'
<1> DEFINE q == Idle
<1>1. req[r] \in RequestType /\ Serving(req[r], DOMAIN orders, Existing)
  BY DEF Types, RequestsOK
<1>2. q \in RequestType
  BY <1>1, IdleOK DEF CallFails, RequestType, At
<1>3. Serving(q, DOMAIN orders, Existing)
  BY <1>1, IdleOK
     DEF CallFails, Types, RequestType, Serving, Places, Kinds, Exploding, Ordering, OnAnOrder,
         EndWithError
<1>4. req' = [req EXCEPT ![r] = q]
  BY DEF CallFails, Goto, EndWithError
<1> QED
  BY <1>2, <1>3, <1>4, ReplacedAlone DEF CallFails, Types, database, scm

LEMMA NothingToExplodeReq ==
  ASSUME Types, NEW r \in Requests, NothingToExplode(r)
  PROVE  RequestsOK'
<1> DEFINE q == [req[r] EXCEPT !.at = AfterExplosion(req[r].kind), !.results = NoResults]
<1>1. req[r] \in RequestType /\ Serving(req[r], DOMAIN orders, Existing)
  BY DEF Types, RequestsOK
<1>a. AfterExplosion(req[r].kind) \in At
  BY <1>1
     DEF NothingToExplode, RequestType, Serving, Places, Kinds, Exploding, Ordering,
         AfterExplosion, At
<1>2. q \in RequestType
  BY <1>1, <1>a, NoResultsType DEF RequestType
<1>3. Serving(q, DOMAIN orders, Existing)
  BY <1>1
     DEF NothingToExplode, Types, RequestType, Serving, Places, Kinds, Exploding, Ordering,
         OnAnOrder, AfterExplosion, At, Kinds
<1>4. req' = [req EXCEPT ![r] = q]
  BY DEF NothingToExplode, Goto, EndWithError
<1> QED
  BY <1>2, <1>3, <1>4, ReplacedAlone DEF NothingToExplode, Types, database, scm

LEMMA SyncDoneReq ==
  ASSUME Types, NEW r \in Requests, SyncDone(r)
  PROVE  RequestsOK'
<1> DEFINE q == [req[r] EXCEPT !.at = IF req[r].kind = "plan" THEN "status" ELSE "cache"]
<1>1. req[r] \in RequestType /\ Serving(req[r], DOMAIN orders, Existing)
  BY DEF Types, RequestsOK
<1>2. q \in RequestType
  BY <1>1 DEF SyncDone, RequestType, At, At, Goto
<1>3. Serving(q, DOMAIN orders, Existing)
  BY <1>1
     DEF SyncDone, Types, RequestType, Serving, Places, Kinds, Exploding, Ordering, OnAnOrder,
         Goto
<1>4. req' = [req EXCEPT ![r] = q]
  BY DEF SyncDone, Goto, EndWithError
<1> QED
  BY <1>2, <1>3, <1>4, ReplacedAlone DEF SyncDone, Types, database, scm

LEMMA CreateShortageLogReq ==
  ASSUME Types, NEW r \in Requests, NEW p \in Parts, CreateShortageLog(r, p)
  PROVE  RequestsOK'
<1> DEFINE q == [req[r] EXCEPT !.at = "publish", !.part = p]
<1>1. req[r] \in RequestType /\ Serving(req[r], DOMAIN orders, Existing)
  BY DEF Types, RequestsOK
<1>2. q \in RequestType
  BY <1>1 DEF CreateShortageLog, RequestType, At
<1>3. Serving(q, DOMAIN orders, Existing)
  BY <1>1
     DEF CreateShortageLog, Types, RequestType, Serving, Places, Kinds, Exploding, Ordering,
         OnAnOrder
<1>4. req' = [req EXCEPT ![r] = q]
  BY DEF CreateShortageLog, Goto, EndWithError
<1> QED
  BY <1>2, <1>3, <1>4, ReplacedAlone DEF CreateShortageLog, Types, database, scm

LEMMA UpdateShortageLogReq ==
  ASSUME Types, NEW r \in Requests, NEW p \in Parts, UpdateShortageLog(r, p)
  PROVE  RequestsOK'
<1> DEFINE q == [req[r] EXCEPT !.todo = @ \ {p}]
<1>1. req[r] \in RequestType /\ Serving(req[r], DOMAIN orders, Existing)
  BY DEF Types, RequestsOK
<1>2. q \in RequestType
  BY <1>1 DEF UpdateShortageLog, RequestType, At
<1>3. Serving(q, DOMAIN orders, Existing)
  BY <1>1
     DEF UpdateShortageLog, Types, RequestType, Serving, Places, Kinds, Exploding, Ordering,
         OnAnOrder
<1>4. req' = [req EXCEPT ![r] = q]
  BY DEF UpdateShortageLog, Goto, EndWithError
<1> QED
  BY <1>2, <1>3, <1>4, ReplacedAlone DEF UpdateShortageLog, Types, database, scm

LEMMA DeleteShortageLogReq ==
  ASSUME Types, NEW r \in Requests, NEW p \in Parts, DeleteShortageLog(r, p)
  PROVE  RequestsOK'
<1> DEFINE q == [req[r] EXCEPT !.todo = @ \ {p}]
<1>1. req[r] \in RequestType /\ Serving(req[r], DOMAIN orders, Existing)
  BY DEF Types, RequestsOK
<1>2. q \in RequestType
  BY <1>1 DEF DeleteShortageLog, RequestType, At
<1>3. Serving(q, DOMAIN orders, Existing)
  BY <1>1
     DEF DeleteShortageLog, Types, RequestType, Serving, Places, Kinds, Exploding, Ordering,
         OnAnOrder
<1>4. req' = [req EXCEPT ![r] = q]
  BY DEF DeleteShortageLog, Goto, EndWithError
<1> QED
  BY <1>2, <1>3, <1>4, ReplacedAlone DEF DeleteShortageLog, Types, database, scm

LEMMA PublishShortageReq ==
  ASSUME Types, NEW r \in Requests, PublishShortage(r)
  PROVE  RequestsOK'
<1> DEFINE q == [req[r] EXCEPT !.at = "sync", !.todo = @ \ {req[r].part}, !.part = None]
<1>1. req[r] \in RequestType /\ Serving(req[r], DOMAIN orders, Existing)
  BY DEF Types, RequestsOK
<1>2. q \in RequestType
  BY <1>1 DEF PublishShortage, RequestType, At
<1>3. Serving(q, DOMAIN orders, Existing)
  BY <1>1
     DEF PublishShortage, Types, RequestType, Serving, Places, Kinds, Exploding, Ordering,
         OnAnOrder
<1>4. req' = [req EXCEPT ![r] = q]
  BY DEF PublishShortage, Goto, EndWithError
<1> QED
  BY <1>2, <1>3, <1>4, ReplacedAlone DEF PublishShortage, Types, database, scm

LEMMA UpdateProductionOrderStatusReq ==
  ASSUME Types, NEW r \in Requests, UpdateProductionOrderStatus(r)
  PROVE  RequestsOK'
<1> DEFINE q == [req[r] EXCEPT !.at = IF req[r].kind = "plan" THEN "invalidate" ELSE "logs"]
<1>1. req[r] \in RequestType /\ Serving(req[r], DOMAIN orders, Existing)
  BY DEF Types, RequestsOK
<1>2. q \in RequestType
  BY <1>1 DEF UpdateProductionOrderStatus, RequestType, At, At, Goto
<1>3. Serving(q, (DOMAIN orders)', Existing')
  BY <1>1
     DEF UpdateProductionOrderStatus, Types, RequestType, Serving, Places, Kinds, Exploding,
         Ordering, OnAnOrder, Goto, TablesOK
<1>4. req' = [req EXCEPT ![r] = q]
  BY DEF UpdateProductionOrderStatus, Goto, EndWithError
<1>5. orders \in Seq(Order) /\ req[r].order \in DOMAIN orders
  BY <1>1
     DEF UpdateProductionOrderStatus, Types, TablesOK, Serving, OnAnOrder, Places, Kinds,
         RequestType, Exploding, Ordering
<1> DEFINE x == [orders[req[r].order] EXCEPT !.status = deriveReadinessStatus(req[r].results)]
<1>6. orders[req[r].order] \in Order
  BY <1>5
<1>7. x \in Order
  BY <1>6 DEF Order, deriveReadinessStatus
<1>8. orders' = [orders EXCEPT ![req[r].order] = x] \/ orders' = orders
  BY DEF UpdateProductionOrderStatus
<1>9. (DOMAIN orders)' = DOMAIN orders
  BY <1>5, <1>7, <1>8, OrdersKept
<1>10. DOMAIN orders \subseteq (DOMAIN orders)'
  BY <1>9
<1>11. RequestsOK /\ UNCHANGED po
  BY DEF UpdateProductionOrderStatus, Types, scm
<1>12. Existing' = Existing
  BY <1>11 DEF Existing
<1> HIDE DEF q
<1> QED
  BY <1>2, <1>3, <1>4, <1>10, <1>11, <1>12, Replaced

LEMMA InvalidatePlannedReq ==
  ASSUME Types, NEW r \in Requests, InvalidatePlanned(r)
  PROVE  RequestsOK'
<1> DEFINE q == [req[r] EXCEPT !.at = "answer"]
<1>1. req[r] \in RequestType /\ Serving(req[r], DOMAIN orders, Existing)
  BY DEF Types, RequestsOK
<1>2. q \in RequestType
  BY <1>1 DEF InvalidatePlanned, RequestType, At, At, Goto
<1>3. Serving(q, DOMAIN orders, Existing)
  BY <1>1
     DEF InvalidatePlanned, Types, RequestType, Serving, Places, Kinds, Exploding, Ordering,
         OnAnOrder, Goto
<1>4. req' = [req EXCEPT ![r] = q]
  BY DEF InvalidatePlanned, Goto, EndWithError
<1> QED
  BY <1>2, <1>3, <1>4, ReplacedAlone DEF InvalidatePlanned, Types, database, scm

LEMMA PlanAnsweredReq ==
  ASSUME Types, NEW r \in Requests, PlanAnswered(r)
  PROVE  RequestsOK'
<1> DEFINE q == [Idle EXCEPT !.at = "plan", !.kind = "plan", !.ev = req[r].ev, !.line = req[r].line + 1]
<1>1. req[r] \in RequestType /\ Serving(req[r], DOMAIN orders, Existing)
  BY DEF Types, RequestsOK
<1>a. req[r].line + 1 \in Nat /\ req[r].ev \in Events \cup {None}
  BY <1>1 DEF RequestType
<1>2. q \in RequestType
  BY <1>a, IdleOK DEF RequestType, At, Kinds
<1>3. Serving(q, DOMAIN orders, Existing)
  BY <1>1, IdleOK
     DEF PlanAnswered, Types, RequestType, Serving, Places, Kinds, Exploding, Ordering,
         OnAnOrder, Idle
<1>4. req' = [req EXCEPT ![r] = q]
  BY DEF PlanAnswered, Goto, EndWithError
<1> QED
  BY <1>2, <1>3, <1>4, ReplacedAlone DEF PlanAnswered, Types, database, scm

LEMMA DeleteProductionOrderReq ==
  ASSUME Types, NEW r \in Requests, DeleteProductionOrder(r)
  PROVE  RequestsOK'
<1> DEFINE q == [req[r] EXCEPT !.at = "forget"]
<1>1. req[r] \in RequestType /\ Serving(req[r], DOMAIN orders, Existing)
  BY DEF Types, RequestsOK
<1>2. q \in RequestType
  BY <1>1 DEF DeleteProductionOrder, RequestType, At, Goto
<1>3. Serving(q, (DOMAIN orders)', Existing')
  BY <1>1
     DEF DeleteProductionOrder, Types, RequestType, Serving, Places, Kinds, Exploding,
         Ordering, OnAnOrder, Goto, TablesOK
<1>4. req' = [req EXCEPT ![r] = q]
  BY DEF DeleteProductionOrder, Goto, EndWithError
<1>5. orders \in Seq(Order) /\ req[r].order \in DOMAIN orders
  BY <1>1
     DEF DeleteProductionOrder, Types, TablesOK, Serving, OnAnOrder, Places, Kinds,
         RequestType, Exploding, Ordering
<1> DEFINE x == [orders[req[r].order] EXCEPT !.gone = TRUE]
<1>6. orders[req[r].order] \in Order
  BY <1>5
<1>7. x \in Order
  BY <1>6 DEF Order, deriveReadinessStatus
<1>8. orders' = [orders EXCEPT ![req[r].order] = x] \/ orders' = orders
  BY DEF DeleteProductionOrder
<1>9. (DOMAIN orders)' = DOMAIN orders
  BY <1>5, <1>7, <1>8, OrdersKept
<1>10. DOMAIN orders \subseteq (DOMAIN orders)'
  BY <1>9
<1>11. RequestsOK /\ UNCHANGED po
  BY DEF DeleteProductionOrder, Types, scm
<1>12. Existing' = Existing
  BY <1>11 DEF Existing
<1> HIDE DEF q
<1> QED
  BY <1>2, <1>3, <1>4, <1>10, <1>11, <1>12, Replaced

LEMMA CountPOsReq ==
  ASSUME Types, NEW r \in Requests, CountPOs(r)
  PROVE  RequestsOK'
<1> DEFINE q == [req[r] EXCEPT !.at = "create", !.num = Cardinality({n \in PONumbers : po[n] # None}) + 1]
<1>1. req[r] \in RequestType /\ Serving(req[r], DOMAIN orders, Existing)
  BY DEF Types, RequestsOK
<1>a. Cardinality({n \in PONumbers : po[n] # None}) + 1 \in Nat
  BY POCount
<1>2. q \in RequestType
  BY <1>1, <1>a DEF RequestType, At
<1>3. Serving(q, DOMAIN orders, Existing)
  BY <1>1
     DEF CountPOs, Types, RequestType, Serving, Places, Kinds, Exploding, Ordering, OnAnOrder
<1>4. req' = [req EXCEPT ![r] = q]
  BY DEF CountPOs, Goto, EndWithError
<1> QED
  BY <1>2, <1>3, <1>4, ReplacedAlone DEF CountPOs, Types, database, scm

(* A load starts with the orders that are open; an order that is read has  *)
(* the type of one.                                                        *)
(* A purchase order is one, and no missing row.                            *)
LEMMA NewPOSome ==
  /\ None \notin PurchaseOrder
  /\ \A v \in Vendors, b \in BOOLEAN : NewPO(v, b) \in PurchaseOrder /\ NewPO(v, b) # None
<1>1. None \notin PurchaseOrder
  BY NoneAssumption
<1>2. \A v \in Vendors, b \in BOOLEAN : NewPO(v, b) \in PurchaseOrder
  BY DEF NewPO, PurchaseOrder, Status
<1> QED
  BY <1>1, <1>2

(* A request that takes up an order that exists is well typed.             *)
LEMMA OnOrderOK ==
  ASSUME Types, NEW o \in DOMAIN orders, NEW kind \in {"check", "matrix", "metrics", "handoff", "bulk"},
         NEW rest \in SUBSET Ids, NEW x \in RequestType,
         x.kind = kind, x.ev = None
  PROVE  LET q == OnOrder(x, o, "explode") IN
         q \in RequestType /\ Serving(q, DOMAIN orders, Existing)
<1>1. orders[o] \in Order /\ o \in Nat
  BY DEF Types, TablesOK
<1>2. orders[o].qty \in Nat /\ orders[o].qty \in 1..MaxQty /\ orders[o].status \in {CLEAR, SHORTAGE}
  BY <1>1, Bounds DEF Order
<1> DEFINE n == orders[o].qty
           st == orders[o].status
           q == [x EXCEPT !.at = "explode", !.order = o, !.qty = n, !.old = st]
<1> HIDE DEF n, st
<1>a. n \in Nat /\ st \in {CLEAR, SHORTAGE} /\ o \in Nat
  BY <1>1, <1>2 DEF n, st
<1>3. q \in RequestType
  <2>3. ASSUME NEW y \in RequestType, NEW j \in Nat, NEW k \in {CLEAR, SHORTAGE}
        PROVE  [y EXCEPT !.qty = j, !.old = k] \in RequestType
    BY DEF RequestType
  <2>2. "explode" \in At
    BY DEF At
  <2> DEFINE y == [x EXCEPT !.at = "explode", !.order = o]
  <2>4. y \in RequestType
    BY <1>a, <2>2 DEF RequestType
  <2>5. q = [y EXCEPT !.qty = n, !.old = st]
    BY DEF RequestType
  <2> HIDE DEF y, q
  <2> QED
    BY <1>a, <2>3, <2>4, <2>5
<1>4. q.kind = kind /\ q.at = "explode" /\ q.order = o /\ q.qty = n /\ q.ev = None
  BY DEF RequestType
<1>5. Serving(q, DOMAIN orders, Existing)
  BY <1>2, <1>4 DEF Serving, Places, Exploding, Ordering, OnAnOrder, n
<1> QED
  BY <1>3, <1>5 DEF OnOrder, n, st

(* A request that starts replaces an idle one.                             *)
LEMMA StartReq ==
  ASSUME Types, NEW r \in Requests, NEW q \in RequestType, Serving(q, DOMAIN orders, Existing), Start(r, q)
  PROVE  RequestsOK'
  BY ReplacedAlone DEF Start, Types, database, scm

(* The open orders are orders.                                             *)
LEMMA OpenIds == Types => DOMAIN orders \subseteq Ids /\ OpenOrders \subseteq Ids
<1>1. Types => DOMAIN orders = 1..Len(orders) /\ Len(orders) \in Nat /\ Len(orders) <= MaxOrders
  BY DEF Types, TablesOK
<1> QED
  BY <1>1, Bounds DEF OpenOrders, Ids

LEMMA StartsReq ==
  ASSUME Types, NEW r \in Requests,
         \/ \E o \in DOMAIN orders : GetReadinessByOrderID(r, o) \/ Delete(r, o) \/ GeneratePOForDeficits(r, o)
         \/ \E kind \in {"matrix", "metrics"} : LoadReadinessRows(r, kind)
         \/ GeneratePOsForShortages(r)
         \/ \E v \in Vendors : DraftByHand(r, v)
         \/ \E n \in PONumbers, s \in Status : TransitionState(r, n, s)
  PROVE  RequestsOK'
<1>1. ASSUME NEW o \in DOMAIN orders, GetReadinessByOrderID(r, o) PROVE RequestsOK'
  <2> DEFINE x == [Idle EXCEPT !.kind = "check"]
             q == OnOrder(x, o, "explode")
  <2>1. x \in RequestType /\ x.kind = "check" /\ x.ev = None
    BY IdleOK DEF RequestType, Idle, Kinds
  <2> HIDE DEF x
  <2>2. q \in RequestType /\ Serving(q, DOMAIN orders, Existing)
    BY <2>1, OnOrderOK
  <2>3. Start(r, q)
    BY <1>1 DEF GetReadinessByOrderID, x
  <2> HIDE DEF q
  <2> QED
    BY <2>2, <2>3, StartReq
<1>2. ASSUME NEW o \in DOMAIN orders, GeneratePOForDeficits(r, o) PROVE RequestsOK'
  <2> DEFINE x == [Idle EXCEPT !.kind = "handoff"]
             q == OnOrder(x, o, "explode")
  <2>1. x \in RequestType /\ x.kind = "handoff" /\ x.ev = None
    BY IdleOK DEF RequestType, Idle, Kinds
  <2> HIDE DEF x
  <2>2. q \in RequestType /\ Serving(q, DOMAIN orders, Existing)
    BY <2>1, OnOrderOK
  <2>3. Start(r, q)
    BY <1>2 DEF GeneratePOForDeficits, x
  <2> HIDE DEF q
  <2> QED
    BY <2>2, <2>3, StartReq
<1>3. ASSUME NEW o \in DOMAIN orders, Delete(r, o) PROVE RequestsOK'
  <2> DEFINE q == [Idle EXCEPT !.kind = "delete", !.at = "delete", !.order = o]
  <2>1. o \in Nat
    BY OpenIds DEF Ids
  <2>2. q \in RequestType
    BY <2>1, IdleOK DEF RequestType, Kinds, At
  <2>3. Serving(q, DOMAIN orders, Existing)
    BY DEF Idle, Serving, Places, OnAnOrder
  <2>4. Start(r, q)
    BY <1>3 DEF Delete
  <2> HIDE DEF q
  <2> QED
    BY <2>2, <2>3, <2>4, StartReq
<1>4. ASSUME NEW kind \in {"matrix", "metrics"}, LoadReadinessRows(r, kind) PROVE RequestsOK'
  <2>1. CASE Start(r, [Idle EXCEPT !.kind = kind, !.at = "next", !.rest = OpenOrders])
    <3> DEFINE q == [Idle EXCEPT !.kind = kind, !.at = "next", !.rest = OpenOrders]
    <3>1. q \in RequestType
      BY OpenIds, IdleOK DEF RequestType, Kinds, At
    <3>2. Serving(q, DOMAIN orders, Existing)
      BY DEF Idle, Serving, Places, OnAnOrder
    <3> HIDE DEF q
    <3>3. Start(r, q)
      BY <2>1 DEF q
    <3> QED
      BY <3>1, <3>2, <3>3, StartReq
  <2>2. CASE cache.matrix # None /\ kind = "metrics"
             /\ Start(r, [Idle EXCEPT !.kind = kind, !.at = "metrics", !.built = cache.matrix])
    <3> DEFINE q == [Idle EXCEPT !.kind = kind, !.at = "metrics", !.built = cache.matrix]
    <3>0. cache.matrix \subseteq Rows
      BY <2>2 DEF Types, OthersOK
    <3>1. q \in RequestType
      BY <3>0, IdleOK DEF RequestType, Kinds, At
    <3>2. Serving(q, DOMAIN orders, Existing)
      BY <2>2 DEF Idle, Serving, Places, OnAnOrder
    <3> HIDE DEF q
    <3>3. Start(r, q)
      BY <2>2 DEF q
    <3> QED
      BY <3>1, <3>2, <3>3, StartReq
  <2> QED
    BY <1>4, <2>1, <2>2 DEF LoadReadinessRows
<1>5. ASSUME GeneratePOsForShortages(r) PROVE RequestsOK'
  <2> DEFINE q == [Idle EXCEPT !.kind = "bulk", !.at = "next", !.rest = OpenOrders]
  <2>1. q \in RequestType
    BY OpenIds, IdleOK DEF RequestType, Kinds, At
  <2>2. Serving(q, DOMAIN orders, Existing)
    BY DEF Idle, Serving, Places, OnAnOrder
  <2> HIDE DEF q
  <2>3. Start(r, q)
    BY <1>5 DEF q, GeneratePOsForShortages
  <2> QED
    BY <2>1, <2>2, <2>3, StartReq
<1>6. ASSUME NEW v \in Vendors, DraftByHand(r, v) PROVE RequestsOK'
  <2> DEFINE q == [Idle EXCEPT !.kind = "draft", !.at = "find", !.vendor = v]
  <2>1. q \in RequestType
    BY IdleOK DEF RequestType, Kinds, At
  <2>2. Serving(q, DOMAIN orders, Existing)
    BY DEF Idle, Serving, Places, OnAnOrder
  <2> HIDE DEF q
  <2>3. Start(r, q)
    BY <1>6 DEF q, DraftByHand
  <2> QED
    BY <2>1, <2>2, <2>3, StartReq
<1>7. ASSUME NEW n \in PONumbers, NEW s \in Status, TransitionState(r, n, s) PROVE RequestsOK'
  <2> DEFINE q == [Idle EXCEPT !.kind = "state", !.at = "move", !.num = n, !.to = s]
  <2>0. po[n] # None
    BY <1>7 DEF TransitionState
  <2>1. n \in Nat /\ n \in Existing
    BY <2>0, Bounds DEF PONumbers, Existing
  <2>2. q \in RequestType
    BY <2>1, IdleOK DEF RequestType, Kinds, At
  <2>3. Serving(q, DOMAIN orders, Existing)
    BY <2>1 DEF Idle, Serving, Places, OnAnOrder
  <2>4. Start(r, q)
    BY <1>7 DEF TransitionState
  <2> HIDE DEF q
  <2> QED
    BY <2>2, <2>3, <2>4, StartReq
<1> QED
  BY <1>1, <1>2, <1>3, <1>4, <1>5, <1>6, <1>7

LEMMA NextOrderReq ==
  ASSUME Types, NEW r \in Requests, NEW o \in Ids, NextOrder(r, o)
  PROVE  RequestsOK'
<1> DEFINE x == [req[r] EXCEPT !.rest = @ \ {o}]
<1>1. req[r] \in RequestType /\ Serving(req[r], DOMAIN orders, Existing) /\ RequestsOK
  BY DEF Types, RequestsOK
<1>2. req[r].at = "next" /\ req[r].kind \in {"matrix", "metrics", "bulk"} /\ req[r].ev = None /\ req[r].order = 0
  BY <1>1 DEF NextOrder, RequestType, Serving, Places, Kinds, Exploding, Ordering, OnAnOrder
<1>3. x \in RequestType /\ x.kind = req[r].kind /\ x.ev = None
  BY <1>1, <1>2 DEF RequestType
<1>4. Serving(x, DOMAIN orders, Existing)
  BY <1>1, <1>2 DEF RequestType, Serving, OnAnOrder
<1>e. req' = [req EXCEPT ![r] = IF Exists(o) THEN OnOrder(x, o, "explode") ELSE x]
  BY DEF NextOrder
<1> HIDE DEF x
<1>5. CASE ~Exists(o)
  <2>1. req' = [req EXCEPT ![r] = x]
    BY <1>5, <1>e
  <2> QED
    BY <1>1, <1>3, <1>4, <2>1, ReplacedAlone DEF NextOrder, database, scm
<1>6. CASE Exists(o)
  <2> DEFINE q == OnOrder(x, o, "explode")
  <2>1. q \in RequestType /\ Serving(q, DOMAIN orders, Existing)
    BY <1>2, <1>3, <1>6, OnOrderOK DEF Exists
  <2>2. req' = [req EXCEPT ![r] = q]
    BY <1>6, <1>e
  <2> HIDE DEF q
  <2> QED
    BY <1>1, <2>1, <2>2, ReplacedAlone DEF NextOrder, database, scm
<1> QED
  BY <1>5, <1>6

LEMMA ListPOsReq ==
  ASSUME Types, NEW r \in Requests, ListPOs(r)
  PROVE  RequestsOK'
<1>1. req[r] \in RequestType /\ Serving(req[r], DOMAIN orders, Existing) /\ RequestsOK
  BY DEF Types, RequestsOK
<1>2. req[r].at = "explode" /\ Exists(req[r].order) /\ UNCHANGED <<orders, po>>
  BY DEF ListPOs, database, scm
<1> DEFINE q == [req[r] EXCEPT !.at = "stock"]
<1>5. q \in RequestType
  BY <1>1 DEF RequestType, At
<1>6. Serving(q, DOMAIN orders, Existing)
  BY <1>1, <1>2 DEF RequestType, Serving, Places, Kinds, Exploding, Ordering, OnAnOrder
<1> HIDE DEF q
<1>7. req' = [req EXCEPT ![r] = q]
  BY DEF q, ListPOs, Goto
<1> QED
  BY <1>1, <1>2, <1>5, <1>6, <1>7, ReplacedAlone

LEMMA RunBOMExplosionReq ==
  ASSUME Types, NEW r \in Requests, RunBOMExplosion(r)
  PROVE  RequestsOK'
<1>1. req[r] \in RequestType /\ Serving(req[r], DOMAIN orders, Existing) /\ RequestsOK
  BY DEF Types, RequestsOK
<1>2. req[r].at = "stock" /\ UNCHANGED <<orders, po>>
  BY DEF RunBOMExplosion, database, scm
<1> DEFINE Found(found) == [p \in Parts |-> IF p \in BOM(Build(r))
                 THEN [required  |-> PerUnit[Build(r)][p] * orders[req[r].order].qty,
                       available |-> found[p],
                       allocated |-> Allocated]
                 ELSE None]
<1>3. PICK found \in [Parts -> 0..MaxStock] :
        req' = [req EXCEPT ![r] = [req[r] EXCEPT !.at = AfterExplosion(req[r].kind), !.results = Found(found)]]
  BY DEF RunBOMExplosion
<1> DEFINE f == Found(found)
           at == AfterExplosion(req[r].kind)
           q == [req[r] EXCEPT !.at = at, !.results = f]
<1>4. f \in Results
  <2>1. orders[req[r].order] \in Order
    BY <1>1, <1>2
       DEF Types, TablesOK, RequestType, Serving, Places, Kinds, Exploding, Ordering, OnAnOrder
  <2>2. Build(r) \in Builds /\ orders[req[r].order].qty \in Nat
    BY <2>1, Bounds DEF Build, Order
  <2>3. \A p \in Parts : PerUnit[Build(r)][p] \in Nat
    BY <2>2, PlanningAssumption
  <2>4. \A a, b \in Nat : a * b \in Nat
    OBVIOUS
  <2>5. \A p \in Parts : PerUnit[Build(r)][p] * orders[req[r].order].qty \in Nat
    BY <2>2, <2>3, <2>4
  <2>6. \A p \in Parts : found[p] \in Nat /\ Allocated \in Nat
    BY Bounds DEF Allocated
  <2> QED
    BY <2>5, <2>6 DEF Results, Result
<1>5. /\ at \in At
      /\ req[r].kind = "plan" => at = "logs"
      /\ req[r].kind \in {"check", "matrix", "metrics"} => at = "status"
      /\ req[r].kind \in {"handoff", "bulk"} => at = "suppliers"
      /\ req[r].kind \in {"plan", "check", "matrix", "metrics", "handoff", "bulk"}
  BY <1>1, <1>2
     DEF AfterExplosion, At, RequestType, Serving, Places, Kinds, Exploding, Ordering,
         OnAnOrder
<1> HIDE DEF f, at
<1>6. q \in RequestType
  BY <1>1, <1>4, <1>5 DEF RequestType
<1>7. Serving(q, DOMAIN orders, Existing)
  BY <1>1, <1>2, <1>5 DEF RequestType, Serving, Places, Kinds, Exploding, Ordering, OnAnOrder
<1>8. req' = [req EXCEPT ![r] = q]
  BY <1>3 DEF f, at
<1> HIDE DEF q
<1> QED
  BY <1>1, <1>2, <1>6, <1>7, <1>8, ReplacedAlone

LEMMA GetShortagesByOrderIDReq ==
  ASSUME Types, NEW r \in Requests, GetShortagesByOrderID(r)
  PROVE  RequestsOK'
<1>1. req[r] \in RequestType /\ Serving(req[r], DOMAIN orders, Existing) /\ RequestsOK
  BY DEF Types, RequestsOK
<1>2. req[r].at = "logs" /\ UNCHANGED <<orders, po>>
  BY DEF GetShortagesByOrderID, database, scm
<1> DEFINE Todo(seen) == {p \in Parts : req[r].results[p] # None /\ (p \in Short(req[r].results) \/ seen[p] # 0)}
<1>3. PICK seen \in [Parts -> {0} \cup {x.id : x \in UNION {rows[req[r].order][p] : p \in Parts}}] :
        req' = [req EXCEPT ![r] = [req[r] EXCEPT !.at = "sync", !.seen = seen, !.todo = Todo(seen)]]
  BY DEF GetShortagesByOrderID
<1>4. seen \in [Parts -> Nat]
  <2>1. req[r].order \in Ids
    BY <1>1, <1>2, OpenIds
       DEF RequestType, Serving, Places, Kinds, Exploding, Ordering, OnAnOrder
  <2>2. \A p \in Parts : rows[req[r].order][p] \subseteq Log
    BY <2>1 DEF Types, TablesOK
  <2>3. \A x \in UNION {rows[req[r].order][p] : p \in Parts} : x.id \in Nat
    BY <2>2 DEF Log
  <2> QED
    BY <2>3
<1> DEFINE t == Todo(seen)
           q == [req[r] EXCEPT !.at = "sync", !.seen = seen, !.todo = t]
<1>5. t \subseteq Parts
  OBVIOUS
<1>6. req' = [req EXCEPT ![r] = q]
  BY <1>3
<1> HIDE DEF t
<1>7. q \in RequestType
  BY <1>1, <1>4, <1>5 DEF RequestType, At
<1>8. Serving(q, DOMAIN orders, Existing)
  BY <1>1, <1>2 DEF RequestType, Serving, Places, Kinds, Exploding, Ordering, OnAnOrder
<1> HIDE DEF q
<1> QED
  BY <1>1, <1>2, <1>6, <1>7, <1>8, ReplacedAlone

(* The readiness row a request has is one.                                 *)
LEMMA RowType ==
  ASSUME Types, NEW r \in Requests, req[r].at = "cache"
  PROVE  Row(r) \in Rows
<1>1. req[r] \in RequestType /\ Serving(req[r], DOMAIN orders, Existing) /\ RequestsOK
  BY DEF Types, RequestsOK
<1>2. req[r].order \in Ids /\ req[r].qty \in 1..MaxQty /\ req[r].results \in Results
  BY <1>1, OpenIds DEF RequestType, Serving, Places, Kinds, Exploding, Ordering, OnAnOrder
<1> QED
  BY <1>2 DEF Row, ReadinessRow, Rows, deriveReadinessStatus

LEMMA CacheReadinessRowReq ==
  ASSUME Types, NEW r \in Requests, CacheReadinessRow(r)
  PROVE  RequestsOK'
<1>1. req[r] \in RequestType /\ Serving(req[r], DOMAIN orders, Existing) /\ RequestsOK
  BY DEF Types, RequestsOK
<1>2. req[r].at = "cache" /\ UNCHANGED <<orders, po>>
  BY DEF CacheReadinessRow, database, scm
<1>3. CASE req[r].kind = "check"
  <2>1. req' = [req EXCEPT ![r] = Idle]
    BY <1>3 DEF CacheReadinessRow
  <2> QED
    BY <1>1, <1>2, <2>1, IdleOK, ReplacedAlone
<1>4. CASE req[r].kind # "check"
  <2> DEFINE b == req[r].built \cup {Row(r)}
             q == [req[r] EXCEPT !.at = "next", !.built = b, !.results = NoResults,
                                  !.order = 0, !.qty = 0, !.old = CLEAR, !.seen = Idle.seen]
  <2>1. req' = [req EXCEPT ![r] = q]
    BY <1>4 DEF CacheReadinessRow
  <2>2. b \subseteq Rows /\ Idle.seen \in [Parts -> Nat]
    BY <1>1, <1>2, RowType DEF RequestType, Idle
  <2> HIDE DEF b
  <2>3. q \in RequestType
    BY <1>1, <2>2, NoResultsType DEF RequestType, At
  <2>4. Serving(q, DOMAIN orders, Existing)
    BY <1>1, <1>2, <1>4 DEF RequestType, Serving, Places, Kinds, Exploding, Ordering, OnAnOrder
  <2> HIDE DEF q
  <2> QED
    BY <1>1, <1>2, <2>1, <2>3, <2>4, ReplacedAlone
<1> QED
  BY <1>3, <1>4

LEMMA CacheReadinessRowsReq ==
  ASSUME Types, NEW r \in Requests, CacheReadinessRows(r)
  PROVE  RequestsOK'
<1>1. req[r] \in RequestType /\ Serving(req[r], DOMAIN orders, Existing) /\ RequestsOK
  BY DEF Types, RequestsOK
<1>2. req[r].at = "next" /\ req[r].kind \in {"matrix", "metrics"} /\ UNCHANGED <<orders, po>>
  BY DEF CacheReadinessRows, database, scm
<1> DEFINE q == [req[r] EXCEPT !.at = "metrics"]
<1>3. CASE req[r].kind = "matrix"
  <2>1. req' = [req EXCEPT ![r] = Idle]
    BY <1>3 DEF CacheReadinessRows
  <2> QED
    BY <1>1, <1>2, <2>1, IdleOK, ReplacedAlone
<1>4. CASE req[r].kind = "metrics"
  <2>1. req' = [req EXCEPT ![r] = q]
    BY <1>4 DEF CacheReadinessRows
  <2>3. q \in RequestType
    BY <1>1 DEF RequestType, At
  <2>4. Serving(q, DOMAIN orders, Existing)
    BY <1>1, <1>2, <1>4 DEF RequestType, Serving, Places, Kinds, Exploding, Ordering, OnAnOrder
  <2> HIDE DEF q
  <2> QED
    BY <1>1, <1>2, <2>1, <2>3, <2>4, ReplacedAlone
<1> QED
  BY <1>2, <1>3, <1>4

(* A hand-off of one order ends, one of several goes on with the next.     *)
LEMMA AfterHandoffOK ==
  ASSUME NEW x \in RequestType
  PROVE  AfterHandoff(x) \in RequestType /\ \A ids, numbers : Serving(AfterHandoff(x), ids, numbers)
<1> DEFINE q == [Idle EXCEPT !.kind = "bulk", !.at = "next", !.rest = x.rest]
<1>1. q \in RequestType
  BY IdleOK DEF RequestType, Kinds, At
<1>2. \A ids, numbers : Serving(q, ids, numbers)
  BY DEF Idle, Serving, Places, OnAnOrder
<1> HIDE DEF q
<1> QED
  BY <1>1, <1>2, IdleOK DEF AfterHandoff, q

LEMMA GetOptimalSuppliersReq ==
  ASSUME Types, NEW r \in Requests, GetOptimalSuppliers(r)
  PROVE  RequestsOK'
<1>1. req[r] \in RequestType /\ Serving(req[r], DOMAIN orders, Existing) /\ RequestsOK
  BY DEF Types, RequestsOK
<1>2. req[r].at = "suppliers" /\ UNCHANGED <<orders, po>>
  BY DEF GetOptimalSuppliers, database, scm
<1> DEFINE t == Short(req[r].results)
           q == [req[r] EXCEPT !.at = "draft", !.todo = t]
<1>3. \/ req' = [req EXCEPT ![r] = AfterHandoff(req[r])]
      \/ req' = [req EXCEPT ![r] = q]
  BY DEF GetOptimalSuppliers
<1>4. t \subseteq Parts
  BY DEF Short
<1> HIDE DEF t
<1>5. q \in RequestType
  BY <1>1, <1>4 DEF RequestType, At
<1>6. Serving(q, DOMAIN orders, Existing)
  BY <1>1, <1>2 DEF RequestType, Serving, Places, Kinds, Exploding, Ordering, OnAnOrder
<1> HIDE DEF q
<1> QED
  BY <1>1, <1>2, <1>3, <1>5, <1>6, AfterHandoffOK, ReplacedAlone

LEMMA CreateDraftPOReq ==
  ASSUME Types, NEW r \in Requests, CreateDraftPO(r)
  PROVE  RequestsOK'
<1>1. req[r] \in RequestType /\ Serving(req[r], DOMAIN orders, Existing) /\ RequestsOK
  BY DEF Types, RequestsOK
<1>2. req[r].at = "draft" /\ UNCHANGED <<orders, po>>
  BY DEF CreateDraftPO, database, scm
<1>3. PICK p \in req[r].todo : req' = [req EXCEPT ![r] = [req[r] EXCEPT !.at = "find", !.vendor = Supplier[p]]]
  BY DEF CreateDraftPO
<1>4. Supplier[p] \in Vendors
  BY <1>1, <1>3, PlanningAssumption DEF RequestType
<1> DEFINE v == Supplier[p]
           q == [req[r] EXCEPT !.at = "find", !.vendor = v]
<1> HIDE DEF v
<1>5. q \in RequestType
  BY <1>1, <1>4 DEF RequestType, At, v
<1>6. Serving(q, DOMAIN orders, Existing)
  BY <1>1, <1>2, <1>4 DEF v, RequestType, Serving, Places, Kinds, Exploding, Ordering, OnAnOrder
<1>7. req' = [req EXCEPT ![r] = q]
  BY <1>3 DEF v
<1> HIDE DEF q
<1> QED
  BY <1>1, <1>2, <1>5, <1>6, <1>7, ReplacedAlone

LEMMA FindPOByVendorReq ==
  ASSUME Types, NEW r \in Requests, FindPOByVendor(r)
  PROVE  RequestsOK'
<1>1. req[r] \in RequestType /\ Serving(req[r], DOMAIN orders, Existing) /\ RequestsOK
  BY DEF Types, RequestsOK
<1>2. req[r].at = "find" /\ UNCHANGED <<orders, po>>
  BY DEF FindPOByVendor, database, scm
<1> DEFINE q == [req[r] EXCEPT !.at = "count"]
<1>3. req' = [req EXCEPT ![r] = Idle] \/ req' = [req EXCEPT ![r] = q]
  BY DEF FindPOByVendor, Goto
<1>4. q \in RequestType
  BY <1>1 DEF RequestType, At
<1>5. Serving(q, DOMAIN orders, Existing)
  BY <1>1, <1>2 DEF RequestType, Serving, Places, Kinds, Exploding, Ordering, OnAnOrder
<1> HIDE DEF q
<1> QED
  BY <1>1, <1>2, <1>3, <1>4, <1>5, IdleOK, ReplacedAlone

LEMMA CreatePOReq ==
  ASSUME Types, NEW r \in Requests, CreatePO(r)
  PROVE  RequestsOK' /\ req[r].num \in PONumbers /\ req[r].vendor \in Vendors
<1>1. req[r] \in RequestType /\ Serving(req[r], DOMAIN orders, Existing) /\ RequestsOK
  BY DEF Types, RequestsOK
<1>2. req[r].at = "create" /\ req[r].num \in PONumbers /\ UNCHANGED orders
  BY DEF CreatePO, database
<1>3. req[r].vendor \in Vendors
  BY <1>1, <1>2 DEF Serving
<1>4. CASE po[req[r].num] # None
  <2>1. req' = [req EXCEPT ![r] = Idle] /\ UNCHANGED po
    BY <1>4 DEF CreatePO
  <2> QED
    BY <1>1, <1>2, <1>3, <2>1, IdleOK, ReplacedAlone
<1>5. CASE po[req[r].num] = None
  <2> DEFINE q == [req[r] EXCEPT !.at = "offer"]
  <2>1. /\ po' = [po EXCEPT ![req[r].num] = NewPO(req[r].vendor, FALSE)]
        /\ req' = [req EXCEPT ![r] = IF req[r].kind = "draft" THEN Idle ELSE q]
    BY <1>5 DEF CreatePO
  <2>2. NewPO(req[r].vendor, FALSE) # None
    BY <1>3, NewPOSome
  <2>3. Existing \subseteq Existing' /\ req[r].num \in Existing'
    BY <1>2, <2>1, <2>2 DEF Existing, Types, OthersOK
  <2>4. CASE req[r].kind = "draft"
    <3>1. req' = [req EXCEPT ![r] = Idle]
      BY <2>1, <2>4
    <3> QED
      BY <1>1, <1>2, <1>3, <2>3, <3>1, IdleOK, Replaced
  <2>5. CASE req[r].kind # "draft"
    <3>1. req' = [req EXCEPT ![r] = q]
      BY <2>1, <2>5
    <3>2. q \in RequestType
      BY <1>1 DEF RequestType, At
    <3>3. Serving(q, (DOMAIN orders)', Existing')
      BY <1>1, <1>2, <2>3, <2>5
         DEF RequestType, Serving, Places, Kinds, Exploding, Ordering, OnAnOrder
    <3>4. (DOMAIN orders)' = DOMAIN orders
      BY <1>2
    <3> HIDE DEF q
    <3> QED
      BY <1>1, <1>2, <1>3, <2>3, <3>1, <3>2, <3>3, <3>4, Replaced
  <2> QED
    BY <2>4, <2>5
<1> QED
  BY <1>4, <1>5

LEMMA OfferShortageReq ==
  ASSUME Types, NEW r \in Requests, OfferShortage(r)
  PROVE  RequestsOK'
<1>1. req[r] \in RequestType /\ Serving(req[r], DOMAIN orders, Existing) /\ RequestsOK
  BY DEF Types, RequestsOK
<1>2. req[r].at = "offer" /\ UNCHANGED <<orders, po>>
  BY DEF OfferShortage, database, scm
<1>3. PICK p \in req[r].todo : req' = [req EXCEPT ![r] = [req[r] EXCEPT !.at = "line", !.part = p]]
  BY DEF OfferShortage
<1> DEFINE q == [req[r] EXCEPT !.at = "line", !.part = p]
<1>4. q \in RequestType
  BY <1>1 DEF RequestType, At
<1>5. Serving(q, DOMAIN orders, Existing)
  BY <1>1, <1>2 DEF RequestType, Serving, Places, Kinds, Exploding, Ordering, OnAnOrder
<1> HIDE DEF q
<1>6. req' = [req EXCEPT ![r] = q]
  BY <1>3 DEF q
<1> QED
  BY <1>1, <1>2, <1>4, <1>5, <1>6, ReplacedAlone

LEMMA AddLineItemWithLockReq ==
  ASSUME Types, NEW r \in Requests, AddLineItemWithLock(r)
  PROVE  RequestsOK' /\ req[r].num \in Existing /\ req[r].part \in Parts
<1>1. req[r] \in RequestType /\ Serving(req[r], DOMAIN orders, Existing) /\ RequestsOK
  BY DEF Types, RequestsOK
<1>2. req[r].at = "line" /\ UNCHANGED orders
  BY DEF AddLineItemWithLock, database
<1>3. req[r].num \in Existing /\ req[r].part \in Parts /\ req[r].num \in PONumbers
  BY <1>1, <1>2 DEF Serving, RequestType, Existing
<1> DEFINE left == req[r].todo \ {req[r].part}
           x == [req[r] EXCEPT !.todo = left, !.part = None]
           y == [x EXCEPT !.at = "offer"]
           z == [x EXCEPT !.at = "draft"]
<1>4. /\ req' = [req EXCEPT ![r] = AfterHandoff(x)] \/ req' = [req EXCEPT ![r] = y] \/ req' = [req EXCEPT ![r] = z]
      /\ po' = [po EXCEPT ![req[r].num].lines[req[r].part] = @ + 1]
  BY DEF AddLineItemWithLock
<1>5. po[req[r].num] \in PurchaseOrder
  BY <1>3 DEF Types, OthersOK, Existing
<1>6. Existing' = Existing
  <2>1. [po[req[r].num] EXCEPT !.lines[req[r].part] = @ + 1] \in PurchaseOrder
    BY <1>3, <1>5 DEF PurchaseOrder
  <2>2. po' = [po EXCEPT ![req[r].num] = [po[req[r].num] EXCEPT !.lines[req[r].part] = @ + 1]]
    BY <1>4
  <2> HIDE DEF left
  <2>3. None \notin PurchaseOrder
    BY NewPOSome
  <2> QED
    BY <1>3, <2>1, <2>2, <2>3 DEF Existing, Types, OthersOK
<1>7. x \in RequestType /\ y \in RequestType /\ z \in RequestType
  BY <1>1 DEF RequestType, At
<1>8. Serving(y, DOMAIN orders, Existing) /\ Serving(z, DOMAIN orders, Existing)
  BY <1>1, <1>2, <1>3 DEF RequestType, Serving, Places, Kinds, Exploding, Ordering, OnAnOrder
<1> HIDE DEF x, y, z
<1> QED
  BY <1>1, <1>2, <1>3, <1>4, <1>6, <1>7, <1>8, AfterHandoffOK, Replaced

(* The expiry of a key and the changes in SCM leave the requests alone.    *)
LEMMA OthersReq ==
  ASSUME Types,
         \/ \E o \in Ids : ExpireRow(o)
         \/ ExpireMatrix
         \/ ExpireMetrics
         \/ \E p \in Parts : ReceiveOrUse(p)
  PROVE  RequestsOK'
<1>1. UNCHANGED <<orders, po, req>>
  BY DEF ExpireRow, ExpireMatrix, ExpireMetrics, ReceiveOrUse, database, scm
<1> QED
  BY <1>1 DEF Types, RequestsOK, Existing

(* A write of a status leaves a purchase order, with its vendor and lines.  *)
LEMMA WrittenOK ==
  ASSUME NEW x \in PurchaseOrder, NEW s \in Status
  PROVE  /\ Written(x, s) \in PurchaseOrder
         /\ Written(x, s).vendor = x.vendor /\ Written(x, s).lines = x.lines
         /\ Written(x, s).placed = x.placed /\ Written(x, s).status = s
         /\ Written(x, s).reopened = (x.reopened \/ (s \in OpenStatus /\ x.status \notin OpenStatus))
<1> DEFINE b == x.reopened \/ (s \in OpenStatus /\ x.status \notin OpenStatus)
<1>1. b \in BOOLEAN
  OBVIOUS
<1>2. Written(x, s) = [x EXCEPT !.status = s, !.reopened = b]
  BY DEF Written
<1> HIDE DEF b
<1>3. Written(x, s) = [vendor |-> x.vendor, status |-> s, placed |-> x.placed, reopened |-> b, lines |-> x.lines]
  BY <1>2 DEF PurchaseOrder
<1>4. [vendor |-> x.vendor, status |-> s, placed |-> x.placed, reopened |-> b, lines |-> x.lines] \in PurchaseOrder
  BY <1>1 DEF PurchaseOrder
<1> QED
  BY <1>3, <1>4 DEF b

(* The purchase order that is written exists before and after.             *)
LEMMA WrittenExists ==
  ASSUME Types, NEW n \in Existing, NEW s \in Status, po' = [po EXCEPT ![n] = Written(po[n], s)]
  PROVE  /\ po[n] \in PurchaseOrder /\ Written(po[n], s) \in PurchaseOrder
         /\ po' \in [PONumbers -> PurchaseOrder \cup {None}]
         /\ Existing' = Existing
<1>1. n \in PONumbers /\ po[n] \in PurchaseOrder /\ po \in [PONumbers -> PurchaseOrder \cup {None}]
  BY DEF Existing, Types, OthersOK
<1> DEFINE x == Written(po[n], s)
<1>2. x \in PurchaseOrder /\ x # None
  BY <1>1, WrittenOK, NewPOSome
<1>3. po' = [po EXCEPT ![n] = x] /\ po[n] # None
  BY <1>1, NewPOSome
<1> HIDE DEF x
<1>4. po' \in [PONumbers -> PurchaseOrder \cup {None}] /\ Existing' = Existing
  BY <1>1, <1>2, <1>3 DEF Existing
<1> QED
  BY <1>1, <1>2, <1>4 DEF x

LEMMA UpdatePOStatusReq ==
  ASSUME Types, NEW r \in Requests, UpdatePOStatus(r)
  PROVE  /\ RequestsOK' /\ req[r].num \in Existing /\ req[r].to \in Status
         /\ po' = [po EXCEPT ![req[r].num] = Written(po[req[r].num], req[r].to)]
         /\ req' = [req EXCEPT ![r] = Idle]
<1>1. req[r] \in RequestType /\ Serving(req[r], DOMAIN orders, Existing) /\ RequestsOK
  BY DEF Types, RequestsOK
<1>2. req[r].num \in Existing /\ req[r].to \in Status
  BY <1>1 DEF UpdatePOStatus, Serving
<1>3. po' = [po EXCEPT ![req[r].num] = Written(po[req[r].num], req[r].to)] /\ req' = [req EXCEPT ![r] = Idle]
      /\ UNCHANGED orders
  BY DEF UpdatePOStatus, database
<1>4. Existing' = Existing
  BY <1>2, <1>3, WrittenExists
<1> QED
  BY <1>1, <1>2, <1>3, <1>4, IdleOK, Replaced

(* A purchase order placed or moved on leaves the requests well typed.     *)
LEMMA PurchasesReq ==
  ASSUME Types,
         \/ \E v \in Vendors, n \in PONumbers : PlacePO(v, n)
         \/ \E n \in PONumbers, s \in {"Partial", "Received"} : SaveReceived(n, s)
  PROVE  RequestsOK'
<1>1. UNCHANGED <<orders, req>>
  BY DEF PlacePO, SaveReceived, database
<1>2. Existing \subseteq Existing'
  <2>1. CASE \E v \in Vendors, n \in PONumbers : PlacePO(v, n)
    BY <2>1, NewPOSome DEF PlacePO, Existing, Types, OthersOK
  <2>2. CASE \E n \in PONumbers, s \in {"Partial", "Received"} : SaveReceived(n, s)
    <3>1. PICK n \in Existing, s \in Status : po' = [po EXCEPT ![n] = Written(po[n], s)]
      BY <2>2 DEF SaveReceived, Existing, Status
    <3> QED
      BY <3>1, WrittenExists
  <2> QED
    BY <2>1, <2>2
<1>3. \A x : Serving(x, DOMAIN orders, Existing) => Serving(x, (DOMAIN orders)', Existing')
  BY <1>1, <1>2 DEF Serving
<1> QED
  BY <1>1, <1>3 DEF Types, RequestsOK

(* A crash leaves idle requests, and the drafts of operators.              *)
LEMMA CrashReq ==
  ASSUME Types, Crash
  PROVE  RequestsOK'
<1>1. UNCHANGED <<orders, po>> /\ req' = [r \in Requests |-> IF req[r].kind \in {"draft", "state"} THEN req[r] ELSE Idle]
  BY DEF Crash, database, scm
<1> QED
  BY <1>1, IdleOK DEF Types, RequestsOK, Existing

-----------------------------------------------------------------------------
(* The order a statement is about exists.                                  *)
LEMMA OrderAt ==
  ASSUME Types, NEW r \in Requests,
         req[r].at \in {"explode", "stock", "logs", "sync", "publish", "status", "cache", "delete", "forget",
                       "invalidate", "answer", "suppliers", "offer", "line"}
  PROVE  req[r].order \in DOMAIN orders /\ req[r].order \in Ids
  BY OpenIds
     DEF Types, RequestsOK, RequestType, Serving, Places, Kinds, Exploding, Ordering, OnAnOrder

(* The orders and the rows after the actions that write them.              *)
LEMMA PlanItemTables ==
  ASSUME Types, NEW r \in Requests, PlanItem(r)
  PROVE  TablesOK'
<1>1. orders' \in Seq(Order) /\ Len(orders') <= MaxOrders
  BY OrdersGrow
<1>2. UNCHANGED <<rows, created>>
  BY DEF PlanItem
<1> QED
  BY <1>1, <1>2 DEF Types, TablesOK

LEMMA OrderWritesTables ==
  ASSUME Types, NEW r \in Requests, UpdateProductionOrderStatus(r) \/ DeleteProductionOrder(r)
  PROVE  TablesOK' /\ (DOMAIN orders)' = DOMAIN orders
<1>1. req[r].order \in DOMAIN orders /\ req[r].order \in Ids
  BY OrderAt DEF UpdateProductionOrderStatus, DeleteProductionOrder
<1>2. orders[req[r].order] \in Order
  BY <1>1 DEF Types, TablesOK
<1>3. CASE UpdateProductionOrderStatus(r)
  <2> DEFINE x == [orders[req[r].order] EXCEPT !.status = deriveReadinessStatus(req[r].results)]
  <2>1. x \in Order
    BY <1>2 DEF Order, deriveReadinessStatus
  <2>2. orders' = [orders EXCEPT ![req[r].order] = x] \/ orders' = orders
    BY <1>3 DEF UpdateProductionOrderStatus
  <2>3. UNCHANGED <<rows, created>>
    BY <1>3 DEF UpdateProductionOrderStatus
  <2> HIDE DEF x
  <2>4. orders' \in Seq(Order) /\ Len(orders') = Len(orders) /\ (DOMAIN orders)' = DOMAIN orders
    BY <2>1, <2>2, OrdersKept DEF Types, TablesOK
  <2> QED
    BY <2>3, <2>4 DEF Types, TablesOK
<1>4. CASE DeleteProductionOrder(r)
  <2> DEFINE x == [orders[req[r].order] EXCEPT !.gone = TRUE]
  <2>1. x \in Order
    BY <1>2 DEF Order
  <2>2. orders' = [orders EXCEPT ![req[r].order] = x]
    BY <1>4 DEF DeleteProductionOrder
  <2>3. rows' = [rows EXCEPT ![req[r].order] = [p \in Parts |-> {}]] /\ UNCHANGED created
    BY <1>4 DEF DeleteProductionOrder
  <2> HIDE DEF x
  <2>4. orders' \in Seq(Order) /\ Len(orders') = Len(orders) /\ (DOMAIN orders)' = DOMAIN orders
    BY <2>1, <2>2, OrdersKept DEF Types, TablesOK
  <2> QED
    BY <1>1, <2>3, <2>4 DEF Types, TablesOK
<1> QED
  BY <1>3, <1>4

(* A write to the shortages of an order replaces the rows of one part.     *)
LEMMA RowsReplaced ==
  ASSUME TablesOK, NEW o \in Ids, NEW p \in Parts, NEW X \in SUBSET Log,
         rows' = [rows EXCEPT ![o] = [rows[o] EXCEPT ![p] = X]],
         UNCHANGED orders, created' \in [Ids -> [Parts -> Nat]],
         \A i \in Ids, j \in Parts : created[i][j] <= created'[i][j],
         \A x \in X : x.qty > 0 /\ x.id \in 1..created'[o][p]
  PROVE  TablesOK'
<1>1. rows' \in [Ids -> [Parts -> SUBSET Log]]
  BY DEF TablesOK
<1>2. ASSUME NEW i \in Ids, NEW j \in Parts, NEW x \in rows'[i][j]
      PROVE  x.qty > 0 /\ x.id \in 1..created'[i][j]
  <2>1. CASE i = o /\ j = p
    BY <1>2, <2>1 DEF TablesOK
  <2>2. CASE ~(i = o /\ j = p)
    <3>1. x \in rows[i][j]
      BY <1>2, <2>2 DEF TablesOK
    <3>2. x.qty > 0 /\ x.id \in 1..created[i][j] /\ created[i][j] \in Nat /\ created'[i][j] \in Nat
      BY <3>1 DEF TablesOK
    <3>3. created[i][j] <= created'[i][j]
      OBVIOUS
    <3> QED
      BY <3>2, <3>3
  <2> QED
    BY <2>1, <2>2
<1> QED
  BY <1>1, <1>2 DEF TablesOK

LEMMA CreateShortageLogTables ==
  ASSUME Types, NEW r \in Requests, NEW p \in Parts, CreateShortageLog(r, p)
  PROVE  /\ TablesOK'
         /\ created' = [created EXCEPT ![req[r].order] = [created[req[r].order] EXCEPT ![p] = created[req[r].order][p] + 1]]
         /\ \E X \in SUBSET Log : X # {} /\ rows' = [rows EXCEPT ![req[r].order] = [rows[req[r].order] EXCEPT ![p] = X]]
<1> DEFINE o == req[r].order
           x == [id |-> created[o][p] + 1, qty |-> ShortageQty(req[r].results[p])]
<1>1. req[r] \in RequestType /\ Serving(req[r], DOMAIN orders, Existing) /\ RequestsOK /\ TablesOK
  BY DEF Types, RequestsOK
<1>2. o \in Ids
  BY OrderAt DEF CreateShortageLog
<1>3. p \in Short(req[r].results)
  BY DEF CreateShortageLog
<1>4. ShortageQty(req[r].results[p]) \in Nat /\ ShortageQty(req[r].results[p]) > 0
  BY <1>1, <1>3, NoneAssumption DEF Short, IsShortage, ShortageQty, RequestType, Results, Result
<1>5. created[o][p] \in Nat
  BY <1>1, <1>2 DEF TablesOK
<1> DEFINE n == created[o][p] + 1
           X == rows[o][p] \cup {x}
<1>6. /\ rows' = [rows EXCEPT ![o] = [rows[o] EXCEPT ![p] = X]]
      /\ created' = [created EXCEPT ![o] = [created[o] EXCEPT ![p] = n]]
      /\ UNCHANGED orders
  BY DEF CreateShortageLog
<1>7. created' \in [Ids -> [Parts -> Nat]] /\ created'[o][p] = created[o][p] + 1
  BY <1>1, <1>2, <1>5, <1>6 DEF TablesOK
<1>8. \A i \in Ids, j \in Parts : created[i][j] <= created'[i][j]
  <2> SUFFICES ASSUME NEW i \in Ids, NEW j \in Parts PROVE created[i][j] <= created'[i][j]
    OBVIOUS
  <2>1. created[i][j] \in Nat
    BY <1>1 DEF TablesOK
  <2>2. created'[i][j] = created[i][j] \/ (i = o /\ j = p)
    BY <1>1, <1>2, <1>6 DEF TablesOK
  <2> QED
    BY <1>5, <1>7, <2>1, <2>2
<1>9. X \in SUBSET Log /\ \A y \in X : y.qty > 0 /\ y.id \in 1..created'[o][p]
  <2>1. x \in Log /\ x.qty > 0 /\ x.id \in 1..created'[o][p]
    BY <1>4, <1>5, <1>7 DEF Log
  <2>2. \A y \in rows[o][p] : y \in Log /\ y.qty > 0 /\ y.id \in 1..created[o][p]
    BY <1>1, <1>2 DEF TablesOK
  <2> QED
    BY <1>5, <1>7, <2>1, <2>2
<1> HIDE DEF n, X, o
<1>10. TablesOK'
  <2>1. rows' = [rows EXCEPT ![o] = [rows[o] EXCEPT ![p] = X]] /\ UNCHANGED orders
    BY <1>6
  <2>2. created' \in [Ids -> [Parts -> Nat]] /\ TablesOK
    BY <1>1, <1>7
  <2> QED
    BY <1>2, <1>8, <1>9, <2>1, <2>2, RowsReplaced, Zenon
<1>11. X # {}
  BY DEF X
<1> QED
  BY <1>6, <1>9, <1>10, <1>11 DEF o, n

LEMMA UpdateShortageLogTables ==
  ASSUME Types, NEW r \in Requests, NEW p \in Parts, UpdateShortageLog(r, p)
  PROVE  /\ TablesOK'
         /\ \E X \in SUBSET Log : /\ X = {} <=> rows[req[r].order][p] = {}
                                 /\ rows' = [rows EXCEPT ![req[r].order] = [rows[req[r].order] EXCEPT ![p] = X]]
<1> DEFINE o == req[r].order
           d == ShortageQty(req[r].results[p])
           New(x) == IF x.id = req[r].seen[p] THEN [x EXCEPT !.qty = d] ELSE x
           X == {New(x) : x \in rows[o][p]}
<1>1. req[r] \in RequestType /\ Serving(req[r], DOMAIN orders, Existing) /\ RequestsOK /\ TablesOK
  BY DEF Types, RequestsOK
<1>2. o \in Ids
  BY OrderAt DEF UpdateShortageLog
<1>3. p \in Short(req[r].results)
  BY DEF UpdateShortageLog
<1>4. d \in Nat /\ d > 0
  BY <1>1, <1>3, NoneAssumption DEF Short, IsShortage, ShortageQty, RequestType, Results, Result
<1>5. rows' = [rows EXCEPT ![o] = [rows[o] EXCEPT ![p] = X]] /\ UNCHANGED <<orders, created>>
  BY DEF UpdateShortageLog
<1> HIDE DEF d
<1>6. \A x \in rows[o][p] : x \in Log /\ x.qty > 0 /\ x.id \in 1..created[o][p]
  BY <1>1, <1>2 DEF TablesOK
<1>7. \A x \in rows[o][p] : New(x) \in Log /\ New(x).qty > 0 /\ New(x).id = x.id
  BY <1>4, <1>6 DEF Log
<1>8. X \in SUBSET Log /\ \A y \in X : y.qty > 0 /\ y.id \in 1..created[o][p]
  BY <1>6, <1>7
<1>9. X = {} <=> rows[o][p] = {}
  OBVIOUS
<1>10. created' \in [Ids -> [Parts -> Nat]] /\ \A i \in Ids, j \in Parts : created[i][j] <= created'[i][j]
  BY <1>1, <1>5 DEF TablesOK
<1> HIDE DEF X, o
<1>11. TablesOK'
  BY <1>1, <1>2, <1>5, <1>8, <1>10, RowsReplaced
<1> QED
  BY <1>5, <1>8, <1>9, <1>11 DEF o

LEMMA DeleteShortageLogTables ==
  ASSUME Types, NEW r \in Requests, NEW p \in Parts, DeleteShortageLog(r, p)
  PROVE  TablesOK'
<1> DEFINE o == req[r].order
<1>1. o \in Ids /\ TablesOK
  BY OrderAt DEF DeleteShortageLog, Types
<1>2. rows' = [rows EXCEPT ![o] = [rows[o] EXCEPT ![p] = {}]] /\ UNCHANGED <<orders, created>>
  BY DEF DeleteShortageLog
<1>3. created' \in [Ids -> [Parts -> Nat]] /\ \A i \in Ids, j \in Parts : created[i][j] <= created'[i][j]
  BY <1>1, <1>2 DEF TablesOK
<1> HIDE DEF o
<1> QED
  <2> DEFINE X == {}
  <2>1. X \in SUBSET Log /\ \A x \in X : x.qty > 0 /\ x.id \in 1..created'[o][p]
    OBVIOUS
  <2>2. rows' = [rows EXCEPT ![o] = [rows[o] EXCEPT ![p] = X]] /\ UNCHANGED orders
    BY <1>2
  <2> HIDE DEF X
  <2> QED
    BY <1>1, <1>3, <2>1, <2>2, RowsReplaced, Zenon

-----------------------------------------------------------------------------
(* What no action writes keeps its type.                                   *)
LEMMA OthersFrame ==
  ASSUME OthersOK, UNCHANGED <<alone, offered, handed, cache, scm, event, deliv, made, misses>>
  PROVE  OthersOK'
  BY DEF OthersOK, scm

LEMMA TablesFrame ==
  ASSUME TablesOK, UNCHANGED database
  PROVE  TablesOK'
  BY DEF TablesOK, database

(* One lemma per action: the other variables after it are well typed.      *)
LEMMA PlanItemOthers ==
  ASSUME Types, NEW r \in Requests, PlanItem(r)
  PROVE  /\ OthersOK'
         /\ req[r].ev \in Events /\ req[r].line \in DOMAIN Lines[req[r].ev]
         /\ made' = [made EXCEPT ![req[r].ev] = [made[req[r].ev] EXCEPT ![req[r].line] = made[req[r].ev][req[r].line] + 1]]
<1> DEFINE e == req[r].ev
           i == req[r].line
<1>1. req[r] \in RequestType /\ Serving(req[r], DOMAIN orders, Existing) /\ OthersOK /\ req[r].at = "plan" /\ HasLine(r)
  BY DEF Types, RequestsOK, PlanItem
<1>2. e \in Events
  BY <1>1 DEF RequestType, Serving, Places, Kinds, Exploding, Ordering
<1>3. Len(Lines[e]) \in Nat /\ DOMAIN Lines[e] = 1..Len(Lines[e])
  <2>1. Lines[e] \in Seq([build: Builds \cup {None}, qty: Nat])
    BY <1>2, PlanningAssumption
  <2> QED
    BY <2>1
<1>4. i \in DOMAIN Lines[e]
  BY <1>1, <1>2, <1>3, PlanningAssumption
     DEF RequestType, Serving, HasLine, Places, Kinds, Exploding, Ordering
<1>5. made[e] \in [DOMAIN Lines[e] -> Nat] /\ made[e][i] \in Nat
  BY <1>1, <1>2, <1>4 DEF OthersOK
<1> DEFINE m == [made[e] EXCEPT ![i] = made[e][i] + 1]
<1>6. made' = [made EXCEPT ![e] = m]
  BY DEF PlanItem
<1>7. m \in [DOMAIN Lines[e] -> Nat]
  <2>1. made[e][i] + 1 \in Nat
    BY <1>5
  <2> HIDE DEF e, i
  <2> QED
    BY <1>5, <2>1
<1>8. UNCHANGED <<alone, offered, handed, cache, scm, event, deliv, misses>>
  BY DEF PlanItem, bounds
<1> HIDE DEF m, e, i
<1>9. DOMAIN made' = Events /\ \A x \in Events : made'[x] \in [DOMAIN Lines[x] -> Nat]
  BY <1>1, <1>2, <1>6, <1>7 DEF OthersOK
<1>10. OthersOK'
  BY <1>1, <1>8, <1>9 DEF OthersOK, scm
<1> QED
  BY <1>2, <1>4, <1>6, <1>10 DEF e, i, m

(* An event that ends goes where its end says.                             *)
LEMMA EventEnds ==
  ASSUME OthersOK, NEW r \in Requests,
         event' = [e \in Events |-> IF e = req[r].ev THEN "ready" ELSE event[e]]
  PROVE  event' \in [Events -> {"unsent", "ready", "inflight", "acked"}]
  BY DEF OthersOK

(* An invalidation removes a row of the cache.                             *)
LEMMA RowInvalidated ==
  ASSUME OthersOK, NEW o \in Ids, InvalidateReadinessCache(o)
  PROVE  /\ cache' = [row |-> cache'.row, matrix |-> cache'.matrix, metrics |-> cache'.metrics]
         /\ cache'.row \in [Ids -> Rows \cup {None}]
         /\ cache'.matrix = None
  BY DEF OthersOK, InvalidateReadinessCache

LEMMA RefuseItemOthers ==
  ASSUME Types, NEW r \in Requests, RefuseItem(r)
  PROVE  OthersOK'
  BY EventEnds DEF Types, OthersOK, RefuseItem, EndWithError, scm, bounds

LEMMA AckOthers ==
  ASSUME Types, NEW r \in Requests, Ack(r)
  PROVE  OthersOK'
  BY DEF Types, OthersOK, Ack, scm, bounds

LEMMA PublishShortageOthers ==
  ASSUME Types, NEW r \in Requests, PublishShortage(r)
  PROVE  OthersOK'
<1> DEFINE o == req[r].order
           p == req[r].part
<1>1. CASE UNCHANGED offered
  BY <1>1, OthersFrame DEF Types, PublishShortage, broker
<1>2. CASE offered' = [offered EXCEPT ![o][p] = @ + 1]
  <2>1. offered' \in [Ids -> [Parts -> Nat]]
    <3>1. o \in Ids /\ p \in Parts
      BY OrderAt DEF PublishShortage, Types, RequestsOK, RequestType, Serving
    <3>2. offered[o][p] + 1 \in Nat /\ offered \in [Ids -> [Parts -> Nat]]
      BY <3>1 DEF Types, OthersOK
    <3> HIDE DEF o, p
    <3> QED
      BY <1>2, <3>1, <3>2
  <2> QED
    BY <2>1 DEF Types, OthersOK, PublishShortage, broker, scm
<1> QED
  BY <1>1, <1>2 DEF PublishShortage

LEMMA OfferShortageOthers ==
  ASSUME Types, NEW r \in Requests, OfferShortage(r)
  PROVE  OthersOK'
<1> DEFINE o == req[r].order
<1>1. PICK p \in req[r].todo : handed' = [handed EXCEPT ![o][p] = @ + 1]
  BY DEF OfferShortage
<1>2. handed' \in [Ids -> [Parts -> Nat]]
  <2>1. o \in Ids /\ p \in Parts
    BY OrderAt DEF OfferShortage, Types, RequestsOK, RequestType
  <2>2. handed[o][p] + 1 \in Nat /\ handed \in [Ids -> [Parts -> Nat]]
    BY <2>1 DEF Types, OthersOK
  <2> HIDE DEF o
  <2> QED
    BY <1>1, <2>1, <2>2
<1> QED
  BY <1>2 DEF Types, OthersOK, OfferShortage, broker, scm, bounds

LEMMA InvalidatePlannedOthers ==
  ASSUME Types, NEW r \in Requests, InvalidatePlanned(r)
  PROVE  OthersOK'
<1>1. req[r].order \in Ids
  BY OrderAt DEF InvalidatePlanned
<1> QED
  BY <1>1, RowInvalidated DEF Types, OthersOK, InvalidatePlanned, broker, scm, bounds

LEMMA InvalidateDeletedOthers ==
  ASSUME Types, NEW r \in Requests, InvalidateDeleted(r)
  PROVE  OthersOK'
<1>1. req[r].order \in Ids
  BY OrderAt DEF InvalidateDeleted
<1> QED
  BY <1>1, RowInvalidated DEF Types, OthersOK, InvalidateDeleted, broker, scm, bounds

LEMMA CacheReadinessRowOthers ==
  ASSUME Types, NEW r \in Requests, CacheReadinessRow(r)
  PROVE  OthersOK'
<1>1. Row(r) \in Rows /\ req[r].order \in Ids
  BY RowType, OrderAt DEF CacheReadinessRow
<1>2. CASE UNCHANGED cache
  BY <1>2, OthersFrame DEF Types, CacheReadinessRow, broker, bounds
<1>3. CASE cache' = [cache EXCEPT !.row[req[r].order] = Row(r)]
  <2> DEFINE x == Row(r)
  <2> HIDE DEF x
  <2>1. cache' = [cache EXCEPT !.row = [cache.row EXCEPT ![req[r].order] = x]]
    BY <1>3 DEF x
  <2>2. x \in Rows
    BY <1>1 DEF x
  <2>3. /\ cache' = [row |-> cache'.row, matrix |-> cache'.matrix, metrics |-> cache'.metrics]
        /\ cache'.row \in [Ids -> Rows \cup {None}]
        /\ cache'.matrix = cache.matrix
    BY <1>1, <2>1, <2>2 DEF Types, OthersOK
  <2> QED
    BY <2>3 DEF Types, OthersOK, CacheReadinessRow, broker, scm, bounds
<1> QED
  BY <1>2, <1>3 DEF CacheReadinessRow

LEMMA CacheReadinessRowsOthers ==
  ASSUME Types, NEW r \in Requests, CacheReadinessRows(r)
  PROVE  OthersOK'
<1>1. req[r].built \subseteq Rows
  BY DEF Types, RequestsOK, RequestType
<1>2. cache' = [cache EXCEPT !.matrix = req[r].built]
  BY DEF CacheReadinessRows
<1>3. /\ cache' = [row |-> cache'.row, matrix |-> cache'.matrix, metrics |-> cache'.metrics]
      /\ cache'.row = cache.row /\ cache'.matrix = req[r].built
  BY <1>2 DEF Types, OthersOK
<1> QED
  BY <1>1, <1>3 DEF Types, OthersOK, CacheReadinessRows, broker, scm, bounds

LEMMA CacheReadinessMetricsOthers ==
  ASSUME Types, NEW r \in Requests, CacheReadinessMetrics(r)
  PROVE  OthersOK'
<1> DEFINE x == buildReadinessMetrics(req[r].built)
<1>2. cache' = [cache EXCEPT !.metrics = x]
  BY DEF CacheReadinessMetrics
<1> HIDE DEF x
<1>3. /\ cache' = [row |-> cache'.row, matrix |-> cache'.matrix, metrics |-> cache'.metrics]
      /\ cache'.row = cache.row /\ cache'.matrix = cache.matrix
  BY <1>2 DEF Types, OthersOK
<1> QED
  BY <1>3 DEF Types, OthersOK, CacheReadinessMetrics, broker, scm, bounds

LEMMA ExpiryOthers ==
  ASSUME Types, (\E o \in Ids : ExpireRow(o)) \/ ExpireMatrix \/ ExpireMetrics
  PROVE  OthersOK'
<1>1. /\ cache' = [row |-> cache'.row, matrix |-> cache'.matrix, metrics |-> cache'.metrics]
      /\ cache'.row \in [Ids -> Rows \cup {None}]
      /\ cache'.matrix = None \/ cache'.matrix = cache.matrix
  <2>1. CASE \E o \in Ids : ExpireRow(o)
    <3>1. PICK o \in Ids : cache' = [cache EXCEPT !.row = [cache.row EXCEPT ![o] = None]]
      BY <2>1 DEF ExpireRow
    <3> QED
      BY <3>1 DEF Types, OthersOK
  <2>2. CASE ExpireMatrix
    BY <2>2 DEF Types, OthersOK, ExpireMatrix
  <2>3. CASE ExpireMetrics
    BY <2>3 DEF Types, OthersOK, ExpireMetrics
  <2> QED
    BY <2>1, <2>2, <2>3
<1>2. UNCHANGED <<alone, offered, handed, scm, broker, bounds>>
  BY DEF ExpireRow, ExpireMatrix, ExpireMetrics
<1> QED
  BY <1>1, <1>2 DEF Types, OthersOK, broker, scm, bounds

LEMMA NextOrderOthers ==
  ASSUME Types, NEW r \in Requests, NEW o \in Ids, NextOrder(r, o)
  PROVE  OthersOK'
<1>1. alone' \subseteq Ids
  BY DEF Types, OthersOK, NextOrder
<1> QED
  BY <1>1 DEF Types, OthersOK, NextOrder, scm, broker, bounds

LEMMA StartsOthers ==
  ASSUME Types, NEW r \in Requests,
         \/ \E o \in DOMAIN orders : GetReadinessByOrderID(r, o) \/ Delete(r, o) \/ GeneratePOForDeficits(r, o)
         \/ \E kind \in {"matrix", "metrics"} : LoadReadinessRows(r, kind)
         \/ GeneratePOsForShortages(r)
         \/ \E v \in Vendors : DraftByHand(r, v)
         \/ \E n \in PONumbers, s \in Status : TransitionState(r, n, s)
  PROVE  OthersOK' /\ UNCHANGED <<database, offered, handed, cache, scm, broker, moves, faults, misses>>
<1>1. PICK x : Start(r, x)
  BY DEF GetReadinessByOrderID, Delete, GeneratePOForDeficits, LoadReadinessRows,
         GeneratePOsForShortages, DraftByHand, TransitionState
<1>2. /\ alone' \subseteq alone
      /\ UNCHANGED <<database, offered, handed, cache, scm, broker, moves, faults, misses>>
  BY <1>1 DEF Start
<1> QED
  BY <1>2 DEF Types, OthersOK, scm, broker

LEMMA FindPOByVendorOthers ==
  ASSUME Types, NEW r \in Requests, FindPOByVendor(r)
  PROVE  OthersOK' /\ (misses' = misses \/ misses' = misses + 1)
<1>1. misses' = misses \/ misses' = misses + 1
  BY DEF FindPOByVendor
<1> QED
  BY <1>1 DEF Types, OthersOK, FindPOByVendor, scm, broker

(* A step of SCM writes one purchase order.                                *)
LEMMA POWritten ==
  ASSUME OthersOK, NEW n \in PONumbers, NEW x \in PurchaseOrder, po' = [po EXCEPT ![n] = x],
         UNCHANGED <<alone, offered, handed, cache, stock, event, deliv, made, misses>>
  PROVE  OthersOK'
  BY DEF OthersOK

LEMMA CreatePOOthers ==
  ASSUME Types, NEW r \in Requests, CreatePO(r)
  PROVE  OthersOK'
<1>1. UNCHANGED <<alone, offered, handed, cache, stock, event, deliv, made, misses>>
  BY DEF CreatePO, broker, bounds
<1>2. CASE po' = [po EXCEPT ![req[r].num] = NewPO(req[r].vendor, FALSE)]
  BY <1>1, <1>2, CreatePOReq, NewPOSome, POWritten DEF Types
<1>3. CASE UNCHANGED po
  BY <1>1, <1>3, OthersFrame DEF Types, scm
<1> QED
  BY <1>2, <1>3 DEF CreatePO

LEMMA AddLineItemWithLockOthers ==
  ASSUME Types, NEW r \in Requests, AddLineItemWithLock(r)
  PROVE  /\ OthersOK'
         /\ po' = [po EXCEPT ![req[r].num] = [po[req[r].num] EXCEPT
                     !.lines = [po[req[r].num].lines EXCEPT ![req[r].part] = po[req[r].num].lines[req[r].part] + 1]]]
<1>1. UNCHANGED <<alone, offered, handed, cache, stock, event, deliv, made, misses>>
  BY DEF AddLineItemWithLock, broker, bounds
<1>2. req[r].num \in Existing /\ req[r].part \in Parts
  BY AddLineItemWithLockReq
<1> DEFINE n == req[r].num
           p == req[r].part
           x == [po[n] EXCEPT !.lines = [po[n].lines EXCEPT ![p] = po[n].lines[p] + 1]]
<1>3. po' = [po EXCEPT ![n] = x]
  BY DEF AddLineItemWithLock
<1>4. n \in PONumbers /\ po[n] \in PurchaseOrder
  BY <1>2 DEF Existing, Types, OthersOK
<1>5. x \in PurchaseOrder
  BY <1>2, <1>4 DEF PurchaseOrder
<1> HIDE DEF x, n, p
<1>6. OthersOK'
  BY <1>1, <1>3, <1>4, <1>5, POWritten DEF Types
<1> QED
  BY <1>3, <1>6 DEF x, n, p

LEMMA PurchasesOthers ==
  ASSUME Types,
         \/ \E v \in Vendors, n \in PONumbers : PlacePO(v, n)
         \/ \E n \in PONumbers, s \in {"Partial", "Received"} : SaveReceived(n, s)
  PROVE  OthersOK'
<1>1. UNCHANGED <<alone, offered, handed, cache, stock, event, deliv, made, misses>>
  BY DEF PlacePO, SaveReceived, broker, bounds
<1>2. ASSUME NEW v \in Vendors, NEW n \in PONumbers, PlacePO(v, n) PROVE OthersOK'
  <2>1. po' = [po EXCEPT ![n] = NewPO(v, TRUE)]
    BY <1>2 DEF PlacePO
  <2> QED
    BY <1>1, <2>1, NewPOSome, POWritten DEF Types
<1>3. ASSUME NEW n \in PONumbers, NEW s \in {"Partial", "Received"}, SaveReceived(n, s) PROVE OthersOK'
  <2>1. n \in Existing /\ s \in Status /\ po' = [po EXCEPT ![n] = Written(po[n], s)]
    BY <1>3 DEF SaveReceived, Existing, Status
  <2> QED
    BY <1>1, <2>1, WrittenExists, POWritten DEF Types
<1> QED
  BY <1>2, <1>3

LEMMA ReceiveOrUseOthers ==
  ASSUME Types, NEW p \in Parts, ReceiveOrUse(p)
  PROVE  OthersOK'
<1>1. UNCHANGED <<alone, offered, handed, cache, po, event, deliv, made, misses>>
  BY DEF ReceiveOrUse, broker
<1>2. stock[p] \in 0..MaxStock /\ MaxStock \in Nat
  BY Bounds DEF Types, OthersOK
<1>3. stock' \in [Parts -> 0..MaxStock]
  BY <1>2 DEF ReceiveOrUse, Types, OthersOK
<1> QED
  BY <1>1, <1>3 DEF Types, OthersOK

LEMMA UpdatePOStatusOthers ==
  ASSUME Types, NEW r \in Requests, UpdatePOStatus(r)
  PROVE  OthersOK'
<1>1. UNCHANGED <<alone, offered, handed, cache, stock, event, deliv, made, misses>>
  BY DEF UpdatePOStatus, broker, bounds
<1>2. req[r].num \in Existing /\ req[r].to \in Status
      /\ po' = [po EXCEPT ![req[r].num] = Written(po[req[r].num], req[r].to)]
  BY UpdatePOStatusReq
<1>3. req[r].num \in PONumbers
  BY <1>2 DEF Existing
<1> QED
  BY <1>1, <1>2, <1>3, WrittenExists, POWritten DEF Types

LEMMA DeliverOthers ==
  ASSUME Types, NEW r \in Requests, NEW e \in Events, Deliver(r, e)
  PROVE  OthersOK'
  BY DEF Types, OthersOK, Deliver, scm, bounds

LEMMA CallFailsOthers ==
  ASSUME Types, NEW r \in Requests, CallFails(r)
  PROVE  OthersOK'
  BY EventEnds DEF Types, OthersOK, CallFails, EndWithError, scm

LEMMA CrashOthers ==
  ASSUME Types, Crash
  PROVE  OthersOK'
  BY DEF Types, OthersOK, Crash, scm

(* Every step keeps the types.                                             *)
LEMMA TypesStep ==
  ASSUME Types, Next
  PROVE  Types'
<1>1. ASSUME NEW r \in Requests, NEW e \in Events, Deliver(r, e) PROVE Types'
  BY <1>1, DeliverReq, TablesFrame, DeliverOthers DEF Types, Deliver
<1>2. ASSUME NEW r \in Requests,
             \/ \E o \in DOMAIN orders : GetReadinessByOrderID(r, o) \/ Delete(r, o) \/ GeneratePOForDeficits(r, o)
             \/ \E kind \in {"matrix", "metrics"} : LoadReadinessRows(r, kind)
             \/ GeneratePOsForShortages(r)
             \/ \E v \in Vendors : DraftByHand(r, v)
             \/ \E n \in PONumbers, s \in Status : TransitionState(r, n, s)
      PROVE  Types'
  BY <1>2, StartsReq, StartsOthers, TablesFrame DEF Types
<1>3. ASSUME NEW r \in Requests, SkipItem(r) PROVE Types'
  BY <1>3, SkipItemReq, TablesFrame, OthersFrame DEF Types, SkipItem, broker, bounds
<1>4. ASSUME NEW r \in Requests, PlanItem(r) PROVE Types'
  BY <1>4, PlanItemReq, PlanItemTables, PlanItemOthers DEF Types
<1>5. ASSUME NEW r \in Requests, RefuseItem(r) PROVE Types'
  BY <1>5, RefuseItemReq, TablesFrame, RefuseItemOthers DEF Types, RefuseItem
<1>6. ASSUME NEW r \in Requests, Ack(r) PROVE Types'
  BY <1>6, AckReq, TablesFrame, AckOthers DEF Types, Ack
<1>7. ASSUME NEW r \in Requests, NothingToExplode(r) PROVE Types'
  BY <1>7, NothingToExplodeReq, TablesFrame, OthersFrame
     DEF Types, NothingToExplode, broker, bounds
<1>8. ASSUME NEW r \in Requests, ListPOs(r) PROVE Types'
  BY <1>8, ListPOsReq, TablesFrame, OthersFrame DEF Types, ListPOs, broker, bounds
<1>9. ASSUME NEW r \in Requests, RunBOMExplosion(r) PROVE Types'
  BY <1>9, RunBOMExplosionReq, TablesFrame, OthersFrame
     DEF Types, RunBOMExplosion, broker, bounds
<1>10. ASSUME NEW r \in Requests, GetShortagesByOrderID(r) PROVE Types'
  BY <1>10, GetShortagesByOrderIDReq, TablesFrame, OthersFrame
     DEF Types, GetShortagesByOrderID, broker, bounds
<1>11. ASSUME NEW r \in Requests, PublishShortage(r) PROVE Types'
  BY <1>11, PublishShortageReq, TablesFrame, PublishShortageOthers DEF Types, PublishShortage
<1>12. ASSUME NEW r \in Requests, SyncDone(r) PROVE Types'
  BY <1>12, SyncDoneReq, TablesFrame, OthersFrame DEF Types, SyncDone, broker, bounds
<1>13. ASSUME NEW r \in Requests, NEW p \in Parts, CreateShortageLog(r, p) PROVE Types'
  BY <1>13, CreateShortageLogReq, CreateShortageLogTables, OthersFrame
     DEF Types, CreateShortageLog, broker, bounds
<1>14. ASSUME NEW r \in Requests, NEW p \in Parts, UpdateShortageLog(r, p) PROVE Types'
  BY <1>14, UpdateShortageLogReq, UpdateShortageLogTables, OthersFrame
     DEF Types, UpdateShortageLog, broker, bounds
<1>15. ASSUME NEW r \in Requests, NEW p \in Parts, DeleteShortageLog(r, p) PROVE Types'
  BY <1>15, DeleteShortageLogReq, DeleteShortageLogTables, OthersFrame
     DEF Types, DeleteShortageLog, broker, bounds
<1>16. ASSUME NEW r \in Requests, UpdateProductionOrderStatus(r) PROVE Types'
  BY <1>16, UpdateProductionOrderStatusReq, OrderWritesTables, OthersFrame
     DEF Types, UpdateProductionOrderStatus, broker, bounds
<1>17. ASSUME NEW r \in Requests, InvalidatePlanned(r) PROVE Types'
  BY <1>17, InvalidatePlannedReq, TablesFrame, InvalidatePlannedOthers
     DEF Types, InvalidatePlanned
<1>18. ASSUME NEW r \in Requests, PlanAnswered(r) PROVE Types'
  BY <1>18, PlanAnsweredReq, TablesFrame, OthersFrame DEF Types, PlanAnswered, broker, bounds
<1>19. ASSUME NEW r \in Requests, NEW o \in Ids, NextOrder(r, o) PROVE Types'
  BY <1>19, NextOrderReq, TablesFrame, NextOrderOthers DEF Types, NextOrder
<1>20. ASSUME NEW r \in Requests, CacheReadinessRow(r) PROVE Types'
  BY <1>20, CacheReadinessRowReq, TablesFrame, CacheReadinessRowOthers
     DEF Types, CacheReadinessRow
<1>21. ASSUME NEW r \in Requests, CacheReadinessRows(r) PROVE Types'
  BY <1>21, CacheReadinessRowsReq, TablesFrame, CacheReadinessRowsOthers
     DEF Types, CacheReadinessRows
<1>22. ASSUME NEW r \in Requests, CacheReadinessMetrics(r) PROVE Types'
  BY <1>22, CacheReadinessMetricsReq, TablesFrame, CacheReadinessMetricsOthers
     DEF Types, CacheReadinessMetrics
<1>23. ASSUME NEW r \in Requests, DeleteProductionOrder(r) PROVE Types'
  BY <1>23, DeleteProductionOrderReq, OrderWritesTables, OthersFrame
     DEF Types, DeleteProductionOrder, broker, bounds
<1>24. ASSUME NEW r \in Requests, InvalidateDeleted(r) PROVE Types'
  BY <1>24, InvalidateDeletedReq, TablesFrame, InvalidateDeletedOthers
     DEF Types, InvalidateDeleted
<1>25. ASSUME NEW r \in Requests, BulkDone(r) PROVE Types'
  BY <1>25, BulkDoneReq, TablesFrame, OthersFrame DEF Types, BulkDone, broker, bounds
<1>26. ASSUME NEW r \in Requests, GetOptimalSuppliers(r) PROVE Types'
  BY <1>26, GetOptimalSuppliersReq, TablesFrame, OthersFrame
     DEF Types, GetOptimalSuppliers, broker, bounds
<1>27. ASSUME NEW r \in Requests, CreateDraftPO(r) PROVE Types'
  BY <1>27, CreateDraftPOReq, TablesFrame, OthersFrame DEF Types, CreateDraftPO, broker, bounds
<1>28. ASSUME NEW r \in Requests, FindPOByVendor(r) PROVE Types'
  BY <1>28, FindPOByVendorReq, TablesFrame, FindPOByVendorOthers DEF Types, FindPOByVendor
<1>29. ASSUME NEW r \in Requests, CountPOs(r) PROVE Types'
  BY <1>29, CountPOsReq, TablesFrame, OthersFrame DEF Types, CountPOs, broker, bounds
<1>30. ASSUME NEW r \in Requests, CreatePO(r) PROVE Types'
  BY <1>30, CreatePOReq, TablesFrame, CreatePOOthers DEF Types, CreatePO
<1>31. ASSUME NEW r \in Requests, OfferShortage(r) PROVE Types'
  BY <1>31, OfferShortageReq, TablesFrame, OfferShortageOthers DEF Types, OfferShortage
<1>32. ASSUME NEW r \in Requests, AddLineItemWithLock(r) PROVE Types'
  BY <1>32, AddLineItemWithLockReq, TablesFrame, AddLineItemWithLockOthers
     DEF Types, AddLineItemWithLock
<1>33. ASSUME NEW r \in Requests, LineRefused(r) PROVE Types'
  BY <1>33, LineRefusedReq, TablesFrame, OthersFrame DEF Types, LineRefused, broker, bounds
<1>34. ASSUME NEW r \in Requests, CallFails(r) PROVE Types'
  BY <1>34, CallFailsReq, TablesFrame, CallFailsOthers DEF Types, CallFails
<1>35. ASSUME (\E o \in Ids : ExpireRow(o)) \/ ExpireMatrix \/ ExpireMetrics PROVE Types'
  BY <1>35, OthersReq, TablesFrame, ExpiryOthers
     DEF Types, ExpireRow, ExpireMatrix, ExpireMetrics
<1>36. ASSUME (\E v \in Vendors, n \in PONumbers : PlacePO(v, n)) \/ \E n \in PONumbers, s \in {"Partial", "Received"} : SaveReceived(n, s) PROVE Types'
  BY <1>36, PurchasesReq, TablesFrame, PurchasesOthers DEF Types, PlacePO, SaveReceived
<1>37. ASSUME NEW p \in Parts, ReceiveOrUse(p) PROVE Types'
  BY <1>37, OthersReq, TablesFrame, ReceiveOrUseOthers DEF Types, ReceiveOrUse
<1>38. ASSUME Crash PROVE Types'
  BY <1>38, CrashReq, TablesFrame, CrashOthers DEF Types, Crash
<1>39. ASSUME NEW r \in Requests, UpdatePOStatus(r) PROVE Types'
  BY <1>39, UpdatePOStatusReq, TablesFrame, UpdatePOStatusOthers DEF Types, UpdatePOStatus
<1> QED
  BY <1>1, <1>2, <1>3, <1>4, <1>5, <1>6, <1>7, <1>8, <1>9, <1>10, <1>11, <1>12, <1>13, <1>14,
     <1>15, <1>16, <1>17, <1>18, <1>19, <1>20, <1>21, <1>22, <1>23, <1>24, <1>25, <1>26, <1>27,
     <1>28, <1>29, <1>30, <1>31, <1>32, <1>33, <1>34, <1>35, <1>36, <1>37, <1>38, <1>39
     DEF Next, Request, Step

(* Every variable keeps its type, and a request has the order, the draft   *)
(* and the part its next statement uses.                                   *)
LEMMA TypesInvariant == Spec => []Types
<1>1. Init => Types
  <2> SUFFICES ASSUME Init PROVE Types
    OBVIOUS
  <2>1. RequestsOK
    <3>1. req = [r \in Requests |-> Idle]
      BY DEF Init
    <3> QED
      BY <3>1, IdleOK DEF RequestsOK
  <2>2. TablesOK
    <3>1. orders = <<>> /\ MaxOrders \in Nat
      BY Bounds DEF Init
    <3>2. orders \in Seq(Order) /\ Len(orders) <= MaxOrders
      BY <3>1
    <3>3. rows \in [Ids -> [Parts -> SUBSET Log]] /\ created \in [Ids -> [Parts -> Nat]]
      BY DEF Init
    <3>4. \A o \in Ids, p \in Parts : rows[o][p] = {}
      BY DEF Init
    <3> QED
      BY <3>2, <3>3, <3>4 DEF TablesOK
  <2>3. OthersOK
    <3>1. /\ offered \in [Ids -> [Parts -> Nat]]
          /\ handed \in [Ids -> [Parts -> Nat]]
          /\ po \in [PONumbers -> PurchaseOrder \cup {None}]
          /\ deliv \in [Events -> Nat]
          /\ alone \subseteq Ids
          /\ misses \in Nat
      BY DEF Init
    <3>2. /\ cache = [row |-> cache.row, matrix |-> cache.matrix, metrics |-> cache.metrics]
          /\ cache.row \in [Ids -> Rows \cup {None}]
          /\ cache.matrix = None
      BY DEF Init
    <3>3. /\ stock \in [Parts -> 0..MaxStock]
      BY PlanningAssumption DEF Init
    <3>4. event \in [Events -> {"unsent", "ready", "inflight", "acked"}]
      <4>1. event \in [Events -> {"unsent", "ready"}]
        BY DEF Init
      <4> QED
        BY <4>1
    <3>5. DOMAIN made = Events /\ \A e \in Events : made[e] \in [DOMAIN Lines[e] -> Nat]
      BY DEF Init
    <3> QED
      BY <3>1, <3>2, <3>3, <3>4, <3>5 DEF OthersOK
  <2> QED
    BY <2>1, <2>2, <2>3 DEF Types
<1>2. Types /\ [Next]_vars => Types'
  <2>1. ASSUME Types, UNCHANGED vars PROVE Types'
    BY <2>1 DEF Types, vars, RequestsOK, TablesOK, OthersOK, Existing
  <2> QED
    BY <2>1, TypesStep
<1> QED
  BY <1>1, <1>2, PTL DEF Spec

(* The strengthened types give the type invariant.                         *)
LEMMA TypesImply == Types => TypeOK
<1> SUFFICES ASSUME Types PROVE TypeOK
  OBVIOUS
<1>1. ASSUME NEW r \in Requests PROVE ReqOK(req[r])
  <2> DEFINE x == req[r]
  <2>1. x \in RequestType /\ Serving(x, DOMAIN orders, Existing)
    BY DEF Types, RequestsOK
  <2> HIDE DEF x
  <2>2. /\ x.at \in At /\ x.results \in Results /\ x.rest \subseteq Ids
        /\ x.built \subseteq Rows /\ x.todo \subseteq Parts /\ x.seen \in [Parts -> Nat]
        /\ x.old \in {CLEAR, SHORTAGE}
    BY <2>1 DEF RequestType
  <2>3. /\ (x.ev # None) <=> (x.kind = "plan")
        /\ x.at \in {"publish", "line"} => x.part \in x.todo
        /\ x.at \in {"find", "count", "create", "offer", "line"} => x.vendor \in Vendors
    BY <2>1 DEF Serving
  <2>4. x.at = "plan" => x.line \in 1..(Len(Lines[x.ev]) + 1)
    BY <2>1 DEF RequestType, Serving, Places, Kinds, Exploding, Ordering
  <2>5. x.at \in {"explode", "stock", "logs", "sync", "publish", "status", "cache", "delete", "forget",
                 "invalidate", "answer", "suppliers"} => x.order \in DOMAIN orders
    BY <2>1 DEF RequestType, Serving, Places, Kinds, Exploding, Ordering, OnAnOrder
  <2>6. /\ x.at \in {"offer", "line", "move"} => x.num \in PONumbers /\ po[x.num] # None
        /\ x.at = "move" => x.to \in Status
    BY <2>1 DEF Serving, Existing
  <2>7. ReqOK(x)
    BY <2>2, <2>3, <2>4, <2>5, <2>6 DEF ReqOK
  <2> QED
    BY <2>7 DEF x
<1>2. /\ orders \in Seq(Order) /\ Len(orders) <= MaxOrders
      /\ \A o \in Ids, p \in Parts : \A x \in rows[o][p] : x.qty > 0 /\ x.id \in 1..created[o][p]
      /\ created \in [Ids -> [Parts -> Nat]]
  BY DEF Types, TablesOK
<1>3. /\ offered \in [Ids -> [Parts -> Nat]]
      /\ handed \in [Ids -> [Parts -> Nat]]
      /\ cache.row \in [Ids -> Rows \cup {None}]
      /\ cache.matrix = None \/ cache.matrix \subseteq Rows
      /\ po \in [PONumbers -> PurchaseOrder \cup {None}]
      /\ stock \in [Parts -> 0..MaxStock]
      /\ event \in [Events -> {"unsent", "ready", "inflight", "acked"}]
  BY DEF Types, OthersOK
<1>4. {created, offered, handed} \subseteq [Ids -> [Parts -> Nat]]
  BY <1>2, <1>3
<1> QED
  BY <1>1, <1>2, <1>3, <1>4 DEF TypeOK

(* TypeOK holds in every reachable state, whatever the constants: the type *)
(* invariant of planning.                                                  *)
THEOREM TypeCorrect == Spec => []TypeOK
  BY TypesInvariant, TypesImply, PTL

(* The events. A step that is not about an event leaves it and what was    *)
(* done for it alone, and the request goes on where it was or ends.        *)
Onward(x, y) ==
    y.ev = None \/ (y.ev = x.ev /\ y.line = x.line /\ (y.at = "plan" <=> x.at = "plan"))
Quiet ==
    /\ UNCHANGED <<event, deliv, made, planned>>
    /\ \A q \in Requests : Onward(req[q], req'[q])

(* A request replaced by one that goes on from it.                         *)
LEMMA OnwardReplaced ==
  ASSUME NEW r \in Requests, NEW y, req \in [Requests -> RequestType],
         req' = [req EXCEPT ![r] = y], Onward(req[r], y)
  PROVE  \A q \in Requests : Onward(req[q], req'[q])
  BY DEF Onward

(* A step of a request changes what that request holds, and no other.      *)
LEMMA StepAlone ==
  ASSUME Types, NEW r \in Requests, Step(r)
  PROVE  \A q \in Requests \ {r} : req'[q] = req[q]
<1>1. req \in [Requests -> RequestType]
  BY DEF Types, RequestsOK
<1>2. ASSUME \/ SkipItem(r)
             \/ PlanItem(r)
             \/ RefuseItem(r)
             \/ Ack(r)
             \/ PlanAnswered(r)
             \/ NothingToExplode(r)
             \/ ListPOs(r)
             \/ RunBOMExplosion(r)
      PROVE  \A q \in Requests \ {r} : req'[q] = req[q]
  BY <1>1, <1>2
     DEF SkipItem, PlanItem, RefuseItem, Ack, PlanAnswered, NothingToExplode, ListPOs,
         RunBOMExplosion, Goto, EndWithError
<1>3. ASSUME \/ GetShortagesByOrderID(r)
             \/ PublishShortage(r)
             \/ SyncDone(r)
             \/ \E p \in Parts : CreateShortageLog(r, p)
             \/ \E p \in Parts : UpdateShortageLog(r, p)
             \/ \E p \in Parts : DeleteShortageLog(r, p)
             \/ UpdateProductionOrderStatus(r)
             \/ InvalidatePlanned(r)
      PROVE  \A q \in Requests \ {r} : req'[q] = req[q]
  BY <1>1, <1>3
     DEF GetShortagesByOrderID, PublishShortage, SyncDone, CreateShortageLog,
         UpdateShortageLog, DeleteShortageLog, UpdateProductionOrderStatus, InvalidatePlanned,
         Goto, EndWithError
<1>4. ASSUME \/ \E o \in Ids : NextOrder(r, o)
             \/ CacheReadinessRow(r)
             \/ CacheReadinessRows(r)
             \/ CacheReadinessMetrics(r)
             \/ DeleteProductionOrder(r)
             \/ InvalidateDeleted(r)
             \/ BulkDone(r)
             \/ GetOptimalSuppliers(r)
      PROVE  \A q \in Requests \ {r} : req'[q] = req[q]
  BY <1>1, <1>4
     DEF NextOrder, CacheReadinessRow, CacheReadinessRows, CacheReadinessMetrics,
         DeleteProductionOrder, InvalidateDeleted, BulkDone, GetOptimalSuppliers, Goto,
         EndWithError
<1>5. ASSUME \/ CreateDraftPO(r)
             \/ FindPOByVendor(r)
             \/ CountPOs(r)
             \/ CreatePO(r)
             \/ OfferShortage(r)
             \/ AddLineItemWithLock(r)
             \/ LineRefused(r)
             \/ UpdatePOStatus(r)
      PROVE  \A q \in Requests \ {r} : req'[q] = req[q]
  BY <1>1, <1>5
     DEF CreateDraftPO, FindPOByVendor, CountPOs, CreatePO, OfferShortage, AddLineItemWithLock,
         LineRefused, UpdatePOStatus, Goto, EndWithError
<1> QED
  BY <1>2, <1>3, <1>4, <1>5 DEF Step

(* The steps that are not about an event.                                  *)
LEMMA StepsQuiet ==
  ASSUME Types, NEW r \in Requests,
         \/ NothingToExplode(r)
         \/ ListPOs(r)
         \/ RunBOMExplosion(r)
         \/ GetShortagesByOrderID(r)
         \/ PublishShortage(r)
         \/ SyncDone(r)
         \/ \E p \in Parts : CreateShortageLog(r, p)
         \/ \E p \in Parts : UpdateShortageLog(r, p)
         \/ \E p \in Parts : DeleteShortageLog(r, p)
         \/ UpdateProductionOrderStatus(r)
         \/ InvalidatePlanned(r)
         \/ \E o \in Ids : NextOrder(r, o)
         \/ CacheReadinessRow(r)
         \/ CacheReadinessRows(r)
         \/ CacheReadinessMetrics(r)
         \/ DeleteProductionOrder(r)
         \/ InvalidateDeleted(r)
         \/ BulkDone(r)
         \/ GetOptimalSuppliers(r)
         \/ CreateDraftPO(r)
         \/ FindPOByVendor(r)
         \/ CountPOs(r)
         \/ CreatePO(r)
         \/ OfferShortage(r)
         \/ AddLineItemWithLock(r)
         \/ LineRefused(r)
         \/ UpdatePOStatus(r)
  PROVE  Quiet
<1>1. /\ req \in [Requests -> RequestType] /\ req[r] \in RequestType
      /\ Serving(req[r], DOMAIN orders, Existing)
  BY DEF Types, RequestsOK
<1>2. \A q \in Requests \ {r} : Onward(req[q], req'[q])
  BY StepAlone DEF Step, Onward
<1>3. ASSUME NothingToExplode(r) PROVE Quiet
  <2>1. UNCHANGED <<event, deliv, made, planned>>
    BY <1>3 DEF NothingToExplode, broker
  <2>2. Onward(req[r], req'[r])
    BY <1>3, <1>1
       DEF NothingToExplode, Onward, AfterExplosion, RequestType, Serving, Places, Kinds,
           Exploding, Ordering, OnAnOrder
  <2> QED
    BY <1>2, <2>1, <2>2 DEF Quiet
<1>4. ASSUME ListPOs(r) PROVE Quiet
  <2>1. UNCHANGED <<event, deliv, made, planned>>
    BY <1>4 DEF ListPOs, broker
  <2>2. Onward(req[r], req'[r])
    BY <1>4, <1>1
       DEF ListPOs, Goto, Onward, RequestType, Serving, Places, Kinds, Exploding, Ordering, OnAnOrder
  <2> QED
    BY <1>2, <2>1, <2>2 DEF Quiet
<1>5. ASSUME RunBOMExplosion(r) PROVE Quiet
  <2>1. UNCHANGED <<event, deliv, made, planned>>
    BY <1>5 DEF RunBOMExplosion, broker
  <2>2. Onward(req[r], req'[r])
    <3>1. PICK f : req' = [req EXCEPT ![r] = [req[r] EXCEPT !.at = AfterExplosion(req[r].kind), !.results = f]]
      BY <1>5 DEF RunBOMExplosion
    <3>2. AfterExplosion(req[r].kind) # "plan" /\ req[r].at # "plan"
      BY <1>5, <1>1
         DEF RunBOMExplosion, AfterExplosion, RequestType, Serving, Places, Kinds, Exploding,
             Ordering, OnAnOrder
    <3> QED
      BY <1>1, <3>1, <3>2 DEF Onward, RequestType
  <2> QED
    BY <1>2, <2>1, <2>2 DEF Quiet
<1>6. ASSUME GetShortagesByOrderID(r) PROVE Quiet
  <2>1. UNCHANGED <<event, deliv, made, planned>>
    BY <1>6 DEF GetShortagesByOrderID, broker
  <2>2. Onward(req[r], req'[r])
    <3> DEFINE Todo(f) == {p \in Parts : req[r].results[p] # None /\ (p \in Short(req[r].results) \/ f[p] # 0)}
    <3>1. PICK f \in [Parts -> {0} \cup {x.id : x \in UNION {rows[req[r].order][p] : p \in Parts}}] :
            req' = [req EXCEPT ![r] = [req[r] EXCEPT !.at = "sync", !.seen = f, !.todo = Todo(f)]]
      BY <1>6 DEF GetShortagesByOrderID
    <3> HIDE DEF Todo
    <3> QED
      BY <1>6, <1>1, <3>1 DEF GetShortagesByOrderID, Onward, RequestType
  <2> QED
    BY <1>2, <2>1, <2>2 DEF Quiet
<1>7. ASSUME PublishShortage(r) PROVE Quiet
  <2>1. UNCHANGED <<event, deliv, made, planned>>
    BY <1>7 DEF PublishShortage, broker
  <2>2. Onward(req[r], req'[r])
    BY <1>7, <1>1
       DEF PublishShortage, Onward, RequestType, Serving, Places, Kinds, Exploding, Ordering,
           OnAnOrder
  <2> QED
    BY <1>2, <2>1, <2>2 DEF Quiet
<1>8. ASSUME SyncDone(r) PROVE Quiet
  <2>1. UNCHANGED <<event, deliv, made, planned>>
    BY <1>8 DEF SyncDone, broker
  <2>2. Onward(req[r], req'[r])
    BY <1>8, <1>1
       DEF SyncDone, Onward, Goto, RequestType, Serving, Places, Kinds, Exploding, Ordering,
           OnAnOrder
  <2> QED
    BY <1>2, <2>1, <2>2 DEF Quiet
<1>9. ASSUME NEW p \in Parts, CreateShortageLog(r, p) PROVE Quiet
  <2>1. UNCHANGED <<event, deliv, made, planned>>
    BY <1>9 DEF CreateShortageLog, broker
  <2>2. Onward(req[r], req'[r])
    BY <1>9, <1>1
       DEF CreateShortageLog, Onward, RequestType, Serving, Places, Kinds, Exploding, Ordering,
           OnAnOrder
  <2> QED
    BY <1>2, <2>1, <2>2 DEF Quiet
<1>10. ASSUME NEW p \in Parts, UpdateShortageLog(r, p) PROVE Quiet
  <2>1. UNCHANGED <<event, deliv, made, planned>>
    BY <1>10 DEF UpdateShortageLog, broker
  <2>2. Onward(req[r], req'[r])
    BY <1>10, <1>1
       DEF UpdateShortageLog, Onward, RequestType, Serving, Places, Kinds, Exploding, Ordering,
           OnAnOrder
  <2> QED
    BY <1>2, <2>1, <2>2 DEF Quiet
<1>11. ASSUME NEW p \in Parts, DeleteShortageLog(r, p) PROVE Quiet
  <2>1. UNCHANGED <<event, deliv, made, planned>>
    BY <1>11 DEF DeleteShortageLog, broker
  <2>2. Onward(req[r], req'[r])
    BY <1>11, <1>1
       DEF DeleteShortageLog, Onward, RequestType, Serving, Places, Kinds, Exploding, Ordering,
           OnAnOrder
  <2> QED
    BY <1>2, <2>1, <2>2 DEF Quiet
<1>12. ASSUME UpdateProductionOrderStatus(r) PROVE Quiet
  <2>1. UNCHANGED <<event, deliv, made, planned>>
    BY <1>12 DEF UpdateProductionOrderStatus, broker
  <2>2. Onward(req[r], req'[r])
    BY <1>12, <1>1
       DEF UpdateProductionOrderStatus, Onward, Goto, RequestType, Serving, Places, Kinds,
           Exploding, Ordering, OnAnOrder
  <2> QED
    BY <1>2, <2>1, <2>2 DEF Quiet
<1>13. ASSUME InvalidatePlanned(r) PROVE Quiet
  <2>1. UNCHANGED <<event, deliv, made, planned>>
    BY <1>13 DEF InvalidatePlanned, broker
  <2>2. Onward(req[r], req'[r])
    BY <1>13, <1>1
       DEF InvalidatePlanned, Onward, Goto, RequestType, Serving, Places, Kinds, Exploding,
           Ordering, OnAnOrder
  <2> QED
    BY <1>2, <2>1, <2>2 DEF Quiet
<1>14. ASSUME NEW o \in Ids, NextOrder(r, o) PROVE Quiet
  <2>1. UNCHANGED <<event, deliv, made, planned>>
    BY <1>14 DEF NextOrder, broker
  <2>2. Onward(req[r], req'[r])
    BY <1>14, <1>1
       DEF NextOrder, Onward, OnOrder, RequestType, Serving, Places, Kinds, Exploding,
           Ordering, OnAnOrder
  <2> QED
    BY <1>2, <2>1, <2>2 DEF Quiet
<1>15. ASSUME CacheReadinessRow(r) PROVE Quiet
  <2>1. UNCHANGED <<event, deliv, made, planned>>
    BY <1>15 DEF CacheReadinessRow, broker
  <2>2. Onward(req[r], req'[r])
    BY <1>15, <1>1
       DEF CacheReadinessRow, Onward, Idle, RequestType, Serving, Places, Kinds, Exploding,
           Ordering, OnAnOrder
  <2> QED
    BY <1>2, <2>1, <2>2 DEF Quiet
<1>16. ASSUME CacheReadinessRows(r) PROVE Quiet
  <2>1. UNCHANGED <<event, deliv, made, planned>>
    BY <1>16 DEF CacheReadinessRows, broker
  <2>2. Onward(req[r], req'[r])
    BY <1>16, <1>1
       DEF CacheReadinessRows, Onward, Idle, RequestType, Serving, Places, Kinds, Exploding,
           Ordering, OnAnOrder
  <2> QED
    BY <1>2, <2>1, <2>2 DEF Quiet
<1>17. ASSUME CacheReadinessMetrics(r) PROVE Quiet
  <2>1. UNCHANGED <<event, deliv, made, planned>>
    BY <1>17 DEF CacheReadinessMetrics, broker
  <2>2. Onward(req[r], req'[r])
    BY <1>17, <1>1
       DEF CacheReadinessMetrics, Onward, Idle, RequestType, Serving, Places, Kinds, Exploding,
           Ordering, OnAnOrder
  <2> QED
    BY <1>2, <2>1, <2>2 DEF Quiet
<1>18. ASSUME DeleteProductionOrder(r) PROVE Quiet
  <2>1. UNCHANGED <<event, deliv, made, planned>>
    BY <1>18 DEF DeleteProductionOrder, broker
  <2>2. Onward(req[r], req'[r])
    BY <1>18, <1>1
       DEF DeleteProductionOrder, Onward, Goto, RequestType, Serving, Places, Kinds, Exploding,
           Ordering, OnAnOrder
  <2> QED
    BY <1>2, <2>1, <2>2 DEF Quiet
<1>19. ASSUME InvalidateDeleted(r) PROVE Quiet
  <2>1. UNCHANGED <<event, deliv, made, planned>>
    BY <1>19 DEF InvalidateDeleted, broker
  <2>2. Onward(req[r], req'[r])
    BY <1>19, <1>1
       DEF InvalidateDeleted, Onward, Idle, RequestType, Serving, Places, Kinds, Exploding,
           Ordering, OnAnOrder
  <2> QED
    BY <1>2, <2>1, <2>2 DEF Quiet
<1>20. ASSUME BulkDone(r) PROVE Quiet
  <2>1. UNCHANGED <<event, deliv, made, planned>>
    BY <1>20 DEF BulkDone, broker
  <2>2. Onward(req[r], req'[r])
    BY <1>20, <1>1
       DEF BulkDone, Onward, Idle, RequestType, Serving, Places, Kinds, Exploding, Ordering,
           OnAnOrder
  <2> QED
    BY <1>2, <2>1, <2>2 DEF Quiet
<1>21. ASSUME GetOptimalSuppliers(r) PROVE Quiet
  <2>1. UNCHANGED <<event, deliv, made, planned>>
    BY <1>21 DEF GetOptimalSuppliers, broker
  <2>2. Onward(req[r], req'[r])
    BY <1>21, <1>1
       DEF GetOptimalSuppliers, Onward, AfterHandoff, Idle, RequestType, Serving, Places,
           Kinds, Exploding, Ordering, OnAnOrder
  <2> QED
    BY <1>2, <2>1, <2>2 DEF Quiet
<1>22. ASSUME CreateDraftPO(r) PROVE Quiet
  <2>1. UNCHANGED <<event, deliv, made, planned>>
    BY <1>22 DEF CreateDraftPO, broker
  <2>2. Onward(req[r], req'[r])
    BY <1>22, <1>1
       DEF CreateDraftPO, Onward, RequestType, Serving, Places, Kinds, Exploding, Ordering,
           OnAnOrder
  <2> QED
    BY <1>2, <2>1, <2>2 DEF Quiet
<1>23. ASSUME FindPOByVendor(r) PROVE Quiet
  <2>1. UNCHANGED <<event, deliv, made, planned>>
    BY <1>23 DEF FindPOByVendor, broker
  <2>2. Onward(req[r], req'[r])
    BY <1>23, <1>1
       DEF FindPOByVendor, Onward, Idle, Goto, RequestType, Serving, Places, Kinds, Exploding,
           Ordering, OnAnOrder
  <2> QED
    BY <1>2, <2>1, <2>2 DEF Quiet
<1>24. ASSUME CountPOs(r) PROVE Quiet
  <2>1. UNCHANGED <<event, deliv, made, planned>>
    BY <1>24 DEF CountPOs, broker
  <2>2. Onward(req[r], req'[r])
    BY <1>24, <1>1
       DEF CountPOs, Onward, RequestType, Serving, Places, Kinds, Exploding, Ordering,
           OnAnOrder
  <2> QED
    BY <1>2, <2>1, <2>2 DEF Quiet
<1>25. ASSUME CreatePO(r) PROVE Quiet
  <2>1. UNCHANGED <<event, deliv, made, planned>>
    BY <1>25 DEF CreatePO, broker
  <2>2. Onward(req[r], req'[r])
    <3>1. \/ req' = [req EXCEPT ![r] = Idle]
          \/ req' = [req EXCEPT ![r] = [req[r] EXCEPT !.at = "offer"]]
      BY <1>25 DEF CreatePO
    <3> QED
      BY <1>25, <1>1, <3>1 DEF CreatePO, Onward, RequestType, Idle
  <2> QED
    BY <1>2, <2>1, <2>2 DEF Quiet
<1>26. ASSUME OfferShortage(r) PROVE Quiet
  <2>1. UNCHANGED <<event, deliv, made, planned>>
    BY <1>26 DEF OfferShortage, broker
  <2>2. Onward(req[r], req'[r])
    <3>1. PICK p \in req[r].todo : req' = [req EXCEPT ![r] = [req[r] EXCEPT !.at = "line", !.part = p]]
      BY <1>26 DEF OfferShortage
    <3>2. req[r].at = "offer"
      BY <1>26 DEF OfferShortage
    <3> QED
      BY <1>1, <3>1, <3>2 DEF Onward, RequestType
  <2> QED
    BY <1>2, <2>1, <2>2 DEF Quiet
<1>27. ASSUME AddLineItemWithLock(r) PROVE Quiet
  <2>1. UNCHANGED <<event, deliv, made, planned>>
    BY <1>27 DEF AddLineItemWithLock, broker
  <2>2. Onward(req[r], req'[r])
    BY <1>27, <1>1
       DEF AddLineItemWithLock, Onward, AfterHandoff, Idle, RequestType, Serving, Places,
           Kinds, Exploding, Ordering, OnAnOrder
  <2> QED
    BY <1>2, <2>1, <2>2 DEF Quiet
<1>28. ASSUME LineRefused(r) PROVE Quiet
  <2>1. UNCHANGED <<event, deliv, made, planned>>
    BY <1>28 DEF LineRefused, broker
  <2>2. Onward(req[r], req'[r])
    BY <1>28, <1>1
       DEF LineRefused, Onward, Idle, RequestType, Serving, Places, Kinds, Exploding, Ordering,
           OnAnOrder
  <2> QED
    BY <1>2, <2>1, <2>2 DEF Quiet
<1>29. ASSUME UpdatePOStatus(r) PROVE Quiet
  <2>1. UNCHANGED <<event, deliv, made, planned>>
    BY <1>29 DEF UpdatePOStatus, broker
  <2>2. Onward(req[r], req'[r])
    BY <1>29, <1>1 DEF UpdatePOStatus, Onward, Idle
  <2> QED
    BY <1>2, <2>1, <2>2 DEF Quiet
<1> QED
  BY <1>3, <1>4, <1>5, <1>6, <1>7, <1>8, <1>9, <1>10, <1>11, <1>12, <1>13, <1>14, <1>15, <1>16,
     <1>17, <1>18, <1>19, <1>20, <1>21, <1>22, <1>23, <1>24, <1>25, <1>26, <1>27, <1>28, <1>29

Finished(e, i) == Invalid(Lines[e][i]) \/ <<e, i>> \in planned
Ahead(x, i) == i > x.line \/ (i = x.line /\ x.at = "plan")
EventServed(x) ==
    x.ev # None =>
      /\ event[x.ev] = "inflight"
      /\ \A i \in DOMAIN Lines[x.ev] :
           /\ i < x.line => Finished(x.ev, i)
           /\ Ahead(x, i) => made[x.ev][i] < deliv[x.ev]
EventsInv ==
    /\ \A q, r \in Requests : req[q].ev # None /\ req[q].ev = req[r].ev => q = r
    /\ \A r \in Requests : EventServed(req[r])
    /\ AckedIsPlanned

(* The lines of an event are numbered from 1.                              *)
LEMMA LineNumbers == \A e \in Events : Len(Lines[e]) \in Nat /\ DOMAIN Lines[e] = 1..Len(Lines[e])
<1> TAKE e \in Events
<1>1. Lines[e] \in Seq([build: Builds \cup {None}, qty: Nat])
  BY PlanningAssumption
<1> QED
  BY <1>1

(* No event is None.                                                       *)
LEMMA NoEvent == None \notin Events /\ Idle.ev = None
  BY PlanningAssumption DEF Idle

(* A quiet step keeps the invariant of the events.                         *)
LEMMA QuietEvents ==
  ASSUME Types, EventsInv, Quiet
  PROVE  EventsInv'
<1>1. UNCHANGED <<event, deliv, made, planned>> /\ \A q \in Requests : Onward(req[q], req'[q])
  BY DEF Quiet
<1>2. \A q, r \in Requests : req'[q].ev # None /\ req'[q].ev = req'[r].ev => q = r
  BY <1>1 DEF EventsInv, Onward
<1>3. ASSUME NEW r \in Requests PROVE EventServed(req[r])'
  BY <1>1 DEF EventsInv, EventServed, Finished, Ahead, Onward
<1>4. AckedIsPlanned'
  BY <1>1 DEF EventsInv, AckedIsPlanned
<1> QED
  BY <1>2, <1>3, <1>4 DEF EventsInv

(* An event that is not acknowledged stays so, and the request that served *)
(* it ends.                                                                *)
LEMMA EventBack ==
  ASSUME Types, EventsInv, UNCHANGED <<deliv, made, planned>>,
         \A e \in Events : event'[e] = event[e] \/ event'[e] = "ready",
         \A q \in Requests : /\ req'[q] = req[q] \/ req'[q].ev = None
                             /\ req'[q].ev # None => event'[req[q].ev] = event[req[q].ev]
  PROVE  EventsInv'
<1>1. \A q, r \in Requests : req'[q].ev # None /\ req'[q].ev = req'[r].ev => q = r
  BY DEF EventsInv
<1>2. ASSUME NEW r \in Requests PROVE EventServed(req[r])'
  BY DEF EventsInv, EventServed, Finished, Ahead
<1>3. AckedIsPlanned'
  BY DEF EventsInv, AckedIsPlanned
<1> QED
  BY <1>1, <1>2, <1>3 DEF EventsInv

(* One lemma per action that is about an event.                            *)
LEMMA DeliverEvents ==
  ASSUME Types, EventsInv, NEW r \in Requests, NEW e \in Events, Deliver(r, e)
  PROVE  EventsInv'
<1>1. /\ event \in [Events -> {"unsent", "ready", "inflight", "acked"}] /\ deliv \in [Events -> Nat]
      /\ req \in [Requests -> RequestType]
  BY DEF Types, RequestsOK, OthersOK
<1>2. /\ event' = [event EXCEPT ![e] = "inflight"] /\ deliv' = [deliv EXCEPT ![e] = @ + 1]
      /\ UNCHANGED <<made, planned>> /\ event[e] = "ready"
      /\ \A q \in Requests \ {r} : req'[q] = req[q]
  BY DEF Deliver
<1>3. req'[r].ev = e /\ req'[r].line = 1 /\ req'[r].at = "plan"
  BY <1>1 DEF Deliver, Idle
<1>4. \A q \in Requests : req[q].ev # e
  BY <1>2, NoEvent DEF EventsInv, EventServed
<1>5. \A q, p \in Requests : req'[q].ev # None /\ req'[q].ev = req'[p].ev => q = p
  BY <1>2, <1>3, <1>4 DEF EventsInv
<1>6. \A x \in Events : \A i \in DOMAIN Lines[x] : made[x][i] \in Nat /\ made[x][i] <= deliv[x] /\ deliv[x] \in Nat
  BY <1>1 DEF EventsInv, AckedIsPlanned, Types, OthersOK
<1>7. ASSUME NEW q \in Requests PROVE EventServed(req[q])'
  <2>1. CASE q = r
    <3>1. event'[e] = "inflight" /\ deliv'[e] = deliv[e] + 1
      BY <1>1, <1>2
    <3>2. \A i \in DOMAIN Lines[e] : ~(i < 1) /\ made'[e][i] < deliv'[e]
      BY <1>2, <1>6, <3>1, LineNumbers
    <3> QED
      BY <1>3, <2>1, <3>1, <3>2 DEF EventServed
  <2>2. CASE q # r
    <3>1. req'[q] = req[q] /\ EventServed(req[q])
      BY <1>2, <2>2 DEF EventsInv
    <3>2. CASE req[q].ev # None
      <4>1. event'[req[q].ev] = event[req[q].ev] /\ deliv'[req[q].ev] = deliv[req[q].ev]
        BY <1>1, <1>2, <1>4
      <4> QED
        BY <1>2, <3>1, <4>1 DEF EventServed, Finished, Ahead
    <3> QED
      BY <3>1, <3>2 DEF EventServed
  <2> QED
    BY <2>1, <2>2
<1>8. AckedIsPlanned'
  <2> SUFFICES ASSUME NEW x \in Events, NEW i \in DOMAIN Lines[x]
               PROVE  /\ event'[x] = "acked" => Invalid(Lines[x][i]) \/ <<x, i>> \in planned
                      /\ made[x][i] <= deliv'[x]
    BY <1>2 DEF AckedIsPlanned, Invalid
  <2>1. deliv'[x] = deliv[x] \/ deliv'[x] = deliv[x] + 1
    BY <1>1, <1>2
  <2>2. event'[x] = "acked" => event[x] = "acked"
    BY <1>1, <1>2
  <2> QED
    BY <1>6, <2>1, <2>2 DEF EventsInv, AckedIsPlanned
<1> QED
  BY <1>5, <1>7, <1>8 DEF EventsInv

LEMMA SkipItemEvents ==
  ASSUME Types, EventsInv, NEW r \in Requests, SkipItem(r)
  PROVE  EventsInv'
<1>1. req \in [Requests -> RequestType] /\ req[r].line \in Nat
  BY DEF Types, RequestsOK, RequestType
<1>2. /\ UNCHANGED <<event, deliv, made, planned>>
      /\ \A q \in Requests \ {r} : req'[q] = req[q]
      /\ req'[r].ev = req[r].ev /\ req'[r].line = req[r].line + 1 /\ req'[r].at = "plan" /\ req[r].at = "plan"
      /\ Invalid(Line(r))
  BY <1>1 DEF SkipItem, broker, RequestType
<1>3. \A q, p \in Requests : req'[q].ev # None /\ req'[q].ev = req'[p].ev => q = p
  BY <1>2 DEF EventsInv
<1>4. ASSUME NEW q \in Requests PROVE EventServed(req[q])'
  <2>1. CASE q = r
    <3> SUFFICES ASSUME req[r].ev # None PROVE EventServed(req[r])'
      BY <1>2, <2>1 DEF EventServed
    <3> DEFINE e == req[r].ev
    <3>1. e \in Events
      BY <1>1 DEF RequestType
    <3>2. event'[e] = "inflight"
      BY <1>2 DEF EventsInv, EventServed
    <3>3. ASSUME NEW i \in DOMAIN Lines[e], i < req[r].line + 1 PROVE Finished(e, i)'
      <4>1. i \in Nat /\ (i < req[r].line \/ i = req[r].line)
        BY <1>1, <3>1, <3>3, LineNumbers
      <4> QED
        BY <1>2, <4>1 DEF EventsInv, EventServed, Finished, Line, Invalid
    <3>4. ASSUME NEW i \in DOMAIN Lines[e], i >= req[r].line + 1 PROVE made'[e][i] < deliv'[e]
      <4>1. i > req[r].line
        BY <1>1, <3>1, <3>4, LineNumbers
      <4> QED
        BY <1>2, <4>1 DEF EventsInv, EventServed, Ahead
    <3>5. \A i \in DOMAIN Lines[e] : Ahead(req'[r], i) => i >= req[r].line + 1
      BY <1>1, <1>2, <3>1, LineNumbers DEF Ahead
    <3> QED
      BY <1>2, <3>2, <3>3, <3>4, <3>5 DEF EventServed
  <2>2. CASE q # r
    BY <1>2, <2>2 DEF EventsInv, EventServed, Finished, Ahead
  <2> QED
    BY <2>1, <2>2
<1>5. AckedIsPlanned'
  BY <1>2 DEF EventsInv, AckedIsPlanned
<1> QED
  BY <1>3, <1>4, <1>5 DEF EventsInv

LEMMA PlanItemEvents ==
  ASSUME Types, EventsInv, NEW r \in Requests, PlanItem(r)
  PROVE  EventsInv'
<1> DEFINE e == req[r].ev
           l == req[r].line
<1>1. /\ req \in [Requests -> RequestType] /\ l \in Nat
      /\ e \in Events /\ l \in DOMAIN Lines[e]
      /\ made' = [made EXCEPT ![e] = [made[e] EXCEPT ![l] = made[e][l] + 1]]
  BY PlanItemOthers DEF Types, RequestsOK, RequestType
<1>2. /\ UNCHANGED <<event, deliv, planned>>
      /\ \A q \in Requests \ {r} : req'[q] = req[q]
      /\ req'[r].ev = e /\ req'[r].line = l /\ req'[r].at # "plan" /\ req[r].at = "plan"
  BY <1>1 DEF PlanItem, RequestType
<1>3. /\ DOMAIN made = Events /\ \A x \in Events : made[x] \in [DOMAIN Lines[x] -> Nat]
      /\ deliv \in [Events -> Nat]
  BY DEF Types, OthersOK
<1>4. made[e][l] < deliv[e]
  BY <1>1, <1>2, NoEvent DEF EventsInv, EventServed, Ahead
<1>5. /\ \A x \in Events \ {e} : made'[x] = made[x]
      /\ \A i \in DOMAIN Lines[e] \ {l} : made'[e][i] = made[e][i]
      /\ made'[e][l] = made[e][l] + 1
  BY <1>1, <1>3
<1> HIDE DEF e, l
<1>6. \A q, p \in Requests : req'[q].ev # None /\ req'[q].ev = req'[p].ev => q = p
  BY <1>2 DEF EventsInv, e
<1>7. ASSUME NEW q \in Requests PROVE EventServed(req[q])'
  <2>1. CASE q = r
    <3>1. EventServed(req[r]) /\ e # None
      BY <1>1, NoEvent DEF EventsInv
    <3>2. \A i \in DOMAIN Lines[e] : Ahead(req'[r], i) => Ahead(req[r], i) /\ i # l
      BY <1>1, <1>2, LineNumbers DEF Ahead, l
    <3> QED
      BY <1>2, <1>5, <2>1, <3>1, <3>2 DEF EventServed, Finished, e, l
  <2>2. CASE q # r
    <3>1. req[q].ev # None => req[q].ev # e /\ req[q].ev \in Events
      BY <1>1, <2>2, NoEvent DEF EventsInv, e, RequestType
    <3> QED
      BY <1>2, <1>5, <2>2, <3>1 DEF EventsInv, EventServed, Finished, Ahead
  <2> QED
    BY <2>1, <2>2
<1>8. AckedIsPlanned'
  <2> SUFFICES ASSUME NEW x \in Events, NEW i \in DOMAIN Lines[x]
               PROVE  /\ event[x] = "acked" => Invalid(Lines[x][i]) \/ <<x, i>> \in planned
                      /\ made'[x][i] <= deliv[x]
    BY <1>2 DEF AckedIsPlanned, Invalid
  <2>1. made[x][i] \in Nat /\ deliv[x] \in Nat /\ made[x][i] <= deliv[x]
    BY <1>3 DEF EventsInv, AckedIsPlanned
  <2>2. made'[x][i] = made[x][i] \/ (x = e /\ i = l)
    BY <1>5
  <2>3. made'[x][i] <= deliv[x]
    BY <1>4, <1>5, <2>1, <2>2
  <2> QED
    BY <2>3 DEF EventsInv, AckedIsPlanned
<1> QED
  BY <1>6, <1>7, <1>8 DEF EventsInv

LEMMA PlanAnsweredEvents ==
  ASSUME Types, EventsInv, NEW r \in Requests, PlanAnswered(r)
  PROVE  EventsInv'
<1> DEFINE e == req[r].ev
           l == req[r].line
<1>1. req \in [Requests -> RequestType] /\ l \in Nat /\ req[r].at = "answer"
  BY DEF Types, RequestsOK, RequestType, PlanAnswered
<1>2. /\ UNCHANGED <<event, deliv, made>> /\ planned' = planned \cup {<<e, l>>}
      /\ \A q \in Requests \ {r} : req'[q] = req[q]
      /\ req'[r].ev = e /\ req'[r].line = l + 1 /\ req'[r].at = "plan"
  BY <1>1 DEF PlanAnswered, Idle
<1>3. \A x, i : Finished(x, i) => Finished(x, i)'
  BY <1>2 DEF Finished, Invalid
<1>4. \A q, p \in Requests : req'[q].ev # None /\ req'[q].ev = req'[p].ev => q = p
  BY <1>2 DEF EventsInv
<1>5. ASSUME NEW q \in Requests PROVE EventServed(req[q])'
  <2>1. CASE q = r
    <3> SUFFICES ASSUME e # None PROVE EventServed(req[r])'
      BY <1>2, <2>1 DEF EventServed
    <3>1. e \in Events /\ EventServed(req[r])
      BY <1>1 DEF RequestType, EventsInv
    <3>2. ASSUME NEW i \in DOMAIN Lines[e], i < l + 1 PROVE Finished(e, i)'
      <4>1. i \in Nat /\ (i < l \/ i = l)
        BY <1>1, <3>1, <3>2, LineNumbers
      <4>2. CASE i < l
        BY <1>2, <1>3, <3>1, <3>2, <4>2 DEF EventServed
      <4>3. CASE i = l
        BY <1>2, <4>3 DEF Finished
      <4> QED
        BY <4>1, <4>2, <4>3
    <3>3. \A i \in DOMAIN Lines[e] : Ahead(req'[r], i) => Ahead(req[r], i)
      BY <1>1, <1>2, <3>1, LineNumbers DEF Ahead
    <3> QED
      BY <1>2, <3>1, <3>2, <3>3 DEF EventServed
  <2>2. CASE q # r
    BY <1>2, <1>3, <2>2 DEF EventsInv, EventServed, Ahead
  <2> QED
    BY <2>1, <2>2
<1>6. AckedIsPlanned'
  BY <1>2 DEF EventsInv, AckedIsPlanned
<1> QED
  BY <1>4, <1>5, <1>6 DEF EventsInv

LEMMA AckEvents ==
  ASSUME Types, EventsInv, NEW r \in Requests, Ack(r)
  PROVE  EventsInv'
<1> DEFINE e == req[r].ev
<1>1. /\ req \in [Requests -> RequestType] /\ req[r] \in RequestType /\ Serving(req[r], DOMAIN orders, Existing)
      /\ event \in [Events -> {"unsent", "ready", "inflight", "acked"}]
  BY DEF Types, RequestsOK, OthersOK
<1>2. /\ UNCHANGED <<deliv, made, planned>> /\ event' = [event EXCEPT ![e] = "acked"]
      /\ \A q \in Requests \ {r} : req'[q] = req[q]
      /\ req'[r] = Idle /\ req[r].at = "plan" /\ ~HasLine(r)
  BY <1>1 DEF Ack
<1>3. e \in Events /\ e # None
  BY <1>1, <1>2, NoEvent DEF RequestType, Serving, Places, Kinds, Exploding, Ordering
<1>4. \A i \in DOMAIN Lines[e] : Finished(e, i)
  <2>1. \A i \in DOMAIN Lines[e] : i < req[r].line
    BY <1>1, <1>2, <1>3, LineNumbers DEF HasLine, RequestType
  <2> QED
    BY <1>3, <2>1 DEF EventsInv, EventServed
<1>5. \A q \in Requests \ {r} : req[q].ev # e
  BY <1>3 DEF EventsInv
<1> HIDE DEF e
<1>6. \A q, p \in Requests : req'[q].ev # None /\ req'[q].ev = req'[p].ev => q = p
  BY <1>2, NoEvent DEF EventsInv
<1>7. ASSUME NEW q \in Requests PROVE EventServed(req[q])'
  <2>1. CASE q = r
    BY <1>2, <2>1, NoEvent DEF EventServed
  <2>2. CASE q # r
    <3>1. event'[req[q].ev] = event[req[q].ev] \/ req[q].ev = None
      BY <1>1, <1>2, <1>5, <2>2 DEF RequestType
    <3> QED
      BY <1>2, <2>2, <3>1 DEF EventsInv, EventServed, Finished, Ahead
  <2> QED
    BY <2>1, <2>2
<1>8. AckedIsPlanned'
  <2> SUFFICES ASSUME NEW x \in Events, NEW i \in DOMAIN Lines[x]
               PROVE  /\ event'[x] = "acked" => Finished(x, i)
                      /\ made[x][i] <= deliv[x]
    BY <1>2 DEF AckedIsPlanned, Invalid, Finished
  <2>1. CASE x = e
    BY <1>4, <2>1 DEF EventsInv, AckedIsPlanned
  <2>2. CASE x # e
    BY <1>1, <1>2, <2>2 DEF EventsInv, AckedIsPlanned, Finished
  <2> QED
    BY <2>1, <2>2
<1> QED
  BY <1>6, <1>7, <1>8 DEF EventsInv

LEMMA FailureEvents ==
  ASSUME Types, EventsInv, NEW r \in Requests, RefuseItem(r) \/ CallFails(r)
  PROVE  EventsInv'
<1>1. req \in [Requests -> RequestType] /\ event \in [Events -> {"unsent", "ready", "inflight", "acked"}]
  BY DEF Types, RequestsOK, OthersOK
<1>2. /\ UNCHANGED <<deliv, made, planned>>
      /\ event' = [e \in Events |-> IF e = req[r].ev THEN "ready" ELSE event[e]]
      /\ req' = [req EXCEPT ![r] = Idle]
  BY DEF RefuseItem, CallFails, EndWithError
<1>3. \A e \in Events : event'[e] = event[e] \/ event'[e] = "ready"
  BY <1>2
<1>4. ASSUME NEW q \in Requests
      PROVE  /\ req'[q] = req[q] \/ req'[q].ev = None
             /\ req'[q].ev # None => event'[req[q].ev] = event[req[q].ev]
  <2>1. CASE q = r
    BY <1>1, <1>2, <2>1, NoEvent
  <2>2. CASE q # r
    <3>1. req'[q] = req[q]
      BY <1>1, <1>2, <2>2
    <3>2. req[q].ev # None => req[q].ev \in Events /\ req[q].ev # req[r].ev
      BY <1>1, <2>2 DEF EventsInv, RequestType
    <3> QED
      BY <1>2, <3>1, <3>2
  <2> QED
    BY <2>1, <2>2
<1> QED
  BY <1>2, <1>3, <1>4, EventBack

LEMMA CrashEvents ==
  ASSUME Types, EventsInv, Crash
  PROVE  EventsInv'
<1>1. /\ \A q \in Requests : req[q] \in RequestType /\ Serving(req[q], DOMAIN orders, Existing)
      /\ event \in [Events -> {"unsent", "ready", "inflight", "acked"}]
  BY DEF Types, RequestsOK, OthersOK
<1>2. /\ UNCHANGED <<deliv, made, planned>>
      /\ event' = [e \in Events |-> IF event[e] = "inflight" THEN "ready" ELSE event[e]]
      /\ req' = [q \in Requests |-> IF req[q].kind \in {"draft", "state"} THEN req[q] ELSE Idle]
  BY DEF Crash
<1>3. \A e \in Events : event'[e] = event[e] \/ event'[e] = "ready"
  BY <1>2
<1>4. \A q \in Requests : (req'[q] = req[q] \/ req'[q].ev = None) /\ req'[q].ev = None
  BY <1>1, <1>2, NoEvent DEF Serving
<1> QED
  BY <1>2, <1>3, <1>4, EventBack

(* A request that starts without an event serves none.                     *)
LEMMA StartsFresh ==
  ASSUME NEW r \in Requests,
         \/ \E o \in DOMAIN orders : GetReadinessByOrderID(r, o) \/ Delete(r, o) \/ GeneratePOForDeficits(r, o)
         \/ \E kind \in {"matrix", "metrics"} : LoadReadinessRows(r, kind)
         \/ GeneratePOsForShortages(r)
         \/ \E v \in Vendors : DraftByHand(r, v)
         \/ \E n \in PONumbers, s \in Status : TransitionState(r, n, s)
  PROVE  \E x : Start(r, x) /\ x.ev = None
<1>1. ASSUME NEW o \in DOMAIN orders, GetReadinessByOrderID(r, o) \/ GeneratePOForDeficits(r, o)
      PROVE  \E x : Start(r, x) /\ x.ev = None
  <2> DEFINE x(k) == OnOrder([Idle EXCEPT !.kind = k], o, "explode")
  <2>1. \A k : x(k).ev = None
    BY DEF OnOrder, Idle
  <2>2. Start(r, x("check")) \/ Start(r, x("handoff"))
    BY <1>1 DEF GetReadinessByOrderID, GeneratePOForDeficits
  <2> HIDE DEF x
  <2> QED
    BY <2>1, <2>2
<1>2. ASSUME NEW o \in DOMAIN orders, Delete(r, o)
      PROVE  \E x : Start(r, x) /\ x.ev = None
  <2> DEFINE x == [Idle EXCEPT !.kind = "delete", !.at = "delete", !.order = o]
  <2>1. x.ev = None
    BY DEF Idle
  <2>2. Start(r, x)
    BY <1>2 DEF Delete
  <2> HIDE DEF x
  <2> QED
    BY <2>1, <2>2
<1>3. ASSUME NEW kind \in {"matrix", "metrics"}, LoadReadinessRows(r, kind)
      PROVE  \E x : Start(r, x) /\ x.ev = None
  <2> DEFINE x == [Idle EXCEPT !.kind = kind, !.at = "next", !.rest = OpenOrders]
             y == [Idle EXCEPT !.kind = kind, !.at = "metrics", !.built = cache.matrix]
  <2>1. x.ev = None /\ y.ev = None
    BY DEF Idle
  <2>2. Start(r, x) \/ Start(r, y)
    BY <1>3 DEF LoadReadinessRows
  <2> HIDE DEF x, y
  <2> QED
    BY <2>1, <2>2
<1>4. ASSUME GeneratePOsForShortages(r)
      PROVE  \E x : Start(r, x) /\ x.ev = None
  <2> DEFINE x == [Idle EXCEPT !.kind = "bulk", !.at = "next", !.rest = OpenOrders]
  <2>1. x.ev = None
    BY DEF Idle
  <2>2. Start(r, x)
    BY <1>4 DEF GeneratePOsForShortages
  <2> HIDE DEF x
  <2> QED
    BY <2>1, <2>2
<1>5. ASSUME NEW v \in Vendors, DraftByHand(r, v)
      PROVE  \E x : Start(r, x) /\ x.ev = None
  <2> DEFINE x == [Idle EXCEPT !.kind = "draft", !.at = "find", !.vendor = v]
  <2>1. x.ev = None
    BY DEF Idle
  <2>2. Start(r, x)
    BY <1>5 DEF DraftByHand
  <2> HIDE DEF x
  <2> QED
    BY <2>1, <2>2
<1>6. ASSUME NEW n \in PONumbers, NEW s \in Status, TransitionState(r, n, s)
      PROVE  \E x : Start(r, x) /\ x.ev = None
  <2> DEFINE x == [Idle EXCEPT !.kind = "state", !.at = "move", !.num = n, !.to = s]
  <2>1. x.ev = None
    BY DEF Idle
  <2>2. Start(r, x)
    BY <1>6 DEF TransitionState
  <2> HIDE DEF x
  <2> QED
    BY <2>1, <2>2
<1> QED
  BY <1>1, <1>2, <1>3, <1>4, <1>5, <1>6

(* Every step keeps the invariant of the events.                           *)
LEMMA EventsStep ==
  ASSUME Types, EventsInv, Next
  PROVE  EventsInv'
<1>1. ASSUME NEW r \in Requests,
             \/ \E o \in DOMAIN orders : GetReadinessByOrderID(r, o) \/ Delete(r, o) \/ GeneratePOForDeficits(r, o)
             \/ \E kind \in {"matrix", "metrics"} : LoadReadinessRows(r, kind)
             \/ GeneratePOsForShortages(r)
             \/ \E v \in Vendors : DraftByHand(r, v)
             \/ \E n \in PONumbers, s \in Status : TransitionState(r, n, s)
      PROVE  EventsInv'
  <2>1. PICK x : Start(r, x) /\ x.ev = None
    BY <1>1, StartsFresh
  <2>2. Quiet
    BY <2>1 DEF Start, broker, Quiet, Onward, Types, RequestsOK
  <2> QED
    BY <2>2, QuietEvents
<1>2. ASSUME UNCHANGED <<event, deliv, made, planned, req>> PROVE EventsInv'
  <2>1. Quiet
    BY <1>2 DEF Quiet, Onward
  <2> QED
    BY <2>1, QuietEvents
<1>3. ASSUME \/ \E o \in Ids : ExpireRow(o)
             \/ ExpireMatrix
             \/ ExpireMetrics
             \/ \E v \in Vendors, n \in PONumbers : PlacePO(v, n)
             \/ \E n \in PONumbers, s \in {"Partial", "Received"} : SaveReceived(n, s)
             \/ \E p \in Parts : ReceiveOrUse(p)
      PROVE  EventsInv'
  BY <1>2, <1>3
     DEF ExpireRow, ExpireMatrix, ExpireMetrics, PlacePO, SaveReceived, ReceiveOrUse, broker
<1>4. ASSUME NEW r \in Requests, Step(r) PROVE EventsInv'
  <2>1. CASE SkipItem(r) \/ PlanItem(r) \/ RefuseItem(r) \/ Ack(r) \/ PlanAnswered(r)
    BY <2>1, SkipItemEvents, PlanItemEvents, FailureEvents, AckEvents, PlanAnsweredEvents
  <2>2. CASE ~(SkipItem(r) \/ PlanItem(r) \/ RefuseItem(r) \/ Ack(r) \/ PlanAnswered(r))
    <3>1. Quiet
      BY <1>4, <2>2, StepsQuiet DEF Step
    <3> QED
      BY <3>1, QuietEvents
  <2> QED
    BY <2>1, <2>2
<1> QED
  BY <1>1, <1>3, <1>4, DeliverEvents, FailureEvents, CrashEvents DEF Next, Request

(* An event that was acknowledged was planned to the end, and a line of it *)
(* has one production order for each delivery at most.                     *)
THEOREM EventsPlanned == Spec => []AckedIsPlanned
<1>1. Init => EventsInv
  <2> SUFFICES ASSUME Init PROVE EventsInv
    OBVIOUS
  <2>1. \A r \in Requests : req[r].ev = None
    BY NoEvent DEF Init
  <2>2. AckedIsPlanned
    <3> SUFFICES ASSUME NEW e \in Events, NEW i \in DOMAIN Lines[e]
                 PROVE event[e] # "acked" /\ made[e][i] <= deliv[e]
      BY DEF AckedIsPlanned
    <3>1. event[e] \in {"unsent", "ready"}
      BY DEF Init
    <3>2. made[e][i] = 0 /\ deliv[e] = 0
      BY DEF Init
    <3> QED
      BY <3>1, <3>2
  <2> QED
    BY <2>1, <2>2 DEF EventsInv, EventServed
<1>2. Types /\ EventsInv /\ [Next]_vars => EventsInv'
  <2>1. ASSUME Types, EventsInv, UNCHANGED vars PROVE EventsInv'
    <3>1. Quiet
      BY <2>1 DEF vars, Quiet, Onward
    <3> QED
      BY <2>1, <3>1, QuietEvents
  <2> QED
    BY <2>1, EventsStep
<1>3. EventsInv => AckedIsPlanned
  BY DEF EventsInv
<1> QED
  BY <1>1, <1>2, <1>3, TypesInvariant, PTL DEF Spec

-----------------------------------------------------------------------------
(* Offers and drafts.  Between two statements a request may owe a message  *)
(* for the row it recorded, a line for the shortage it offered, or an      *)
(* order after it found none open.  It Owes no more than before when the   *)
(* step neither recorded, offered nor looked.                              *)
OffersNoMore(x, y) ==
    /\ y.at = "publish" => x.at = "publish" /\ y.order = x.order /\ y.part = x.part
    /\ y.at = "line" => x.at = "line" /\ y.part = x.part
DraftsNoMore(x, y) ==
    y.at \in {"count", "create"} => x.at \in {"count", "create"} /\ y.vendor = x.vendor
NoMore(x, y) == OffersNoMore(x, y) /\ DraftsNoMore(x, y)

(* A purchase order drafted: the request owes no more than before.         *)
LEMMA CreatePOOwes ==
  ASSUME Types, NEW r \in Requests, CreatePO(r)
  PROVE  req'[r].at \in {"idle", "offer"}
<1>1. req \in [Requests -> RequestType]
  BY DEF Types, RequestsOK
<1>2. req' = [req EXCEPT ![r] = Idle] \/ req' = [req EXCEPT ![r] = [req[r] EXCEPT !.at = "offer"]]
  BY DEF CreatePO
<1> QED
  BY <1>1, <1>2 DEF Idle, RequestType

(* The steps that neither record, offer nor look owe no more than before.  *)
LEMMA StepsOweNoMore ==
  ASSUME Types, NEW r \in Requests, Step(r),
         ~ \E p \in Parts : CreateShortageLog(r, p),
         ~ OfferShortage(r),
         ~ FindPOByVendor(r)
  PROVE  \A q \in Requests : NoMore(req[q], req'[q])
<1>1. /\ req \in [Requests -> RequestType] /\ req[r] \in RequestType
      /\ Serving(req[r], DOMAIN orders, Existing)
  BY DEF Types, RequestsOK
<1>2. SUFFICES NoMore(req[r], req'[r])
  BY StepAlone DEF NoMore, OffersNoMore, DraftsNoMore
<1>3. ASSUME SkipItem(r) \/ RefuseItem(r) \/ Ack(r) \/ PlanAnswered(r)
      PROVE  NoMore(req[r], req'[r])
  <2>1. req'[r].at \in {"plan", "idle"}
    <3>1. CASE SkipItem(r)
      BY <1>1, <3>1 DEF SkipItem, RequestType
    <3>2. CASE RefuseItem(r) \/ Ack(r)
      BY <1>1, <3>2 DEF RefuseItem, Ack, EndWithError, Idle
    <3>3. CASE PlanAnswered(r)
      BY <1>1, <3>3 DEF PlanAnswered, Idle
    <3> QED
      BY <1>3, <3>1, <3>2, <3>3
  <2> QED
    BY <2>1 DEF NoMore, OffersNoMore, DraftsNoMore
<1>19. ASSUME PlanItem(r) PROVE NoMore(req[r], req'[r])
  <2>1. req'[r].at = "explode"
    BY <1>1, <1>19 DEF PlanItem, RequestType
  <2> QED
    BY <2>1 DEF NoMore, OffersNoMore, DraftsNoMore
<1>4. ASSUME NothingToExplode(r)
      PROVE  NoMore(req[r], req'[r])
  BY <1>1, <1>4
     DEF NothingToExplode, NoMore, OffersNoMore, DraftsNoMore, AfterExplosion, RequestType,
         Serving, Places, Kinds, Exploding, Ordering, OnAnOrder
<1>5. ASSUME ListPOs(r)
      PROVE  NoMore(req[r], req'[r])
  BY <1>1, <1>5
     DEF ListPOs, Goto, NoMore, OffersNoMore, DraftsNoMore, RequestType, Serving, Places, Kinds,
         Exploding, Ordering, OnAnOrder
<1>6. ASSUME RunBOMExplosion(r)
      PROVE  NoMore(req[r], req'[r])
  BY <1>1, <1>6
     DEF RunBOMExplosion, NoMore, OffersNoMore, DraftsNoMore, AfterExplosion, RequestType,
         Serving, Places, Kinds, Exploding, Ordering, OnAnOrder
<1>7. ASSUME GetShortagesByOrderID(r)
      PROVE  NoMore(req[r], req'[r])
  BY <1>1, <1>7
     DEF GetShortagesByOrderID, NoMore, OffersNoMore, DraftsNoMore, RequestType, Serving,
         Places, Kinds, Exploding, Ordering, OnAnOrder
<1>8. ASSUME \/ SyncDone(r)
             \/ UpdateProductionOrderStatus(r)
             \/ InvalidatePlanned(r)
             \/ DeleteProductionOrder(r)
      PROVE  NoMore(req[r], req'[r])
  BY <1>1, <1>8
     DEF SyncDone, UpdateProductionOrderStatus, InvalidatePlanned, DeleteProductionOrder,
         NoMore, OffersNoMore, DraftsNoMore, Goto, RequestType, Serving, Places, Kinds,
         Exploding, Ordering, OnAnOrder
<1>9. ASSUME PublishShortage(r)
      PROVE  NoMore(req[r], req'[r])
  BY <1>1, <1>9
     DEF PublishShortage, NoMore, OffersNoMore, DraftsNoMore, RequestType, Serving, Places,
         Kinds, Exploding, Ordering, OnAnOrder
<1>10. ASSUME \/ \E p \in Parts : UpdateShortageLog(r, p)
             \/ \E p \in Parts : DeleteShortageLog(r, p)
      PROVE  NoMore(req[r], req'[r])
  BY <1>1, <1>10
     DEF UpdateShortageLog, DeleteShortageLog, NoMore, OffersNoMore, DraftsNoMore, RequestType,
         Serving, Places, Kinds, Exploding, Ordering, OnAnOrder
<1>11. ASSUME \E o \in Ids : NextOrder(r, o)
      PROVE  NoMore(req[r], req'[r])
  BY <1>1, <1>11
     DEF NextOrder, NoMore, OffersNoMore, DraftsNoMore, OnOrder, RequestType, Serving, Places,
         Kinds, Exploding, Ordering, OnAnOrder
<1>12. ASSUME \/ CacheReadinessRow(r)
             \/ CacheReadinessRows(r)
             \/ CacheReadinessMetrics(r)
      PROVE  NoMore(req[r], req'[r])
  BY <1>1, <1>12
     DEF CacheReadinessRow, CacheReadinessRows, CacheReadinessMetrics, NoMore, OffersNoMore,
         DraftsNoMore, Idle, RequestType, Serving, Places, Kinds, Exploding, Ordering,
         OnAnOrder
<1>13. ASSUME \/ InvalidateDeleted(r)
             \/ BulkDone(r)
             \/ LineRefused(r)
             \/ UpdatePOStatus(r)
      PROVE  NoMore(req[r], req'[r])
  BY <1>1, <1>13
     DEF InvalidateDeleted, BulkDone, LineRefused, UpdatePOStatus, NoMore, OffersNoMore, DraftsNoMore, Idle,
         RequestType, Serving, Places, Kinds, Exploding, Ordering, OnAnOrder
<1>14. ASSUME GetOptimalSuppliers(r)
      PROVE  NoMore(req[r], req'[r])
  BY <1>1, <1>14
     DEF GetOptimalSuppliers, NoMore, OffersNoMore, DraftsNoMore, AfterHandoff, Idle,
         RequestType, Serving, Places, Kinds, Exploding, Ordering, OnAnOrder
<1>15. ASSUME CreateDraftPO(r)
      PROVE  NoMore(req[r], req'[r])
  BY <1>1, <1>15
     DEF CreateDraftPO, NoMore, OffersNoMore, DraftsNoMore, RequestType, Serving, Places,
         Kinds, Exploding, Ordering, OnAnOrder
<1>16. ASSUME CountPOs(r)
      PROVE  NoMore(req[r], req'[r])
  BY <1>1, <1>16
     DEF CountPOs, NoMore, OffersNoMore, DraftsNoMore, RequestType, Serving, Places, Kinds,
         Exploding, Ordering, OnAnOrder
<1>17. ASSUME CreatePO(r)
      PROVE  NoMore(req[r], req'[r])
  BY <1>1, <1>17, CreatePOOwes DEF NoMore, OffersNoMore, DraftsNoMore
<1>18. ASSUME AddLineItemWithLock(r)
      PROVE  NoMore(req[r], req'[r])
  BY <1>1, <1>18
     DEF AddLineItemWithLock, NoMore, OffersNoMore, DraftsNoMore, AfterHandoff, Idle,
         RequestType, Serving, Places, Kinds, Exploding, Ordering, OnAnOrder
<1> QED
  BY <1>3, <1>4, <1>5, <1>6, <1>7, <1>8, <1>9, <1>10, <1>11, <1>12, <1>13, <1>14, <1>15, <1>16,
     <1>17, <1>18, <1>19
     DEF Step

Publishing(o, p) == {r \in Requests : req[r].at = "publish" /\ req[r].order = o /\ req[r].part = p}
Adding(p) == {r \in Requests : req[r].at = "line" /\ req[r].part = p}
OffersInv ==
    \A p \in Parts :
      /\ \A o \in Ids : offered[o][p] + Cardinality(Publishing(o, p)) <= created[o][p]
      /\ LinesOf(p) + Cardinality(Adding(p)) <= HandedOf(p)
LinesIn(n, p) == IF po[n] = None THEN 0 ELSE po[n].lines[p]

(* The requests in a set are no fewer than those in a part of it.          *)
LEMMA Fewer ==
  ASSUME NEW T \in SUBSET Requests, NEW S \in SUBSET T
  PROVE  Cardinality(S) \in Nat /\ Cardinality(T) \in Nat /\ Cardinality(S) <= Cardinality(T)
<1>1. IsFiniteSet(T) /\ IsFiniteSet(S)
  BY FS_Subset, PlanningAssumption
<1> QED
  BY <1>1, FS_Subset, FS_CardinalityType

(* A request that joins a set is one more in it.                           *)
LEMMA OneMore ==
  ASSUME NEW S \in SUBSET Requests, NEW r \in Requests \ S
  PROVE  Cardinality(S) \in Nat /\ Cardinality(S \cup {r}) = Cardinality(S) + 1
<1>1. IsFiniteSet(S)
  BY FS_Subset, PlanningAssumption
<1> QED
  BY <1>1, FS_AddElement, FS_CardinalityType

(* The orders hold as many lines of a part as before when each does.       *)
LEMMA LinesKept ==
  ASSUME NEW p \in Parts, \A n \in PONumbers : LinesIn(n, p)' = LinesIn(n, p)
  PROVE  LinesOf(p)' = LinesOf(p)
<1>1. [n \in PONumbers |-> LinesIn(n, p)]' = [n \in PONumbers |-> LinesIn(n, p)]
  BY DEF PONumbers
<1>2. \A f, g : f = g => SumFunctionOnSet(f, PONumbers) = SumFunctionOnSet(g, PONumbers)
  OBVIOUS
<1> QED
  BY <1>1, <1>2 DEF LinesOf, LinesIn, PONumbers

(* Both sums are of natural numbers.                                       *)
LEMMA SumsFinite ==
  ASSUME Types, NEW p \in Parts
  PROVE  /\ IsFiniteSet(PONumbers) /\ IsFiniteSet(Ids)
         /\ \A n \in PONumbers : LinesIn(n, p) \in Nat
         /\ \A o \in Ids : handed[o][p] \in Nat
         /\ LinesOf(p) \in Nat /\ HandedOf(p) \in Nat
<1>1. IsFiniteSet(PONumbers) /\ IsFiniteSet(Ids)
  BY FS_Interval, Bounds DEF PONumbers, Ids
<1>2. \A n \in PONumbers : LinesIn(n, p) \in Nat
  <2>1. \A n \in PONumbers : po[n] = None \/ po[n] \in PurchaseOrder
    BY DEF Types, OthersOK
  <2> QED
    BY <2>1 DEF LinesIn, PurchaseOrder
<1>3. \A o \in Ids : handed[o][p] \in Nat
  BY DEF Types, OthersOK
<1> DEFINE f == [n \in PONumbers |-> LinesIn(n, p)]
           h == [o \in Ids |-> handed[o][p]]
<1>4. (\A n \in PONumbers : f[n] \in Nat) /\ (\A o \in Ids : h[o] \in Nat)
  BY <1>2, <1>3
<1>5. LinesOf(p) = SumFunctionOnSet(f, PONumbers) /\ HandedOf(p) = SumFunctionOnSet(h, Ids)
  BY DEF LinesOf, HandedOf, LinesIn
<1> HIDE DEF f, h
<1>6. LinesOf(p) \in Nat /\ HandedOf(p) \in Nat
  BY <1>1, <1>4, <1>5, SumType
<1> QED
  BY <1>1, <1>2, <1>3, <1>6

(* Nothing was published, recorded or ordered, and no request owes more.   *)
LEMMA CalmOffers ==
  ASSUME Types, OffersInv, UNCHANGED <<offered, created, handed>>,
         \A q \in Requests : OffersNoMore(req[q], req'[q]),
         \A n \in PONumbers, p \in Parts : LinesIn(n, p)' = LinesIn(n, p)
  PROVE  OffersInv'
<1> SUFFICES ASSUME NEW p \in Parts
             PROVE  /\ \A o \in Ids : offered'[o][p] + Cardinality(Publishing(o, p)') <= created'[o][p]
                    /\ LinesOf(p)' + Cardinality(Adding(p)') <= HandedOf(p)'
  BY DEF OffersInv, Ids
<1>1. ASSUME NEW o \in Ids PROVE offered'[o][p] + Cardinality(Publishing(o, p)') <= created'[o][p]
  <2>1. Publishing(o, p)' \subseteq Publishing(o, p) /\ Publishing(o, p) \subseteq Requests
    BY DEF Publishing, OffersNoMore
  <2>2. /\ Cardinality(Publishing(o, p)') \in Nat /\ Cardinality(Publishing(o, p)) \in Nat
        /\ Cardinality(Publishing(o, p)') <= Cardinality(Publishing(o, p))
    BY <2>1, Fewer
  <2>3. offered[o][p] \in Nat /\ created[o][p] \in Nat
    BY DEF Types, TablesOK, OthersOK
  <2>4. offered[o][p] + Cardinality(Publishing(o, p)) <= created[o][p]
    BY DEF OffersInv
  <2> QED
    BY <2>2, <2>3, <2>4
<1>2. Adding(p)' \subseteq Adding(p) /\ Adding(p) \subseteq Requests
  BY DEF Adding, OffersNoMore
<1>3. /\ Cardinality(Adding(p)') \in Nat /\ Cardinality(Adding(p)) \in Nat
      /\ Cardinality(Adding(p)') <= Cardinality(Adding(p))
  BY <1>2, Fewer
<1>4. LinesOf(p)' = LinesOf(p) /\ HandedOf(p)' = HandedOf(p)
  BY LinesKept DEF HandedOf, Ids
<1>5. LinesOf(p) \in Nat /\ HandedOf(p) \in Nat /\ LinesOf(p) + Cardinality(Adding(p)) <= HandedOf(p)
  BY SumsFinite DEF OffersInv
<1>6. LinesOf(p)' + Cardinality(Adding(p)') <= HandedOf(p)'
  BY <1>3, <1>4, <1>5
<1> QED
  BY <1>1, <1>6

(* Counting one more for a part of an order changes that count alone.      *)
LEMMA CountedOne ==
  ASSUME NEW f \in [Ids -> [Parts -> Nat]], NEW o \in Ids, NEW p \in Parts, NEW g,
         g = [f EXCEPT ![o][p] = @ + 1]
  PROVE  /\ g[o][p] = f[o][p] + 1
         /\ \A i \in Ids, j \in Parts : i # o \/ j # p => g[i][j] = f[i][j]
  OBVIOUS

(* A row recorded: its request owes one message more.                      *)
LEMMA CreateShortageLogOffers ==
  ASSUME Types, OffersInv, NEW r \in Requests, NEW p \in Parts, CreateShortageLog(r, p)
  PROVE  OffersInv'
<1> DEFINE o == req[r].order
<1>1. /\ req \in [Requests -> RequestType] /\ req[r].at = "sync"
      /\ \A q \in Requests \ {r} : req'[q] = req[q]
      /\ req'[r].at = "publish" /\ req'[r].order = o /\ req'[r].part = p
      /\ UNCHANGED <<offered, handed, po>>
  BY DEF Types, RequestsOK, RequestType, CreateShortageLog, scm
<1>2. o \in Ids
  BY OrderAt DEF CreateShortageLog
<1>3. created \in [Ids -> [Parts -> Nat]] /\ created' = [created EXCEPT ![o][p] = @ + 1]
  BY DEF Types, TablesOK, CreateShortageLog
<1> HIDE DEF o
<1>4. /\ created'[o][p] = created[o][p] + 1
      /\ \A i \in Ids, j \in Parts : i # o \/ j # p => created'[i][j] = created[i][j]
  BY <1>2, <1>3, CountedOne
<1>5. ASSUME NEW j \in Parts, NEW i \in Ids
      PROVE  offered'[i][j] + Cardinality(Publishing(i, j)') <= created'[i][j]
  <2>1. offered[i][j] \in Nat /\ created[i][j] \in Nat
    BY DEF Types, TablesOK, OthersOK
  <2>2. offered[i][j] + Cardinality(Publishing(i, j)) <= created[i][j]
    BY DEF OffersInv
  <2>3. CASE i = o /\ j = p
    <3>1. Publishing(i, j)' = Publishing(i, j) \cup {r} /\ r \notin Publishing(i, j)
      BY <1>1, <2>3 DEF Publishing
    <3>2. Cardinality(Publishing(i, j)) \in Nat /\ Cardinality(Publishing(i, j)') = Cardinality(Publishing(i, j)) + 1
      <4>1. Publishing(i, j) \in SUBSET Requests
        BY DEF Publishing
      <4> QED
        BY <3>1, <4>1, OneMore
    <3> QED
      BY <1>1, <1>4, <2>1, <2>2, <2>3, <3>2
  <2>4. CASE i # o \/ j # p
    <3>1. Publishing(i, j)' = Publishing(i, j)
      BY <1>1, <2>4 DEF Publishing
    <3> QED
      BY <1>1, <1>4, <2>2, <2>4, <3>1
  <2> QED
    BY <2>3, <2>4
<1>6. ASSUME NEW j \in Parts PROVE LinesOf(j)' + Cardinality(Adding(j)') <= HandedOf(j)'
  <2>1. Adding(j)' = Adding(j)
    BY <1>1 DEF Adding
  <2>2. LinesOf(j)' = LinesOf(j) /\ HandedOf(j)' = HandedOf(j)
    BY <1>1, LinesKept DEF LinesIn, HandedOf, Ids
  <2> QED
    BY <2>1, <2>2 DEF OffersInv
<1> QED
  BY <1>5, <1>6 DEF OffersInv, Ids

(* A message published, or lost: its request owes it no more.              *)
LEMMA PublishShortageOffers ==
  ASSUME Types, OffersInv, NEW r \in Requests, PublishShortage(r)
  PROVE  OffersInv'
<1> DEFINE o == req[r].order
           p == req[r].part
<1>1. /\ req \in [Requests -> RequestType] /\ req[r].at = "publish"
      /\ \A q \in Requests \ {r} : req'[q] = req[q]
      /\ req'[r].at = "sync"
      /\ UNCHANGED <<created, handed, po>>
  BY DEF Types, RequestsOK, RequestType, PublishShortage, database, scm
<1>2. o \in Ids /\ p \in Parts
  BY <1>1, OrderAt DEF Types, RequestsOK, RequestType, Serving
<1>3. /\ offered \in [Ids -> [Parts -> Nat]]
      /\ offered' = offered \/ offered' = [offered EXCEPT ![o][p] = @ + 1]
  BY DEF Types, OthersOK, PublishShortage
<1>4. r \in Publishing(o, p)
  BY <1>1 DEF Publishing
<1> HIDE DEF o, p
<1>5. /\ offered'[o][p] = offered[o][p] \/ offered'[o][p] = offered[o][p] + 1
      /\ \A i \in Ids, j \in Parts : i # o \/ j # p => offered'[i][j] = offered[i][j]
  BY <1>2, <1>3, CountedOne
<1>6. ASSUME NEW j \in Parts, NEW i \in Ids
      PROVE  offered'[i][j] + Cardinality(Publishing(i, j)') <= created'[i][j]
  <2>1. offered[i][j] \in Nat /\ created[i][j] \in Nat
    BY DEF Types, TablesOK, OthersOK
  <2>2. offered[i][j] + Cardinality(Publishing(i, j)) <= created[i][j]
    BY DEF OffersInv
  <2>3. CASE i = o /\ j = p
    <3>1. /\ Publishing(i, j) = Publishing(i, j)' \cup {r} /\ r \notin Publishing(i, j)'
          /\ Publishing(i, j)' \in SUBSET Requests
      BY <1>1, <1>4, <2>3 DEF Publishing
    <3>2. Cardinality(Publishing(i, j)') \in Nat /\ Cardinality(Publishing(i, j)) = Cardinality(Publishing(i, j)') + 1
      BY <3>1, OneMore
    <3> QED
      BY <1>1, <1>5, <2>1, <2>2, <2>3, <3>2
  <2>4. CASE i # o \/ j # p
    <3>1. Publishing(i, j)' \subseteq Publishing(i, j) /\ Publishing(i, j) \subseteq Requests
      BY <1>1 DEF Publishing
    <3>2. /\ Cardinality(Publishing(i, j)') \in Nat /\ Cardinality(Publishing(i, j)) \in Nat
          /\ Cardinality(Publishing(i, j)') <= Cardinality(Publishing(i, j))
      BY <3>1, Fewer
    <3> QED
      BY <1>1, <1>5, <2>1, <2>2, <2>4, <3>2
  <2> QED
    BY <2>3, <2>4
<1>7. ASSUME NEW j \in Parts PROVE LinesOf(j)' + Cardinality(Adding(j)') <= HandedOf(j)'
  <2>1. Adding(j)' = Adding(j)
    BY <1>1 DEF Adding
  <2>2. LinesOf(j)' = LinesOf(j) /\ HandedOf(j)' = HandedOf(j)
    BY <1>1, LinesKept DEF LinesIn, HandedOf, Ids
  <2> QED
    BY <2>1, <2>2 DEF OffersInv
<1> QED
  BY <1>6, <1>7 DEF OffersInv, Ids

(* A hand-off offers a shortage: its request owes one line more.           *)
LEMMA OfferShortageOffers ==
  ASSUME Types, OffersInv, NEW r \in Requests, OfferShortage(r)
  PROVE  OffersInv'
<1> DEFINE o == req[r].order
<1>1. PICK p \in req[r].todo : /\ handed' = [handed EXCEPT ![o][p] = @ + 1]
                               /\ req' = [req EXCEPT ![r].at = "line", ![r].part = p]
  BY DEF OfferShortage
<1>2. /\ req \in [Requests -> RequestType] /\ req[r].at = "offer"
      /\ UNCHANGED <<created, offered, po>>
  BY DEF Types, RequestsOK, OfferShortage, database, scm
<1>3. /\ \A q \in Requests \ {r} : req'[q] = req[q]
      /\ req'[r].at = "line" /\ req'[r].part = p
  BY <1>1, <1>2 DEF RequestType
<1>4. o \in Ids /\ p \in Parts
  BY <1>2, OrderAt DEF RequestType
<1>5. handed \in [Ids -> [Parts -> Nat]]
  BY DEF Types, OthersOK
<1> HIDE DEF o
<1>6. /\ handed'[o][p] = handed[o][p] + 1
      /\ \A i \in Ids, j \in Parts : i # o \/ j # p => handed'[i][j] = handed[i][j]
  BY <1>1, <1>4, <1>5, CountedOne
<1>7. ASSUME NEW j \in Parts, NEW i \in Ids
      PROVE  offered'[i][j] + Cardinality(Publishing(i, j)') <= created'[i][j]
  <2>1. Publishing(i, j)' = Publishing(i, j)
    BY <1>2, <1>3 DEF Publishing
  <2> QED
    BY <1>2, <2>1 DEF OffersInv
<1>8. ASSUME NEW j \in Parts PROVE LinesOf(j)' + Cardinality(Adding(j)') <= HandedOf(j)'
  <2>1. LinesOf(j)' = LinesOf(j)
    BY <1>2, LinesKept DEF LinesIn
  <2>2. LinesOf(j) \in Nat /\ HandedOf(j) \in Nat /\ LinesOf(j) + Cardinality(Adding(j)) <= HandedOf(j)
    BY SumsFinite DEF OffersInv
  <2>3. CASE j # p
    <3>1. Adding(j)' = Adding(j)
      BY <1>2, <1>3, <2>3 DEF Adding
    <3>2. [i \in Ids |-> handed'[i][j]] = [i \in Ids |-> handed[i][j]]
      BY <1>6, <2>3
    <3>3. HandedOf(j)' = HandedOf(j)
      <4>1. \A f, g : f = g => SumFunctionOnSet(f, Ids) = SumFunctionOnSet(g, Ids)
        OBVIOUS
      <4> QED
        BY <3>2, <4>1 DEF HandedOf, Ids
    <3> QED
      BY <2>1, <2>2, <3>1, <3>3
  <2>4. CASE j = p
    <3>1. Adding(j)' = Adding(j) \cup {r} /\ r \notin Adding(j) /\ Adding(j) \in SUBSET Requests
      BY <1>2, <1>3, <2>4 DEF Adding
    <3>2. Cardinality(Adding(j)) \in Nat /\ Cardinality(Adding(j)') = Cardinality(Adding(j)) + 1
      BY <3>1, OneMore
    <3> DEFINE f == [i \in Ids |-> handed[i][j]]
               g == [i \in Ids |-> handed'[i][j]]
    <3>3. /\ \A i \in Ids : f[i] \in Nat /\ g[i] \in Nat
          /\ \A i \in Ids \ {o} : g[i] = f[i]
          /\ g[o] = f[o] + 1 /\ f[o] \in Nat
      <4>1. \A i \in Ids : handed[i][j] \in Nat
        BY SumsFinite
      <4> QED
        BY <1>4, <1>6, <2>4, <4>1
    <3>4. HandedOf(j) = SumFunctionOnSet(f, Ids) /\ HandedOf(j)' = SumFunctionOnSet(g, Ids)
      BY DEF HandedOf, Ids
    <3> HIDE DEF f, g
    <3>5. HandedOf(j)' = HandedOf(j) + (g[o] - f[o])
      BY <1>4, <3>3, <3>4, SumsFinite, SumChange
    <3> QED
      BY <2>1, <2>2, <3>2, <3>3, <3>5
  <2> QED
    BY <2>3, <2>4
<1> QED
  BY <1>7, <1>8 DEF OffersInv, Ids

(* A line added for an offered shortage: its request owes it no more.      *)
LEMMA AddLineItemWithLockOffers ==
  ASSUME Types, OffersInv, NEW r \in Requests, AddLineItemWithLock(r)
  PROVE  OffersInv'
<1> PICK n, p : n = req[r].num /\ p = req[r].part
  OBVIOUS
<1>1. /\ req \in [Requests -> RequestType] /\ req[r].at = "line"
      /\ UNCHANGED <<created, offered, handed>>
  BY DEF Types, RequestsOK, AddLineItemWithLock, database
<1>2. \A q \in Requests : OffersNoMore(req[q], req'[q])
  <2>1. ~(\E j \in Parts : CreateShortageLog(r, j)) /\ ~OfferShortage(r) /\ ~FindPOByVendor(r)
    BY <1>1 DEF CreateShortageLog, OfferShortage, FindPOByVendor
  <2> QED
    BY <2>1, StepsOweNoMore DEF Step, NoMore
<1>3. n \in PONumbers /\ p \in Parts /\ po[n] \in PurchaseOrder /\ po[n] # None
  BY AddLineItemWithLockReq DEF Existing, Types, OthersOK
<1>4. po' = [po EXCEPT ![n] = [po[n] EXCEPT !.lines = [po[n].lines EXCEPT ![p] = po[n].lines[p] + 1]]]
  BY AddLineItemWithLockOthers
<1>5. req'[r].at # "line" \/ req'[r].part # p
  BY <1>1 DEF AddLineItemWithLock, AfterHandoff, Idle, RequestType
<1>6. r \in Adding(p) /\ r \notin Adding(p)' /\ Adding(p)' \subseteq Adding(p)
  BY <1>1, <1>2, <1>5 DEF Adding, OffersNoMore
<1>7. /\ \A m \in PONumbers, j \in Parts : m # n \/ j # p => LinesIn(m, j)' = LinesIn(m, j)
      /\ LinesIn(n, p)' = LinesIn(n, p) + 1 /\ LinesIn(n, p) \in Nat
  <2> DEFINE x == [po[n] EXCEPT !.lines = [po[n].lines EXCEPT ![p] = po[n].lines[p] + 1]]
  <2>1. x \in PurchaseOrder /\ x # None
    BY <1>3, NoneAssumption DEF PurchaseOrder
  <2>2. \A j \in Parts : x.lines[j] = IF j = p THEN po[n].lines[j] + 1 ELSE po[n].lines[j]
    BY <1>3 DEF PurchaseOrder
  <2>3. po' = [po EXCEPT ![n] = x] /\ po[n].lines[p] \in Nat
    BY <1>3, <1>4 DEF PurchaseOrder
  <2> HIDE DEF x
  <2> QED
    BY <1>3, <2>1, <2>2, <2>3 DEF LinesIn, Types, OthersOK
<1>8. ASSUME NEW j \in Parts, NEW i \in Ids
      PROVE  offered'[i][j] + Cardinality(Publishing(i, j)') <= created'[i][j]
  <2>1. Publishing(i, j)' \subseteq Publishing(i, j) /\ Publishing(i, j) \subseteq Requests
    BY <1>2 DEF Publishing, OffersNoMore
  <2>2. /\ Cardinality(Publishing(i, j)') \in Nat /\ Cardinality(Publishing(i, j)) \in Nat
        /\ Cardinality(Publishing(i, j)') <= Cardinality(Publishing(i, j))
    BY <2>1, Fewer
  <2>3. offered[i][j] \in Nat /\ created[i][j] \in Nat
    BY DEF Types, TablesOK, OthersOK
  <2>4. offered[i][j] + Cardinality(Publishing(i, j)) <= created[i][j]
    BY DEF OffersInv
  <2> QED
    BY <1>1, <2>2, <2>3, <2>4
<1>9. ASSUME NEW j \in Parts PROVE LinesOf(j)' + Cardinality(Adding(j)') <= HandedOf(j)'
  <2>1. HandedOf(j)' = HandedOf(j)
    BY <1>1 DEF HandedOf, Ids
  <2>2. LinesOf(j) \in Nat /\ HandedOf(j) \in Nat /\ LinesOf(j) + Cardinality(Adding(j)) <= HandedOf(j)
    BY SumsFinite DEF OffersInv
  <2>3. CASE j # p
    <3>1. Adding(j)' \subseteq Adding(j) /\ Adding(j) \subseteq Requests
      BY <1>2 DEF Adding, OffersNoMore
    <3>2. /\ Cardinality(Adding(j)') \in Nat /\ Cardinality(Adding(j)) \in Nat
          /\ Cardinality(Adding(j)') <= Cardinality(Adding(j))
      BY <3>1, Fewer
    <3>3. LinesOf(j)' = LinesOf(j)
      BY <1>7, <2>3, LinesKept
    <3> QED
      BY <2>1, <2>2, <3>2, <3>3
  <2>4. CASE j = p
    <3>1. /\ Adding(j) \ {r} \in SUBSET Requests /\ Adding(j) = (Adding(j) \ {r}) \cup {r}
          /\ Adding(j)' \subseteq Adding(j) \ {r}
      BY <1>6, <2>4 DEF Adding
    <3>2. Cardinality(Adding(j) \ {r}) \in Nat /\ Cardinality(Adding(j)) = Cardinality(Adding(j) \ {r}) + 1
      BY <3>1, OneMore
    <3>3. Cardinality(Adding(j)') \in Nat /\ Cardinality(Adding(j)') <= Cardinality(Adding(j) \ {r})
      BY <3>1, Fewer
    <3> DEFINE f == [m \in PONumbers |-> LinesIn(m, j)]
               g == [m \in PONumbers |-> LinesIn(m, j)']
    <3>4. /\ \A m \in PONumbers : f[m] \in Nat /\ g[m] \in Nat
          /\ \A m \in PONumbers \ {n} : g[m] = f[m]
          /\ g[n] = f[n] + 1 /\ f[n] \in Nat
      <4>1. \A m \in PONumbers : LinesIn(m, j) \in Nat
        BY SumsFinite
      <4>2. \A m \in PONumbers : LinesIn(m, j)' \in Nat
        BY <1>7, <2>4, <4>1
      <4> QED
        BY <1>3, <1>7, <2>4, <4>1, <4>2
    <3>5. LinesOf(j) = SumFunctionOnSet(f, PONumbers) /\ LinesOf(j)' = SumFunctionOnSet(g, PONumbers)
      BY DEF LinesOf, LinesIn, PONumbers
    <3> HIDE DEF f, g
    <3>6. LinesOf(j)' = LinesOf(j) + (g[n] - f[n])
      BY <1>3, <3>4, <3>5, SumsFinite, SumChange
    <3> QED
      BY <2>1, <2>2, <3>2, <3>3, <3>4, <3>6
  <2> QED
    BY <2>3, <2>4
<1> QED
  BY <1>8, <1>9 DEF OffersInv, Ids

(* The orders keep their lines: an order that is new has none.             *)
LEMMA LinesLeft ==
  ASSUME Types,
         \/ \E r \in Requests : CreatePO(r)
         \/ \E r \in Requests : UpdatePOStatus(r)
         \/ \E v \in Vendors, n \in PONumbers : PlacePO(v, n)
         \/ \E n \in PONumbers, s \in {"Partial", "Received"} : SaveReceived(n, s)
  PROVE  \A n \in PONumbers, p \in Parts : LinesIn(n, p)' = LinesIn(n, p)
<1>1. po \in [PONumbers -> PurchaseOrder \cup {None}] /\ None \notin PurchaseOrder
  BY NoneAssumption DEF Types, OthersOK
<1>2. ASSUME NEW n \in PONumbers, NEW v \in Vendors, NEW b \in BOOLEAN,
             po[n] = None, po' = [po EXCEPT ![n] = NewPO(v, b)]
      PROVE  \A m \in PONumbers, p \in Parts : LinesIn(m, p)' = LinesIn(m, p)
  <2>1. NewPO(v, b) # None /\ \A p \in Parts : NewPO(v, b).lines[p] = 0
    <3>1. NewPO(v, b) # None
      BY NewPOSome
    <3>2. \A p \in Parts : NewPO(v, b).lines[p] = 0
      BY DEF NewPO
    <3> QED
      BY <3>1, <3>2
  <2> QED
    BY <1>1, <1>2, <2>1 DEF LinesIn
<1>3. ASSUME NEW r \in Requests, CreatePO(r)
      PROVE  \A m \in PONumbers, p \in Parts : LinesIn(m, p)' = LinesIn(m, p)
  <2>1. req[r].num \in PONumbers /\ req[r].vendor \in Vendors
    BY <1>3 DEF CreatePO, Types, RequestsOK, Serving
  <2>2. CASE UNCHANGED po
    BY <2>2 DEF LinesIn
  <2>3. CASE po[req[r].num] = None /\ po' = [po EXCEPT ![req[r].num] = NewPO(req[r].vendor, FALSE)]
    BY <1>2, <2>1, <2>3
  <2> QED
    BY <1>3, <2>2, <2>3 DEF CreatePO
<1>4. ASSUME NEW v \in Vendors, NEW n \in PONumbers, PlacePO(v, n)
      PROVE  \A m \in PONumbers, p \in Parts : LinesIn(m, p)' = LinesIn(m, p)
  BY <1>2, <1>4 DEF PlacePO
<1>6. ASSUME NEW n \in Existing, NEW s \in Status, po' = [po EXCEPT ![n] = Written(po[n], s)]
      PROVE  \A m \in PONumbers, p \in Parts : LinesIn(m, p)' = LinesIn(m, p)
  <2> DEFINE x == Written(po[n], s)
  <2>1. x \in PurchaseOrder /\ x.lines = po[n].lines /\ po[n] # None /\ x # None
    BY <1>1, <1>6, WrittenExists, WrittenOK DEF Existing
  <2>2. po' = [po EXCEPT ![n] = x]
    BY <1>6
  <2> HIDE DEF x
  <2> QED
    BY <1>1, <2>1, <2>2 DEF LinesIn
<1>5. ASSUME NEW n \in PONumbers, NEW s \in {"Partial", "Received"}, SaveReceived(n, s)
      PROVE  \A m \in PONumbers, p \in Parts : LinesIn(m, p)' = LinesIn(m, p)
  BY <1>5, <1>6 DEF SaveReceived, Existing, Status
<1>7. ASSUME NEW r \in Requests, UpdatePOStatus(r)
      PROVE  \A m \in PONumbers, p \in Parts : LinesIn(m, p)' = LinesIn(m, p)
  BY <1>6, <1>7, UpdatePOStatusReq
<1> QED
  BY <1>3, <1>4, <1>5, <1>7

(* What starts or ends a request owes nothing.                             *)
LEMMA StartsOweNoMore ==
  ASSUME Types, NEW r \in Requests,
         \/ \E e \in Events : Deliver(r, e)
         \/ \E o \in DOMAIN orders : GetReadinessByOrderID(r, o) \/ Delete(r, o) \/ GeneratePOForDeficits(r, o)
         \/ \E kind \in {"matrix", "metrics"} : LoadReadinessRows(r, kind)
         \/ GeneratePOsForShortages(r)
         \/ \E v \in Vendors : DraftByHand(r, v)
         \/ \E n \in PONumbers, s \in Status : TransitionState(r, n, s)
         \/ CallFails(r)
  PROVE  \A q \in Requests : NoMore(req[q], req'[q])
<1>1. req \in [Requests -> RequestType]
  BY DEF Types, RequestsOK
<1>2. ASSUME NEW y, req' = [req EXCEPT ![r] = y], y.at \notin {"publish", "line", "count", "create"}
      PROVE  \A q \in Requests : NoMore(req[q], req'[q])
  BY <1>1, <1>2 DEF NoMore, OffersNoMore, DraftsNoMore
<1>3. \A o : OnOrder([Idle EXCEPT !.kind = "check"], o, "explode").at = "explode"
  BY DEF OnOrder, Idle
<1>4. \A o : OnOrder([Idle EXCEPT !.kind = "handoff"], o, "explode").at = "explode"
  BY DEF OnOrder, Idle
<1>5. ASSUME \E e \in Events : Deliver(r, e) PROVE \A q \in Requests : NoMore(req[q], req'[q])
  BY <1>2, <1>5 DEF Deliver, Idle
<1>6. ASSUME \E o \in DOMAIN orders : GetReadinessByOrderID(r, o) \/ GeneratePOForDeficits(r, o)
      PROVE  \A q \in Requests : NoMore(req[q], req'[q])
  <2> DEFINE x(o) == OnOrder([Idle EXCEPT !.kind = "check"], o, "explode")
             y(o) == OnOrder([Idle EXCEPT !.kind = "handoff"], o, "explode")
  <2>1. \E o \in DOMAIN orders : req' = [req EXCEPT ![r] = x(o)] \/ req' = [req EXCEPT ![r] = y(o)]
    BY <1>6 DEF GetReadinessByOrderID, GeneratePOForDeficits, Start
  <2>2. \A o : x(o).at = "explode" /\ y(o).at = "explode"
    BY <1>3, <1>4
  <2> HIDE DEF x, y
  <2> QED
    BY <1>2, <2>1, <2>2
<1>7. ASSUME \E o \in DOMAIN orders : Delete(r, o) PROVE \A q \in Requests : NoMore(req[q], req'[q])
  BY <1>2, <1>7 DEF Delete, Start, Idle
<1>8. ASSUME \E kind \in {"matrix", "metrics"} : LoadReadinessRows(r, kind)
      PROVE  \A q \in Requests : NoMore(req[q], req'[q])
  BY <1>2, <1>8 DEF LoadReadinessRows, Start, Idle
<1>9. ASSUME GeneratePOsForShortages(r) \/ \E v \in Vendors : DraftByHand(r, v)
      PROVE  \A q \in Requests : NoMore(req[q], req'[q])
  BY <1>2, <1>9 DEF GeneratePOsForShortages, DraftByHand, TransitionState, Start, Idle
<1>10. ASSUME CallFails(r) PROVE \A q \in Requests : NoMore(req[q], req'[q])
  BY <1>2, <1>10 DEF CallFails, EndWithError, Idle
<1>11. ASSUME \E n \in PONumbers, s \in Status : TransitionState(r, n, s)
       PROVE  \A q \in Requests : NoMore(req[q], req'[q])
  BY <1>2, <1>11 DEF TransitionState, Start, Idle
<1> QED
  BY <1>5, <1>6, <1>7, <1>8, <1>9, <1>10, <1>11

(* A crash leaves requests that owe nothing.                               *)
LEMMA CrashOwesNoMore ==
  ASSUME Types, Crash
  PROVE  \A q \in Requests : NoMore(req[q], req'[q])
  BY DEF Crash, NoMore, OffersNoMore, DraftsNoMore, Idle

(* The other steps of a request leave the counts and the orders alone.     *)
LEMMA StepsOfferNothing ==
  ASSUME NEW r \in Requests, Step(r),
         ~ \E p \in Parts : CreateShortageLog(r, p),
         ~PublishShortage(r), ~OfferShortage(r), ~AddLineItemWithLock(r), ~CreatePO(r),
         ~UpdatePOStatus(r)
  PROVE  UNCHANGED <<offered, created, handed, po>>
  BY DEF Step, database, scm,
         SkipItem, PlanItem, RefuseItem, Ack, PlanAnswered, NothingToExplode,
         ListPOs, RunBOMExplosion, GetShortagesByOrderID, SyncDone, UpdateShortageLog, DeleteShortageLog,
         UpdateProductionOrderStatus, InvalidatePlanned, NextOrder, CacheReadinessRow, CacheReadinessRows, CacheReadinessMetrics,
         DeleteProductionOrder, InvalidateDeleted, BulkDone, GetOptimalSuppliers, CreateDraftPO, FindPOByVendor,
         CountPOs, LineRefused

(* A search offers nothing.                                                *)
LEMMA FindPOByVendorOwes ==
  ASSUME Types, NEW r \in Requests, FindPOByVendor(r)
  PROVE  \A q \in Requests : OffersNoMore(req[q], req'[q])
<1>1. req \in [Requests -> RequestType]
  BY DEF Types, RequestsOK
<1>2. /\ \A q \in Requests \ {r} : req'[q] = req[q]
      /\ req'[r].at \in {"idle", "count"}
  BY <1>1 DEF FindPOByVendor, Goto, Idle, RequestType
<1> QED
  BY <1>2 DEF OffersNoMore

(* Every step keeps the invariant of the offers.                           *)
LEMMA OffersStep ==
  ASSUME Types, OffersInv, Next
  PROVE  OffersInv'
<1>1. ASSUME UNCHANGED <<offered, created, handed, po>>, \A q \in Requests : OffersNoMore(req[q], req'[q])
      PROVE  OffersInv'
  BY <1>1, CalmOffers DEF LinesIn
<1>2. ASSUME NEW r \in Requests, Step(r) PROVE OffersInv'
  <2>1. CASE \E p \in Parts : CreateShortageLog(r, p)
    BY <2>1, CreateShortageLogOffers
  <2>2. CASE PublishShortage(r) \/ OfferShortage(r) \/ AddLineItemWithLock(r)
    BY <2>2, PublishShortageOffers, OfferShortageOffers, AddLineItemWithLockOffers
  <2>3. CASE CreatePO(r)
    <3>1. req[r].at = "create" /\ UNCHANGED <<offered, created, handed>>
      BY <2>3 DEF CreatePO, database
    <3>2. \A q \in Requests : OffersNoMore(req[q], req'[q])
      BY <1>2, <3>1, StepsOweNoMore DEF CreateShortageLog, OfferShortage, FindPOByVendor, NoMore
    <3> QED
      BY <2>3, <3>1, <3>2, LinesLeft, CalmOffers
  <2>5. CASE UpdatePOStatus(r)
    <3>1. req[r].at = "move" /\ UNCHANGED <<offered, created, handed>>
      BY <2>5 DEF UpdatePOStatus, database
    <3>2. \A q \in Requests : OffersNoMore(req[q], req'[q])
      BY <1>2, <3>1, StepsOweNoMore DEF CreateShortageLog, OfferShortage, FindPOByVendor, NoMore
    <3> QED
      BY <2>5, <3>1, <3>2, LinesLeft, CalmOffers
  <2>4. CASE ~((\E p \in Parts : CreateShortageLog(r, p)) \/ PublishShortage(r) \/ OfferShortage(r)
               \/ AddLineItemWithLock(r) \/ CreatePO(r) \/ UpdatePOStatus(r))
    <3>1. UNCHANGED <<offered, created, handed, po>>
      BY <1>2, <2>4, StepsOfferNothing
    <3>2. \A q \in Requests : OffersNoMore(req[q], req'[q])
      BY <1>2, <2>4, StepsOweNoMore, FindPOByVendorOwes DEF NoMore
    <3> QED
      BY <1>1, <3>1, <3>2
  <2> QED
    BY <2>1, <2>2, <2>3, <2>4, <2>5
<1>3. ASSUME NEW r \in Requests, Request(r) \/ CallFails(r) PROVE OffersInv'
  <2>1. UNCHANGED <<offered, created, handed, po>>
    BY <1>3
       DEF Request, CallFails, Deliver, GetReadinessByOrderID, Delete, GeneratePOForDeficits,
           LoadReadinessRows,
                GeneratePOsForShortages, DraftByHand, TransitionState, Start, database, scm
  <2>2. \A q \in Requests : OffersNoMore(req[q], req'[q])
    BY <1>3, StartsOweNoMore DEF Request, NoMore
  <2> QED
    BY <1>1, <2>1, <2>2
<1>4. ASSUME Crash PROVE OffersInv'
  BY <1>1, <1>4, CrashOwesNoMore DEF Crash, database, scm, NoMore
<1>5. ASSUME \/ \E o \in Ids : ExpireRow(o)
             \/ ExpireMatrix
             \/ ExpireMetrics
             \/ \E p \in Parts : ReceiveOrUse(p)
      PROVE  OffersInv'
  <2>1. UNCHANGED <<offered, created, handed, po, req>>
    BY <1>5 DEF ExpireRow, ExpireMatrix, ExpireMetrics, ReceiveOrUse, database, scm
  <2> QED
    BY <1>1, <2>1 DEF OffersNoMore
<1>6. ASSUME \/ \E v \in Vendors, n \in PONumbers : PlacePO(v, n)
             \/ \E n \in PONumbers, s \in {"Partial", "Received"} : SaveReceived(n, s)
      PROVE  OffersInv'
  <2>1. UNCHANGED <<offered, created, handed, req>>
    BY <1>6 DEF PlacePO, SaveReceived, database
  <2> QED
    BY <1>6, <2>1, LinesLeft, CalmOffers DEF OffersNoMore
<1> QED
  BY <1>2, <1>3, <1>4, <1>5, <1>6 DEF Next

(* No more deficits are offered than rows were recorded, and the orders    *)
(* hold no more lines than the hand-offs offered.                          *)
THEOREM OffersAreBacked == Spec => []OffersBacked
<1>1. Init => OffersInv
  <2> SUFFICES ASSUME Init, NEW p \in Parts
               PROVE  /\ \A o \in Ids : offered[o][p] + Cardinality(Publishing(o, p)) <= created[o][p]
                      /\ LinesOf(p) + Cardinality(Adding(p)) <= HandedOf(p)
    BY DEF OffersInv
  <2>1. /\ \A o \in Ids : Publishing(o, p) = {}
        /\ Adding(p) = {}
    BY DEF Init, Idle, Publishing, Adding
  <2>2. \A o \in Ids : offered[o][p] = 0 /\ created[o][p] = 0 /\ handed[o][p] = 0
    BY DEF Init
  <2>3. Cardinality({}) = 0
    BY FS_EmptySet
  <2>4. LinesOf(p) = 0
    <3> DEFINE f == [n \in PONumbers |-> LinesIn(n, p)]
    <3>1. \A n \in PONumbers : f[n] = 0
      BY DEF Init, LinesIn
    <3>2. LinesOf(p) = SumFunctionOnSet(f, PONumbers) /\ IsFiniteSet(PONumbers)
      BY FS_Interval, Bounds DEF LinesOf, LinesIn, PONumbers
    <3> HIDE DEF f
    <3> QED
      BY <3>1, <3>2, SumZero
  <2>5. HandedOf(p) = 0
    <3> DEFINE f == [o \in Ids |-> handed[o][p]]
    <3>1. \A o \in Ids : f[o] = 0
      BY <2>2
    <3>2. HandedOf(p) = SumFunctionOnSet(f, Ids) /\ IsFiniteSet(Ids)
      BY FS_Interval, Bounds DEF HandedOf, Ids
    <3> HIDE DEF f
    <3> QED
      BY <3>1, <3>2, SumZero
  <2> QED
    BY <2>1, <2>2, <2>3, <2>4, <2>5
<1>2. Types /\ OffersInv /\ [Next]_vars => OffersInv'
  <2>1. ASSUME Types, OffersInv, UNCHANGED vars PROVE OffersInv'
    <3>1. UNCHANGED <<offered, created, handed, po, req>>
      BY <2>1 DEF vars
    <3> QED
      BY <2>1, <3>1, CalmOffers DEF OffersNoMore, LinesIn
  <2> QED
    BY <2>1, OffersStep
<1>3. Types /\ OffersInv => OffersBacked
  <2> SUFFICES ASSUME Types, OffersInv, NEW p \in Parts
               PROVE  /\ \A o \in Ids : offered[o][p] <= created[o][p]
                      /\ LinesOf(p) <= HandedOf(p)
    BY DEF OffersBacked
  <2>1. ASSUME NEW o \in Ids PROVE offered[o][p] <= created[o][p]
    <3>1. offered[o][p] \in Nat /\ created[o][p] \in Nat
      BY DEF Types, TablesOK, OthersOK
    <3>2. Publishing(o, p) \in SUBSET Requests
      BY DEF Publishing
    <3>3. Cardinality(Publishing(o, p)) \in Nat
      BY <3>2, Fewer
    <3> QED
      BY <3>1, <3>3 DEF OffersInv
  <2>2. Adding(p) \in SUBSET Requests
    BY DEF Adding
  <2>3. Cardinality(Adding(p)) \in Nat
    BY <2>2, Fewer
  <2>4. LinesOf(p) \in Nat /\ HandedOf(p) \in Nat
    BY SumsFinite
  <2> QED
    BY <2>1, <2>3, <2>4 DEF OffersInv
<1> QED
  BY <1>1, <1>2, <1>3, TypesInvariant, PTL DEF Spec

-----------------------------------------------------------------------------
(* A request that found no open order for a vendor, and the orders drafted *)
(* and open ever since: no more of both than requests, and one for each    *)
(* failed search.                                                          *)
Found(v) == {n \in OpenPO(v) : ~po[n].placed /\ ~po[n].reopened}
Drafting(v) == {r \in Requests : req[r].at \in {"count", "create"} /\ req[r].vendor = v}
DraftsInv ==
    \A v \in Vendors : Cardinality(Found(v)) + Cardinality(Drafting(v)) <= Cardinality(Requests) + misses

(* The orders in a set are no fewer than those in a part of it.            *)
LEMMA FewerPOs ==
  ASSUME NEW T \in SUBSET PONumbers, NEW S \in SUBSET T
  PROVE  /\ IsFiniteSet(S)
         /\ Cardinality(S) \in Nat /\ Cardinality(T) \in Nat /\ Cardinality(S) <= Cardinality(T)
<1>1. IsFiniteSet(PONumbers)
  BY FS_Interval, Bounds DEF PONumbers
<1>2. IsFiniteSet(T) /\ IsFiniteSet(S)
  BY <1>1, FS_Subset
<1> QED
  BY <1>2, FS_Subset, FS_CardinalityType

(* The orders found are numbers.                                           *)
LEMMA FoundIn == \A v : Found(v) \in SUBSET PONumbers
  BY DEF Found, OpenPO

(* There are finitely many requests.                                       *)
LEMMA RequestsFinite == Cardinality(Requests) \in Nat
  BY PlanningAssumption, FS_CardinalityType

(* No order was drafted or opened again, and no request drafts that did    *)
(* not before.                                                             *)
LEMMA CalmDrafts ==
  ASSUME Types, Types', DraftsInv, misses' = misses,
         \A v \in Vendors : Found(v)' \subseteq Found(v),
         \A q \in Requests : DraftsNoMore(req[q], req'[q])
  PROVE  DraftsInv'
<1> SUFFICES ASSUME NEW v \in Vendors
             PROVE  Cardinality(Found(v)') + Cardinality(Drafting(v)') <= Cardinality(Requests) + misses'
  BY DEF DraftsInv
<1>1. Drafting(v)' \subseteq Drafting(v) /\ Drafting(v) \subseteq Requests
  BY DEF Drafting, DraftsNoMore
<1>2. /\ Cardinality(Drafting(v)') \in Nat /\ Cardinality(Drafting(v)) \in Nat
      /\ Cardinality(Drafting(v)') <= Cardinality(Drafting(v))
  BY <1>1, Fewer
<1>3. /\ Cardinality(Found(v)') \in Nat /\ Cardinality(Found(v)) \in Nat
      /\ Cardinality(Found(v)') <= Cardinality(Found(v))
  BY FoundIn, FewerPOs
<1>4. misses \in Nat /\ Cardinality(Requests) \in Nat
  BY RequestsFinite DEF Types, OthersOK
<1>5. Cardinality(Found(v)) + Cardinality(Drafting(v)) <= Cardinality(Requests) + misses
  BY DEF DraftsInv
<1> QED
  BY <1>2, <1>3, <1>4, <1>5

(* A search finds no open order, or fails: its request drafts one.         *)
LEMMA FindPOByVendorDrafts ==
  ASSUME Types, DraftsInv, NEW r \in Requests, FindPOByVendor(r)
  PROVE  DraftsInv'
<1> SUFFICES ASSUME NEW v \in Vendors
             PROVE  Cardinality(Found(v)') + Cardinality(Drafting(v)') <= Cardinality(Requests) + misses'
  BY DEF DraftsInv
<1>1. /\ req \in [Requests -> RequestType] /\ req[r].at = "find" /\ UNCHANGED po
      /\ \A q \in Requests \ {r} : req'[q] = req[q]
  BY DEF Types, RequestsOK, FindPOByVendor, Goto, scm
<1>2. Found(v)' = Found(v)
  BY <1>1 DEF Found, OpenPO
<1>3. \/ misses' = misses /\ HasOpenPO(req[r].vendor) /\ req'[r] = Idle
      \/ misses' = misses /\ ~HasOpenPO(req[r].vendor) /\ req'[r].vendor = req[r].vendor
      \/ misses' = misses + 1 /\ req'[r].vendor = req[r].vendor
  BY <1>1 DEF FindPOByVendor, Goto, RequestType
<1>4. r \notin Drafting(v) /\ Drafting(v) \in SUBSET Requests /\ Drafting(v)' \in SUBSET (Drafting(v) \cup {r})
  BY <1>1 DEF Drafting
<1>5. /\ Cardinality(Drafting(v)) \in Nat /\ Cardinality(Drafting(v)') \in Nat
      /\ Cardinality(Drafting(v)') <= Cardinality(Drafting(v)) + 1
      /\ Cardinality(Drafting(v)') <= Cardinality(Requests)
  <2>1. Cardinality(Drafting(v)) \in Nat /\ Cardinality(Drafting(v) \cup {r}) = Cardinality(Drafting(v)) + 1
    BY <1>4, OneMore
  <2>2. Drafting(v) \cup {r} \in SUBSET Requests
    BY <1>4
  <2>3. /\ Cardinality(Drafting(v)') \in Nat
        /\ Cardinality(Drafting(v)') <= Cardinality(Drafting(v) \cup {r})
    BY <1>4, <2>2, Fewer
  <2>4. Cardinality(Drafting(v)') <= Cardinality(Requests)
    <3>1. Drafting(v)' \in SUBSET Requests
      BY <1>4
    <3> QED
      BY <3>1, Fewer
  <2> QED
    BY <2>1, <2>3, <2>4
<1>6. Cardinality(Found(v)) \in Nat /\ misses \in Nat /\ Cardinality(Requests) \in Nat
  BY FoundIn, FewerPOs, RequestsFinite DEF Types, OthersOK
<1>7. Cardinality(Found(v)) + Cardinality(Drafting(v)) <= Cardinality(Requests) + misses
  BY DEF DraftsInv
<1>8. CASE misses' = misses + 1
  BY <1>2, <1>5, <1>6, <1>7, <1>8
<1>9. CASE misses' = misses /\ r \notin Drafting(v)'
  <2>1. Drafting(v)' = Drafting(v)
    BY <1>1, <1>4, <1>9 DEF Drafting
  <2> QED
    BY <1>2, <1>7, <1>9, <2>1
<1>10. CASE misses' = misses /\ r \in Drafting(v)'
  <2>1. req[r].vendor = v /\ ~HasOpenPO(v)
    BY <1>3, <1>6, <1>10 DEF Drafting, Idle
  <2>2. Found(v) = {}
    BY <2>1 DEF Found, HasOpenPO
  <2>3. Cardinality(Found(v)) = 0
    BY <2>2, FS_EmptySet
  <2> QED
    BY <1>2, <1>5, <1>6, <1>10, <2>3
<1> QED
  BY <1>3, <1>8, <1>9, <1>10

(* A request drafts the order it found missing, or finds its number taken. *)
LEMMA CreatePODrafts ==
  ASSUME Types, DraftsInv, NEW r \in Requests, CreatePO(r)
  PROVE  DraftsInv'
<1> DEFINE w == req[r].vendor
           m == req[r].num
<1> SUFFICES ASSUME NEW v \in Vendors
             PROVE  Cardinality(Found(v)') + Cardinality(Drafting(v)') <= Cardinality(Requests) + misses'
  BY DEF DraftsInv
<1>1. /\ req \in [Requests -> RequestType] /\ req[r].at = "create" /\ m \in PONumbers /\ w \in Vendors
      /\ misses' = misses /\ \A q \in Requests \ {r} : req'[q] = req[q]
  BY DEF Types, RequestsOK, Serving, CreatePO, bounds
<1>2. req'[r].at \in {"idle", "offer"}
  BY CreatePOOwes
<1>3. Drafting(v)' = Drafting(v) \ {r} /\ Drafting(v) \in SUBSET Requests /\ (r \in Drafting(v) <=> v = w)
  BY <1>1, <1>2 DEF Drafting
<1>4. Cardinality(Found(v)) \in Nat /\ misses \in Nat /\ Cardinality(Requests) \in Nat /\ IsFiniteSet(Found(v))
  BY FoundIn, FewerPOs, RequestsFinite DEF Types, OthersOK
<1>5. Cardinality(Found(v)) + Cardinality(Drafting(v)) <= Cardinality(Requests) + misses
  BY DEF DraftsInv
<1>6. /\ Cardinality(Drafting(v)) \in Nat /\ Cardinality(Drafting(v)') \in Nat
      /\ Cardinality(Drafting(v)') <= Cardinality(Drafting(v))
  BY <1>3, Fewer
<1>7. UNCHANGED po \/ (po[m] = None /\ po' = [po EXCEPT ![m] = NewPO(w, FALSE)])
  BY DEF CreatePO
<1> HIDE DEF w, m
<1>8. CASE UNCHANGED po
  <2>1. Found(v)' = Found(v)
    BY <1>8 DEF Found, OpenPO
  <2> QED
    BY <1>1, <1>4, <1>5, <1>6, <2>1
<1>9. CASE po[m] = None /\ po' = [po EXCEPT ![m] = NewPO(w, FALSE)]
  <2> DEFINE x == NewPO(w, FALSE)
  <2>1. x # None /\ x.vendor = w
    BY <1>1, NewPOSome DEF NewPO
  <2> HIDE DEF x
  <2>2. \A n \in PONumbers \ {m} : po'[n] = po[n]
    BY <1>9 DEF Types, OthersOK
  <2>3. po'[m] = x
    BY <1>1, <1>9 DEF Types, OthersOK, x
  <2>4. m \notin Found(v)
    BY <1>9 DEF Found, OpenPO
  <2>5. CASE v = w
    <3>1. Found(v)' \subseteq Found(v) \cup {m}
      BY <2>2 DEF Found, OpenPO
    <3>2. Cardinality(Found(v) \cup {m}) = Cardinality(Found(v)) + 1
      BY <1>4, <2>4, FS_AddElement
    <3>3. Cardinality(Found(v)') \in Nat /\ Cardinality(Found(v)') <= Cardinality(Found(v)) + 1
      <4>1. Found(v) \cup {m} \in SUBSET PONumbers
        BY <1>1, FoundIn
      <4> QED
        BY <3>1, <3>2, <4>1, FewerPOs
    <3>4. Cardinality(Drafting(v)) = Cardinality(Drafting(v)') + 1
      <4>1. Drafting(v)' \in SUBSET Requests /\ r \in Requests \ Drafting(v)' /\ Drafting(v) = Drafting(v)' \cup {r}
        BY <1>3, <2>5
      <4> QED
        BY <4>1, OneMore
    <3> QED
      BY <1>1, <1>4, <1>5, <1>6, <3>3, <3>4
  <2>6. CASE v # w
    <3>1. Found(v)' \subseteq Found(v)
      BY <2>1, <2>2, <2>3, <2>6 DEF Found, OpenPO
    <3>2. Cardinality(Found(v)') \in Nat /\ Cardinality(Found(v)') <= Cardinality(Found(v))
      BY <3>1, FoundIn, FewerPOs
    <3> QED
      BY <1>1, <1>4, <1>5, <1>6, <3>2
  <2> QED
    BY <2>5, <2>6
<1> QED
  BY <1>7, <1>8, <1>9

(* A write of a status drafts nothing: an order it opens is reopened.      *)
LEMMA WrittenDrafts ==
  ASSUME Types, NEW n \in Existing, NEW s \in Status, po' = [po EXCEPT ![n] = Written(po[n], s)]
  PROVE  \A v \in Vendors : Found(v)' \subseteq Found(v)
<1> DEFINE x == Written(po[n], s)
<1>1. /\ po \in [PONumbers -> PurchaseOrder \cup {None}] /\ n \in PONumbers /\ po[n] # None
      /\ po[n] \in PurchaseOrder
  BY WrittenExists DEF Types, OthersOK, Existing
<1>2. /\ x.vendor = po[n].vendor /\ x.placed = po[n].placed /\ x.status = s
      /\ x.reopened = (po[n].reopened \/ (s \in OpenStatus /\ po[n].status \notin OpenStatus))
  BY <1>1, WrittenOK
<1>3. po' = [po EXCEPT ![n] = x]
  OBVIOUS
<1> HIDE DEF x
<1>4. po'[n] = x /\ \A m \in PONumbers \ {n} : po'[m] = po[m]
  BY <1>1, <1>3
<1>5. ASSUME NEW v \in Vendors, NEW m \in Found(v)' PROVE m \in Found(v)
  <2>1. CASE m = n
    BY <1>1, <1>2, <1>4, <1>5, <2>1 DEF Found, OpenPO
  <2>2. CASE m # n
    BY <1>4, <1>5, <2>2 DEF Found, OpenPO
  <2> QED
    BY <2>1, <2>2
<1> QED
  BY <1>5


(* Others open no order for a draft.                                       *)
LEMMA PurchasesDrafts ==
  ASSUME Types,
         \/ \E v \in Vendors, n \in PONumbers : PlacePO(v, n)
         \/ \E n \in PONumbers, s \in {"Partial", "Received"} : SaveReceived(n, s)
  PROVE  \A v \in Vendors : Found(v)' \subseteq Found(v)
<1>1. po \in [PONumbers -> PurchaseOrder \cup {None}]
  BY DEF Types, OthersOK
<1>2. ASSUME NEW w \in Vendors, NEW n \in PONumbers, PlacePO(w, n)
      PROVE  \A v \in Vendors : Found(v)' \subseteq Found(v)
  <2>1. po' = [po EXCEPT ![n] = NewPO(w, TRUE)] /\ NewPO(w, TRUE).placed
    BY <1>2 DEF PlacePO, NewPO
  <2> QED
    BY <1>1, <2>1 DEF Found, OpenPO
<1>3. ASSUME NEW n \in PONumbers, NEW s \in {"Partial", "Received"}, SaveReceived(n, s)
      PROVE  \A v \in Vendors : Found(v)' \subseteq Found(v)
  BY <1>3, WrittenDrafts DEF SaveReceived, Existing, Status
<1> QED
  BY <1>2, <1>3

(* The other steps of a request draft nothing.                             *)
LEMMA StepsDraftNothing ==
  ASSUME NEW r \in Requests, Step(r), ~FindPOByVendor(r), ~AddLineItemWithLock(r), ~CreatePO(r),
         ~UpdatePOStatus(r)
  PROVE  UNCHANGED <<po, misses>>
  BY DEF Step, scm, bounds,
         SkipItem, PlanItem, RefuseItem, Ack, PlanAnswered, NothingToExplode,
         ListPOs, RunBOMExplosion, GetShortagesByOrderID, CreateShortageLog, PublishShortage, SyncDone,
         UpdateShortageLog, DeleteShortageLog, UpdateProductionOrderStatus, InvalidatePlanned, NextOrder, CacheReadinessRow,
         CacheReadinessRows, CacheReadinessMetrics, DeleteProductionOrder, InvalidateDeleted, BulkDone, GetOptimalSuppliers,
         CreateDraftPO, CountPOs, OfferShortage, LineRefused

(* A line opens no order.                                                  *)
LEMMA AddLineItemWithLockDrafts ==
  ASSUME Types, NEW r \in Requests, AddLineItemWithLock(r)
  PROVE  misses' = misses /\ \A v \in Vendors : Found(v)' \subseteq Found(v)
<1> DEFINE n == req[r].num
           x == [po[n] EXCEPT !.lines = [po[n].lines EXCEPT ![req[r].part] = po[n].lines[req[r].part] + 1]]
<1>1. po' = [po EXCEPT ![n] = x]
  BY AddLineItemWithLockOthers
<1>2. n \in Existing
  BY AddLineItemWithLockReq
<1>3. x.vendor = po[n].vendor /\ x.placed = po[n].placed /\ x.status = po[n].status
      /\ x.reopened = po[n].reopened
  BY <1>2 DEF Existing, Types, OthersOK, PurchaseOrder
<1> HIDE DEF x, n
<1>4. \A v \in Vendors : Found(v)' \subseteq Found(v)
  BY <1>1, <1>2, <1>3 DEF Found, OpenPO, Existing, Types, OthersOK
<1> QED
  BY <1>4 DEF AddLineItemWithLock, bounds

(* A request that owes no more drafts no more.                             *)
LEMMA OwedDrafts ==
  ASSUME Types, NEW r \in Requests, Step(r), ~FindPOByVendor(r)
  PROVE  \A q \in Requests : DraftsNoMore(req[q], req'[q])
<1>1. CASE (\E p \in Parts : CreateShortageLog(r, p)) \/ OfferShortage(r)
  <2>1. req \in [Requests -> RequestType]
    BY DEF Types, RequestsOK
  <2>2. CASE \E p \in Parts : CreateShortageLog(r, p)
    <3>1. req'[r].at = "publish"
      BY <2>1, <2>2 DEF CreateShortageLog, RequestType
    <3> QED
      BY <3>1, StepAlone DEF DraftsNoMore
  <2>3. CASE OfferShortage(r)
    <3>1. req'[r].at = "line"
      BY <2>1, <2>3 DEF OfferShortage, RequestType
    <3> QED
      BY <3>1, StepAlone DEF DraftsNoMore
  <2> QED
    BY <1>1, <2>2, <2>3
<1> QED
  BY <1>1, StepsOweNoMore DEF NoMore

(* Every step keeps the invariant of the drafts.                           *)
LEMMA DraftsStep ==
  ASSUME Types, Types', DraftsInv, Next
  PROVE  DraftsInv'
<1>1. ASSUME UNCHANGED <<po, misses>>, \A q \in Requests : DraftsNoMore(req[q], req'[q])
      PROVE  DraftsInv'
  BY <1>1, CalmDrafts DEF Found, OpenPO
<1>2. ASSUME NEW r \in Requests, Step(r) PROVE DraftsInv'
  <2>1. CASE FindPOByVendor(r) \/ CreatePO(r)
    BY <2>1, FindPOByVendorDrafts, CreatePODrafts
  <2>2. CASE ~FindPOByVendor(r) /\ AddLineItemWithLock(r)
    BY <1>2, <2>2, AddLineItemWithLockDrafts, OwedDrafts, CalmDrafts
  <2>3. CASE UpdatePOStatus(r)
    <3>1. misses' = misses /\ ~FindPOByVendor(r)
      BY <2>3 DEF UpdatePOStatus, bounds, FindPOByVendor
    <3>2. \A v \in Vendors : Found(v)' \subseteq Found(v)
      BY <2>3, UpdatePOStatusReq, WrittenDrafts
    <3> QED
      BY <1>2, <3>1, <3>2, OwedDrafts, CalmDrafts
  <2>4. CASE ~(FindPOByVendor(r) \/ CreatePO(r) \/ AddLineItemWithLock(r) \/ UpdatePOStatus(r))
    BY <1>1, <1>2, <2>4, StepsDraftNothing, OwedDrafts
  <2> QED
    BY <2>1, <2>2, <2>3, <2>4
<1>3. ASSUME NEW r \in Requests, Request(r) \/ CallFails(r) PROVE DraftsInv'
  <2>1. UNCHANGED <<po, misses>>
    BY <1>3
       DEF Request, CallFails, Deliver, GetReadinessByOrderID, Delete, GeneratePOForDeficits,
           LoadReadinessRows,
                GeneratePOsForShortages, DraftByHand, TransitionState, Start, scm, bounds
  <2>2. \A q \in Requests : DraftsNoMore(req[q], req'[q])
    BY <1>3, StartsOweNoMore DEF Request, NoMore
  <2> QED
    BY <1>1, <2>1, <2>2
<1>4. ASSUME Crash PROVE DraftsInv'
  BY <1>1, <1>4, CrashOwesNoMore DEF Crash, scm, NoMore
<1>5. ASSUME \/ \E o \in Ids : ExpireRow(o)
             \/ ExpireMatrix
             \/ ExpireMetrics
             \/ \E p \in Parts : ReceiveOrUse(p)
      PROVE  DraftsInv'
  <2>1. UNCHANGED <<po, misses, req>>
    BY <1>5 DEF ExpireRow, ExpireMatrix, ExpireMetrics, ReceiveOrUse, scm, bounds
  <2> QED
    BY <1>1, <2>1 DEF DraftsNoMore
<1>6. ASSUME \/ \E v \in Vendors, n \in PONumbers : PlacePO(v, n)
             \/ \E n \in PONumbers, s \in {"Partial", "Received"} : SaveReceived(n, s)
      PROVE  DraftsInv'
  <2>1. UNCHANGED <<misses, req>>
    BY <1>6 DEF PlacePO, SaveReceived
  <2> QED
    BY <1>6, <2>1, PurchasesDrafts, CalmDrafts DEF DraftsNoMore
<1> QED
  BY <1>2, <1>3, <1>4, <1>5, <1>6 DEF Next

(* Requests that overlap open one order for a vendor each at most, and one *)
(* more for each failed search, those placed unseen and those a later      *)
(* write of the status opened again aside.                                 *)
THEOREM OpenPOsAreBounded == Spec => []OpenPOsBounded
<1>1. Init => DraftsInv
  <2> SUFFICES ASSUME Init, NEW v \in Vendors
               PROVE  Cardinality(Found(v)) + Cardinality(Drafting(v)) <= Cardinality(Requests) + misses
    BY DEF DraftsInv
  <2>1. Found(v) = {} /\ Drafting(v) = {} /\ misses = 0
    BY DEF Init, Idle, Found, OpenPO, Drafting
  <2> QED
    BY <2>1, FS_EmptySet, RequestsFinite
<1>2. Types /\ Types' /\ DraftsInv /\ [Next]_vars => DraftsInv'
  <2>1. ASSUME Types, Types', DraftsInv, UNCHANGED vars PROVE DraftsInv'
    <3>1. UNCHANGED <<po, misses, req>>
      BY <2>1 DEF vars
    <3> QED
      BY <2>1, <3>1, CalmDrafts DEF DraftsNoMore, Found, OpenPO
  <2> QED
    BY <2>1, DraftsStep
<1>3. Types /\ DraftsInv => OpenPOsBounded
  <2> SUFFICES ASSUME Types, DraftsInv, NEW v \in Vendors
               PROVE  Cardinality(Found(v)) <= Cardinality(Requests) + misses
    BY DEF OpenPOsBounded, Found
  <2>1. Drafting(v) \in SUBSET Requests
    BY DEF Drafting
  <2>2. Cardinality(Drafting(v)) \in Nat /\ Cardinality(Found(v)) \in Nat
    BY <2>1, Fewer, FoundIn, FewerPOs
  <2>3. misses \in Nat /\ Cardinality(Requests) \in Nat
    BY RequestsFinite DEF Types, OthersOK
  <2> QED
    BY <2>2, <2>3 DEF DraftsInv
<1> QED
  BY <1>1, <1>2, <1>3, TypesInvariant, PTL DEF Spec

-----------------------------------------------------------------------------
(* The status of an order and its rows.  While one request works on an     *)
(* order, what it still has to write tells how far the two may differ.     *)
Agrees(o) == (orders[o].status = SHORTAGE) <=> \E p \in Parts : rows[o][p] # {}
Recorded(x, p) == (rows[x.order][p] # {}) <=> p \in Short(x.results)
Synced(x) ==
    \A p \in Parts :
      IF p \notin x.todo THEN Recorded(x, p)
      ELSE IF x.at = "publish" /\ p = x.part THEN p \in Short(x.results) /\ rows[x.order][p] # {}
      ELSE (rows[x.order][p] # {}) <=> (x.seen[p] # 0)
Explodes(x) == \A p \in Parts : (x.results[p] # None) <=> p \in BOM(orders[x.order].build)
Working(x) ==
    /\ x.kind \in {"handoff", "bulk"} => Agrees(x.order)
    /\ x.kind = "plan" /\ x.at \in {"explode", "stock", "logs"} => \A p \in Parts : rows[x.order][p] = {}
    /\ x.kind = "plan" /\ x.at \notin {"invalidate", "answer"} => x.old = orders[x.order].status
    /\ x.at \in {"explode", "stock", "status"} /\ x.kind \in {"check", "matrix", "metrics"}
         => x.old = orders[x.order].status
    /\ x.at \in {"logs", "sync", "publish", "status", "cache", "invalidate", "answer"} => Explodes(x)
    /\ (x.at \in {"logs", "sync", "publish", "cache"} /\ x.kind # "plan") \/ x.at \in {"invalidate", "answer"}
         => orders[x.order].status = deriveReadinessStatus(x.results)
    /\ x.at \in {"sync", "publish"} => Synced(x)
    /\ (x.at = "status" /\ x.kind = "plan") \/ x.at \in {"cache", "invalidate", "answer"}
         => \A p \in Parts : Recorded(x, p)
    /\ x.at # "forget"
Watched(o) == o \in alone \cap DOMAIN orders /\ Exists(o)
InBOM(o) == \A p \in Parts \ BOM(orders[o].build) : rows[o][p] = {}
Free(o) == \A r \in Requests : req[r].order # o
AgreesInv ==
    /\ \A o \in Ids \ DOMAIN orders, p \in Parts : rows[o][p] = {}
    /\ \A q, r \in Requests : req[q].order \in alone /\ req[q].order = req[r].order => q = r
    /\ \A o \in Ids : Watched(o) => InBOM(o) /\ (Free(o) => Agrees(o))
    /\ \A r \in Requests : Watched(req[r].order) => Working(req[r])
    /\ \A r \in Requests : req[r].at = "plan" => req[r].old = CLEAR

(* A request works on an order that was created, or on none.               *)
LEMMA OrderOrNone ==
  ASSUME Types, NEW r \in Requests
  PROVE  /\ req[r].order \in DOMAIN orders \/ req[r].order = 0
         /\ req[r].kind \in {"draft", "state"} \/ req[r].at \in {"idle", "plan", "next", "metrics"} => req[r].order = 0
         /\ 0 \notin DOMAIN orders /\ 0 \notin Ids /\ 0 \notin alone /\ DOMAIN orders \subseteq Ids /\ alone \subseteq Ids
<1>1. Serving(req[r], DOMAIN orders, Existing)
  BY DEF Types, RequestsOK
<1>2. 0 \notin Ids /\ DOMAIN orders \subseteq Ids /\ alone \subseteq Ids
  BY OpenIds, Bounds DEF Ids, Types, OthersOK
<1> QED
  BY <1>1, <1>2 DEF Serving, OnAnOrder

(* What a request is for follows from where it stands.                     *)
LEMMA KindAt ==
  ASSUME Types, NEW r \in Requests
  PROVE  /\ req[r].at \in {"logs", "sync", "publish", "status"} => req[r].kind \in {"plan", "check", "matrix", "metrics"}
         /\ req[r].at = "cache" => req[r].kind \in {"check", "matrix", "metrics"}
         /\ req[r].at \in {"plan", "invalidate", "answer"} => req[r].kind = "plan"
         /\ req[r].at \in {"suppliers", "draft", "offer", "line"} => req[r].kind \in {"handoff", "bulk"}
         /\ req[r].at \in {"find", "count", "create"} => req[r].kind \in {"handoff", "bulk", "draft"}
         /\ req[r].at \in {"explode", "stock"} => req[r].kind \in {"plan", "check", "matrix", "metrics", "handoff", "bulk"}
         /\ req[r].at \in {"delete", "forget"} => req[r].kind = "delete"
         /\ req[r].at = "move" => req[r].kind = "state"
<1>1. req[r].kind \in Kinds /\ req[r].at \in Places(req[r].kind)
  BY DEF Types, RequestsOK, RequestType, Serving
<1> QED
  BY <1>1 DEF Kinds, Places, Exploding, Ordering

(* The rows of an order tell its status when they are those of the last    *)
(* explosion.                                                              *)
LEMMA RecordedAgrees ==
  ASSUME NEW x, NEW o, x.order = o, orders[o].status = deriveReadinessStatus(x.results),
         \A p \in Parts : Recorded(x, p)
  PROVE  Agrees(o)
<1>1. Short(x.results) \subseteq Parts
  BY DEF Short
<1>2. orders[o].status = SHORTAGE <=> Short(x.results) # {}
  BY DEF deriveReadinessStatus, CLEAR, SHORTAGE
<1> QED
  BY <1>1, <1>2 DEF Agrees, Recorded

(* What a request has to write does not depend on the other orders.        *)
LEMMA WorkingKept ==
  ASSUME NEW x, orders'[x.order] = orders[x.order], rows'[x.order] = rows[x.order], Working(x)
  PROVE  Working(x)'
<1>1. /\ Agrees(x.order) => Agrees(x.order)'
      /\ \A p \in Parts : Recorded(x, p) => Recorded(x, p)'
      /\ Synced(x) => Synced(x)'
      /\ Explodes(x) => Explodes(x)'
  BY DEF Agrees, Recorded, Synced, Explodes
<1> QED
  BY <1>1 DEF Working

(* A step of a request that writes to the order it works on, or to none,   *)
(* and goes on with it or leaves it.                                       *)
LEMMA WorkOn ==
  ASSUME Types, AgreesInv, NEW r \in Requests, NEW o, o = req[r].order,
         alone' \subseteq alone, (DOMAIN orders)' = DOMAIN orders,
         \A i \in DOMAIN orders \ {o} : orders'[i] = orders[i],
         o = 0 \/ o \in DOMAIN orders,
         \A i \in Ids \ {o} : rows'[i] = rows[i],
         \A q \in Requests \ {r} : req'[q] = req[q],
         NEW y, y = req'[r], y.order \in {o, 0},
         y.at = "plan" => y.old = CLEAR,
         Watched(o)' => InBOM(o)' /\ IF y.order = o THEN Working(y)' ELSE Agrees(o)'
  PROVE  AgreesInv'
<1>1. 0 \notin DOMAIN orders /\ 0 \notin Ids /\ 0 \notin alone /\ DOMAIN orders \subseteq Ids /\ alone \subseteq Ids
  BY OrderOrNone
<1>2. \A i \in (Ids \ DOMAIN orders)', p \in Parts : rows'[i][p] = {}
  <2>1. \A i \in Ids \ DOMAIN orders : i # o
    BY <1>1
  <2> QED
    BY <2>1 DEF AgreesInv, Ids
<1>3. \A q, s \in Requests : req'[q].order \in alone' /\ req'[q].order = req'[s].order => q = s
  <2>1. \A q \in Requests : req'[q].order \in alone' => req'[q].order = req[q].order
    BY <1>1
  <2>2. \A q, s \in Requests : req[q].order \in alone /\ req[q].order = req[s].order => q = s
    BY DEF AgreesInv
  <2> QED
    BY <2>1, <2>2
<1>4. ASSUME NEW i, Watched(i)', i # o
      PROVE  Watched(i) /\ i \in DOMAIN orders /\ orders'[i] = orders[i] /\ rows'[i] = rows[i]
  BY <1>1, <1>4 DEF Watched, Exists
<1>5. ASSUME NEW i \in Ids, Watched(i)' PROVE InBOM(i)' /\ (Free(i)' => Agrees(i)')
  <2>1. CASE i = o
    BY <1>5, <2>1 DEF Free
  <2>2. CASE i # o
    <3>1. Watched(i) /\ orders'[i] = orders[i] /\ rows'[i] = rows[i]
      BY <1>4, <1>5, <2>2
    <3>2. InBOM(i) /\ (Free(i) => Agrees(i))
      BY <3>1 DEF AgreesInv
    <3>3. Free(i)' => Free(i)
      BY <2>2 DEF Free
    <3> QED
      BY <3>1, <3>2, <3>3 DEF InBOM, Agrees
  <2> QED
    BY <2>1, <2>2
<1>6. ASSUME NEW q \in Requests, Watched(req[q].order)' PROVE Working(req[q])'
  <2>1. CASE q = r
    <3>1. y.order = o
      BY <1>1, <1>6, <2>1 DEF Watched
    <3> QED
      BY <1>6, <2>1, <3>1
  <2>2. CASE q # r
    <3> PICK x : x = req[q]
      OBVIOUS
    <3>1. req'[q] = x /\ Watched(x.order)'
      BY <1>6, <2>2
    <3>2. x.order # o
      BY <1>1, <2>2, <3>1 DEF Watched, AgreesInv
    <3>3. Watched(x.order) /\ orders'[x.order] = orders[x.order] /\ rows'[x.order] = rows[x.order]
      BY <1>4, <3>1, <3>2
    <3>4. Working(x)
      BY <3>3 DEF AgreesInv
    <3>5. Working(x)'
      BY <3>3, <3>4, WorkingKept
    <3> QED
      BY <3>1, <3>5
  <2> QED
    BY <2>1, <2>2
<1>7. \A q \in Requests : req'[q].at = "plan" => req'[q].old = CLEAR
  BY DEF AgreesInv
<1> QED
  BY <1>2, <1>3, <1>5, <1>6, <1>7 DEF AgreesInv

(* The same when nothing is written.                                       *)
LEMMA WorkUnwritten ==
  ASSUME Types, AgreesInv, NEW r \in Requests, alone' \subseteq alone, UNCHANGED <<orders, rows>>,
         \A q \in Requests \ {r} : req'[q] = req[q],
         NEW y, y = req'[r], y.order \in {req[r].order, 0},
         y.at = "plan" => y.old = CLEAR,
         Watched(req[r].order) /\ Working(req[r]) => IF y.order = req[r].order THEN Working(y) ELSE Agrees(req[r].order)
  PROVE  AgreesInv'
<1> PICK o : o = req[r].order
  OBVIOUS
<1>1. o = 0 \/ o \in DOMAIN orders
  BY OrderOrNone
<1>2. ASSUME Watched(o)' PROVE InBOM(o)' /\ IF y.order = o THEN Working(y)' ELSE Agrees(o)'
  <2>1. Watched(o)
    BY <1>2 DEF Watched, Exists
  <2>2. InBOM(o) /\ Working(req[r])
    BY <2>1 DEF AgreesInv, Ids, Watched, Types, OthersOK
  <2>3. CASE y.order = o
    BY <2>1, <2>2, <2>3, WorkingKept DEF InBOM
  <2>4. CASE y.order # o
    BY <2>1, <2>2, <2>4 DEF InBOM, Agrees
  <2> QED
    BY <2>3, <2>4
<1> QED
  BY <1>1, <1>2, WorkOn

(* A request that takes up an order: it is the only one, or the order is   *)
(* no longer alone.                                                        *)
LEMMA OrderTaken ==
  ASSUME Types, AgreesInv, NEW r \in Requests, req[r].order = 0, UNCHANGED <<orders, rows>>,
         \A q \in Requests \ {r} : req'[q] = req[q],
         NEW y, y = req'[r], alone' \subseteq alone \ Shared(r, y.order),
         y.at = "plan" => y.old = CLEAR,
         y.order \in DOMAIN orders /\ Agrees(y.order) => Working(y)
  PROVE  AgreesInv'
<1>1. 0 \notin DOMAIN orders /\ 0 \notin Ids /\ 0 \notin alone /\ DOMAIN orders \subseteq Ids /\ alone \subseteq Ids
  BY OrderOrNone
<1>2. \A i \in (Ids \ DOMAIN orders)', p \in Parts : rows'[i][p] = {}
  BY DEF AgreesInv, Ids
<1>3. y.order \in alone' => \A q \in Requests \ {r} : req[q].order # y.order
  BY DEF Shared
<1>4. \A q, s \in Requests : req'[q].order \in alone' /\ req'[q].order = req'[s].order => q = s
  <2>1. \A q, s \in Requests : req[q].order \in alone /\ req[q].order = req[s].order => q = s
    BY DEF AgreesInv
  <2> QED
    BY <1>3, <2>1
<1>5. \A i : Watched(i)' => Watched(i) /\ i \in Ids
  BY <1>1 DEF Watched, Exists
<1>6. ASSUME NEW i \in Ids, Watched(i)' PROVE InBOM(i)' /\ (Free(i)' => Agrees(i)')
  <2>1. InBOM(i) /\ (Free(i) => Agrees(i))
    BY <1>5, <1>6 DEF AgreesInv
  <2>2. Free(i)' => Free(i)
    BY <1>1 DEF Free
  <2> QED
    BY <2>1, <2>2 DEF InBOM, Agrees
<1>7. ASSUME NEW q \in Requests, Watched(req[q].order)' PROVE Working(req[q])'
  <2> PICK x : x = req'[q]
    OBVIOUS
  <2>1. Watched(x.order)' /\ Watched(x.order)
    BY <1>5, <1>7
  <2>2. Working(x)
    <3>1. CASE q = r
      <4>1. Free(x.order)
        BY <1>1, <1>3, <2>1, <3>1 DEF Free, Watched
      <4>2. Agrees(x.order) /\ x.order \in DOMAIN orders
        BY <1>5, <2>1, <4>1 DEF AgreesInv, Watched
      <4> QED
        BY <3>1, <4>2
    <3>2. CASE q # r
      BY <2>1, <3>2 DEF AgreesInv
    <3> QED
      BY <3>1, <3>2
  <2>3. Working(x)'
    BY <2>2, WorkingKept
  <2> QED
    BY <2>3
<1>8. \A q \in Requests : req'[q].at = "plan" => req'[q].old = CLEAR
  BY DEF AgreesInv
<1> QED
  BY <1>2, <1>4, <1>6, <1>7, <1>8 DEF AgreesInv

-----------------------------------------------------------------------------
(* A hand-off and a change of a purchase order write neither orders nor    *)
(* rows: the order agrees before and after.                                *)
LEMMA OrderingSteps ==
  ASSUME Types, NEW r \in Requests,
         \/ GetOptimalSuppliers(r) \/ CreateDraftPO(r) \/ FindPOByVendor(r) \/ CountPOs(r)
         \/ CreatePO(r) \/ OfferShortage(r) \/ AddLineItemWithLock(r) \/ LineRefused(r)
         \/ UpdatePOStatus(r)
  PROVE  /\ UNCHANGED <<orders, rows, alone>>
         /\ req[r].kind \in {"handoff", "bulk"} \/ req[r].order = 0
         /\ \/ /\ req'[r].order = req[r].order /\ req'[r].kind = req[r].kind
               /\ req'[r].at \in {"draft", "find", "count", "create", "offer", "line"}
            \/ req'[r].order = 0 /\ req'[r].at \in {"idle", "next"}
<1>1. req \in [Requests -> RequestType]
  BY DEF Types, RequestsOK
<1>2. UNCHANGED <<orders, rows, alone>>
  BY DEF GetOptimalSuppliers, CreateDraftPO, FindPOByVendor, CountPOs, CreatePO, OfferShortage,
         AddLineItemWithLock, LineRefused, UpdatePOStatus, database
<1>3. req[r].at \in {"suppliers", "draft", "find", "count", "create", "offer", "line", "move"}
  BY DEF GetOptimalSuppliers, CreateDraftPO, FindPOByVendor, CountPOs, CreatePO, OfferShortage,
         AddLineItemWithLock, LineRefused, UpdatePOStatus
<1>4. req[r].kind \in {"handoff", "bulk"} \/ req[r].order = 0
  BY <1>3, KindAt, OrderOrNone
<1> DEFINE Goes(y) == /\ y.order = req[r].order /\ y.kind = req[r].kind
                      /\ y.at \in {"draft", "find", "count", "create", "offer", "line"}
           Ends(y) == y.order = 0 /\ y.at \in {"idle", "next"}
<1>5. ASSUME CreateDraftPO(r) \/ CountPOs(r) \/ OfferShortage(r) PROVE Goes(req'[r])
  <2>1. CASE CreateDraftPO(r)
    <3>1. PICK p \in req[r].todo : req' = [req EXCEPT ![r] = [req[r] EXCEPT !.at = "find", !.vendor = Supplier[p]]]
      BY <2>1 DEF CreateDraftPO
    <3> QED
      BY <1>1, <3>1 DEF RequestType
  <2>2. CASE CountPOs(r)
    <3> DEFINE n == Cardinality({i \in PONumbers : po[i] # None}) + 1
    <3>1. req' = [req EXCEPT ![r] = [req[r] EXCEPT !.at = "create", !.num = n]]
      BY <2>2 DEF CountPOs
    <3> HIDE DEF n
    <3> QED
      BY <1>1, <3>1 DEF RequestType
  <2>3. CASE OfferShortage(r)
    <3>1. PICK p \in req[r].todo : req' = [req EXCEPT ![r] = [req[r] EXCEPT !.at = "line", !.part = p]]
      BY <2>3 DEF OfferShortage
    <3> QED
      BY <1>1, <3>1 DEF RequestType
  <2> QED
    BY <1>5, <2>1, <2>2, <2>3
<1>6. ASSUME LineRefused(r) \/ UpdatePOStatus(r) PROVE Ends(req'[r])
  BY <1>1, <1>6 DEF LineRefused, UpdatePOStatus, Idle
<1>7. ASSUME NEW x, x.order = req[r].order, x.kind = req[r].kind PROVE Ends(AfterHandoff(x))
  BY DEF AfterHandoff, Idle
<1>8. ASSUME GetOptimalSuppliers(r) PROVE Goes(req'[r]) \/ Ends(req'[r])
  BY <1>1, <1>7, <1>8 DEF GetOptimalSuppliers, RequestType
<1>9. ASSUME FindPOByVendor(r) PROVE Goes(req'[r]) \/ Ends(req'[r])
  BY <1>1, <1>9 DEF FindPOByVendor, Goto, RequestType, Idle
<1>10. ASSUME CreatePO(r) PROVE Goes(req'[r]) \/ Ends(req'[r])
  <2>1. req' = [req EXCEPT ![r] = Idle] \/ req' = [req EXCEPT ![r] = [req[r] EXCEPT !.at = "offer"]]
    BY <1>10 DEF CreatePO
  <2> QED
    BY <1>1, <2>1 DEF RequestType, Idle
<1>11. ASSUME AddLineItemWithLock(r) PROVE Goes(req'[r]) \/ Ends(req'[r])
  <2> DEFINE x == [req[r] EXCEPT !.todo = req[r].todo \ {req[r].part}, !.part = None]
             y == [x EXCEPT !.at = "offer"]
             z == [x EXCEPT !.at = "draft"]
  <2>1. req'[r] = AfterHandoff(x) \/ req'[r] = y \/ req'[r] = z
    BY <1>1, <1>11 DEF AddLineItemWithLock
  <2>2. x.order = req[r].order /\ x.kind = req[r].kind /\ Goes(y) /\ Goes(z)
    BY <1>1 DEF RequestType
  <2> HIDE DEF x, y, z
  <2> QED
    BY <1>7, <2>1, <2>2
<1> QED
  BY <1>2, <1>4, <1>5, <1>6, <1>8, <1>9, <1>10, <1>11

(* The steps of a hand-off after its explosion.                            *)
LEMMA OrderingAgrees ==
  ASSUME Types, AgreesInv, NEW r \in Requests,
         \/ GetOptimalSuppliers(r) \/ CreateDraftPO(r) \/ FindPOByVendor(r) \/ CountPOs(r)
         \/ CreatePO(r) \/ OfferShortage(r) \/ AddLineItemWithLock(r) \/ LineRefused(r)
         \/ UpdatePOStatus(r)
  PROVE  AgreesInv'
<1> PICK x, y : x = req[r] /\ y = req'[r]
  OBVIOUS
<1>1. /\ UNCHANGED <<orders, rows, alone>>
      /\ x.kind \in {"handoff", "bulk"} \/ x.order = 0
      /\ \/ /\ y.order = x.order /\ y.kind = x.kind
            /\ y.at \in {"draft", "find", "count", "create", "offer", "line"}
         \/ y.order = 0 /\ y.at \in {"idle", "next"}
  BY OrderingSteps
<1>2. ASSUME Watched(x.order), Working(x) PROVE IF y.order = x.order THEN Working(y) ELSE Agrees(x.order)
  <2>1. x.kind \in {"handoff", "bulk"} /\ x.order # 0
    BY <1>1, <1>2, OrderOrNone DEF Watched
  <2>2. Agrees(x.order)
    BY <1>2, <2>1 DEF Working
  <2> QED
    BY <1>1, <2>1, <2>2 DEF Working
<1>3. \A q \in Requests \ {r} : req'[q] = req[q]
  BY StepAlone DEF Step
<1> QED
  BY <1>1, <1>2, <1>3, WorkUnwritten

(* A request without an order touches none.                                *)
LEMMA NoOrderAgrees ==
  ASSUME Types, AgreesInv, NEW r \in Requests,
         \/ \E e \in Events : Deliver(r, e)
         \/ SkipItem(r) \/ RefuseItem(r) \/ Ack(r)
         \/ BulkDone(r) \/ CacheReadinessRows(r) \/ CacheReadinessMetrics(r)
  PROVE  AgreesInv'
<1>1. req \in [Requests -> RequestType]
  BY DEF Types, RequestsOK
<1> PICK x, y : x = req[r] /\ y = req'[r]
  OBVIOUS
<1>2. x.at \in {"idle", "plan", "next", "metrics"} /\ UNCHANGED <<orders, rows, alone>>
  BY DEF Deliver, SkipItem, RefuseItem, Ack, BulkDone, CacheReadinessRows,
         CacheReadinessMetrics, database
<1>3. x.order = 0 /\ ~Watched(x.order) /\ (x.at = "plan" => x.old = CLEAR)
  BY <1>2, OrderOrNone DEF Watched, AgreesInv
<1>4. y.order = 0 /\ (y.at = "plan" => y.old = CLEAR)
  <2>1. CASE \E e \in Events : Deliver(r, e)
    <3>1. PICK e \in Events : req' = [req EXCEPT ![r] = [Idle EXCEPT !.at = "plan", !.kind = "plan", !.ev = e, !.line = 1]]
      BY <2>1 DEF Deliver
    <3> QED
      BY <1>1, <3>1 DEF Idle
  <2>2. CASE SkipItem(r)
    BY <1>1, <1>3, <2>2 DEF SkipItem, RequestType
  <2>3. CASE RefuseItem(r) \/ Ack(r) \/ BulkDone(r) \/ CacheReadinessMetrics(r)
    BY <1>1, <2>3 DEF RefuseItem, EndWithError, Ack, BulkDone, CacheReadinessMetrics, Idle
  <2>4. CASE CacheReadinessRows(r)
    BY <1>1, <1>3, <2>4 DEF CacheReadinessRows, Idle, RequestType
  <2> QED
    BY <2>1, <2>2, <2>3, <2>4
<1>5. \A q \in Requests \ {r} : req'[q] = req[q]
  BY <1>1, StepAlone DEF Step, Deliver
<1> QED
  BY <1>2, <1>3, <1>4, <1>5, WorkUnwritten

(* An order without a BOM: nothing is short.                               *)
LEMMA NothingToExplodeAgrees ==
  ASSUME Types, AgreesInv, NEW r \in Requests, NothingToExplode(r)
  PROVE  AgreesInv'
<1>1. req \in [Requests -> RequestType]
  BY DEF Types, RequestsOK
<1> PICK x, y : x = req[r] /\ y = req'[r]
  OBVIOUS
<1>2. /\ x.at = "explode" /\ UNCHANGED <<orders, rows, alone>>
      /\ ~Exists(x.order) \/ BOM(orders[x.order].build) = {}
      /\ y.at = AfterExplosion(x.kind) /\ y.results = NoResults /\ y.order = x.order /\ y.kind = x.kind /\ y.old = x.old
  BY <1>1 DEF NothingToExplode, Build, database, RequestType
<1>3. \/ x.kind = "plan" /\ y.at = "logs"
      \/ x.kind \in {"check", "matrix", "metrics"} /\ y.at = "status"
      \/ x.kind \in {"handoff", "bulk"} /\ y.at = "suppliers"
  BY <1>2, KindAt DEF AfterExplosion
<1>4. ASSUME Watched(x.order), Working(x) PROVE Working(y)
  <2>1. BOM(orders[x.order].build) = {}
    BY <1>2, <1>4 DEF Watched
  <2>2. Explodes(y)
    BY <1>2, <2>1 DEF Explodes, NoResults
  <2> QED
    BY <1>2, <1>3, <1>4, <2>2 DEF Working
<1>5. \A q \in Requests \ {r} : req'[q] = req[q]
  BY StepAlone DEF Step
<1> QED
  BY <1>2, <1>3, <1>4, <1>5, WorkUnwritten

(* What SCM fails to list changes nothing.                                 *)
LEMMA ListPOsAgrees ==
  ASSUME Types, AgreesInv, NEW r \in Requests, ListPOs(r)
  PROVE  AgreesInv'
<1>1. req \in [Requests -> RequestType]
  BY DEF Types, RequestsOK
<1> PICK x, y : x = req[r] /\ y = req'[r]
  OBVIOUS
<1>2. /\ x.at = "explode" /\ UNCHANGED <<orders, rows, alone>>
      /\ y.at = "stock" /\ y.order = x.order /\ y.kind = x.kind /\ y.old = x.old
  BY <1>1 DEF ListPOs, Goto, database, RequestType
<1>3. Working(x) => Working(y)
  BY <1>2 DEF Working
<1>4. \A q \in Requests \ {r} : req'[q] = req[q]
  BY StepAlone DEF Step
<1> QED
  BY <1>2, <1>3, <1>4, WorkUnwritten

(* The explosion has a result for each part of the BOM, and for no other.  *)
LEMMA RunBOMExplosionAgrees ==
  ASSUME Types, AgreesInv, NEW r \in Requests, RunBOMExplosion(r)
  PROVE  AgreesInv'
<1>1. req \in [Requests -> RequestType]
  BY DEF Types, RequestsOK
<1> PICK x, y : x = req[r] /\ y = req'[r]
  OBVIOUS
<1>2. x.at = "stock" /\ UNCHANGED <<orders, rows, alone>>
  BY DEF RunBOMExplosion, database
<1>3. /\ y.at = AfterExplosion(x.kind) /\ y.order = x.order /\ y.kind = x.kind /\ y.old = x.old
      /\ Explodes(y)
  <2> DEFINE Found1(found) == [p \in Parts |->
                 IF p \in BOM(Build(r))
                 THEN [required  |-> PerUnit[Build(r)][p] * orders[req[r].order].qty,
                       available |-> found[p],
                       allocated |-> Allocated]
                 ELSE None]
  <2>1. PICK found \in [Parts -> 0..MaxStock] :
          req' = [req EXCEPT ![r] = [req[r] EXCEPT !.at = AfterExplosion(req[r].kind), !.results = Found1(found)]]
    BY DEF RunBOMExplosion
  <2>2. \A p \in Parts : Found1(found)[p] # None <=> p \in BOM(Build(r))
    <3> SUFFICES ASSUME NEW p \in Parts, p \in BOM(Build(r)) PROVE Found1(found)[p] # None
      OBVIOUS
    <3>1. req[r].order \in DOMAIN orders
      BY <1>2, OrderAt
    <3>2. orders[req[r].order] \in Order
      BY <3>1 DEF Types, TablesOK
    <3>3. PerUnit[Build(r)][p] * orders[req[r].order].qty \in Nat
      <4>1. orders[req[r].order].build \in Builds /\ orders[req[r].order].qty \in Nat
        BY <3>2, Bounds DEF Order
      <4>2. PerUnit[Build(r)][p] \in Nat
        BY <4>1, PlanningAssumption DEF Build
      <4> QED
        BY <4>1, <4>2
    <3>4. found[p] \in Nat /\ Allocated \in Nat
      BY Bounds DEF Allocated
    <3>5. Found1(found)[p] \in Result
      BY <3>3, <3>4 DEF Result
    <3> QED
      BY <3>5, NoneAssumption
  <2> HIDE DEF Found1
  <2>3. /\ y.at = AfterExplosion(x.kind) /\ y.order = x.order /\ y.kind = x.kind /\ y.old = x.old
        /\ y.results = Found1(found)
    BY <1>1, <2>1 DEF RequestType
  <2> QED
    BY <2>2, <2>3 DEF Explodes, Build
<1>4. \/ x.kind = "plan" /\ y.at = "logs"
      \/ x.kind \in {"check", "matrix", "metrics"} /\ y.at = "status"
      \/ x.kind \in {"handoff", "bulk"} /\ y.at = "suppliers"
  BY <1>2, <1>3, KindAt DEF AfterExplosion
<1>5. Working(x) => Working(y)
  BY <1>2, <1>3, <1>4 DEF Working
<1>6. \A q \in Requests \ {r} : req'[q] = req[q]
  BY StepAlone DEF Step
<1> QED
  BY <1>2, <1>3, <1>4, <1>5, <1>6, WorkUnwritten

(* The rows that were read are those there are: the order is this          *)
(* request's alone.                                                        *)
LEMMA GetShortagesByOrderIDAgrees ==
  ASSUME Types, AgreesInv, NEW r \in Requests, GetShortagesByOrderID(r)
  PROVE  AgreesInv'
<1>1. req \in [Requests -> RequestType] /\ req[r].results \in Results
  BY DEF Types, RequestsOK, RequestType
<1> PICK x, y : x = req[r] /\ y = req'[r]
  OBVIOUS
<1>2. x.at = "logs" /\ UNCHANGED <<orders, rows, alone>>
  BY DEF GetShortagesByOrderID, database
<1>3. x.order \in Ids /\ x.kind \in {"plan", "check", "matrix", "metrics"}
  BY <1>2, OrderAt, KindAt
<1>4. /\ y.at = "sync" /\ y.order = x.order /\ y.kind = x.kind /\ y.old = x.old /\ y.results = x.results
      /\ y.todo = {p \in Parts : x.results[p] # None /\ (p \in Short(x.results) \/ y.seen[p] # 0)}
      /\ \A p \in Parts : y.seen[p] = 0 <=> rows[x.order][p] = {}
  <2> DEFINE Todo(f) == {p \in Parts : req[r].results[p] # None /\ (p \in Short(req[r].results) \/ f[p] # 0)}
             SeenOf(f) == \A p \in Parts : IF rows[req[r].order][p] = {} THEN f[p] = 0
                                          ELSE f[p] \in {v.id : v \in rows[req[r].order][p]}
  <2>1. PICK f \in [Parts -> {0} \cup {v.id : v \in UNION {rows[req[r].order][p] : p \in Parts}}] :
          /\ SeenOf(f)
          /\ req' = [req EXCEPT ![r] = [req[r] EXCEPT !.at = "sync", !.seen = f, !.todo = Todo(f)]]
    BY DEF GetShortagesByOrderID
  <2>2. \A p \in Parts : f[p] = 0 <=> rows[x.order][p] = {}
    <3> SUFFICES ASSUME NEW p \in Parts, rows[x.order][p] # {} PROVE f[p] # 0
      BY <2>1
    <3>1. f[p] \in {v.id : v \in rows[x.order][p]}
      BY <2>1
    <3>2. PICK v \in rows[x.order][p] : f[p] = v.id
      BY <3>1
    <3>3. v.id \in 1..created[x.order][p] /\ created[x.order][p] \in Nat
      BY <1>3 DEF Types, TablesOK
    <3> QED
      BY <3>2, <3>3
  <2> HIDE DEF Todo, SeenOf
  <2>3. /\ y.at = "sync" /\ y.order = x.order /\ y.kind = x.kind /\ y.old = x.old /\ y.results = x.results
        /\ y.todo = Todo(f) /\ y.seen = f
    BY <1>1, <2>1 DEF RequestType
  <2> QED
    BY <2>2, <2>3 DEF Todo
<1>5. ASSUME Watched(x.order), Working(x) PROVE Working(y)
  <2>1. InBOM(x.order) /\ Explodes(x)
    BY <1>2, <1>3, <1>5 DEF AgreesInv, Working
  <2>2. Synced(y)
    <3> SUFFICES ASSUME NEW p \in Parts, p \notin y.todo PROVE Recorded(y, p)
      BY <1>4 DEF Synced
    <3>1. CASE x.results[p] = None
      BY <1>4, <2>1, <3>1 DEF Explodes, InBOM, Recorded, Short
    <3>2. CASE x.results[p] # None
      BY <1>4, <3>2 DEF Recorded
    <3> QED
      BY <3>1, <3>2
  <2>3. Explodes(y)
    BY <1>4, <2>1 DEF Explodes
  <2> QED
    BY <1>2, <1>3, <1>4, <1>5, <2>2, <2>3 DEF Working
<1>6. \A q \in Requests \ {r} : req'[q] = req[q]
  BY StepAlone DEF Step
<1> QED
  BY <1>2, <1>4, <1>5, <1>6, WorkUnwritten

(* The message of a recorded shortage.                                     *)
LEMMA PublishShortageAgrees ==
  ASSUME Types, AgreesInv, NEW r \in Requests, PublishShortage(r)
  PROVE  AgreesInv'
<1>1. req \in [Requests -> RequestType]
  BY DEF Types, RequestsOK
<1> PICK x, y : x = req[r] /\ y = req'[r]
  OBVIOUS
<1>2. /\ x.at = "publish" /\ UNCHANGED <<orders, rows, alone>>
      /\ y.at = "sync" /\ y.order = x.order /\ y.kind = x.kind /\ y.old = x.old /\ y.results = x.results
      /\ y.todo = x.todo \ {x.part} /\ y.seen = x.seen
  BY <1>1 DEF PublishShortage, database, RequestType
<1>3. x.part \in x.todo
  BY <1>2 DEF Types, RequestsOK, Serving
<1>4. ASSUME Working(x) PROVE Working(y)
  <2>1. Synced(x) /\ Explodes(x)
    BY <1>2, <1>4 DEF Working
  <2>2. Synced(y)
    BY <1>2, <1>3, <2>1 DEF Synced, Recorded
  <2>3. Explodes(y)
    BY <1>2, <2>1 DEF Explodes
  <2> QED
    BY <1>2, <1>4, <2>2, <2>3 DEF Working
<1>5. \A q \in Requests \ {r} : req'[q] = req[q]
  BY StepAlone DEF Step
<1> QED
  BY <1>2, <1>4, <1>5, WorkUnwritten

(* When nothing is left to write, the rows are those of the explosion.     *)
LEMMA SyncDoneAgrees ==
  ASSUME Types, AgreesInv, NEW r \in Requests, SyncDone(r)
  PROVE  AgreesInv'
<1>1. req \in [Requests -> RequestType]
  BY DEF Types, RequestsOK
<1> PICK x, y : x = req[r] /\ y = req'[r]
  OBVIOUS
<1>2. /\ x.at = "sync" /\ x.todo = {} /\ UNCHANGED <<orders, rows, alone>>
      /\ y.at = (IF x.kind = "plan" THEN "status" ELSE "cache")
      /\ y.order = x.order /\ y.kind = x.kind /\ y.old = x.old /\ y.results = x.results
  BY <1>1 DEF SyncDone, Goto, database, RequestType
<1>3. x.kind \in {"plan", "check", "matrix", "metrics"}
  BY <1>2, KindAt
<1>4. ASSUME Working(x) PROVE Working(y)
  <2>1. Synced(x) /\ Explodes(x)
    BY <1>2, <1>4 DEF Working
  <2>2. (\A p \in Parts : Recorded(y, p)) /\ Explodes(y)
    BY <1>2, <2>1 DEF Synced, Recorded, Explodes
  <2> QED
    BY <1>2, <1>3, <1>4, <2>2 DEF Working
<1>5. \A q \in Requests \ {r} : req'[q] = req[q]
  BY StepAlone DEF Step
<1> QED
  BY <1>2, <1>4, <1>5, WorkUnwritten

(* The cache is invalidated.                                               *)
LEMMA InvalidatePlannedAgrees ==
  ASSUME Types, AgreesInv, NEW r \in Requests, InvalidatePlanned(r)
  PROVE  AgreesInv'
<1>1. req \in [Requests -> RequestType]
  BY DEF Types, RequestsOK
<1> PICK x, y : x = req[r] /\ y = req'[r]
  OBVIOUS
<1>2. /\ x.at = "invalidate" /\ UNCHANGED <<orders, rows, alone>>
      /\ y.at = "answer" /\ y.order = x.order /\ y.kind = x.kind /\ y.old = x.old /\ y.results = x.results
  BY <1>1 DEF InvalidatePlanned, Goto, database, RequestType
<1>3. Working(x) => Working(y)
  BY <1>2 DEF Working, Recorded, Explodes
<1>4. \A q \in Requests \ {r} : req'[q] = req[q]
  BY StepAlone DEF Step
<1> QED
  BY <1>2, <1>3, <1>4, WorkUnwritten

(* A plan or a check that is done leaves an order that agrees.             *)
LEMMA ExplosionDoneAgrees ==
  ASSUME Types, AgreesInv, NEW r \in Requests, PlanAnswered(r) \/ CacheReadinessRow(r)
  PROVE  AgreesInv'
<1>1. req \in [Requests -> RequestType]
  BY DEF Types, RequestsOK
<1> PICK x, y : x = req[r] /\ y = req'[r]
  OBVIOUS
<1>2. /\ x.at \in {"answer", "cache"} /\ UNCHANGED <<orders, rows, alone>>
      /\ y.order = 0 /\ (y.at = "plan" => y.old = CLEAR)
  <2>1. CASE PlanAnswered(r)
    BY <1>1, <2>1 DEF PlanAnswered, Idle, database
  <2>2. CASE CacheReadinessRow(r)
    BY <1>1, <2>2 DEF CacheReadinessRow, Idle, database, RequestType
  <2> QED
    BY <2>1, <2>2
<1>3. x.order # 0
  BY <1>2, OrderAt, OrderOrNone
<1>4. x.at = "cache" => x.kind # "plan"
  BY KindAt
<1>5. ASSUME Working(x) PROVE Agrees(x.order)
  BY <1>2, <1>4, <1>5, RecordedAgrees DEF Working
<1>6. \A q \in Requests \ {r} : req'[q] = req[q]
  BY StepAlone DEF Step
<1> QED
  BY <1>2, <1>3, <1>5, <1>6, WorkUnwritten

(* A deleted order is not watched.                                         *)
LEMMA InvalidateDeletedAgrees ==
  ASSUME Types, AgreesInv, NEW r \in Requests, InvalidateDeleted(r)
  PROVE  AgreesInv'
<1>1. req \in [Requests -> RequestType]
  BY DEF Types, RequestsOK
<1> PICK x, y : x = req[r] /\ y = req'[r]
  OBVIOUS
<1>2. /\ x.at = "forget" /\ UNCHANGED <<orders, rows, alone>>
      /\ y.order = 0 /\ y.at = "idle"
  BY <1>1 DEF InvalidateDeleted, Idle, database
<1>3. ~Working(x)
  BY <1>2 DEF Working
<1>4. \A q \in Requests \ {r} : req'[q] = req[q]
  BY StepAlone DEF Step
<1> QED
  BY <1>2, <1>3, <1>4, WorkUnwritten

(* A statement that writes the rows of one part, and what it leaves.       *)
LEMMA RowsWritten ==
  ASSUME Types, AgreesInv, NEW r \in Requests, NEW x, x = req[r], NEW y, y = req'[r], NEW p \in x.todo,
         UNCHANGED <<orders, alone>>,
         x.at = "sync", x.order \in Ids, x.order \in DOMAIN orders, p \in Parts,
         \A i \in Ids \ {x.order} : rows'[i] = rows[i],
         \A q \in Parts \ {p} : rows'[x.order][q] = rows[x.order][q],
         (rows'[x.order][p] # {}) <=> p \in Short(x.results),
         \A q \in Requests \ {r} : req'[q] = req[q],
         y.order = x.order, y.kind = x.kind, y.old = x.old, y.results = x.results, y.seen = x.seen,
         \/ y.at = "sync" /\ y.todo = x.todo \ {p}
         \/ y.at = "publish" /\ y.todo = x.todo /\ y.part = p /\ p \in Short(x.results)
  PROVE  AgreesInv'
<1>1. x.kind \in {"plan", "check", "matrix", "metrics"}
  BY KindAt
<1>2. ASSUME Watched(x.order)' PROVE InBOM(x.order)' /\ Working(y)'
  <2>1. Watched(x.order) /\ InBOM(x.order) /\ Working(x)
    BY <1>2 DEF Watched, Exists, AgreesInv
  <2>2. Explodes(x) /\ Synced(x)
    BY <2>1 DEF Working
  <2>3. p \notin BOM(orders[x.order].build) => rows'[x.order][p] = {}
    BY <2>2 DEF Explodes, Short
  <2>4. InBOM(x.order)'
    BY <2>1, <2>3 DEF InBOM
  <2>5. Synced(y)'
    BY <2>2 DEF Synced, Recorded
  <2>6. Explodes(y)'
    BY <2>2 DEF Explodes
  <2> QED
    BY <1>1, <2>1, <2>4, <2>5, <2>6 DEF Working
<1>3. (DOMAIN orders)' = DOMAIN orders /\ \A i \in DOMAIN orders \ {x.order} : orders'[i] = orders[i]
  OBVIOUS
<1>4. y.at # "plan" /\ alone' \subseteq alone
  OBVIOUS
<1> QED
  BY <1>2, <1>3, <1>4, WorkOn

(* A row created, updated or deleted is as the explosion has it.           *)
LEMMA ShortageLogsAgree ==
  ASSUME Types, AgreesInv, NEW r \in Requests, NEW p \in Parts,
         CreateShortageLog(r, p) \/ UpdateShortageLog(r, p) \/ DeleteShortageLog(r, p)
  PROVE  AgreesInv'
<1>1. req \in [Requests -> RequestType] /\ rows \in [Ids -> [Parts -> SUBSET Log]]
  BY DEF Types, RequestsOK, TablesOK
<1> PICK x, y, o : x = req[r] /\ y = req'[r] /\ o = req[r].order
  OBVIOUS
<1>2. x.at = "sync" /\ p \in x.todo /\ UNCHANGED <<orders, alone>>
  BY DEF CreateShortageLog, UpdateShortageLog, DeleteShortageLog
<1>3. o = x.order /\ x.order \in DOMAIN orders /\ x.order \in Ids /\ x = req[r] /\ y = req'[r]
  BY <1>2, OrderAt, OrderOrNone
<1>4. \A q \in Requests \ {r} : req'[q] = req[q]
  BY StepAlone DEF Step
<1>5. ASSUME NEW X, rows' = [rows EXCEPT ![o][p] = X]
      PROVE  /\ \A i \in Ids \ {x.order} : rows'[i] = rows[i]
             /\ \A q \in Parts \ {p} : rows'[x.order][q] = rows[x.order][q]
             /\ rows'[x.order][p] = X
  BY <1>1, <1>3, <1>5
<1>6. CASE CreateShortageLog(r, p)
  <2>1. PICK X : rows' = [rows EXCEPT ![o][p] = X] /\ X # {}
    <3> DEFINE z == [id |-> created[o][p] + 1, qty |-> ShortageQty(req[r].results[p])]
    <3>1. rows' = [rows EXCEPT ![o][p] = rows[o][p] \cup {z}]
      BY <1>1, <1>3, <1>6 DEF CreateShortageLog
    <3> HIDE DEF z
    <3> QED
      BY <3>1
  <2>2. /\ p \in Short(x.results)
        /\ y.at = "publish" /\ y.todo = x.todo /\ y.part = p
        /\ y.order = x.order /\ y.kind = x.kind /\ y.old = x.old /\ y.results = x.results /\ y.seen = x.seen
    BY <1>1, <1>6 DEF CreateShortageLog, RequestType
  <2>3. (rows'[x.order][p] # {}) <=> p \in Short(x.results)
    BY <1>5, <2>1, <2>2
  <2>4. /\ \A i \in Ids \ {x.order} : rows'[i] = rows[i]
        /\ \A q \in Parts \ {p} : rows'[x.order][q] = rows[x.order][q]
    BY <1>5, <2>1
  <2> QED
    BY <1>2, <1>3, <1>4, <2>2, <2>3, <2>4, RowsWritten
<1>7. ASSUME y = [x EXCEPT !.todo = x.todo \ {p}]
      PROVE  /\ y.at = "sync" /\ y.todo = x.todo \ {p}
             /\ y.order = x.order /\ y.kind = x.kind /\ y.old = x.old /\ y.results = x.results /\ y.seen = x.seen
  BY <1>1, <1>2, <1>7 DEF RequestType
<1>8. CASE UpdateShortageLog(r, p)
  <2> DEFINE z(v) == IF v.id = req[r].seen[p] THEN [v EXCEPT !.qty = ShortageQty(req[r].results[p])] ELSE v
             Y == {z(v) : v \in rows[o][p]}
  <2>1. rows' = [rows EXCEPT ![o][p] = Y] /\ p \in Short(x.results) /\ x.seen[p] # 0
    BY <1>1, <1>3, <1>8 DEF UpdateShortageLog
  <2>2. Y # {} <=> rows[o][p] # {}
    <3>1. \A v : v \in rows[o][p] => z(v) \in Y
      OBVIOUS
    <3>2. \A e : e \in Y => \E v : v \in rows[o][p]
      OBVIOUS
    <3> HIDE DEF z, Y
    <3> QED
      BY <3>1, <3>2
  <2> HIDE DEF Y
  <2>3. y = [x EXCEPT !.todo = x.todo \ {p}]
    BY <1>1, <1>8 DEF UpdateShortageLog
  <2>4. CASE Watched(o)
    <3>1. Synced(x)
      BY <1>2, <2>4 DEF AgreesInv, Working
    <3>2. rows[o][p] # {}
      BY <1>2, <2>1, <3>1 DEF Synced
    <3>3. (rows'[x.order][p] # {}) <=> p \in Short(x.results)
      BY <1>5, <2>1, <2>2, <3>2
    <3>4. /\ \A i \in Ids \ {x.order} : rows'[i] = rows[i]
          /\ \A q \in Parts \ {p} : rows'[x.order][q] = rows[x.order][q]
      BY <1>5, <2>1
    <3>5. /\ y.at = "sync" /\ y.todo = x.todo \ {p}
          /\ y.order = x.order /\ y.kind = x.kind /\ y.old = x.old /\ y.results = x.results /\ y.seen = x.seen
      BY <1>7, <2>3
    <3> QED
      BY <1>2, <1>3, <1>4, <3>3, <3>4, <3>5, RowsWritten
  <2>5. CASE ~Watched(o)
    <3>1. ~Watched(o)'
      BY <1>2, <2>5 DEF Watched, Exists
    <3>2. y.at # "plan" /\ y.order = o /\ \A i \in Ids \ {o} : rows'[i] = rows[i]
      BY <1>5, <1>7, <2>1, <2>3
    <3> QED
      BY <1>2, <1>3, <1>4, <3>1, <3>2, WorkOn
  <2> QED
    BY <2>4, <2>5
<1>9. CASE DeleteShortageLog(r, p)
  <2>1. rows' = [rows EXCEPT ![o][p] = {}] /\ p \notin Short(x.results) /\ y = [x EXCEPT !.todo = x.todo \ {p}]
    BY <1>1, <1>9 DEF DeleteShortageLog
  <2>2. (rows'[x.order][p] # {}) <=> p \in Short(x.results)
    BY <1>5, <2>1
  <2>3. /\ \A i \in Ids \ {x.order} : rows'[i] = rows[i]
        /\ \A q \in Parts \ {p} : rows'[x.order][q] = rows[x.order][q]
    BY <1>5, <2>1
  <2>4. /\ y.at = "sync" /\ y.todo = x.todo \ {p}
        /\ y.order = x.order /\ y.kind = x.kind /\ y.old = x.old /\ y.results = x.results /\ y.seen = x.seen
    BY <1>7, <2>1
  <2> QED
    BY <1>2, <1>3, <1>4, <2>2, <2>3, <2>4, RowsWritten
<1> QED
  BY <1>6, <1>8, <1>9

(* The status written is that of the explosion.                            *)
LEMMA UpdateProductionOrderStatusAgrees ==
  ASSUME Types, AgreesInv, NEW r \in Requests, UpdateProductionOrderStatus(r)
  PROVE  AgreesInv'
<1>1. req \in [Requests -> RequestType]
  BY DEF Types, RequestsOK
<1> PICK x, y, o, status : x = req[r] /\ y = req'[r] /\ o = req[r].order /\ status = deriveReadinessStatus(req[r].results)
  OBVIOUS
<1>2. /\ x.at = "status" /\ UNCHANGED <<rows, alone>>
      /\ orders' = IF status # x.old THEN [orders EXCEPT ![o].status = status] ELSE orders
      /\ y.at = (IF x.kind = "plan" THEN "invalidate" ELSE "logs")
      /\ y.order = o /\ y.kind = x.kind /\ y.old = x.old /\ y.results = x.results
  BY <1>1 DEF UpdateProductionOrderStatus, Goto, RequestType
<1>3. o \in DOMAIN orders /\ o \in Ids /\ orders[o] \in Order
  BY <1>2, OrderAt, OrderOrNone DEF Types, TablesOK
<1>4. x.kind \in {"plan", "check", "matrix", "metrics"}
  BY <1>2, KindAt
<1>5. /\ (DOMAIN orders)' = DOMAIN orders /\ \A i \in DOMAIN orders \ {o} : orders'[i] = orders[i]
      /\ orders'[o].build = orders[o].build /\ orders'[o].gone = orders[o].gone
      /\ orders'[o].status = IF status # x.old THEN status ELSE orders[o].status
  <2>1. orders \in Seq(Order)
    BY DEF Types, TablesOK
  <2>2. CASE status # x.old
    <3>1. orders' = [orders EXCEPT ![o] = [orders[o] EXCEPT !.status = status]]
      BY <1>2, <2>2
    <3> QED
      BY <1>3, <2>1, <2>2, <3>1 DEF Order
  <2>3. CASE status = x.old
    BY <1>2, <2>3
  <2> QED
    BY <2>2, <2>3
<1>6. ASSUME Watched(o)' PROVE InBOM(o)' /\ Working(y)'
  <2>1. Watched(o)
    BY <1>2, <1>5, <1>6 DEF Watched, Exists
  <2>2. InBOM(o) /\ Working(x) /\ Explodes(x)
    BY <1>2, <1>3, <2>1 DEF AgreesInv, Working
  <2>3. orders'[o].status = deriveReadinessStatus(y.results)
    BY <1>2, <1>4, <1>5, <2>2 DEF Working
  <2>4. Explodes(y)' /\ InBOM(o)'
    BY <1>2, <1>5, <2>2 DEF Explodes, InBOM
  <2>5. x.kind = "plan" => \A p \in Parts : Recorded(y, p)'
    BY <1>2, <2>2 DEF Working, Recorded
  <2> QED
    BY <1>2, <1>4, <2>3, <2>4, <2>5 DEF Working
<1>7. \A q \in Requests \ {r} : req'[q] = req[q]
  BY StepAlone DEF Step
<1>8. y.at # "plan" /\ alone' \subseteq alone /\ \A i \in Ids \ {o} : rows'[i] = rows[i]
  BY <1>2
<1> QED
  BY <1>2, <1>3, <1>5, <1>6, <1>7, <1>8, WorkOn

(* A deletion ends the watch.                                              *)
LEMMA DeleteProductionOrderAgrees ==
  ASSUME Types, AgreesInv, NEW r \in Requests, DeleteProductionOrder(r)
  PROVE  AgreesInv'
<1>1. req \in [Requests -> RequestType]
  BY DEF Types, RequestsOK
<1> PICK x, y, o : x = req[r] /\ y = req'[r] /\ o = req[r].order
  OBVIOUS
<1>2. /\ x.at = "delete" /\ alone' \subseteq alone
      /\ orders' = [orders EXCEPT ![o] = [orders[o] EXCEPT !.gone = TRUE]]
      /\ y.at = "forget" /\ y.order = o
  BY <1>1 DEF DeleteProductionOrder, Goto, RequestType
<1>3. o \in DOMAIN orders /\ orders[o] \in Order /\ orders \in Seq(Order)
  BY <1>2, OrderAt DEF Types, TablesOK
<1>4. (DOMAIN orders)' = DOMAIN orders /\ (\A i \in DOMAIN orders \ {o} : orders'[i] = orders[i]) /\ orders'[o].gone
  BY <1>2, <1>3 DEF Order
<1>5. \A i \in Ids \ {o} : rows'[i] = rows[i]
  BY DEF DeleteProductionOrder, Types, TablesOK
<1>6. ~Watched(o)'
  BY <1>4 DEF Watched, Exists
<1>7. \A q \in Requests \ {r} : req'[q] = req[q]
  BY StepAlone DEF Step
<1> QED
  BY <1>2, <1>3, <1>4, <1>5, <1>6, <1>7, WorkOn

(* A failure ends the watch.                                               *)
LEMMA CallFailsAgrees ==
  ASSUME Types, AgreesInv, NEW r \in Requests, CallFails(r)
  PROVE  AgreesInv'
<1> PICK o, y : o = req[r].order /\ y = req'[r]
  OBVIOUS
<1>1. /\ UNCHANGED <<orders, rows>> /\ alone' = alone \ {o}
      /\ y.order = 0 /\ y.at = "idle" /\ \A q \in Requests \ {r} : req'[q] = req[q]
  BY DEF CallFails, EndWithError, database, Types, RequestsOK, Idle
<1>2. o = 0 \/ o \in DOMAIN orders
  BY OrderOrNone
<1>3. ~Watched(o)'
  BY <1>1 DEF Watched
<1> QED
  BY <1>1, <1>2, <1>3, WorkOn

(* The order of a plan is new: nobody works on it and it has no rows.      *)
LEMMA PlanItemAgrees ==
  ASSUME Types, AgreesInv, NEW r \in Requests, PlanItem(r)
  PROVE  AgreesInv'
<1>1. req \in [Requests -> RequestType]
  BY DEF Types, RequestsOK
<1> PICK x, y, o : x = req[r] /\ y = req'[r] /\ o = Len(orders) + 1
  OBVIOUS
<1>2. /\ x.at = "plan" /\ UNCHANGED <<rows, alone>>
      /\ y.at = "explode" /\ y.order = o /\ y.kind = x.kind /\ y.old = x.old
  BY <1>1 DEF PlanItem, RequestType
<1>3. /\ o \in Ids /\ o \notin DOMAIN orders /\ (DOMAIN orders)' = DOMAIN orders \cup {o}
      /\ \A i \in DOMAIN orders : orders'[i] = orders[i]
      /\ orders'[o].status = CLEAR
  <2>1. Len(orders) \in Nat
    BY DEF Types, TablesOK
  <2>2. o \in Ids /\ DOMAIN orders = 1..Len(orders) /\ (DOMAIN orders)' = 1..o /\ \A i \in DOMAIN orders : orders'[i] = orders[i]
    BY OrdersGrow
  <2>3. orders'[o].status = CLEAR
    <3>1. orders'[o] = NewOrder(Line(r).build, Line(r).qty)
      BY OrdersGrow
    <3> QED
      BY <3>1 DEF NewOrder
  <2> QED
    BY <2>1, <2>2, <2>3
<1>4. /\ x.order = 0 /\ x.kind = "plan" /\ x.old = CLEAR /\ 0 \notin Ids /\ DOMAIN orders \subseteq Ids
      /\ \A q \in Requests : req[q].order # o
  BY <1>2, <1>3, OrderOrNone, KindAt DEF AgreesInv
<1>5. \A q \in Requests \ {r} : req'[q] = req[q]
  BY StepAlone DEF Step
<1>6. \A i \in (Ids \ DOMAIN orders)', p \in Parts : rows'[i][p] = {}
  BY <1>2, <1>3 DEF AgreesInv, Ids
<1>7. \A q, s \in Requests : req'[q].order \in alone' /\ req'[q].order = req'[s].order => q = s
  BY <1>2, <1>4, <1>5 DEF AgreesInv
<1>8. \A p \in Parts : rows'[o][p] = {}
  BY <1>2, <1>3 DEF AgreesInv
<1>9. ASSUME NEW i, Watched(i)', i # o PROVE Watched(i) /\ i \in Ids /\ orders'[i] = orders[i]
  BY <1>2, <1>3, <1>4, <1>9 DEF Watched, Exists
<1>10. ASSUME NEW i \in Ids, Watched(i)' PROVE InBOM(i)' /\ (Free(i)' => Agrees(i)')
  <2>1. CASE i = o
    BY <1>2, <1>8, <2>1 DEF InBOM, Free
  <2>2. CASE i # o
    <3>1. Watched(i) /\ orders'[i] = orders[i]
      BY <1>9, <1>10, <2>2
    <3>2. Free(i)' => Free(i)
      BY <1>4, <1>5 DEF Free
    <3>3. InBOM(i) /\ (Free(i) => Agrees(i))
      BY <3>1 DEF AgreesInv
    <3> QED
      BY <1>2, <3>1, <3>2, <3>3 DEF InBOM, Agrees
  <2> QED
    BY <2>1, <2>2
<1>11. ASSUME NEW q \in Requests, Watched(req[q].order)' PROVE Working(req[q])'
  <2>1. CASE q = r
    <3>1. Working(y)'
      BY <1>2, <1>3, <1>4, <1>8 DEF Working
    <3> QED
      BY <2>1, <3>1
  <2>2. CASE q # r
    <3> PICK z : z = req[q]
      OBVIOUS
    <3>1. req'[q] = z /\ Watched(z.order)' /\ z.order # o
      BY <1>4, <1>5, <1>11, <2>2
    <3>2. Watched(z.order) /\ orders'[z.order] = orders[z.order]
      BY <1>9, <3>1
    <3>3. Working(z)'
      BY <1>2, <3>2, WorkingKept DEF AgreesInv
    <3> QED
      BY <3>1, <3>3
  <2> QED
    BY <2>1, <2>2
<1>12. \A q \in Requests : req'[q].at = "plan" => req'[q].old = CLEAR
  BY <1>2, <1>5 DEF AgreesInv
<1> QED
  BY <1>6, <1>7, <1>10, <1>11, <1>12 DEF AgreesInv

(* A request that starts on an order finds it agreeing, or shares it.      *)
LEMMA StartAgrees ==
  ASSUME Types, AgreesInv, NEW r \in Requests, NEW first, Start(r, first), first.at # "plan",
         first.order \in DOMAIN orders /\ Agrees(first.order) => Working(first)
  PROVE  AgreesInv'
<1>1. /\ UNCHANGED <<orders, rows>> /\ alone' = alone \ Shared(r, first.order)
      /\ req'[r] = first /\ \A q \in Requests \ {r} : req'[q] = req[q]
  BY DEF Start, database, Types, RequestsOK
<1>2. req[r].order = 0
  BY OrderOrNone DEF Start
<1> QED
  BY <1>1, <1>2, OrderTaken

(* The starts of the requests.                                             *)
LEMMA StartsAgree ==
  ASSUME Types, AgreesInv, NEW r \in Requests,
         \/ \E o \in DOMAIN orders : GetReadinessByOrderID(r, o) \/ Delete(r, o) \/ GeneratePOForDeficits(r, o)
         \/ \E kind \in {"matrix", "metrics"} : LoadReadinessRows(r, kind)
         \/ GeneratePOsForShortages(r)
         \/ \E v \in Vendors : DraftByHand(r, v)
         \/ \E n \in PONumbers, s \in Status : TransitionState(r, n, s)
  PROVE  AgreesInv'
<1>1. 0 \notin DOMAIN orders
  BY OrderOrNone
<1>2. ASSUME NEW o \in DOMAIN orders, GetReadinessByOrderID(r, o) \/ GeneratePOForDeficits(r, o)
      PROVE  AgreesInv'
  <2> DEFINE x(k) == OnOrder([Idle EXCEPT !.kind = k], o, "explode")
  <2>1. \A k : x(k).at = "explode" /\ x(k).order = o /\ x(k).kind = k /\ x(k).old = orders[o].status
    BY DEF OnOrder, Idle
  <2>2. Start(r, x("check")) \/ Start(r, x("handoff"))
    BY <1>2 DEF GetReadinessByOrderID, GeneratePOForDeficits
  <2> HIDE DEF x
  <2>3. Agrees(o) => Working(x("check")) /\ Working(x("handoff"))
    BY <2>1 DEF Working
  <2> QED
    BY <2>1, <2>2, <2>3, StartAgrees
<1>3. ASSUME NEW o \in DOMAIN orders, Delete(r, o)
      PROVE  AgreesInv'
  <2> DEFINE x == [Idle EXCEPT !.kind = "delete", !.at = "delete", !.order = o]
  <2>1. x.at = "delete" /\ x.kind = "delete"
    BY DEF Idle
  <2>2. Start(r, x)
    BY <1>3 DEF Delete
  <2> HIDE DEF x
  <2>3. Working(x)
    BY <2>1 DEF Working
  <2> QED
    BY <2>1, <2>2, <2>3, StartAgrees
<1>4. ASSUME NEW x, Start(r, x), x.at # "plan", x.order = 0 PROVE AgreesInv'
  BY <1>1, <1>4, StartAgrees
<1>5. ASSUME NEW kind \in {"matrix", "metrics"}, LoadReadinessRows(r, kind)
      PROVE  AgreesInv'
  <2> DEFINE x == [Idle EXCEPT !.kind = kind, !.at = "next", !.rest = OpenOrders]
             y == [Idle EXCEPT !.kind = kind, !.at = "metrics", !.built = cache.matrix]
  <2>1. x.at = "next" /\ x.order = 0 /\ y.at = "metrics" /\ y.order = 0
    BY DEF Idle
  <2>2. Start(r, x) \/ Start(r, y)
    BY <1>5 DEF LoadReadinessRows
  <2> HIDE DEF x, y
  <2> QED
    BY <1>4, <2>1, <2>2
<1>6. ASSUME GeneratePOsForShortages(r)
      PROVE  AgreesInv'
  <2> DEFINE x == [Idle EXCEPT !.kind = "bulk", !.at = "next", !.rest = OpenOrders]
  <2>1. x.at = "next" /\ x.order = 0
    BY DEF Idle
  <2>2. Start(r, x)
    BY <1>6 DEF GeneratePOsForShortages
  <2> HIDE DEF x
  <2> QED
    BY <1>4, <2>1, <2>2
<1>7. ASSUME NEW v \in Vendors, DraftByHand(r, v)
      PROVE  AgreesInv'
  <2> DEFINE x == [Idle EXCEPT !.kind = "draft", !.at = "find", !.vendor = v]
  <2>1. x.at = "find" /\ x.order = 0
    BY DEF Idle
  <2>2. Start(r, x)
    BY <1>7 DEF DraftByHand
  <2> HIDE DEF x
  <2> QED
    BY <1>4, <2>1, <2>2
<1>8. ASSUME NEW n \in PONumbers, NEW s \in Status, TransitionState(r, n, s)
      PROVE  AgreesInv'
  <2> DEFINE x == [Idle EXCEPT !.kind = "state", !.at = "move", !.num = n, !.to = s]
  <2>1. x.at = "move" /\ x.order = 0
    BY DEF Idle
  <2>2. Start(r, x)
    BY <1>8 DEF TransitionState
  <2> HIDE DEF x
  <2> QED
    BY <1>4, <2>1, <2>2
<1> QED
  BY <1>2, <1>3, <1>5, <1>6, <1>7, <1>8

(* A load or a bulk hand-off takes up its next order.                      *)
LEMMA NextOrderAgrees ==
  ASSUME Types, AgreesInv, NEW r \in Requests, NEW o \in Ids, NextOrder(r, o)
  PROVE  AgreesInv'
<1>1. req \in [Requests -> RequestType] /\ Serving(req[r], DOMAIN orders, Existing)
  BY DEF Types, RequestsOK
<1>2. req[r].at = "next" /\ UNCHANGED <<orders, rows>> /\ alone' = alone \ Shared(r, o)
  BY DEF NextOrder, database
<1>3. req[r].order = 0 /\ req[r].kind \in {"matrix", "metrics", "bulk"}
  BY <1>1, <1>2, OrderOrNone DEF RequestType, Serving, Places, Kinds, Exploding, Ordering
<1> DEFINE x == [req[r] EXCEPT !.rest = req[r].rest \ {o}]
           z == OnOrder(x, o, "explode")
<1> PICK y : y = req'[r]
  OBVIOUS
<1>4. y = IF Exists(o) THEN z ELSE x
  BY <1>1 DEF NextOrder
<1>5. /\ x.at = "next" /\ x.order = 0
      /\ z.at = "explode" /\ z.order = o /\ z.kind = req[r].kind /\ z.old = orders[o].status
  BY <1>1, <1>2, <1>3 DEF RequestType, OnOrder
<1> HIDE DEF x, z
<1>6. \A q \in Requests \ {r} : req'[q] = req[q]
  BY StepAlone DEF Step
<1>7. CASE Exists(o)
  <2>1. Agrees(o) => Working(z)
    BY <1>3, <1>5 DEF Working
  <2> QED
    BY <1>2, <1>3, <1>4, <1>5, <1>6, <1>7, <2>1, OrderTaken
<1>8. CASE ~Exists(o)
  <2>1. y.at # "plan" /\ y.order \in {req[r].order, 0} /\ alone' \subseteq alone
    BY <1>2, <1>4, <1>5, <1>8
  <2>2. ~Watched(req[r].order)
    BY <1>3, OrderOrNone DEF Watched
  <2> QED
    BY <1>2, <1>6, <2>1, <2>2, WorkUnwritten
<1> QED
  BY <1>7, <1>8

(* A crash ends the watch of the orders that were worked on.               *)
LEMMA CrashAgrees ==
  ASSUME Types, AgreesInv, Crash
  PROVE  AgreesInv'
<1>1. /\ UNCHANGED <<orders, rows>> /\ alone' = alone \ {req[r].order : r \in Requests}
      /\ \A r \in Requests : req'[r] = IF req[r].kind \in {"draft", "state"} THEN req[r] ELSE Idle
  BY DEF Crash, database
<1>2. \A r \in Requests : req'[r].order = 0 /\ (req'[r].at = "plan" => req'[r].old = CLEAR)
  BY <1>1, OrderOrNone DEF Idle, AgreesInv
<1>3. 0 \notin alone /\ alone \subseteq Ids
  BY DEF Types, OthersOK, Ids
<1>4. ASSUME NEW i \in Ids, Watched(i)' PROVE InBOM(i)' /\ Agrees(i)'
  <2>1. Watched(i) /\ Free(i)
    BY <1>1, <1>4 DEF Watched, Free, Exists
  <2> QED
    BY <1>1, <2>1 DEF AgreesInv, InBOM, Agrees
<1>5. \A i \in (Ids \ DOMAIN orders)', p \in Parts : rows'[i][p] = {}
  BY <1>1 DEF AgreesInv, Ids
<1>6. 0 \notin alone' /\ \A r \in Requests : ~Watched(req[r].order)'
  BY <1>1, <1>2, <1>3 DEF Watched
<1> QED
  BY <1>2, <1>4, <1>5, <1>6 DEF AgreesInv

(* A step that touches neither orders, rows nor requests.                  *)
LEMMA AgreesKept ==
  ASSUME AgreesInv, UNCHANGED <<orders, rows, req, alone>>
  PROVE  AgreesInv'
<1>1. \A i : (Watched(i)' <=> Watched(i)) /\ (InBOM(i)' <=> InBOM(i)) /\ (Agrees(i)' <=> Agrees(i)) /\ (Free(i)' <=> Free(i))
  BY DEF Watched, Exists, InBOM, Agrees, Free
<1>2. \A r \in Requests : Working(req[r]) => Working(req[r])'
  <2> SUFFICES ASSUME NEW r \in Requests, Working(req[r]) PROVE Working(req[r])'
    OBVIOUS
  <2> PICK x : x = req[r]
    OBVIOUS
  <2>1. Working(x)'
    BY WorkingKept
  <2> QED
    BY <2>1
<1>3. \A r \in Requests : Watched(req[r].order)' => Watched(req[r].order)
  BY DEF Watched, Exists
<1>4. \A i \in (Ids \ DOMAIN orders)', p \in Parts : rows'[i][p] = {}
  BY DEF AgreesInv, Ids
<1>5. \A q, r \in Requests : req'[q].order \in alone' /\ req'[q].order = req'[r].order => q = r
  BY DEF AgreesInv
<1> QED
  BY <1>1, <1>2, <1>3, <1>4, <1>5 DEF AgreesInv

(* Every step keeps the invariant of status and rows.                      *)
LEMMA AgreesStep ==
  ASSUME Types, AgreesInv, Next
  PROVE  AgreesInv'
<1>1. ASSUME NEW r \in Requests, Step(r) PROVE AgreesInv'
  BY <1>1, NoOrderAgrees, PlanItemAgrees, NothingToExplodeAgrees, ListPOsAgrees,
     RunBOMExplosionAgrees,
     GetShortagesByOrderIDAgrees, ShortageLogsAgree, PublishShortageAgrees, SyncDoneAgrees,
     UpdateProductionOrderStatusAgrees, InvalidatePlannedAgrees, ExplosionDoneAgrees, NextOrderAgrees,
     DeleteProductionOrderAgrees, InvalidateDeletedAgrees, OrderingAgrees DEF Step
<1>2. ASSUME NEW r \in Requests, Request(r) PROVE AgreesInv'
  BY <1>2, NoOrderAgrees, StartsAgree DEF Request
<1>3. ASSUME NEW r \in Requests, CallFails(r) PROVE AgreesInv'
  BY <1>3, CallFailsAgrees
<1>4. ASSUME Crash PROVE AgreesInv'
  BY <1>4, CrashAgrees
<1>5. ASSUME \/ \E o \in Ids : ExpireRow(o)
             \/ ExpireMatrix
             \/ ExpireMetrics
             \/ \E p \in Parts : ReceiveOrUse(p)
             \/ \E v \in Vendors, n \in PONumbers : PlacePO(v, n)
             \/ \E n \in PONumbers, s \in {"Partial", "Received"} : SaveReceived(n, s)
      PROVE  AgreesInv'
  <2>1. UNCHANGED <<orders, rows, req, alone>>
    BY <1>5
       DEF ExpireRow, ExpireMatrix, ExpireMetrics, ReceiveOrUse, PlacePO, SaveReceived,
           database
  <2> QED
    BY <2>1, AgreesKept
<1> QED
  BY <1>1, <1>2, <1>3, <1>4, <1>5 DEF Next

(* The status of an order and its recorded shortages tell the same once no *)
(* request works on the order, as long as none failed or overlapped        *)
(* another: the order in which a plan and a check write them               *)
(* (readiness_service.go:598) never leaves the two apart.                  *)
THEOREM StatusAgrees == Spec => []StatusAgreesWithRows
<1>1. Init => AgreesInv
  <2> SUFFICES ASSUME Init PROVE AgreesInv
    OBVIOUS
  <2>1. /\ DOMAIN orders = {} /\ \A o \in Ids, p \in Parts : rows[o][p] = {}
        /\ \A r \in Requests : req[r].order = 0 /\ req[r].at = "idle"
        /\ alone = Ids
    BY DEF Init, Idle
  <2>2. 0 \notin Ids
    BY Bounds DEF Ids
  <2>3. \A o : ~Watched(o)
    BY <2>1 DEF Watched
  <2> QED
    BY <2>1, <2>2, <2>3 DEF AgreesInv
<1>2. Types /\ AgreesInv /\ [Next]_vars => AgreesInv'
  <2>1. ASSUME AgreesInv, UNCHANGED vars PROVE AgreesInv'
    <3>1. UNCHANGED <<orders, rows, req, alone>>
      BY <2>1 DEF vars
    <3> QED
      BY <2>1, <3>1, AgreesKept
  <2> QED
    BY <2>1, AgreesStep
<1>3. Types /\ AgreesInv => StatusAgreesWithRows
  <2> SUFFICES ASSUME Types, AgreesInv, NEW o \in alone \cap DOMAIN orders, Exists(o), \A r \in Requests : req[r].order # o
               PROVE  orders[o].status = SHORTAGE <=> \E p \in Parts : rows[o][p] # {}
    BY DEF StatusAgreesWithRows
  <2>1. Watched(o) /\ Free(o) /\ o \in Ids
    BY DEF Watched, Free, Types, OthersOK
  <2> QED
    BY <2>1 DEF AgreesInv, Agrees
<1> QED
  BY <1>1, <1>2, <1>3, TypesInvariant, PTL DEF Spec
=============================================================================
