---------------------------- MODULE DemandViews ----------------------------
(***************************************************************************)
(* What the MRP service shows of its planning: the readiness matrix and    *)
(* its report, the demand summary and metrics, the list of shortages and   *)
(* the pick lists.  Most are computed from the rows of a readiness load    *)
(* (LoadReadinessRows); the aggregated demand explodes the orders anew.    *)
(***************************************************************************)
EXTENDS Planning, FiniteSetsExt, SequencesExt

Exploded(x) == {p \in DOMAIN x.results : x.results[p] # None}

-----------------------------------------------------------------------------
(* The demand summary: an order with how many units the stock suffices for, *)
(* the scarcest part deciding, and how many parts it is short of.           *)

CanBuildFromStocked(x) ==
    {(x.results[p].available * x.qty) \div x.results[p].required :
        p \in {q \in Exploded(x) : x.results[q].required # 0 /\ x.results[q].available # 0}}
CanBuild(x) ==
    {(x.results[p].available * x.qty) \div x.results[p].required :
        p \in {q \in Exploded(x) : x.results[q].required # 0}}
Summary(x) ==
    [order   |-> x.order, qty |-> x.qty, status |-> x.status,
     ready   |-> Min(CanBuild(x) \cup {x.qty}),
     missing |-> Cardinality({p \in Exploded(x) : IsShortage(x.results[p])})]

(* A row whose order is gone by now is left out. *)
GetDemandSummary(matrix) == {Summary(x) : x \in {y \in matrix : Exists(y.order)}}

GetDemandMetrics(matrix) ==
    [total |-> Cardinality(matrix),
     units |-> MapThenSumSet(LAMBDA x : x.qty, matrix),
     ready |-> Cardinality({x \in matrix : x.status = CLEAR}),
     short |-> Cardinality({x \in matrix : x.status = SHORTAGE})]

(* The shortages of all open orders, added up part by part.  The orders are *)
(* listed and then exploded one after the other, without the matrix, each   *)
(* against the stock it finds by then: found[o] for order o.                *)
Explosion(o, stocked) ==
    [p \in BOM(orders[o].build) |->
        [required |-> PerUnit[orders[o].build][p] * orders[o].qty,
         available |-> stocked[p], allocated |-> Allocated]]

Lacking(found, p) ==
    {o \in OpenOrders : p \in BOM(orders[o].build) /\ IsShortage(Explosion(o, found[o])[p])}
GetGrossDemand(found) ==
    [p \in {q \in Parts : Lacking(found, q) # {}} |->
        MapThenSumSet(LAMBDA o : Explosion(o, found[o])[p].required, Lacking(found, p))]
GetAggregatedDemand(found) ==
    LET shortageQty(o, p) == Explosion(o, found[o])[p].required - found[o][p] IN
    [p \in {q \in Parts : Lacking(found, q) # {}} |->
        MapThenSumSet(LAMBDA o : shortageQty(o, p), Lacking(found, p))]

GeneratePickList(o) == [p \in BOM(orders[o].build) |-> PerUnit[orders[o].build][p] * orders[o].qty]

(* The report has a line for each part of an order, or one for the order.   *)
ExportReadinessReport(matrix) ==
    UNION {{<<x.order, p>> : p \in IF Exploded(x) = {} THEN {None} ELSE Exploded(x)} : x \in matrix}

(* The matrix is shown filtered by its status and cut into pages. *)
paginateReadinessRows(rs, page, per) ==
    LET start == (page - 1) * per IN
    IF start >= Len(rs) THEN <<>> ELSE SubSeq(rs, start + 1, Min({start + per, Len(rs)}))
filterReadinessRows(rs, status) == SelectSeq(rs, LAMBDA x : status = None \/ x.status = status)
GetReadinessMatrix(rs, status, page, per) == paginateReadinessRows(filterReadinessRows(rs, status), page, per)

-----------------------------------------------------------------------------
(* The units an order can be built with what is there, by definition.       *)
Buildable(x, n) == \A p \in Exploded(x) : n * x.results[p].required <= x.qty * x.results[p].available
Most(x) == CHOOSE n \in 0..x.qty : Buildable(x, n) /\ (n = x.qty \/ ~Buildable(x, n + 1))

(* Rows of one order for up to two parts, beyond those the instance builds. *)
Examples ==
    {[order |-> 1, qty |-> q, status |-> CLEAR,
      results |-> [i \in 1..2 |-> IF i = 2 /\ c = 0 THEN None
                                  ELSE [required |-> q * IF i = 1 THEN a ELSE c,
                                        available |-> IF i = 1 THEN s ELSE t, allocated |-> Allocated]]] :
        q \in 1..3, a \in 1..3, c \in 0..2, s \in 0..7, t \in {0, 3}}
ReadyIsMost == \A x \in Examples : Summary(x).ready = Most(x)

(* What the parts of all open orders come to, and the least stock found.     *)
Needed(p) ==
    MapThenSumSet(LAMBDA o : PerUnit[orders[o].build][p] * orders[o].qty, OpenOrders)
LeastFound(found, p) == Min({found[o][p] : o \in OpenOrders})

(* The views agree with the stock and with each other.  The summary shows    *)
(* the most units that can be built (demand_service.go:45-68), an order is   *)
(* clear when it misses no part and then can be built whole, and the report  *)
(* and the pick lists have the orders and parts of the matrix (:207).  The   *)
(* aggregated demand compares each order with the whole stock of its moment  *)
(* (:280-292), so it may fall short of what all open orders together lack,   *)
(* but whatever the stock does in between it asks for no more than they need *)
(* beyond the least stock found; it is looked at between requests, as they   *)
(* leave no set of open orders that does not outlast them.  The pages of the *)
(* matrix put together are the matrix (readiness_service.go:434).            *)
ViewsAgree ==
    /\ ReadyIsMost
    /\ (\A r \in Requests : req[r] = Idle) =>
       \A found \in [OpenOrders -> [Parts -> 0..MaxStock]] :
         LET demand == GetAggregatedDemand(found) IN
         \A p \in DOMAIN demand : demand[p] \in 1..(Needed(p) - LeastFound(found, p))
    /\ cache.matrix # None =>
         LET matrix == cache.matrix
             listed == SetToSortSeq(matrix, LAMBDA x, y : x.order < y.order)
             metrics == GetDemandMetrics(matrix) IN
         /\ \A x \in GetDemandSummary(matrix) :
              /\ (x.status = CLEAR) <=> (x.missing = 0)
              /\ x.status = CLEAR => x.ready = x.qty
         /\ metrics.ready + metrics.short = metrics.total
         /\ {y[1] : y \in ExportReadinessReport(matrix)} = {x.order : x \in matrix}
         /\ \A x \in matrix : \A p \in Exploded(x) : GeneratePickList(x.order)[p] = x.results[p].required
         /\ \A status \in {None, CLEAR, SHORTAGE}, per \in 1..2 :
              FoldLeft(LAMBDA seen, page : seen \o GetReadinessMatrix(listed, status, page, per),
                       <<>>, [i \in 1..Len(listed) |-> i])
                = SelectSeq(listed, LAMBDA x : status = None \/ x.status = status)
=============================================================================
