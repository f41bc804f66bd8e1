----------------------------- MODULE Directory -----------------------------
(***************************************************************************)
(* Vendors and products of the SCM service, which it answers from Valkey   *)
(* when it can (vendor_cache.go, inventory_cache.go).  The entries never   *)
(* expire: what a write fails to replace or drop stays, for products until *)
(* the service starts again and warms the cache.                           *)
(*                                                                         *)
(* A vendor is rated from its goods receipts; the best rated vendor that   *)
(* offers a SKU is the one to order it from.                               *)
(***************************************************************************)
EXTENDS Requests

CONSTANTS
    Products,     \* products that were sold
    Vendors,      \* suppliers
    Offered,      \* SKUs that vendors may offer
    Price,        \* unit price of each vendor, the same for every SKU
    Names         \* what a product may be called

ASSUME PriceAssumption ==
    Price \in [Vendors -> Nat] /\ \A v, w \in Vendors : Price[v] = Price[w] => v = w

ASSUME DirectoryAssumption ==
    /\ Names # {} /\ None \notin Names /\ None \notin Vendors
    /\ None \notin [quality: Int, onTime: Nat]

VARIABLES
    product,      \* products
    shown,        \* product cache
    rating,       \* suppliers: quality and on-time rate
    mapping,      \* sku_mappings: vendors of each SKU
    receipts,     \* goods receipts of each vendor: how many, complete, defective lines
    optimal       \* cache of the optimal supplier of each SKU

productVars == <<product, shown>>
vendorVars == <<rating, mapping, receipts, optimal>>
directory == <<product, shown, rating, mapping, receipts, optimal>>

-----------------------------------------------------------------------------
(* Products. *)

CreateProduct(r, p, name) ==
    /\ Begin(r, {p}, First("insert product", "create product", p, name))
    /\ UNCHANGED directory

InsertProductUnread(r) ==
    LET p == req[r].key IN
    /\ At(r, "insert product")
    /\ IF product[p] # None
       THEN Refuse(r) /\ UNCHANGED product
       ELSE Wrote(r, "show product") /\ product' = [product EXCEPT ![p] = req[r].arg]
    /\ UNCHANGED <<shown, vendorVars>>

InsertProduct(r) ==
    LET p == req[r].key IN
    /\ At(r, "insert product")
    /\ IF product[p] # None
       THEN Refuse(r) /\ UNCHANGED product
       ELSE /\ product' = [product EXCEPT ![p] = req[r].arg]
            /\ Continue(r, [req[r] EXCEPT !.at = "show product", !.held = req[r].arg, !.wrote = TRUE])
    /\ UNCHANGED <<shown, vendorVars>>

UpdateProduct(r, p, name) ==
    /\ Begin(r, {p}, First("change product", "update product", p, name))
    /\ UNCHANGED directory

ChangeProductOnly(r) ==
    LET p == req[r].key IN
    /\ At(r, "change product")
    /\ IF product[p] = None
       THEN Refuse(r) /\ UNCHANGED product
       ELSE Answer(r) /\ product' = [product EXCEPT ![p] = req[r].arg]
    /\ UNCHANGED <<shown, vendorVars>>

ChangeProduct(r) ==
    LET p == req[r].key IN
    /\ At(r, "change product")
    /\ IF product[p] = None
       THEN Refuse(r) /\ UNCHANGED product
       ELSE Wrote(r, "read product") /\ product' = [product EXCEPT ![p] = req[r].arg]
    /\ UNCHANGED <<shown, vendorVars>>

(* A product that is not cached is read from the database. *)
GetProduct(r, p) ==
    /\ shown[p] = None
    /\ Begin(r, {p}, First("read product", "get product", p, None))
    /\ UNCHANGED directory

GetProductByID(r) ==
    LET p == req[r].key IN
    /\ At(r, "read product")
    /\ IF product[p] = None THEN Refuse(r)
       ELSE Continue(r, [req[r] EXCEPT !.at = "show product", !.held = product[p]])
    /\ UNCHANGED directory

SetProduct(r) ==
    /\ At(r, "show product")
    /\ \/ Answer(r) /\ shown' = [shown EXCEPT ![req[r].key] = req[r].held]
       \/ Ignored(r, Idle) /\ UNCHANGED shown
    /\ UNCHANGED <<product, vendorVars>>

(* At start-up every product is put into the cache. *)
WarmupCache == shown' = [p \in Products |-> IF product[p] = None THEN shown[p] ELSE product[p]]

-----------------------------------------------------------------------------
(* Vendors. *)

NewRating == [quality |-> 100, onTime |-> 100]
CreateSupplier(v) ==
    /\ Aside
    /\ rating[v] = None
    /\ rating' = [rating EXCEPT ![v] = NewRating]
    /\ UNCHANGED <<productVars, mapping, receipts, optimal>>

CreateSkuMapping(r, v, s) ==
    /\ rating[v] # None
    /\ Begin(r, {v, s}, [First("insert mapping", "create mapping", s, v) EXCEPT !.todo = {s}])
    /\ UNCHANGED directory

InsertMappingOnly(r) ==
    /\ At(r, "insert mapping")
    /\ mapping' = [mapping EXCEPT ![req[r].key] = @ \cup {req[r].arg}]
    /\ Answer(r)
    /\ UNCHANGED <<productVars, rating, receipts, optimal>>

InsertMapping(r) ==
    /\ At(r, "insert mapping")
    /\ mapping' = [mapping EXCEPT ![req[r].key] = @ \cup {req[r].arg}]
    /\ Wrote(r, "drop optimal")
    /\ UNCHANGED <<productVars, rating, receipts, optimal>>

(* The cached answers for the SKUs that a change concerns are dropped. *)
DeleteOptimalSupplier(r) ==
    /\ At(r, "drop optimal")
    /\ IF req[r].todo = {}
       THEN Answer(r) /\ UNCHANGED optimal
       ELSE \E s \in req[r].todo :
              LET next == [req[r] EXCEPT !.todo = @ \ {s}] IN
              \/ Continue(r, next) /\ optimal' = [optimal EXCEPT ![s] = None]
              \/ Ignored(r, next) /\ UNCHANGED optimal
    /\ UNCHANGED <<productVars, rating, mapping, receipts>>

-----------------------------------------------------------------------------
(* The rating of a vendor, from all its goods receipts. *)

UpdateSupplierMetrics(r, v) ==
    /\ rating[v] # None
    /\ Begin(r, {v} \cup {s \in Offered : v \in mapping[s]}, First("count receipts", "rate vendor", v, None))
    /\ UNCHANGED directory

CountGoodsReceiptsByVendor(r) ==
    LET n == receipts[req[r].key].all IN
    /\ At(r, "count receipts")
    /\ Continue(r, IF n = 0
         THEN [req[r] EXCEPT !.at = "rate", !.held = [quality |-> 100, onTime |-> 0]]
         ELSE [req[r] EXCEPT !.at = "read receipts", !.held = n])
    /\ UNCHANGED directory

(* Every defective line of a receipt counts, and so does a receipt that     *)
(* came after they were counted.                                            *)
Rating(n, complete, defects) ==
    [quality |-> 100 - (defects * 100) \div n, onTime |-> (complete * 100) \div n]
FindGoodsReceiptsByVendor(r) ==
    LET got == receipts[req[r].key] IN
    /\ At(r, "read receipts")
    /\ Continue(r, [req[r] EXCEPT !.at = "rate", !.held = Rating(@, got.complete, got.defects)])
    /\ UNCHANGED directory

UpdateSupplier(r) ==
    /\ At(r, "rate")
    /\ rating' = [rating EXCEPT ![req[r].key] = req[r].held]
    /\ Wrote(r, "find mappings")
    /\ UNCHANGED <<productVars, mapping, receipts, optimal>>

(* A failure here leaves every cached answer as it is. *)
FindSkuMappingsBySupplierID(r) ==
    /\ At(r, "find mappings")
    /\ \/ Continue(r, [req[r] EXCEPT !.at = "drop optimal",
                         !.todo = {s \in Offered : req[r].key \in mapping[s]}])
       \/ Ignored(r, Idle)
    /\ UNCHANGED directory

(* A receipt arrives, or is counted with so many defective lines. *)
ReceiptMoves(v, defects) ==
    LET got == receipts[v]
        counted == [got EXCEPT !.complete = got.complete + 1, !.defects = got.defects + defects]
        came == [got EXCEPT !.all = got.all + 1] IN
    /\ Aside
    /\ receipts' = [receipts EXCEPT ![v] = IF got.complete < got.all THEN counted ELSE came]
    /\ UNCHANGED <<productVars, rating, mapping, optimal>>

-----------------------------------------------------------------------------
(* The optimal supplier of a SKU: the vendors that offer it, cheapest       *)
(* first, are read and scored one by one.                                   *)

Score(v, x) == (x.quality * 6 + x.onTime * 4) * 1000 - Price[v]
Lowest == -10000
NothingYet == [vendor |-> None, score |-> Lowest]
Better(best, v, x) ==
    IF Score(v, x) > best.score THEN [vendor |-> v, score |-> Score(v, x)] ELSE best
Cheapest(S) == CHOOSE v \in S : \A w \in S : Price[v] <= Price[w]

GetOptimalSupplier(r, s) ==
    /\ optimal[s] = None
    /\ Begin(r, {s} \cup mapping[s], First("find vendors", "get optimal", s, None))
    /\ UNCHANGED directory

FindSkuMappingsBySKU(r) ==
    LET S == mapping[req[r].key] IN
    /\ At(r, "find vendors")
    /\ IF S = {} THEN Refuse(r)
       ELSE Continue(r, [req[r] EXCEPT !.at = "score", !.todo = S, !.held = NothingYet])
    /\ UNCHANGED directory

ScoreSupplier(r) ==
    LET v == Cheapest(req[r].todo)
        next == [req[r] EXCEPT !.todo = @ \ {v}] IN
    /\ At(r, "score") /\ req[r].todo # {}
    /\ \/ Continue(r, [next EXCEPT !.held = Better(@, v, rating[v])])
       \/ Ignored(r, next)
    /\ UNCHANGED directory

SetOptimalSupplier(r) ==
    /\ At(r, "score") /\ req[r].todo = {}
    /\ IF req[r].held.vendor = None
       THEN Refuse(r) /\ UNCHANGED optimal
       ELSE \/ Answer(r) /\ optimal' = [optimal EXCEPT ![req[r].key] = req[r].held.vendor]
            \/ Ignored(r, Idle) /\ UNCHANGED optimal
    /\ UNCHANGED <<productVars, rating, mapping, receipts>>

-----------------------------------------------------------------------------
DirectoryRequest(r) ==
    \/ \E p \in Products : GetProduct(r, p) \/ \E name \in Names : CreateProduct(r, p, name) \/ UpdateProduct(r, p, name)
    \/ \E v \in Vendors : UpdateSupplierMetrics(r, v) \/ \E s \in Offered : CreateSkuMapping(r, v, s)
    \/ \E s \in Offered : GetOptimalSupplier(r, s)

DirectoryStep(r) ==
    \/ InsertProduct(r) \/ ChangeProduct(r) \/ GetProductByID(r) \/ SetProduct(r)
    \/ InsertMapping(r) \/ DeleteOptimalSupplier(r)
    \/ CountGoodsReceiptsByVendor(r) \/ FindGoodsReceiptsByVendor(r) \/ UpdateSupplier(r)
    \/ FindSkuMappingsBySupplierID(r) \/ FindSkuMappingsBySKU(r) \/ ScoreSupplier(r) \/ SetOptimalSupplier(r)

DirectoryOK ==
    /\ {product, shown} \subseteq [Products -> Names \cup {None}]
    /\ rating \in [Vendors -> [quality: Int, onTime: Nat] \cup {None}]
    /\ \A s \in Offered : \A v \in mapping[s] : rating[v] # None
    /\ optimal \in [Offered -> Vendors \cup {None}]

(* A cached product is the one in the database, as long as no two requests  *)
(* met on it and no cache command failed: a read fills the cache after it   *)
(* read the row, a change after it wrote it (inventory_cache.go:36, :67).   *)
CachedProductCurrent ==
    \A p \in alone \cap Products : Quiet(p) => shown[p] \in {None, product[p]}

(* The cached optimal supplier of a SKU is the best rated one now: a new    *)
(* offer drops it, and so does a new rating for every SKU of the vendor,    *)
(* even when changes meet, as long as none met a read that had begun        *)
(* (vendor_cache.go:42, :76).                                               *)
Optimal(s) ==
    LET S == mapping[s]
        best == {v \in S : \A w \in S : Score(v, rating[v]) >= Score(w, rating[w])} IN
    Cheapest(best)
OptimalIsCurrent ==
    \A s \in calm \cap Offered : (Quiet(s) /\ optimal[s] # None) => optimal[s] = Optimal(s)
=============================================================================
