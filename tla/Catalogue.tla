----------------------------- MODULE Catalogue -----------------------------
(***************************************************************************)
(* The catalogue of the SCM service (inventory_service.go as the server    *)
(* runs it, over inventory_repo.go): a part is a row of part_catalogs and  *)
(* a row of component_stocks, written one after the other without a        *)
(* transaction; a product model is a row that deletion only marks.         *)
(*                                                                         *)
(* A text stands for a description and a price.  component_stocks has the  *)
(* SKU as its primary key and keeps deleted rows; part_catalogs repeats    *)
(* part numbers freely and loses deleted rows.                             *)
(***************************************************************************)
EXTENDS Requests

CONSTANTS
    Skus,         \* part numbers
    Codes,        \* product model codes
    Texts,        \* descriptions, and the prices that go with them
    MaxRows       \* bound: rows of part_catalogs ever inserted for a SKU

ASSUME CatalogueAssumption ==
    /\ Texts # {} /\ MaxRows \in Nat \ {0}
    /\ None \notin [name: Texts, cost: Texts, gone: BOOLEAN]
    /\ None \notin [gone: BOOLEAN]

VARIABLES
    parts,     \* part_catalogs: rows of each SKU, [id, text]
    lastId,    \* rows of part_catalogs ever inserted for each SKU
    stocks,    \* component_stocks: the row of each SKU
    models     \* product_models: the row of each code

scm == <<parts, lastId, stocks, models>>

Live(row) == row # None /\ ~row.gone
Stock(text) == [name |-> text, cost |-> text, gone |-> FALSE]
Model == [gone |-> FALSE]     \* its name and price are left out

(* A part is found by its SKU when both its rows are there. *)
GetPartCatalogBySKU(s) == IF Live(stocks[s]) THEN {x.id : x \in parts[s]} ELSE {}
PartIds == Skus \X (1..MaxRows)

-----------------------------------------------------------------------------
(* Creating a part. *)

CreatePartCatalog(r, s, text) ==
    /\ Begin(r, {s}, First("part row", "create part", s, text))
    /\ UNCHANGED scm

InsertPartRow(r) ==
    LET s == req[r].key IN
    /\ At(r, "part row")
    /\ lastId[s] < MaxRows
    /\ lastId' = [lastId EXCEPT ![s] = @ + 1]
    /\ parts' = [parts EXCEPT ![s] = @ \cup {[id |-> <<s, lastId[s] + 1>>, text |-> req[r].arg]}]
    /\ Wrote(r, "stock row")
    /\ UNCHANGED <<stocks, models>>

CreateComponentStock(r, s, text) ==
    /\ Begin(r, {s}, First("stock row", "create stock", s, text))
    /\ UNCHANGED scm

(* The primary key refuses a second row, of a deleted SKU too. *)
SkuTaken(s) == stocks[s] # None
InsertStockRow(r) ==
    LET s == req[r].key IN
    /\ At(r, "stock row")
    /\ IF SkuTaken(s)
       THEN Refuse(r) /\ UNCHANGED stocks
       ELSE Answer(r) /\ stocks' = [stocks EXCEPT ![s] = Stock(req[r].arg)]
    /\ UNCHANGED <<parts, lastId, models>>

-----------------------------------------------------------------------------
(* Changing a part: the name in the stock row, the description in the       *)
(* catalogue, the cost in the stock row, in this order.  Its manufacturing  *)
(* status is left out.                                                      *)

After(r, field) ==
    LET F == {f \in req[r].todo : f # field} IN
    CASE "description" \in F -> "name"
      [] F = {"price"} -> "cost"
      [] OTHER -> "done"
NextField(r, field) ==
    IF After(r, field) = "done" THEN Answer(r)
    ELSE Continue(r, [req[r] EXCEPT !.at = After(r, field), !.todo = @ \ {field}, !.wrote = (field # "none")])

UpdatePartCatalog(r, s, fields, text) ==
    /\ Begin(r, {s}, [First("find part", "update part", s, text) EXCEPT !.todo = fields])
    /\ UNCHANGED scm

FindPart(r) ==
    /\ At(r, "find part")
    /\ IF parts[req[r].key] = {} THEN Refuse(r) ELSE NextField(r, "none")
    /\ UNCHANGED scm

KeepStockName(r) ==
    /\ At(r, "name")
    /\ Goto(r, "text")
    /\ UNCHANGED scm

UpdateStockName(r) ==
    LET s == req[r].key IN
    /\ At(r, "name")
    /\ IF Live(stocks[s])
       THEN Wrote(r, "text") /\ stocks' = [stocks EXCEPT ![s].name = req[r].arg]
       ELSE Refuse(r) /\ UNCHANGED stocks
    /\ UNCHANGED <<parts, lastId, models>>

UpdatePartRow(r) ==
    LET s == req[r].key IN
    /\ At(r, "text")
    /\ IF parts[s] = {} THEN Refuse(r) ELSE NextField(r, "description")
    /\ parts' = [parts EXCEPT ![s] = {[x EXCEPT !.text = req[r].arg] : x \in @}]
    /\ UNCHANGED <<lastId, stocks, models>>

UpdateStockCost(r) ==
    LET s == req[r].key IN
    /\ At(r, "cost")
    /\ IF Live(stocks[s])
       THEN Answer(r) /\ stocks' = [stocks EXCEPT ![s].cost = req[r].arg]
       ELSE Refuse(r) /\ UNCHANGED stocks
    /\ UNCHANGED <<parts, lastId, models>>

-----------------------------------------------------------------------------
(* Deleting a part: first its stock row, which is kept as deleted. *)

DeletePartCatalog(r, s) ==
    /\ Begin(r, {s}, First("delete stock", "delete part", s, None))
    /\ UNCHANGED scm

DeleteStockRow(r) ==
    LET s == req[r].key IN
    /\ At(r, "delete stock")
    /\ IF Live(stocks[s])
       THEN Wrote(r, "delete part") /\ stocks' = [stocks EXCEPT ![s].gone = TRUE]
       ELSE Refuse(r) /\ UNCHANGED stocks
    /\ UNCHANGED <<parts, lastId, models>>

DeletePartRows(r) ==
    LET s == req[r].key IN
    /\ At(r, "delete part")
    /\ IF parts[s] = {} THEN Refuse(r) ELSE Answer(r)
    /\ parts' = [parts EXCEPT ![s] = {}]
    /\ UNCHANGED <<lastId, stocks, models>>

-----------------------------------------------------------------------------
(* Product models, which the MRP service creates and deletes with its      *)
(* assemblies: an upsert that brings a deleted row back, and a mark.       *)

FindModel(r) ==
    /\ At(r, "find model")
    /\ Continue(r, [req[r] EXCEPT !.at = "save model", !.held = models[req[r].key]])
    /\ UNCHANGED scm

SaveModel(r) ==
    LET m == req[r].key IN
    /\ At(r, "save model")
    /\ IF req[r].held = None /\ models[m] # None
       THEN Refuse(r) /\ UNCHANGED models
       ELSE Answer(r) /\ models' = [models EXCEPT ![m] = Model]
    /\ UNCHANGED <<parts, lastId, stocks>>

MarkModel(r) ==
    LET m == req[r].key IN
    /\ At(r, "delete model")
    /\ models' = [models EXCEPT ![m] = IF @ = None THEN None ELSE [@ EXCEPT !.gone = TRUE]]
    /\ Answer(r)
    /\ UNCHANGED <<parts, lastId, stocks>>

-----------------------------------------------------------------------------
CatalogueRequest(r) ==
    \/ \E s \in Skus, text \in Texts :
         \/ CreatePartCatalog(r, s, text)
         \/ CreateComponentStock(r, s, text)
         \/ \E fields \in {{"description"}, {"price"}, {"description", "price"}} : UpdatePartCatalog(r, s, fields, text)
    \/ \E s \in Skus : DeletePartCatalog(r, s)

CatalogueStep(r) ==
    \/ InsertPartRow(r) \/ InsertStockRow(r)
    \/ FindPart(r) \/ UpdateStockName(r) \/ UpdatePartRow(r) \/ UpdateStockCost(r)
    \/ DeleteStockRow(r) \/ DeletePartRows(r)
    \/ FindModel(r) \/ SaveModel(r) \/ MarkModel(r)

CatalogueOK ==
    /\ \A s \in Skus : \A x \in parts[s] : x.id \in {s} \X (1..lastId[s]) /\ x.text \in Texts
    /\ stocks \in [Skus -> [name: Texts, cost: Texts, gone: BOOLEAN] \cup {None}]
    /\ models \in [Codes -> [gone: BOOLEAN] \cup {None}]

(* A part of the catalogue has one row there and a live stock row that      *)
(* names it alike, as long as no two requests met on its SKU and none       *)
(* failed halfway: the rows are written one by one, and looking for a part  *)
(* and inserting it are apart (inventory_service.go:275, :405).             *)
PartWhole ==
    \A s \in alone \cap Skus : (Quiet(s) /\ parts[s] # {}) =>
      /\ Cardinality(parts[s]) = 1
      /\ Live(stocks[s])
      /\ \A x \in parts[s] : x.text = stocks[s].name
=============================================================================
