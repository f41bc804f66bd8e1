----------------------------- MODULE Assemblies -----------------------------
(***************************************************************************)
(* The catalogue side of the MRP service (catalog_service.go): the bill of *)
(* materials of each product model is kept in bom_entries and served from  *)
(* Valkey; its components are parts of the SCM catalogue, and every        *)
(* assembly is announced to SCM as a product model.  The catalogue         *)
(* endpoints of the MRP forward to SCM after a check.                      *)
(*                                                                         *)
(* Quantities are left out: a bill of materials is the set of its parts.   *)
(***************************************************************************)
EXTENDS Catalogue, Directory

CONSTANTS
    Recipes,      \* component lists a request may send, as sequences of SKUs
    AllModels     \* the cache key of all the bills together

ASSUME RecipesAssumption == Recipes \subseteq Seq(Skus)

VARIABLES
    bom,       \* bom_entries: part ids of each model
    erased,    \* bom_entries marked as deleted, which the unique key still counts
    cached,    \* Valkey: the bill of each model, all of them, and where a part is used
    last       \* the bill that the last request which ended well wrote, None if it deleted it (history)

mrp == <<bom, erased, cached, last>>
vars == <<req, alone, calm, calls, faults, scm, directory, mrp>>

Keys == Codes \cup PartIds \cup {AllModels}
AllRows == {<<m, id>> : m \in Codes, id \in PartIds}

(* What the database answers for a cache key. *)
Rows == UNION {{<<m, id>> : id \in bom[m]} : m \in Codes}
Loaded(k) == {x \in Rows : k = AllModels \/ k = x[1] \/ k = x[2]}

(* Part numbers, models, products, vendors and cache keys are told apart.   *)
ASSUME SubjectsAssumption ==
    /\ Skus \cup Codes \cup Products \cup Vendors \cup Offered \subseteq Subjects
    /\ (Skus \cup Offered) \cap (Codes \cup Products \cup Vendors) = {}
    /\ Codes \cap Products = {} /\ Vendors \cap (Codes \cup Products) = {}
    /\ AllModels \notin Codes \cup PartIds /\ Codes \cap PartIds = {}
    /\ \A S \in SUBSET PartIds : S # None
    /\ \A S \in SUBSET AllRows : S # None

HasDuplicates(c) == \E i, j \in DOMAIN c : i < j /\ c[i] = c[j]

-----------------------------------------------------------------------------
(* Writing a bill of materials. *)

Bill(kind, m, c) == [First("resolve", kind, m, c) EXCEPT !.held = <<>>]

CreateAssembly(r, m, c) ==
    /\ Begin(r, {m} \cup {c[i] : i \in DOMAIN c}, Bill("create assembly", m, c))
    /\ UNCHANGED <<scm, directory, mrp>>

UpdateAssembly(r, m, c) ==
    /\ Begin(r, {m} \cup {c[i] : i \in DOMAIN c}, Bill("update assembly", m, c))
    /\ UNCHANGED <<scm, directory, mrp>>

(* Each component is looked up in SCM; a creation refuses a repeated one. *)
ResolveComponentPartID(r) ==
    LET c == req[r].arg
        i == Len(req[r].held) + 1
        repeated == \E j \in 1..(i - 1) : c[j] = c[i]
        found == GetPartCatalogBySKU(c[i]) IN
    /\ At(r, "resolve") /\ i <= Len(c)
    /\ IF (req[r].kind = "create assembly" /\ repeated) \/ found = {}
       THEN Refuse(r)
       ELSE \E id \in found : Continue(r, [req[r] EXCEPT !.held = Append(@, id)])
    /\ UNCHANGED <<scm, directory, mrp>>

KeepBOMEntries(r) ==
    /\ At(r, "resolve") /\ Len(req[r].held) = Len(req[r].arg)
    /\ Wrote(r, "insert bom")
    /\ UNCHANGED <<scm, directory, mrp>>

HardDeleteBOMEntriesByModelCode(r) ==
    LET m == req[r].key IN
    /\ At(r, "resolve") /\ Len(req[r].held) = Len(req[r].arg)
    /\ bom' = [bom EXCEPT ![m] = {}]
    /\ erased' = [erased EXCEPT ![m] = {}]
    /\ Wrote(r, "insert bom")
    /\ UNCHANGED <<scm, directory, cached, last>>

(* One transaction inserts all, or none when a key is there already. *)
CreateBOMEntries(r) ==
    LET m == req[r].key
        ids == {req[r].held[i] : i \in DOMAIN req[r].held} IN
    /\ At(r, "insert bom")
    /\ IF HasDuplicates(req[r].held) \/ ids \cap (bom[m] \cup erased[m]) # {}
       THEN Refuse(r) /\ UNCHANGED bom
       ELSE /\ bom' = [bom EXCEPT ![m] = @ \cup ids]
            /\ Continue(r, [req[r] EXCEPT !.at = "drop bom", !.held = ids])
    /\ UNCHANGED <<scm, directory, erased, cached, last>>

(* The keys of the model, of all and of the parts written now are dropped;  *)
(* those of the parts it used before are not.                               *)
DroppedPartKeys(m, ids) == {m} \cup ids
DroppedKeys(m, ids) == {AllModels, m} \cup ids
InvalidateBOM(r) ==
    LET m == req[r].key
        deleting == req[r].kind = "delete assembly"
        ids == IF deleting THEN {} ELSE req[r].held
        next == [req[r] EXCEPT !.at = IF deleting THEN "withdraw" ELSE "announce"] IN
    /\ At(r, "drop bom")
    /\ last' = [last EXCEPT ![m] = IF deleting THEN None ELSE ids]
    /\ \/ /\ Continue(r, next)
          /\ cached' = [k \in Keys |-> IF k \in DroppedKeys(m, ids) THEN None ELSE cached[k]]
       \/ Ignored(r, next) /\ UNCHANGED cached
    /\ UNCHANGED <<scm, directory, bom, erased>>

(* SCM is told, and an error of its answer ends the request. *)
CreateProductModel(r) ==
    /\ At(r, "announce")
    /\ Goto(r, "find model")
    /\ UNCHANGED <<scm, directory, mrp>>

DeleteAssembly(r, m) ==
    /\ Begin(r, {m}, First("erase bom", "delete assembly", m, None))
    /\ UNCHANGED <<scm, directory, mrp>>

DeleteBOMEntriesByModelCode(r) ==
    LET m == req[r].key IN
    /\ At(r, "erase bom")
    /\ erased' = [erased EXCEPT ![m] = @ \cup bom[m]]
    /\ bom' = [bom EXCEPT ![m] = {}]
    /\ Wrote(r, "drop bom")
    /\ UNCHANGED <<scm, directory, cached, last>>

(* SCM is told, and what it answers is ignored. *)
DeleteProductModel(r) ==
    /\ At(r, "withdraw")
    /\ Goto(r, "delete model") \/ Ignored(r, Idle)
    /\ UNCHANGED <<scm, directory, mrp>>

-----------------------------------------------------------------------------
(* Reading it, through the cache. *)

GetBOMByModelCode(r, m) ==
    /\ cached[m] = None
    /\ Begin(r, {m}, First("load bom", "read bom", m, None))
    /\ UNCHANGED <<scm, directory, mrp>>

GetAllBOMs(r) ==
    /\ cached[AllModels] = None
    /\ Begin(r, Codes, First("load bom", "read bom", AllModels, None))
    /\ UNCHANGED <<scm, directory, mrp>>

GetWhereUsedByPartID(r, s) ==
    /\ GetPartCatalogBySKU(s) # {}
    /\ \E id \in GetPartCatalogBySKU(s) :
         /\ cached[id] = None
         /\ Begin(r, {s} \cup {m \in Codes : id \in bom[m]}, First("load bom", "read bom", id, None))
    /\ UNCHANGED <<scm, directory, mrp>>

LoadBOM(r) ==
    /\ At(r, "load bom")
    /\ Continue(r, [req[r] EXCEPT !.at = "cache bom", !.held = Loaded(req[r].key)])
    /\ UNCHANGED <<scm, directory, mrp>>

CacheBOM(r) ==
    /\ At(r, "cache bom")
    /\ Answer(r)
    /\ cached' = [cached EXCEPT ![req[r].key] = req[r].held]
    /\ UNCHANGED <<scm, directory, bom, erased, last>>

(* Entries live for five minutes. *)
ExpireBOM(k) ==
    /\ cached[k] # None
    /\ cached' = [cached EXCEPT ![k] = None]
    /\ Aside
    /\ UNCHANGED <<scm, directory, bom, erased, last>>

-----------------------------------------------------------------------------
(* The catalogue endpoints. *)

(* A part is created when it is not found; a failed look-up reads as that.  *)
CreateCatalogPart(r, s, text) ==
    /\ Begin(r, {s}, First("check part", "create part", s, text))
    /\ UNCHANGED <<scm, directory, mrp>>

CheckPart(r) ==
    /\ At(r, "check part")
    /\ \/ IF GetPartCatalogBySKU(req[r].key) # {} THEN Refuse(r) ELSE Goto(r, "part row")
       \/ Ignored(r, [req[r] EXCEPT !.at = "part row"])
    /\ UNCHANGED <<scm, directory, mrp>>

UpdateCatalogPart(r, s, text) ==
    /\ UpdatePartCatalog(r, s, {"description", "price"}, text)
    /\ UNCHANGED <<directory, mrp>>

DeleteCatalogPart(r, s) ==
    /\ DeletePartCatalog(r, s)
    /\ UNCHANGED <<directory, mrp>>

-----------------------------------------------------------------------------
AssembliesRequest(r) ==
    \/ \E m \in Codes :
         \/ \E c \in Recipes : CreateAssembly(r, m, c) \/ UpdateAssembly(r, m, c)
         \/ DeleteAssembly(r, m)
         \/ GetBOMByModelCode(r, m)
    \/ GetAllBOMs(r)
    \/ \E s \in Skus :
         \/ GetWhereUsedByPartID(r, s)
         \/ \E text \in Texts : CreateCatalogPart(r, s, text) \/ UpdateCatalogPart(r, s, text)
         \/ DeleteCatalogPart(r, s)

AssembliesStep(r) ==
    \/ ResolveComponentPartID(r) \/ HardDeleteBOMEntriesByModelCode(r) \/ CreateBOMEntries(r)
    \/ InvalidateBOM(r) \/ DeleteBOMEntriesByModelCode(r)
    \/ CreateProductModel(r) \/ DeleteProductModel(r)
    \/ LoadBOM(r) \/ CacheBOM(r) \/ CheckPart(r)

(* The SCM service stops and starts again, and warms its product cache. *)
MRPSteps == {"idle", "resolve", "insert bom", "drop bom", "erase bom", "load bom", "cache bom", "check part",
             "announce", "withdraw"}
RestartSCM ==
    LET cut == {r \in Requests : req[r].at \notin MRPSteps}
        spoiled == UNION {HalfDone(r) : r \in cut} IN
    /\ Fault
    /\ req' = [r \in Requests |-> IF r \in cut THEN Idle ELSE req[r]]
    /\ alone' = (alone \ spoiled) \cup Products
    /\ calm' = calm \ spoiled
    /\ WarmupCache
    /\ UNCHANGED <<calls, scm, product, vendorVars, mrp>>

(* Either nothing is there yet, or the seeders and earlier requests left    *)
(* parts, an assembly, a sold product, rated vendors with receipts, and     *)
(* perhaps answers in the caches.                                           *)
Init ==
    /\ RequestsInit
    /\ \E seeded, warm \in BOOLEAN, c \in Recipes, v \in Vendors :
         LET text == CHOOSE t \in Texts : TRUE
             some(x) == IF seeded THEN x ELSE None
             many(S) == IF seeded THEN S ELSE {}
             n == IF seeded THEN 1 ELSE 0 IN
         /\ parts = [s \in Skus |-> many({[id |-> <<s, 1>>, text |-> text]})]
         /\ lastId = [s \in Skus |-> n]
         /\ stocks = [s \in Skus |-> some(Stock(text))]
         /\ models = [m \in Codes |-> some(Model)]
         /\ bom = [m \in Codes |-> many({<<c[i], 1>> : i \in DOMAIN c})]
         /\ product = [p \in Products |-> some(CHOOSE name \in Names : TRUE)]
         /\ rating = [w \in Vendors |-> some(NewRating)]
         /\ mapping = [s \in Offered |-> many({v})]
         /\ receipts = [w \in Vendors |-> [all |-> 2 * n, complete |-> n, defects |-> n]]
         /\ cached = [k \in Keys |-> IF warm THEN Loaded(k) ELSE None]
         /\ optimal = [s \in Offered |-> IF warm THEN some(v) ELSE None]
    /\ last = [m \in Codes |-> IF models[m] = None THEN None ELSE bom[m]]
    /\ shown = product
    /\ erased = [m \in Codes |-> {}]

Next ==
    \/ \E r \in Requests :
         \/ (CatalogueRequest(r) \/ CatalogueStep(r)) /\ UNCHANGED <<directory, mrp>>
         \/ (DirectoryRequest(r) \/ DirectoryStep(r)) /\ UNCHANGED <<scm, mrp>>
         \/ AssembliesRequest(r) \/ AssembliesStep(r)
         \/ StepFails(r) /\ UNCHANGED <<scm, directory, mrp>>
    \/ \E v \in Vendors : (CreateSupplier(v) \/ \E d \in 0..2 : ReceiptMoves(v, d)) /\ UNCHANGED <<scm, mrp>>
    \/ \E k \in Keys : ExpireBOM(k)
    \/ RestartSCM

Spec == Init /\ [][Next]_vars

-----------------------------------------------------------------------------
(* Every variable keeps its type, and a request holds what its next         *)
(* statement uses.                                                          *)
TypeOK ==
    /\ CatalogueOK /\ DirectoryOK
    /\ {bom, erased} \subseteq [Codes -> SUBSET PartIds]
    /\ \A m \in Codes : last[m] = None \/ last[m] \subseteq PartIds
    /\ \A k \in Keys : cached[k] = None \/ cached[k] \subseteq AllRows
    /\ alone \cup calm \subseteq Subjects
    /\ \A r \in Requests :
         /\ req[r].on \subseteq Subjects
         /\ (req[r].at = "idle") <=> (req[r] = Idle)
         /\ req[r].at \in {"resolve", "insert bom"} => Len(req[r].held) <= Len(req[r].arg)
         /\ req[r].at = "cache bom" => req[r].held \subseteq AllRows
         /\ req[r].at = "show product" => req[r].held \in Names

(* Once no request works on a model and as long as none failed or met       *)
(* another: its bill is what the last request that ended well wrote, and SCM *)
(* sells the models that were written and not deleted since.  The old        *)
(* entries are deleted and the new ones inserted in two statements, SCM is   *)
(* told after both, and a deletion ignores its answer (catalog_service.go:143, 233). *)
BillIsLast ==
    \A m \in alone \cap Codes : Quiet(m) =>
      /\ bom[m] = (IF last[m] = None THEN {} ELSE last[m])
      /\ (last[m] # None) <=> Live(models[m])

(* What the cache shows for a model, and for all of them, is the database,  *)
(* even when changes of the bill meet, as long as none met a read that had  *)
(* begun: a read fills the cache after it read the rows (bom.go:42).  A      *)
(* where-used answer may still name a model that dropped the part, since     *)
(* only the keys of the new parts are dropped (bom.go:90), but it never      *)
(* misses a model that uses the part.                                        *)
CachedBillCurrent ==
    \A m \in calm \cap Codes : Quiet(m) =>
      /\ cached[m] \in {None, Loaded(m)}
      /\ cached[AllModels] # None => {x \in cached[AllModels] : x[1] = m} = Loaded(m)
      /\ \A s \in calm \cap Skus : Quiet(s) =>
           \A x \in parts[s] : (x.id \in bom[m] /\ cached[x.id] # None) => <<m, x.id>> \in cached[x.id]

(* Each cache of the catalogue shows what the databases hold: products,     *)
(* optimal suppliers, bills of materials.                                   *)
CachesCurrent == CachedProductCurrent /\ OptimalIsCurrent /\ CachedBillCurrent
=============================================================================
