------------------------- MODULE Assemblies_proofs -------------------------
(***************************************************************************)
(* Proofs about parts, bills of materials, products, vendors and their     *)
(* caches, for any number of each, of requests, calls and failures.        *)
(***************************************************************************)
EXTENDS Assemblies, Sums, TLAPS

-----------------------------------------------------------------------------
(* Types. *)

PartKinds == {"create part", "create stock", "update part", "delete part"}
ProductKinds == {"create product", "update product", "get product"}
Writers == {"create assembly", "update assembly"}
Kinds == {"none", "create mapping", "rate vendor", "get optimal", "delete assembly", "read bom"}
           \cup PartKinds \cup ProductKinds \cup Writers

PartPlaces(kind) ==
    CASE kind = "create part" -> {"check part", "part row", "stock row"}
      [] kind = "create stock" -> {"stock row"}
      [] kind = "update part" -> {"find part", "name", "text", "cost"}
      [] kind = "delete part" -> {"delete stock", "delete part"}
DirectoryPlaces(kind) ==
    CASE kind = "create product" -> {"insert product", "show product"}
      [] kind = "update product" -> {"change product", "read product", "show product"}
      [] kind = "get product" -> {"read product", "show product"}
      [] kind = "create mapping" -> {"insert mapping", "drop optimal"}
      [] kind = "rate vendor" -> {"count receipts", "read receipts", "rate", "find mappings", "drop optimal"}
      [] kind = "get optimal" -> {"find vendors", "score"}
BillPlaces(kind) ==
    CASE kind = "delete assembly" -> {"erase bom", "drop bom", "withdraw", "delete model"}
      [] kind = "read bom" -> {"load bom", "cache bom"}
      [] kind \in Writers -> {"resolve", "insert bom", "drop bom", "announce", "find model", "save model"}
Places(kind) ==
    CASE kind = "none" -> {"idle"}
      [] kind \in PartKinds -> PartPlaces(kind)
      [] kind \in ProductKinds \cup {"create mapping", "rate vendor", "get optimal"} -> DirectoryPlaces(kind)
      [] kind \in Writers \cup {"delete assembly", "read bom"} -> BillPlaces(kind)
Ats == {"idle", "check part", "part row", "stock row", "find part", "name", "text", "cost", "delete stock",
        "delete part", "insert product", "show product", "change product", "read product", "insert mapping",
        "drop optimal", "count receipts", "read receipts", "rate", "find mappings", "find vendors", "score",
        "erase bom", "drop bom", "withdraw", "delete model", "load bom", "cache bom", "resolve", "insert bom",
        "announce", "find model", "save model"}

(* Where a request has written something that an error leaves half done.   *)
MustHaveWritten(x) ==
    \/ x.at \in {"text", "delete part", "insert bom", "drop bom", "announce", "find model", "save model",
                 "withdraw", "delete model", "find mappings", "drop optimal"}
    \/ x.at = "stock row" /\ x.kind = "create part"
    \/ x.at = "show product" /\ x.kind = "create product"
    \/ x.at \in {"read product", "show product"} /\ x.kind = "update product"

StockRows == [name: Texts, cost: Texts, gone: BOOLEAN]
ModelRows == [gone: BOOLEAN]
Ratings == [quality: Int, onTime: Nat]
Scores == [vendor: Vendors \cup {None}, score: Int]
Arguments == Texts \cup Recipes \cup Names \cup Vendors \cup {None}
PartSets == SUBSET PartIds
RowSets == SUBSET AllRows
Memories == {None} \cup Nat \cup Names \cup Seq(PartIds) \cup PartSets \cup RowSets
              \cup ModelRows \cup Ratings \cup Scores
OfferedSets == SUBSET Offered
VendorSets == SUBSET Vendors
FieldSets == SUBSET {"description", "price"}
Todos == FieldSets \cup OfferedSets \cup VendorSets
RequestType ==
    [at: Ats, kind: Kinds, on: SUBSET Subjects, key: Subjects \cup Keys \cup {None}, arg: Arguments,
     held: Memories, todo: Todos, wrote: BOOLEAN]

Components(x) == {x.arg[i] : i \in DOMAIN x.arg}
About(x) ==
    /\ x.kind = "none" => x.on = {}
    /\ x.kind \in PartKinds => x.key \in Skus /\ x.on = {x.key} /\ (x.kind # "delete part" => x.arg \in Texts)
    /\ x.kind \in ProductKinds => x.key \in Products /\ x.on = {x.key} /\ (x.kind # "get product" => x.arg \in Names)
    /\ x.kind = "create mapping" => x.key \in Offered /\ x.arg \in Vendors /\ x.on = {x.key, x.arg}
    /\ x.kind = "rate vendor" => x.key \in Vendors /\ x.key \in x.on /\ x.on \subseteq {x.key} \cup Offered
    /\ x.kind = "get optimal" => x.key \in Offered /\ x.key \in x.on /\ x.on \subseteq {x.key} \cup Vendors
    /\ x.kind \in Writers => x.key \in Codes /\ x.arg \in Recipes /\ x.on = {x.key} \cup Components(x)
    /\ x.kind = "delete assembly" => x.key \in Codes /\ x.on = {x.key}
    /\ x.kind = "read bom" =>
         /\ x.key \in Keys /\ x.on \subseteq Skus \cup Codes
         /\ x.key \in Codes => x.on = {x.key}
         /\ x.key = AllModels => x.on = Codes
         /\ x.key \in PartIds => x.key[1] \in x.on

Resolved(x) ==
    /\ x.held \in Seq(PartIds) /\ Len(x.held) <= Len(x.arg)
    /\ \A i \in DOMAIN x.held : x.held[i][1] = x.arg[i]
Holds(x, there) ==
    /\ x.kind = "rate vendor" => x.key \in there
    /\ x.kind = "create mapping" => x.arg \in there
    /\ x.at = "show product" => x.held \in Names /\ x.key \in there
    /\ x.at = "read receipts" => x.held \in Nat \ {0}
    /\ x.at = "rate" => x.held \in Ratings
    /\ x.at = "insert mapping" => x.todo = {x.key}
    /\ x.at = "drop optimal" => x.todo \subseteq Offered
    /\ x.at = "score" => x.todo \subseteq Vendors \cap there /\ x.held \in Scores
    /\ x.at \in {"resolve", "insert bom"} => Resolved(x)
    /\ x.at = "insert bom" => Len(x.held) = Len(x.arg)
    /\ (x.at = "drop bom" /\ x.kind \in Writers) => x.held \subseteq PartIds /\ \A id \in x.held : id[1] \in x.on
    /\ x.at = "cache bom" => x.held \subseteq AllRows
Rests(x) == x.kind = "none" => x = Idle
Serving(x, there) ==
    x.at \in Places(x.kind) /\ About(x) /\ Holds(x, there) /\ (MustHaveWritten(x) => x.wrote) /\ Rests(x)

There == {p \in Products : product[p] # None} \cup {v \in Vendors : rating[v] # None}
RequestsOK == req \in [Requests -> RequestType] /\ \A r \in Requests : Serving(req[r], There)
PartsOK ==
    /\ parts \in [Skus -> SUBSET [id: PartIds, text: Texts]]
    /\ lastId \in [Skus -> 0..MaxRows]
    /\ \A s \in Skus : \A x \in parts[s] : x.id \in {s} \X (1..lastId[s])
    /\ stocks \in [Skus -> StockRows \cup {None}]
BillsOK ==
    /\ models \in [Codes -> ModelRows \cup {None}]
    /\ bom \in [Codes -> SUBSET PartIds] /\ erased \in [Codes -> SUBSET PartIds]
    /\ last \in [Codes -> {None} \cup SUBSET PartIds]
    /\ cached \in [Keys -> {None} \cup SUBSET AllRows]
ProductsOK ==
    /\ product \in [Products -> Names \cup {None}] /\ shown \in [Products -> Names \cup {None}]
    /\ \A p \in Products : product[p] = None => shown[p] = None
VendorsOK ==
    /\ rating \in [Vendors -> Ratings \cup {None}]
    /\ mapping \in [Offered -> SUBSET Vendors] /\ \A s \in Offered : mapping[s] \subseteq There
    /\ receipts \in [Vendors -> [all: Nat, complete: Nat, defects: Nat]]
    /\ optimal \in [Offered -> Vendors \cup {None}]
Types ==
    /\ RequestsOK /\ PartsOK /\ BillsOK /\ ProductsOK /\ VendorsOK
    /\ alone \subseteq Subjects /\ calm \subseteq Subjects

-----------------------------------------------------------------------------
(* Requests that meet on a subject that is alone all read; on a calm one,  *)
(* all read or all change.                                                 *)
On(u) == {r \in Requests : u \in req[r].on}
Reading(r) == req[r].kind \in Reads
Meet(q, r) ==
    req[q].on \cap req[r].on # {} =>
      /\ (Reading(q) /\ Reading(r)) \/ (req[q].on \cup req[r].on) \cap alone = {}
      /\ (Reading(q) <=> Reading(r)) \/ (req[q].on \cup req[r].on) \cap calm = {}
MeetInv == \A q, r \in Requests : q # r => Meet(q, r)

(* The rows of a part agree, or the request at work has one to write.      *)
Single(s) == \E x \in parts[s] : parts[s] = {x}
Whole(s) == parts[s] = {} \/ (Single(s) /\ Live(stocks[s]) /\ \A x \in parts[s] : x.text = stocks[s].name)
Halfway(x) == (x.at = "stock row" /\ x.kind = "create part") \/ x.at \in {"text", "delete part"}
Partway(x, s) ==
    /\ (x.at = "stock row" /\ x.kind = "create part" /\ stocks[s] = None)
         => Single(s) /\ \A row \in parts[s] : row.text = x.arg
    /\ x.at = "text" => Live(stocks[s]) /\ stocks[s].name = x.arg /\ (parts[s] = {} \/ Single(s))
PartOf(s) ==
    /\ Whole(s) \/ \E r \in On(s) : Halfway(req[r])
    /\ \A r \in On(s) : Partway(req[r], s)
PartInv == \A s \in alone \cap Skus : PartOf(s)

(* A bill is the last one written, or the request at work is between its   *)
(* statements.                                                             *)
Clearing == {"insert bom", "drop bom"}
Bill1(m) == bom[m] = (IF last[m] = None THEN {} ELSE last[m])
Told(m) == (last[m] # None) <=> Live(models[m])
Telling == {"announce", "find model", "save model"}
Untelling == {"withdraw", "delete model"}
Billing(x, m) ==
    /\ x.at = "insert bom" => bom[m] = {}
    /\ x.at = "drop bom" => bom[m] = (IF x.kind = "delete assembly" THEN {} ELSE x.held)
    /\ x.at \in Telling => last[m] # None
    /\ x.at \in Untelling => last[m] = None
BillOf(m) ==
    /\ Bill1(m) \/ \E r \in On(m) : req[r].at \in Clearing
    /\ Told(m) \/ \E r \in On(m) : req[r].at \in Telling \cup Untelling
    /\ \A r \in On(m) : Billing(req[r], m)
BillInv == \A m \in alone \cap Codes : BillOf(m)

(* A cached product is the row, or the request that changed the row still  *)
(* has to write it.                                                        *)
Showing(x) == x.wrote /\ x.at \in {"read product", "show product"}
ProductOf(p) ==
    /\ shown[p] \in {None, product[p]} \/ \E r \in On(p) : Showing(req[r])
    /\ \A r \in On(p) : req[r].at = "show product" => req[r].held = product[p]
ProductInv == \A p \in alone \cap Products : ProductOf(p)

(* A cached choice of a vendor is the best now, or is about to be dropped.  *)
Dropping(x, s) == x.at = "drop optimal" /\ s \in x.todo /\ s \in x.on
Dropped(s) == \E r \in Requests : Dropping(req[r], s)
Rated(x, s) == x.at = "find mappings" /\ x.key \in mapping[s] /\ s \in x.on
Late(x, s) == x.kind = "rate vendor" /\ x.key \in mapping[s] /\ s \notin x.on
(* What a reader has seen of the vendors, cheapest first.                  *)
Top(best, seen) ==
    /\ \A v \in seen : Score(v, rating[v]) <= best.score
    /\ best.vendor = None => best.score = Lowest
    /\ best.vendor # None =>
         /\ best.vendor \in seen /\ best.score = Score(best.vendor, rating[best.vendor])
         /\ \A v \in seen : Score(v, rating[v]) = best.score => Price[best.vendor] <= Price[v]
Choosing(x, s) ==
    /\ mapping[s] \subseteq x.on
    /\ x.at = "score" =>
         /\ x.todo \subseteq mapping[s]
         /\ Top(x.held, mapping[s] \ x.todo)
         /\ \A v \in mapping[s] \ x.todo, w \in x.todo : Price[v] < Price[w]
VendorOf(s) ==
    /\ optimal[s] = None \/ optimal[s] = Optimal(s) \/ Dropped(s) \/ \E r \in Requests : Rated(req[r], s)
    /\ (\E r \in Requests : Late(req[r], s)) => optimal[s] = None \/ Dropped(s)
    /\ \A r \in On(s) : req[r].kind = "get optimal" => Choosing(req[r], s)
VendorInv == \A s \in calm \cap Offered : VendorOf(s)

(* The cached bills.  An answer where a part is used misses no model.      *)
Replacing(x, m) == x.at \in Clearing /\ x.key = m
Of(m, rows) == {x \in rows : x[1] = m}
Adding(x, m, id) == x.at = "drop bom" /\ x.kind \in Writers /\ x.key = m /\ id \in x.held
Loading(x, m) ==
    x.at = "cache bom" =>
      /\ x.key = m => x.held = Loaded(m)
      /\ x.key = AllModels => Of(m, x.held) = Loaded(m)
CachedOf(m) ==
    /\ \/ cached[m] \in {None, Loaded(m)} /\ (cached[AllModels] = None \/ Of(m, cached[AllModels]) = Loaded(m))
       \/ \E r \in Requests : Replacing(req[r], m)
    /\ \A r \in On(m) : Loading(req[r], m)
UsesOf(m, s) ==
    \A id \in bom[m] : id[1] = s =>
      /\ cached[id] # None => <<m, id>> \in cached[id] \/ \E r \in Requests : Adding(req[r], m, id)
      /\ \A r \in Requests : (req[r].at = "cache bom" /\ req[r].key = id) => <<m, id>> \in req[r].held
Shown(m) == CachedOf(m) /\ \A s \in calm \cap Skus : UsesOf(m, s)
CachedInv == \A m \in calm \cap Codes : Shown(m)

-----------------------------------------------------------------------------
(* Where the requests of each kind may stand.                              *)
LEMMA KindAt ==
  ASSUME NEW x, x.kind \in Kinds, x.at \in Places(x.kind)
  PROVE  /\ x.at = "idle" <=> x.kind = "none"
         /\ x.at \in {"check part", "part row"} => x.kind = "create part"
         /\ x.at = "stock row" => x.kind \in {"create part", "create stock"}
         /\ x.at \in {"find part", "name", "text", "cost"} => x.kind = "update part"
         /\ x.at \in {"delete stock", "delete part"} => x.kind = "delete part"
         /\ x.at = "insert product" => x.kind = "create product"
         /\ x.at = "change product" => x.kind = "update product"
         /\ x.at = "read product" => x.kind \in {"update product", "get product"}
         /\ x.at = "show product" => x.kind \in ProductKinds
         /\ x.at = "insert mapping" => x.kind = "create mapping"
         /\ x.at = "drop optimal" => x.kind \in {"create mapping", "rate vendor"}
         /\ x.at \in {"count receipts", "read receipts", "rate", "find mappings"} => x.kind = "rate vendor"
         /\ x.at \in {"find vendors", "score"} => x.kind = "get optimal"
         /\ x.at \in {"erase bom", "withdraw", "delete model"} => x.kind = "delete assembly"
         /\ x.at = "drop bom" => x.kind \in Writers \cup {"delete assembly"}
         /\ x.at \in {"resolve", "insert bom", "announce", "find model", "save model"} => x.kind \in Writers
         /\ x.at \in {"load bom", "cache bom"} => x.kind = "read bom"
<1>1. CASE x.kind = "none"
  BY <1>1 DEF Places, PartKinds, Writers, ProductKinds
<1>2. CASE x.kind \in PartKinds
  BY <1>2 DEF Places, PartPlaces, PartKinds, Writers, ProductKinds
<1>3. CASE x.kind \in ProductKinds
  BY <1>3 DEF Places, DirectoryPlaces, PartKinds, Writers, ProductKinds
<1>4. CASE x.kind \in {"create mapping", "rate vendor", "get optimal"}
  BY <1>4 DEF Places, DirectoryPlaces, PartKinds, Writers, ProductKinds
<1>5. CASE x.kind \in Writers
  BY <1>5 DEF Places, BillPlaces, PartKinds, Writers, ProductKinds
<1>6. CASE x.kind \in {"delete assembly", "read bom"}
  BY <1>6 DEF Places, BillPlaces, PartKinds, Writers, ProductKinds
<1> QED
  BY <1>1, <1>2, <1>3, <1>4, <1>5, <1>6 DEF Kinds

LEMMA Works ==
  \A x : x.kind \in PartKinds \cup ProductKinds \cup Writers
             \cup {"create mapping", "rate vendor", "get optimal", "delete assembly", "read bom"} => Rests(x)
  BY DEF Rests, PartKinds, ProductKinds, Writers

LEMMA PartPlacesAre ==
  /\ Places("create part") = {"check part", "part row", "stock row"}
  /\ Places("create stock") = {"stock row"}
  /\ Places("update part") = {"find part", "name", "text", "cost"}
  /\ Places("delete part") = {"delete stock", "delete part"}
  BY DEF Places, PartPlaces, PartKinds, Writers, ProductKinds

LEMMA DirectoryPlacesAre ==
  /\ Places("create product") = {"insert product", "show product"}
  /\ Places("update product") = {"change product", "read product", "show product"}
  /\ Places("get product") = {"read product", "show product"}
  /\ Places("create mapping") = {"insert mapping", "drop optimal"}
  /\ Places("rate vendor") = {"count receipts", "read receipts", "rate", "find mappings", "drop optimal"}
  /\ Places("get optimal") = {"find vendors", "score"}
  BY DEF Places, DirectoryPlaces, PartKinds, Writers, ProductKinds

LEMMA BillPlacesAre ==
  /\ Places("none") = {"idle"}
  /\ Places("delete assembly") = {"erase bom", "drop bom", "withdraw", "delete model"}
  /\ Places("read bom") = {"load bom", "cache bom"}
  /\ \A kind \in Writers :
       Places(kind) = {"resolve", "insert bom", "drop bom", "announce", "find model", "save model"}
  BY DEF Places, BillPlaces, PartKinds, Writers, ProductKinds

LEMMA IdleType == Idle \in RequestType /\ \A there : Serving(Idle, there)
<1>1. Idle \in RequestType
  BY DEF Idle, RequestType, Ats, Kinds, Arguments, Memories, Todos, FieldSets
<1>2. About(Idle) /\ \A there : Holds(Idle, there)
  BY DEF Idle, About, Holds, PartKinds, ProductKinds, Writers
<1> QED
  BY <1>1, <1>2, BillPlacesAre DEF Serving, Idle, MustHaveWritten, Rests

LEMMA IdleIs == Idle.at = "idle" /\ Idle.kind = "none" /\ Idle.on = {}
  BY DEF Idle

(* What a request may hold, and have left to do.                           *)
LEMMA Remembers ==
  \A h : (\/ h = None \/ h \in Nat \/ h \in Names \/ h \in Seq(PartIds) \/ h \subseteq PartIds \/ h \subseteq AllRows
          \/ h \in ModelRows \/ h \in Ratings \/ h \in Scores) => h \in Memories
<1> SUFFICES ASSUME NEW h,
                    \/ h = None \/ h \in Nat \/ h \in Names \/ h \in Seq(PartIds) \/ h \subseteq PartIds \/ h \subseteq AllRows
                    \/ h \in ModelRows \/ h \in Ratings \/ h \in Scores
             PROVE  h \in Memories
  OBVIOUS
<1>1. (h \subseteq PartIds => h \in PartSets) /\ (h \subseteq AllRows => h \in RowSets)
  BY DEF PartSets, RowSets
<1>2. CASE h \in PartSets \/ h \in RowSets
  BY <1>2 DEF Memories
<1>3. CASE h = None \/ h \in Nat \/ h \in Names \/ h \in Seq(PartIds)
  BY <1>3 DEF Memories
<1>4. CASE h \in ModelRows \/ h \in Ratings \/ h \in Scores
  BY <1>4 DEF Memories
<1> QED
  BY <1>1, <1>2, <1>3, <1>4

LEMMA SetsTodo == \A T : T \subseteq Offered \/ T \subseteq Vendors => T \in Todos
<1> SUFFICES ASSUME NEW T, T \subseteq Offered \/ T \subseteq Vendors PROVE T \in Todos
  OBVIOUS
<1>1. T \in OfferedSets \/ T \in VendorSets
  BY DEF OfferedSets, VendorSets
<1> QED
  BY <1>1 DEF Todos

(* A step leaves a request with its kind, subjects, key and argument, or   *)
(* ends it, and changes no other request.                                  *)
Same(x, y) == y.kind = x.kind /\ y.on = x.on /\ y.key = x.key /\ y.arg = x.arg
Turn(r, y) ==
    /\ req' = [req EXCEPT ![r] = y]
    /\ y \in RequestType
    /\ y = Idle \/ Same(req[r], y)
    /\ alone' \subseteq alone /\ calm' \subseteq calm

LEMMA SameAbout ==
  ASSUME NEW x, NEW y, Same(x, y), About(x)
  PROVE  About(y)
<1>1. Components(y) = Components(x)
  BY DEF Same, Components
<1> QED
  BY <1>1, ZenonT(60) DEF Same, About

LEMMA GrownServes ==
  ASSUME NEW x, NEW there, NEW more, Serving(x, there), there \subseteq more
  PROVE  Serving(x, more)
<1>1. Holds(x, more)
  BY DEF Serving, Holds
<1> QED
  BY <1>1 DEF Serving

LEMMA Served ==
  ASSUME RequestsOK, There \subseteq There', NEW r \in Requests, NEW y, Turn(r, y), Serving(y, There')
  PROVE  RequestsOK'
<1>1. \A q \in Requests : Serving(req[q], There')
  BY GrownServes DEF RequestsOK
<1> QED
  BY <1>1 DEF RequestsOK, Turn

-----------------------------------------------------------------------------
(* Steps about parts. *)

PartStep(r) ==
    \/ InsertPartRow(r) \/ InsertStockRow(r) \/ FindPart(r) \/ UpdateStockName(r) \/ UpdatePartRow(r)
    \/ UpdateStockCost(r) \/ DeleteStockRow(r) \/ DeletePartRows(r) \/ CheckPart(r)

LEMMA Endings ==
  ASSUME NEW r \in Requests, req' = [req EXCEPT ![r] = Idle], alone' \subseteq alone, calm' \subseteq calm
  PROVE  Turn(r, Idle)
  BY IdleType DEF Turn

LEMMA Ended ==
  ASSUME NEW r \in Requests, Answer(r) \/ Refuse(r) \/ Ignored(r, Idle)
  PROVE  Turn(r, Idle) /\ Serving(Idle, There')
<1>1. req' = [req EXCEPT ![r] = Idle]
  BY DEF Answer, Continue, Refuse, Ignored
<1>2. alone' \subseteq alone /\ calm' \subseteq calm
  BY DEF Answer, Continue, Refuse, Ignored, Spoil
<1> QED
  BY <1>1, <1>2, Endings, IdleType

LEMMA Goes ==
  ASSUME NEW r \in Requests, NEW y, Continue(r, y) \/ Ignored(r, y), y \in RequestType, Same(req[r], y)
  PROVE  Turn(r, y)
  BY DEF Continue, Ignored, Spoil, Turn

PartAts == {"check part", "part row", "stock row", "find part", "name", "text", "cost", "delete stock", "delete part"}
LEMMA PartsAt == \A kind \in PartKinds : Places(kind) \subseteq PartAts
<1> SUFFICES ASSUME NEW kind \in PartKinds PROVE Places(kind) \subseteq PartAts
  OBVIOUS
<1>1. CASE kind = "create part"
  BY <1>1, PartPlacesAre DEF PartAts
<1>2. CASE kind = "create stock"
  BY <1>2, PartPlacesAre DEF PartAts
<1>3. CASE kind = "update part"
  BY <1>3, PartPlacesAre DEF PartAts
<1>4. CASE kind = "delete part"
  BY <1>4, PartPlacesAre DEF PartAts
<1> QED
  BY <1>1, <1>2, <1>3, <1>4 DEF PartKinds

(* A request about a part holds nothing that its steps depend on.          *)
LEMMA PartServes ==
  ASSUME NEW x, NEW y, NEW there, Serving(x, there), x.kind \in PartKinds, Same(x, y),
         y.at \in Places(y.kind), MustHaveWritten(y) => y.wrote
  PROVE  Serving(y, there)
<1>1. About(y)
  BY SameAbout DEF Serving
<1>2. y.at \in PartAts
  BY PartsAt DEF Same
<1>3. Holds(y, there)
  BY <1>2 DEF PartAts, Serving, Holds, Same, PartKinds, Writers
<1>4. Rests(y)
  BY Works DEF Same
<1> QED
  BY <1>1, <1>3, <1>4 DEF Serving

LEMMA PartTurns ==
  ASSUME Types, NEW r \in Requests, PartStep(r)
  PROVE  req[r].kind \in PartKinds /\ \E y : Turn(r, y) /\ \A there : Serving(req[r], there) => Serving(y, there)
<1> PICK x : x = req[r]
  OBVIOUS
<1>1. x \in RequestType /\ Serving(x, There)
  BY DEF Types, RequestsOK
<1>2. x.kind \in Kinds /\ x.at \in Places(x.kind)
  BY <1>1 DEF RequestType, Serving
<1>3. ASSUME Answer(r) \/ Refuse(r)
      PROVE  \E y : Turn(r, y) /\ \A there : Serving(req[r], there) => Serving(y, there)
  BY <1>3, Ended, IdleType
<1>4. ASSUME x.kind \in PartKinds, NEW a \in Places(x.kind), NEW w \in BOOLEAN, NEW y,
             \/ y = [x EXCEPT !.at = a, !.wrote = w]
             \/ \E T \in Todos : y = [x EXCEPT !.at = a, !.todo = T, !.wrote = w],
             Continue(r, y) \/ Ignored(r, y),
             (a \in {"text", "delete part"} \/ (a = "stock row" /\ x.kind = "create part")) => w
      PROVE  \E z : Turn(r, z) /\ \A there : Serving(req[r], there) => Serving(z, there)
  <2>1. a \in PartAts /\ a \in Ats
    BY <1>4, PartsAt DEF PartAts, Ats
  <2>2. y \in RequestType /\ Same(x, y) /\ y.at = a /\ y.wrote = w
    BY <1>1, <1>4, <2>1 DEF RequestType, Same
  <2>3. MustHaveWritten(y) => y.wrote
    BY <1>4, <2>1, <2>2 DEF MustHaveWritten, PartAts, Same
  <2>4. Turn(r, y)
    BY <1>4, <2>2, Goes
  <2>5. \A there : Serving(x, there) => Serving(y, there)
    BY <1>4, <2>2, <2>3, PartServes DEF Same
  <2> QED
    BY <2>4, <2>5
<1>5. ASSUME x.kind \in PartKinds, NEW a \in Places(x.kind), NEW y, y = [x EXCEPT !.at = a],
             Continue(r, y) \/ Ignored(r, y), a \in {"part row"}
      PROVE  \E z : Turn(r, z) /\ \A there : Serving(req[r], there) => Serving(z, there)
  <2>1. y \in RequestType /\ Same(x, y) /\ y.at = a
    BY <1>1, <1>5, ZenonT(60) DEF RequestType, Same, Ats
  <2>2. ~MustHaveWritten(y)
    BY <1>5, <2>1 DEF MustHaveWritten
  <2>3. \A there : Serving(x, there) => Serving(y, there)
    BY <1>5, <2>1, <2>2, PartServes DEF Same
  <2> QED
    BY <1>5, <2>1, <2>3, Goes
<1>6. CASE InsertPartRow(r)
  <2>1. x.kind = "create part"
    BY <1>2, <1>6, KindAt DEF InsertPartRow, At
  <2>2. Continue(r, [x EXCEPT !.at = "stock row", !.wrote = TRUE])
    BY <1>6 DEF InsertPartRow, Wrote
  <2>3. x.kind \in PartKinds /\ "stock row" \in Places(x.kind)
    BY <2>1, PartPlacesAre DEF PartKinds
  <2> QED
    BY <1>4, <2>2, <2>3
<1>7. CASE InsertStockRow(r)
  <2>1. x.kind \in PartKinds
    BY <1>2, <1>7, KindAt DEF InsertStockRow, At, PartKinds
  <2> QED
    BY <1>3, <1>7, <2>1 DEF InsertStockRow
<1>8. ASSUME NEW f, x.kind = "update part", NextField(r, f), (f = "none" /\ x.at = "find part") \/ f = "description"
      PROVE  \E y : Turn(r, y) /\ \A there : Serving(req[r], there) => Serving(y, there)
  <2>1. CASE After(r, f) = "done"
    BY <1>3, <1>8, <2>1 DEF NextField
  <2>2. CASE After(r, f) # "done"
    <3>1. After(r, f) \in {"name", "cost"}
      BY <2>2 DEF After
    <3>2. Continue(r, [x EXCEPT !.at = After(r, f), !.todo = x.todo \ {f}, !.wrote = (f # "none")])
      BY <1>8, <2>2 DEF NextField
    <3>3. x.todo \ {f} \in Todos
      BY <1>1 DEF RequestType, Todos, FieldSets, OfferedSets, VendorSets
    <3>4. After(r, f) \in Places(x.kind) /\ (f # "none") \in BOOLEAN
      BY <1>8, <3>1, PartPlacesAre
    <3>5. After(r, f) \notin {"text", "delete part", "stock row"}
      BY <3>1
    <3> QED
      BY <1>4, <1>8, <3>2, <3>3, <3>4, <3>5 DEF PartKinds
  <2> QED
    BY <2>1, <2>2
<1>9. CASE FindPart(r)
  <2>1. x.kind = "update part" /\ x.at = "find part"
    BY <1>2, <1>9, KindAt DEF FindPart, At
  <2>2. Refuse(r) \/ NextField(r, "none")
    BY <1>9 DEF FindPart
  <2> QED
    BY <1>3, <1>8, <2>1, <2>2 DEF PartKinds
<1>10. CASE UpdateStockName(r)
  <2>1. x.kind = "update part"
    BY <1>2, <1>10, KindAt DEF UpdateStockName, At
  <2>2. Refuse(r) \/ Continue(r, [x EXCEPT !.at = "text", !.wrote = TRUE])
    BY <1>10 DEF UpdateStockName, Wrote
  <2>3. x.kind \in PartKinds /\ "text" \in Places(x.kind)
    BY <2>1, PartPlacesAre DEF PartKinds
  <2> QED
    BY <1>3, <1>4, <2>2, <2>3
<1>11. CASE UpdatePartRow(r)
  <2>1. x.kind = "update part"
    BY <1>2, <1>11, KindAt DEF UpdatePartRow, At
  <2>2. Refuse(r) \/ NextField(r, "description")
    BY <1>11 DEF UpdatePartRow
  <2> QED
    BY <1>3, <1>8, <2>1, <2>2 DEF PartKinds
<1>12. CASE UpdateStockCost(r)
  <2>1. x.kind = "update part"
    BY <1>2, <1>12, KindAt DEF UpdateStockCost, At
  <2> QED
    BY <1>3, <1>12, <2>1 DEF UpdateStockCost, PartKinds
<1>13. CASE DeleteStockRow(r)
  <2>1. x.kind = "delete part"
    BY <1>2, <1>13, KindAt DEF DeleteStockRow, At
  <2>2. Refuse(r) \/ Continue(r, [x EXCEPT !.at = "delete part", !.wrote = TRUE])
    BY <1>13 DEF DeleteStockRow, Wrote
  <2>3. x.kind \in PartKinds /\ "delete part" \in Places(x.kind)
    BY <2>1, PartPlacesAre DEF PartKinds
  <2> QED
    BY <1>3, <1>4, <2>2, <2>3
<1>14. CASE DeletePartRows(r)
  <2>1. x.kind = "delete part"
    BY <1>2, <1>14, KindAt DEF DeletePartRows, At
  <2> QED
    BY <1>3, <1>14, <2>1 DEF DeletePartRows, PartKinds
<1>15. CASE CheckPart(r)
  <2>1. x.kind = "create part"
    BY <1>2, <1>15, KindAt DEF CheckPart, At
  <2>2. Refuse(r) \/ Continue(r, [x EXCEPT !.at = "part row"]) \/ Ignored(r, [x EXCEPT !.at = "part row"])
    BY <1>15 DEF CheckPart, Goto
  <2> QED
    BY <1>3, <1>5, <2>1, <2>2, PartPlacesAre DEF PartKinds
<1> QED
  BY <1>6, <1>7, <1>9, <1>10, <1>11, <1>12, <1>13, <1>14, <1>15 DEF PartStep

-----------------------------------------------------------------------------
(* Steps about products. *)

ProductStep(r) == InsertProduct(r) \/ ChangeProduct(r) \/ GetProductByID(r) \/ SetProduct(r)
ProductAts == {"insert product", "show product", "change product", "read product"}

LEMMA ProductsAt == \A kind \in ProductKinds : Places(kind) \subseteq ProductAts
<1> SUFFICES ASSUME NEW kind \in ProductKinds PROVE Places(kind) \subseteq ProductAts
  OBVIOUS
<1>1. CASE kind = "create product"
  BY <1>1, DirectoryPlacesAre DEF ProductAts
<1>2. CASE kind = "update product"
  BY <1>2, DirectoryPlacesAre DEF ProductAts
<1>3. CASE kind = "get product"
  BY <1>3, DirectoryPlacesAre DEF ProductAts
<1> QED
  BY <1>1, <1>2, <1>3 DEF ProductKinds

LEMMA ThereIs ==
  /\ \A p \in Products : p \in There <=> product[p] # None
  /\ \A v \in Vendors : v \in There <=> rating[v] # None
  BY SubjectsAssumption DEF There

LEMMA ThereGrows ==
  ASSUME \A p \in Products : product[p] # None => product'[p] # None,
         \A v \in Vendors : rating[v] # None => rating'[v] # None
  PROVE  There \subseteq There'
  BY DEF There

(* A request about a product.                                              *)
LEMMA ProductServes ==
  ASSUME NEW x, NEW y, NEW there, About(x), x.kind \in ProductKinds, Same(x, y),
         y.at \in Places(y.kind), MustHaveWritten(y) => y.wrote,
         y.at = "show product" => y.held \in Names /\ y.key \in there
  PROVE  Serving(y, there)
<1>1. About(y)
  BY SameAbout
<1>2. y.at \in ProductAts
  BY ProductsAt DEF Same
<1>3. Holds(y, there)
  BY <1>2 DEF ProductAts, Holds, Same, ProductKinds, Writers
<1>4. Rests(y)
  BY Works DEF Same
<1> QED
  BY <1>1, <1>3, <1>4 DEF Serving

LEMMA ProductTurns ==
  ASSUME Types, NEW r \in Requests, ProductStep(r)
  PROVE  /\ req[r].kind \in ProductKinds /\ ProductsOK' /\ There \subseteq There'
         /\ \E y : Turn(r, y) /\ Serving(y, There')
<1> PICK x, p : x = req[r] /\ p = req[r].key
  OBVIOUS
<1>1. x \in RequestType /\ Serving(x, There) /\ ProductsOK
  BY DEF Types, RequestsOK
<1>2. x.kind \in Kinds /\ x.at \in Places(x.kind) /\ About(x) /\ Holds(x, There)
  BY <1>1 DEF RequestType, Serving
<1>3. UNCHANGED rating
  BY DEF ProductStep, InsertProduct, ChangeProduct, GetProductByID, SetProduct, vendorVars, directory
<1>4. CASE InsertProduct(r)
  <2>1. x.kind = "create product" /\ p \in Products /\ x.arg \in Names
    BY <1>2, <1>4, KindAt DEF InsertProduct, At, About, ProductKinds
  <2>2. UNCHANGED shown
    BY <1>4 DEF InsertProduct
  <2>3. CASE product[p] # None
    <3>1. Refuse(r) /\ UNCHANGED product
      BY <1>4, <2>3 DEF InsertProduct
    <3> QED
      BY <1>1, <1>3, <2>1, <2>2, <3>1, Ended, ThereGrows DEF ProductsOK, ProductKinds
  <2>4. CASE product[p] = None
    <3> PICK y : y = [x EXCEPT !.at = "show product", !.held = x.arg, !.wrote = TRUE]
      OBVIOUS
    <3>1. product' = [product EXCEPT ![p] = x.arg] /\ Continue(r, y)
      BY <1>4, <2>4 DEF InsertProduct
    <3>2. product'[p] = x.arg /\ x.arg # None
      BY <1>1, <2>1, <3>1, DirectoryAssumption DEF ProductsOK
    <3>3. ProductsOK'
      BY <1>1, <2>1, <2>2, <3>1, <3>2 DEF ProductsOK
    <3>4. There \subseteq There'
      BY <1>1, <1>3, <2>1, <3>1, <3>2, ThereGrows DEF ProductsOK
    <3>5. p \in There'
      BY <2>1, <3>2 DEF There
    <3>6. y \in RequestType /\ Same(x, y) /\ y.at = "show product" /\ y.held = x.arg /\ y.wrote = TRUE
      BY <1>1, <2>1, ZenonT(60) DEF RequestType, Same, Ats, Memories
    <3>7. Serving(y, There')
      BY <1>2, <2>1, <3>5, <3>6, DirectoryPlacesAre, ProductServes, ZenonT(60) DEF Same, ProductKinds
    <3> QED
      BY <2>1, <3>1, <3>3, <3>4, <3>6, <3>7, Goes DEF ProductKinds
  <2> QED
    BY <2>3, <2>4
<1>5. CASE ChangeProduct(r)
  <2>1. x.kind = "update product" /\ p \in Products /\ x.arg \in Names
    BY <1>2, <1>5, KindAt DEF ChangeProduct, At, About, ProductKinds
  <2>2. UNCHANGED shown
    BY <1>5 DEF ChangeProduct
  <2>3. CASE product[p] = None
    <3>1. Refuse(r) /\ UNCHANGED product
      BY <1>5, <2>3 DEF ChangeProduct
    <3> QED
      BY <1>1, <1>3, <2>1, <2>2, <3>1, Ended, ThereGrows DEF ProductsOK, ProductKinds
  <2>4. CASE product[p] # None
    <3> PICK y : y = [x EXCEPT !.at = "read product", !.wrote = TRUE]
      OBVIOUS
    <3>1. product' = [product EXCEPT ![p] = x.arg] /\ Continue(r, y)
      BY <1>5, <2>4 DEF ChangeProduct, Wrote
    <3>2. product'[p] = x.arg /\ x.arg # None
      BY <1>1, <2>1, <3>1, DirectoryAssumption DEF ProductsOK
    <3>3. ProductsOK'
      BY <1>1, <2>1, <2>2, <3>1, <3>2 DEF ProductsOK
    <3>4. There \subseteq There'
      BY <1>1, <1>3, <2>1, <3>1, <3>2, ThereGrows DEF ProductsOK
    <3>6. y \in RequestType /\ Same(x, y) /\ y.at = "read product" /\ y.wrote = TRUE
      BY <1>1, <2>1, ZenonT(60) DEF RequestType, Same, Ats
    <3>7. Serving(y, There')
      BY <1>2, <2>1, <3>6, DirectoryPlacesAre, ProductServes, ZenonT(60) DEF Same, ProductKinds
    <3> QED
      BY <2>1, <3>1, <3>3, <3>4, <3>6, <3>7, Goes DEF ProductKinds
  <2> QED
    BY <2>3, <2>4
<1>6. CASE GetProductByID(r)
  <2>1. x.kind \in {"update product", "get product"} /\ x.kind \in ProductKinds /\ p \in Products /\ x.at = "read product"
    BY <1>2, <1>6, KindAt DEF GetProductByID, At, About, ProductKinds
  <2>2. UNCHANGED <<product, shown>>
    BY <1>6 DEF GetProductByID, directory
  <2>3. ProductsOK' /\ There \subseteq There'
    BY <1>1, <1>3, <2>2, ThereGrows DEF ProductsOK
  <2>4. CASE product[p] = None
    BY <1>6, <2>1, <2>3, <2>4, Ended DEF GetProductByID
  <2>5. CASE product[p] # None
    <3> PICK y : y = [x EXCEPT !.at = "show product", !.held = product[p]]
      OBVIOUS
    <3>1. Continue(r, y)
      BY <1>6, <2>5 DEF GetProductByID
    <3>2. product[p] \in Names /\ p \in There
      BY <1>1, <2>1, <2>5 DEF ProductsOK, There
    <3>3. y \in RequestType /\ Same(x, y) /\ y.at = "show product" /\ y.held = product[p] /\ y.wrote = x.wrote
      BY <1>1, <3>2, ZenonT(60) DEF RequestType, Same, Ats, Memories
    <3>4. MustHaveWritten(y) => MustHaveWritten(x)
      BY <2>1, <3>3 DEF MustHaveWritten, Same
    <3>5. y.at \in Places(y.kind)
      BY <2>1, <3>3, DirectoryPlacesAre, ZenonT(60) DEF Same
    <3>6. MustHaveWritten(y) => y.wrote
      BY <1>1, <3>3, <3>4 DEF Serving
    <3>7. y.held \in Names /\ y.key \in There'
      BY <2>3, <3>2, <3>3 DEF Same
    <3>8. Serving(y, There')
      BY <1>2, <2>1, <3>3, <3>5, <3>6, <3>7, ProductServes
    <3> QED
      BY <2>1, <2>3, <3>1, <3>3, <3>8, Goes
  <2> QED
    BY <2>4, <2>5
<1>7. CASE SetProduct(r)
  <2>1. x.kind \in ProductKinds /\ p \in Products /\ x.at = "show product"
    BY <1>2, <1>7, KindAt DEF SetProduct, At, About
  <2>2. UNCHANGED product /\ (UNCHANGED shown \/ shown' = [shown EXCEPT ![p] = x.held])
    BY <1>7 DEF SetProduct
  <2>3. x.held \in Names /\ product[p] # None
    BY <1>2, <2>1, ThereIs DEF Holds
  <2>4. ProductsOK' /\ There \subseteq There'
    BY <1>1, <1>3, <2>1, <2>2, <2>3, ThereGrows DEF ProductsOK
  <2> QED
    BY <1>7, <2>1, <2>4, Ended DEF SetProduct
<1> QED
  BY <1>4, <1>5, <1>6, <1>7 DEF ProductStep

-----------------------------------------------------------------------------
(* Steps about vendors. *)

VendorStep(r) ==
    \/ InsertMapping(r) \/ DeleteOptimalSupplier(r) \/ CountGoodsReceiptsByVendor(r) \/ FindGoodsReceiptsByVendor(r)
    \/ UpdateSupplier(r) \/ FindSkuMappingsBySupplierID(r) \/ FindSkuMappingsBySKU(r) \/ ScoreSupplier(r)
    \/ SetOptimalSupplier(r)
VendorKinds == {"create mapping", "rate vendor", "get optimal"}
VendorAts == {"insert mapping", "drop optimal", "count receipts", "read receipts", "rate", "find mappings",
              "find vendors", "score"}

LEMMA VendorsAt == \A kind \in VendorKinds : Places(kind) \subseteq VendorAts
<1> SUFFICES ASSUME NEW kind \in VendorKinds PROVE Places(kind) \subseteq VendorAts
  OBVIOUS
<1>1. CASE kind = "create mapping"
  BY <1>1, DirectoryPlacesAre DEF VendorAts
<1>2. CASE kind = "rate vendor"
  BY <1>2, DirectoryPlacesAre DEF VendorAts
<1>3. CASE kind = "get optimal"
  BY <1>3, DirectoryPlacesAre DEF VendorAts
<1> QED
  BY <1>1, <1>2, <1>3 DEF VendorKinds

(* The cheapest of some vendors is one of them, and there is one only.     *)
LEMMA CheapestIs ==
  ASSUME NEW S \in SUBSET Vendors, S # {}
  PROVE  Cheapest(S) \in S /\ \A w \in S : Price[Cheapest(S)] <= Price[w]
<1> DEFINE T == {Price[v] : v \in S}
<1>1. T \in SUBSET Nat /\ T # {}
  BY PriceAssumption
<1>2. PICK n \in T : \A m \in T : n <= m
  BY <1>1, Least
<1>3. \E v \in S : \A w \in S : Price[v] <= Price[w]
  BY <1>2
<1> QED
  BY <1>3 DEF Cheapest

LEMMA CheapestAlone ==
  ASSUME NEW S \in SUBSET Vendors, NEW v \in S, \A w \in S : Price[v] <= Price[w]
  PROVE  Cheapest(S) = v
<1>1. Cheapest(S) \in S /\ Price[Cheapest(S)] <= Price[v]
  BY CheapestIs
<1>2. Price[v] <= Price[Cheapest(S)] /\ Price[v] \in Nat /\ Price[Cheapest(S)] \in Nat
  BY <1>1, PriceAssumption
<1>3. Price[v] = Price[Cheapest(S)]
  BY <1>1, <1>2
<1> QED
  BY <1>1, <1>3, PriceAssumption

LEMMA RatingType ==
  ASSUME NEW n \in Nat \ {0}, NEW complete \in Nat, NEW defects \in Nat
  PROVE  Rating(n, complete, defects) \in Ratings
<1>1. (complete * 100) \div n \in Nat
  OBVIOUS
<1>2. 100 - (defects * 100) \div n \in Int
  OBVIOUS
<1> QED
  BY <1>1, <1>2 DEF Rating, Ratings

LEMMA ScoreType ==
  ASSUME NEW v \in Vendors, NEW rate \in Ratings
  PROVE  Score(v, rate) \in Int
<1>1. Price[v] \in Nat /\ rate.quality \in Int /\ rate.onTime \in Nat
  BY PriceAssumption DEF Ratings
<1> QED
  BY <1>1 DEF Score

LEMMA BetterType ==
  ASSUME NEW best \in Scores, NEW v \in Vendors, NEW rate \in Ratings
  PROVE  Better(best, v, rate) \in Scores
  BY ScoreType DEF Better, Scores

(* What a request about vendors holds on the way.                          *)
VendorHolds(x, there) ==
    /\ x.kind = "rate vendor" => x.key \in there
    /\ x.kind = "create mapping" => x.arg \in there
    /\ x.at = "read receipts" => x.held \in Nat \ {0}
    /\ x.at = "rate" => x.held \in Ratings
    /\ x.at = "insert mapping" => x.todo = {x.key}
    /\ x.at = "drop optimal" => x.todo \subseteq Offered
    /\ x.at = "score" => x.todo \subseteq Vendors \cap there /\ x.held \in Scores

LEMMA VendorServes ==
  ASSUME NEW x, NEW y, NEW there, About(x), x.kind \in VendorKinds, Same(x, y),
         y.at \in Places(y.kind), MustHaveWritten(y) => y.wrote, VendorHolds(y, there)
  PROVE  Serving(y, there)
<1>1. About(y)
  BY SameAbout
<1>2. y.at \in VendorAts
  BY VendorsAt DEF Same
<1>3. Holds(y, there)
  BY <1>2 DEF VendorAts, VendorHolds, Holds
<1>4. Rests(y)
  BY Works DEF Same, VendorKinds
<1> QED
  BY <1>1, <1>3, <1>4 DEF Serving

(* A step that goes on: where to, holding what, with what to do.           *)
LEMMA VendorGoes ==
  ASSUME NEW r \in Requests, req[r] \in RequestType, About(req[r]), req[r].kind \in VendorKinds,
         NEW there, NEW a \in VendorAts, a \in Places(req[r].kind), NEW y,
         Continue(r, y) \/ Ignored(r, y), y \in RequestType, Same(req[r], y), y.at = a,
         a \in {"find mappings", "drop optimal"} => y.wrote, VendorHolds(y, there)
  PROVE  Turn(r, y) /\ Serving(y, there)
<1>1. y.at \in Places(y.kind) /\ y.kind \in VendorKinds
  BY DEF Same
<1>2. MustHaveWritten(y) => y.wrote
  BY <1>1 DEF MustHaveWritten, VendorAts
<1> QED
  BY <1>1, <1>2, Goes, VendorServes

LEMMA MappingTypes ==
  ASSUME VendorsOK, There \subseteq There', rating' \in [Vendors -> Ratings \cup {None}],
         optimal' \in [Offered -> Vendors \cup {None}], UNCHANGED <<mapping, receipts>>
  PROVE  VendorsOK'
  BY DEF VendorsOK

LEMMA VendorTurns ==
  ASSUME Types, NEW r \in Requests, VendorStep(r)
  PROVE  /\ req[r].kind \in VendorKinds /\ VendorsOK' /\ There \subseteq There'
         /\ \E y : Turn(r, y) /\ Serving(y, There')
<1> PICK x, k : x = req[r] /\ k = req[r].key
  OBVIOUS
<1>1. x \in RequestType /\ Serving(x, There) /\ VendorsOK
  BY DEF Types, RequestsOK
<1>2. x.kind \in Kinds /\ x.at \in Places(x.kind) /\ About(x) /\ Holds(x, There)
  BY <1>1 DEF RequestType, Serving
<1>3. /\ x.kind = "rate vendor" => k \in There /\ k \in Vendors
      /\ x.kind = "create mapping" => x.arg \in There /\ x.arg \in Vendors /\ k \in Offered
      /\ x.kind = "get optimal" => k \in Offered
  BY <1>2 DEF Holds, About
<1>4. UNCHANGED product
  BY DEF VendorStep, InsertMapping, DeleteOptimalSupplier, CountGoodsReceiptsByVendor, FindGoodsReceiptsByVendor,
         UpdateSupplier, FindSkuMappingsBySupplierID, FindSkuMappingsBySKU, ScoreSupplier, SetOptimalSupplier,
         directory, productVars
<1>5. ASSUME UNCHANGED rating PROVE There \subseteq There'
  BY <1>4, <1>5, ThereGrows
<1>6. ASSUME UNCHANGED <<rating, mapping, receipts, optimal>> PROVE VendorsOK' /\ There \subseteq There'
  BY <1>1, <1>5, <1>6 DEF VendorsOK
<1>7. ASSUME NEW a \in VendorAts, a \in Places(x.kind), x.kind \in VendorKinds, NEW y,
             Continue(r, y) \/ Ignored(r, y), y \in RequestType, Same(x, y), y.at = a,
             a \in {"find mappings", "drop optimal"} => y.wrote, VendorHolds(y, There')
      PROVE  \E z : Turn(r, z) /\ Serving(z, There')
  BY <1>1, <1>2, <1>7, VendorGoes
<1>8. CASE InsertMapping(r)
  <2>1. x.kind = "create mapping"
    BY <1>2, <1>8, KindAt DEF InsertMapping, At
  <2> PICK y : y = [x EXCEPT !.at = "drop optimal", !.wrote = TRUE]
    OBVIOUS
  <2>2. mapping' = [mapping EXCEPT ![k] = mapping[k] \cup {x.arg}] /\ UNCHANGED <<rating, receipts, optimal>>
    BY <1>8 DEF InsertMapping
  <2>3. Continue(r, y)
    BY <1>8 DEF InsertMapping, Wrote
  <2>4. There \subseteq There'
    BY <1>5, <2>2
  <2>5. VendorsOK'
    BY <1>1, <1>3, <2>1, <2>2, <2>4 DEF VendorsOK
  <2>6. y \in RequestType /\ Same(x, y) /\ y.at = "drop optimal" /\ y.wrote = TRUE /\ y.todo = x.todo
    BY <1>1 DEF RequestType, Same, Ats
  <2>7. y.todo \subseteq Offered
    BY <1>2, <1>3, <1>8, <2>1, <2>6 DEF Holds, InsertMapping, At
  <2>8. y.kind = "create mapping" /\ y.arg \in There'
    BY <1>3, <2>1, <2>4, <2>6 DEF Same
  <2>9. VendorHolds(y, There')
    BY <2>6, <2>7, <2>8 DEF VendorHolds
  <2> QED
    BY <1>7, <2>1, <2>3, <2>4, <2>5, <2>6, <2>9, DirectoryPlacesAre DEF VendorAts, VendorKinds
<1>9. CASE DeleteOptimalSupplier(r)
  <2>1. x.kind \in {"create mapping", "rate vendor"} /\ x.at = "drop optimal" /\ x.todo \subseteq Offered
    BY <1>2, <1>9, KindAt DEF DeleteOptimalSupplier, At, Holds
  <2>2. UNCHANGED <<rating, mapping, receipts>> /\ There \subseteq There'
    BY <1>5, <1>9 DEF DeleteOptimalSupplier
  <2>3. CASE x.todo = {}
    <3>1. Answer(r) /\ UNCHANGED optimal
      BY <1>9, <2>3 DEF DeleteOptimalSupplier
    <3> QED
      BY <1>6, <2>1, <2>2, <3>1, Ended DEF VendorKinds
  <2>4. CASE x.todo # {}
    <3>1. PICK s \in x.todo :
            \/ Continue(r, [x EXCEPT !.todo = x.todo \ {s}]) /\ optimal' = [optimal EXCEPT ![s] = None]
            \/ Ignored(r, [x EXCEPT !.todo = x.todo \ {s}]) /\ UNCHANGED optimal
      BY <1>9, <2>4 DEF DeleteOptimalSupplier
    <3> PICK y : y = [x EXCEPT !.todo = x.todo \ {s}]
      OBVIOUS
    <3>2. optimal' \in [Offered -> Vendors \cup {None}]
      BY <1>1, <2>1, <3>1 DEF VendorsOK
    <3>3. VendorsOK'
      BY <1>1, <2>2, <3>2 DEF VendorsOK
    <3>4. x.todo \ {s} \in Todos
      BY <2>1, SetsTodo
    <3>5. y \in RequestType /\ Same(x, y) /\ y.at = "drop optimal" /\ y.wrote = x.wrote /\ y.todo \subseteq Offered
      BY <1>1, <2>1, <3>4 DEF RequestType, Same
    <3>6. x.wrote
      BY <1>1, <2>1 DEF Serving, MustHaveWritten
    <3>7. VendorHolds(y, There')
      BY <1>3, <2>2, <3>5 DEF VendorHolds, Same
    <3>8. "drop optimal" \in Places(x.kind)
      BY <2>1, DirectoryPlacesAre
    <3> QED
      BY <1>7, <2>1, <2>2, <3>1, <3>3, <3>5, <3>6, <3>7, <3>8 DEF VendorAts, VendorKinds
  <2> QED
    BY <2>3, <2>4
<1>10. CASE CountGoodsReceiptsByVendor(r)
  <2>1. x.kind = "rate vendor" /\ k \in Vendors
    BY <1>2, <1>3, <1>10, KindAt DEF CountGoodsReceiptsByVendor, At
  <2>2. VendorsOK' /\ There \subseteq There'
    BY <1>6, <1>10 DEF CountGoodsReceiptsByVendor, directory
  <2>3. receipts[k].all \in Nat
    BY <1>1, <2>1 DEF VendorsOK
  <2>4. CASE receipts[k].all = 0
    <3> PICK got : got = [quality |-> 100, onTime |-> 0]
      OBVIOUS
    <3> PICK y : y = [x EXCEPT !.at = "rate", !.held = got]
      OBVIOUS
    <3>1. Continue(r, y)
      BY <1>10, <2>4 DEF CountGoodsReceiptsByVendor
    <3>2. got \in Ratings
      BY DEF Ratings
    <3>3. y \in RequestType /\ Same(x, y) /\ y.at = "rate" /\ y.held = got
      BY <1>1, <3>2, Remembers, ZenonT(60) DEF RequestType, Same, Ats
    <3>4. VendorHolds(y, There')
      BY <1>3, <2>1, <2>2, <3>2, <3>3 DEF VendorHolds, Same
    <3> QED
      BY <1>7, <2>1, <2>2, <3>1, <3>3, <3>4, DirectoryPlacesAre DEF VendorAts, VendorKinds
  <2>5. CASE receipts[k].all # 0
    <3> PICK y : y = [x EXCEPT !.at = "read receipts", !.held = receipts[k].all]
      OBVIOUS
    <3>1. Continue(r, y)
      BY <1>10, <2>5 DEF CountGoodsReceiptsByVendor
    <3>3. y \in RequestType /\ Same(x, y) /\ y.at = "read receipts" /\ y.held = receipts[k].all
      BY <1>1, <2>3, Remembers, ZenonT(60) DEF RequestType, Same, Ats
    <3>4. VendorHolds(y, There')
      BY <1>3, <2>1, <2>2, <2>3, <2>5, <3>3 DEF VendorHolds, Same
    <3> QED
      BY <1>7, <2>1, <2>2, <3>1, <3>3, <3>4, DirectoryPlacesAre DEF VendorAts, VendorKinds
  <2> QED
    BY <2>4, <2>5
<1>11. CASE FindGoodsReceiptsByVendor(r)
  <2>1. x.kind = "rate vendor" /\ k \in Vendors /\ x.held \in Nat \ {0}
    BY <1>2, <1>3, <1>11, KindAt DEF FindGoodsReceiptsByVendor, At, Holds
  <2>2. VendorsOK' /\ There \subseteq There'
    BY <1>6, <1>11 DEF FindGoodsReceiptsByVendor, directory
  <2> PICK got : got = Rating(x.held, receipts[k].complete, receipts[k].defects)
    OBVIOUS
  <2> PICK y : y = [x EXCEPT !.at = "rate", !.held = got]
    OBVIOUS
  <2>3. Continue(r, y)
    BY <1>1, <1>11 DEF FindGoodsReceiptsByVendor, RequestType
  <2>4. got \in Ratings
    BY <1>1, <2>1, RatingType, ZenonT(60) DEF VendorsOK
  <2>5. y \in RequestType /\ Same(x, y) /\ y.at = "rate" /\ y.held = got
    BY <1>1, <2>4, Remembers, ZenonT(60) DEF RequestType, Same, Ats
  <2>6. VendorHolds(y, There')
    BY <1>3, <2>1, <2>2, <2>4, <2>5 DEF VendorHolds, Same
  <2> QED
    BY <1>7, <2>1, <2>2, <2>3, <2>5, <2>6, DirectoryPlacesAre DEF VendorAts, VendorKinds
<1>12. CASE UpdateSupplier(r)
  <2>1. x.kind = "rate vendor" /\ k \in Vendors /\ x.held \in Ratings
    BY <1>2, <1>3, <1>12, KindAt DEF UpdateSupplier, At, Holds
  <2> PICK y : y = [x EXCEPT !.at = "find mappings", !.wrote = TRUE]
    OBVIOUS
  <2>2. rating' = [rating EXCEPT ![k] = x.held] /\ UNCHANGED <<mapping, receipts, optimal>> /\ Continue(r, y)
    BY <1>12 DEF UpdateSupplier, Wrote
  <2>3. There \subseteq There'
    BY <1>1, <1>4, <2>1, <2>2, ThereGrows, DirectoryAssumption DEF VendorsOK, Ratings
  <2>4. rating' \in [Vendors -> Ratings \cup {None}]
    BY <1>1, <2>1, <2>2 DEF VendorsOK
  <2>5. VendorsOK'
    BY <1>1, <2>2, <2>3, <2>4 DEF VendorsOK
  <2>6. y \in RequestType /\ Same(x, y) /\ y.at = "find mappings" /\ y.wrote = TRUE
    BY <1>1 DEF RequestType, Same, Ats
  <2>7. VendorHolds(y, There')
    BY <1>3, <2>1, <2>3, <2>6 DEF VendorHolds, Same
  <2> QED
    BY <1>7, <2>1, <2>2, <2>3, <2>5, <2>6, <2>7, DirectoryPlacesAre DEF VendorAts, VendorKinds
<1>13. CASE FindSkuMappingsBySupplierID(r)
  <2>1. x.kind = "rate vendor" /\ x.at = "find mappings"
    BY <1>2, <1>13, KindAt DEF FindSkuMappingsBySupplierID, At
  <2>2. VendorsOK' /\ There \subseteq There'
    BY <1>6, <1>13 DEF FindSkuMappingsBySupplierID, directory
  <2> PICK T : T = {s \in Offered : k \in mapping[s]}
    OBVIOUS
  <2> PICK y : y = [x EXCEPT !.at = "drop optimal", !.todo = T]
    OBVIOUS
  <2>3. Continue(r, y) \/ Ignored(r, Idle)
    BY <1>13 DEF FindSkuMappingsBySupplierID
  <2>4. T \in Todos /\ T \subseteq Offered
    BY SetsTodo
  <2>5. y \in RequestType /\ Same(x, y) /\ y.at = "drop optimal" /\ y.wrote = x.wrote /\ y.todo = T
    BY <1>1, <2>4 DEF RequestType, Same, Ats
  <2>6. x.wrote
    BY <1>1, <2>1 DEF Serving, MustHaveWritten
  <2>7. VendorHolds(y, There')
    BY <1>3, <2>1, <2>2, <2>4, <2>5 DEF VendorHolds, Same
  <2>8. CASE Continue(r, y)
    BY <1>7, <2>1, <2>2, <2>5, <2>6, <2>7, <2>8, DirectoryPlacesAre DEF VendorAts, VendorKinds
  <2> QED
    BY <2>1, <2>2, <2>3, <2>8, Ended DEF VendorKinds
<1>14. CASE FindSkuMappingsBySKU(r)
  <2>1. x.kind = "get optimal" /\ k \in Offered
    BY <1>2, <1>3, <1>14, KindAt DEF FindSkuMappingsBySKU, At
  <2>2. VendorsOK' /\ There \subseteq There'
    BY <1>6, <1>14 DEF FindSkuMappingsBySKU, directory
  <2> PICK T : T = mapping[k]
    OBVIOUS
  <2> PICK y : y = [x EXCEPT !.at = "score", !.todo = T, !.held = NothingYet]
    OBVIOUS
  <2>3. Continue(r, y) \/ Refuse(r)
    BY <1>14 DEF FindSkuMappingsBySKU
  <2>4. T \in Todos /\ T \subseteq Vendors \cap There /\ NothingYet \in Scores
    <3>1. T \subseteq Vendors /\ T \subseteq There
      BY <1>1, <2>1 DEF VendorsOK
    <3>2. NothingYet \in Scores
      BY DEF NothingYet, Lowest, Scores
    <3> QED
      BY <3>1, <3>2, SetsTodo
  <2>5. y \in RequestType /\ Same(x, y) /\ y.at = "score" /\ y.todo = T /\ y.held = NothingYet
    BY <1>1, <2>4, Remembers DEF RequestType, Same, Ats
  <2>6. VendorHolds(y, There')
    BY <2>1, <2>2, <2>4, <2>5 DEF VendorHolds, Same
  <2>7. CASE Continue(r, y)
    BY <1>7, <2>1, <2>2, <2>5, <2>6, <2>7, DirectoryPlacesAre DEF VendorAts, VendorKinds
  <2> QED
    BY <2>1, <2>2, <2>3, <2>7, Ended DEF VendorKinds
<1>15. CASE ScoreSupplier(r)
  <2>1. x.kind = "get optimal" /\ x.at = "score" /\ x.todo \subseteq Vendors \cap There /\ x.held \in Scores /\ x.todo # {}
    BY <1>2, <1>15, KindAt DEF ScoreSupplier, At, Holds
  <2>2. VendorsOK' /\ There \subseteq There'
    BY <1>6, <1>15 DEF ScoreSupplier, directory
  <2> PICK v : v = Cheapest(x.todo)
    OBVIOUS
  <2>3. v \in x.todo /\ v \in Vendors /\ rating[v] \in Ratings
    BY <1>1, <2>1, CheapestIs, ThereIs DEF VendorsOK
  <2> PICK T, best : T = x.todo \ {v} /\ best = Better(x.held, v, rating[v])
    OBVIOUS
  <2>4. T \in Todos /\ T \subseteq Vendors \cap There /\ best \in Scores
    BY <2>1, <2>3, BetterType, SetsTodo
  <2> PICK next : next = [x EXCEPT !.todo = T]
    OBVIOUS
  <2>5. next \in RequestType /\ Same(x, next) /\ next.at = "score" /\ next.todo = T /\ next.held = x.held
    BY <1>1, <2>1, <2>4 DEF RequestType, Same
  <2> PICK y : y = [next EXCEPT !.held = best]
    OBVIOUS
  <2>6. y \in RequestType /\ Same(x, y) /\ y.at = "score" /\ y.todo = T /\ y.held = best
    BY <2>4, <2>5, Remembers, ZenonT(60) DEF RequestType, Same
  <2>7. Continue(r, y) \/ Ignored(r, next)
    BY <1>15, <2>5 DEF ScoreSupplier, RequestType
  <2>8. VendorHolds(y, There') /\ VendorHolds(next, There')
    BY <2>1, <2>2, <2>4, <2>5, <2>6 DEF VendorHolds, Same
  <2> QED
    BY <1>7, <2>1, <2>2, <2>5, <2>6, <2>7, <2>8, DirectoryPlacesAre DEF VendorAts, VendorKinds
<1>16. CASE SetOptimalSupplier(r)
  <2>1. x.kind = "get optimal" /\ x.held \in Scores /\ k \in Offered
    BY <1>2, <1>3, <1>16, KindAt DEF SetOptimalSupplier, At, Holds
  <2>2. UNCHANGED <<rating, mapping, receipts>> /\ There \subseteq There'
    BY <1>5, <1>16 DEF SetOptimalSupplier
  <2>3. UNCHANGED optimal \/ optimal' = [optimal EXCEPT ![k] = x.held.vendor]
    BY <1>16 DEF SetOptimalSupplier
  <2>4. optimal' \in [Offered -> Vendors \cup {None}]
    BY <1>1, <2>1, <2>3 DEF VendorsOK, Scores
  <2>5. VendorsOK'
    BY <1>1, <2>2, <2>4 DEF VendorsOK
  <2>6. Answer(r) \/ Refuse(r) \/ Ignored(r, Idle)
    BY <1>16 DEF SetOptimalSupplier
  <2> QED
    BY <2>1, <2>2, <2>5, <2>6, Ended DEF VendorKinds
<1> QED
  BY <1>8, <1>9, <1>10, <1>11, <1>12, <1>13, <1>14, <1>15, <1>16 DEF VendorStep

-----------------------------------------------------------------------------
(* Steps about bills of materials and product models. *)

ModelStep(r) == FindModel(r) \/ SaveModel(r) \/ MarkModel(r)
BillStep(r) ==
    \/ ResolveComponentPartID(r) \/ HardDeleteBOMEntriesByModelCode(r) \/ CreateBOMEntries(r) \/ InvalidateBOM(r)
    \/ DeleteBOMEntriesByModelCode(r) \/ CreateProductModel(r) \/ DeleteProductModel(r)
ReadStep(r) == LoadBOM(r) \/ CacheBOM(r)
BillKinds == Writers \cup {"delete assembly", "read bom"}
BillAts == {"erase bom", "drop bom", "withdraw", "delete model", "load bom", "cache bom",
            "resolve", "insert bom", "announce", "find model", "save model"}

LEMMA BillsAt == \A kind \in BillKinds : Places(kind) \subseteq BillAts
<1> SUFFICES ASSUME NEW kind \in BillKinds PROVE Places(kind) \subseteq BillAts
  OBVIOUS
<1>1. CASE kind \in Writers
  BY <1>1, BillPlacesAre DEF BillAts
<1>2. CASE kind = "delete assembly"
  BY <1>2, BillPlacesAre DEF BillAts
<1>3. CASE kind = "read bom"
  BY <1>3, BillPlacesAre DEF BillAts
<1> QED
  BY <1>1, <1>2, <1>3 DEF BillKinds

BillHolds(x) ==
    /\ x.at \in {"resolve", "insert bom"} => Resolved(x)
    /\ x.at = "insert bom" => Len(x.held) = Len(x.arg)
    /\ (x.at = "drop bom" /\ x.kind \in Writers) => x.held \subseteq PartIds /\ \A id \in x.held : id[1] \in x.on
    /\ x.at = "cache bom" => x.held \subseteq AllRows

LEMMA BillServes ==
  ASSUME NEW x, NEW y, NEW there, About(x), x.kind \in BillKinds, Same(x, y),
         y.at \in Places(y.kind), MustHaveWritten(y) => y.wrote, BillHolds(y)
  PROVE  Serving(y, there)
<1>1. About(y)
  BY SameAbout
<1>2. y.at \in BillAts
  BY BillsAt DEF Same
<1>3. y.kind # "rate vendor" /\ y.kind # "create mapping"
  BY DEF Same, BillKinds, Writers
<1>4. Holds(y, there)
  BY <1>2, <1>3 DEF BillAts, BillHolds, Holds
<1>5. Rests(y)
  BY Works DEF Same, BillKinds
<1> QED
  BY <1>1, <1>4, <1>5 DEF Serving

LEMMA BillGoes ==
  ASSUME NEW r \in Requests, About(req[r]), req[r].kind \in BillKinds,
         NEW a \in BillAts, a \in Places(req[r].kind), NEW y,
         Continue(r, y) \/ Ignored(r, y), y \in RequestType, Same(req[r], y), y.at = a,
         a \notin {"erase bom", "load bom", "cache bom", "resolve"} => y.wrote, BillHolds(y)
  PROVE  Turn(r, y) /\ \A there : Serving(y, there)
<1>1. y.at \in Places(y.kind) /\ y.kind \in BillKinds
  BY DEF Same
<1>2. MustHaveWritten(y) => y.wrote
  BY DEF MustHaveWritten, BillAts
<1> QED
  BY <1>1, <1>2, Goes, BillServes

LEMMA PartFound ==
  ASSUME PartsOK, NEW s \in Skus, NEW id \in GetPartCatalogBySKU(s)
  PROVE  id \in PartIds /\ id[1] = s /\ \E x \in parts[s] : x.id = id
<1>1. PICK x \in parts[s] : x.id = id
  BY DEF GetPartCatalogBySKU
<1>2. x.id \in PartIds /\ x.id \in {s} \X (1..lastId[s])
  BY DEF PartsOK
<1> QED
  BY <1>1, <1>2

LEMMA LoadedRows == BillsOK => \A k : Loaded(k) \subseteq AllRows
  BY DEF BillsOK, Loaded, Rows, AllRows

LEMMA ModelTurns ==
  ASSUME Types, NEW r \in Requests, ModelStep(r)
  PROVE  /\ req[r].kind \in Writers \cup {"delete assembly"} /\ models' \in [Codes -> ModelRows \cup {None}]
         /\ \E y : Turn(r, y) /\ \A there : Serving(y, there)
<1> PICK x, k : x = req[r] /\ k = req[r].key
  OBVIOUS
<1>1. x \in RequestType /\ Serving(x, There) /\ BillsOK
  BY DEF Types, RequestsOK
<1>2. x.kind \in Kinds /\ x.at \in Places(x.kind) /\ About(x)
  BY <1>1 DEF RequestType, Serving
<1>3. CASE FindModel(r)
  <2>1. x.kind \in Writers /\ x.at = "find model" /\ k \in Codes /\ x.wrote
    BY <1>1, <1>2, <1>3, KindAt DEF FindModel, At, About, Serving, MustHaveWritten
  <2> PICK y : y = [x EXCEPT !.at = "save model", !.held = models[k]]
    OBVIOUS
  <2>2. Continue(r, y) /\ UNCHANGED models
    BY <1>3 DEF FindModel, scm
  <2>3. models[k] \in ModelRows \/ models[k] = None
    BY <1>1, <2>1 DEF BillsOK
  <2>4. y \in RequestType /\ Same(x, y) /\ y.at = "save model" /\ y.wrote = x.wrote
    BY <1>1, <2>3, Remembers, ZenonT(60) DEF RequestType, Same, Ats
  <2>5. BillHolds(y)
    BY <2>4 DEF BillHolds
  <2>6. "save model" \in Places(x.kind) /\ "save model" \in BillAts /\ x.kind \in BillKinds
    BY <2>1, BillPlacesAre DEF BillAts, BillKinds
  <2>7. Turn(r, y) /\ \A there : Serving(y, there)
    BY <1>2, <2>1, <2>2, <2>4, <2>5, <2>6, BillGoes
  <2> QED
    BY <1>1, <2>1, <2>2, <2>7 DEF BillsOK
<1>4. CASE SaveModel(r)
  <2>1. x.kind \in Writers /\ k \in Codes
    BY <1>2, <1>4, KindAt DEF SaveModel, At, About
  <2>2. UNCHANGED models \/ models' = [models EXCEPT ![k] = Model]
    BY <1>4 DEF SaveModel
  <2>3. Model \in ModelRows
    BY DEF Model, ModelRows
  <2>4. models' \in [Codes -> ModelRows \cup {None}]
    BY <1>1, <2>1, <2>2, <2>3 DEF BillsOK
  <2>5. Answer(r) \/ Refuse(r)
    BY <1>4 DEF SaveModel
  <2> QED
    BY <2>1, <2>4, <2>5, Ended, IdleType
<1>5. CASE MarkModel(r)
  <2>1. x.kind = "delete assembly" /\ k \in Codes
    BY <1>2, <1>5, KindAt DEF MarkModel, At, About
  <2> PICK row : row = IF models[k] = None THEN None ELSE [models[k] EXCEPT !.gone = TRUE]
    OBVIOUS
  <2>2. models' = [models EXCEPT ![k] = row]
    BY <1>5 DEF MarkModel
  <2>3. row \in ModelRows \cup {None}
    BY <1>1, <2>1 DEF BillsOK, ModelRows
  <2>4. models' \in [Codes -> ModelRows \cup {None}]
    BY <1>1, <2>1, <2>2, <2>3 DEF BillsOK
  <2> QED
    BY <1>5, <2>1, <2>4, Ended, IdleType DEF MarkModel
<1> QED
  BY <1>3, <1>4, <1>5 DEF ModelStep

LEMMA Elements ==
  ASSUME NEW S, NEW s \in Seq(S)
  PROVE  DOMAIN s = 1..Len(s) /\ \A i \in DOMAIN s : s[i] \in S
  OBVIOUS

LEMMA BillTurns ==
  ASSUME Types, NEW r \in Requests, BillStep(r)
  PROVE  /\ req[r].kind \in Writers \cup {"delete assembly"}
         /\ bom' \in [Codes -> SUBSET PartIds] /\ erased' \in [Codes -> SUBSET PartIds]
         /\ last' \in [Codes -> {None} \cup SUBSET PartIds] /\ cached' \in [Keys -> {None} \cup SUBSET AllRows]
         /\ \E y : Turn(r, y) /\ \A there : Serving(y, there)
<1> PICK x, k : x = req[r] /\ k = req[r].key
  OBVIOUS
<1>1. x \in RequestType /\ Serving(x, There) /\ BillsOK /\ PartsOK
  BY DEF Types, RequestsOK
<1>2. x.kind \in Kinds /\ x.at \in Places(x.kind) /\ About(x) /\ Holds(x, There) /\ (MustHaveWritten(x) => x.wrote)
  BY <1>1 DEF RequestType, Serving
<1>3. /\ x.kind \in Writers => k \in Codes /\ x.arg \in Seq(Skus) /\ x.on = {k} \cup Components(x)
      /\ x.kind = "delete assembly" => k \in Codes
  BY <1>2, RecipesAssumption DEF About
<1> DEFINE BomOK == bom' \in [Codes -> SUBSET PartIds] /\ erased' \in [Codes -> SUBSET PartIds]
           LastOK == last' \in [Codes -> {None} \cup SUBSET PartIds]
           CachedOK == cached' \in [Keys -> {None} \cup SUBSET AllRows]
           Turns == \E y : Turn(r, y) /\ \A there : Serving(y, there)
<1>4. (UNCHANGED <<bom, erased>> => BomOK) /\ (UNCHANGED last => LastOK) /\ (UNCHANGED cached => CachedOK)
  BY <1>1 DEF BillsOK
<1>5. ASSUME NEW a \in BillAts, a \in Places(x.kind), x.kind \in BillKinds, NEW y,
             Continue(r, y) \/ Ignored(r, y), y \in RequestType, Same(x, y), y.at = a,
             a \notin {"erase bom", "load bom", "cache bom", "resolve"} => y.wrote, BillHolds(y)
      PROVE  Turns
  BY <1>2, <1>5, BillGoes
<1>6. ASSUME Answer(r) \/ Refuse(r) \/ Ignored(r, Idle) PROVE Turns
  BY <1>6, Ended, IdleType
<1> HIDE DEF Turns
<1>7. CASE ResolveComponentPartID(r)
  <2>1. x.kind \in Writers /\ x.at = "resolve" /\ k \in Codes /\ x.arg \in Seq(Skus)
    BY <1>2, <1>3, <1>7, KindAt DEF ResolveComponentPartID, At
  <2>2. x.held \in Seq(PartIds) /\ Len(x.held) <= Len(x.arg) /\ \A i \in DOMAIN x.held : x.held[i][1] = x.arg[i]
    BY <1>2, <2>1 DEF Holds, Resolved
  <2> PICK i : i = Len(x.held) + 1
    OBVIOUS
  <2>3. i <= Len(x.arg) /\ i \in 1..Len(x.arg) /\ x.arg[i] \in Skus
    <3>1. Len(x.held) + 1 <= Len(x.arg)
      BY <1>7 DEF ResolveComponentPartID
    <3>2. Len(x.held) \in Nat /\ Len(x.arg) \in Nat
      BY <2>1, <2>2
    <3>3. i \in 1..Len(x.arg)
      BY <3>1, <3>2
    <3> QED
      BY <2>1, <3>3
  <2>4. UNCHANGED <<bom, erased, last, cached>>
    BY <1>7 DEF ResolveComponentPartID, mrp
  <2>5. Refuse(r) \/ \E id \in GetPartCatalogBySKU(x.arg[i]) : Continue(r, [x EXCEPT !.held = Append(x.held, id)])
    BY <1>1, <1>7 DEF ResolveComponentPartID, RequestType
  <2>6. ASSUME NEW id \in GetPartCatalogBySKU(x.arg[i]), Continue(r, [x EXCEPT !.held = Append(x.held, id)])
        PROVE  Turns
    <3> PICK h : h = Append(x.held, id)
      OBVIOUS
    <3> PICK y : y = [x EXCEPT !.held = h]
      OBVIOUS
    <3>1. id \in PartIds /\ id[1] = x.arg[i]
      BY <1>1, <2>3, <2>6, PartFound
    <3>2. h \in Seq(PartIds) /\ Len(h) = i /\ \A j \in DOMAIN h : h[j][1] = x.arg[j]
      BY <2>2, <3>1
    <3>3. y \in RequestType /\ Same(x, y) /\ y.at = "resolve" /\ y.held = h
      BY <1>1, <2>1, <3>2, Remembers DEF RequestType, Same
    <3>4. BillHolds(y)
      BY <2>3, <3>2, <3>3, ZenonT(60) DEF BillHolds, Resolved, Same
    <3>5. "resolve" \in Places(x.kind) /\ "resolve" \in BillAts /\ x.kind \in BillKinds
      BY <2>1, BillPlacesAre DEF BillAts, BillKinds
    <3> QED
      BY <1>5, <2>6, <3>3, <3>4, <3>5
  <2> QED
    BY <1>4, <1>6, <2>1, <2>4, <2>5, <2>6 DEF Turns
<1>8. CASE HardDeleteBOMEntriesByModelCode(r)
  <2>1. x.kind \in Writers /\ x.at = "resolve" /\ k \in Codes /\ Len(x.held) = Len(x.arg)
    BY <1>2, <1>3, <1>8, KindAt DEF HardDeleteBOMEntriesByModelCode, At
  <2>2. bom' = [bom EXCEPT ![k] = {}] /\ erased' = [erased EXCEPT ![k] = {}] /\ UNCHANGED <<last, cached>>
    BY <1>8 DEF HardDeleteBOMEntriesByModelCode
  <2>3. BomOK
    BY <1>1, <2>2 DEF BillsOK
  <2> PICK y : y = [x EXCEPT !.at = "insert bom", !.wrote = TRUE]
    OBVIOUS
  <2>4. Continue(r, y)
    BY <1>8 DEF HardDeleteBOMEntriesByModelCode, Wrote
  <2>5. y \in RequestType /\ Same(x, y) /\ y.at = "insert bom" /\ y.held = x.held /\ y.wrote
    BY <1>1 DEF RequestType, Same, Ats
  <2>6. BillHolds(y)
    <3>1. Resolved(x)
      BY <1>2, <2>1 DEF Holds
    <3>2. Resolved(y) /\ Len(y.held) = Len(y.arg)
      BY <2>1, <2>5, <3>1 DEF Resolved, Same
    <3> QED
      BY <2>5, <3>2 DEF BillHolds
  <2>7. "insert bom" \in Places(x.kind) /\ "insert bom" \in BillAts /\ x.kind \in BillKinds
    BY <2>1, BillPlacesAre DEF BillAts, BillKinds
  <2>8. Turns
    BY <1>5, <2>4, <2>5, <2>6, <2>7
  <2> QED
    BY <1>4, <2>1, <2>2, <2>3, <2>8 DEF Turns
<1>9. CASE CreateBOMEntries(r)
  <2>1. x.kind \in Writers /\ x.at = "insert bom" /\ k \in Codes /\ x.arg \in Seq(Skus) /\ x.wrote
    BY <1>2, <1>3, <1>9, KindAt DEF CreateBOMEntries, At, MustHaveWritten
  <2>2. /\ x.held \in Seq(PartIds) /\ Len(x.held) = Len(x.arg)
        /\ \A i \in DOMAIN x.held : x.held[i][1] = x.arg[i]
    BY <1>2, <2>1 DEF Holds, Resolved
  <2> PICK ids : ids = {req[r].held[i] : i \in DOMAIN req[r].held}
    OBVIOUS
  <2>3. ids \subseteq PartIds /\ \A id \in ids : id[1] \in x.on
    <3> SUFFICES ASSUME NEW id \in ids PROVE id \in PartIds /\ id[1] \in x.on
      OBVIOUS
    <3>1. PICK i \in DOMAIN x.held : id = x.held[i]
      OBVIOUS
    <3>2. DOMAIN x.held = 1..Len(x.held) /\ DOMAIN x.arg = 1..Len(x.arg)
      BY <2>1, <2>2, Elements
    <3>3. i \in DOMAIN x.arg /\ x.held[i][1] = x.arg[i]
      BY <2>2, <3>1, <3>2
    <3>4. x.held[i] \in PartIds
      BY <2>2, <3>1, Elements
    <3> QED
      BY <1>3, <2>1, <3>1, <3>3, <3>4 DEF Components
  <2> PICK y : y = [x EXCEPT !.at = "drop bom", !.held = ids]
    OBVIOUS
  <2>4. /\ UNCHANGED <<erased, cached, last>>
        /\ (Refuse(r) /\ UNCHANGED bom) \/ (Continue(r, y) /\ bom' = [bom EXCEPT ![k] = bom[k] \cup ids])
    <3>1. UNCHANGED <<erased, cached, last>>
      BY <1>9 DEF CreateBOMEntries
    <3>2. \/ Refuse(r) /\ UNCHANGED bom
          \/ bom' = [bom EXCEPT ![k] = @ \cup ids] /\ Continue(r, [req[r] EXCEPT !.at = "drop bom", !.held = ids])
      BY <1>9, Zenon DEF CreateBOMEntries
    <3> QED
      BY <3>1, <3>2
  <2>5. BomOK
    <3>1. bom[k] \cup ids \in SUBSET PartIds
      BY <1>1, <2>1, <2>3 DEF BillsOK
    <3> QED
      BY <1>1, <2>1, <2>4, <3>1, ZenonT(60) DEF BillsOK
  <2>6. y \in RequestType /\ Same(x, y) /\ y.at = "drop bom" /\ y.held = ids /\ y.wrote = x.wrote
    BY <1>1, <2>3, Remembers DEF RequestType, Same, Ats
  <2>7. BillHolds(y)
    BY <2>3, <2>6 DEF BillHolds, Same
  <2>8. "drop bom" \in Places(x.kind) /\ "drop bom" \in BillAts /\ x.kind \in BillKinds
    BY <2>1, BillPlacesAre DEF BillAts, BillKinds
  <2>9. ASSUME Continue(r, y) PROVE Turns
    BY <1>5, <2>1, <2>6, <2>7, <2>8, <2>9
  <2> QED
    BY <1>4, <1>6, <2>1, <2>4, <2>5, <2>9 DEF Turns
<1>10. CASE InvalidateBOM(r)
  <2>1. x.kind \in Writers \cup {"delete assembly"} /\ x.at = "drop bom" /\ k \in Codes /\ x.wrote
    BY <1>2, <1>3, <1>10, KindAt DEF InvalidateBOM, At, MustHaveWritten
  <2> PICK ids, a : /\ ids = IF x.kind = "delete assembly" THEN {} ELSE x.held
                    /\ a = IF x.kind = "delete assembly" THEN "withdraw" ELSE "announce"
    OBVIOUS
  <2> PICK y : y = [x EXCEPT !.at = a]
    OBVIOUS
  <2>2. /\ last' = [last EXCEPT ![k] = IF x.kind = "delete assembly" THEN None ELSE ids]
        /\ UNCHANGED <<bom, erased>>
        /\ \/ Continue(r, y) /\ cached' = [kk \in Keys |-> IF kk \in DroppedKeys(k, ids) THEN None ELSE cached[kk]]
           \/ Ignored(r, y) /\ UNCHANGED cached
    BY <1>10 DEF InvalidateBOM
  <2>3. ids \subseteq PartIds
    BY <1>2, <2>1 DEF Holds
  <2>4. LastOK
    BY <1>1, <2>2, <2>3 DEF BillsOK
  <2>5. CachedOK
    BY <1>1, <2>2 DEF BillsOK
  <2>6. a \in Places(x.kind) /\ a \in BillAts /\ a \in Ats /\ x.kind \in BillKinds /\ a \in {"withdraw", "announce"}
    BY <2>1, BillPlacesAre DEF BillAts, BillKinds, Ats
  <2>7. y \in RequestType /\ Same(x, y) /\ y.at = a /\ y.wrote = x.wrote
    BY <1>1, <2>6 DEF RequestType, Same
  <2>8. BillHolds(y)
    BY <2>6, <2>7 DEF BillHolds
  <2>9. Turns
    BY <1>5, <2>1, <2>2, <2>6, <2>7, <2>8
  <2> QED
    BY <1>4, <2>1, <2>2, <2>4, <2>5, <2>9 DEF Turns
<1>11. CASE DeleteBOMEntriesByModelCode(r)
  <2>1. x.kind = "delete assembly" /\ k \in Codes
    BY <1>2, <1>3, <1>11, KindAt DEF DeleteBOMEntriesByModelCode, At
  <2>2. /\ bom' = [bom EXCEPT ![k] = {}] /\ erased' = [erased EXCEPT ![k] = erased[k] \cup bom[k]]
        /\ UNCHANGED <<last, cached>>
    BY <1>11 DEF DeleteBOMEntriesByModelCode
  <2>3. BomOK
    BY <1>1, <2>1, <2>2 DEF BillsOK
  <2> PICK y : y = [x EXCEPT !.at = "drop bom", !.wrote = TRUE]
    OBVIOUS
  <2>4. Continue(r, y)
    BY <1>11 DEF DeleteBOMEntriesByModelCode, Wrote
  <2>5. y \in RequestType /\ Same(x, y) /\ y.at = "drop bom" /\ y.wrote
    BY <1>1 DEF RequestType, Same, Ats
  <2>6. BillHolds(y)
    BY <2>1, <2>5 DEF BillHolds, Same, Writers
  <2>7. "drop bom" \in Places(x.kind) /\ "drop bom" \in BillAts /\ x.kind \in BillKinds
    BY <2>1, BillPlacesAre DEF BillAts, BillKinds
  <2>8. Turns
    BY <1>5, <2>4, <2>5, <2>6, <2>7
  <2> QED
    BY <1>4, <2>1, <2>2, <2>3, <2>8 DEF Turns
<1>12. CASE CreateProductModel(r)
  <2>1. x.kind \in Writers /\ x.wrote
    BY <1>2, <1>12, KindAt DEF CreateProductModel, At, MustHaveWritten
  <2> PICK y : y = [x EXCEPT !.at = "find model"]
    OBVIOUS
  <2>2. Continue(r, y) /\ UNCHANGED <<bom, erased, last, cached>>
    BY <1>12 DEF CreateProductModel, Goto, mrp
  <2>3. y \in RequestType /\ Same(x, y) /\ y.at = "find model" /\ y.wrote = x.wrote
    BY <1>1 DEF RequestType, Same, Ats
  <2>4. BillHolds(y)
    BY <2>3 DEF BillHolds
  <2>5. "find model" \in Places(x.kind) /\ "find model" \in BillAts /\ x.kind \in BillKinds
    BY <2>1, BillPlacesAre DEF BillAts, BillKinds
  <2>6. Turns
    BY <1>5, <2>1, <2>2, <2>3, <2>4, <2>5
  <2> QED
    BY <1>4, <2>1, <2>2, <2>6 DEF Turns
<1>13. CASE DeleteProductModel(r)
  <2>1. x.kind = "delete assembly" /\ x.wrote
    BY <1>2, <1>13, KindAt DEF DeleteProductModel, At, MustHaveWritten
  <2> PICK y : y = [x EXCEPT !.at = "delete model"]
    OBVIOUS
  <2>2. (Continue(r, y) \/ Ignored(r, Idle)) /\ UNCHANGED <<bom, erased, last, cached>>
    BY <1>13 DEF DeleteProductModel, Goto, mrp
  <2>3. y \in RequestType /\ Same(x, y) /\ y.at = "delete model" /\ y.wrote = x.wrote
    BY <1>1 DEF RequestType, Same, Ats
  <2>4. BillHolds(y)
    BY <2>3 DEF BillHolds
  <2>5. "delete model" \in Places(x.kind) /\ "delete model" \in BillAts /\ x.kind \in BillKinds
    BY <2>1, BillPlacesAre DEF BillAts, BillKinds
  <2>6. Turns
    BY <1>5, <1>6, <2>1, <2>2, <2>3, <2>4, <2>5
  <2> QED
    BY <1>4, <2>1, <2>2, <2>6 DEF Turns
<1> QED
  BY <1>7, <1>8, <1>9, <1>10, <1>11, <1>12, <1>13 DEF BillStep

LEMMA ReadTurns ==
  ASSUME Types, NEW r \in Requests, ReadStep(r)
  PROVE  /\ req[r].kind = "read bom" /\ cached' \in [Keys -> {None} \cup SUBSET AllRows]
         /\ \E y : Turn(r, y) /\ \A there : Serving(y, there)
<1> PICK x, k : x = req[r] /\ k = req[r].key
  OBVIOUS
<1>1. x \in RequestType /\ Serving(x, There) /\ BillsOK
  BY DEF Types, RequestsOK
<1>2. x.kind \in Kinds /\ x.at \in Places(x.kind) /\ About(x) /\ Holds(x, There)
  BY <1>1 DEF RequestType, Serving
<1>3. CASE LoadBOM(r)
  <2>1. x.kind = "read bom"
    BY <1>2, <1>3, KindAt DEF LoadBOM, At
  <2> PICK rows : rows = Loaded(k)
    OBVIOUS
  <2> PICK y : y = [x EXCEPT !.at = "cache bom", !.held = rows]
    OBVIOUS
  <2>2. Continue(r, y) /\ UNCHANGED cached
    BY <1>3 DEF LoadBOM, mrp
  <2>3. rows \subseteq AllRows
    BY <1>1, LoadedRows
  <2>4. y \in RequestType /\ Same(x, y) /\ y.at = "cache bom" /\ y.held = rows
    BY <1>1, <2>3, Remembers DEF RequestType, Same, Ats
  <2>5. BillHolds(y)
    BY <2>3, <2>4 DEF BillHolds
  <2>6. "cache bom" \in Places(x.kind) /\ "cache bom" \in BillAts /\ x.kind \in BillKinds
    BY <2>1, BillPlacesAre DEF BillAts, BillKinds
  <2>7. Turn(r, y) /\ \A there : Serving(y, there)
    BY <1>2, <2>2, <2>4, <2>5, <2>6, BillGoes
  <2> QED
    BY <1>1, <2>1, <2>2, <2>7 DEF BillsOK
<1>4. CASE CacheBOM(r)
  <2>1. x.kind = "read bom" /\ x.held \subseteq AllRows
    BY <1>2, <1>4, KindAt DEF CacheBOM, At, Holds
  <2>2. cached' = [cached EXCEPT ![k] = x.held] /\ Answer(r)
    BY <1>4 DEF CacheBOM
  <2>3. cached' \in [Keys -> {None} \cup SUBSET AllRows]
    BY <1>1, <2>1, <2>2 DEF BillsOK
  <2> QED
    BY <2>1, <2>2, <2>3, Ended, IdleType
<1> QED
  BY <1>3, <1>4 DEF ReadStep

-----------------------------------------------------------------------------
(* A request begins: what it is about and where it stands first.           *)
Apart(r, y) ==
    \A q \in Requests : req[q].on \cap y.on # {} =>
      /\ (req[q].kind \in Reads /\ y.kind \in Reads) \/ (req[q].on \cup y.on) \cap alone' = {}
      /\ (req[q].kind \in Reads <=> y.kind \in Reads) \/ (req[q].on \cup y.on) \cap calm' = {}
FirstAts == {"check part", "part row", "find part", "delete stock", "insert product", "change product",
             "insert mapping", "count receipts", "find vendors", "resolve", "erase bom", "load bom"}
Fresh(y) ==
    /\ y.at \in FirstAts \/ (y.at = "stock row" /\ y.kind = "create stock") \/ (y.at = "read product" /\ y.kind = "get product")
    /\ y.kind = "rate vendor" => \A s \in Offered : y.key \in mapping[s] => s \in y.on
    /\ y.kind = "get optimal" => mapping[y.key] \subseteq y.on
Opening(r, y) ==
    /\ req[r].at = "idle" /\ req' = [req EXCEPT ![r] = y] /\ y \in RequestType /\ Serving(y, There) /\ ~y.wrote
    /\ alone' \subseteq alone /\ calm' \subseteq calm
    /\ Apart(r, y) /\ Fresh(y)

Named == Subjects \cup Keys \cup {None}
Request(a, kind, S, k, v, h, T) ==
    [at |-> a, kind |-> kind, on |-> S, key |-> k, arg |-> v, held |-> h, todo |-> T, wrote |-> FALSE]
LEMMA FirstIs ==
  ASSUME NEW a, NEW kind, NEW k, NEW v, NEW x, x = First(a, kind, k, v)
  PROVE  x = Request(a, kind, {}, k, v, None, {})
  BY DEF First, Idle, Request

LEMMA RequestWith ==
  ASSUME NEW a, NEW kind, NEW S, NEW k, NEW v, NEW h, NEW T, NEW x, x = Request(a, kind, S, k, v, h, T), NEW w, NEW z
  PROVE  /\ z = [x EXCEPT !.on = w] => z = Request(a, kind, w, k, v, h, T)
         /\ z = [x EXCEPT !.held = w] => z = Request(a, kind, S, k, v, w, T)
         /\ z = [x EXCEPT !.todo = w] => z = Request(a, kind, S, k, v, h, w)
  BY DEF Request

LEMMA FirstWith ==
  ASSUME NEW a, NEW kind, NEW k, NEW v, NEW w, NEW z
  PROVE  /\ z = [First(a, kind, k, v) EXCEPT !.held = w] => z = Request(a, kind, {}, k, v, w, {})
         /\ z = [First(a, kind, k, v) EXCEPT !.todo = w] => z = Request(a, kind, {}, k, v, None, w)
<1> PICK x : x = First(a, kind, k, v)
  OBVIOUS
<1>1. x = Request(a, kind, {}, k, v, None, {})
  BY FirstIs
<1> QED
  BY <1>1, RequestWith

LEMMA RequestIs ==
  ASSUME NEW a, NEW kind, NEW S, NEW k, NEW v, NEW h, NEW T, NEW y, y = Request(a, kind, S, k, v, h, T)
  PROVE  y.at = a /\ y.kind = kind /\ y.on = S /\ y.key = k /\ y.arg = v /\ y.held = h /\ y.todo = T
  BY DEF Request

LEMMA Opens ==
  ASSUME NEW r \in Requests, NEW S \in SUBSET Subjects, NEW a \in Ats, NEW kind \in Kinds,
         NEW k \in Named, NEW v \in Arguments, NEW h \in Memories, NEW T \in Todos, NEW y,
         y = Request(a, kind, S, k, v, h, T), Begin(r, S, Request(a, kind, {}, k, v, h, T)),
         a \in Places(kind), About(y), Holds(y, There), Fresh(y)
  PROVE  Opening(r, y)
<1>1. y \in RequestType
  BY DEF RequestType, Request, Named
<1> PICK first : first = Request(a, kind, {}, k, v, h, T)
  OBVIOUS
<1> PICK z : z = [first EXCEPT !.on = S]
  OBVIOUS
<1>2. z = y /\ first.kind = y.kind /\ y.on = S
  BY RequestWith, RequestIs
<1>3. req[r].at = "idle" /\ req' = [req EXCEPT ![r] = y] /\ alone' \subseteq alone /\ calm' \subseteq calm
  BY <1>2 DEF Begin
<1>4. ASSUME NEW q \in Requests, req[q].on \cap y.on # {}
      PROVE  /\ (req[q].kind \in Reads /\ y.kind \in Reads) \/ (req[q].on \cup y.on) \cap alone' = {}
             /\ (req[q].kind \in Reads <=> y.kind \in Reads) \/ (req[q].on \cup y.on) \cap calm' = {}
  BY <1>2, <1>4 DEF Begin
<1>5. ~MustHaveWritten(y)
  BY DEF MustHaveWritten, Fresh, FirstAts
<1>6. y.at \in Places(y.kind) /\ ~y.wrote
  BY DEF Request
<1>7. Rests(y)
  BY <1>6, BillPlacesAre DEF Fresh, FirstAts, Rests
<1>8. Serving(y, There)
  BY <1>5, <1>6, <1>7 DEF Serving
<1> QED
  BY <1>1, <1>2, <1>3, <1>4, <1>6, <1>8 DEF Opening, Apart

LEMMA HoldsNothing ==
  ASSUME NEW x, NEW there, x.at # "resolve",
         x.at \in FirstAts \cup {"stock row", "read product"},
         x.kind = "rate vendor" => x.key \in there, x.kind = "create mapping" => x.arg \in there,
         x.at = "insert mapping" => x.todo = {x.key}
  PROVE  Holds(x, there)
<1>1. x.at \notin {"show product", "read receipts", "rate", "drop optimal", "score", "insert bom", "drop bom", "cache bom"}
  BY DEF FirstAts
<1> QED
  BY <1>1 DEF Holds

PartFirsts == {"check part", "part row", "stock row", "find part", "delete stock"}
ProductFirsts == {"read product", "insert product", "change product"}
LEMMA PartOpens ==
  ASSUME NEW r \in Requests, NEW s \in Skus, NEW text \in Texts, NEW fields \in FieldSets,
         \/ CreatePartCatalog(r, s, text) \/ CreateComponentStock(r, s, text) \/ CreateCatalogPart(r, s, text)
         \/ UpdatePartCatalog(r, s, fields, text) \/ DeletePartCatalog(r, s)
  PROVE  \E y : Opening(r, y)
<1>1. {s} \in SUBSET Subjects /\ s \in Named /\ text \in Arguments /\ None \in Arguments /\ None \in Memories
  BY SubjectsAssumption DEF Arguments, Memories, Named
<1>2. {} \in Todos /\ fields \in Todos
  BY DEF Todos, FieldSets
<1>3. ASSUME NEW a \in PartFirsts, NEW kind \in PartKinds, a \in Places(kind), NEW v \in {text, None},
             kind # "delete part" => v = text, a = "stock row" => kind = "create stock", NEW T \in Todos,
             Begin(r, {s}, Request(a, kind, {}, s, v, None, T))
      PROVE  \E y : Opening(r, y)
  <2> PICK y : y = Request(a, kind, {s}, s, v, None, T)
    OBVIOUS
  <2>1. a \in Ats /\ kind \in Kinds
    BY <1>3 DEF PartFirsts, Ats, Kinds
  <2>2. y.at = a /\ y.kind = kind /\ y.on = {s} /\ y.key = s /\ y.arg = v
    BY RequestIs
  <2>3. y.at # "resolve" /\ y.at # "insert mapping"
    BY <1>3, <2>2 DEF PartFirsts
  <2>4. About(y)
    BY <1>3, <2>2 DEF About, PartKinds, ProductKinds, Writers
  <2>5. Holds(y, There)
    BY <1>3, <2>2, <2>3, HoldsNothing DEF PartKinds, PartFirsts, FirstAts
  <2>6. Fresh(y)
    BY <1>3, <2>2 DEF Fresh, PartKinds, FirstAts, PartFirsts
  <2>7. Opening(r, y)
    BY <1>1, <1>3, <2>1, <2>4, <2>5, <2>6, Opens
  <2> QED
    BY <2>7
<1>4. CASE CreatePartCatalog(r, s, text)
  <2> PICK x : x = First("part row", "create part", s, text)
    OBVIOUS
  <2>1. x = Request("part row", "create part", {}, s, text, None, {})
    BY FirstIs
  <2>2. Begin(r, {s}, x)
    BY <1>4 DEF CreatePartCatalog
  <2>3. "part row" \in Places("create part") /\ "create part" \in PartKinds /\ "part row" \in PartFirsts
    BY PartPlacesAre DEF PartKinds, PartFirsts
  <2> QED
    BY <1>2, <1>3, <2>1, <2>2, <2>3
<1>5. CASE CreateComponentStock(r, s, text)
  <2> PICK x : x = First("stock row", "create stock", s, text)
    OBVIOUS
  <2>1. x = Request("stock row", "create stock", {}, s, text, None, {})
    BY FirstIs
  <2>2. Begin(r, {s}, x)
    BY <1>5 DEF CreateComponentStock
  <2>3. "stock row" \in Places("create stock") /\ "create stock" \in PartKinds /\ "stock row" \in PartFirsts
    BY PartPlacesAre DEF PartKinds, PartFirsts
  <2> QED
    BY <1>2, <1>3, <2>1, <2>2, <2>3
<1>6. CASE CreateCatalogPart(r, s, text)
  <2> PICK x : x = First("check part", "create part", s, text)
    OBVIOUS
  <2>1. x = Request("check part", "create part", {}, s, text, None, {})
    BY FirstIs
  <2>2. Begin(r, {s}, x)
    BY <1>6 DEF CreateCatalogPart
  <2>3. "check part" \in Places("create part") /\ "create part" \in PartKinds /\ "check part" \in PartFirsts
    BY PartPlacesAre DEF PartKinds, PartFirsts
  <2> QED
    BY <1>2, <1>3, <2>1, <2>2, <2>3
<1>7. CASE UpdatePartCatalog(r, s, fields, text)
  <2>1. \A a, kind, z : z = [First(a, kind, s, text) EXCEPT !.todo = fields] => z = Request(a, kind, {}, s, text, None, fields)
    BY FirstWith
  <2> PICK z : z = [First("find part", "update part", s, text) EXCEPT !.todo = fields]
    OBVIOUS
  <2>2. z = Request("find part", "update part", {}, s, text, None, fields)
    BY <2>1, Zenon
  <2>3. Begin(r, {s}, z)
    BY <1>7 DEF UpdatePartCatalog
  <2>4. "find part" \in Places("update part") /\ "update part" \in PartKinds /\ "find part" \in PartFirsts
    BY PartPlacesAre DEF PartKinds, PartFirsts
  <2> QED
    BY <1>2, <1>3, <2>2, <2>3, <2>4
<1>8. CASE DeletePartCatalog(r, s)
  <2> PICK x : x = First("delete stock", "delete part", s, None)
    OBVIOUS
  <2>1. x = Request("delete stock", "delete part", {}, s, None, None, {})
    BY FirstIs
  <2>2. Begin(r, {s}, x)
    BY <1>8 DEF DeletePartCatalog
  <2>3. "delete stock" \in Places("delete part") /\ "delete part" \in PartKinds /\ "delete stock" \in PartFirsts
    BY PartPlacesAre DEF PartKinds, PartFirsts
  <2> QED
    BY <1>2, <1>3, <2>1, <2>2, <2>3
<1> QED
  BY <1>4, <1>5, <1>6, <1>7, <1>8

LEMMA ProductOpens ==
  ASSUME NEW r \in Requests, NEW p \in Products, NEW name \in Names,
         GetProduct(r, p) \/ CreateProduct(r, p, name) \/ UpdateProduct(r, p, name)
  PROVE  \E y : Opening(r, y)
<1>1. {p} \in SUBSET Subjects /\ p \in Named /\ name \in Arguments /\ None \in Arguments /\ None \in Memories
  BY SubjectsAssumption DEF Arguments, Memories, Named
<1>2. {} \in Todos
  BY DEF Todos, FieldSets
<1>3. ASSUME NEW a \in ProductFirsts, NEW kind \in ProductKinds, a \in Places(kind),
             NEW v \in {name, None}, kind # "get product" => v = name, a = "read product" => kind = "get product",
             Begin(r, {p}, Request(a, kind, {}, p, v, None, {}))
      PROVE  \E y : Opening(r, y)
  <2> PICK y : y = Request(a, kind, {p}, p, v, None, {})
    OBVIOUS
  <2>1. a \in Ats /\ kind \in Kinds
    BY <1>3 DEF ProductFirsts, Ats, Kinds
  <2>2. y.at = a /\ y.kind = kind /\ y.on = {p} /\ y.key = p /\ y.arg = v
    BY RequestIs
  <2>4. About(y)
    BY <1>3, <2>2 DEF About, PartKinds, ProductKinds, Writers
  <2>5. Holds(y, There)
    BY <1>3, <2>2, HoldsNothing DEF ProductKinds, FirstAts, ProductFirsts
  <2>6. Fresh(y)
    BY <1>3, <2>2 DEF Fresh, ProductKinds, FirstAts, ProductFirsts
  <2>7. Opening(r, y)
    BY <1>1, <1>2, <1>3, <2>1, <2>4, <2>5, <2>6, Opens
  <2> QED
    BY <2>7
<1>4. CASE GetProduct(r, p)
  <2> PICK x : x = First("read product", "get product", p, None)
    OBVIOUS
  <2>1. x = Request("read product", "get product", {}, p, None, None, {})
    BY FirstIs
  <2>2. Begin(r, {p}, x)
    BY <1>4 DEF GetProduct
  <2>3. "read product" \in Places("get product") /\ "get product" \in ProductKinds /\ "read product" \in ProductFirsts
    BY DirectoryPlacesAre DEF ProductKinds, ProductFirsts
  <2> QED
    BY <1>2, <1>3, <2>1, <2>2, <2>3
<1>5. CASE CreateProduct(r, p, name)
  <2> PICK x : x = First("insert product", "create product", p, name)
    OBVIOUS
  <2>1. x = Request("insert product", "create product", {}, p, name, None, {})
    BY FirstIs
  <2>2. Begin(r, {p}, x)
    BY <1>5 DEF CreateProduct
  <2>3. "insert product" \in Places("create product") /\ "create product" \in ProductKinds /\ "insert product" \in ProductFirsts
    BY DirectoryPlacesAre DEF ProductKinds, ProductFirsts
  <2> QED
    BY <1>2, <1>3, <2>1, <2>2, <2>3
<1>6. CASE UpdateProduct(r, p, name)
  <2> PICK x : x = First("change product", "update product", p, name)
    OBVIOUS
  <2>1. x = Request("change product", "update product", {}, p, name, None, {})
    BY FirstIs
  <2>2. Begin(r, {p}, x)
    BY <1>6 DEF UpdateProduct
  <2>3. "change product" \in Places("update product") /\ "update product" \in ProductKinds /\ "change product" \in ProductFirsts
    BY DirectoryPlacesAre DEF ProductKinds, ProductFirsts
  <2> QED
    BY <1>2, <1>3, <2>1, <2>2, <2>3
<1> QED
  BY <1>4, <1>5, <1>6

LEMMA OpensAs ==
  ASSUME NEW r \in Requests, NEW S \in SUBSET Subjects, NEW a \in Ats, NEW kind \in Kinds,
         NEW k \in Named, NEW v \in Arguments, NEW h \in Memories, NEW T \in Todos, a \in Places(kind),
         Begin(r, S, Request(a, kind, {}, k, v, h, T)),
         \A y : (y.at = a /\ y.kind = kind /\ y.on = S /\ y.key = k /\ y.arg = v /\ y.held = h /\ y.todo = T)
                  => About(y) /\ Holds(y, There) /\ Fresh(y)
  PROVE  \E y : Opening(r, y)
<1> PICK y : y = Request(a, kind, S, k, v, h, T)
  OBVIOUS
<1>1. About(y) /\ Holds(y, There) /\ Fresh(y)
  BY RequestIs
<1>2. Opening(r, y)
  BY <1>1, Opens
<1> QED
  BY <1>2

LEMMA VendorOpens ==
  ASSUME VendorsOK, NEW r \in Requests, NEW v, NEW s,
         \/ v \in Vendors /\ s \in Offered /\ CreateSkuMapping(r, v, s)
         \/ v \in Vendors /\ UpdateSupplierMetrics(r, v)
         \/ s \in Offered /\ GetOptimalSupplier(r, s)
  PROVE  \E y : Opening(r, y)
<1>1. /\ v \in Vendors => v \in Subjects /\ v \in Named /\ v \in Arguments
      /\ s \in Offered => s \in Subjects /\ s \in Named
      /\ None \in Arguments /\ None \in Memories
  BY SubjectsAssumption DEF Arguments, Memories, Named
<1>2. {} \in Todos /\ (s \in Offered => {s} \in Todos)
  BY SetsTodo
<1>3. CASE v \in Vendors /\ s \in Offered /\ CreateSkuMapping(r, v, s)
  <2>1. \A a, kind, z : z = [First(a, kind, s, v) EXCEPT !.todo = {s}] => z = Request(a, kind, {}, s, v, None, {s})
    BY FirstWith
  <2> PICK z : z = [First("insert mapping", "create mapping", s, v) EXCEPT !.todo = {s}]
    OBVIOUS
  <2>2. z = Request("insert mapping", "create mapping", {}, s, v, None, {s})
    BY <2>1, Zenon
  <2>3. rating[v] # None /\ Begin(r, {v, s}, z)
    BY <1>3 DEF CreateSkuMapping
  <2>4. Begin(r, {v, s}, Request("insert mapping", "create mapping", {}, s, v, None, {s}))
    BY <2>2, <2>3, Zenon
  <2>7. {v, s} \in SUBSET Subjects
    BY <1>1, <1>3
  <2>5. "insert mapping" \in Ats /\ "create mapping" \in Kinds /\ "insert mapping" \in Places("create mapping")
    BY DirectoryPlacesAre DEF Ats, Kinds
  <2>6. ASSUME NEW y, y.at = "insert mapping", y.kind = "create mapping", y.on = {v, s}, y.key = s, y.arg = v, y.todo = {s}
        PROVE  About(y) /\ Holds(y, There) /\ Fresh(y)
    <3>1. About(y)
      BY <1>3, <2>6 DEF About, PartKinds, ProductKinds, Writers
    <3>2. Holds(y, There) /\ Fresh(y)
      BY <1>3, <2>3, <2>6 DEF Holds, There, Fresh, FirstAts
    <3> QED
      BY <3>1, <3>2
  <2> QED
    BY <1>1, <1>2, <1>3, <2>4, <2>5, <2>6, <2>7, OpensAs, Zenon
<1>4. CASE v \in Vendors /\ UpdateSupplierMetrics(r, v)
  <2> PICK S : S = {v} \cup {t \in Offered : v \in mapping[t]}
    OBVIOUS
  <2>1. S \in SUBSET Subjects
    BY <1>1, <1>4, SubjectsAssumption
  <2>2. First("count receipts", "rate vendor", v, None) = Request("count receipts", "rate vendor", {}, v, None, None, {})
    BY FirstIs, Zenon
  <2>3. rating[v] # None /\ Begin(r, S, Request("count receipts", "rate vendor", {}, v, None, None, {}))
    BY <1>4, <2>2 DEF UpdateSupplierMetrics
  <2>4. "count receipts" \in Ats /\ "rate vendor" \in Kinds /\ "count receipts" \in Places("rate vendor")
    BY DirectoryPlacesAre DEF Ats, Kinds
  <2>5. ASSUME NEW y, y.at = "count receipts", y.kind = "rate vendor", y.on = S, y.key = v
        PROVE  About(y) /\ Holds(y, There) /\ Fresh(y)
    <3>1. About(y)
      BY <1>4, <2>5 DEF About, PartKinds, ProductKinds, Writers
    <3>2. Holds(y, There) /\ Fresh(y)
      BY <1>4, <2>3, <2>5 DEF Holds, There, Fresh, FirstAts
    <3> QED
      BY <3>1, <3>2
  <2> QED
    BY <1>1, <1>2, <1>4, <2>1, <2>3, <2>4, <2>5, OpensAs, Zenon
<1>5. CASE s \in Offered /\ GetOptimalSupplier(r, s)
  <2> PICK S : S = {s} \cup mapping[s]
    OBVIOUS
  <2>1. S \in SUBSET Subjects /\ mapping[s] \subseteq Vendors
    BY <1>1, <1>5, SubjectsAssumption DEF VendorsOK
  <2>2. First("find vendors", "get optimal", s, None) = Request("find vendors", "get optimal", {}, s, None, None, {})
    BY FirstIs, Zenon
  <2>3. Begin(r, S, Request("find vendors", "get optimal", {}, s, None, None, {}))
    BY <1>5, <2>2 DEF GetOptimalSupplier
  <2>4. "find vendors" \in Ats /\ "get optimal" \in Kinds /\ "find vendors" \in Places("get optimal")
    BY DirectoryPlacesAre DEF Ats, Kinds
  <2>5. ASSUME NEW y, y.at = "find vendors", y.kind = "get optimal", y.on = S, y.key = s
        PROVE  About(y) /\ Holds(y, There) /\ Fresh(y)
    <3>1. About(y)
      BY <1>5, <2>1, <2>5 DEF About, PartKinds, ProductKinds, Writers
    <3>2. Holds(y, There) /\ Fresh(y)
      BY <2>5 DEF Holds, Fresh, FirstAts
    <3> QED
      BY <3>1, <3>2
  <2> QED
    BY <1>1, <1>2, <1>5, <2>1, <2>3, <2>4, <2>5, OpensAs, Zenon
<1> QED
  BY <1>3, <1>4, <1>5

LEMMA BillOpens ==
  ASSUME PartsOK, NEW r \in Requests, NEW m, NEW c, NEW s,
         \/ m \in Codes /\ c \in Recipes /\ (CreateAssembly(r, m, c) \/ UpdateAssembly(r, m, c))
         \/ m \in Codes /\ (DeleteAssembly(r, m) \/ GetBOMByModelCode(r, m))
         \/ GetAllBOMs(r)
         \/ s \in Skus /\ GetWhereUsedByPartID(r, s)
  PROVE  \E y : Opening(r, y)
<1>1. /\ m \in Codes => m \in Named
      /\ c \in Recipes => c \in Arguments
      /\ None \in Arguments /\ None \in Memories /\ <<>> \in Memories
  BY SubjectsAssumption, Remembers DEF Arguments, Memories, Named, Keys
<1>2. {} \in Todos
  BY SetsTodo
<1>3. c \in Recipes => c \in Seq(Skus) /\ \A i \in DOMAIN c : c[i] \in Skus
  BY RecipesAssumption
<1>4. ASSUME m \in Codes, c \in Recipes, NEW kind \in Writers, Begin(r, {m} \cup {c[i] : i \in DOMAIN c}, Bill(kind, m, c))
      PROVE  \E y : Opening(r, y)
  <2>1. \A a, z : z = [First(a, kind, m, c) EXCEPT !.held = <<>>] => z = Request(a, kind, {}, m, c, <<>>, {})
    BY FirstWith, SMTT(30)
  <2> PICK z, S : z = Bill(kind, m, c) /\ S = {m} \cup {c[i] : i \in DOMAIN c}
    OBVIOUS
  <2>2. z = Request("resolve", kind, {}, m, c, <<>>, {})
    BY <2>1, Zenon DEF Bill
  <2>3. S \in SUBSET Subjects
    BY <1>3, <1>4, SubjectsAssumption
  <2>4. "resolve" \in Ats /\ kind \in Kinds /\ "resolve" \in Places(kind)
    BY <1>4, BillPlacesAre DEF Ats, Kinds
  <2>5. Begin(r, S, Request("resolve", kind, {}, m, c, <<>>, {}))
    BY <1>4, <2>2, Zenon
  <2>6. Len(c) \in Nat /\ <<>> \in Seq(PartIds) /\ Len(<<>>) = 0 /\ DOMAIN <<>> = {}
    BY <1>3, <1>4
  <2>7. ASSUME NEW y, y.at = "resolve", y.kind = kind, y.on = S, y.key = m, y.arg = c, y.held = <<>>
        PROVE  About(y) /\ Holds(y, There) /\ Fresh(y)
    <3>1. About(y)
      BY <1>4, <2>7 DEF About, PartKinds, ProductKinds, Writers, Components
    <3>2. Resolved(y)
      BY <2>6, <2>7 DEF Resolved
    <3>3. Holds(y, There) /\ Fresh(y)
      BY <1>4, <2>7, <3>2 DEF Holds, Writers, Fresh, FirstAts
    <3> QED
      BY <3>1, <3>3
  <2> QED
    BY <1>1, <1>2, <1>4, <2>3, <2>4, <2>5, <2>7, OpensAs, Zenon
<1>5. CASE m \in Codes /\ c \in Recipes /\ (CreateAssembly(r, m, c) \/ UpdateAssembly(r, m, c))
  BY <1>4, <1>5 DEF CreateAssembly, UpdateAssembly, Writers
<1>6. CASE m \in Codes /\ DeleteAssembly(r, m)
  <2>1. First("erase bom", "delete assembly", m, None) = Request("erase bom", "delete assembly", {}, m, None, None, {})
    BY FirstIs, Zenon
  <2>2. Begin(r, {m}, Request("erase bom", "delete assembly", {}, m, None, None, {})) /\ {m} \in SUBSET Subjects
    BY <1>6, <2>1, SubjectsAssumption DEF DeleteAssembly
  <2>3. "erase bom" \in Ats /\ "delete assembly" \in Kinds /\ "erase bom" \in Places("delete assembly")
    BY BillPlacesAre DEF Ats, Kinds
  <2>4. ASSUME NEW y, y.at = "erase bom", y.kind = "delete assembly", y.on = {m}, y.key = m
        PROVE  About(y) /\ Holds(y, There) /\ Fresh(y)
    <3>1. About(y)
      BY <1>6, <2>4 DEF About, PartKinds, ProductKinds, Writers
    <3>2. Holds(y, There) /\ Fresh(y)
      BY <2>4 DEF Holds, Fresh, FirstAts
    <3> QED
      BY <3>1, <3>2
  <2> QED
    BY <1>1, <1>2, <1>6, <2>2, <2>3, <2>4, OpensAs, Zenon
<1>7. ASSUME NEW k \in Keys, NEW S \in SUBSET (Skus \cup Codes), Begin(r, S, First("load bom", "read bom", k, None)),
             k \in Codes => S = {k}, k = AllModels => S = Codes, k \in PartIds => k[1] \in S
      PROVE  \E y : Opening(r, y)
  <2>1. First("load bom", "read bom", k, None) = Request("load bom", "read bom", {}, k, None, None, {})
    BY FirstIs, Zenon
  <2>2. S \in SUBSET Subjects /\ k \in Named
    BY SubjectsAssumption DEF Named
  <2>3. Begin(r, S, Request("load bom", "read bom", {}, k, None, None, {}))
    BY <1>7, <2>1, Zenon
  <2>4. "load bom" \in Ats /\ "read bom" \in Kinds /\ "load bom" \in Places("read bom")
    BY BillPlacesAre DEF Ats, Kinds
  <2>5. ASSUME NEW y, y.at = "load bom", y.kind = "read bom", y.on = S, y.key = k
        PROVE  About(y) /\ Holds(y, There) /\ Fresh(y)
    <3>1. About(y)
      BY <1>7, <2>5 DEF About, PartKinds, ProductKinds, Writers
    <3>2. Holds(y, There) /\ Fresh(y)
      BY <2>5 DEF Holds, Fresh, FirstAts
    <3> QED
      BY <3>1, <3>2
  <2> QED
    BY <1>1, <1>2, <2>2, <2>3, <2>4, <2>5, OpensAs, Zenon
<1>8. CASE m \in Codes /\ GetBOMByModelCode(r, m)
  <2>1. Begin(r, {m}, First("load bom", "read bom", m, None))
    BY <1>8 DEF GetBOMByModelCode
  <2>2. m \in Keys /\ {m} \in SUBSET (Skus \cup Codes) /\ m # AllModels /\ m \notin PartIds
    BY <1>8, SubjectsAssumption DEF Keys
  <2> QED
    BY <1>7, <2>1, <2>2
<1>9. CASE GetAllBOMs(r)
  BY <1>7, <1>9, SubjectsAssumption DEF GetAllBOMs, Keys
<1>10. CASE s \in Skus /\ GetWhereUsedByPartID(r, s)
  <2>1. PICK id \in GetPartCatalogBySKU(s) :
          Begin(r, {s} \cup {mm \in Codes : id \in bom[mm]}, First("load bom", "read bom", id, None))
    BY <1>10 DEF GetWhereUsedByPartID
  <2>2. id \in PartIds /\ id[1] = s
    BY <1>10, <2>1, PartFound
  <2> PICK S : S = {s} \cup {mm \in Codes : id \in bom[mm]}
    OBVIOUS
  <2>3. id \in Keys /\ id # AllModels /\ id \notin Codes
    BY <2>2, SubjectsAssumption DEF Keys
  <2>4. S \in SUBSET (Skus \cup Codes) /\ s \in S
    BY <1>10
  <2> QED
    BY <1>7, <2>1, <2>2, <2>3, <2>4
<1> QED
  BY <1>5, <1>6, <1>8, <1>9, <1>10

(* The kinds of steps, and what each leaves alone.                         *)
Stays == UNCHANGED <<scm, directory, mrp>>
Begins(r) ==
    \/ CatalogueRequest(r) /\ UNCHANGED <<directory, mrp>>
    \/ DirectoryRequest(r) /\ UNCHANGED <<scm, mrp>>
    \/ AssembliesRequest(r)
VendorMoves == \E v \in Vendors : CreateSupplier(v) \/ \E d \in 0..2 : ReceiptMoves(v, d)
LEMMA NextCases ==
  ASSUME Next
  PROVE  \/ \E r \in Requests :
              \/ Begins(r)
              \/ PartStep(r) /\ UNCHANGED <<models, directory, mrp>>
              \/ ProductStep(r) /\ UNCHANGED <<scm, vendorVars, mrp>>
              \/ VendorStep(r) /\ UNCHANGED <<scm, productVars, mrp>>
              \/ ModelStep(r) /\ UNCHANGED <<parts, lastId, stocks, directory, mrp>>
              \/ BillStep(r) /\ UNCHANGED <<scm, directory>>
              \/ ReadStep(r) /\ UNCHANGED <<scm, directory, bom, erased, last>>
              \/ StepFails(r) /\ Stays
         \/ VendorMoves /\ UNCHANGED <<scm, productVars, mrp>>
         \/ \E k \in Keys : ExpireBOM(k)
         \/ RestartSCM
<1>1. ASSUME NEW r \in Requests, CatalogueStep(r), UNCHANGED <<directory, mrp>>
      PROVE  \/ PartStep(r) /\ UNCHANGED <<models, directory, mrp>>
             \/ ModelStep(r) /\ UNCHANGED <<parts, lastId, stocks, directory, mrp>>
  <2>1. CASE ModelStep(r)
    BY <1>1, <2>1 DEF ModelStep, FindModel, SaveModel, MarkModel, scm
  <2>2. CASE ~ModelStep(r)
    <3>1. PartStep(r)
      BY <1>1, <2>2 DEF CatalogueStep, ModelStep, PartStep
    <3>2. UNCHANGED models
      BY <1>1, <2>2 DEF CatalogueStep, ModelStep, InsertPartRow, InsertStockRow, FindPart, UpdateStockName,
                        UpdatePartRow, UpdateStockCost, DeleteStockRow, DeletePartRows, scm
    <3> QED
      BY <1>1, <3>1, <3>2
  <2> QED
    BY <2>1, <2>2
<1>2. ASSUME NEW r \in Requests, DirectoryStep(r), UNCHANGED <<scm, mrp>>
      PROVE  \/ ProductStep(r) /\ UNCHANGED <<scm, vendorVars, mrp>>
             \/ VendorStep(r) /\ UNCHANGED <<scm, productVars, mrp>>
  <2>1. CASE ProductStep(r)
    BY <1>2, <2>1 DEF ProductStep, InsertProduct, ChangeProduct, GetProductByID, SetProduct, vendorVars, directory
  <2>2. CASE ~ProductStep(r)
    <3>1. VendorStep(r)
      BY <1>2, <2>2 DEF DirectoryStep, ProductStep, VendorStep
    <3>2. UNCHANGED productVars
      BY <3>1 DEF VendorStep, InsertMapping, DeleteOptimalSupplier, CountGoodsReceiptsByVendor,
                  FindGoodsReceiptsByVendor, UpdateSupplier, FindSkuMappingsBySupplierID, FindSkuMappingsBySKU,
                  ScoreSupplier, SetOptimalSupplier, productVars, directory
    <3> QED
      BY <1>2, <3>1, <3>2
  <2> QED
    BY <2>1, <2>2
<1>3. ASSUME NEW r \in Requests, AssembliesStep(r)
      PROVE  \/ PartStep(r) /\ UNCHANGED <<models, directory, mrp>>
             \/ BillStep(r) /\ UNCHANGED <<scm, directory>>
             \/ ReadStep(r) /\ UNCHANGED <<scm, directory, bom, erased, last>>
  <2>1. CASE CheckPart(r)
    BY <2>1 DEF CheckPart, PartStep, scm
  <2>2. CASE ReadStep(r)
    BY <2>2, ZenonT(60) DEF ReadStep, LoadBOM, CacheBOM, mrp
  <2>3. CASE BillStep(r)
    BY <2>3 DEF BillStep, ResolveComponentPartID, HardDeleteBOMEntriesByModelCode, CreateBOMEntries, InvalidateBOM,
                DeleteBOMEntriesByModelCode, CreateProductModel, DeleteProductModel
  <2> QED
    BY <1>3, <2>1, <2>2, <2>3 DEF AssembliesStep, ReadStep, BillStep
<1>4. ASSUME VendorMoves PROVE UNCHANGED productVars
  BY <1>4 DEF VendorMoves, CreateSupplier, ReceiptMoves
<1> QED
  BY <1>1, <1>2, <1>3, <1>4 DEF Next, Begins, Stays, VendorMoves

LEMMA BeginCases ==
  ASSUME PartsOK, VendorsOK, NEW r \in Requests, Begins(r)
  PROVE  Stays /\ \E y : Opening(r, y)
<1>1. CASE CatalogueRequest(r) /\ UNCHANGED <<directory, mrp>>
  <2>1. PICK s \in Skus, text \in Texts, fields \in FieldSets :
          \/ CreatePartCatalog(r, s, text) \/ CreateComponentStock(r, s, text)
          \/ UpdatePartCatalog(r, s, fields, text) \/ DeletePartCatalog(r, s)
    BY <1>1, CatalogueAssumption DEF CatalogueRequest, FieldSets
  <2>2. UNCHANGED scm
    BY <2>1 DEF CreatePartCatalog, CreateComponentStock, UpdatePartCatalog, DeletePartCatalog
  <2> QED
    BY <1>1, <2>1, <2>2, PartOpens DEF Stays
<1>2. CASE DirectoryRequest(r) /\ UNCHANGED <<scm, mrp>>
  <2>1. CASE \E p \in Products : GetProduct(r, p) \/ \E name \in Names : CreateProduct(r, p, name) \/ UpdateProduct(r, p, name)
    <3>1. PICK p \in Products, name \in Names : GetProduct(r, p) \/ CreateProduct(r, p, name) \/ UpdateProduct(r, p, name)
      BY <2>1, DirectoryAssumption
    <3>2. UNCHANGED directory
      BY <3>1 DEF GetProduct, CreateProduct, UpdateProduct
    <3> QED
      BY <1>2, <3>1, <3>2, ProductOpens DEF Stays
  <2>2. ASSUME NEW v, NEW s,
               \/ v \in Vendors /\ s \in Offered /\ CreateSkuMapping(r, v, s)
               \/ v \in Vendors /\ UpdateSupplierMetrics(r, v)
               \/ s \in Offered /\ GetOptimalSupplier(r, s)
        PROVE  Stays /\ \E y : Opening(r, y)
    <3>1. UNCHANGED directory
      BY <2>2 DEF CreateSkuMapping, UpdateSupplierMetrics, GetOptimalSupplier
    <3> QED
      BY <1>2, <2>2, <3>1, VendorOpens DEF Stays
  <2> QED
    BY <1>2, <2>1, <2>2 DEF DirectoryRequest
<1>3. CASE AssembliesRequest(r)
  <2>1. CASE \E s \in Skus, text \in Texts, fields \in FieldSets :
               \/ CreateCatalogPart(r, s, text)
               \/ (UpdatePartCatalog(r, s, fields, text) \/ DeletePartCatalog(r, s)) /\ UNCHANGED <<directory, mrp>>
    <3>1. PICK s \in Skus, text \in Texts, fields \in FieldSets :
               \/ CreateCatalogPart(r, s, text)
               \/ (UpdatePartCatalog(r, s, fields, text) \/ DeletePartCatalog(r, s)) /\ UNCHANGED <<directory, mrp>>
      BY <2>1
    <3>2. Stays
      BY <3>1 DEF CreateCatalogPart, UpdatePartCatalog, DeletePartCatalog, Stays
    <3> QED
      BY <3>1, <3>2, PartOpens
  <2>2. ASSUME NEW m, NEW c, NEW s,
               \/ m \in Codes /\ c \in Recipes /\ (CreateAssembly(r, m, c) \/ UpdateAssembly(r, m, c))
               \/ m \in Codes /\ (DeleteAssembly(r, m) \/ GetBOMByModelCode(r, m))
               \/ GetAllBOMs(r)
               \/ s \in Skus /\ GetWhereUsedByPartID(r, s)
        PROVE  Stays /\ \E y : Opening(r, y)
    <3>1. Stays
      BY <2>2 DEF CreateAssembly, UpdateAssembly, DeleteAssembly, GetBOMByModelCode, GetAllBOMs,
                  GetWhereUsedByPartID, Stays
    <3> QED
      BY <2>2, <3>1, BillOpens
  <2>3. CASE \E s \in Skus : \/ \E text \in Texts : CreateCatalogPart(r, s, text) \/ UpdateCatalogPart(r, s, text)
                             \/ DeleteCatalogPart(r, s)
    <3>1. {"description", "price"} \in FieldSets /\ Texts # {}
      BY CatalogueAssumption DEF FieldSets
    <3> QED
      BY <2>1, <2>3, <3>1 DEF UpdateCatalogPart, DeleteCatalogPart
  <2> QED
    BY <1>3, <2>2, <2>3 DEF AssembliesRequest
<1> QED
  BY <1>1, <1>2, <1>3 DEF Begins

-----------------------------------------------------------------------------
(* Type correctness.                                                       *)
LEMMA PartTypes ==
  ASSUME Types, NEW r \in Requests, PartStep(r)
  PROVE  PartsOK'
<1> PICK x, s : x = req[r] /\ s = req[r].key
  OBVIOUS
<1>1. PartsOK /\ s \in Skus /\ (x.kind # "delete part" => x.arg \in Texts) /\ x.kind \in Kinds /\ x.at \in Places(x.kind)
  <2>1. x.kind \in PartKinds
    BY PartTurns
  <2> QED
    BY <2>1 DEF Types, RequestsOK, RequestType, Serving, About
<1>2. /\ parts \in [Skus -> SUBSET [id: PartIds, text: Texts]] /\ lastId \in [Skus -> 0..MaxRows]
      /\ \A t \in Skus : \A row \in parts[t] : row.id \in {t} \X (1..lastId[t])
      /\ stocks \in [Skus -> StockRows \cup {None}]
  BY <1>1 DEF PartsOK
<1>3. CASE InsertPartRow(r)
  <2>1. x.arg \in Texts
    BY <1>1, <1>3, KindAt DEF InsertPartRow, At
  <2> PICK n, row : n = lastId[s] + 1 /\ row = [id |-> <<s, lastId[s] + 1>>, text |-> x.arg]
    OBVIOUS
  <2>2. n \in 1..MaxRows
    <3>1. lastId[s] < MaxRows
      BY <1>3 DEF InsertPartRow
    <3>2. lastId[s] \in 0..MaxRows
      BY <1>1, <1>2
    <3> QED
      BY <3>1, <3>2, CatalogueAssumption
  <2>3. lastId' = [lastId EXCEPT ![s] = n] /\ parts' = [parts EXCEPT ![s] = parts[s] \cup {row}] /\ UNCHANGED stocks
    BY <1>2, <1>1, <1>3 DEF InsertPartRow
  <2>4. row \in [id: PartIds, text: Texts] /\ row.id = <<s, n>>
    BY <1>1, <2>1, <2>2 DEF PartIds
  <2>5. parts' \in [Skus -> SUBSET [id: PartIds, text: Texts]]
    <3>1. parts[s] \cup {row} \in SUBSET [id: PartIds, text: Texts]
      BY <1>1, <1>2, <2>4
    <3> QED
      BY <1>1, <1>2, <2>3, <3>1
  <2>6. lastId' \in [Skus -> 0..MaxRows]
    <3>1. n \in 0..MaxRows
      BY <2>2, CatalogueAssumption
    <3> QED
      BY <1>1, <1>2, <2>3, <3>1
  <2>7. ASSUME NEW t \in Skus, NEW z \in parts'[t] PROVE z.id \in {t} \X (1..lastId'[t])
    <3>1. CASE t # s
      BY <1>2, <2>3, <2>7, <3>1
    <3>2. CASE t = s
      <4>1. lastId'[t] = n /\ lastId[s] \in 0..MaxRows /\ n = lastId[s] + 1
        BY <1>1, <1>2, <2>3, <3>2
      <4>2. z = row \/ (z \in parts[s] /\ z.id \in {s} \X (1..lastId[s]))
        BY <1>1, <1>2, <2>3, <2>7, <3>2
      <4>3. n \in 1..n /\ 1..lastId[s] \subseteq 1..n
        BY <4>1, CatalogueAssumption
      <4> QED
        BY <2>4, <3>2, <4>1, <4>2, <4>3
    <3> QED
      BY <3>1, <3>2
  <2> QED
    BY <1>2, <2>3, <2>5, <2>6, <2>7 DEF PartsOK
<1>4. ASSUME UNCHANGED <<parts, lastId>>, NEW row \in StockRows, UNCHANGED stocks \/ stocks' = [stocks EXCEPT ![s] = row]
      PROVE  PartsOK'
  BY <1>1, <1>2, <1>4 DEF PartsOK
<1>5. ASSUME UNCHANGED <<parts, lastId, stocks>> PROVE PartsOK'
  BY <1>1, <1>5 DEF PartsOK
<1>6. CASE InsertStockRow(r)
  <2>1. x.arg \in Texts
    BY <1>1, <1>6, KindAt DEF InsertStockRow, At
  <2>2. Stock(x.arg) \in StockRows
    BY <2>1 DEF Stock, StockRows
  <2> QED
    BY <1>4, <1>6, <2>2 DEF InsertStockRow
<1>7. CASE FindPart(r) \/ CheckPart(r)
  BY <1>5, <1>7 DEF FindPart, CheckPart, scm
<1>8. ASSUME UNCHANGED <<parts, lastId>>, x.arg \in Texts, Live(stocks[s]),
             \/ stocks' = [stocks EXCEPT ![s].name = x.arg]
             \/ stocks' = [stocks EXCEPT ![s].cost = x.arg]
             \/ stocks' = [stocks EXCEPT ![s].gone = TRUE]
      PROVE  PartsOK'
  <2>1. stocks[s] \in StockRows
    BY <1>1, <1>2, <1>8 DEF Live
  <2> PICK a, b, c : /\ a = [stocks[s] EXCEPT !.name = x.arg] /\ b = [stocks[s] EXCEPT !.cost = x.arg]
                     /\ c = [stocks[s] EXCEPT !.gone = TRUE]
    OBVIOUS
  <2>2. a \in StockRows /\ b \in StockRows /\ c \in StockRows
    BY <1>8, <2>1 DEF StockRows
  <2>3. stocks' = [stocks EXCEPT ![s] = a] \/ stocks' = [stocks EXCEPT ![s] = b] \/ stocks' = [stocks EXCEPT ![s] = c]
    BY <1>8
  <2> QED
    BY <1>4, <1>8, <2>2, <2>3
<1>9. CASE UpdateStockName(r) \/ UpdateStockCost(r)
  <2>1. x.arg \in Texts
    BY <1>1, <1>9, KindAt DEF UpdateStockName, UpdateStockCost, At
  <2> QED
    BY <1>5, <1>8, <1>9, <2>1 DEF UpdateStockName, UpdateStockCost
<1>10. CASE UpdatePartRow(r)
  <2>1. x.arg \in Texts
    BY <1>1, <1>10, KindAt DEF UpdatePartRow, At
  <2> PICK rows : rows = {[row EXCEPT !.text = x.arg] : row \in parts[s]}
    OBVIOUS
  <2>2. parts' = [parts EXCEPT ![s] = rows] /\ UNCHANGED <<lastId, stocks>>
    BY <1>10 DEF UpdatePartRow
  <2>3. ASSUME NEW z \in rows PROVE z \in [id: PartIds, text: Texts] /\ z.id \in {s} \X (1..lastId[s])
    <3>1. PICK row \in parts[s] : z = [row EXCEPT !.text = x.arg]
      BY <2>3
    <3>2. row \in [id: PartIds, text: Texts] /\ row.id \in {s} \X (1..lastId[s])
      BY <1>1, <1>2
    <3> QED
      BY <2>1, <3>1, <3>2
  <2>4. parts' \in [Skus -> SUBSET [id: PartIds, text: Texts]]
    BY <1>1, <1>2, <2>2, <2>3
  <2>5. \A t \in Skus : \A row \in parts'[t] : row.id \in {t} \X (1..lastId[t])
    BY <1>1, <1>2, <2>2, <2>3
  <2> QED
    BY <1>2, <2>2, <2>4, <2>5 DEF PartsOK
<1>11. CASE DeleteStockRow(r)
  <2>1. UNCHANGED stocks \/ (Live(stocks[s]) /\ stocks' = [stocks EXCEPT ![s].gone = TRUE])
    BY <1>11 DEF DeleteStockRow
  <2>2. UNCHANGED <<parts, lastId>>
    BY <1>11 DEF DeleteStockRow
  <2> PICK c : c = [stocks[s] EXCEPT !.gone = TRUE]
    OBVIOUS
  <2>3. CASE Live(stocks[s]) /\ stocks' = [stocks EXCEPT ![s].gone = TRUE]
    <3>1. c \in StockRows
      <4>1. stocks[s] \in StockRows
        BY <1>1, <1>2, <2>3 DEF Live
      <4> QED
        BY <4>1 DEF StockRows
    <3> QED
      BY <1>4, <2>2, <2>3, <3>1
  <2> QED
    BY <1>5, <2>1, <2>2, <2>3
<1>12. CASE DeletePartRows(r)
  <2>1. parts' = [parts EXCEPT ![s] = {}] /\ UNCHANGED <<lastId, stocks>>
    BY <1>12 DEF DeletePartRows
  <2> QED
    BY <1>1, <1>2, <2>1 DEF PartsOK
<1> QED
  BY <1>3, <1>6, <1>7, <1>9, <1>10, <1>11, <1>12 DEF PartStep

LEMMA InitIs ==
  ASSUME Init
  PROVE  \E seeded \in BOOLEAN, warm \in BOOLEAN, c \in Recipes, v \in Vendors :
        /\ parts = [s \in Skus |-> IF seeded THEN {[id |-> <<s, 1>>, text |-> CHOOSE t \in Texts : TRUE]} ELSE {}]
        /\ lastId = [s \in Skus |-> IF seeded THEN 1 ELSE 0]
        /\ stocks = [s \in Skus |-> IF seeded THEN Stock(CHOOSE t \in Texts : TRUE) ELSE None]
        /\ models = [m \in Codes |-> IF seeded THEN Model ELSE None]
        /\ bom = [m \in Codes |-> IF seeded THEN {<<c[i], 1>> : i \in DOMAIN c} ELSE {}]
        /\ product = [p \in Products |-> IF seeded THEN CHOOSE w \in Names : TRUE ELSE None]
        /\ rating = [w \in Vendors |-> IF seeded THEN NewRating ELSE None]
        /\ mapping = [s \in Offered |-> IF seeded THEN {v} ELSE {}]
        /\ receipts = [w \in Vendors |-> [all |-> 2 * (IF seeded THEN 1 ELSE 0), complete |-> IF seeded THEN 1 ELSE 0,
                                          defects |-> IF seeded THEN 1 ELSE 0]]
        /\ cached = [k \in Keys |-> IF warm THEN Loaded(k) ELSE None]
        /\ optimal = [s \in Offered |-> IF warm THEN IF seeded THEN v ELSE None ELSE None]
  BY Zenon DEF Init

LEMMA InitTypes ==
  ASSUME Init
  PROVE  Types
<1> PICK text, name : text = (CHOOSE t \in Texts : TRUE) /\ name = (CHOOSE w \in Names : TRUE)
  OBVIOUS
<1>1. text \in Texts /\ name \in Names
  BY CatalogueAssumption, DirectoryAssumption
<1>0. PICK seeded \in BOOLEAN, warm \in BOOLEAN, c \in Recipes, v \in Vendors :
        /\ parts = [s \in Skus |-> IF seeded THEN {[id |-> <<s, 1>>, text |-> CHOOSE t \in Texts : TRUE]} ELSE {}]
        /\ lastId = [s \in Skus |-> IF seeded THEN 1 ELSE 0]
        /\ stocks = [s \in Skus |-> IF seeded THEN Stock(CHOOSE t \in Texts : TRUE) ELSE None]
        /\ models = [m \in Codes |-> IF seeded THEN Model ELSE None]
        /\ bom = [m \in Codes |-> IF seeded THEN {<<c[i], 1>> : i \in DOMAIN c} ELSE {}]
        /\ product = [p \in Products |-> IF seeded THEN CHOOSE w \in Names : TRUE ELSE None]
        /\ rating = [w \in Vendors |-> IF seeded THEN NewRating ELSE None]
        /\ mapping = [s \in Offered |-> IF seeded THEN {v} ELSE {}]
        /\ receipts = [w \in Vendors |-> [all |-> 2 * (IF seeded THEN 1 ELSE 0), complete |-> IF seeded THEN 1 ELSE 0,
                                          defects |-> IF seeded THEN 1 ELSE 0]]
        /\ cached = [k \in Keys |-> IF warm THEN Loaded(k) ELSE None]
        /\ optimal = [s \in Offered |-> IF warm THEN IF seeded THEN v ELSE None ELSE None]
  BY InitIs
<1>2. /\ parts = [s \in Skus |-> IF seeded THEN {[id |-> <<s, 1>>, text |-> text]} ELSE {}]
      /\ lastId = [s \in Skus |-> IF seeded THEN 1 ELSE 0]
      /\ stocks = [s \in Skus |-> IF seeded THEN Stock(text) ELSE None]
      /\ models = [m \in Codes |-> IF seeded THEN Model ELSE None]
      /\ bom = [m \in Codes |-> IF seeded THEN {<<c[i], 1>> : i \in DOMAIN c} ELSE {}]
      /\ product = [p \in Products |-> IF seeded THEN name ELSE None]
      /\ rating = [w \in Vendors |-> IF seeded THEN NewRating ELSE None]
      /\ mapping = [s \in Offered |-> IF seeded THEN {v} ELSE {}]
      /\ receipts = [w \in Vendors |-> [all |-> 2 * (IF seeded THEN 1 ELSE 0), complete |-> IF seeded THEN 1 ELSE 0,
                                        defects |-> IF seeded THEN 1 ELSE 0]]
      /\ cached = [k \in Keys |-> IF warm THEN Loaded(k) ELSE None]
      /\ optimal = [s \in Offered |-> IF warm THEN IF seeded THEN v ELSE None ELSE None]
  BY <1>0
<1>3. /\ last = [m \in Codes |-> IF models[m] = None THEN None ELSE bom[m]]
      /\ shown = product /\ erased = [m \in Codes |-> {}]
      /\ req = [r \in Requests |-> Idle] /\ alone = Subjects /\ calm = Subjects
  BY DEF Init, RequestsInit
<1>4. RequestsOK
  BY <1>3, IdleType DEF RequestsOK
<1>5. PartsOK
  <2>1. \A s \in Skus : <<s, 1>> \in PartIds /\ <<s, 1>> \in {s} \X (1..1)
    BY CatalogueAssumption DEF PartIds
  <2>2. Stock(text) \in StockRows
    BY <1>1 DEF Stock, StockRows
  <2>3. lastId \in [Skus -> 0..MaxRows] /\ stocks \in [Skus -> StockRows \cup {None}]
    BY <1>2, <2>2, CatalogueAssumption
  <2>4. parts \in [Skus -> SUBSET [id: PartIds, text: Texts]]
    BY <1>1, <1>2, <2>1
  <2>5. ASSUME NEW s \in Skus, NEW x \in parts[s] PROVE x.id \in {s} \X (1..lastId[s])
    BY <1>2, <2>1, <2>5
  <2> QED
    BY <2>3, <2>4, <2>5 DEF PartsOK
<1>6. BillsOK
  <2>1. models \in [Codes -> ModelRows \cup {None}]
    BY <1>2 DEF Model, ModelRows
  <2>2. {<<c[i], 1>> : i \in DOMAIN c} \in SUBSET PartIds
    BY RecipesAssumption, CatalogueAssumption DEF PartIds
  <2>3. bom \in [Codes -> SUBSET PartIds] /\ erased \in [Codes -> SUBSET PartIds]
    BY <1>2, <1>3, <2>2
  <2>4. last \in [Codes -> {None} \cup SUBSET PartIds]
    BY <1>3, <2>3
  <2>5. \A k : Loaded(k) \subseteq AllRows
    BY <2>3 DEF Loaded, Rows, AllRows
  <2>6. cached \in [Keys -> {None} \cup SUBSET AllRows]
    BY <1>2, <2>5
  <2> QED
    BY <2>1, <2>3, <2>4, <2>6 DEF BillsOK
<1>7. ProductsOK
  BY <1>1, <1>2, <1>3 DEF ProductsOK
<1>8. VendorsOK
  <2>1. NewRating \in Ratings
    BY DEF NewRating, Ratings
  <2>2. rating \in [Vendors -> Ratings \cup {None}] /\ mapping \in [Offered -> SUBSET Vendors]
    BY <1>2, <2>1
  <2>3. receipts \in [Vendors -> [all: Nat, complete: Nat, defects: Nat]] /\ optimal \in [Offered -> Vendors \cup {None}]
    BY <1>2
  <2>4. \A s \in Offered : mapping[s] \subseteq There
    <3>1. CASE seeded
      <4>1. rating[v] # None
        BY <1>2, <2>1, <3>1, DirectoryAssumption DEF Ratings
      <4> QED
        BY <1>2, <3>1, <4>1 DEF There
    <3>2. CASE ~seeded
      BY <1>2, <3>2
    <3> QED
      BY <3>1, <3>2
  <2> QED
    BY <2>2, <2>3, <2>4 DEF VendorsOK
<1> QED
  BY <1>3, <1>4, <1>5, <1>6, <1>7, <1>8 DEF Types

LEMMA KeptServes ==
  ASSUME RequestsOK, There \subseteq There', UNCHANGED req
  PROVE  RequestsOK'
  BY GrownServes DEF RequestsOK

LEMMA PartsKept == PartsOK /\ UNCHANGED <<parts, lastId, stocks>> => PartsOK'
  BY DEF PartsOK
LEMMA BillsKept == BillsOK /\ UNCHANGED <<models, mrp>> => BillsOK'
  BY DEF BillsOK, mrp
LEMMA ProductsKept == ProductsOK /\ UNCHANGED productVars => ProductsOK'
  BY DEF ProductsOK, productVars
LEMMA VendorsKept == VendorsOK /\ UNCHANGED vendorVars /\ There \subseteq There' => VendorsOK'
  BY DEF VendorsOK, vendorVars
LEMMA ThereKept == UNCHANGED <<product, rating>> => There \subseteq There'
  BY DEF There

LEMMA TypesStep ==
  ASSUME Types, [Next]_vars
  PROVE  Types'
<1>1. RequestsOK /\ PartsOK /\ BillsOK /\ ProductsOK /\ VendorsOK /\ alone \subseteq Subjects /\ calm \subseteq Subjects
  BY DEF Types
<1>2. ASSUME NEW r \in Requests, NEW y, Turn(r, y), Serving(y, There'), There \subseteq There'
      PROVE  RequestsOK' /\ alone' \subseteq Subjects /\ calm' \subseteq Subjects
  BY <1>1, <1>2, Served DEF Turn
<1>3. Stays => /\ UNCHANGED <<parts, lastId, stocks>> /\ UNCHANGED <<models, mrp>> /\ UNCHANGED productVars
               /\ UNCHANGED vendorVars /\ UNCHANGED <<product, rating>>
  BY DEF Stays, scm, directory, productVars, vendorVars
<1>4. Stays => PartsOK' /\ BillsOK' /\ ProductsOK' /\ VendorsOK' /\ There \subseteq There'
  BY <1>1, <1>3, PartsKept, BillsKept, ProductsKept, VendorsKept, ThereKept
<1>5. ASSUME NEW r \in Requests, Begins(r) PROVE Types'
  <2>1. PICK y : Opening(r, y)
    BY <1>1, <1>5, BeginCases
  <2>2. Stays
    BY <1>1, <1>5, BeginCases
  <2>3. Serving(y, There')
    BY <1>4, <2>1, <2>2, GrownServes DEF Opening
  <2>4. \A q \in Requests : Serving(req[q], There')
    BY <1>1, <1>4, <2>2, GrownServes DEF RequestsOK
  <2>5. RequestsOK'
    BY <1>1, <2>1, <2>3, <2>4 DEF RequestsOK, Opening
  <2> QED
    BY <1>1, <1>4, <2>1, <2>2, <2>5 DEF Types, Opening
<1>6. ASSUME NEW r \in Requests, PartStep(r), UNCHANGED <<models, directory, mrp>> PROVE Types'
  <2>1. UNCHANGED productVars /\ UNCHANGED vendorVars /\ UNCHANGED <<product, rating>> /\ UNCHANGED <<models, mrp>>
    BY <1>6 DEF directory, productVars, vendorVars
  <2>2. There \subseteq There'
    BY <2>1, ThereKept
  <2>3. PICK y : Turn(r, y) /\ \A there : Serving(req[r], there) => Serving(y, there)
    BY <1>6, PartTurns
  <2>4. Serving(y, There')
    BY <1>1, <2>2, <2>3, GrownServes DEF RequestsOK
  <2> QED
    BY <1>1, <1>2, <1>6, <2>1, <2>2, <2>3, <2>4, PartTypes, BillsKept, ProductsKept, VendorsKept DEF Types
<1>7. ASSUME NEW r \in Requests, ProductStep(r), UNCHANGED <<scm, vendorVars, mrp>> PROVE Types'
  <2>1. UNCHANGED <<parts, lastId, stocks>> /\ UNCHANGED <<models, mrp>> /\ UNCHANGED vendorVars
    BY <1>7 DEF scm
  <2>2. ProductsOK' /\ There \subseteq There' /\ \E y : Turn(r, y) /\ Serving(y, There')
    BY <1>7, ProductTurns
  <2> QED
    BY <1>1, <1>2, <2>1, <2>2, PartsKept, BillsKept, VendorsKept DEF Types
<1>8. ASSUME NEW r \in Requests, VendorStep(r), UNCHANGED <<scm, productVars, mrp>> PROVE Types'
  <2>1. UNCHANGED <<parts, lastId, stocks>> /\ UNCHANGED <<models, mrp>> /\ UNCHANGED productVars
    BY <1>8 DEF scm
  <2>2. VendorsOK' /\ There \subseteq There' /\ \E y : Turn(r, y) /\ Serving(y, There')
    BY <1>8, VendorTurns
  <2> QED
    BY <1>1, <1>2, <2>1, <2>2, PartsKept, BillsKept, ProductsKept DEF Types
<1>9. ASSUME UNCHANGED directory, BillsOK', PartsOK', NEW r \in Requests, NEW y, Turn(r, y), \A there : Serving(y, there)
      PROVE  Types'
  <2>1. UNCHANGED productVars /\ UNCHANGED vendorVars /\ UNCHANGED <<product, rating>>
    BY <1>9 DEF directory, productVars, vendorVars
  <2> QED
    BY <1>1, <1>2, <1>9, <2>1, ProductsKept, VendorsKept, ThereKept DEF Types
<1>10. ASSUME NEW r \in Requests, ModelStep(r), UNCHANGED <<parts, lastId, stocks, directory, mrp>> PROVE Types'
  <2>1. models' \in [Codes -> ModelRows \cup {None}] /\ \E y : Turn(r, y) /\ \A there : Serving(y, there)
    BY <1>10, ModelTurns
  <2>2. BillsOK'
    BY <1>1, <1>10, <2>1 DEF BillsOK, mrp
  <2> QED
    BY <1>1, <1>9, <1>10, <2>1, <2>2, PartsKept
<1>11. ASSUME NEW r \in Requests, BillStep(r), UNCHANGED <<scm, directory>> PROVE Types'
  <2>1. /\ bom' \in [Codes -> SUBSET PartIds] /\ erased' \in [Codes -> SUBSET PartIds]
        /\ last' \in [Codes -> {None} \cup SUBSET PartIds] /\ cached' \in [Keys -> {None} \cup SUBSET AllRows]
        /\ \E y : Turn(r, y) /\ \A there : Serving(y, there)
    BY <1>11, BillTurns
  <2>2. UNCHANGED <<parts, lastId, stocks>> /\ UNCHANGED models
    BY <1>11 DEF scm
  <2>3. BillsOK'
    BY <1>1, <2>1, <2>2 DEF BillsOK
  <2> QED
    BY <1>1, <1>9, <1>11, <2>1, <2>2, <2>3, PartsKept
<1>12. ASSUME NEW r \in Requests, ReadStep(r), UNCHANGED <<scm, directory, bom, erased, last>> PROVE Types'
  <2>1. cached' \in [Keys -> {None} \cup SUBSET AllRows] /\ \E y : Turn(r, y) /\ \A there : Serving(y, there)
    BY <1>12, ReadTurns
  <2>2. UNCHANGED <<parts, lastId, stocks>> /\ UNCHANGED models
    BY <1>12 DEF scm
  <2>3. BillsOK'
    BY <1>1, <1>12, <2>1, <2>2 DEF BillsOK
  <2> QED
    BY <1>1, <1>9, <1>12, <2>1, <2>2, <2>3, PartsKept
<1>13. ASSUME NEW r \in Requests, StepFails(r), Stays PROVE Types'
  <2>1. Turn(r, Idle)
    BY <1>13, Endings DEF StepFails, Spoil
  <2> QED
    BY <1>1, <1>2, <1>4, <1>13, <2>1, IdleType DEF Types
<1>14. ASSUME VendorMoves, UNCHANGED <<scm, productVars, mrp>> PROVE Types'
  <2>1. UNCHANGED <<parts, lastId, stocks>> /\ UNCHANGED <<models, mrp>> /\ UNCHANGED productVars /\ UNCHANGED product
    BY <1>14 DEF scm, productVars
  <2>2. UNCHANGED <<req, alone, calm, mapping, optimal>>
    BY <1>14 DEF VendorMoves, CreateSupplier, ReceiptMoves, Aside
  <2>3. VendorsOK' /\ There \subseteq There'
    <3>1. PICK v \in Vendors : CreateSupplier(v) \/ \E d \in 0..2 : ReceiptMoves(v, d)
      BY <1>14 DEF VendorMoves
    <3>2. CASE CreateSupplier(v)
      <4>1. rating' = [rating EXCEPT ![v] = NewRating] /\ UNCHANGED receipts /\ NewRating \in Ratings
        BY <3>2 DEF CreateSupplier, NewRating, Ratings
      <4>2. rating' \in [Vendors -> Ratings \cup {None}] /\ None \notin Ratings
        BY <1>1, <4>1, DirectoryAssumption DEF VendorsOK, Ratings
      <4>3. There \subseteq There'
        BY <1>1, <2>1, <4>1, <4>2, ThereGrows DEF VendorsOK
      <4> QED
        BY <1>1, <2>2, <4>1, <4>2, <4>3 DEF VendorsOK
    <3>3. ASSUME NEW d \in 0..2, ReceiptMoves(v, d) PROVE VendorsOK' /\ There \subseteq There'
      <4> PICK got : got = receipts[v]
        OBVIOUS
      <4>1. got \in [all: Nat, complete: Nat, defects: Nat]
        BY <1>1 DEF VendorsOK
      <4> PICK came : came = [got EXCEPT !.all = got.all + 1]
        OBVIOUS
      <4> PICK half : half = [got EXCEPT !.complete = got.complete + 1]
        OBVIOUS
      <4> PICK counted : counted = [half EXCEPT !.defects = half.defects + d]
        OBVIOUS
      <4>6. came \in [all: Nat, complete: Nat, defects: Nat]
        BY <4>1
      <4>7. half \in [all: Nat, complete: Nat, defects: Nat] /\ half.defects = got.defects
        BY <4>1
      <4>8. counted \in [all: Nat, complete: Nat, defects: Nat]
        <5>1. half.defects + d \in Nat
          BY <4>7
        <5> QED
          BY <4>7, <5>1
      <4>9. UNCHANGED rating /\ v \in DOMAIN receipts
        BY <1>1, <3>3 DEF ReceiptMoves, VendorsOK
      <4>10. receipts' = [receipts EXCEPT ![v] = counted] \/ receipts' = [receipts EXCEPT ![v] = came]
        <5>1. [got EXCEPT !.complete = got.complete + 1, !.defects = got.defects + d] = counted
          BY <4>1, <4>7
        <5> QED
          BY <3>3, <5>1 DEF ReceiptMoves
      <4>4. receipts' \in [Vendors -> [all: Nat, complete: Nat, defects: Nat]]
        BY <1>1, <4>6, <4>8, <4>10 DEF VendorsOK
      <4>5. There \subseteq There'
        BY <2>1, <4>9, ThereKept
      <4> QED
        BY <1>1, <2>2, <4>9, <4>4, <4>5 DEF VendorsOK
    <3> QED
      BY <3>1, <3>2, <3>3
  <2> QED
    BY <1>1, <2>1, <2>2, <2>3, KeptServes, PartsKept, BillsKept, ProductsKept DEF Types
<1>15. ASSUME NEW k \in Keys, ExpireBOM(k) PROVE Types'
  <2>1. /\ UNCHANGED <<req, alone, calm, models, bom, erased, last>> /\ UNCHANGED <<parts, lastId, stocks>>
        /\ UNCHANGED productVars /\ UNCHANGED vendorVars /\ UNCHANGED <<product, rating>>
        /\ cached' = [cached EXCEPT ![k] = None]
    BY <1>15 DEF ExpireBOM, Aside, scm, directory, productVars, vendorVars
  <2>2. BillsOK'
    BY <1>1, <2>1 DEF BillsOK
  <2> QED
    BY <1>1, <2>1, <2>2, KeptServes, PartsKept, ProductsKept, VendorsKept, ThereKept DEF Types
<1>16. CASE RestartSCM
  <2>1. /\ UNCHANGED <<parts, lastId, stocks>> /\ UNCHANGED <<models, mrp>> /\ UNCHANGED vendorVars
        /\ UNCHANGED <<product, rating>> /\ shown' = [p \in Products |-> IF product[p] = None THEN shown[p] ELSE product[p]]
    BY <1>16 DEF RestartSCM, WarmupCache, scm, vendorVars
  <2>2. There \subseteq There'
    BY <2>1, ThereKept
  <2>3. RequestsOK'
    <3>1. \A q \in Requests : Serving(req[q], There') /\ req[q] \in RequestType
      BY <1>1, <2>2, GrownServes DEF RequestsOK
    <3>2. PICK cut : req' = [q \in Requests |-> IF q \in cut THEN Idle ELSE req[q]]
      BY <1>16 DEF RestartSCM
    <3> QED
      BY <3>1, <3>2, IdleType DEF RequestsOK
  <2>4. alone' \subseteq Subjects /\ calm' \subseteq Subjects
    BY <1>1, <1>16, SubjectsAssumption DEF RestartSCM
  <2>5. ProductsOK'
    BY <1>1, <2>1 DEF ProductsOK
  <2> QED
    BY <1>1, <2>1, <2>2, <2>3, <2>4, <2>5, PartsKept, BillsKept, VendorsKept DEF Types
<1>17. CASE UNCHANGED vars
  <2>1. UNCHANGED <<req, alone, calm>> /\ Stays
    BY <1>17 DEF vars, Stays
  <2> QED
    BY <1>1, <1>4, <2>1, KeptServes DEF Types
<1> QED
  BY <1>5, <1>6, <1>7, <1>8, <1>10, <1>11, <1>12, <1>13, <1>14, <1>15, <1>16, <1>17, NextCases

LEMMA AlwaysTypes == Spec => []Types
<1>1. Init => Types
  BY InitTypes
<1>2. Types /\ [Next]_vars => Types'
  BY TypesStep
<1> QED
  BY <1>1, <1>2, PTL DEF Spec

(* Every variable keeps its type, and a request that goes on holds what its *)
(* next statement uses: the rows a component list was resolved to, the      *)
(* vendors that are left to score, the answer that goes into a cache.       *)
THEOREM TypeCorrect == Spec => []TypeOK
<1>1. ASSUME Types PROVE TypeOK
  <2>1. RequestsOK /\ PartsOK /\ BillsOK /\ ProductsOK /\ VendorsOK /\ alone \cup calm \subseteq Subjects
    BY <1>1 DEF Types
  <2>2. CatalogueOK
    BY <2>1 DEF CatalogueOK, PartsOK, BillsOK, StockRows, ModelRows
  <2>3. DirectoryOK
    <3>1. \A s \in Offered : \A v \in mapping[s] : rating[v] # None
      BY <2>1, ThereIs DEF VendorsOK
    <3> QED
      BY <2>1, <3>1 DEF DirectoryOK, ProductsOK, VendorsOK, Ratings
  <2>4. /\ {bom, erased} \subseteq [Codes -> SUBSET PartIds]
        /\ \A m \in Codes : last[m] = None \/ last[m] \subseteq PartIds
        /\ \A k \in Keys : cached[k] = None \/ cached[k] \subseteq AllRows
    BY <2>1 DEF BillsOK
  <2>5. ASSUME NEW r \in Requests
        PROVE  /\ req[r].on \subseteq Subjects
               /\ (req[r].at = "idle") <=> (req[r] = Idle)
               /\ req[r].at \in {"resolve", "insert bom"} => Len(req[r].held) <= Len(req[r].arg)
               /\ req[r].at = "cache bom" => req[r].held \subseteq AllRows
               /\ req[r].at = "show product" => req[r].held \in Names
    <3> PICK x : x = req[r]
      OBVIOUS
    <3>1. x \in RequestType /\ Serving(x, There)
      BY <2>1 DEF RequestsOK
    <3>2. x.kind \in Kinds /\ x.at \in Places(x.kind) /\ Holds(x, There) /\ Rests(x) /\ x.on \subseteq Subjects
      BY <3>1 DEF RequestType, Serving
    <3>3. x.at = "idle" => x = Idle
      BY <3>2, KindAt DEF Rests
    <3>4. x = Idle => x.at = "idle"
      BY DEF Idle
    <3>5. x.at \in {"resolve", "insert bom"} => Len(x.held) <= Len(x.arg)
      BY <3>2 DEF Holds, Resolved
    <3>6. (x.at = "cache bom" => x.held \subseteq AllRows) /\ (x.at = "show product" => x.held \in Names)
      BY <3>2 DEF Holds
    <3> QED
      BY <3>2, <3>3, <3>4, <3>5, <3>6
  <2> QED
    BY <2>1, <2>2, <2>3, <2>4, <2>5 DEF TypeOK
<1> QED
  BY <1>1, AlwaysTypes, PTL

-----------------------------------------------------------------------------
(* Who meets whom.                                                         *)

LEMMA TurnCases ==
  ASSUME Types, [Next]_vars
  PROVE  \/ \E r \in Requests : \E y : Opening(r, y)
         \/ \E r \in Requests : \E y : Turn(r, y)
         \/ UNCHANGED <<req, alone, calm>>
         \/ RestartSCM
<1>1. ASSUME NEW r \in Requests, StepFails(r) PROVE Turn(r, Idle)
  BY <1>1, Endings DEF StepFails, Spoil
<1>2. VendorMoves \/ (\E k \in Keys : ExpireBOM(k)) \/ UNCHANGED vars => UNCHANGED <<req, alone, calm>>
  BY DEF VendorMoves, CreateSupplier, ReceiptMoves, ExpireBOM, Aside, vars
<1>3. PartsOK /\ VendorsOK
  BY DEF Types
<1> QED
  BY <1>1, <1>2, <1>3, NextCases, BeginCases, PartTurns, ProductTurns, VendorTurns, ModelTurns, BillTurns, ReadTurns

LEMMA StepCases ==
  ASSUME Types, [Next]_vars
  PROVE  \/ \E r \in Requests : \E y : Opening(r, y) /\ Stays
         \/ \E r \in Requests : PartStep(r) /\ UNCHANGED <<models, directory, mrp>>
         \/ \E r \in Requests : ProductStep(r) /\ UNCHANGED <<scm, vendorVars, mrp>>
         \/ \E r \in Requests : VendorStep(r) /\ UNCHANGED <<scm, productVars, mrp>>
         \/ \E r \in Requests : ModelStep(r) /\ UNCHANGED <<parts, lastId, stocks, directory, mrp>>
         \/ \E r \in Requests : BillStep(r) /\ UNCHANGED <<scm, directory>>
         \/ \E r \in Requests : ReadStep(r) /\ UNCHANGED <<scm, directory, bom, erased, last>>
         \/ (\E r \in Requests : StepFails(r) /\ Stays) \/ RestartSCM
         \/ VendorMoves /\ UNCHANGED <<scm, productVars, mrp>>
         \/ \E k \in Keys : ExpireBOM(k)
         \/ UNCHANGED vars
<1>1. PartsOK /\ VendorsOK
  BY DEF Types
<1> QED
  BY <1>1, NextCases, BeginCases

(* What the requests that a restart of SCM lets run are about.             *)
LEMMA Spared ==
  ASSUME Types, NEW q \in Requests, req[q].at \in MRPSteps
  PROVE  req[q].on \cap Products = {}
<1> PICK x : x = req[q]
  OBVIOUS
<1>1. x \in RequestType /\ Serving(x, There)
  BY DEF Types, RequestsOK
<1>2. x.kind \in Kinds /\ x.at \in Places(x.kind) /\ About(x)
  BY <1>1 DEF RequestType, Serving
<1>3. x.kind \in Writers \cup {"none", "create part", "delete assembly", "read bom"}
  BY <1>2, KindAt DEF MRPSteps
<1>4. x.on \subseteq Skus \cup Codes
  <2>1. CASE x.kind \in Writers
    <3>1. x.key \in Codes /\ x.arg \in Seq(Skus) /\ x.on = {x.key} \cup Components(x)
      BY <1>2, <2>1, RecipesAssumption DEF About
    <3>2. \A i \in DOMAIN x.arg : x.arg[i] \in Skus
      BY <3>1, Elements
    <3> QED
      BY <3>1, <3>2 DEF Components
  <2>2. CASE x.kind \in {"none", "create part", "delete assembly", "read bom"}
    BY <1>2, <2>2 DEF About, PartKinds
  <2> QED
    BY <1>3, <2>1, <2>2
<1> QED
  BY <1>4, SubjectsAssumption

LEMMA MeetStep ==
  ASSUME Types, MeetInv, [Next]_vars
  PROVE  MeetInv'
<1>1. SUFFICES ASSUME NEW p \in Requests, NEW q \in Requests, p # q, (req[p].on \cap req[q].on # {})'
               PROVE  /\ (Reading(p) /\ Reading(q))' \/ ((req[p].on \cup req[q].on) \cap alone = {})'
                      /\ (Reading(p) <=> Reading(q))' \/ ((req[p].on \cup req[q].on) \cap calm = {})'
  BY DEF MeetInv, Meet
<1>2. DOMAIN req = Requests
  BY DEF Types, RequestsOK
<1>3. Meet(p, q)
  BY <1>1 DEF MeetInv
<1>4. CASE UNCHANGED <<req, alone, calm>>
  BY <1>1, <1>3, <1>4 DEF Meet, Reading
<1>5. ASSUME NEW r \in Requests, NEW y, Turn(r, y)
      PROVE  /\ (Reading(p) /\ Reading(q))' \/ ((req[p].on \cup req[q].on) \cap alone = {})'
             /\ (Reading(p) <=> Reading(q))' \/ ((req[p].on \cup req[q].on) \cap calm = {})'
  <2>1. \A u \in Requests : req'[u].on = {} \/ (req'[u].on = req[u].on /\ req'[u].kind = req[u].kind)
    <3>1. Idle.on = {}
      BY DEF Idle
    <3> QED
      BY <1>2, <1>5, <3>1 DEF Turn, Same
  <2>2. req'[p].on = req[p].on /\ req'[p].kind = req[p].kind /\ req'[q].on = req[q].on /\ req'[q].kind = req[q].kind
    BY <1>1, <2>1
  <2>3. alone' \subseteq alone /\ calm' \subseteq calm
    BY <1>5 DEF Turn
  <2> QED
    BY <1>1, <1>3, <2>2, <2>3 DEF Meet, Reading
<1>6. ASSUME NEW r \in Requests, NEW y, Opening(r, y)
      PROVE  /\ (Reading(p) /\ Reading(q))' \/ ((req[p].on \cup req[q].on) \cap alone = {})'
             /\ (Reading(p) <=> Reading(q))' \/ ((req[p].on \cup req[q].on) \cap calm = {})'
  <2>1. req' = [req EXCEPT ![r] = y] /\ alone' \subseteq alone /\ calm' \subseteq calm /\ Apart(r, y)
    BY <1>6 DEF Opening
  <2>2. CASE p # r /\ q # r
    BY <1>1, <1>2, <1>3, <2>1, <2>2 DEF Meet, Reading
  <2>3. CASE p = r
    <3>1. req'[p] = y /\ req'[q] = req[q] /\ req[q].on \cap y.on # {}
      BY <1>1, <1>2, <2>1, <2>3
    <3> QED
      BY <2>1, <3>1 DEF Apart, Reading
  <2>4. CASE q = r
    <3>1. req'[q] = y /\ req'[p] = req[p] /\ req[p].on \cap y.on # {}
      BY <1>1, <1>2, <2>1, <2>4
    <3> QED
      BY <2>1, <3>1 DEF Apart, Reading
  <2> QED
    BY <2>2, <2>3, <2>4
<1>7. CASE RestartSCM
  <2> PICK cut : cut = {r \in Requests : req[r].at \notin MRPSteps}
    OBVIOUS
  <2>1. req' = [r \in Requests |-> IF r \in cut THEN Idle ELSE req[r]] /\ alone' \subseteq alone \cup Products /\ calm' \subseteq calm
    BY <1>7 DEF RestartSCM
  <2>2. \A u \in Requests : req'[u].on = {} \/ (req'[u] = req[u] /\ req[u].at \in MRPSteps)
    BY <2>1 DEF Idle
  <2>3. req'[p] = req[p] /\ req'[q] = req[q] /\ req[p].at \in MRPSteps /\ req[q].at \in MRPSteps
    BY <1>1, <2>2
  <2>4. (req[p].on \cup req[q].on) \cap Products = {}
    BY <2>3, Spared
  <2> QED
    BY <1>1, <1>3, <2>1, <2>3, <2>4 DEF Meet, Reading
<1> QED
  BY <1>4, <1>5, <1>6, <1>7, TurnCases

(* Whoever changes a subject that is alone is the only one about it.       *)
LEMMA OnlyOne ==
  ASSUME MeetInv, NEW u, u \in alone, NEW r \in On(u), ~Reading(r)
  PROVE  On(u) = {r}
<1>1. ASSUME NEW q \in On(u), q # r PROVE FALSE
  <2>1. Meet(q, r) /\ u \in req[q].on \cap req[r].on
    BY <1>1 DEF MeetInv, On
  <2> QED
    BY <2>1 DEF Meet
<1> QED
  BY <1>1

-----------------------------------------------------------------------------
(* The rows of a part.                                                     *)
Plain(x) == x.at # "text" /\ ~(x.at = "stock row" /\ x.kind = "create part")

LEMMA PartOfKept ==
  ASSUME NEW s, PartOf(s), parts'[s] = parts[s], stocks'[s] = stocks[s],
         \A q \in Requests : \/ req'[q] = req[q]
                             \/ ~(Halfway(req[q]) /\ s \in req[q].on) /\ (s \in req'[q].on => Plain(req'[q]))
  PROVE  PartOf(s)'
<1>1. Whole(s) => Whole(s)'
  BY DEF Whole, Single
<1>2. \A r \in On(s) : Halfway(req[r]) => r \in On(s)' /\ Halfway(req[r])'
  BY DEF On, Halfway
<1>3. ASSUME NEW r \in Requests, r \in On(s)' PROVE Partway(req[r], s)'
  <2>1. CASE req'[r] = req[r]
    <3>1. Partway(req[r], s)
      BY <1>3, <2>1 DEF On, PartOf
    <3> QED
      BY <2>1, <3>1 DEF Partway, Single
  <2>2. CASE s \in req'[r].on => Plain(req'[r])
    BY <1>3, <2>2 DEF On, Plain, Partway
  <2> QED
    BY <2>1, <2>2
<1> QED
  BY <1>1, <1>2, <1>3 DEF PartOf, On

(* A request with a part to write has written already.                     *)
LEMMA HalfwayIs ==
  ASSUME NEW x, NEW there, x.kind \in Kinds, Serving(x, there), Halfway(x) \/ ~Plain(x)
  PROVE  x.kind \in PartKinds /\ x.wrote
<1>1. x.at \in Places(x.kind) /\ (MustHaveWritten(x) => x.wrote)
  BY DEF Serving
<1>2. x.at \in {"stock row", "text", "delete part"} /\ (x.at = "stock row" => x.kind = "create part")
  BY DEF Halfway, Plain
<1>3. MustHaveWritten(x)
  BY <1>2 DEF MustHaveWritten
<1>4. x.kind \in PartKinds
  BY <1>1, <1>2, KindAt DEF PartKinds
<1> QED
  BY <1>1, <1>3, <1>4

LEMMA PartStepKeeps ==
  ASSUME Types, MeetInv, NEW r \in Requests, PartStep(r), NEW s \in Skus, s \in alone, s \in alone', PartOf(s)
  PROVE  PartOf(s)'
<1> PICK x, k : x = req[r] /\ k = req[r].key
  OBVIOUS
<1>1. x.kind \in PartKinds /\ k \in Skus /\ x.on = {k} /\ x.kind \in Kinds /\ x.at \in Places(x.kind)
  <2>1. x.kind \in PartKinds
    BY PartTurns
  <2> QED
    BY <2>1 DEF Types, RequestsOK, RequestType, Serving, About
<1>2. DOMAIN req = Requests /\ PartsOK
  BY DEF Types, RequestsOK
<1>3. PICK y : Turn(r, y)
  BY PartTurns
<1>4. req' = [req EXCEPT ![r] = y] /\ (y = Idle \/ Same(x, y))
  BY <1>3 DEF Turn
<1>5. CASE s # k
  <2>1. s \notin y.on
    BY <1>1, <1>4, <1>5 DEF Same, Idle
  <2>2. parts'[s] = parts[s] /\ stocks'[s] = stocks[s]
    BY <1>2, <1>5 DEF PartStep, InsertPartRow, InsertStockRow, FindPart, UpdateStockName, UpdatePartRow,
        UpdateStockCost, DeleteStockRow, DeletePartRows, CheckPart, scm, PartsOK
  <2> QED
    BY <1>1, <1>2, <1>4, <1>5, <2>1, <2>2, PartOfKept
<1>6. CASE s = k
  <2>1. On(s) = {r}
    <3>1. r \in On(s) /\ ~Reading(r)
      BY <1>1, <1>6 DEF On, Reading, Reads, PartKinds
    <3> QED
      BY <3>1, OnlyOne
  <2>2. (Whole(s) \/ Halfway(x)) /\ Partway(x, s)
    BY <2>1 DEF PartOf
  <2>3. On(s)' = IF s \in y.on THEN {r} ELSE {}
    BY <1>2, <1>4, <2>1 DEF On
  <2>4. ASSUME Whole(s)' \/ (s \in y.on /\ Halfway(y)), Partway(y, s)' PROVE PartOf(s)'
    <3>1. req'[r] = y
      BY <1>2, <1>4
    <3> QED
      BY <2>3, <2>4, <3>1 DEF PartOf
  <2>5. ~x.wrote \/ ~Refuse(r)
    BY <1>1, <1>6 DEF Refuse, Spoil, HalfDone
  <2>6. Partway(Idle, s)' /\ ~Halfway(Idle)
    BY DEF Partway, Halfway, Idle
  <2>7. y = req'[r] /\ s \in x.on /\ parts[s] = parts[k] /\ stocks[s] = stocks[k]
    BY <1>1, <1>2, <1>4, <1>6
  <2>8. ASSUME Plain(y) PROVE Partway(y, s)'
    BY <2>8 DEF Plain, Partway
  <2>9. CASE InsertPartRow(r)
    <3>1. Whole(s) /\ parts'[s] = parts[s] \cup {[id |-> <<s, lastId[s] + 1>>, text |-> x.arg]} /\ stocks' = stocks
      BY <1>2, <1>6, <2>2, <2>9 DEF InsertPartRow, At, Halfway, PartsOK
    <3>2. y.at = "stock row" /\ y.kind = x.kind /\ y.arg = x.arg /\ y.on = x.on /\ x.kind = "create part"
      <4>1. y = [x EXCEPT !.at = "stock row", !.wrote = TRUE] /\ x.at = "part row"
        BY <1>2, <1>4, <2>7, <2>9 DEF InsertPartRow, Wrote, Continue, At
      <4>2. x.kind = "create part"
        BY <1>1, <4>1, KindAt
      <4>3. x \in RequestType
        BY DEF RequestsOK, Types
      <4> QED
        BY <4>1, <4>2, <4>3 DEF RequestType
    <3>3. ASSUME stocks[s] = None PROVE parts[s] = {}
      BY <3>1, <3>3 DEF Whole, Live
    <3>4. Partway(y, s)'
      <4> PICK row : row = [id |-> <<s, lastId[s] + 1>>, text |-> x.arg]
        OBVIOUS
      <4>1. row.text = x.arg /\ y.at # "text"
        BY <3>2
      <4>2. stocks'[s] = None => parts'[s] = {row}
        BY <3>1, <3>3
      <4> QED
        BY <3>2, <4>1, <4>2 DEF Partway, Single
    <3>5. s \in y.on /\ Halfway(y)
      BY <2>7, <3>2 DEF Halfway
    <3> QED
      BY <2>4, <3>4, <3>5
  <2>10. CASE InsertStockRow(r)
    <3>1. x.at = "stock row" /\ parts' = parts
      BY <2>10 DEF InsertStockRow, At
    <3>2. CASE SkuTaken(s)
      <4>1. stocks' = stocks /\ Refuse(r)
        BY <1>6, <2>10, <3>2 DEF InsertStockRow
      <4>2. ~x.wrote /\ y = Idle
        BY <1>2, <2>5, <2>7, <4>1 DEF Refuse
      <4>3. ~Halfway(x)
        BY <3>1, <4>2 DEF Halfway, Types, RequestsOK, Serving, MustHaveWritten
      <4>4. Whole(s)'
        BY <2>2, <3>1, <4>1, <4>3 DEF Whole, Single
      <4> QED
        BY <2>4, <2>6, <4>2, <4>4
    <3>3. CASE ~SkuTaken(s)
      <4>1. stocks' = [stocks EXCEPT ![k] = Stock(x.arg)] /\ y = Idle
        BY <1>2, <1>6, <2>7, <2>10, <3>3 DEF InsertStockRow, Answer, Continue
      <4>2. stocks'[s] = Stock(x.arg) /\ Live(stocks'[s]) /\ stocks'[s].name = x.arg
        <5>1. Stock(x.arg) # None
          <6>1. x.kind # "delete part" /\ About(x)
            BY <1>1, <3>1, KindAt DEF Types, RequestsOK, Serving
          <6>2. x.arg \in Texts
            BY <1>1, <6>1 DEF About
          <6>3. Stock(x.arg) \in StockRows
            BY <6>2 DEF Stock, StockRows
          <6> QED
            BY <6>3, CatalogueAssumption DEF StockRows
        <5> QED
          BY <1>2, <1>6, <4>1, <5>1 DEF PartsOK, Stock, Live
      <4>3. stocks[s] = None
        BY <3>3 DEF SkuTaken
      <4>4. Whole(s) => parts[s] = {}
        BY <4>3 DEF Whole, Live
      <4>5. Whole(s) \/ (Single(s) /\ \A row \in parts[s] : row.text = x.arg)
        BY <2>2, <3>1, <4>3 DEF Halfway, Partway
      <4>6. Whole(s)'
        BY <3>1, <4>2, <4>4, <4>5 DEF Whole, Single
      <4> QED
        BY <2>4, <2>6, <4>1, <4>6
    <3> QED
      BY <3>2, <3>3
  <2>11. CASE FindPart(r) \/ CheckPart(r)
    <3>1. parts' = parts /\ stocks' = stocks /\ x.at \in {"find part", "check part"}
      BY <2>11 DEF FindPart, CheckPart, At, scm
    <3>2. Whole(s)'
      BY <2>2, <3>1 DEF Whole, Single, Halfway
    <3>3. Plain(y)
      <4>1. CASE y = Idle
        BY <4>1 DEF Idle, Plain
      <4>2. CASE CheckPart(r) /\ y # Idle
        <5>1. y = [x EXCEPT !.at = "part row"]
          BY <1>2, <2>7, <4>2 DEF CheckPart, Refuse, Goto, Ignored, Continue
        <5> QED
          BY <1>2, <5>1 DEF Types, RequestsOK, RequestType, Plain
      <4>3. CASE FindPart(r) /\ y # Idle
        <5>1. y = [x EXCEPT !.at = After(r, "none"), !.todo = @ \ {"none"}, !.wrote = ("none" # "none")]
          BY <1>2, <2>7, <4>3 DEF FindPart, Refuse, NextField, Answer, Continue
        <5>2. After(r, "none") \in {"name", "cost", "done"}
          BY DEF After
        <5> QED
          BY <1>2, <5>1, <5>2 DEF Types, RequestsOK, RequestType, Plain
      <4> QED
        BY <2>11, <4>1, <4>2, <4>3
    <3> QED
      BY <2>4, <2>8, <3>2, <3>3
  <2>12. CASE UpdateStockName(r)
    <3>1. parts' = parts /\ x.at = "name" /\ Whole(s)
      BY <2>2, <2>12 DEF UpdateStockName, At, Halfway
    <3>2. CASE Live(stocks[s])
      <4>1. stocks' = [stocks EXCEPT ![k].name = x.arg] /\ y = [x EXCEPT !.at = "text", !.wrote = TRUE]
        BY <1>2, <1>6, <2>7, <2>12, <3>2 DEF UpdateStockName, Wrote, Continue
      <4>2. Live(stocks'[s]) /\ stocks'[s].name = x.arg
        <5>1. x.arg \in Texts
          BY <1>1, <3>1, KindAt DEF Types, RequestsOK, Serving, About
        <5>2. stocks[s] \in StockRows /\ ~stocks[s].gone
          BY <1>2, <3>2 DEF Live, PartsOK
        <5>3. stocks'[s] = [stocks[s] EXCEPT !.name = x.arg]
          BY <1>2, <1>6, <4>1 DEF PartsOK
        <5>4. stocks'[s] \in StockRows /\ ~stocks'[s].gone /\ stocks'[s].name = x.arg
          BY <5>1, <5>2, <5>3 DEF StockRows
        <5> QED
          BY <5>4, CatalogueAssumption DEF StockRows, Live
      <4>3. y.at = "text" /\ y.on = x.on /\ y.arg = x.arg
        BY <1>2, <4>1 DEF Types, RequestsOK, RequestType
      <4>4. parts[s] = {} \/ Single(s)
        BY <3>1 DEF Whole
      <4>5. Partway(y, s)'
        BY <3>1, <4>2, <4>3, <4>4 DEF Partway, Single
      <4>6. s \in y.on /\ Halfway(y)
        BY <2>7, <4>3 DEF Halfway
      <4> QED
        BY <2>4, <4>5, <4>6
    <3>3. CASE ~Live(stocks[s])
      <4>1. y = Idle /\ stocks' = stocks
        BY <1>2, <1>6, <2>7, <2>12, <3>3 DEF UpdateStockName, Refuse
      <4>2. Whole(s)'
        BY <3>1, <4>1 DEF Whole, Single
      <4> QED
        BY <2>4, <2>6, <4>1, <4>2
    <3> QED
      BY <3>2, <3>3
  <2>13. CASE UpdatePartRow(r)
    <3>1. /\ stocks' = stocks /\ x.at = "text" /\ Live(stocks[s]) /\ stocks[s].name = x.arg
          /\ parts[s] = {} \/ Single(s)
      BY <2>2, <2>13 DEF UpdatePartRow, At, Partway
    <3>2. parts'[s] = {[row EXCEPT !.text = x.arg] : row \in parts[s]}
      BY <1>2, <1>6, <2>13 DEF UpdatePartRow, PartsOK
    <3>3. Whole(s)'
      <4>1. CASE parts[s] = {}
        BY <3>2, <4>1 DEF Whole
      <4>2. CASE Single(s)
        <5> PICK row : row \in parts[s] /\ parts[s] = {row}
          BY <4>2 DEF Single
        <5> PICK new : new = [row EXCEPT !.text = x.arg]
          OBVIOUS
        <5>1. parts'[s] = {new}
          BY <3>2
        <5>2. new.text = x.arg
          BY <1>2 DEF PartsOK
        <5> QED
          BY <3>1, <5>1, <5>2 DEF Whole, Single
      <4> QED
        BY <3>1, <4>1, <4>2
    <3>4. Plain(y)
      <4>1. CASE y = Idle
        BY <4>1 DEF Idle, Plain
      <4>2. CASE y # Idle
        <5>1. y = [x EXCEPT !.at = After(r, "description"), !.todo = @ \ {"description"}, !.wrote = ("description" # "none")]
          BY <1>2, <2>7, <2>13, <4>2 DEF UpdatePartRow, Refuse, NextField, Answer, Continue
        <5>2. After(r, "description") \in {"cost", "done"}
          BY DEF After
        <5> QED
          BY <1>2, <5>1, <5>2 DEF Types, RequestsOK, RequestType, Plain
      <4> QED
        BY <4>1, <4>2
    <3> QED
      BY <2>4, <2>8, <3>3, <3>4
  <2>14. CASE UpdateStockCost(r)
    <3>1. parts' = parts /\ x.at = "cost" /\ Whole(s) /\ y = Idle
      BY <1>2, <2>2, <2>7, <2>14 DEF UpdateStockCost, At, Halfway, Answer, Refuse, Continue
    <3>2. CASE Live(stocks[s])
      <4>1. stocks'[s] = [stocks[s] EXCEPT !.cost = x.arg]
        BY <1>2, <1>6, <2>14, <3>2 DEF UpdateStockCost, PartsOK
      <4>2. x.arg \in Texts
        BY <1>1, <3>1, KindAt DEF Types, RequestsOK, Serving, About
      <4>3. stocks[s] \in StockRows /\ ~stocks[s].gone
        BY <1>2, <3>2 DEF Live, PartsOK
      <4>4. stocks'[s] \in StockRows /\ ~stocks'[s].gone /\ stocks'[s].name = stocks[s].name
        BY <4>1, <4>2, <4>3 DEF StockRows
      <4>5. Live(stocks'[s])
        BY <4>4, CatalogueAssumption DEF StockRows, Live
      <4>6. Whole(s)'
        BY <3>1, <4>4, <4>5 DEF Whole, Single
      <4> QED
        BY <2>4, <2>6, <3>1, <4>6
    <3>3. CASE ~Live(stocks[s])
      <4>1. stocks' = stocks
        BY <1>6, <2>14, <3>3 DEF UpdateStockCost
      <4>2. Whole(s)'
        BY <3>1, <4>1 DEF Whole, Single
      <4> QED
        BY <2>4, <2>6, <3>1, <4>2
    <3> QED
      BY <3>2, <3>3
  <2>15. CASE DeleteStockRow(r)
    <3>1. parts' = parts /\ x.at = "delete stock" /\ Whole(s)
      BY <2>2, <2>15 DEF DeleteStockRow, At, Halfway
    <3>2. CASE Live(stocks[s])
      <4>1. y = [x EXCEPT !.at = "delete part", !.wrote = TRUE]
        BY <1>2, <1>6, <2>7, <2>15, <3>2 DEF DeleteStockRow, Wrote, Continue
      <4>2. y.at = "delete part" /\ y.on = x.on
        BY <1>2, <4>1 DEF Types, RequestsOK, RequestType
      <4>3. Partway(y, s)' /\ Halfway(y)
        BY <4>2 DEF Partway, Halfway
      <4> QED
        BY <2>4, <2>7, <4>2, <4>3
    <3>3. CASE ~Live(stocks[s])
      <4>1. y = Idle /\ stocks' = stocks
        BY <1>2, <1>6, <2>7, <2>15, <3>3 DEF DeleteStockRow, Refuse
      <4>2. Whole(s)'
        BY <3>1, <4>1 DEF Whole, Single
      <4> QED
        BY <2>4, <2>6, <4>1, <4>2
    <3> QED
      BY <3>2, <3>3
  <2>16. CASE DeletePartRows(r)
    <3>1. parts'[s] = {} /\ y = Idle
      BY <1>2, <1>6, <2>7, <2>16 DEF DeletePartRows, PartsOK, Answer, Refuse, Continue
    <3>2. Whole(s)'
      BY <3>1 DEF Whole
    <3> QED
      BY <2>4, <2>6, <3>1, <3>2
  <2> QED
    BY <2>9, <2>10, <2>11, <2>12, <2>13, <2>14, <2>15, <2>16 DEF PartStep
<1> QED
  BY <1>5, <1>6

(* What an error or a restart ends had written nothing about a subject     *)
(* that is alone or calm after it.                                         *)
LEMMA Failed ==
  ASSUME Types, (\E r \in Requests : StepFails(r)) \/ RestartSCM,
         NEW u, u \in calm' \/ (u \in alone' /\ u \notin Products), NEW q \in Requests
  PROVE  req'[q] = req[q] \/ (req'[q] = Idle /\ (u \in req[q].on => ~req[q].wrote))
<1>1. DOMAIN req = Requests
  BY DEF Types, RequestsOK
<1>2. ASSUME NEW r \in Requests, StepFails(r)
      PROVE  req'[q] = req[q] \/ (req'[q] = Idle /\ (u \in req[q].on => ~req[q].wrote))
  BY <1>1, <1>2 DEF StepFails, Spoil, HalfDone
<1>3. CASE RestartSCM
  <2> PICK cut, spoiled : /\ cut = {r \in Requests : req[r].at \notin MRPSteps}
                          /\ spoiled = UNION {HalfDone(r) : r \in cut}
    OBVIOUS
  <2>1. /\ req' = [r \in Requests |-> IF r \in cut THEN Idle ELSE req[r]]
        /\ alone' = (alone \ spoiled) \cup Products /\ calm' = calm \ spoiled
    BY <1>3 DEF RestartSCM
  <2>2. u \notin spoiled
    BY <2>1
  <2>3. ASSUME q \in cut, u \in req[q].on, req[q].wrote PROVE FALSE
    <3>1. u \in HalfDone(q)
      BY <2>3 DEF HalfDone
    <3> QED
      BY <2>2, <2>3, <3>1
  <2> QED
    BY <2>1, <2>3
<1> QED
  BY <1>2, <1>3

(* Outside parts and products, a subject is alone after a step only if it  *)
(* was before; and so is a calm one.                                       *)
LEMMA NotBefore ==
  ASSUME Types, [Next]_vars
  PROVE  alone' \subseteq alone \cup Products /\ calm' \subseteq calm
<1>1. RestartSCM => alone' \subseteq alone \cup Products /\ calm' \subseteq calm
  BY DEF RestartSCM
<1>2. \A r, y : Opening(r, y) \/ Turn(r, y) => alone' \subseteq alone /\ calm' \subseteq calm
  BY DEF Opening, Turn
<1> QED
  BY <1>1, <1>2, TurnCases

LEMMA PartInvStep ==
  ASSUME Types, Types', MeetInv, PartInv, [Next]_vars
  PROVE  PartInv'
<1> SUFFICES ASSUME NEW s \in Skus, s \in alone' PROVE PartOf(s)'
  BY DEF PartInv
<1>1. s \in alone /\ s \notin Products
  BY NotBefore, SubjectsAssumption
<1>2. PartOf(s) /\ DOMAIN req = Requests
  BY <1>1 DEF PartInv, Types, RequestsOK
<1>3. ASSUME NEW r \in Requests, NEW y, Turn(r, y), req[r].kind \notin PartKinds, parts' = parts, stocks' = stocks
      PROVE  PartOf(s)'
  <2>1. ~Halfway(req[r]) /\ Plain(req'[r])
    <3>1. req[r].kind \in Kinds /\ Serving(req[r], There)
      BY DEF Types, RequestsOK, RequestType
    <3>2. req'[r].kind \in Kinds /\ Serving(req'[r], There')
      BY DEF Types, RequestsOK, RequestType
    <3>3. req'[r].kind \notin PartKinds
      <4>1. req'[r] = y /\ (y = Idle \/ y.kind = req[r].kind)
        BY <1>2, <1>3 DEF Turn, Same
      <4>2. Idle.kind \notin PartKinds
        BY DEF Idle, PartKinds
      <4> QED
        BY <1>3, <4>1, <4>2
    <3> QED
      BY <1>3, <3>1, <3>2, <3>3, HalfwayIs
  <2>2. \A q \in Requests : q # r => req'[q] = req[q]
    BY <1>2, <1>3 DEF Turn
  <2> QED
    BY <1>2, <1>3, <2>1, <2>2, PartOfKept
<1>4. CASE UNCHANGED <<req, parts, stocks>>
  BY <1>2, <1>4, PartOfKept
<1>5. ASSUME NEW r \in Requests, NEW y, Opening(r, y), Stays PROVE PartOf(s)'
  <2>1. req' = [req EXCEPT ![r] = y] /\ ~Halfway(req[r]) /\ Plain(y)
    BY <1>5 DEF Opening, Fresh, FirstAts, Halfway, Plain
  <2>2. \A q \in Requests : q # r => req'[q] = req[q]
    BY <1>2, <2>1
  <2>3. parts' = parts /\ stocks' = stocks /\ req'[r] = y
    BY <1>2, <1>5, <2>1 DEF Stays, scm
  <2> QED
    BY <1>2, <2>1, <2>2, <2>3, PartOfKept
<1>6. ASSUME (\E r \in Requests : StepFails(r) /\ Stays) \/ RestartSCM PROVE PartOf(s)'
  <2>1. parts' = parts /\ stocks' = stocks
    BY <1>6 DEF Stays, RestartSCM, scm
  <2>2. ASSUME NEW q \in Requests, req'[q] # req[q]
        PROVE  ~(Halfway(req[q]) /\ s \in req[q].on) /\ Plain(req'[q])
    <3>1. req'[q] = Idle /\ (s \in req[q].on => ~req[q].wrote)
      BY <1>1, <1>6, <2>2, Failed
    <3>2. req[q].kind \in Kinds /\ Serving(req[q], There)
      BY DEF Types, RequestsOK, RequestType
    <3>3. Plain(Idle)
      BY DEF Plain, Idle
    <3> QED
      BY <3>1, <3>2, <3>3, HalfwayIs
  <2> QED
    BY <1>2, <2>1, <2>2, PartOfKept
<1>7. ASSUME NEW r \in Requests, PartStep(r) PROVE PartOf(s)'
  BY <1>1, <1>2, <1>7, PartStepKeeps
<1>8. ASSUME NEW r \in Requests, ProductStep(r) \/ VendorStep(r) \/ ModelStep(r) \/ BillStep(r) \/ ReadStep(r),
             UNCHANGED <<parts, stocks>>
      PROVE  PartOf(s)'
  <2>1. \E y : Turn(r, y)
    BY <1>8, ProductTurns, VendorTurns, ModelTurns, BillTurns, ReadTurns
  <2>2. req[r].kind \in ProductKinds \cup VendorKinds \cup Writers \cup {"delete assembly", "read bom"}
    BY <1>8, ProductTurns, VendorTurns, ModelTurns, BillTurns, ReadTurns
  <2>3. req[r].kind \notin PartKinds
    BY <2>2, ZenonT(60) DEF PartKinds, ProductKinds, VendorKinds, Writers
  <2> QED
    BY <1>3, <1>8, <2>1, <2>3
<1>9. (VendorMoves /\ UNCHANGED <<scm, productVars, mrp>>) \/ (\E k \in Keys : ExpireBOM(k)) \/ UNCHANGED vars
        => UNCHANGED <<req, parts, stocks>>
  BY DEF VendorMoves, CreateSupplier, ReceiptMoves, ExpireBOM, Aside, scm, vars
<1>10. PartsOK /\ VendorsOK
  BY DEF Types
<1> QED
  BY <1>4, <1>5, <1>6, <1>7, <1>8, <1>9, <1>10, NextCases, BeginCases DEF scm

LEMMA AlwaysWhole == Spec => [](MeetInv /\ PartInv)
<1>1. ASSUME Init PROVE MeetInv /\ PartInv
  <2>1. \A r \in Requests : req[r] = Idle
    BY <1>1 DEF Init, RequestsInit
  <2>2. \A r \in Requests : req[r].on = {}
    BY <2>1 DEF Idle
  <2>3. ASSUME NEW s \in Skus PROVE Whole(s)
    <3>1. PICK seeded \in BOOLEAN :
            /\ parts = [q \in Skus |-> IF seeded THEN {[id |-> <<q, 1>>, text |-> CHOOSE text \in Texts : TRUE]} ELSE {}]
            /\ stocks = [q \in Skus |-> IF seeded THEN Stock(CHOOSE text \in Texts : TRUE) ELSE None]
      BY <1>1, Zenon DEF Init
    <3> PICK text : text = CHOOSE t \in Texts : TRUE
      OBVIOUS
    <3>2. text \in Texts
      BY CatalogueAssumption
    <3>3. Live(Stock(text)) /\ Stock(text).name = text
      <4>1. Stock(text) \in StockRows
        BY <3>2 DEF Stock, StockRows
      <4>2. Stock(text) # None
        BY <4>1, CatalogueAssumption DEF StockRows
      <4> QED
        BY <4>2 DEF Stock, Live
    <3>4. CASE seeded
      <4>1. PICK row : row = [id |-> <<s, 1>>, text |-> text]
        OBVIOUS
      <4>2. parts[s] = {row} /\ row.text = text /\ stocks[s] = Stock(text)
        BY <3>1, <3>4, <4>1
      <4> QED
        BY <3>3, <4>2 DEF Whole, Single
    <3>5. CASE ~seeded
      BY <3>1, <3>5 DEF Whole
    <3> QED
      BY <3>4, <3>5
  <2>4. MeetInv
    BY <2>2 DEF MeetInv, Meet
  <2>5. PartInv
    BY <2>2, <2>3 DEF PartInv, PartOf, On
  <2> QED
    BY <2>4, <2>5
<1>2. Types /\ Types' /\ MeetInv /\ PartInv /\ [Next]_vars => (MeetInv /\ PartInv)'
  BY MeetStep, PartInvStep
<1> QED
  BY <1>1, <1>2, AlwaysTypes, PTL DEF Spec

(* Whatever is created, changed and deleted, and in whatever order the     *)
(* statements of the requests about different parts come: a part that no   *)
(* two requests met on and none left half written has one row in the       *)
(* catalogue, with a live stock row of the same name.                      *)
THEOREM PartsAreWhole == Spec => []PartWhole
<1>1. ASSUME PartInv PROVE PartWhole
  <2>1. SUFFICES ASSUME NEW s \in alone \cap Skus, Quiet(s), parts[s] # {}
                 PROVE  /\ Cardinality(parts[s]) = 1
                        /\ Live(stocks[s])
                        /\ \A x \in parts[s] : x.text = stocks[s].name
    BY DEF PartWhole
  <2>2. Whole(s)
    BY <1>1, <2>1 DEF PartInv, PartOf, On, Quiet
  <2>3. PICK x : parts[s] = {x}
    BY <2>1, <2>2 DEF Whole, Single
  <2>4. Cardinality(parts[s]) = 1
    BY <2>3, FS_Singleton
  <2> QED
    BY <2>1, <2>2, <2>4 DEF Whole
<1> QED
  BY <1>1, AlwaysWhole, PTL

-----------------------------------------------------------------------------
(* The bill of a model.                                                    *)
Off(x) == x.at \notin Clearing \cup Telling \cup Untelling

LEMMA BillOfKept ==
  ASSUME NEW m, BillOf(m), bom'[m] = bom[m], last'[m] = last[m], models'[m] = models[m],
         \A q \in Requests : \/ req'[q] = req[q]
                             \/ (m \in req[q].on => Off(req[q])) /\ (m \in req'[q].on => Off(req'[q]))
  PROVE  BillOf(m)'
<1>1. (Bill1(m) => Bill1(m)') /\ (Told(m) => Told(m)')
  BY DEF Bill1, Told
<1>2. \A r \in On(m) : ~Off(req[r]) => r \in On(m)' /\ req'[r] = req[r]
  BY DEF On
<1>3. Bill1(m)' \/ \E r \in On(m)' : req'[r].at \in Clearing
  BY <1>1, <1>2 DEF BillOf, Off, Clearing
<1>4. Told(m)' \/ \E r \in On(m)' : req'[r].at \in Telling \cup Untelling
  BY <1>1, <1>2 DEF BillOf, Off
<1>5. ASSUME NEW r \in Requests, r \in On(m)' PROVE Billing(req[r], m)'
  <2>1. CASE req'[r] = req[r]
    <3>1. Billing(req[r], m)
      BY <1>5, <2>1 DEF On, BillOf
    <3> QED
      BY <2>1, <3>1 DEF Billing
  <2>2. CASE m \in req'[r].on => Off(req'[r])
    BY <1>5, <2>2 DEF On, Off, Billing, Clearing
  <2> QED
    BY <2>1, <2>2
<1> QED
  BY <1>3, <1>4, <1>5 DEF BillOf, On, Clearing

(* A request that is between its statements about a bill has written.      *)
LEMMA BetweenIs ==
  ASSUME NEW x, NEW there, x.kind \in Kinds, Serving(x, there), ~Off(x)
  PROVE  x.kind \in Writers \cup {"delete assembly"} /\ x.wrote
<1>1. x.at \in Places(x.kind) /\ (MustHaveWritten(x) => x.wrote)
  BY DEF Serving
<1>2. x.at \in {"insert bom", "drop bom", "announce", "find model", "save model", "withdraw", "delete model"}
  BY DEF Off, Clearing, Telling, Untelling
<1>3. MustHaveWritten(x)
  BY <1>2 DEF MustHaveWritten
<1>4. x.kind \in Writers \cup {"delete assembly"}
  BY <1>1, <1>2, KindAt
<1> QED
  BY <1>1, <1>3, <1>4

LEMMA BillStepKeeps ==
  ASSUME Types, MeetInv, NEW r \in Requests,
         \/ BillStep(r) /\ UNCHANGED <<scm, directory>>
         \/ ModelStep(r) /\ UNCHANGED <<parts, lastId, stocks, directory, mrp>>,
         NEW m \in Codes, m \in alone, m \in alone', BillOf(m)
  PROVE  BillOf(m)'
<1> PICK x, k : x = req[r] /\ k = req[r].key
  OBVIOUS
<1>1. x \in RequestType /\ Serving(x, There) /\ DOMAIN req = Requests /\ BillsOK
  BY DEF Types, RequestsOK
<1>2. x.kind \in Writers \cup {"delete assembly"}
  BY BillTurns, ModelTurns
<1>3. k \in Codes /\ k \in x.on /\ x.on \subseteq {k} \cup Skus
  <2>1. CASE x.kind = "delete assembly"
    BY <1>1, <2>1 DEF Serving, About
  <2>2. CASE x.kind \in Writers
    <3>1. k \in Codes /\ x.arg \in Seq(Skus) /\ x.on = {k} \cup Components(x)
      BY <1>1, <2>2, RecipesAssumption DEF Serving, About
    <3>2. \A i \in DOMAIN x.arg : x.arg[i] \in Skus
      BY <3>1, Elements
    <3> QED
      BY <3>1, <3>2 DEF Components
  <2> QED
    BY <1>2, <2>1, <2>2
<1>4. \E y : Turn(r, y)
  BY BillTurns, ModelTurns
<1> PICK y : y = req'[r]
  OBVIOUS
<1>5. req' = [req EXCEPT ![r] = y] /\ (y = Idle \/ Same(x, y)) /\ y \in RequestType
  BY <1>1, <1>4 DEF Turn
<1>6. CASE m # k
  <2>1. m \notin x.on /\ m \notin y.on
    BY <1>3, <1>5, <1>6, SubjectsAssumption DEF Same, Idle
  <2>2. bom'[m] = bom[m] /\ last'[m] = last[m]
    BY <1>1, <1>6 DEF BillStep, ResolveComponentPartID, HardDeleteBOMEntriesByModelCode, CreateBOMEntries, InvalidateBOM,
        DeleteBOMEntriesByModelCode, CreateProductModel, DeleteProductModel, mrp, BillsOK
  <2>3. models'[m] = models[m]
    BY <1>1, <1>6 DEF ModelStep, FindModel, SaveModel, MarkModel, scm, BillsOK
  <2> QED
    BY <1>1, <1>5, <2>1, <2>2, <2>3, BillOfKept
<1>7. CASE m = k
  <2>1. On(m) = {r}
    <3>1. r \in On(m) /\ ~Reading(r)
      BY <1>2, <1>3, <1>7 DEF On, Reading, Reads, Writers
    <3> QED
      BY <3>1, OnlyOne
  <2>2. (Bill1(m) \/ x.at \in Clearing) /\ (Told(m) \/ x.at \in Telling \cup Untelling) /\ Billing(x, m)
    BY <2>1 DEF BillOf, Clearing
  <2>3. On(m)' = IF m \in y.on THEN {r} ELSE {}
    BY <1>1, <1>5, <2>1 DEF On
  <2>4. ASSUME Bill1(m)', Told(m)', Billing(y, m)' PROVE BillOf(m)'
    BY <2>3, <2>4 DEF BillOf
  <2>5. ASSUME y.at \in Clearing \cup Telling \cup Untelling,
               Bill1(m)' \/ y.at \in Clearing, Told(m)' \/ y.at \in Telling \cup Untelling, Billing(y, m)'
        PROVE  BillOf(m)'
    <3>1. y # Idle
      <4>1. Idle.at = "idle"
        BY DEF Idle
      <4> QED
        BY <2>5, <4>1 DEF Clearing, Telling, Untelling
    <3>2. m \in y.on
      BY <1>3, <1>5, <1>7, <3>1 DEF Same
    <3> QED
      BY <2>3, <2>5, <3>2 DEF BillOf, Clearing
  <2>6. Billing(Idle, m)'
    BY DEF Billing, Idle, Telling, Untelling
  <2>7. ~Off(x) => x.wrote
    BY <1>1, BetweenIs DEF RequestType
  <2>8. ~Off(x) => ~Refuse(r)
    BY <1>3, <1>7, <2>7 DEF Refuse, Spoil, HalfDone
  <2>9. \A next : ~Ignored(r, next)
    BY <1>3, <1>7 DEF Ignored, Spoil
  <2>10. CASE ResolveComponentPartID(r)
    <3>1. x.at = "resolve" /\ UNCHANGED <<bom, last, models>>
      BY <1>2, <2>10 DEF BillStep, ModelStep, ResolveComponentPartID, At, scm, mrp
    <3>2. y = Idle \/ y.at = "resolve"
      <4>1. Refuse(r) \/ \E h : Continue(r, [x EXCEPT !.held = h])
        BY <2>10 DEF ResolveComponentPartID
      <4> QED
        BY <1>1, <3>1, <4>1 DEF Refuse, Continue, RequestType
    <3>3. Bill1(m)' /\ Told(m)'
      BY <2>2, <3>1 DEF Bill1, Told, Clearing, Telling, Untelling
    <3>4. Billing(y, m)'
      BY <2>6, <3>2 DEF Billing, Telling, Untelling
    <3> QED
      BY <2>4, <3>3, <3>4
  <2>11. CASE HardDeleteBOMEntriesByModelCode(r)
    <3>1. x.at = "resolve" /\ UNCHANGED <<last, models>> /\ bom'[m] = {}
      BY <1>1, <1>7, <2>11 DEF HardDeleteBOMEntriesByModelCode, At, scm, BillsOK
    <3>2. y = [x EXCEPT !.at = "insert bom", !.wrote = TRUE]
      BY <1>1, <2>11 DEF HardDeleteBOMEntriesByModelCode, Wrote, Continue
    <3>3. y.at = "insert bom"
      BY <1>1, <3>2 DEF RequestType
    <3>4. Told(m)'
      BY <2>2, <3>1 DEF Told, Telling, Untelling
    <3>5. Billing(y, m)'
      BY <3>1, <3>3 DEF Billing, Telling, Untelling
    <3> QED
      BY <2>5, <3>3, <3>4, <3>5 DEF Clearing
  <2>12. CASE CreateBOMEntries(r)
    <3> PICK ids : ids = {req[r].held[i] : i \in DOMAIN req[r].held}
      OBVIOUS
    <3>1. x.at = "insert bom" /\ UNCHANGED <<last, models>> /\ bom[m] = {} /\ x.kind \in Writers
      <4>1. x.at = "insert bom" /\ UNCHANGED <<last, models>>
        BY <2>12 DEF CreateBOMEntries, At, scm
      <4> QED
        BY <1>1, <2>2, <4>1, KindAt DEF Billing, Serving, RequestType
    <3>2. ~Refuse(r)
      BY <2>8, <3>1 DEF Off, Clearing
    <3>3. bom' = [bom EXCEPT ![k] = @ \cup ids] /\ y = [x EXCEPT !.at = "drop bom", !.held = ids]
      <4>1. \/ Refuse(r) /\ UNCHANGED bom
            \/ bom' = [bom EXCEPT ![k] = @ \cup ids] /\ Continue(r, [req[r] EXCEPT !.at = "drop bom", !.held = ids])
        BY <2>12, Zenon DEF CreateBOMEntries
      <4> QED
        BY <1>1, <3>2, <4>1 DEF Continue
    <3>4. bom'[m] = ids /\ y.at = "drop bom" /\ y.held = ids /\ y.kind # "delete assembly"
      BY <1>1, <1>7, <3>1, <3>3 DEF BillsOK, RequestType, Writers
    <3>5. Told(m)'
      BY <2>2, <3>1 DEF Told, Telling, Untelling
    <3>6. Billing(y, m)'
      BY <3>4 DEF Billing, Telling, Untelling
    <3> QED
      BY <2>5, <3>4, <3>5, <3>6 DEF Clearing
  <2>13. CASE InvalidateBOM(r)
    <3> PICK ids, a : /\ ids = IF x.kind = "delete assembly" THEN {} ELSE x.held
                      /\ a = IF x.kind = "delete assembly" THEN "withdraw" ELSE "announce"
      OBVIOUS
    <3>1. x.at = "drop bom" /\ UNCHANGED <<bom, models>> /\ bom[m] = ids
      BY <2>2, <2>13 DEF InvalidateBOM, At, scm, Billing
    <3>2. last'[m] = IF x.kind = "delete assembly" THEN None ELSE ids
      BY <1>1, <1>7, <2>13 DEF InvalidateBOM, BillsOK
    <3>3. y.at = a
      <4>1. y = [x EXCEPT !.at = a]
        BY <1>1, <2>9, <2>13 DEF InvalidateBOM, Continue
      <4> QED
        BY <1>1, <4>1 DEF RequestType
    <3>4. ids # None
      <4>1. ids \subseteq PartIds
        BY <1>1, <1>2, <3>1 DEF Serving, Holds
      <4> QED
        BY <4>1, SubjectsAssumption
    <3>5. Bill1(m)'
      BY <3>1, <3>2, <3>4 DEF Bill1
    <3>6. Billing(y, m)'
      BY <3>2, <3>3, <3>4 DEF Billing, Telling, Untelling
    <3> QED
      BY <2>5, <3>3, <3>5, <3>6 DEF Telling, Untelling
  <2>14. CASE DeleteBOMEntriesByModelCode(r)
    <3>1. x.at = "erase bom" /\ UNCHANGED <<last, models>> /\ bom'[m] = {} /\ x.kind = "delete assembly"
      <4>1. x.at = "erase bom" /\ UNCHANGED <<last, models>> /\ bom'[m] = {}
        BY <1>1, <1>7, <2>14 DEF DeleteBOMEntriesByModelCode, At, scm, BillsOK
      <4> QED
        BY <1>1, <4>1, KindAt DEF Serving, RequestType
    <3>2. y = [x EXCEPT !.at = "drop bom", !.wrote = TRUE]
      BY <1>1, <2>14 DEF DeleteBOMEntriesByModelCode, Wrote, Continue
    <3>3. y.at = "drop bom" /\ y.kind = "delete assembly"
      BY <1>1, <3>1, <3>2 DEF RequestType
    <3>4. Told(m)'
      BY <2>2, <3>1 DEF Told, Telling, Untelling
    <3>5. Billing(y, m)'
      BY <3>1, <3>3 DEF Billing, Telling, Untelling
    <3> QED
      BY <2>5, <3>3, <3>4, <3>5 DEF Clearing
  <2>15. CASE CreateProductModel(r) \/ FindModel(r)
    <3>1. x.at \in {"announce", "find model"} /\ UNCHANGED <<bom, last, models>>
      <4>1. CASE CreateProductModel(r)
        BY <4>1 DEF CreateProductModel, At, scm, mrp
      <4>2. CASE FindModel(r)
        BY <4>2 DEF FindModel, At, scm, mrp, BillStep, ResolveComponentPartID, HardDeleteBOMEntriesByModelCode,
           CreateBOMEntries, InvalidateBOM, DeleteBOMEntriesByModelCode, CreateProductModel, DeleteProductModel
      <4> QED
        BY <2>15, <4>1, <4>2
    <3>2. y.at \in {"find model", "save model"}
      <4>1. y = [x EXCEPT !.at = "find model"] \/ y = [x EXCEPT !.at = "save model", !.held = models[k]]
        BY <1>1, <2>15 DEF CreateProductModel, FindModel, Goto, Continue
      <4> QED
        BY <1>1, <4>1 DEF RequestType
    <3>3. Bill1(m)' /\ last[m] # None
      BY <2>2, <3>1 DEF Bill1, Billing, Clearing, Telling
    <3>4. Billing(y, m)'
      BY <3>1, <3>2, <3>3 DEF Billing, Untelling
    <3> QED
      BY <2>5, <3>2, <3>3, <3>4 DEF Telling
  <2>16. CASE DeleteProductModel(r)
    <3>1. x.at = "withdraw" /\ UNCHANGED <<bom, last, models>>
      BY <2>16 DEF DeleteProductModel, At, scm, mrp
    <3>2. y.at = "delete model"
      <4>1. y = [x EXCEPT !.at = "delete model"]
        BY <1>1, <2>9, <2>16 DEF DeleteProductModel, Goto, Continue
      <4> QED
        BY <1>1, <4>1 DEF RequestType
    <3>3. Bill1(m)' /\ last[m] = None
      BY <2>2, <3>1 DEF Bill1, Billing, Clearing, Untelling
    <3>4. Billing(y, m)'
      BY <3>1, <3>2, <3>3 DEF Billing, Telling
    <3> QED
      BY <2>5, <3>2, <3>3, <3>4 DEF Untelling
  <2>17. CASE SaveModel(r)
    <3>1. x.at = "save model" /\ UNCHANGED <<bom, last>>
      BY <2>17 DEF SaveModel, At, mrp, BillStep, ResolveComponentPartID, HardDeleteBOMEntriesByModelCode,
         CreateBOMEntries, InvalidateBOM, DeleteBOMEntriesByModelCode, CreateProductModel, DeleteProductModel
    <3>2. ~Refuse(r)
      BY <2>8, <3>1 DEF Off, Telling
    <3>3. y = Idle /\ models'[m] = Model
      BY <1>1, <1>7, <2>17, <3>2 DEF SaveModel, Answer, Continue, BillsOK
    <3>4. Live(models'[m])
      <4>1. Model \in ModelRows /\ ~Model.gone
        BY DEF Model, ModelRows
      <4> QED
        BY <3>3, <4>1, CatalogueAssumption DEF ModelRows, Live
    <3>5. Bill1(m)' /\ Told(m)'
      BY <2>2, <3>1, <3>4 DEF Bill1, Told, Billing, Clearing, Telling
    <3> QED
      BY <2>4, <2>6, <3>3, <3>5
  <2>18. CASE MarkModel(r)
    <3>1. x.at = "delete model" /\ UNCHANGED <<bom, last>>
      BY <2>18 DEF MarkModel, At, mrp, BillStep, ResolveComponentPartID, HardDeleteBOMEntriesByModelCode,
         CreateBOMEntries, InvalidateBOM, DeleteBOMEntriesByModelCode, CreateProductModel, DeleteProductModel
    <3>2. y = Idle /\ models'[m] = (IF models[m] = None THEN None ELSE [models[m] EXCEPT !.gone = TRUE])
      BY <1>1, <1>7, <2>18 DEF MarkModel, Answer, Continue, BillsOK
    <3>3. ~Live(models'[m])
      <4>1. models[m] # None => [models[m] EXCEPT !.gone = TRUE].gone
        BY <1>1 DEF BillsOK, ModelRows
      <4> QED
        BY <3>2, <4>1 DEF Live
    <3>4. Bill1(m)' /\ Told(m)'
      BY <2>2, <3>1, <3>3 DEF Bill1, Told, Billing, Clearing, Untelling
    <3> QED
      BY <2>4, <2>6, <3>2, <3>4
  <2> QED
    BY <2>10, <2>11, <2>12, <2>13, <2>14, <2>15, <2>16, <2>17, <2>18 DEF BillStep, ModelStep
<1> QED
  BY <1>6, <1>7

LEMMA BillInvStep ==
  ASSUME Types, Types', MeetInv, BillInv, [Next]_vars
  PROVE  BillInv'
<1> SUFFICES ASSUME NEW m \in Codes, m \in alone' PROVE BillOf(m)'
  BY DEF BillInv
<1>1. m \in alone /\ m \notin Products
  BY NotBefore, SubjectsAssumption
<1>2. BillOf(m) /\ DOMAIN req = Requests
  BY <1>1 DEF BillInv, Types, RequestsOK
<1>3. ASSUME NEW r \in Requests, NEW y, Turn(r, y), req[r].kind \notin Writers \cup {"delete assembly"},
             UNCHANGED <<bom, last, models>>
      PROVE  BillOf(m)'
  <2>1. Off(req[r]) /\ Off(req'[r])
    <3>1. req[r].kind \in Kinds /\ Serving(req[r], There)
      BY DEF Types, RequestsOK, RequestType
    <3>2. req'[r].kind \in Kinds /\ Serving(req'[r], There')
      BY DEF Types, RequestsOK, RequestType
    <3>3. req'[r].kind \notin Writers \cup {"delete assembly"}
      <4>1. req'[r] = y /\ (y = Idle \/ y.kind = req[r].kind)
        BY <1>2, <1>3 DEF Turn, Same
      <4>2. Idle.kind \notin Writers \cup {"delete assembly"}
        BY DEF Idle, Writers
      <4> QED
        BY <1>3, <4>1, <4>2
    <3> QED
      BY <1>3, <3>1, <3>2, <3>3, BetweenIs
  <2>2. \A q \in Requests : q # r => req'[q] = req[q]
    BY <1>2, <1>3 DEF Turn
  <2> QED
    BY <1>2, <1>3, <2>1, <2>2, BillOfKept
<1>4. CASE UNCHANGED <<req, bom, last, models>>
  BY <1>2, <1>4, BillOfKept
<1>5. ASSUME NEW r \in Requests, NEW y, Opening(r, y), Stays PROVE BillOf(m)'
  <2>1. req' = [req EXCEPT ![r] = y] /\ req[r].at = "idle" /\ Fresh(y)
    BY <1>5 DEF Opening
  <2>2. Off(req[r]) /\ Off(y)
    BY <2>1 DEF Fresh, FirstAts, Off, Clearing, Telling, Untelling
  <2>3. \A q \in Requests : q # r => req'[q] = req[q]
    BY <1>2, <2>1
  <2>4. UNCHANGED <<bom, last, models>> /\ req'[r] = y
    BY <1>2, <1>5, <2>1 DEF Stays, scm, mrp
  <2> QED
    BY <1>2, <2>2, <2>3, <2>4, BillOfKept
<1>6. ASSUME (\E r \in Requests : StepFails(r) /\ Stays) \/ RestartSCM PROVE BillOf(m)'
  <2>1. UNCHANGED <<bom, last, models>>
    BY <1>6 DEF Stays, RestartSCM, scm, mrp
  <2>2. ASSUME NEW q \in Requests, req'[q] # req[q]
        PROVE  (m \in req[q].on => Off(req[q])) /\ Off(req'[q])
    <3>1. req'[q] = Idle /\ (m \in req[q].on => ~req[q].wrote)
      BY <1>1, <1>6, <2>2, Failed
    <3>2. req[q].kind \in Kinds /\ Serving(req[q], There)
      BY DEF Types, RequestsOK, RequestType
    <3>3. Off(Idle)
      BY DEF Off, Idle, Clearing, Telling, Untelling
    <3> QED
      BY <3>1, <3>2, <3>3, BetweenIs
  <2> QED
    BY <1>2, <2>1, <2>2, BillOfKept
<1>7. ASSUME NEW r \in Requests,
             \/ BillStep(r) /\ UNCHANGED <<scm, directory>>
             \/ ModelStep(r) /\ UNCHANGED <<parts, lastId, stocks, directory, mrp>>
      PROVE  BillOf(m)'
  BY <1>1, <1>2, <1>7, BillStepKeeps
<1>8. ASSUME NEW r \in Requests, PartStep(r) \/ ProductStep(r) \/ VendorStep(r) \/ ReadStep(r),
             UNCHANGED <<bom, last, models>>
      PROVE  BillOf(m)'
  <2>1. \E y : Turn(r, y)
    BY <1>8, PartTurns, ProductTurns, VendorTurns, ReadTurns
  <2>2. req[r].kind \in PartKinds \cup ProductKinds \cup VendorKinds \cup {"read bom"}
    BY <1>8, PartTurns, ProductTurns, VendorTurns, ReadTurns
  <2>3. req[r].kind \notin Writers \cup {"delete assembly"}
    BY <2>2, ZenonT(60) DEF PartKinds, ProductKinds, VendorKinds, Writers
  <2> QED
    BY <1>3, <1>8, <2>1, <2>3
<1>9. (VendorMoves /\ UNCHANGED <<scm, productVars, mrp>>) \/ (\E k \in Keys : ExpireBOM(k)) \/ UNCHANGED vars
        => UNCHANGED <<req, bom, last, models>>
  BY DEF VendorMoves, CreateSupplier, ReceiptMoves, ExpireBOM, Aside, scm, mrp, vars
<1>10. ASSUME NEW r \in Requests,
              \/ PartStep(r) /\ UNCHANGED <<models, directory, mrp>>
              \/ ProductStep(r) /\ UNCHANGED <<scm, vendorVars, mrp>>
              \/ VendorStep(r) /\ UNCHANGED <<scm, productVars, mrp>>
              \/ ReadStep(r) /\ UNCHANGED <<scm, directory, bom, erased, last>>
       PROVE  BillOf(m)'
  <2>1. UNCHANGED <<bom, last, models>>
    BY <1>10 DEF scm, mrp
  <2> QED
    BY <1>8, <1>10, <2>1
<1>11. ASSUME (VendorMoves /\ UNCHANGED <<scm, productVars, mrp>>) \/ (\E k \in Keys : ExpireBOM(k)) \/ UNCHANGED vars
       PROVE  BillOf(m)'
  BY <1>4, <1>9, <1>11
<1> QED
  BY <1>5, <1>6, <1>7, <1>10, <1>11, StepCases, Zenon

LEMMA AlwaysBilled == Spec => []BillInv
<1>1. ASSUME Init PROVE BillInv
  <2>1. \A r \in Requests : req[r] = Idle
    BY <1>1 DEF Init, RequestsInit
  <2>2. \A r \in Requests : req[r].on = {}
    BY <2>1 DEF Idle
  <2>3. ASSUME NEW m \in Codes PROVE Bill1(m) /\ Told(m)
    <3>1. BillsOK
      BY <1>1, InitTypes DEF Types
    <3>2. PICK seeded \in BOOLEAN, c \in Recipes :
            /\ bom = [n \in Codes |-> IF seeded THEN {<<c[i], 1>> : i \in DOMAIN c} ELSE {}]
            /\ models = [n \in Codes |-> IF seeded THEN Model ELSE None]
      BY <1>1, Zenon DEF Init
    <3>3. last = [n \in Codes |-> IF models[n] = None THEN None ELSE bom[n]]
      BY <1>1 DEF Init
    <3>4. models[m] # None <=> Live(models[m])
      <4>1. Model \in ModelRows /\ ~Model.gone
        BY DEF Model, ModelRows
      <4> QED
        BY <3>2, <4>1 DEF Live
    <3>5. bom[m] # None
      BY <3>1, SubjectsAssumption DEF BillsOK
    <3>6. models[m] = None => bom[m] = {}
      <4>1. Model \in ModelRows
        BY DEF Model, ModelRows
      <4> QED
        BY <3>2, <4>1, CatalogueAssumption DEF ModelRows
    <3> QED
      BY <3>3, <3>4, <3>5, <3>6 DEF Bill1, Told
  <2> QED
    BY <2>2, <2>3 DEF BillInv, BillOf, On
<1>2. Types /\ Types' /\ MeetInv /\ BillInv /\ [Next]_vars => BillInv'
  BY BillInvStep
<1> QED
  BY <1>1, <1>2, AlwaysTypes, AlwaysWhole, PTL DEF Spec

(* Two requests that write different bills, use the same parts and are cut *)
(* short in between: the bill of a model that no two of them met on is     *)
(* what the last one that ended well wrote, none that was deleted, and SCM *)
(* was told whether the model is sold.                                     *)
THEOREM BillsAreLast == Spec => []BillIsLast
<1>1. ASSUME BillInv PROVE BillIsLast
  <2>1. SUFFICES ASSUME NEW m \in alone \cap Codes, Quiet(m)
                 PROVE  Bill1(m) /\ Told(m)
    BY DEF BillIsLast, Bill1, Told
  <2>2. On(m) = {} /\ BillOf(m)
    BY <1>1, <2>1 DEF BillInv, On, Quiet
  <2> QED
    BY <2>2 DEF BillOf
<1> QED
  BY <1>1, AlwaysBilled, PTL

-----------------------------------------------------------------------------
(* The cached products.                                                    *)
LEMMA ProductOfKept ==
  ASSUME NEW p, ProductOf(p), product'[p] = product[p], shown'[p] = shown[p],
         \A q \in Requests : \/ req'[q] = req[q]
                             \/ /\ p \in req[q].on => ~Showing(req[q])
                                /\ p \in req'[q].on => req'[q].at # "show product"
  PROVE  ProductOf(p)'
<1>1. \A r \in On(p) : Showing(req[r]) => r \in On(p)' /\ Showing(req[r])'
  BY DEF On, Showing
<1>2. ASSUME NEW r \in Requests, r \in On(p)', req'[r].at = "show product" PROVE req'[r].held = product'[p]
  <2>1. CASE req'[r] = req[r]
    BY <1>2, <2>1 DEF On, ProductOf
  <2>2. CASE p \in req'[r].on => req'[r].at # "show product"
    BY <1>2, <2>2 DEF On
  <2> QED
    BY <2>1, <2>2
<1> QED
  BY <1>1, <1>2 DEF ProductOf, On

LEMMA ProductStepKeeps ==
  ASSUME Types, MeetInv, NEW r \in Requests, ProductStep(r), NEW p \in Products, p \in alone, p \in alone', ProductOf(p)
  PROVE  ProductOf(p)'
<1> PICK x, k : x = req[r] /\ k = req[r].key
  OBVIOUS
<1>1. x \in RequestType /\ Serving(x, There) /\ DOMAIN req = Requests /\ ProductsOK
  BY DEF Types, RequestsOK
<1>2. x.kind \in ProductKinds /\ k \in Products /\ x.on = {k}
  <2>1. x.kind \in ProductKinds
    BY ProductTurns
  <2> QED
    BY <1>1, <2>1 DEF Serving, About
<1>3. \E y : Turn(r, y)
  BY ProductTurns
<1> PICK y : y = req'[r]
  OBVIOUS
<1>4. req' = [req EXCEPT ![r] = y] /\ (y = Idle \/ Same(x, y))
  BY <1>1, <1>3 DEF Turn
<1>5. \A q \in Requests : q # r => req'[q] = req[q]
  BY <1>1, <1>4
<1>6. CASE p # k
  <2>1. p \notin x.on /\ p \notin y.on
    BY <1>2, <1>4, <1>6 DEF Same, Idle
  <2>2. product'[p] = product[p] /\ shown'[p] = shown[p]
    BY <1>1, <1>6 DEF ProductStep, InsertProduct, ChangeProduct, GetProductByID, SetProduct, directory, ProductsOK
  <2> QED
    BY <1>5, <2>1, <2>2, ProductOfKept
<1>7. CASE p = k
  <2>1. r \in On(p) /\ (x.at = "show product" => x.held = product[p])
    BY <1>2, <1>7 DEF On, ProductOf
  <2>2. ~x.wrote \/ ~Refuse(r)
    BY <1>2, <1>7 DEF Refuse, Spoil, HalfDone
  <2>3. \A next : ~Ignored(r, next)
    BY <1>2, <1>7 DEF Ignored, Spoil
  <2>4. ASSUME Refuse(r), UNCHANGED <<product, shown>> PROVE ProductOf(p)'
    <3>1. ~Showing(x) /\ y.at # "show product"
      BY <1>1, <2>2, <2>4 DEF Refuse, Showing, Idle
    <3> QED
      BY <1>5, <2>4, <3>1, ProductOfKept
  <2>5. ASSUME On(p) = {r}, shown'[p] \in {None, product'[p]} \/ Showing(y), y.at = "show product" => y.held = product'[p],
               y # Idle
        PROVE  ProductOf(p)'
    <3>1. On(p)' = {r} /\ req'[r] = y
      BY <1>1, <1>2, <1>4, <1>7, <2>5 DEF On, Same
    <3> QED
      BY <2>5, <3>1 DEF ProductOf
  <2>6. x.kind # "get product" => On(p) = {r}
    <3>1. x.kind # "get product" => ~Reading(r)
      BY <1>2 DEF Reading, Reads, ProductKinds
    <3> QED
      BY <2>1, <3>1, OnlyOne
  <2>7. CASE InsertProduct(r)
    <3>1. x.at = "insert product" /\ UNCHANGED shown /\ On(p) = {r}
      <4>1. x.at = "insert product" /\ UNCHANGED shown
        BY <2>7 DEF InsertProduct, At
      <4>2. x.kind = "create product"
        BY <1>1, <4>1, KindAt DEF RequestType, Serving
      <4> QED
        BY <2>6, <4>1, <4>2
    <3>2. CASE product[p] # None
      BY <1>7, <2>4, <2>7, <3>1, <3>2 DEF InsertProduct
    <3>3. CASE product[p] = None
      <4>1. product' = [product EXCEPT ![k] = x.arg] /\ y = [x EXCEPT !.at = "show product", !.held = x.arg, !.wrote = TRUE]
        BY <1>1, <1>7, <2>7, <3>3 DEF InsertProduct, Continue
      <4>2. y.at = "show product" /\ y.held = x.arg /\ product'[p] = x.arg
        BY <1>1, <1>7, <4>1 DEF RequestType, ProductsOK
      <4>3. shown[p] = None
        BY <1>1, <3>3 DEF ProductsOK
      <4>4. y # Idle
        BY <4>2, IdleIs
      <4> QED
        BY <2>5, <3>1, <4>2, <4>3, <4>4
    <3> QED
      BY <3>2, <3>3
  <2>8. CASE ChangeProduct(r)
    <3>1. x.at = "change product" /\ UNCHANGED shown /\ On(p) = {r}
      <4>1. x.at = "change product" /\ UNCHANGED shown
        BY <2>8 DEF ChangeProduct, At
      <4>2. x.kind = "update product"
        BY <1>1, <4>1, KindAt DEF RequestType, Serving
      <4> QED
        BY <2>6, <4>1, <4>2
    <3>2. CASE product[p] = None
      BY <1>7, <2>4, <2>8, <3>1, <3>2 DEF ChangeProduct
    <3>3. CASE product[p] # None
      <4>1. y = [x EXCEPT !.at = "read product", !.wrote = TRUE]
        BY <1>1, <1>7, <2>8, <3>3 DEF ChangeProduct, Wrote, Continue
      <4>2. y.at = "read product" /\ y.wrote = TRUE
        BY <1>1, <4>1 DEF RequestType
      <4>3. y # Idle /\ Showing(y)
        BY <4>2, IdleIs DEF Showing
      <4> QED
        BY <2>5, <3>1, <4>2, <4>3
    <3> QED
      BY <3>2, <3>3
  <2>9. CASE GetProductByID(r)
    <3>1. x.at = "read product" /\ UNCHANGED <<product, shown>>
      BY <2>9 DEF GetProductByID, At, directory
    <3>2. CASE product[p] = None
      BY <1>7, <2>4, <2>9, <3>1, <3>2 DEF GetProductByID
    <3>3. CASE product[p] # None
      <4>1. y = [x EXCEPT !.at = "show product", !.held = product[p]]
        BY <1>1, <1>7, <2>9, <3>3 DEF GetProductByID, Continue
      <4>2. y.at = "show product" /\ y.held = product[p] /\ y.wrote = x.wrote /\ y.on = x.on
        BY <1>1, <4>1 DEF RequestType
      <4>3. Showing(x) => Showing(y)
        BY <4>2 DEF Showing
      <4>4. On(p)' = On(p)
        BY <1>5, <4>2 DEF On
      <4>5. shown'[p] \in {None, product'[p]} \/ \E q \in On(p)' : Showing(req'[q])
        <5>1. \A q \in Requests : Showing(req[q]) => Showing(req'[q])
          BY <1>5, <4>3
        <5> QED
          BY <3>1, <4>4, <5>1 DEF ProductOf, On
      <4>6. ASSUME NEW q \in On(p)', req'[q].at = "show product" PROVE req'[q].held = product'[p]
        BY <1>5, <3>1, <4>2, <4>4, <4>6 DEF ProductOf, On
      <4> QED
        BY <4>5, <4>6 DEF ProductOf
    <3> QED
      BY <3>2, <3>3
  <2>10. CASE SetProduct(r)
    <3>1. x.held = product[p] /\ UNCHANGED product
      BY <2>1, <2>10 DEF SetProduct, At
    <3>2. shown'[p] = x.held /\ y = Idle
      BY <1>1, <1>7, <2>3, <2>10 DEF SetProduct, Answer, Continue, ProductsOK
    <3>3. p \notin y.on
      BY <3>2 DEF Idle
    <3>4. \A q \in Requests : q \in On(p)' => q # r /\ q \in On(p)
      BY <1>5, <3>3 DEF On
    <3>5. \A q \in On(p)' : req'[q].at = "show product" => req'[q].held = product'[p]
      BY <1>5, <3>1, <3>4 DEF ProductOf, On
    <3>6. shown'[p] = product'[p]
      BY <3>1, <3>2
    <3> QED
      BY <3>5, <3>6 DEF ProductOf
  <2> QED
    BY <2>7, <2>8, <2>9, <2>10 DEF ProductStep
<1> QED
  BY <1>6, <1>7

LEMMA ProductInvStep ==
  ASSUME Types, Types', MeetInv, ProductInv, [Next]_vars
  PROVE  ProductInv'
<1> SUFFICES ASSUME NEW p \in Products, p \in alone' PROVE ProductOf(p)'
  BY DEF ProductInv
<1>1. DOMAIN req = Requests
  BY DEF Types, RequestsOK
<1>2. CASE RestartSCM
  <2>1. On(p)' = {}
    <3>1. req' = [r \in Requests |-> IF req[r].at \notin MRPSteps THEN Idle ELSE req[r]]
      BY <1>2 DEF RestartSCM
    <3>2. \A r \in Requests : req'[r] = Idle \/ (req'[r] = req[r] /\ req[r].at \in MRPSteps)
      BY <3>1
    <3>3. \A r \in Requests : p \notin req'[r].on
      BY <3>2, Spared DEF Idle
    <3> QED
      BY <3>3 DEF On
  <2>2. product' = product /\ shown'[p] = (IF product[p] = None THEN shown[p] ELSE product[p])
    BY <1>2 DEF RestartSCM, WarmupCache
  <2>3. product[p] = None => shown[p] = None
    BY DEF Types, ProductsOK
  <2> QED
    BY <2>1, <2>2, <2>3 DEF ProductOf
<1>3. CASE ~RestartSCM
  <2>1. alone' \subseteq alone
    <3>1. \A r, y : Opening(r, y) \/ Turn(r, y) => alone' \subseteq alone
      BY DEF Opening, Turn
    <3> QED
      BY <1>3, <3>1, TurnCases
  <2>2. p \in alone /\ ProductOf(p)
    BY <2>1 DEF ProductInv
  <2>3. ASSUME NEW r \in Requests, NEW y, Turn(r, y), req[r].kind \notin ProductKinds, UNCHANGED <<product, shown>>
        PROVE  ProductOf(p)'
    <3>1. \A z : z.kind \in Kinds /\ z.at \in Places(z.kind) /\ z.at \in {"read product", "show product"} => z.kind \in ProductKinds
      BY KindAt DEF ProductKinds
    <3>2. req[r].kind \in Kinds /\ req[r].at \in Places(req[r].kind)
      BY DEF Types, RequestsOK, RequestType, Serving
    <3>3. req'[r].kind \in Kinds /\ req'[r].at \in Places(req'[r].kind)
      BY DEF Types, RequestsOK, RequestType, Serving
    <3>4. req'[r].kind \notin ProductKinds
      <4>1. req'[r] = y /\ (y = Idle \/ y.kind = req[r].kind)
        BY <1>1, <2>3 DEF Turn, Same
      <4>2. Idle.kind \notin ProductKinds
        BY DEF Idle, ProductKinds
      <4> QED
        BY <2>3, <4>1, <4>2
    <3>5. ~Showing(req[r]) /\ req'[r].at # "show product"
      BY <2>3, <3>1, <3>2, <3>3, <3>4 DEF Showing
    <3>6. \A q \in Requests : q # r => req'[q] = req[q]
      BY <1>1, <2>3 DEF Turn
    <3> QED
      BY <2>2, <2>3, <3>5, <3>6, ProductOfKept
  <2>4. CASE UNCHANGED <<req, product, shown>>
    BY <2>2, <2>4, ProductOfKept
  <2>5. ASSUME NEW r \in Requests, NEW y, Opening(r, y), Stays PROVE ProductOf(p)'
    <3>1. req' = [req EXCEPT ![r] = y] /\ req[r].at = "idle" /\ Fresh(y)
      BY <2>5 DEF Opening
    <3>2. ~Showing(req[r]) /\ y.at # "show product"
      BY <3>1 DEF Fresh, FirstAts, Showing
    <3>3. \A q \in Requests : q # r => req'[q] = req[q]
      BY <1>1, <3>1
    <3>4. UNCHANGED <<product, shown>> /\ req'[r] = y
      BY <1>1, <2>5, <3>1 DEF Stays, directory
    <3> QED
      BY <2>2, <3>2, <3>3, <3>4, ProductOfKept
  <2>6. ASSUME NEW r \in Requests, StepFails(r), Stays PROVE ProductOf(p)'
    <3>1. req' = [req EXCEPT ![r] = Idle] /\ UNCHANGED <<product, shown>>
      BY <2>6 DEF StepFails, Stays, directory
    <3>2. p \in req[r].on => ~req[r].wrote
      BY <2>6 DEF StepFails, Spoil, HalfDone
    <3>3. (p \in req[r].on => ~Showing(req[r])) /\ req'[r].at # "show product"
      BY <1>1, <3>1, <3>2 DEF Showing, Idle
    <3>4. \A q \in Requests : q # r => req'[q] = req[q]
      BY <1>1, <3>1
    <3> QED
      BY <2>2, <3>1, <3>3, <3>4, ProductOfKept
  <2>7. ASSUME NEW r \in Requests, ProductStep(r) PROVE ProductOf(p)'
    BY <2>2, <2>7, ProductStepKeeps
  <2>8. ASSUME NEW r \in Requests,
               \/ PartStep(r) /\ UNCHANGED <<models, directory, mrp>>
               \/ VendorStep(r) /\ UNCHANGED <<scm, productVars, mrp>>
               \/ ModelStep(r) /\ UNCHANGED <<parts, lastId, stocks, directory, mrp>>
               \/ BillStep(r) /\ UNCHANGED <<scm, directory>>
               \/ ReadStep(r) /\ UNCHANGED <<scm, directory, bom, erased, last>>
        PROVE  ProductOf(p)'
    <3>1. UNCHANGED <<product, shown>>
      BY <2>8 DEF directory, productVars
    <3>2. \E y : Turn(r, y)
      BY <2>8, PartTurns, VendorTurns, ModelTurns, BillTurns, ReadTurns
    <3>3. req[r].kind \in PartKinds \cup VendorKinds \cup Writers \cup {"delete assembly", "read bom"}
      BY <2>8, PartTurns, VendorTurns, ModelTurns, BillTurns, ReadTurns
    <3>4. req[r].kind \notin ProductKinds
      BY <3>3 DEF PartKinds, ProductKinds, VendorKinds, Writers
    <3> QED
      BY <2>3, <3>1, <3>2, <3>4
  <2>9. ASSUME (VendorMoves /\ UNCHANGED <<scm, productVars, mrp>>) \/ (\E k \in Keys : ExpireBOM(k)) \/ UNCHANGED vars
        PROVE  ProductOf(p)'
    <3>1. UNCHANGED <<req, product, shown>>
      BY <2>9 DEF VendorMoves, CreateSupplier, ReceiptMoves, ExpireBOM, Aside, productVars, directory, vars
    <3> QED
      BY <2>4, <3>1, SMTT(30)
  <2> QED
    BY <1>3, <2>5, <2>6, <2>7, <2>8, <2>9, StepCases, Zenon
<1> QED
  BY <1>2, <1>3

LEMMA AlwaysShown == Spec => []ProductInv
<1>1. ASSUME Init PROVE ProductInv
  <2>1. \A r \in Requests : req[r] = Idle
    BY <1>1 DEF Init, RequestsInit
  <2>2. \A r \in Requests : req[r].on = {}
    BY <2>1 DEF Idle
  <2>3. shown = product
    BY <1>1 DEF Init
  <2> QED
    BY <2>2, <2>3 DEF ProductInv, ProductOf, On
<1>2. Types /\ Types' /\ MeetInv /\ ProductInv /\ [Next]_vars => ProductInv'
  BY ProductInvStep
<1> QED
  BY <1>1, <1>2, AlwaysTypes, AlwaysWhole, PTL DEF Spec

(* A product that is read while nobody changes it, changed, cached and     *)
(* warmed again at a restart: what the cache shows is the row, as long as  *)
(* no two requests met on the product and none left its entry unwritten.   *)
THEOREM ProductsAreCurrent == Spec => []CachedProductCurrent
<1>1. ASSUME ProductInv PROVE CachedProductCurrent
  <2>1. SUFFICES ASSUME NEW p \in alone \cap Products, Quiet(p) PROVE shown[p] \in {None, product[p]}
    BY DEF CachedProductCurrent
  <2>2. On(p) = {} /\ ProductOf(p)
    BY <1>1, <2>1 DEF ProductInv, On, Quiet
  <2> QED
    BY <2>2 DEF ProductOf
<1> QED
  BY <1>1, AlwaysShown, PTL

-----------------------------------------------------------------------------
(* The cached choice of a vendor.                                          *)

(* On a calm subject readers and writers do not meet.                      *)
LEMMA CalmMeet ==
  ASSUME MeetInv, NEW u \in calm, NEW p \in Requests, NEW q \in Requests,
         NEW w, w \in req[p].on, w \in req[q].on, u \in req[p].on \cup req[q].on
  PROVE  Reading(p) <=> Reading(q)
<1>1. CASE p = q
  BY <1>1
<1>2. CASE p # q
  BY <1>2 DEF MeetInv, Meet
<1> QED
  BY <1>1, <1>2

LEMMA OptimalKept ==
  ASSUME NEW s, mapping'[s] = mapping[s], \A v \in mapping[s] : rating'[v] = rating[v]
  PROVE  Optimal(s)' = Optimal(s)
<1> PICK S : S = mapping[s]
  OBVIOUS
<1>1. {v \in S : \A w \in S : Score(v, rating'[v]) >= Score(w, rating'[w])}
        = {v \in S : \A w \in S : Score(v, rating[v]) >= Score(w, rating[w])}
  OBVIOUS
<1> QED
  BY <1>1 DEF Optimal

LEMMA ChoosingKept ==
  ASSUME NEW s, NEW x, Choosing(x, s), mapping'[s] = mapping[s], \A v \in mapping[s] : rating'[v] = rating[v]
  PROVE  Choosing(x, s)'
<1>1. ASSUME NEW seen, seen \subseteq mapping[s], Top(x.held, seen) PROVE Top(x.held, seen)'
  BY <1>1 DEF Top
<1> QED
  BY <1>1 DEF Choosing

(* What a request about s may turn into when nothing about s changes.      *)
Follows(x, y, s) ==
    /\ Dropping(x, s) => Dropping(y, s)
    /\ Rated(x, s) => Rated(y, s) \/ Dropping(y, s)
    /\ Late(y, s) => Late(x, s)
    /\ (s \in y.on /\ y.kind = "get optimal") => Choosing(y, s)

LEMMA VendorOfKept ==
  ASSUME NEW s, VendorOf(s), optimal'[s] = optimal[s], mapping'[s] = mapping[s],
         \A v \in mapping[s] : rating'[v] = rating[v],
         \A q \in Requests : req'[q] = req[q] \/ Follows(req[q], req'[q], s)
  PROVE  VendorOf(s)'
<1>1. \A q \in Requests : Follows(req[q], req'[q], s)
  BY DEF VendorOf, Follows, On
<1>2. (Dropped(s) => Dropped(s)') /\ Optimal(s)' = Optimal(s)
  BY <1>1, OptimalKept DEF Follows, Dropped, Dropping
<1>3. \A q \in Requests : Rated(req[q], s) => Rated(req[q], s)' \/ Dropping(req[q], s)'
  BY <1>1 DEF Follows, Rated, Dropping
<1>4. \A q \in Requests : Late(req[q], s)' => Late(req[q], s)
  BY <1>1 DEF Follows, Late
<1>5. ASSUME NEW q \in Requests, q \in On(s)', req'[q].kind = "get optimal" PROVE Choosing(req[q], s)'
  <2> PICK y : y = req'[q]
    OBVIOUS
  <2>1. Choosing(y, s)
    BY <1>1, <1>5 DEF Follows, On
  <2>2. Choosing(y, s)'
    BY <2>1, ChoosingKept
  <2> QED
    BY <2>2
<1>6. optimal'[s] = None \/ optimal'[s] = Optimal(s)' \/ Dropped(s)' \/ \E q \in Requests : Rated(req[q], s)'
  <2>1. CASE \E q \in Requests : Rated(req[q], s)
    BY <1>3, <2>1 DEF Dropped
  <2>2. CASE ~\E q \in Requests : Rated(req[q], s)
    BY <1>2, <2>2 DEF VendorOf
  <2> QED
    BY <2>1, <2>2
<1>7. (\E q \in Requests : Late(req[q], s)') => optimal'[s] = None \/ Dropped(s)'
  BY <1>2, <1>4 DEF VendorOf
<1>8. \A q \in On(s)' : req'[q].kind = "get optimal" => Choosing(req[q], s)'
  BY <1>5 DEF On
<1> QED
  BY <1>6, <1>7, <1>8 DEF VendorOf

(* A vendor more is compared with the best so far.                         *)
LEMMA TopBetter ==
  ASSUME NEW seen, NEW best \in Scores, NEW v \in Vendors, rating[v] \in Ratings, Top(best, seen),
         \A w \in seen : w \in Vendors /\ rating[w] \in Ratings /\ Price[w] < Price[v]
  PROVE  Top(Better(best, v, rating[v]), seen \cup {v})
<1> PICK n : n = Score(v, rating[v])
  OBVIOUS
<1>1. n \in Int /\ best.score \in Int /\ \A w \in seen : Score(w, rating[w]) \in Int
  BY ScoreType DEF Scores
<1>2. CASE n > best.score
  <2> PICK new : new = [vendor |-> v, score |-> n]
    OBVIOUS
  <2>1. Better(best, v, rating[v]) = new /\ new.vendor = v /\ new.score = n /\ v # None
    BY <1>2, DirectoryAssumption DEF Better
  <2>2. \A w \in seen : Score(w, rating[w]) < n
    BY <1>1, <1>2 DEF Top
  <2>3. Price[v] <= Price[v]
    BY PriceAssumption
  <2> QED
    BY <1>1, <2>1, <2>2, <2>3 DEF Top
<1>3. CASE ~(n > best.score)
  <2>1. Better(best, v, rating[v]) = best /\ n <= best.score
    BY <1>1, <1>3 DEF Better
  <2>2. best.vendor # None => Price[best.vendor] <= Price[v]
    BY PriceAssumption DEF Top
  <2> QED
    BY <2>1, <2>2 DEF Top
<1> QED
  BY <1>2, <1>3

LEMMA TopIsOptimal ==
  ASSUME NEW s, NEW best \in Scores, Top(best, mapping[s]), best.vendor # None,
         \A v \in mapping[s] : v \in Vendors /\ rating[v] \in Ratings
  PROVE  best.vendor = Optimal(s)
<1> PICK S, T : /\ S = mapping[s]
                /\ T = {v \in S : \A w \in S : Score(v, rating[v]) >= Score(w, rating[w])}
  OBVIOUS
<1>1. \A v \in S : Score(v, rating[v]) \in Int
  BY ScoreType
<1>2. best.vendor \in S /\ best.score \in Int /\ \A v \in S : Score(v, rating[v]) <= best.score
  BY DEF Top, Scores
<1>3. best.vendor \in T
  BY <1>1, <1>2 DEF Top
<1>4. ASSUME NEW v \in T PROVE Price[best.vendor] <= Price[v]
  <2>1. v \in S /\ Score(v, rating[v]) >= best.score
    BY <1>2 DEF Top
  <2>2. Score(v, rating[v]) = best.score
    BY <1>1, <1>2, <2>1
  <2> QED
    BY <2>1, <2>2 DEF Top
<1>5. T \in SUBSET Vendors
  OBVIOUS
<1>6. Cheapest(T) = best.vendor
  BY <1>3, <1>4, <1>5, CheapestAlone
<1> QED
  BY <1>6 DEF Optimal

(* Whoever still has to drop a choice has written, and is about the SKU.   *)
LEMMA DroppingIs ==
  ASSUME NEW x, NEW there, Serving(x, there), NEW s, Dropping(x, s) \/ Rated(x, s)
  PROVE  x.wrote /\ s \in x.on
  BY DEF Serving, Dropping, Rated, MustHaveWritten

LEMMA IdleFollows ==
  ASSUME NEW x, NEW s, ~Dropping(x, s), ~Rated(x, s)
  PROVE  Follows(x, Idle, s)
  BY IdleIs DEF Follows, Late

LEMMA VendorStepKeeps ==
  ASSUME Types, MeetInv, NEW r \in Requests, VendorStep(r),
         NEW s \in Offered, s \in calm, s \in calm', VendorOf(s)
  PROVE  VendorOf(s)'
<1> PICK x, k : x = req[r] /\ k = req[r].key
  OBVIOUS
<1>1. x \in RequestType /\ Serving(x, There) /\ DOMAIN req = Requests /\ VendorsOK
  BY DEF Types, RequestsOK
<1>2. x.kind \in Kinds /\ x.at \in Places(x.kind) /\ About(x) /\ Holds(x, There) /\ x.kind \in VendorKinds
  BY <1>1, VendorTurns DEF RequestType, Serving
<1>3. /\ x.kind = "create mapping" => k \in Offered /\ x.arg \in Vendors /\ x.on = {k, x.arg}
      /\ x.kind = "rate vendor" => k \in Vendors /\ k \in x.on
      /\ x.kind = "get optimal" => k \in Offered /\ k \in x.on /\ x.on \subseteq {k} \cup Vendors
  BY <1>2 DEF About
<1>4. \E y : Turn(r, y)
  BY VendorTurns
<1> PICK y : y = req'[r]
  OBVIOUS
<1>5. req' = [req EXCEPT ![r] = y] /\ (y = Idle \/ Same(x, y)) /\ y \in RequestType
  BY <1>1, <1>4 DEF Turn
<1>6. \A q \in Requests : q # r => req'[q] = req[q]
  BY <1>1, <1>5
<1>7. s \in x.on /\ x.wrote => ~Refuse(r)
  BY DEF Refuse, Spoil, HalfDone
<1>8. s \in x.on => \A next : ~Ignored(r, next)
  BY DEF Ignored, Spoil
<1>9. ASSUME Follows(x, y, s), optimal'[s] = optimal[s], mapping'[s] = mapping[s],
             \A v \in mapping[s] : rating'[v] = rating[v]
      PROVE  VendorOf(s)'
  BY <1>6, <1>9, VendorOfKept
<1>10. ASSUME Refuse(r) \/ Ignored(r, Idle), UNCHANGED <<optimal, mapping, rating>> PROVE VendorOf(s)'
  <2>1. y = Idle
    BY <1>1, <1>10 DEF Refuse, Ignored
  <2>2. ~Dropping(x, s) /\ ~Rated(x, s)
    BY <1>1, <1>7, <1>8, <1>10, DroppingIs
  <2> QED
    BY <1>9, <1>10, <2>1, <2>2, IdleFollows
<1>11. ASSUME Continue(r, Idle), ~Dropping(x, s), ~Rated(x, s), optimal'[s] = optimal[s], UNCHANGED <<mapping, rating>>
       PROVE  VendorOf(s)'
  <2>1. y = Idle
    BY <1>1, <1>11 DEF Continue
  <2> QED
    BY <1>9, <1>11, <2>1, IdleFollows
<1>12. ASSUME NEW q \in Requests, NEW w, w \in req[q].on, w \in x.on, s \in req[q].on \cup x.on,
              req[q].kind = "get optimal", x.kind # "get optimal"
       PROVE  FALSE
  <2>1. ~Reading(r) /\ Reading(q)
    BY <1>2, <1>12 DEF VendorKinds, Reading, Reads
  <2> QED
    BY <1>12, <2>1, CalmMeet
<1>13. mapping[s] \subseteq Vendors /\ \A v \in mapping[s] : rating[v] \in Ratings
  BY <1>1, ThereIs DEF VendorsOK
<1>14. CASE InsertMapping(r)
  <2>1. /\ x.kind = "create mapping" /\ x.at = "insert mapping" /\ x.todo = {k}
        /\ mapping' = [mapping EXCEPT ![k] = @ \cup {x.arg}] /\ UNCHANGED <<rating, optimal>>
    BY <1>2, <1>14, KindAt DEF InsertMapping, At, Holds
  <2>2. y = [x EXCEPT !.at = "drop optimal", !.wrote = TRUE]
    BY <1>1, <1>14 DEF InsertMapping, Wrote, Continue
  <2>3. y.at = "drop optimal" /\ y.kind = x.kind /\ y.todo = {k} /\ y.on = x.on
    BY <1>1, <2>1, <2>2 DEF RequestType
  <2>4. CASE s = k
    <3>1. Dropping(y, s)
      BY <1>3, <2>1, <2>3, <2>4 DEF Dropping
    <3>2. Dropped(s)'
      BY <3>1 DEF Dropped, Dropping
    <3>3. ASSUME NEW q \in On(s)', req'[q].kind = "get optimal" PROVE FALSE
      <4>1. q # r
        BY <2>1, <2>3, <3>3
      <4>2. q \in Requests /\ s \in req[q].on /\ req[q].kind = "get optimal"
        BY <1>6, <3>3, <4>1 DEF On
      <4> QED
        BY <1>3, <1>12, <2>1, <2>4, <4>2
    <3> QED
      BY <3>2, <3>3 DEF VendorOf
  <2>5. CASE s # k
    <3>1. mapping'[s] = mapping[s]
      BY <1>1, <2>1, <2>5 DEF VendorsOK
    <3>2. Follows(x, y, s)
      BY <2>1, <2>3 DEF Follows, Dropping, Rated, Late
    <3> QED
      BY <1>9, <2>1, <3>1, <3>2
  <2> QED
    BY <2>4, <2>5
<1>15. CASE DeleteOptimalSupplier(r)
  <2>1. x.at = "drop optimal" /\ UNCHANGED <<rating, mapping>> /\ x.kind # "get optimal"
    BY <1>2, <1>15, KindAt DEF DeleteOptimalSupplier, At
  <2>2. CASE x.todo = {}
    <3>1. Continue(r, Idle) /\ UNCHANGED optimal
      BY <1>15, <2>2 DEF DeleteOptimalSupplier, Answer
    <3>2. ~Dropping(x, s) /\ ~Rated(x, s)
      BY <2>1, <2>2 DEF Dropping, Rated
    <3> QED
      BY <1>11, <2>1, <3>1, <3>2
  <2>3. CASE x.todo # {}
    <3> PICK t \in x.todo :
          \/ Continue(r, [x EXCEPT !.todo = x.todo \ {t}]) /\ optimal' = [optimal EXCEPT ![t] = None]
          \/ Ignored(r, [x EXCEPT !.todo = x.todo \ {t}]) /\ UNCHANGED optimal
      BY <1>1, <1>15, <2>3 DEF DeleteOptimalSupplier, RequestType
    <3> PICK T : T = x.todo \ {t}
      OBVIOUS
    <3>1. y = [x EXCEPT !.todo = T]
      BY <1>1 DEF Continue, Ignored
    <3>2. y.at = x.at /\ y.todo = T /\ y.on = x.on /\ y.kind = x.kind /\ y.key = x.key
      BY <1>1, <3>1 DEF RequestType
    <3>3. t # s \/ s \notin x.on => Follows(x, y, s)
      BY <2>1, <3>2 DEF Follows, Dropping, Rated, Late
    <3>4. CASE s \notin x.on \/ t # s
      <4>1. Follows(x, y, s)
        BY <3>3, <3>4
      <4>2. optimal'[s] = optimal[s] \/ optimal'[s] = None
        BY <1>1 DEF VendorsOK
      <4>3. CASE optimal'[s] = optimal[s]
        BY <1>9, <2>1, <4>1, <4>3
      <4>4. CASE optimal'[s] = None
        <5>1. ASSUME NEW q \in Requests, q \in On(s)', req'[q].kind = "get optimal" PROVE Choosing(req[q], s)'
          <6>1. q # r /\ q \in On(s) /\ req'[q] = req[q] /\ Choosing(req[q], s)
            BY <1>6, <2>1, <3>2, <5>1 DEF On, VendorOf
          <6> PICK z : z = req[q]
            OBVIOUS
          <6>2. Choosing(z, s)'
            BY <2>1, <6>1, ChoosingKept
          <6> QED
            BY <6>1, <6>2
        <5>2. \A q \in On(s)' : req'[q].kind = "get optimal" => Choosing(req[q], s)'
          BY <5>1 DEF On
        <5> QED
          BY <4>4, <5>2 DEF VendorOf
      <4> QED
        BY <4>2, <4>3, <4>4
    <3>5. CASE t = s /\ s \in x.on
      <4>1. optimal'[s] = None
        BY <1>1, <1>8, <3>5 DEF VendorsOK
      <4>2. ASSUME NEW q \in Requests, q \in On(s)', req'[q].kind = "get optimal" PROVE Choosing(req[q], s)'
        <5>1. q # r /\ q \in On(s) /\ req'[q] = req[q] /\ Choosing(req[q], s)
          BY <1>6, <2>1, <3>2, <4>2 DEF On, VendorOf
        <5> PICK z : z = req[q]
          OBVIOUS
        <5>2. Choosing(z, s)'
          BY <2>1, <5>1, ChoosingKept
        <5> QED
          BY <5>1, <5>2
      <4>3. \A q \in On(s)' : req'[q].kind = "get optimal" => Choosing(req[q], s)'
        BY <4>2 DEF On
      <4> QED
        BY <4>1, <4>3 DEF VendorOf
    <3> QED
      BY <3>4, <3>5
  <2> QED
    BY <2>2, <2>3
<1>16. CASE CountGoodsReceiptsByVendor(r) \/ FindGoodsReceiptsByVendor(r)
  <2>1. x.at \in {"count receipts", "read receipts"} /\ UNCHANGED <<rating, mapping, optimal>> /\ x.kind = "rate vendor"
    BY <1>2, <1>16, KindAt DEF CountGoodsReceiptsByVendor, FindGoodsReceiptsByVendor, At, directory
  <2>2. Follows(x, Idle, s)
    BY <2>1, IdleFollows DEF Dropping, Rated
  <2>3. Same(x, y) => Follows(x, y, s)
    BY <2>1 DEF Same, Follows, Dropping, Rated, Late
  <2> QED
    BY <1>5, <1>9, <2>1, <2>2, <2>3
<1>17. CASE UpdateSupplier(r)
  <2>1. x.at = "rate" /\ UNCHANGED <<mapping, optimal>> /\ x.kind = "rate vendor" /\ rating' = [rating EXCEPT ![k] = x.held]
    BY <1>2, <1>17, KindAt DEF UpdateSupplier, At
  <2>2. y = [x EXCEPT !.at = "find mappings", !.wrote = TRUE]
    BY <1>1, <1>17 DEF UpdateSupplier, Wrote, Continue
  <2>3. y.at = "find mappings" /\ y.kind = x.kind /\ y.key = k /\ y.on = x.on
    BY <1>1, <2>2 DEF RequestType
  <2>4. CASE k \notin mapping[s]
    <3>1. \A v \in mapping[s] : rating'[v] = rating[v]
      BY <1>1, <1>13, <2>1, <2>4 DEF VendorsOK
    <3>2. Follows(x, y, s)
      BY <2>1, <2>3 DEF Follows, Dropping, Rated, Late
    <3> QED
      BY <1>9, <2>1, <3>1, <3>2
  <2>5. CASE k \in mapping[s]
    <3>1. ASSUME NEW q \in On(s)', req'[q].kind = "get optimal" PROVE FALSE
      <4>1. q # r
        BY <2>1, <2>3, <3>1
      <4>2. q \in On(s) /\ req[q].kind = "get optimal"
        BY <1>6, <3>1, <4>1 DEF On
      <4>3. k \in req[q].on /\ s \in req[q].on
        BY <2>5, <4>2 DEF VendorOf, Choosing, On
      <4> QED
        BY <1>3, <1>12, <2>1, <4>2, <4>3 DEF On
    <3>2. Dropped(s) => Dropped(s)'
      <4>1. \A q \in Requests : Dropping(req[q], s) => req'[q] = req[q]
        BY <1>6, <2>1 DEF Dropping
      <4> QED
        BY <4>1 DEF Dropped, Dropping
    <3>3. (\E q \in Requests : Late(req[q], s)') => \E q \in Requests : Late(req[q], s)
      <4>1. Late(y, s) => Late(x, s)
        BY <2>3 DEF Late
      <4>2. \A q \in Requests : Late(req'[q], s) => Late(req[q], s)
        BY <1>6, <4>1
      <4> QED
        BY <2>1, <4>2 DEF Late
    <3>4. Late(x, s) \/ Rated(y, s)'
      BY <2>1, <2>3, <2>5 DEF Late, Rated
    <3>5. optimal'[s] = None \/ Dropped(s)' \/ \E q \in Requests : Rated(req[q], s)'
      <4>1. CASE Late(x, s)
        BY <2>1, <3>2, <4>1 DEF VendorOf
      <4>2. CASE Rated(y, s)'
        BY <4>2 DEF Rated
      <4> QED
        BY <3>4, <4>1, <4>2
    <3>6. (\E q \in Requests : Late(req[q], s)') => optimal'[s] = None \/ Dropped(s)'
      BY <2>1, <3>2, <3>3 DEF VendorOf
    <3> QED
      BY <3>1, <3>5, <3>6 DEF VendorOf
  <2> QED
    BY <2>4, <2>5
<1>18. CASE FindSkuMappingsBySupplierID(r)
  <2>1. x.at = "find mappings" /\ UNCHANGED <<rating, mapping, optimal>> /\ x.kind = "rate vendor"
    BY <1>2, <1>18, KindAt DEF FindSkuMappingsBySupplierID, At, directory
  <2> PICK T : T = {q \in Offered : k \in mapping[q]}
    OBVIOUS
  <2>2. CASE Continue(r, [x EXCEPT !.at = "drop optimal", !.todo = T])
    <3>1. y = [x EXCEPT !.at = "drop optimal", !.todo = T]
      BY <1>1, <2>2 DEF Continue
    <3>2. y.at = "drop optimal" /\ y.todo = T /\ y.on = x.on /\ y.kind = x.kind /\ y.key = k
      BY <1>1, <3>1 DEF RequestType
    <3>3. Rated(x, s) => Dropping(y, s)
      BY <3>2 DEF Rated, Dropping
    <3>4. Follows(x, y, s)
      BY <2>1, <3>2, <3>3 DEF Follows, Dropping, Late
    <3> QED
      BY <1>9, <2>1, <3>4
  <2> QED
    BY <1>10, <1>18, <2>1, <2>2 DEF FindSkuMappingsBySupplierID
<1>19. CASE FindSkuMappingsBySKU(r)
  <2>1. x.at = "find vendors" /\ UNCHANGED <<rating, mapping, optimal>> /\ x.kind = "get optimal"
    BY <1>2, <1>19, KindAt DEF FindSkuMappingsBySKU, At, directory
  <2>2. CASE Continue(r, [x EXCEPT !.at = "score", !.todo = mapping[k], !.held = NothingYet])
    <3>1. y = [x EXCEPT !.at = "score", !.todo = mapping[k], !.held = NothingYet]
      BY <1>1, <2>2 DEF Continue
    <3>2. y.at = "score" /\ y.todo = mapping[k] /\ y.held = NothingYet /\ y.on = x.on /\ y.kind = x.kind
      BY <1>1, <3>1 DEF RequestType
    <3>3. ASSUME s \in y.on PROVE Choosing(y, s)
      <4>1. s = k
        BY <1>3, <2>1, <3>2, <3>3, SubjectsAssumption
      <4>2. mapping[s] \subseteq y.on
        BY <2>1, <3>2, <3>3 DEF VendorOf, Choosing, On
      <4>3. Top(NothingYet, {})
        BY DEF Top, NothingYet
      <4>4. mapping[s] \ y.todo = {}
        BY <3>2, <4>1
      <4> QED
        BY <3>2, <4>1, <4>2, <4>3, <4>4 DEF Choosing
    <3>4. Follows(x, y, s)
      BY <2>1, <3>2, <3>3 DEF Follows, Dropping, Rated, Late
    <3> QED
      BY <1>9, <2>1, <3>4
  <2> QED
    BY <1>10, <1>19, <2>1, <2>2 DEF FindSkuMappingsBySKU
<1>20. CASE ScoreSupplier(r)
  <2>1. /\ x.at = "score" /\ UNCHANGED <<rating, mapping, optimal>> /\ x.kind = "get optimal"
        /\ x.todo # {} /\ x.todo \subseteq Vendors /\ x.held \in Scores
    BY <1>2, <1>20, KindAt DEF ScoreSupplier, At, directory, Holds
  <2>2. Same(x, y)
    <3>1. y.at = x.at
      BY <1>1, <1>20 DEF ScoreSupplier, Continue, Ignored, RequestType
    <3> QED
      BY <1>5, <2>1, <3>1, IdleIs
  <2>3. ASSUME s \in y.on PROVE Choosing(y, s)
    <3>1. s = k /\ s \in x.on /\ Choosing(x, s)
      <4>1. s \in x.on
        BY <2>2, <2>3 DEF Same
      <4> QED
        BY <1>3, <2>1, <4>1, SubjectsAssumption DEF VendorOf, On
    <3> PICK v : v = Cheapest(x.todo)
      OBVIOUS
    <3>2. v \in x.todo /\ v \in Vendors /\ v \in mapping[s] /\ \A w \in x.todo : Price[v] <= Price[w]
      BY <2>1, <3>1, CheapestIs DEF Choosing
    <3>3. \A w \in x.todo \ {v} : Price[v] < Price[w]
      <4> SUFFICES ASSUME NEW w \in x.todo, w # v PROVE Price[v] < Price[w]
        OBVIOUS
      <4>1. Price[v] \in Nat /\ Price[w] \in Nat /\ Price[v] # Price[w] /\ Price[v] <= Price[w]
        BY <2>1, <3>2, PriceAssumption
      <4> QED
        BY <4>1
    <3> PICK T, best, seen : T = x.todo \ {v} /\ best = Better(x.held, v, rating[v]) /\ seen = mapping[s] \ x.todo
      OBVIOUS
    <3>4. y.todo = T /\ y.held = best /\ y.at = "score"
      <4> PICK next : next = [x EXCEPT !.todo = T]
        OBVIOUS
      <4>1. next.held = x.held /\ DOMAIN next = {"at", "kind", "on", "key", "arg", "held", "todo", "wrote"}
        BY <1>1 DEF RequestType
      <4>2. next.todo = T /\ next.at = x.at
        BY <1>1 DEF RequestType
      <4>3. y = [next EXCEPT !.held = best]
        BY <1>1, <1>8, <1>20, <3>1, <4>1 DEF ScoreSupplier, Continue
      <4> QED
        BY <2>1, <4>1, <4>2, <4>3
    <3>5. Top(x.held, seen) /\ \A w \in seen : Price[w] < Price[v]
      BY <2>1, <3>1, <3>2 DEF Choosing
    <3>6. Top(best, seen \cup {v})
      BY <1>13, <2>1, <3>2, <3>5, TopBetter
    <3>7. mapping[s] \ T = seen \cup {v}
      BY <3>2
    <3>8. \A a \in seen \cup {v}, w \in T : Price[a] < Price[w]
      BY <2>1, <3>1, <3>3, ZenonT(60) DEF Choosing
    <3> QED
      BY <2>1, <2>2, <3>1, <3>4, <3>6, <3>7, <3>8, ZenonT(60) DEF Choosing, Same
  <2>4. Follows(x, y, s)
    BY <2>1, <2>2, <2>3 DEF Follows, Dropping, Rated, Late, Same
  <2> QED
    BY <1>9, <2>1, <2>4
<1>21. CASE SetOptimalSupplier(r)
  <2>1. /\ x.at = "score" /\ UNCHANGED <<rating, mapping>> /\ x.kind = "get optimal"
        /\ x.todo = {} /\ x.held \in Scores
    BY <1>2, <1>21, KindAt DEF SetOptimalSupplier, At, Holds
  <2>2. ~Dropping(x, s) /\ ~Rated(x, s)
    BY <2>1 DEF Dropping, Rated
  <2>3. CASE (Refuse(r) \/ Ignored(r, Idle)) /\ UNCHANGED optimal
    BY <1>10, <2>1, <2>3
  <2>4. CASE Continue(r, Idle) /\ optimal' = [optimal EXCEPT ![k] = x.held.vendor] /\ x.held.vendor # None
    <3>1. CASE k # s
      <4>1. optimal'[s] = optimal[s]
        BY <1>1, <2>4, <3>1 DEF VendorsOK
      <4> QED
        BY <1>11, <2>1, <2>2, <2>4, <4>1
    <3>2. CASE k = s
      <4>1. s \in x.on /\ Choosing(x, s) /\ y = Idle
        BY <1>1, <1>3, <2>1, <2>4, <3>2 DEF Continue, VendorOf, On
      <4>2. Top(x.held, mapping[s])
        <5>1. mapping[s] \ x.todo = mapping[s]
          BY <2>1
        <5> QED
          BY <2>1, <4>1, <5>1 DEF Choosing
      <4>3. x.held.vendor = Optimal(s)
        BY <1>13, <2>1, <2>4, <4>2, TopIsOptimal
      <4>4. optimal'[s] = Optimal(s)'
        <5>1. Optimal(s)' = Optimal(s)
          BY <2>1, OptimalKept
        <5>2. optimal'[s] = x.held.vendor
          BY <1>1, <2>4, <3>2 DEF VendorsOK
        <5> QED
          BY <4>3, <5>1, <5>2
      <4>5. ASSUME NEW q \in Requests, Late(req[q], s)' PROVE FALSE
        <5>1. q # r
          BY <4>1, <4>5, IdleIs DEF Late
        <5>2. req[q].kind = "rate vendor" /\ req[q].key \in mapping[s]
          BY <1>6, <2>1, <4>5, <5>1 DEF Late
        <5>3. req[q].key \in req[q].on /\ req[q].key \in x.on
          BY <4>1, <5>2 DEF Types, RequestsOK, Serving, About, Choosing
        <5>4. ~Reading(q) /\ Reading(r)
          BY <2>1, <5>2 DEF Reading, Reads
        <5> QED
          BY <4>1, <5>3, <5>4, CalmMeet
      <4>6. ASSUME NEW q \in Requests, q \in On(s)', req'[q].kind = "get optimal" PROVE Choosing(req[q], s)'
        <5>1. q # r
          BY <4>1, <4>6, IdleIs
        <5>2. q \in On(s) /\ req'[q] = req[q] /\ Choosing(req[q], s)
          BY <1>6, <4>6, <5>1 DEF On, VendorOf
        <5> PICK z : z = req[q]
          OBVIOUS
        <5>3. Choosing(z, s)'
          BY <2>1, <5>2, ChoosingKept
        <5> QED
          BY <5>2, <5>3
      <4>7. \A q \in On(s)' : req'[q].kind = "get optimal" => Choosing(req[q], s)'
        BY <4>6 DEF On
      <4> QED
        BY <4>4, <4>5, <4>7 DEF VendorOf
    <3> QED
      BY <3>1, <3>2
  <2> QED
    BY <1>21, <2>3, <2>4 DEF SetOptimalSupplier, Answer
<1> QED
  BY <1>14, <1>15, <1>16, <1>17, <1>18, <1>19, <1>20, <1>21 DEF VendorStep

LEMMA VendorInvStep ==
  ASSUME Types, Types', MeetInv, VendorInv, [Next]_vars
  PROVE  VendorInv'
<1> SUFFICES ASSUME NEW s \in Offered, s \in calm' PROVE VendorOf(s)'
  BY DEF VendorInv
<1>1. s \in calm /\ VendorOf(s) /\ DOMAIN req = Requests
  BY NotBefore DEF VendorInv, Types, RequestsOK
<1>2. ASSUME NEW r \in Requests, NEW y, Turn(r, y), req[r].kind \notin VendorKinds, UNCHANGED vendorVars
      PROVE  VendorOf(s)'
  <2>1. \A z : z.kind \in Kinds /\ z.at \in Places(z.kind) /\ z.at \in {"drop optimal", "find mappings"} => z.kind \in VendorKinds
    BY KindAt DEF VendorKinds
  <2>2. req[r].kind \in Kinds /\ req[r].at \in Places(req[r].kind)
    BY DEF Types, RequestsOK, RequestType, Serving
  <2>3. req'[r].kind \notin VendorKinds
    <3>1. req'[r] = y /\ (y = Idle \/ y.kind = req[r].kind)
      BY <1>1, <1>2 DEF Turn, Same
    <3> QED
      BY <1>2, <3>1, IdleIs DEF VendorKinds
  <2>4. Follows(req[r], req'[r], s)
    BY <1>2, <2>1, <2>2, <2>3 DEF Follows, Dropping, Rated, Late, VendorKinds
  <2>5. \A q \in Requests : q # r => req'[q] = req[q]
    BY <1>1, <1>2 DEF Turn
  <2>6. UNCHANGED <<rating, mapping, optimal>>
    BY <1>2 DEF vendorVars
  <2> QED
    BY <1>1, <2>4, <2>5, <2>6, VendorOfKept
<1>3. ASSUME NEW r \in Requests, NEW y, Opening(r, y), Stays PROVE VendorOf(s)'
  <2>1. req' = [req EXCEPT ![r] = y] /\ req[r].at = "idle" /\ Fresh(y) /\ About(y)
    BY <1>3 DEF Opening, Serving
  <2>2. ~Dropping(req[r], s) /\ ~Rated(req[r], s)
    BY <2>1 DEF Dropping, Rated
  <2>3. ~Late(y, s)
    BY <2>1 DEF Fresh, Late
  <2>4. ASSUME s \in y.on, y.kind = "get optimal" PROVE Choosing(y, s)
    <3>1. s = y.key
      BY <2>1, <2>4, SubjectsAssumption DEF About
    <3>2. y.at # "score"
      BY <2>1 DEF Fresh, FirstAts
    <3> QED
      BY <2>1, <2>4, <3>1, <3>2 DEF Fresh, Choosing
  <2>5. Follows(req[r], y, s)
    BY <2>2, <2>3, <2>4 DEF Follows
  <2>6. \A q \in Requests : q # r => req'[q] = req[q]
    BY <1>1, <2>1
  <2>7. UNCHANGED <<rating, mapping, optimal>> /\ req'[r] = y
    BY <1>1, <1>3, <2>1 DEF Stays, directory
  <2> QED
    BY <1>1, <2>5, <2>6, <2>7, VendorOfKept
<1>4. ASSUME (\E r \in Requests : StepFails(r) /\ Stays) \/ RestartSCM PROVE VendorOf(s)'
  <2>1. UNCHANGED <<rating, mapping, optimal>>
    BY <1>4 DEF Stays, RestartSCM, directory, vendorVars
  <2>2. ASSUME NEW q \in Requests PROVE req'[q] = req[q] \/ Follows(req[q], req'[q], s)
    <3>1. req'[q] = req[q] \/ (req'[q] = Idle /\ (s \in req[q].on => ~req[q].wrote))
      BY <1>4, Failed
    <3>2. Serving(req[q], There)
      BY DEF Types, RequestsOK
    <3>3. CASE req'[q] = Idle /\ (s \in req[q].on => ~req[q].wrote)
      <4>1. ~Dropping(req[q], s) /\ ~Rated(req[q], s)
        BY <3>2, <3>3, DroppingIs
      <4> QED
        BY <3>3, <4>1, IdleFollows
    <3> QED
      BY <3>1, <3>3
  <2> QED
    BY <1>1, <2>1, <2>2, VendorOfKept
<1>5. ASSUME NEW r \in Requests, VendorStep(r) PROVE VendorOf(s)'
  BY <1>1, <1>5, VendorStepKeeps
<1>6. ASSUME NEW r \in Requests,
             \/ PartStep(r) /\ UNCHANGED <<models, directory, mrp>>
             \/ ProductStep(r) /\ UNCHANGED <<scm, vendorVars, mrp>>
             \/ ModelStep(r) /\ UNCHANGED <<parts, lastId, stocks, directory, mrp>>
             \/ BillStep(r) /\ UNCHANGED <<scm, directory>>
             \/ ReadStep(r) /\ UNCHANGED <<scm, directory, bom, erased, last>>
      PROVE  VendorOf(s)'
  <2>1. UNCHANGED vendorVars
    BY <1>6 DEF directory, vendorVars
  <2>2. \E y : Turn(r, y)
    BY <1>6, PartTurns, ProductTurns, ModelTurns, BillTurns, ReadTurns
  <2>3. req[r].kind \in PartKinds \cup ProductKinds \cup Writers \cup {"delete assembly", "read bom"}
    BY <1>6, PartTurns, ProductTurns, ModelTurns, BillTurns, ReadTurns
  <2>4. req[r].kind \notin VendorKinds
    BY <2>3 DEF PartKinds, ProductKinds, VendorKinds, Writers
  <2> QED
    BY <1>2, <2>1, <2>2, <2>4
<1>7. ASSUME VendorMoves PROVE VendorOf(s)'
  <2>1. UNCHANGED <<req, mapping, optimal>>
    BY <1>7 DEF VendorMoves, CreateSupplier, ReceiptMoves, Aside
  <2>2. \A v \in mapping[s] : rating'[v] = rating[v]
    <3>1. mapping[s] \subseteq Vendors /\ \A v \in mapping[s] : rating[v] # None
      BY ThereIs DEF Types, VendorsOK
    <3>2. CASE UNCHANGED rating
      BY <3>2
    <3>3. ASSUME NEW v \in Vendors, CreateSupplier(v) PROVE \A w \in mapping[s] : rating'[w] = rating[w]
      BY <3>1, <3>3 DEF CreateSupplier, Types, VendorsOK
    <3> QED
      BY <1>7, <3>2, <3>3 DEF VendorMoves, ReceiptMoves
  <2> QED
    BY <1>1, <2>1, <2>2, VendorOfKept
<1>8. ASSUME (\E k \in Keys : ExpireBOM(k)) \/ UNCHANGED vars PROVE VendorOf(s)'
  <2>1. UNCHANGED <<req, mapping, optimal, rating>>
    BY <1>8 DEF ExpireBOM, Aside, directory, vars
  <2> QED
    BY <1>1, <2>1, VendorOfKept
<1> QED
  BY <1>3, <1>4, <1>5, <1>6, <1>7, <1>8, StepCases, Zenon

LEMMA AlwaysBest == Spec => []VendorInv
<1>1. ASSUME Init PROVE VendorInv
  <2>1. \A r \in Requests : req[r] = Idle
    BY <1>1 DEF Init, RequestsInit
  <2>2. ASSUME NEW s \in Offered PROVE VendorOf(s)
    <3>1. PICK seeded \in BOOLEAN, warm \in BOOLEAN, v \in Vendors :
            /\ mapping = [t \in Offered |-> IF seeded THEN {v} ELSE {}]
            /\ optimal = [t \in Offered |-> IF warm THEN IF seeded THEN v ELSE None ELSE None]
      BY <1>1, InitIs
    <3>2. VendorsOK
      BY <1>1, InitTypes DEF Types
    <3>3. ASSUME seeded, warm PROVE Optimal(s) = v
      <4>1. mapping[s] = {v} /\ rating[v] \in Ratings
        BY <3>1, <3>2, <3>3, ThereIs DEF VendorsOK
      <4>2. Score(v, rating[v]) \in Int /\ Price[v] <= Price[v]
        BY <4>1, ScoreType, PriceAssumption
      <4>3. {u \in {v} : \A w \in {v} : Score(u, rating[u]) >= Score(w, rating[w])} = {v}
        BY <4>2
      <4>4. Cheapest({v}) = v
        BY <4>2, CheapestAlone
      <4> QED
        BY <4>1, <4>3, <4>4 DEF Optimal
    <3>4. optimal[s] = None \/ optimal[s] = Optimal(s)
      BY <3>1, <3>3
    <3>5. \A r \in Requests : ~Late(req[r], s) /\ r \notin On(s)
      BY <2>1, IdleIs DEF Late, On
    <3> QED
      BY <3>4, <3>5 DEF VendorOf, On
  <2> QED
    BY <2>2 DEF VendorInv
<1>2. Types /\ Types' /\ MeetInv /\ VendorInv /\ [Next]_vars => VendorInv'
  BY VendorInvStep
<1> QED
  BY <1>1, <1>2, AlwaysTypes, AlwaysWhole, PTL DEF Spec

(* Vendors are rated again while others begin to offer the SKU and its     *)
(* answer is dropped, all at once: a cached optimal supplier is the best   *)
(* rated vendor of the SKU, the cheapest of those, as long as no reader of *)
(* the SKU met a change, none left its answer to be dropped, and none is   *)
(* at work on it.                                                          *)
THEOREM OptimalsAreCurrent == Spec => []OptimalIsCurrent
<1>1. ASSUME VendorInv PROVE OptimalIsCurrent
  <2>1. SUFFICES ASSUME NEW s \in calm \cap Offered, Quiet(s), optimal[s] # None
                 PROVE  optimal[s] = Optimal(s)
    BY DEF OptimalIsCurrent
  <2>2. \A r \in Requests : s \notin req[r].on
    BY <2>1 DEF Quiet
  <2>3. ~Dropped(s) /\ ~\E r \in Requests : Rated(req[r], s)
    BY <2>2 DEF Dropped, Dropping, Rated
  <2> QED
    BY <1>1, <2>1, <2>3 DEF VendorInv, VendorOf
<1> QED
  BY <1>1, AlwaysBest, PTL

-----------------------------------------------------------------------------
(* The cached bills.                                                       *)

LEMMA LoadedIs ==
  ASSUME NEW m \in Codes, bom \in [Codes -> SUBSET PartIds]
  PROVE  /\ Loaded(m) = {<<m, id>> : id \in bom[m]}
         /\ Of(m, Loaded(AllModels)) = Loaded(m)
         /\ \A id \in bom[m] : <<m, id>> \in Loaded(id)
<1>1. Rows = {x \in AllRows : x[2] \in bom[x[1]]}
  BY DEF Rows, AllRows
<1>2. \A x \in Rows : x[1] \in Codes /\ x[2] \in PartIds /\ x = <<x[1], x[2]>> /\ x[2] \in bom[x[1]]
  BY <1>1 DEF AllRows
<1>3. \A id \in bom[m] : <<m, id>> \in Rows
  BY DEF Rows
<1>4. m # AllModels /\ m \notin PartIds
  BY SubjectsAssumption
<1>5. Loaded(m) = {x \in Rows : x[1] = m}
  BY <1>2, <1>4 DEF Loaded
<1>6. {x \in Rows : x[1] = m} = {<<m, id>> : id \in bom[m]}
  BY <1>2, <1>3
<1>7. Of(m, Loaded(AllModels)) = {x \in Rows : x[1] = m}
  BY DEF Of, Loaded
<1>8. \A id \in bom[m] : <<m, id>> \in Loaded(id)
  BY <1>3 DEF Loaded
<1> QED
  BY <1>5, <1>6, <1>7, <1>8

LEMMA LoadedKept ==
  ASSUME NEW m \in Codes, bom \in [Codes -> SUBSET PartIds], bom' \in [Codes -> SUBSET PartIds], bom'[m] = bom[m]
  PROVE  Loaded(m)' = Loaded(m)
<1>1. Loaded(m) = {<<m, id>> : id \in bom[m]}
  BY LoadedIs
<1>2. Loaded(m)' = {<<m, id>> : id \in bom'[m]}
  <2>1. Rows' = {x \in AllRows : x[2] \in bom'[x[1]]}
    BY DEF Rows, AllRows
  <2>2. \A x \in Rows' : x[1] \in Codes /\ x[2] \in PartIds /\ x = <<x[1], x[2]>> /\ x[2] \in bom'[x[1]]
    BY <2>1 DEF AllRows
  <2>3. \A id \in bom'[m] : <<m, id>> \in Rows'
    BY DEF Rows
  <2>4. m # AllModels /\ m \notin PartIds
    BY SubjectsAssumption
  <2>5. Loaded(m)' = {x \in Rows' : x[1] = m}
    BY <2>2, <2>4 DEF Loaded
  <2> QED
    BY <2>2, <2>3, <2>5
<1> QED
  BY <1>1, <1>2

(* What a request may turn into when nothing about the bill of m changes.  *)
Carries(x, y, m) ==
    /\ Replacing(x, m) => Replacing(y, m)
    /\ \A id \in bom[m] : Adding(x, m, id) => Adding(y, m, id)
    /\ m \in y.on => Loading(y, m)
    /\ \A id \in bom[m] : (y.at = "cache bom" /\ y.key = id) => <<m, id>> \in y.held
Refreshed(m) ==
    /\ cached'[m] \in {None, cached[m], Loaded(m)}
    /\ cached'[AllModels] \in {None, cached[AllModels]} \/ Of(m, cached'[AllModels]) = Loaded(m)
    /\ \A id \in bom[m] : id[1] \in calm \cap Skus => cached'[id] \in {None, cached[id]} \/ <<m, id>> \in cached'[id]

LEMMA ShownKept ==
  ASSUME NEW m \in Codes, bom \in [Codes -> SUBSET PartIds], bom' \in [Codes -> SUBSET PartIds], bom'[m] = bom[m],
         Shown(m), Refreshed(m), calm' \subseteq calm,
         \A q \in Requests : req'[q] = req[q] \/ Carries(req[q], req'[q], m)
  PROVE  Shown(m)'
<1>1. Loaded(m)' = Loaded(m)
  BY LoadedKept
<1>2. \A q \in Requests : Replacing(req[q], m) => Replacing(req[q], m)'
  BY DEF Carries, Replacing
<1>3. ASSUME NEW q \in Requests, m \in req'[q].on PROVE Loading(req[q], m)'
  <2>1. Loading(req'[q], m)
    BY <1>3 DEF Carries, Shown, CachedOf, On
  <2> QED
    BY <1>1, <2>1 DEF Loading
<1>4. CachedOf(m)'
  <2>1. \A q \in On(m)' : Loading(req[q], m)'
    BY <1>3 DEF On
  <2>2. CASE \E q \in Requests : Replacing(req[q], m)
    BY <1>2, <2>1, <2>2 DEF CachedOf
  <2>3. CASE ~\E q \in Requests : Replacing(req[q], m)
    <3>1. /\ cached[m] \in {None, Loaded(m)}
          /\ cached[AllModels] = None \/ Of(m, cached[AllModels]) = Loaded(m)
      BY <2>3 DEF Shown, CachedOf
    <3>2. cached'[m] \in {None, Loaded(m)'}
      BY <1>1, <3>1 DEF Refreshed
    <3>3. cached'[AllModels] = None \/ Of(m, cached'[AllModels]) = Loaded(m)'
      BY <1>1, <3>1 DEF Refreshed
    <3> QED
      BY <2>1, <3>2, <3>3 DEF CachedOf, Of
  <2> QED
    BY <2>2, <2>3
<1>5. ASSUME NEW s \in Skus, s \in calm, NEW id \in bom[m], id[1] = s
      PROVE  /\ cached'[id] # None => <<m, id>> \in cached'[id] \/ \E q \in Requests : Adding(req'[q], m, id)
             /\ \A q \in Requests : (req'[q].at = "cache bom" /\ req'[q].key = id) => <<m, id>> \in req'[q].held
  <2>1. /\ cached[id] # None => <<m, id>> \in cached[id] \/ \E q \in Requests : Adding(req[q], m, id)
        /\ \A q \in Requests : (req[q].at = "cache bom" /\ req[q].key = id) => <<m, id>> \in req[q].held
    BY <1>5 DEF Shown, UsesOf
  <2>2. \A q \in Requests : Adding(req[q], m, id) => Adding(req'[q], m, id)
    BY DEF Carries
  <2>3. cached'[id] \in {None, cached[id]} \/ <<m, id>> \in cached'[id]
    BY <1>5 DEF Refreshed
  <2> QED
    BY <2>1, <2>2, <2>3 DEF Carries
<1>6. \A s \in calm' \cap Skus : UsesOf(m, s)'
  BY <1>5 DEF UsesOf, Adding
<1> QED
  BY <1>4, <1>6 DEF Shown

(* Whoever replaces a bill has written, and is about the model.            *)
LEMMA ReplacingIs ==
  ASSUME NEW x, NEW there, x.kind \in Kinds, Serving(x, there), x.at \in Clearing
  PROVE  /\ x.wrote /\ x.kind \in Writers \cup {"delete assembly"}
         /\ x.key \in Codes /\ x.key \in x.on
<1>1. Off(x) = FALSE
  BY DEF Off
<1>2. x.wrote /\ x.kind \in Writers \cup {"delete assembly"}
  BY <1>1, BetweenIs
<1> QED
  BY <1>2 DEF Serving, About

LEMMA AddingIs == \A x, m, id : Adding(x, m, id) => Replacing(x, m)
  BY DEF Adding, Replacing, Clearing

LEMMA NotReading ==
  ASSUME NEW x, NEW there, x.kind \in Kinds, x.kind # "read bom", Serving(x, there)
  PROVE  x.at # "cache bom"
  BY KindAt DEF Serving

(* A step that neither touches the bill of m nor begins to cache it.       *)
LEMMA OthersShow ==
  ASSUME Types, Types', NEW m \in Codes, Shown(m), bom'[m] = bom[m], calm' \subseteq calm,
         \A z \in Keys : cached'[z] \in {None, cached[z]},
         \A q \in Requests : \/ req'[q] = req[q]
                             \/ ~Replacing(req[q], m) /\ req'[q].at # "cache bom"
  PROVE  Shown(m)'
<1>1. bom \in [Codes -> SUBSET PartIds] /\ bom' \in [Codes -> SUBSET PartIds]
  BY DEF Types, BillsOK
<1>2. \A q \in Requests : req'[q] = req[q] \/ Carries(req[q], req'[q], m)
  BY AddingIs DEF Carries, Loading
<1>3. Refreshed(m)
  BY <1>1 DEF Refreshed, Keys
<1> QED
  BY <1>1, <1>2, <1>3, ShownKept

LEMMA ReadStepShows ==
  ASSUME Types, Types', MeetInv, NEW r \in Requests, ReadStep(r), UNCHANGED bom,
         NEW m \in Codes, m \in calm, Shown(m)
  PROVE  Shown(m)'
<1> PICK x, k : x = req[r] /\ k = req[r].key
  OBVIOUS
<1>1. x \in RequestType /\ Serving(x, There) /\ DOMAIN req = Requests /\ BillsOK /\ BillsOK'
  BY DEF Types, RequestsOK
<1>2. x.kind = "read bom" /\ About(x)
  BY <1>1, ReadTurns DEF Serving
<1>3. k \in Keys /\ (k \in Codes => x.on = {k}) /\ (k = AllModels => x.on = Codes)
  BY <1>2 DEF About
<1> PICK y : y = req'[r]
  OBVIOUS
<1>4. x.at \notin Clearing
  BY DEF ReadStep, LoadBOM, CacheBOM, At, Clearing
<1>5. bom \in [Codes -> SUBSET PartIds] /\ bom' \in [Codes -> SUBSET PartIds] /\ bom'[m] = bom[m]
  BY <1>1 DEF BillsOK
<1>6. ASSUME Refreshed(m), calm' \subseteq calm, req' = [req EXCEPT ![r] = y], m \in y.on => Loading(y, m),
             \A id \in bom[m] : (y.at = "cache bom" /\ y.key = id) => <<m, id>> \in y.held
      PROVE  Shown(m)'
  <2>1. Carries(x, y, m)
    BY <1>4, <1>6, AddingIs DEF Carries, Replacing
  <2>2. \A q \in Requests : req'[q] = req[q] \/ Carries(req[q], req'[q], m)
    BY <1>1, <1>6, <2>1
  <2> QED
    BY <1>5, <1>6, <2>2, ShownKept
<1>7. CASE LoadBOM(r)
  <2>1. /\ req' = [req EXCEPT ![r] = y] /\ y = [x EXCEPT !.at = "cache bom", !.held = Loaded(k)]
        /\ UNCHANGED <<cached, calm>>
    BY <1>1, <1>7 DEF LoadBOM, Continue, mrp
  <2>2. y.key = k /\ y.held = Loaded(k)
    BY <1>1, <2>1 DEF RequestType
  <2>3. Refreshed(m)
    BY <2>1 DEF Refreshed
  <2>4. Loading(y, m) /\ \A id \in bom[m] : y.key = id => <<m, id>> \in y.held
    <3>1. Of(m, Loaded(AllModels)) = Loaded(m) /\ \A id \in bom[m] : <<m, id>> \in Loaded(id)
      BY <1>5, LoadedIs
    <3>2. y.key = m => y.held = Loaded(m)
      BY <2>2
    <3>3. y.key = AllModels => Of(m, y.held) = Loaded(m)
      BY <2>2, <3>1
    <3>4. \A id \in bom[m] : y.key = id => <<m, id>> \in y.held
      BY <2>2, <3>1
    <3> QED
      BY <3>2, <3>3, <3>4 DEF Loading
  <2> QED
    BY <1>6, <2>1, <2>3, <2>4
<1>8. CASE CacheBOM(r)
  <2>1. req' = [req EXCEPT ![r] = Idle] /\ x.at = "cache bom" /\ cached' = [cached EXCEPT ![k] = x.held] /\ UNCHANGED calm
    BY <1>1, <1>8 DEF CacheBOM, Answer, Continue, At
  <2>2. y = Idle
    BY <1>1, <2>1
  <2>3. m \in x.on => Loading(x, m)
    BY DEF Shown, CachedOf, On
  <2>9. cached'[k] = x.held
    <3>1. DOMAIN cached = Keys
      BY <1>1 DEF BillsOK
    <3> QED
      BY <1>3, <2>1, <3>1
  <2>4. cached'[m] \in {None, cached[m], Loaded(m)}
    <3>1. CASE k = m
      <4>1. x.held = Loaded(m)
        BY <1>3, <2>1, <2>3, <3>1 DEF Loading
      <4>2. cached'[m] = x.held
        BY <2>9, <3>1
      <4> QED
        BY <4>1, <4>2
    <3>2. CASE k # m
      BY <1>1, <2>1, <3>2 DEF BillsOK, Keys
    <3> QED
      BY <3>1, <3>2
  <2>5. cached'[AllModels] \in {None, cached[AllModels]} \/ Of(m, cached'[AllModels]) = Loaded(m)
    <3>1. CASE k = AllModels
      <4>1. Of(m, x.held) = Loaded(m)
        BY <1>3, <2>1, <2>3, <3>1 DEF Loading
      <4>2. cached'[AllModels] = x.held
        BY <2>9, <3>1
      <4> QED
        BY <4>1, <4>2
    <3>2. CASE k # AllModels
      BY <1>1, <2>1, <3>2 DEF BillsOK, Keys
    <3> QED
      BY <3>1, <3>2
  <2>6. ASSUME NEW id \in bom[m], id[1] \in calm \cap Skus
        PROVE  cached'[id] \in {None, cached[id]} \/ <<m, id>> \in cached'[id]
    <3>1. id \in Keys
      BY <1>5, <2>6 DEF Keys
    <3>2. CASE k = id
      <4>1. <<m, id>> \in x.held
        BY <2>1, <2>6, <3>2 DEF Shown, UsesOf
      <4>2. cached'[id] = x.held
        BY <2>9, <3>2
      <4> QED
        BY <4>1, <4>2
    <3>3. CASE k # id
      BY <1>1, <2>1, <3>1, <3>3 DEF BillsOK
    <3> QED
      BY <3>2, <3>3
  <2>7. Refreshed(m)
    BY <2>4, <2>5, <2>6 DEF Refreshed
  <2> QED
    BY <1>6, <2>1, <2>2, <2>7, IdleIs
<1> QED
  BY <1>7, <1>8 DEF ReadStep

LEMMA BillStepShows ==
  ASSUME Types, Types', MeetInv, NEW r \in Requests, BillStep(r),
         NEW m \in Codes, m \in calm, m \in calm', calm' \subseteq calm, Shown(m)
  PROVE  Shown(m)'
<1> PICK x, k : x = req[r] /\ k = req[r].key
  OBVIOUS
<1>1. x \in RequestType /\ Serving(x, There) /\ DOMAIN req = Requests /\ BillsOK /\ BillsOK'
  BY DEF Types, RequestsOK
<1>2. x.kind \in Writers \cup {"delete assembly"} /\ x.kind \in Kinds
  BY <1>1, BillTurns DEF RequestType
<1>3. k \in Codes /\ k \in x.on /\ (x.kind \in Writers => x.on = {k} \cup Components(x))
  BY <1>1, <1>2 DEF Serving, About
<1> PICK y : y = req'[r]
  OBVIOUS
<1>4. req' = [req EXCEPT ![r] = y] /\ y \in RequestType /\ (y = Idle \/ Same(x, y)) /\ Serving(y, There')
  <2>1. \E z : Turn(r, z)
    BY BillTurns
  <2> QED
    BY <1>1, <2>1 DEF Turn, Types, RequestsOK
<1>5. y.at # "cache bom"
  <2>1. y.kind \in Kinds /\ y.kind # "read bom"
    BY <1>2, <1>4, IdleIs DEF Same, RequestType, Writers
  <2> QED
    BY <1>4, <2>1, NotReading
<1>6. \A q \in Requests : q # r => req'[q] = req[q]
  BY <1>1, <1>4
<1>7. ~Reading(r)
  BY <1>2 DEF Reading, Reads, Writers
<1>8. ASSUME NEW u \in calm, u \in x.on, NEW q \in Requests, u \in req[q].on, req[q].at = "cache bom" PROVE FALSE
  <2>1. Reading(q)
    <3>1. req[q].kind \in Kinds /\ Serving(req[q], There)
      BY DEF Types, RequestsOK, RequestType
    <3>2. req[q].kind = "read bom"
      BY <1>8, <3>1, NotReading
    <3> QED
      BY <3>2 DEF Reading, Reads
  <2> QED
    BY <1>7, <1>8, <2>1, CalmMeet
<1>9. ASSUME bom'[m] = bom[m], \A z \in Keys : cached'[z] \in {None, cached[z]}, ~Replacing(x, m) PROVE Shown(m)'
  BY <1>5, <1>6, <1>9, OthersShow
<1>10. k = m /\ x.at \in Clearing => ~Refuse(r) /\ \A next : ~Ignored(r, next)
  <2>1. x.at \in Clearing => x.wrote
    BY <1>1, <1>2, ReplacingIs
  <2> QED
    BY <1>3, <2>1 DEF Refuse, Ignored, Spoil, HalfDone
<1>11. ASSUME k = m, Replacing(y, m) PROVE CachedOf(m)'
  <2>1. \E q \in Requests : Replacing(req'[q], m)
    BY <1>11
  <2>2. \A q \in Requests : m \in req'[q].on => req'[q].at # "cache bom"
    BY <1>3, <1>5, <1>6, <1>8, <1>11
  <2>3. \A q \in On(m)' : Loading(req[q], m)'
    BY <2>2 DEF On, Loading
  <2>4. \E q \in Requests : Replacing(req[q], m)'
    BY <2>1 DEF Replacing
  <2> QED
    BY <2>3, <2>4 DEF CachedOf
<1>12. CASE HardDeleteBOMEntriesByModelCode(r) \/ DeleteBOMEntriesByModelCode(r)
  <2>1. /\ bom' = [bom EXCEPT ![k] = {}] /\ UNCHANGED cached /\ x.at \notin Clearing
        /\ y = [x EXCEPT !.at = "insert bom", !.wrote = TRUE] \/ y = [x EXCEPT !.at = "drop bom", !.wrote = TRUE]
    BY <1>1, <1>12 DEF HardDeleteBOMEntriesByModelCode, DeleteBOMEntriesByModelCode, Wrote, Continue, At, Clearing
  <2>2. CASE k # m
    BY <1>1, <1>9, <2>1, <2>2 DEF Replacing, BillsOK
  <2>3. CASE k = m
    <3>1. bom'[m] = {}
      BY <1>1, <2>1, <2>3 DEF BillsOK
    <3>2. Replacing(y, m)
      <4>1. y.at \in Clearing /\ y.key = x.key
        BY <1>1, <2>1 DEF RequestType, Clearing
      <4> QED
        BY <2>3, <4>1 DEF Replacing
    <3> QED
      BY <1>11, <2>3, <3>1, <3>2 DEF Shown, UsesOf
  <2> QED
    BY <2>2, <2>3
<1>13. CASE CreateBOMEntries(r)
  <2> PICK ids : ids = {req[r].held[i] : i \in DOMAIN req[r].held}
    OBVIOUS
  <2>1. x.at = "insert bom" /\ UNCHANGED cached
    BY <1>13 DEF CreateBOMEntries, At
  <2>2. \/ Refuse(r) /\ UNCHANGED bom
        \/ bom' = [bom EXCEPT ![k] = @ \cup ids] /\ Continue(r, [req[r] EXCEPT !.at = "drop bom", !.held = ids])
    BY <1>13, Zenon DEF CreateBOMEntries
  <2>3. CASE k # m
    <3>1. bom'[m] = bom[m]
      BY <1>1, <2>2, <2>3 DEF BillsOK
    <3> QED
      BY <1>9, <2>1, <2>3, <3>1 DEF Replacing
  <2>4. CASE k = m
    <3>1. bom' = [bom EXCEPT ![k] = @ \cup ids] /\ y = [x EXCEPT !.at = "drop bom", !.held = ids]
      <4>1. ~Refuse(r)
        BY <1>10, <2>1, <2>4 DEF Clearing
      <4> QED
        BY <1>1, <2>2, <4>1 DEF Continue
    <3>2. y.at = "drop bom" /\ y.held = ids /\ y.key = m /\ y.kind = x.kind
      BY <1>1, <2>4, <3>1 DEF RequestType
    <3>3. x.kind \in Writers /\ bom'[m] = bom[m] \cup ids
      BY <1>1, <1>2, <2>1, <2>4, <3>1, KindAt DEF Serving, BillsOK
    <3>4. Replacing(y, m)
      BY <3>2 DEF Replacing, Clearing
    <3>5. \A id \in ids : Adding(y, m, id) /\ id[1] \in x.on
      <4>1. \A i \in DOMAIN x.held : x.held[i][1] = x.arg[i] /\ i \in DOMAIN x.arg
        <5>1. Resolved(x) /\ x.arg \in Seq(Skus)
          BY <1>1, <2>1, <3>3, RecipesAssumption DEF Serving, Holds, About
        <5>2. x.held \in Seq(PartIds) /\ Len(x.held) <= Len(x.arg) /\ DOMAIN x.held = 1..Len(x.held)
              /\ DOMAIN x.arg = 1..Len(x.arg) /\ Len(x.arg) \in Nat /\ Len(x.held) \in Nat
          BY <5>1 DEF Resolved
        <5> QED
          BY <5>1, <5>2 DEF Resolved
      <4>2. ASSUME NEW id \in ids PROVE id[1] \in x.on
        <5>1. PICK i \in DOMAIN x.held : id = x.held[i]
          OBVIOUS
        <5>2. id[1] \in Components(x)
          BY <4>1, <5>1 DEF Components
        <5> QED
          BY <1>3, <3>3, <5>2
      <4> QED
        BY <3>2, <3>3, <4>2 DEF Adding
    <3>6. ASSUME NEW s \in Skus, s \in calm, NEW id \in bom'[m], id[1] = s
          PROVE  /\ cached'[id] # None => <<m, id>> \in cached'[id] \/ \E q \in Requests : Adding(req'[q], m, id)
                 /\ \A q \in Requests : (req'[q].at = "cache bom" /\ req'[q].key = id) => <<m, id>> \in req'[q].held
      <4>1. CASE id \in ids
        <5>1. Adding(req'[r], m, id) /\ id[1] \in x.on
          BY <3>5, <4>1
        <5>2. ASSUME NEW q \in Requests, req'[q].at = "cache bom", req'[q].key = id PROVE FALSE
          <6>1. req'[q] = req[q] /\ q # r
            BY <1>5, <1>6, <5>2
          <6>2. req[q].kind \in Kinds /\ Serving(req[q], There)
            BY DEF Types, RequestsOK, RequestType
          <6>3. req[q].kind = "read bom"
            BY <5>2, <6>1, <6>2, NotReading
          <6>4. id \in PartIds
            BY <1>1 DEF BillsOK
          <6>5. s \in req[q].on
            BY <3>6, <5>2, <6>1, <6>2, <6>3, <6>4 DEF Serving, About
          <6> QED
            BY <1>8, <3>6, <5>1, <5>2, <6>1, <6>5
        <5> QED
          BY <5>1, <5>2
      <4>2. CASE id \in bom[m]
        <5>1. /\ cached[id] # None => <<m, id>> \in cached[id] \/ \E q \in Requests : Adding(req[q], m, id)
              /\ \A q \in Requests : (req[q].at = "cache bom" /\ req[q].key = id) => <<m, id>> \in req[q].held
          BY <3>6, <4>2 DEF Shown, UsesOf
        <5>2. \A q \in Requests : Adding(req[q], m, id) => Adding(req'[q], m, id)
          <6>1. ~Adding(x, m, id)
            BY <2>1 DEF Adding
          <6> QED
            BY <1>6, <6>1
        <5> QED
          BY <1>5, <1>6, <2>1, <5>1, <5>2
      <4> QED
        BY <3>3, <4>1, <4>2
    <3>7. \A s \in calm' \cap Skus : UsesOf(m, s)'
      BY <3>6 DEF UsesOf, Adding
    <3> QED
      BY <1>11, <2>4, <3>4, <3>7 DEF Shown
  <2> QED
    BY <2>3, <2>4
<1>14. CASE InvalidateBOM(r)
  <2> PICK ids : ids = IF x.kind = "delete assembly" THEN {} ELSE x.held
    OBVIOUS
  <2>1. x.at = "drop bom" /\ UNCHANGED bom
    BY <1>14 DEF InvalidateBOM, At
  <2>2. \/ UNCHANGED cached
        \/ cached' = [z \in Keys |-> IF z \in DroppedKeys(k, ids) THEN None ELSE cached[z]]
    BY <1>14 DEF InvalidateBOM
  <2>3. \A z \in Keys : cached'[z] \in {None, cached[z]}
    BY <2>2
  <2>4. CASE k # m
    BY <1>9, <2>1, <2>3, <2>4 DEF Replacing
  <2>5. CASE k = m
    <3>1. cached' = [z \in Keys |-> IF z \in DroppedKeys(k, ids) THEN None ELSE cached[z]]
      <4>1. \A next : ~Ignored(r, next)
        BY <1>10, <2>1, <2>5 DEF Clearing
      <4> QED
        BY <1>14, <4>1 DEF InvalidateBOM
    <3>2. cached'[m] = None /\ cached'[AllModels] = None
      BY <2>5, <3>1 DEF DroppedKeys, Keys
    <3>3. Loaded(m)' = Loaded(m)
      BY <1>1, <2>1, LoadedKept DEF BillsOK
    <3>4. \A q \in Requests : m \in req'[q].on => req'[q].at # "cache bom"
      BY <1>3, <1>5, <1>6, <1>8, <2>5
    <3>5. CachedOf(m)'
      BY <3>2, <3>4 DEF CachedOf, On, Loading
    <3>6. ASSUME NEW s \in Skus, s \in calm, NEW id \in bom[m], id[1] = s
          PROVE  /\ cached'[id] # None => <<m, id>> \in cached'[id] \/ \E q \in Requests : Adding(req'[q], m, id)
                 /\ \A q \in Requests : (req'[q].at = "cache bom" /\ req'[q].key = id) => <<m, id>> \in req'[q].held
      <4>1. /\ cached[id] # None => <<m, id>> \in cached[id] \/ \E q \in Requests : Adding(req[q], m, id)
            /\ \A q \in Requests : (req[q].at = "cache bom" /\ req[q].key = id) => <<m, id>> \in req[q].held
        BY <3>6 DEF Shown, UsesOf
      <4>2. id \in Keys
        BY <1>1 DEF BillsOK, Keys
      <4>3. Adding(x, m, id) => cached'[id] = None
        <5>1. Adding(x, m, id) => id \in ids
          BY DEF Adding, Writers
        <5> QED
          BY <3>1, <4>2, <5>1 DEF DroppedKeys
      <4>4. \A q \in Requests : Adding(req[q], m, id) => Adding(req'[q], m, id) \/ cached'[id] = None
        BY <1>6, <4>3
      <4> QED
        BY <1>5, <1>6, <2>3, <4>1, <4>2, <4>4
    <3>7. \A s \in calm' \cap Skus : UsesOf(m, s)'
      BY <2>1, <3>6 DEF UsesOf, Adding
    <3> QED
      BY <3>5, <3>7 DEF Shown
  <2> QED
    BY <2>4, <2>5
<1>15. CASE ResolveComponentPartID(r) \/ CreateProductModel(r) \/ DeleteProductModel(r)
  <2>1. x.at \notin Clearing /\ UNCHANGED <<bom, cached>>
    BY <1>15 DEF ResolveComponentPartID, CreateProductModel, DeleteProductModel, At, Clearing, mrp
  <2> QED
    BY <1>9, <2>1 DEF Replacing
<1> QED
  BY <1>12, <1>13, <1>14, <1>15 DEF BillStep

LEMMA CachedInvStep ==
  ASSUME Types, Types', MeetInv, CachedInv, [Next]_vars
  PROVE  CachedInv'
<1> SUFFICES ASSUME NEW m \in Codes, m \in calm' PROVE Shown(m)'
  BY DEF CachedInv
<1>1. m \in calm /\ calm' \subseteq calm /\ Shown(m) /\ DOMAIN req = Requests
  BY NotBefore DEF CachedInv, Types, RequestsOK
<1>2. ASSUME \A q \in Requests : req'[q] = req[q] \/ (~Replacing(req[q], m) /\ req'[q].at # "cache bom"),
             UNCHANGED <<bom, cached>>
      PROVE  Shown(m)'
  BY <1>1, <1>2, OthersShow
<1>3. ASSUME NEW r \in Requests, NEW y, Opening(r, y), Stays PROVE Shown(m)'
  <2>1. req' = [req EXCEPT ![r] = y] /\ req[r].at = "idle" /\ Fresh(y)
    BY <1>3 DEF Opening
  <2>2. y.at # "cache bom" /\ ~Replacing(req[r], m)
    BY <2>1 DEF Fresh, FirstAts, Replacing, Clearing
  <2>3. \A q \in Requests : req'[q] = req[q] \/ (~Replacing(req[q], m) /\ req'[q].at # "cache bom")
    BY <1>1, <2>1, <2>2
  <2>4. UNCHANGED <<bom, cached>>
    BY <1>3 DEF Stays, mrp
  <2> QED
    BY <1>2, <2>3, <2>4
<1>4. ASSUME (\E r \in Requests : StepFails(r) /\ Stays) \/ RestartSCM PROVE Shown(m)'
  <2>1. UNCHANGED <<bom, cached>>
    BY <1>4 DEF Stays, RestartSCM, mrp
  <2>2. ASSUME NEW q \in Requests, req'[q] # req[q] PROVE ~Replacing(req[q], m) /\ req'[q].at # "cache bom"
    <3>1. req'[q] = Idle /\ (m \in req[q].on => ~req[q].wrote)
      BY <1>4, <2>2, Failed
    <3>2. req[q].kind \in Kinds /\ Serving(req[q], There)
      BY DEF Types, RequestsOK, RequestType
    <3> QED
      BY <3>1, <3>2, ReplacingIs, IdleIs DEF Replacing
  <2> QED
    BY <1>2, <2>1, <2>2
<1>5. ASSUME NEW r \in Requests, BillStep(r) PROVE Shown(m)'
  BY <1>1, <1>5, BillStepShows
<1>6. ASSUME NEW r \in Requests, ReadStep(r), UNCHANGED <<scm, directory, bom, erased, last>> PROVE Shown(m)'
  BY <1>1, <1>6, ReadStepShows
<1>7. ASSUME NEW r \in Requests,
             \/ PartStep(r) /\ UNCHANGED <<models, directory, mrp>>
             \/ ProductStep(r) /\ UNCHANGED <<scm, vendorVars, mrp>>
             \/ VendorStep(r) /\ UNCHANGED <<scm, productVars, mrp>>
             \/ ModelStep(r) /\ UNCHANGED <<parts, lastId, stocks, directory, mrp>>
      PROVE  Shown(m)'
  <2>1. UNCHANGED <<bom, cached>>
    BY <1>7 DEF mrp
  <2>2. PICK y : Turn(r, y)
    BY <1>7, PartTurns, ProductTurns, VendorTurns, ModelTurns
  <2>3. req[r].kind # "read bom"
    <3>1. req[r].kind \in PartKinds \cup ProductKinds \cup VendorKinds \cup Writers \cup {"delete assembly"}
      BY <1>7, PartTurns, ProductTurns, VendorTurns, ModelTurns
    <3> QED
      BY <3>1 DEF PartKinds, ProductKinds, VendorKinds, Writers
  <2>4. req[r].at \notin Clearing
    <3>1. CASE ModelStep(r)
      BY <3>1 DEF ModelStep, FindModel, SaveModel, MarkModel, At, Clearing
    <3>2. CASE PartStep(r) \/ ProductStep(r) \/ VendorStep(r)
      <4>1. req[r].kind \in PartKinds \cup ProductKinds \cup VendorKinds
        BY <3>2, PartTurns, ProductTurns, VendorTurns
      <4>2. req[r].kind \in Kinds /\ Serving(req[r], There)
        BY DEF Types, RequestsOK, RequestType
      <4>3. req[r].kind \notin Writers \cup {"delete assembly"}
        BY <4>1 DEF PartKinds, ProductKinds, VendorKinds, Writers
      <4> QED
        BY <4>2, <4>3, ReplacingIs
    <3> QED
      BY <1>7, <3>1, <3>2
  <2>5. req'[r].at # "cache bom"
    <3>1. req'[r].kind \in Kinds /\ Serving(req'[r], There')
      BY DEF Types, RequestsOK, RequestType
    <3>2. req'[r].kind # "read bom"
      BY <1>1, <2>2, <2>3, IdleIs DEF Turn, Same
    <3> QED
      BY <3>1, <3>2, NotReading
  <2>6. \A q \in Requests : req'[q] = req[q] \/ (~Replacing(req[q], m) /\ req'[q].at # "cache bom")
    BY <1>1, <2>2, <2>4, <2>5 DEF Turn, Replacing
  <2> QED
    BY <1>2, <2>1, <2>6
<1>8. ASSUME NEW k \in Keys, ExpireBOM(k) PROVE Shown(m)'
  <2>1. UNCHANGED <<req, bom>> /\ cached' = [cached EXCEPT ![k] = None]
    BY <1>8 DEF ExpireBOM, Aside
  <2>2. \A z \in Keys : cached'[z] \in {None, cached[z]}
    BY <2>1 DEF Types, BillsOK
  <2> QED
    BY <1>1, <2>1, <2>2, OthersShow
<1>9. ASSUME (VendorMoves /\ UNCHANGED <<scm, productVars, mrp>>) \/ UNCHANGED vars PROVE Shown(m)'
  <2>1. UNCHANGED <<req, bom, cached>>
    BY <1>9 DEF VendorMoves, CreateSupplier, ReceiptMoves, Aside, mrp, vars
  <2> QED
    BY <1>2, <2>1, SMTT(30)
<1> QED
  BY <1>3, <1>4, <1>5, <1>6, <1>7, <1>8, <1>9, StepCases, Zenon

LEMMA AlwaysCached == Spec => []CachedInv
<1>1. ASSUME Init PROVE CachedInv
  <2>1. \A r \in Requests : req[r] = Idle
    BY <1>1 DEF Init, RequestsInit
  <2>2. BillsOK
    BY <1>1, InitTypes DEF Types
  <2>3. PICK warm \in BOOLEAN : cached = [k \in Keys |-> IF warm THEN Loaded(k) ELSE None]
    BY <1>1, InitIs
  <2>4. ASSUME NEW m \in Codes PROVE CachedOf(m)
    <3>1. cached[m] \in {None, Loaded(m)} /\ (cached[AllModels] = None \/ cached[AllModels] = Loaded(AllModels))
      BY <2>3 DEF Keys
    <3>2. Of(m, Loaded(AllModels)) = Loaded(m)
      BY <2>2, LoadedIs DEF BillsOK
    <3>3. On(m) = {}
      BY <2>1, IdleIs DEF On
    <3> QED
      BY <3>1, <3>2, <3>3 DEF CachedOf
  <2>5. ASSUME NEW m \in Codes, NEW s \in Skus PROVE UsesOf(m, s)
    <3>1. \A id \in bom[m] : id \in Keys /\ <<m, id>> \in Loaded(id)
      BY <2>2, LoadedIs DEF BillsOK, Keys
    <3>2. \A id \in bom[m] : cached[id] # None => <<m, id>> \in cached[id]
      BY <2>3, <3>1
    <3>3. \A r \in Requests : req[r].at # "cache bom"
      BY <2>1, IdleIs
    <3> QED
      BY <3>2, <3>3 DEF UsesOf
  <2> QED
    BY <2>4, <2>5 DEF CachedInv, Shown
<1>2. Types /\ Types' /\ MeetInv /\ CachedInv /\ [Next]_vars => CachedInv'
  BY CachedInvStep
<1> QED
  BY <1>1, <1>2, AlwaysTypes, AlwaysWhole, PTL DEF Spec

(* A bill is replaced, its new parts' answers are dropped after it, and    *)
(* readers fill the cache in between: what is cached for a model, and for  *)
(* all of them, is its bill, and an answer where a part is used misses no  *)
(* model, as long as no reader of the model or the part met a change, no   *)
(* answer was left to be dropped, and nobody is at work on them.           *)
THEOREM BillsShownAreCurrent == Spec => []CachedBillCurrent
<1>1. ASSUME Types, CachedInv PROVE CachedBillCurrent
  <2>1. SUFFICES ASSUME NEW m \in calm \cap Codes, Quiet(m)
                 PROVE  /\ cached[m] \in {None, Loaded(m)}
                        /\ cached[AllModels] # None => Of(m, cached[AllModels]) = Loaded(m)
                        /\ \A s \in calm \cap Skus : Quiet(s) =>
                             \A x \in parts[s] : (x.id \in bom[m] /\ cached[x.id] # None) => <<m, x.id>> \in cached[x.id]
    BY DEF CachedBillCurrent, Of
  <2>2. \A r \in Requests : ~Replacing(req[r], m)
    <3>1. ASSUME NEW r \in Requests, Replacing(req[r], m) PROVE FALSE
      <4>1. req[r].kind \in Kinds /\ Serving(req[r], There)
        BY <1>1 DEF Types, RequestsOK, RequestType
      <4> QED
        BY <2>1, <3>1, <4>1, ReplacingIs DEF Replacing, Quiet
    <3> QED
      BY <3>1
  <2>3. CachedOf(m) /\ \A s \in calm \cap Skus : UsesOf(m, s)
    BY <1>1, <2>1 DEF CachedInv, Shown
  <2>4. ASSUME NEW s \in calm \cap Skus, NEW x \in parts[s], x.id \in bom[m], cached[x.id] # None
        PROVE  <<m, x.id>> \in cached[x.id]
    <3>1. x.id[1] = s
      <4>1. x.id \in {s} \X (1..lastId[s])
        BY <1>1 DEF Types, PartsOK
      <4> QED
        BY <4>1
    <3> QED
      BY <2>2, <2>3, <2>4, <3>1, AddingIs DEF UsesOf
  <2> QED
    BY <2>2, <2>3, <2>4 DEF CachedOf
<1> QED
  BY <1>1, AlwaysTypes, AlwaysCached, PTL

(* What the three caches of the catalogue show is what the databases hold. *)
THEOREM CachesAreCurrent == Spec => []CachesCurrent
<1>1. CachedProductCurrent /\ OptimalIsCurrent /\ CachedBillCurrent => CachesCurrent
  BY DEF CachesCurrent
<1> QED
  BY <1>1, ProductsAreCurrent, OptimalsAreCurrent, BillsShownAreCurrent, PTL
=============================================================================
