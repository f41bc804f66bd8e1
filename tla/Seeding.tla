------------------------------- MODULE Seeding -------------------------------
(***************************************************************************)
(* How the databases of the services come to be: the migration tools, the  *)
(* seeders, and the manifest by which the seeders of MRP and Sales learn   *)
(* the identifiers that the one of SCM gave out.                           *)
(*                                                                         *)
(* A database is a set of rows [table, key, of]; of is what a property     *)
(* tells apart in the row.  A seeder is a list of groups, a group a list   *)
(* of statements; each statement is one step, and the process may die      *)
(* between two of them.  One tool at a time works on a database.  Prices,  *)
(* dates and texts are left out.                                           *)
(***************************************************************************)
EXTENDS Naturals, FiniteSets, SequencesExt

CONSTANTS
    Parts,        \* catalogue entries of parts.json, in order
    SkuOf,        \* the part number of an entry: several makers may share one
    Models,       \* codes of the product models, in order
    Installed,    \* the parts of a model, in order
    Suppliers,    \* how many suppliers are seeded
    Accounts,     \* e-mail addresses of the seeded users
    MaxTools,     \* bound: tools at work at a time
    MaxStarts,    \* bound: commands
    MaxFaults,    \* bound: refused statements and killed processes
    MaxChanges,   \* bound: changes an administrator makes to users
    None

ASSUME SeedingAssumption ==
    /\ Parts \in Seq(Range(Parts)) /\ Models \in Seq(Range(Models))
    /\ \A m \in Range(Models) : Installed[m] \in Seq(Range(Parts))
    /\ Suppliers \in Nat \ {0} /\ IsFiniteSet(Accounts)
    /\ MaxStarts \in Nat /\ MaxFaults \in Nat /\ MaxChanges \in Nat

Services == {"scm", "mrp", "sales", "system"}

VARIABLES
    db,           \* the rows of each database
    schema,       \* none, dirty (a migration was begun) or ready
    manifest,     \* the file the seeder of SCM writes, or None
    contract,     \* the copies of it that MRP and Sales read
    run,          \* the tool at work on each database
    lost,         \* the last seeding of SCM lost a row (history)
    starts, faults, changes
vars == <<db, schema, manifest, contract, run, lost, starts, faults, changes>>

\* An identifier computed from what it names: the same at every seeding.
RandomUUID(x, seeding) == [of |-> x, seeding |-> seeding]
StableUUID(x, seeding) == [of |-> x, seeding |-> 0]
Id(x) == StableUUID(x, starts)

Row(table, key, of) == [table |-> table, key |-> key, of |-> of]
Rows(d, tables) == {r \in d : r.table \in tables}
Same(r, q) == r.table = q.table /\ r.key = q.key

(* Statements: FirstOrCreate keeps the row it finds, Assign overwrites it,  *)
(* Create inserts.  A deleted user is not found but keeps its address.      *)
Ensure(row) == [op |-> "ensure", rows |-> {row}]
Assign(row) == [op |-> "assign", rows |-> {row}]
Create(rows) == [op |-> "create", rows |-> rows]
Added(d, s) == d \cup s.rows
Written(d, s) ==
    LET found == {r \in d : \E q \in s.rows : Same(r, q)} IN
    CASE s.op = "ensure" /\ found # {} -> d
      [] s.op = "assign" -> (d \ found) \cup s.rows
      [] OTHER -> d \cup s.rows
Conflicts(d, s) ==
    \E r \in d, q \in s.rows :
        Same(r, q) /\ (s.op = "create" \/ r.of = "deleted")

(* A group is left out when a table of its guard has rows.                  *)
Group(guard, statements) == [guard |-> guard, list |-> statements]
Each(seq, Statement(_)) == [i \in 1..Len(seq) |-> Statement(seq[i])]
Concat(seq, List(_)) == FlattenSeq([i \in 1..Len(seq) |-> List(seq[i])])
InOrder(seq, S) == Concat(seq, LAMBDA x : IF x \in S THEN <<x>> ELSE <<>>)
Numbers(n) == [i \in 1..n |-> i]

(***************************************************************************)
(* The seeder of SCM.                                                      *)
(***************************************************************************)
\* Lookup tables and the default API key.
LookupGroup == Group({}, <<Ensure(Row("states", "all", None)), Ensure(Row("api_keys", "default", None))>>)

SupplierGroup ==
    Group({"suppliers"}, Each(Numbers(Suppliers), LAMBDA i : Assign(Row("suppliers", i, None))))

CatalogGroup ==
    Group({"part_catalogs"}, Each(Parts, LAMBDA p : Assign(Row("part_catalogs", Id(p), p))))

\* A line of a bill is written for the parts the catalogue step has in memory.
ModelGroup ==
    Group({"product_models"},
          Concat(Models, LAMBDA m :
              <<Assign(Row("product_models", m, None))>>
              \o Each(Installed[m], LAMBDA p : Assign(Row("parts_by_model", <<m, Id(p)>>, p)))))

\* The makers of one number share its rows.  Whose part they show depends on
\* the order of a map and is left out.
StockGroup ==
    Group({"component_stocks"},
          Concat(Parts, LAMBDA p :
              <<Assign(Row("component_stocks", SkuOf[p], None)),
                Ensure(Row("inventory_ledger", SkuOf[p], None))>>))

PartNumbers == {SkuOf[p] : p \in Range(Parts)}
Seller(i) == 1 + (i % Suppliers)
MappingList ==
    LET skus == SetToSeq(PartNumbers) IN
    Concat(Numbers(Len(skus)), LAMBDA i :
        <<Ensure(Row("sku_mappings", <<Seller(i - 1), skus[i]>>, None))>>
        \o IF Seller(i) = Seller(i - 1) THEN <<>>
           ELSE <<Ensure(Row("sku_mappings", <<Seller(i), skus[i]>>, None))>>)

\* The documents of the i-th bundle, each standing for its lines too: a draft
\* has no shipment, a shipment under way no receipt yet.
Documents(i) ==
    CASE i = 1 -> <<"purchase_orders">>
      [] i \in {2, 3} -> <<"purchase_orders", "shipments">>
      [] OTHER -> <<"purchase_orders", "shipments", "goods_receipts">>
Bundle(i) == Each(Documents(i), LAMBDA t : Ensure(Row(t, i, None)))
\* A bundle is of what its supplier sells: none if that is nothing.
Sells(i) == \E n \in 1..Cardinality(PartNumbers) : i \in {Seller(n - 1), Seller(n)}
ProcurementGroup ==
    Group({"purchase_orders"},
          MappingList
          \o Concat(Numbers(IF Suppliers > 5 THEN 5 ELSE Suppliers),
                    LAMBDA i : IF Sells(i) THEN Bundle(i) ELSE <<>>))

\* Two products of each model, with a part for each line its bill has by now.
Customer(m, i) == Id(<<"customer", m, i>>)
Customers == Concat(Models, LAMBDA m : Each(Numbers(2), LAMBDA i : Customer(m, i)))
BillLines(m, d) == SetToSeq({r.key : r \in {l \in Rows(d, {"parts_by_model"}) : l.key[1] = m}})
ProductGroup(d) ==
    Group({"products"},
          Concat(Models, LAMBDA m : Concat(Numbers(2), LAMBDA i :
              <<Assign(Row("products", <<m, i>>, Customer(m, i)))>>
              \o Each(BillLines(m, d), LAMBDA line : Assign(Row("parts", <<m, i, line>>, line[2]))))))

ScmSeeder(d) ==
    <<LookupGroup, SupplierGroup, CatalogGroup, ModelGroup, StockGroup,
      ProcurementGroup, ProductGroup(d)>>

\* The manifest is read back from the tables; a line of a bill whose part is
\* not in the catalogue is left out.
InCatalog(line, d) == \E r \in Rows(d, {"part_catalogs"}) : r.key = line.key[2]
BuildSeedManifest(d) ==
    [parts |-> {r.key : r \in Rows(d, {"part_catalogs"})},
     models |-> {r.key : r \in Rows(d, {"product_models"})},
     lines |-> {r.key : r \in {l \in Rows(d, {"parts_by_model"}) : InCatalog(l, d)}},
     customers |-> InOrder(Customers, {r.of : r \in Rows(d, {"products"})})]

(***************************************************************************)
(* The seeders of MRP and Sales, from their copy c of the manifest.        *)
(***************************************************************************)
\* Orders for the first three models: one clear to build, one with a partial
\* shortage of two parts at most, one short of every part.
AtMost(n, seq) == [i \in 1..(IF Len(seq) < n THEN Len(seq) ELSE n) |-> seq[i]]
Ordered(c) == AtMost(3, InOrder(Models, c.models))
ShortParts(c, i) ==
    LET bill == SetToSeq({l \in c.lines : l[1] = Ordered(c)[i]}) IN
    CASE i = 1 -> <<>>
      [] i = 2 -> AtMost(2, bill)
      [] OTHER -> bill
MrpSeeder(c) ==
    <<Group({"bom_entries", "production_orders"},
            <<Create({Row("bom_entries", l, None) : l \in c.lines})>>),
      Group({}, Each(Ordered(c), LAMBDA m : Create({Row("production_orders", Id(m), m)}))),
      Group({}, Concat(Numbers(Len(Ordered(c))), LAMBDA i :
          Each(ShortParts(c, i), LAMBDA l :
              Create({Row("shortage_logs", <<Id(l[1]), l[2]>>, None)}))))>>

\* A client for each customer, one without a customer if there is none.
Clients(c) ==
    IF c.customers = <<>> THEN <<RandomUUID("client", run["sales"].start)>> ELSE c.customers
\* The first client orders twice, the next one once, and so on.
OrdersOf(c) ==
    IF c.parts = {} THEN <<>>
    ELSE Concat(Numbers(Len(Clients(c))), LAMBDA i :
        <<<<i, 0>>>> \o IF i % 2 = 1 THEN <<<<i, 1>>>> ELSE <<>>)
OrderItems(i, j) == IF (i - 1 + j) % 3 = 0 THEN 3 ELSE 2
\* The number of orders that the service then counts on the client is left out.
ClientGroup(c) ==
    Group({"clients", "sales_orders"}, Each(Clients(c), LAMBDA k : Ensure(Row("clients", k, None))))
SalesSeeder(c) ==
    <<ClientGroup(c),
      Group({}, Concat(OrdersOf(c), LAMBDA o :
          <<Create({Row("sales_orders", o, Clients(c)[o[1]])})>>
          \o Each(Numbers(OrderItems(o[1], o[2])), LAMBDA k :
                 Create({Row("sales_order_items", <<o, k>>, None)}))))>>

(***************************************************************************)
(* The seeder of System; one role, action type and audit entry stand for   *)
(* those it writes.                                                        *)
(***************************************************************************)
UserOverwrite(u) == Assign(Row("users", u, "seeded"))
UserStatement(u) == Ensure(Row("users", u, "seeded"))
SystemSeeder(d) ==
    LET found == {r.key : r \in {q \in Rows(d, {"users"}) : q.of # "deleted"}} IN
    <<Group({}, <<Ensure(Row("roles", "all", None)), Ensure(Row("action_type_entries", "all", None))>>),
      Group({}, Each(SetToSeq(Accounts), LAMBDA u : UserStatement(u))),
      Group({}, IF found = {} THEN <<>>
                ELSE <<Create({Row("audit_logs", run["system"].start, CHOOSE u \in found : TRUE)})>>)>>

Groups(s) ==
    CASE s = "scm" -> ScmSeeder(db[s])
      [] s = "mrp" -> MrpSeeder(run[s].input)
      [] s = "sales" -> SalesSeeder(run[s].input)
      [] OTHER -> SystemSeeder(db[s])

(***************************************************************************)
(* The tools.                                                              *)
(***************************************************************************)
Idle == [tool |-> "none", start |-> 0, at |-> "idle", group |-> 0, input |-> None, todo |-> <<>>]

Init ==
    /\ db = [s \in Services |-> {}]
    /\ schema = [s \in Services |-> "none"]
    /\ manifest = None
    /\ contract = [s \in {"mrp", "sales"} |-> None]
    /\ run = [s \in Services |-> Idle]
    /\ lost = FALSE
    /\ starts = 0 /\ faults = 0 /\ changes = 0

Move(s, at) == run' = [run EXCEPT ![s].at = at]
Exit(s) == run' = [run EXCEPT ![s] = Idle]
Fault == faults < MaxFaults /\ faults' = faults + 1

\* The seeder of SCM and the migration tools of MRP and Sales delete the
\* database first; the seeders of MRP and Sales keep it.
FirstStep(s, tool) ==
    IF (s = "scm" /\ tool = "seed") \/ (s \in {"mrp", "sales"} /\ tool = "migrate") THEN "clear"
    ELSE IF s = "mrp" THEN "load" ELSE "migrate"
Start(s, tool) ==
    /\ run[s].at = "idle"
    /\ Cardinality({t \in Services : run[t].at # "idle"}) < MaxTools
    /\ starts < MaxStarts
    /\ starts' = starts + 1
    /\ run' = [run EXCEPT ![s] = [Idle EXCEPT !.tool = tool, !.start = starts + 1, !.at = FirstStep(s, tool)]]
    /\ UNCHANGED <<db, schema, manifest, contract, lost, faults, changes>>

\* The files of the database, then the manifest.
ClearDatabase(s) ==
    /\ run[s].at = "clear"
    /\ db' = [db EXCEPT ![s] = {}]
    /\ schema' = [schema EXCEPT ![s] = "none"]
    /\ lost' = IF s = "scm" THEN FALSE ELSE lost
    /\ Move(s, IF s = "scm" THEN "clear manifest" ELSE "migrate")
    /\ UNCHANGED <<manifest, contract, starts, faults, changes>>
ClearManifest ==
    /\ run["scm"].at = "clear manifest"
    /\ manifest' = None
    /\ Move("scm", "migrate")
    /\ UNCHANGED <<db, schema, contract, lost, starts, faults, changes>>

AfterSchema(s) == IF run[s].tool = "migrate" THEN Exit(s)
                  ELSE Move(s, IF s = "sales" THEN "load" ELSE "seed")
\* SCM and MRP mark the version dirty, apply it, and clear the mark; a dirty
\* version is refused, of which the seeder of SCM takes no notice.
Migrate(s) ==
    /\ s \in {"scm", "mrp"}
    /\ run[s].at = "migrate"
    /\ IF schema[s] = "none"
       THEN schema' = [schema EXCEPT ![s] = "dirty"] /\ Move(s, "apply")
       ELSE AfterSchema(s) /\ UNCHANGED schema
    /\ UNCHANGED <<db, manifest, contract, lost, starts, faults, changes>>
\* Sales and System bring theirs up to date whatever they find.
ApplyUp(s) ==
    /\ s \in {"sales", "system"}
    /\ run[s].at = "migrate"
    /\ schema' = [schema EXCEPT ![s] = "ready"]
    /\ AfterSchema(s)
    /\ UNCHANGED <<db, manifest, contract, lost, starts, faults, changes>>
Apply(s) ==
    /\ run[s].at = "apply"
    /\ schema' = [schema EXCEPT ![s] = "ready"]
    /\ AfterSchema(s)
    /\ UNCHANGED <<db, manifest, contract, lost, starts, faults, changes>>
ApplyFails(s) ==
    /\ run[s].at = "apply"
    /\ Fault
    /\ AfterSchema(s)
    /\ UNCHANGED <<db, schema, manifest, contract, lost, starts, changes>>
\* System's migrations can be taken back: tables and record in one transaction.
ApplyDown ==
    /\ run["system"].at = "idle"
    /\ starts < MaxStarts
    /\ schema["system"] = "ready"
    /\ schema' = [schema EXCEPT !["system"] = "none"]
    /\ db' = [db EXCEPT !["system"] = {}]
    /\ starts' = starts + 1
    /\ UNCHANGED <<manifest, contract, run, lost, faults, changes>>

LoadManifest(s) ==
    /\ run[s].at = "load"
    /\ IF contract[s] = None \/ (s = "mrp" /\ (contract[s].models = {} \/ schema[s] # "ready"))
       THEN Exit(s) ELSE run' = [run EXCEPT ![s].at = "seed", ![s].input = contract[s]]
    /\ UNCHANGED <<db, schema, manifest, contract, lost, starts, faults, changes>>

\* MRP and Sales take any row for a whole seeding and end.
Skips(s, g) == Rows(db[s], g.guard) # {}
BeginGroup(s) ==
    /\ run[s].at = "seed" /\ run[s].todo = <<>>
    /\ LET next == run[s].group + 1 IN
       IF next > Len(Groups(s))
       THEN IF s = "scm" THEN Move(s, "manifest") ELSE Exit(s)
       ELSE LET g == Groups(s)[next] IN
            IF ~Skips(s, g) THEN run' = [run EXCEPT ![s].group = next, ![s].todo = g.list]
            ELSE IF s = "scm" THEN run' = [run EXCEPT ![s].group = next] ELSE Exit(s)
    /\ UNCHANGED <<db, schema, manifest, contract, lost, starts, faults, changes>>

\* The seeder of SCM looks at no error, that of System at none of its audit
\* entries; the others end at the first one.
Tolerates(s, stmt) == s = "scm" \/ \E r \in stmt.rows : r.table = "audit_logs"
Refused(s) ==
    /\ IF Tolerates(s, Head(run[s].todo))
       THEN run' = [run EXCEPT ![s].todo = Tail(@)] ELSE Exit(s)
    /\ lost' = (lost \/ s = "scm")
    /\ UNCHANGED <<db, schema, manifest, contract, starts, changes>>
Execute(s) ==
    /\ run[s].todo # <<>>
    /\ LET stmt == Head(run[s].todo) IN
       IF schema[s] # "ready" \/ Conflicts(db[s], stmt)
       THEN Refused(s) /\ UNCHANGED faults
       ELSE /\ db' = [db EXCEPT ![s] = Written(@, stmt)]
            /\ run' = [run EXCEPT ![s].todo = Tail(@)]
            /\ UNCHANGED <<schema, manifest, contract, lost, starts, faults, changes>>
Fails(s) == run[s].todo # <<>> /\ Fault /\ Refused(s)

WriteSeedManifest ==
    /\ run["scm"].at = "manifest"
    /\ manifest' = IF schema["scm"] = "ready" THEN BuildSeedManifest(db["scm"]) ELSE manifest
    /\ Exit("scm")
    /\ UNCHANGED <<db, schema, contract, lost, starts, faults, changes>>

Kill(s) ==
    /\ run[s].at # "idle"
    /\ Fault
    /\ Exit(s)
    /\ UNCHANGED <<db, schema, manifest, contract, lost, starts, changes>>

\* An operator copies the manifest, an administrator works on the users.
CopyManifest(s) ==
    /\ manifest # None /\ contract[s] # manifest
    /\ contract' = [contract EXCEPT ![s] = manifest]
    /\ UNCHANGED <<db, schema, manifest, run, lost, starts, faults, changes>>
ChangeUser(r, to) ==
    /\ r.table = "users" /\ r.of # "deleted" /\ r.of # to
    /\ changes < MaxChanges
    /\ changes' = changes + 1
    /\ db' = [db EXCEPT !["system"] = (@ \ {r}) \cup {[r EXCEPT !.of = to]}]
    /\ UNCHANGED <<schema, manifest, contract, run, lost, starts, faults>>

Seed(s) == BeginGroup(s) \/ Execute(s) \/ Fails(s) \/ Kill(s)
Next ==
    \/ \E s \in Services, tool \in {"seed", "migrate"} : Start(s, tool)
    \/ \E s \in Services : ClearDatabase(s) \/ Migrate(s) \/ ApplyUp(s) \/ Apply(s) \/ ApplyFails(s) \/ Seed(s)
    \/ ClearManifest \/ WriteSeedManifest \/ ApplyDown
    \/ \E s \in {"mrp", "sales"} : LoadManifest(s) \/ CopyManifest(s)
    \/ \E r \in db["system"], to \in {"changed", "deleted"} : ChangeUser(r, to)

Spec == Init /\ [][Next]_vars

(***************************************************************************)
(* Properties.                                                             *)
(***************************************************************************)
(* Each database holds rows of its own tables with keys used once, a tool   *)
(* at work is at a step of its program, and the counters keep their bounds. *)
Tables == [s \in Services |->
    CASE s = "scm" -> {"states", "api_keys", "suppliers", "part_catalogs", "product_models",
                       "parts_by_model", "component_stocks", "inventory_ledger", "sku_mappings",
                       "purchase_orders", "shipments", "goods_receipts", "products", "parts"}
      [] s = "mrp" -> {"bom_entries", "production_orders", "shortage_logs"}
      [] s = "sales" -> {"clients", "sales_orders", "sales_order_items"}
      [] OTHER -> {"roles", "action_type_entries", "users", "audit_logs"}]
TypeOK ==
    /\ \A s \in Services :
          /\ schema[s] \in {"none", "dirty", "ready"}
          /\ db[s] # {} => schema[s] = "ready"
          /\ \A r \in db[s] : r.table \in Tables[s]
          /\ Cardinality({<<r.table, r.key>> : r \in db[s]}) = Cardinality(db[s])
          /\ run[s].todo # <<>> => run[s].at = "seed" /\ run[s].group \in 1..7
    /\ starts \in 0..MaxStarts /\ faults \in 0..MaxFaults /\ changes \in 0..MaxChanges

(* Whatever seeder was killed or refused a row, and whenever SCM was seeded *)
(* again: a row of MRP, Sales or System refers to rows that are there; a    *)
(* line of a bill, a part of a product, a receipt and an entry of the       *)
(* ledger of SCM do so too unless it lost a row; and a part or a model that *)
(* MRP or Sales took from a manifest is one of every whole seeding of SCM.  *)
Keys(s, table) == {r.key : r \in Rows(db[s], {table})}
ScmResolves ==
    /\ {line[1] : line \in Keys("scm", "parts_by_model")} \subseteq Keys("scm", "product_models")
    /\ {line[2] : line \in Keys("scm", "parts_by_model")} \subseteq Keys("scm", "part_catalogs")
    /\ {p[3] : p \in Keys("scm", "parts")} \subseteq Keys("scm", "parts_by_model")
    /\ Keys("scm", "goods_receipts") \subseteq Keys("scm", "shipments")
    /\ Keys("scm", "inventory_ledger") \subseteq Keys("scm", "component_stocks")
WholeCatalog == {id.of : id \in Keys("scm", "part_catalogs")} = Range(Parts)
WholeModels == Keys("scm", "product_models") = Range(Models)
ReferencesResolve ==
    /\ ~lost => ScmResolves
    /\ manifest # None => \A line \in manifest.lines : line[2] \in manifest.parts
    /\ WholeCatalog => {l[2] : l \in Keys("mrp", "bom_entries")} \subseteq Keys("scm", "part_catalogs")
    /\ WholeCatalog => \A s \in {"mrp", "sales"} : contract[s] # None =>
          contract[s].parts \subseteq Keys("scm", "part_catalogs")
    /\ WholeModels =>
          {o.of : o \in Rows(db["mrp"], {"production_orders"})} \subseteq Keys("scm", "product_models")
    /\ {k[1] : k \in Keys("mrp", "shortage_logs")} \subseteq Keys("mrp", "production_orders")
    /\ {r.of : r \in Rows(db["sales"], {"sales_orders"})} \subseteq Keys("sales", "clients")
    /\ {r.of : r \in Rows(db["system"], {"audit_logs"})} \subseteq Keys("system", "users")

(* A user whom an administrator changed or deleted is never again as it was *)
(* seeded: seeding once more finds the address and leaves the row alone.    *)
ReseedKeepsUsers ==
    [][\A r \in Rows(db["system"], {"users"}) :
          r.of # "seeded" /\ schema'["system"] = "ready" =>
          \E q \in db'["system"] : Same(r, q) /\ q.of # "seeded"]_vars
=============================================================================
