-------------------------------- MODULE Sales --------------------------------
(***************************************************************************)
(* The sales service: the order handlers (order_service.go), the           *)
(* fulfilment handler (fulfillment_service.go), the SQLite rows they share *)
(* and the allocation queue and stock counters they keep in Valkey.        *)
(*                                                                         *)
(* A process is one HTTP request being served.  A worker serves            *)
(* POST /fulfillment/process (ProcessQueue); a clerk serves POST /orders,  *)
(* PATCH /orders/{id}, POST /orders/{id}/cancel, PATCH /clients/{id} and   *)
(* GET /fulfillment/queue.  Each SQLite statement or transaction and each  *)
(* Valkey command or MULTI block is one step; a handler has nothing else   *)
(* to protect it, so other requests run between any two of its steps.      *)
(***************************************************************************)
EXTENDS Integers, FiniteSets

CONSTANTS
    Orders,      \* order identifiers, numbered in the order of CreatedAt
    SKUs,        \* finished goods
    Workers,     \* requests that run ProcessQueue
    Clerks,      \* requests that create, edit, cancel or list
    Stock,       \* available-to-promise units seeded into Valkey, per SKU
    MaxQty,      \* bound: largest quantity of a line
    MaxPatches,  \* bound: number of PATCH requests
    MaxFaults,   \* bound: number of failed calls, lost probes and crashes
    None         \* no order, no row

ASSUME SalesAssumption ==
    /\ Orders \subseteq Nat
    /\ IsFiniteSet(Workers) /\ Workers # {}
    /\ Workers \cap Clerks = {}
    /\ Stock \in [SKUs -> Nat]
    /\ MaxQty \in Nat \ {0}
    /\ MaxPatches \in Nat
    /\ MaxFaults \in Nat
    /\ None \notin Orders
    /\ None \notin [SKUs \X {"created", "edited"} -> 0..MaxQty]

VARIABLES
    order,     \* SQLite sales_orders: status and locked columns
    items,     \* SQLite sales_order_items: the requested quantity of each line
    resv,      \* SQLite inventory_reservations (order_id is unique)
    atp,       \* Valkey sales:atp:<sku>
    hold,      \* Valkey sales:reservation:<order>, a field for each SKU
    zset,      \* Valkey sales:allocation_queue, scored by CreatedAt
    payload,   \* Valkey sales:allocation_queue:payload
    disabled,  \* Repository.disabled: every Valkey call is a no-op
    manifest,  \* manifests announced on sales.fulfillment.processed
    pc,        \* where each request stands
    cur,       \* the order a request works on
    row,       \* the order row a request has read and will write back
    want,      \* the quantities a request has read or was given
    left,      \* the lines a loop has still to visit
    list,      \* the orders rebuildQueue has still to enqueue
    patches,   \* PATCH requests so far
    faults     \* failures so far

db == <<order, items, resv>>
queue == <<zset, payload>>
valkey == <<atp, hold, zset, payload>>
locals == <<cur, row, want, left, list>>
bounds == <<patches, faults>>
vars == <<order, items, resv, atp, hold, zset, payload, disabled, manifest,
          pc, cur, row, want, left, list, patches, faults>>

-----------------------------------------------------------------------------
(***************************************************************************)
(* Data.                                                                   *)
(***************************************************************************)
Procs == Workers \cup Clerks

(* The lines an order may have: a SKU, and whether CreateOrder or an edit  *)
(* wrote its row.  No index of sales_order_items keeps a SKU from having   *)
(* both: an edit replaces the rows there are, and CreateOrder goes on with *)
(* those it has yet to insert.                                             *)
Line == SKUs \X {"created", "edited"}
Created == SKUs \X {"created"}
Edited == SKUs \X {"edited"}

Items == [Line -> 0..MaxQty]
NoItems == [l \in Line |-> 0]
Lines(v) == {l \in Line : v[l] > 0}
Units(v, s) == v[<<s, "created">>] + v[<<s, "edited">>]
First(o, S) == o \in S /\ \A p \in S : o <= p

Status == {"none", "PENDING", "PROCESSING", "CANCELLED"}
Row == [status : Status, locked : BOOLEAN]
NoRow == [status |-> "none", locked |-> FALSE]
NewRow == [status |-> "PENDING", locked |-> FALSE]
AllocatedRow == [status |-> "PROCESSING", locked |-> TRUE]

(* Mutant: the guard forgets the lock and the states after PENDING. *)
EditableUnlessCancelled(r) == r.status \notin {"none", "CANCELLED"}

(* The guard of UpdateOrder and CancelOrder. *)
Editable(r) == ~r.locked /\ r.status = "PENDING"

(* What models.CanTransitionTo allows between the statuses that occur. *)
CanTransitionTo(a, b) ==
    \/ a = "PENDING" /\ b \in {"PROCESSING", "CANCELLED"}
    \/ a = "PROCESSING" /\ b = "CANCELLED"

WorkerLabels ==
    {"pop", "payload", "hdel", "lines", "check", "requeue", "reserve", "recheck",
     "exec", "persist", "drop_read", "drop_exec", "update", "publish",
     "undo_read", "undo_exec", "undo_row"}
ClerkLabels == {"line", "enqueue", "patch_items", "write_row", "clear_q"}
RebuildLabels == {"list", "clear", "fill"}
Labels == {"idle"} \cup RebuildLabels \cup WorkerLabels \cup ClerkLabels

(* The labels at which withClient is entered. *)
ValkeyLabels ==
    {"clear", "fill", "pop", "check", "requeue", "reserve", "recheck",
     "drop_read", "undo_read", "enqueue", "clear_q"}

-----------------------------------------------------------------------------
(***************************************************************************)
(* Valkey commands.  withClient turns every one into a successful no-op    *)
(* once a probe has failed.                                                *)
(***************************************************************************)
GetATP(s) == IF disabled THEN 0 ELSE atp[s]

EnqueueOrder(o) ==
    /\ zset' = IF disabled THEN zset ELSE zset \cup {o}
    /\ payload' = IF disabled THEN payload ELSE payload \cup {o}

ClearQueue ==
    /\ zset' = IF disabled THEN zset ELSE {}
    /\ payload' = IF disabled THEN payload ELSE {}

(* ListQueue skips the members that have no payload. *)
ListedEntries == IF disabled THEN {} ELSE zset \cap payload

(* HSET of the lines v into the hash h, which has one field for a SKU: of  *)
(* two lines the one whose row is the later by created_at stays.           *)
Later(v) ==
    {f \in [SKUs -> {"created", "edited"}] :
        \A l \in Lines(v) : v[l[1], f[l[1]]] > 0}
HSet(h, v, f) ==
    [l \in Line |-> IF Units(v, l[1]) = 0 THEN h[l]
                    ELSE IF l[2] = f[l[1]] THEN v[l] ELSE 0]

(* Mutant: the MULTI block is sent again although it went through. *)
ReserveTwice(o, v) ==
    /\ atp' = [s \in SKUs |-> atp[s] - 2 * Units(v, s)]
    /\ \E f \in Later(v) : hold' = [hold EXCEPT ![o] = HSet(@, v, f)]

(* DECRBY of every line, HSET of every line. *)
ReserveStock(o, v) ==
    /\ atp' = [s \in SKUs |-> atp[s] - Units(v, s)]
    /\ \E f \in Later(v) : hold' = [hold EXCEPT ![o] = HSet(@, v, f)]

(* Mutant: the hash is deleted and no stock given back. *)
DropHold(o, v) ==
    /\ hold' = [hold EXCEPT ![o] = NoItems]
    /\ UNCHANGED atp

(* INCRBY of the quantities read from the hash, DEL of the hash. *)
RestoreStock(o, v) ==
    /\ atp' = [s \in SKUs |-> atp[s] + Units(v, s)]
    /\ hold' = [hold EXCEPT ![o] = NoItems]

-----------------------------------------------------------------------------
Goto(p, l) == pc' = [pc EXCEPT ![p] = l]

(* The handler of p returns: its locals are gone. *)
Return(p) ==
    /\ pc' = [pc EXCEPT ![p] = "idle"]
    /\ cur' = [cur EXCEPT ![p] = None]
    /\ row' = [row EXCEPT ![p] = NoRow]
    /\ want' = [want EXCEPT ![p] = NoItems]
    /\ left' = [left EXCEPT ![p] = {}]
    /\ list' = [list EXCEPT ![p] = {}]

Init ==
    /\ order = [o \in Orders |-> NoRow]
    /\ items = [o \in Orders |-> NoItems]
    /\ resv = [o \in Orders |-> None]
    /\ atp = Stock
    /\ hold = [o \in Orders |-> NoItems]
    /\ zset = {}
    /\ payload = {}
    /\ disabled = FALSE
    /\ manifest = [o \in Orders |-> None]
    /\ pc = [p \in Procs |-> "idle"]
    /\ cur = [p \in Procs |-> None]
    /\ row = [p \in Procs |-> NoRow]
    /\ want = [p \in Procs |-> NoItems]
    /\ left = [p \in Procs |-> {}]
    /\ list = [p \in Procs |-> {}]
    /\ patches = 0
    /\ faults = 0

-----------------------------------------------------------------------------
(***************************************************************************)
(* ListQueue and rebuildQueue.  ProcessQueue (a worker) goes on to drain   *)
(* the queue; GetQueueStatus (a clerk) returns what it has listed.         *)
(***************************************************************************)
(* Mutant: whoever lists the queue goes on to drain it. *)
AlwaysDrain(p) == "pop"

AfterList(p) == IF p \in Workers THEN "pop" ELSE "idle"

ListQueue(p) ==
    /\ pc[p] = "idle"
    /\ Goto(p, IF ListedEntries = {} THEN "list" ELSE AfterList(p))
    /\ UNCHANGED <<db, valkey, disabled, manifest, locals, bounds>>

ListPendingOrders(p) ==
    /\ pc[p] = "list"
    /\ list' = [list EXCEPT ![p] = {o \in Orders : order[o].status = "PENDING"}]
    /\ Goto(p, "clear")
    /\ UNCHANGED <<db, valkey, disabled, manifest, cur, row, want, left, bounds>>

RebuildClear(p) ==
    /\ pc[p] = "clear"
    /\ ClearQueue
    /\ Goto(p, IF list[p] = {} THEN AfterList(p) ELSE "fill")
    /\ UNCHANGED <<db, atp, hold, disabled, manifest, locals, bounds>>

RebuildEnqueue(p) ==
    /\ pc[p] = "fill"
    /\ \E o \in Orders :
        /\ First(o, list[p])
        /\ EnqueueOrder(o)
        /\ list' = [list EXCEPT ![p] = @ \ {o}]
        /\ Goto(p, IF list[p] = {o} THEN AfterList(p) ELSE "fill")
    /\ UNCHANGED <<db, atp, hold, disabled, manifest, cur, row, want, left, bounds>>

-----------------------------------------------------------------------------
(***************************************************************************)
(* DequeueOrder: ZPOPMIN, HGET, HDEL.  An empty queue and a member without *)
(* payload both end the loop of ProcessQueue.                              *)
(***************************************************************************)
PopEmpty(w) ==
    /\ pc[w] = "pop"
    /\ zset = {} \/ disabled
    /\ Return(w)
    /\ UNCHANGED <<db, valkey, disabled, manifest, bounds>>

PopMin(w) ==
    /\ pc[w] = "pop"
    /\ ~disabled
    /\ \E o \in Orders :
        /\ First(o, zset)
        /\ cur' = [cur EXCEPT ![w] = o]
        /\ zset' = zset \ {o}
    /\ Goto(w, "payload")
    /\ UNCHANGED <<db, atp, hold, payload, disabled, manifest, row, want, left, list, bounds>>

GetPayload(w) ==
    /\ pc[w] = "payload"
    /\ \/ cur[w] \in payload /\ Goto(w, "hdel") /\ UNCHANGED locals
       \/ cur[w] \notin payload /\ Return(w)
    /\ UNCHANGED <<db, valkey, disabled, manifest, bounds>>

DeletePayload(w) ==
    /\ pc[w] = "hdel"
    /\ payload' = payload \ {cur[w]}
    /\ Goto(w, "lines")
    /\ UNCHANGED <<db, atp, hold, zset, disabled, manifest, locals, bounds>>

-----------------------------------------------------------------------------
(***************************************************************************)
(* allocateOrder.  It reads the order but tests neither its status nor its *)
(* lock, so the read leaves no trace here beyond the lines.                *)
(***************************************************************************)
LoadItems(w) ==
    /\ pc[w] = "lines"
    /\ want' = [want EXCEPT ![w] = items[cur[w]]]
    /\ left' = [left EXCEPT ![w] = Lines(items[cur[w]])]
    /\ Goto(w, IF Lines(items[cur[w]]) = {} THEN "reserve" ELSE "check")
    /\ UNCHANGED <<db, valkey, disabled, manifest, cur, row, list, bounds>>

(* One iteration of a loop over lines. *)
Visit(w, l, next) ==
    /\ left' = [left EXCEPT ![w] = @ \ {l}]
    /\ Goto(w, IF left[w] = {l} THEN next ELSE pc[w])

CheckATP(w) ==
    /\ pc[w] = "check"
    /\ \E l \in left[w] :
        \/ GetATP(l[1]) >= want[w][l] /\ Visit(w, l, "reserve")
        \/ GetATP(l[1]) < want[w][l] /\ Goto(w, "requeue") /\ UNCHANGED left
    /\ UNCHANGED <<db, valkey, disabled, manifest, cur, row, want, list, bounds>>

(* Mutant: the entry is put back and the loop goes on. *)
RequeueAndGoOn(w) ==
    /\ pc[w] = "requeue"
    /\ EnqueueOrder(cur[w])
    /\ Goto(w, "pop")
    /\ UNCHANGED <<db, atp, hold, disabled, manifest, locals, bounds>>

(* ErrInsufficientInventory: ProcessQueue puts the entry back and returns. *)
Requeue(w) ==
    /\ pc[w] = "requeue"
    /\ EnqueueOrder(cur[w])
    /\ Return(w)
    /\ UNCHANGED <<db, atp, hold, disabled, manifest, bounds>>

(* valkey.ReserveInventory: skipped when disabled, else it reads again.     *)
EnterReserve(w) ==
    /\ pc[w] = "reserve"
    /\ left' = [left EXCEPT ![w] = IF disabled THEN {} ELSE Lines(want[w])]
    /\ Goto(w, IF disabled THEN "persist"
               ELSE IF Lines(want[w]) = {} THEN "exec" ELSE "recheck")
    /\ UNCHANGED <<db, valkey, disabled, manifest, cur, row, want, list, bounds>>

(* The second shortage is a plain error: ProcessQueue returns without      *)
(* putting the entry back.                                                 *)
RecheckATP(w) ==
    /\ pc[w] = "recheck"
    /\ \E l \in left[w] :
        \/ /\ GetATP(l[1]) >= want[w][l]
           /\ Visit(w, l, "exec")
           /\ UNCHANGED <<cur, row, want, list>>
        \/ GetATP(l[1]) < want[w][l] /\ Return(w)
    /\ UNCHANGED <<db, valkey, disabled, manifest, bounds>>

ExecReserve(w) ==
    /\ pc[w] = "exec"
    /\ ReserveStock(cur[w], want[w])
    /\ Goto(w, "persist")
    /\ UNCHANGED <<db, queue, disabled, manifest, locals, bounds>>

(* Mutant: order_id is not unique, a second row replaces the first. *)
UpsertReservation(w) ==
    /\ pc[w] = "persist"
    /\ resv' = [resv EXCEPT ![cur[w]] = want[w]]
    /\ Goto(w, "update")
    /\ UNCHANGED <<order, items, valkey, disabled, manifest, locals, bounds>>

(* Mutant: a refused row is undone like one that was written. *)
CreateReservationOrUndo(w) ==
    /\ pc[w] = "persist"
    /\ \/ /\ resv[cur[w]] = None
          /\ resv' = [resv EXCEPT ![cur[w]] = want[w]]
          /\ Goto(w, "update")
       \/ /\ resv[cur[w]] # None
          /\ Goto(w, "undo_read")
          /\ UNCHANGED resv
    /\ UNCHANGED <<order, items, valkey, disabled, manifest, locals, bounds>>

(* sqlite.CreateReservation: a second row of the order violates the index. *)
CreateReservation(w) ==
    /\ pc[w] = "persist"
    /\ \/ /\ resv[cur[w]] = None
          /\ resv' = [resv EXCEPT ![cur[w]] = want[w]]
          /\ Goto(w, "update")
       \/ /\ resv[cur[w]] # None
          /\ Goto(w, "drop_read")
          /\ UNCHANGED resv
    /\ UNCHANGED <<order, items, valkey, disabled, manifest, locals, bounds>>

(* The whole row is written, whatever happened to it since it was read. *)
MarkProcessing(w) ==
    /\ pc[w] = "update"
    /\ order' = [order EXCEPT ![cur[w]] = AllocatedRow]
    /\ Goto(w, "publish")
    /\ UNCHANGED <<items, resv, valkey, disabled, manifest, locals, bounds>>

Publish(w) ==
    /\ pc[w] = "publish"
    /\ manifest' = [manifest EXCEPT ![cur[w]] = want[w]]
    /\ Goto(w, "pop")
    /\ cur' = [cur EXCEPT ![w] = None]
    /\ want' = [want EXCEPT ![w] = NoItems]
    /\ UNCHANGED <<db, valkey, disabled, row, left, list, bounds>>

-----------------------------------------------------------------------------
(***************************************************************************)
(* valkey.ReleaseInventory, after CreateReservation failed ("drop") and    *)
(* after UpdateOrder failed ("undo").  The quantities come from the hash.  *)
(***************************************************************************)
ReleaseRead(w) ==
    /\ \/ /\ pc[w] = "drop_read"
          /\ \/ ~disabled /\ Goto(w, "drop_exec")
                /\ want' = [want EXCEPT ![w] = hold[cur[w]]]
                /\ UNCHANGED <<cur, row, left, list>>
             \/ disabled /\ Return(w)
       \/ /\ pc[w] = "undo_read"
          /\ want' = [want EXCEPT ![w] = hold[cur[w]]]
          /\ Goto(w, IF disabled THEN "undo_row" ELSE "undo_exec")
          /\ UNCHANGED <<cur, row, left, list>>
    /\ UNCHANGED <<db, valkey, disabled, manifest, bounds>>

ReleaseExec(w) ==
    /\ \/ pc[w] = "drop_exec" /\ Return(w)
       \/ pc[w] = "undo_exec" /\ Goto(w, "undo_row") /\ UNCHANGED locals
    /\ RestoreStock(cur[w], want[w])
    /\ UNCHANGED <<db, queue, disabled, manifest, bounds>>

DeleteReservation(w) ==
    /\ pc[w] = "undo_row"
    /\ resv' = [resv EXCEPT ![cur[w]] = None]
    /\ Return(w)
    /\ UNCHANGED <<order, items, valkey, disabled, manifest, bounds>>

-----------------------------------------------------------------------------
(***************************************************************************)
(* CreateOrder: the row, then each line, then the queue entry.             *)
(***************************************************************************)
CreateOrder(c) ==
    /\ pc[c] = "idle"
    /\ \E o \in {q \in Orders : order[q].status = "none"}, v \in Items \ {NoItems} :
        /\ Lines(v) \subseteq Created
        /\ \A q \in Orders : q < o => order[q].status # "none"
        /\ order' = [order EXCEPT ![o] = NewRow]
        /\ cur' = [cur EXCEPT ![c] = o]
        /\ want' = [want EXCEPT ![c] = v]
        /\ left' = [left EXCEPT ![c] = Lines(v)]
    /\ Goto(c, "line")
    /\ UNCHANGED <<items, resv, valkey, disabled, manifest, row, list, bounds>>

CreateOrderItem(c) ==
    /\ pc[c] = "line"
    /\ \E l \in left[c] :
        /\ items' = [items EXCEPT ![cur[c]][l] = want[c][l]]
        /\ Visit(c, l, "enqueue")
    /\ UNCHANGED <<order, resv, valkey, disabled, manifest, cur, row, want, list, bounds>>

EnqueueNew(c) ==
    /\ pc[c] = "enqueue"
    /\ EnqueueOrder(cur[c])
    /\ Return(c)
    /\ UNCHANGED <<db, atp, hold, disabled, manifest, bounds>>

(***************************************************************************)
(* UpdateOrder and CancelOrder read the row, test it, and later write the  *)
(* whole row they have read.  A PATCH without lines leaves the items.  The *)
(* order may still be in CreateOrder: GET /orders and the fulfilment queue *)
(* show it as soon as its row is there.                                    *)
(***************************************************************************)
PatchRead(c) ==
    /\ pc[c] = "idle"
    /\ patches < MaxPatches
    /\ patches' = patches + 1
    /\ \E o \in {q \in Orders : Editable(order[q])}, v \in Items :
        /\ Lines(v) \subseteq Edited
        /\ cur' = [cur EXCEPT ![c] = o]
        /\ row' = [row EXCEPT ![c] = order[o]]
        /\ want' = [want EXCEPT ![c] = v]
        /\ Goto(c, IF v = NoItems THEN "write_row" ELSE "patch_items")
    /\ UNCHANGED <<db, valkey, disabled, manifest, left, list, faults>>

ReplaceOrderItems(c) ==
    /\ pc[c] = "patch_items"
    /\ items' = [items EXCEPT ![cur[c]] = want[c]]
    /\ Goto(c, "write_row")
    /\ UNCHANGED <<order, resv, valkey, disabled, manifest, locals, bounds>>

CancelRead(c) ==
    /\ pc[c] = "idle"
    /\ \E o \in {q \in Orders : Editable(order[q])} :
        /\ cur' = [cur EXCEPT ![c] = o]
        /\ row' = [row EXCEPT ![c] = [order[o] EXCEPT !.status = "CANCELLED"]]
    /\ Goto(c, "write_row")
    /\ UNCHANGED <<db, valkey, disabled, manifest, want, left, list, bounds>>

WriteRow(c) ==
    /\ pc[c] = "write_row"
    /\ order' = [order EXCEPT ![cur[c]] = row[c]]
    /\ Goto(c, "clear_q")
    /\ UNCHANGED <<items, resv, valkey, disabled, manifest, locals, bounds>>

(* UpdateClient clears the queue after it has written the client, which is *)
(* SalesClients.                                                           *)
UpdateClient(c) ==
    /\ pc[c] = "idle"
    /\ Goto(c, "clear_q")
    /\ UNCHANGED <<db, valkey, disabled, manifest, locals, bounds>>

ClearStaleQueue(c) ==
    /\ pc[c] = "clear_q"
    /\ ClearQueue
    /\ Return(c)
    /\ UNCHANGED <<db, atp, hold, disabled, manifest, bounds>>

-----------------------------------------------------------------------------
(***************************************************************************)
(* Failures: a call that returns an error (a busy SQLite file, a Valkey    *)
(* time-out, a request context cancelled by the caller), a probe that does *)
(* not reach Valkey, and a crash of the service.                           *)
(***************************************************************************)
CountFault == faults < MaxFaults /\ faults' = faults + 1 /\ UNCHANGED patches

(* Most errors are returned to the caller at once.  Those of the last call *)
(* of a clean-up are ignored, and the handler returns all the same.  A     *)
(* disabled repository makes no call, so none fails.                       *)
CallFails(p) ==
    /\ pc[p] \notin {"idle", "persist", "update", "undo_read", "undo_exec"}
    /\ ~(disabled /\ pc[p] \in ValkeyLabels)
    /\ CountFault
    /\ Return(p)
    /\ UNCHANGED <<db, valkey, disabled, manifest>>

(* The MULTI block was executed and its answer lost. *)
ExecAnswerLost(w) ==
    /\ pc[w] = "exec"
    /\ CountFault
    /\ ReserveStock(cur[w], want[w])
    /\ Return(w)
    /\ UNCHANGED <<db, queue, disabled, manifest>>

WriteFails(w) ==
    /\ \/ pc[w] = "persist" /\ Goto(w, "drop_read")
       \/ pc[w] = "update" /\ Goto(w, "undo_read")
       \/ pc[w] \in {"undo_read", "undo_exec"} /\ Goto(w, "undo_row")
    /\ CountFault
    /\ UNCHANGED <<db, valkey, disabled, manifest, locals>>

(* probeTCP fails: the repository is disabled until the service restarts. *)
ProbeFails ==
    /\ ~disabled
    /\ CountFault
    /\ disabled' = TRUE
    /\ UNCHANGED <<db, valkey, manifest, pc, locals>>

Crash ==
    /\ CountFault
    /\ disabled' = FALSE
    /\ pc' = [p \in Procs |-> "idle"]
    /\ cur' = [p \in Procs |-> None]
    /\ row' = [p \in Procs |-> NoRow]
    /\ want' = [p \in Procs |-> NoItems]
    /\ left' = [p \in Procs |-> {}]
    /\ list' = [p \in Procs |-> {}]
    /\ UNCHANGED <<db, valkey, manifest>>

-----------------------------------------------------------------------------
Rebuild(p) == ListPendingOrders(p) \/ RebuildClear(p) \/ RebuildEnqueue(p)

Dequeue(w) == PopEmpty(w) \/ PopMin(w) \/ GetPayload(w) \/ DeletePayload(w)

Allocate(w) ==
    \/ LoadItems(w) \/ CheckATP(w) \/ Requeue(w)
    \/ EnterReserve(w) \/ RecheckATP(w) \/ ExecReserve(w)
    \/ CreateReservation(w) \/ MarkProcessing(w) \/ Publish(w)
    \/ ReleaseRead(w) \/ ReleaseExec(w) \/ DeleteReservation(w)

Edit(c) ==
    \/ CreateOrderItem(c) \/ EnqueueNew(c)
    \/ ReplaceOrderItems(c) \/ WriteRow(c) \/ ClearStaleQueue(c)

WorkerStep(w) == Rebuild(w) \/ Dequeue(w) \/ Allocate(w)
ClerkStep(c) == Rebuild(c) \/ Edit(c)

Arrive ==
    \/ \E p \in Procs : ListQueue(p)
    \/ \E c \in Clerks :
        CreateOrder(c) \/ PatchRead(c) \/ CancelRead(c) \/ UpdateClient(c)

Fail ==
    \/ \E p \in Procs : CallFails(p)
    \/ \E w \in Workers : ExecAnswerLost(w) \/ WriteFails(w)
    \/ ProbeFails
    \/ Crash

Next ==
    \/ Arrive
    \/ \E w \in Workers : WorkerStep(w)
    \/ \E c \in Clerks : ClerkStep(c)
    \/ Fail

Spec == Init /\ [][Next]_vars

(* The Go runtime keeps running a handler it has started; nothing in the   *)
(* service makes a request arrive.                                         *)
FairSpec ==
    /\ Spec
    /\ \A w \in Workers : WF_vars(WorkerStep(w))
    /\ \A c \in Clerks : WF_vars(ClerkStep(c))

-----------------------------------------------------------------------------
(***************************************************************************)
(* Properties.                                                             *)
(***************************************************************************)
StoreOK ==
    /\ order \in [Orders -> Row]
    /\ items \in [Orders -> Items]
    /\ resv \in [Orders -> Items \cup {None}]
    /\ atp \in [SKUs -> Int]
    /\ hold \in [Orders -> Items]
    /\ zset \in SUBSET Orders
    /\ payload \in SUBSET Orders
    /\ disabled \in BOOLEAN
    /\ manifest \in [Orders -> Items \cup {None}]

LabelsOf(p) ==
    {"idle"} \cup RebuildLabels \cup (IF p \in Workers THEN WorkerLabels ELSE ClerkLabels)

LocalsOK ==
    /\ pc \in [Procs -> Labels]
    /\ cur \in [Procs -> Orders \cup {None}]
    /\ row \in [Procs -> Row]
    /\ want \in [Procs -> Items]
    /\ left \in [Procs -> SUBSET Line]
    /\ list \in [Procs -> SUBSET Orders]
    /\ \A p \in Procs : pc[p] \in LabelsOf(p)
    /\ \A p \in Procs :
        pc[p] \in {"idle", "pop", "clear_q"} \cup RebuildLabels \/ cur[p] \in Orders

(* Every variable has its type; a worker never stands in a clerk's handler, *)
(* a clerk never drains the queue, and who works on an order has one.      *)
TypeOK ==
    /\ StoreOK
    /\ LocalsOK
    /\ patches \in 0..MaxPatches
    /\ faults \in 0..MaxFaults

(* An order the fulfilment has marked PROCESSING has its reservation row,   *)
(* whatever requests raced for it and whatever failed or crashed on the    *)
(* way: the clean-up of one allocateOrder never takes the row another one  *)
(* relies on.                                                              *)
ProcessingIsReserved ==
    \A o \in Orders : order[o].status = "PROCESSING" => resv[o] # None

(* A manifest announced to the warehouse stays covered by a reservation of *)
(* exactly its quantities.                                                 *)
ManifestBacked ==
    \A o \in Orders : manifest[o] # None => resv[o] = manifest[o]

(* The counters are read before the MULTI block that lowers them, and once *)
(* for each line: they can fall below zero, but by no more than the lines  *)
(* which the requests that run ProcessQueue have checked, two of a SKU     *)
(* where an edit met the creation of the order, except the one that was    *)
(* the last to be checked and found in the counter.  However often orders  *)
(* are offered, refused and given back, the debt does not add up.          *)
OverdraftBounded ==
    \A s \in SKUs : atp[s] >= -(2 * Cardinality(Workers) - 1) * MaxQty

(* An order moves only along models.CanTransitionTo: the design document   *)
(* asks for "a strict, one-way state machine for the order lifecycle".     *)
OneWay ==
    \A o \in Orders :
        \/ order[o].status = "none"
        \/ order'[o].status = order[o].status
        \/ CanTransitionTo(order[o].status, order'[o].status)
OneWayStateMachine == [][OneWay]_vars

(* ProcessQueue returns: nothing keeps its loop fed forever.               *)
ProcessQueueReturns == \A w \in Workers : pc[w] # "idle" ~> pc[w] = "idle"

(***************************************************************************)
(* The inductive invariant behind the two.  A request owns the reservation *)
(* of its order from CreateReservation to the manifest or the clean-up.    *)
(***************************************************************************)
Undoing(w) == pc[w] \in {"undo_read", "undo_exec", "undo_row"}
Owns(w) == pc[w] \in {"update", "publish"} \/ Undoing(w)

OwnersHold ==
    \A w \in Workers : Owns(w) => resv[cur[w]] # None /\ manifest[cur[w]] = None

OneOwner ==
    \A w, v \in Workers : Owns(w) /\ Owns(v) /\ cur[w] = cur[v] => w = v

WantIsReserved ==
    \A w \in Workers : pc[w] \in {"update", "publish"} => resv[cur[w]] = want[w]

NotYetProcessing ==
    \A w \in Workers :
        pc[w] = "update" \/ Undoing(w) => order[cur[w]].status # "PROCESSING"

EditsArePending ==
    \A c \in Clerks :
        pc[c] \in {"patch_items", "write_row"} => row[c].status # "PROCESSING"

(* At most one request at a time owns the reservation of an order, it holds *)
(* what it read, and neither a clean-up nor an edit meets a PROCESSING row. *)
OwnershipInv ==
    /\ OwnersHold /\ OneOwner /\ WantIsReserved
    /\ NotYetProcessing /\ EditsArePending
    /\ ProcessingIsReserved /\ ManifestBacked

(* The reservations and manifests behave as the abstract fulfilment.       *)
Promise == INSTANCE Fulfilment WITH Quantities <- Items
ImplementsFulfilment == Promise!Spec
=============================================================================
