------------------------------ MODULE Receiving ------------------------------
(***************************************************************************)
(* The inbound side of the SCM service: shipments of a purchase order      *)
(* (shipment_service.go), the goods receipts their delivery creates and    *)
(* the blind receipt that counts them (goods_receipt_service.go), the      *)
(* stock and the ledger it adds to (ledger_service.go), and the status of  *)
(* the purchase order (po_service.go).                                     *)
(*                                                                         *)
(* A request is an HTTP request being served; each SQL statement is a      *)
(* step, since the repository-backed services the server runs open no      *)
(* transaction.  Statements that only test that a row exists are not       *)
(* steps of their own.                                                     *)
(***************************************************************************)
EXTENDS Integers, FiniteSets

CONSTANTS
    POs,          \* purchase orders, with their lines already written
    SKUs,         \* components
    Ordered,      \* the quantity of each line, 0 where there is no line
    Shipments,    \* shipments that may be announced
    PORef,        \* the purchase order of each shipment
    Operators,    \* operator_id values
    Requests,     \* requests being served at the same time
    MaxReceipts,  \* bound: goods receipts of a purchase order
    MaxCount,     \* bound: largest count typed for a line
    MaxCalls,     \* bound: requests that change something
    MaxTime,      \* bound: expiries of locks
    MaxFaults,    \* bound: failed statements; a crash counts twice
    None          \* no operator, no count, no row

ASSUME ReceivingAssumption ==
    /\ Ordered \in [POs -> [SKUs -> Nat]]
    /\ PORef \in [Shipments -> POs]
    /\ MaxReceipts \in Nat
    /\ MaxCount \in Nat
    /\ MaxCalls \in Nat
    /\ MaxTime \in Nat
    /\ MaxFaults \in Nat
    /\ IsFiniteSet(Requests)
    /\ None \notin Operators
    /\ None \notin Nat

VARIABLES
    ship,      \* shipments: status and dispatch lock
    receipt,   \* goods receipts, by purchase order and number: status and lock
    lines,     \* the lines each receipt has
    typed,     \* the quantity counted on each line of a receipt
    po,        \* status of the purchase orders
    poline,    \* received quantity of the purchase-order lines
    stock,     \* component stock, from what it was at the start
    balance,   \* running balance of the latest ledger entry
    entered,   \* sum of the ledger entries
    accepted,  \* sum of the counts ever added to the stock
    clock,     \* locks granted before it have expired
    req,       \* where each request stands and what it holds in memory
    calls,     \* requests so far
    faults     \* failures so far

receiving == <<receipt, lines, typed>>
ordering == <<po, poline>>
inventory == <<stock, balance, entered, accepted>>
bounds == <<clock, calls, faults>>
vars == <<ship, receipt, lines, typed, po, poline, stock, balance, entered, accepted,
          clock, req, calls, faults>>

-----------------------------------------------------------------------------
Receipts == POs \X (1..MaxReceipts)
Counts == 0..MaxCount
LinesOf(o) == {s \in SKUs : Ordered[o][s] > 0}

ShipStatus == <<"Scheduled", "In Transit", "Delivered", "Delayed">>
POStatus == <<"Draft", "Approved", "In Transit", "Partial", "Received", "Void">>
Elements(order) == {order[i] : i \in DOMAIN order}
Counted == {"Complete", "Discrepancy"}
Statuses == {"none", "Pending"} \cup Counted \cup Elements(ShipStatus) \cup Elements(POStatus)

Row == [status : Statuses, by : Operators \cup {None}, until : 0..(MaxTime + 1)]
NewRow(status) == [status |-> status, by |-> None, until |-> 0]
NoCounts == [s \in SKUs |-> None]

Idle == [pc |-> "idle", job |-> None, who |-> None, row |-> NewRow("none"), counts |-> NoCounts,
         left |-> {}, cur |-> None, got |-> 0, seen |-> NoCounts, odd |-> FALSE]

(* LockExpiresAt is after time.Now(); the two are never equal. *)
Live(r) == clock < r.until
HeldByOther(r, u) == r.by # None /\ r.by # u /\ Live(r)
HeldBy(r, u) == r.by = u /\ Live(r)
Lock(r, u) == [r EXCEPT !.by = u, !.until = clock + 1]
Unlock(r) == [r EXCEPT !.by = None, !.until = 0]

(* b stands after a in the list of a state machine. *)
Later(order, a, b) == \E i, j \in DOMAIN order : order[i] = a /\ order[j] = b /\ i < j

ValidShipmentTransition(a, b) ==
    \/ b = "Delayed" /\ a = "In Transit"
    \/ b # "Delayed" /\ a = "Delayed" /\ b = "In Transit"
    \/ b # "Delayed" /\ a # "Delayed" /\ Later(ShipStatus, a, b)

ValidTransition(a, b) == (a = "Partial" /\ b = "In Transit") \/ Later(POStatus, a, b)

Existing(o) == {n \in 1..MaxReceipts : receipt[<<o, n>>].status # "none"}

(* CountByPOIDAndNotStatus leaves out the receipts with a discrepancy too. *)
OpenReceipts(o) == {n \in Existing(o) : receipt[<<o, n>>].status \notin Counted}

(* The lines a failed reading left out are not looked at. *)
AllReceived(q) ==
    \A s \in LinesOf(q.job[1]) : q.seen[s] = None \/ q.seen[s] >= Ordered[q.job[1]][s]

-----------------------------------------------------------------------------
(***************************************************************************)
(* A request that arrives is counted; it starts with the row it reads.     *)
(***************************************************************************)
Arrive(r) ==
    /\ req[r].pc = "idle"
    /\ calls < MaxCalls
    /\ calls' = calls + 1

Begin(r, label, x, u, v) ==
    /\ Arrive(r)
    /\ req' = [req EXCEPT ![r] = [Idle EXCEPT !.pc = label, !.job = x, !.who = u, !.row = v]]
    /\ UNCHANGED <<ship, receiving, ordering, inventory, clock, faults>>

At(r, label) == req[r].pc = label
Goto(r, label) == req' = [req EXCEPT ![r].pc = label]
Return(r) == req' = [req EXCEPT ![r] = Idle]

(***************************************************************************)
(* Shipments.  UpdateShipment saves the whole row that was read.           *)
(***************************************************************************)
CreateShipment ==
    /\ \E x \in Shipments :
        /\ ship[x].status = "none"
        /\ ship' = [ship EXCEPT ![x] = NewRow("Scheduled")]
    /\ UNCHANGED <<receiving, ordering, inventory, req, bounds>>

AcquireDispatchLock(r) ==
    \E x \in Shipments, u \in Operators :
        /\ ship[x].status \in {"Scheduled", "Delayed"}
        /\ ~HeldByOther(ship[x], u)
        /\ Begin(r, "lock_ship", x, u, ship[x])

LockShipment(r) ==
    /\ At(r, "lock_ship")
    /\ ship' = [ship EXCEPT ![req[r].job] = Lock(@, req[r].who)]
    /\ Return(r)
    /\ UNCHANGED <<receiving, ordering, inventory, bounds>>

ReleaseDispatchLock(r) ==
    /\ Arrive(r)
    /\ \E x \in Shipments :
        /\ ship[x].by # None
        /\ ship' = [ship EXCEPT ![x] = Unlock(@)]
    /\ UNCHANGED <<receiving, ordering, inventory, req, clock, faults>>

DispatchShipment(r) ==
    \E x \in Shipments, u \in Operators :
        /\ ship[x].status = "Scheduled"
        /\ HeldBy(ship[x], u)
        /\ Begin(r, "save_ship", x, u, Unlock([ship[x] EXCEPT !.status = "In Transit"]))

TransitionShipment(r) ==
    \E x \in Shipments, b \in Elements(ShipStatus) :
        /\ ValidShipmentTransition(ship[x].status, b)
        /\ Begin(r, "save_ship", x, None, [ship[x] EXCEPT !.status = b])

Delivering(r) == req[r].pc \in {"save_delivered", "count_receipts", "create_receipt"}

(* Bounded by MaxReceipts, deliveries under way included. *)
MarkDelivered(r) ==
    \E x \in Shipments :
        /\ ship[x].status = "In Transit"
        /\ Cardinality(Existing(PORef[x])) + Cardinality({q \in Requests : Delivering(q)}) < MaxReceipts
        /\ Begin(r, "save_delivered", x, None, [ship[x] EXCEPT !.status = "Delivered"])

UpdateShipment(r) ==
    /\ \/ At(r, "save_ship") /\ Return(r)
       \/ At(r, "save_delivered") /\ Goto(r, "count_receipts")
    /\ ship' = [ship EXCEPT ![req[r].job] = req[r].row]
    /\ UNCHANGED <<receiving, ordering, inventory, bounds>>

(***************************************************************************)
(* The rest of MarkDelivered: a receipt whose number follows the number of *)
(* receipts found, refused when there is one already, and its lines.       *)
(***************************************************************************)
(* Mutant: the number of the next receipt is taken for their count. *)
CountReceiptsTwice(r) ==
    /\ At(r, "count_receipts")
    /\ req' = [req EXCEPT ![r].pc = "create_receipt",
                          ![r].got = Cardinality(Existing(PORef[req[r].job])) + 2]
    /\ UNCHANGED <<ship, receiving, ordering, inventory, bounds>>

CountReceipts(r) ==
    /\ At(r, "count_receipts")
    /\ req' = [req EXCEPT ![r].pc = "create_receipt",
                          ![r].got = Cardinality(Existing(PORef[req[r].job])) + 1]
    /\ UNCHANGED <<ship, receiving, ordering, inventory, bounds>>

CreateGR(r) ==
    /\ At(r, "create_receipt")
    /\ LET o == PORef[req[r].job]
           g == <<o, req[r].got>>
       IN  /\ g \in Receipts
           /\ \/ /\ receipt[g].status = "none"
                 /\ receipt' = [receipt EXCEPT ![g] = NewRow("Pending")]
                 /\ req' = [req EXCEPT ![r] = [Idle EXCEPT !.pc = "create_line", !.job = g,
                                                           !.left = LinesOf(o)]]
              \/ /\ receipt[g].status # "none"
                 /\ Return(r)
                 /\ UNCHANGED receipt
    /\ UNCHANGED <<ship, lines, typed, ordering, inventory, bounds>>

CreateLine(r) ==
    /\ At(r, "create_line")
    /\ \/ \E s \in req[r].left :
            /\ lines' = [lines EXCEPT ![req[r].job] = @ \cup {s}]
            /\ req' = [req EXCEPT ![r].left = @ \ {s}]
       \/ req[r].left = {} /\ Return(r) /\ UNCHANGED lines
    /\ UNCHANGED <<ship, receipt, typed, ordering, inventory, bounds>>

-----------------------------------------------------------------------------
(***************************************************************************)
(* Goods receipts.  The lock is read and written in two statements, and    *)
(* the status is not looked at.                                            *)
(***************************************************************************)
AcquireLock(r) ==
    \E g \in Receipts, u \in Operators :
        /\ receipt[g].status # "none"
        /\ ~HeldByOther(receipt[g], u)
        /\ Begin(r, "lock_receipt", g, u, receipt[g])

(* Mutant: the lock is saved with the row that was read. *)
LockWholeReceipt(r) ==
    /\ At(r, "lock_receipt")
    /\ receipt' = [receipt EXCEPT ![req[r].job] = Lock(req[r].row, req[r].who)]
    /\ Return(r)
    /\ UNCHANGED <<ship, lines, typed, ordering, inventory, bounds>>

LockReceipt(r) ==
    /\ At(r, "lock_receipt")
    /\ receipt' = [receipt EXCEPT ![req[r].job] = Lock(@, req[r].who)]
    /\ Return(r)
    /\ UNCHANGED <<ship, lines, typed, ordering, inventory, bounds>>

ReleaseLock(r) ==
    /\ Arrive(r)
    /\ \E g \in Receipts :
        /\ receipt[g].by # None
        /\ receipt' = [receipt EXCEPT ![g] = Unlock(@)]
    /\ UNCHANGED <<ship, lines, typed, ordering, inventory, req, clock, faults>>

ProcessBlindReceipt(r) ==
    \E g \in Receipts, u \in Operators :
        /\ HeldBy(receipt[g], u)
        /\ Begin(r, "read_lines", g, u, receipt[g])

(* The operator's counts replace the ones on the lines they name. *)
ReadLines(r) ==
    /\ At(r, "read_lines")
    /\ \E given \in SUBSET lines[req[r].job] : \E count \in [given -> Counts] :
        req' = [req EXCEPT ![r].pc = "line", ![r].left = given,
                           ![r].counts = [s \in SKUs |-> IF s \in given THEN count[s]
                                                         ELSE typed[req[r].job][s]]]
    /\ UNCHANGED <<ship, receiving, ordering, inventory, bounds>>

SaveGRLineItem(r) ==
    /\ At(r, "line")
    /\ \E s \in req[r].left, defective \in BOOLEAN :
        /\ typed' = [typed EXCEPT ![req[r].job][s] = req[r].counts[s]]
        /\ req' = [req EXCEPT ![r].pc = "read_stock", ![r].left = @ \ {s}, ![r].cur = s,
                     ![r].odd = @ \/ defective \/ req[r].counts[s] # Ordered[req[r].job[1]][s]]
    /\ UNCHANGED <<ship, receipt, lines, ordering, inventory, bounds>>

ReadStock(r) ==
    /\ At(r, "read_stock")
    /\ req' = [req EXCEPT ![r].pc = "save_stock", ![r].got = stock[req[r].cur]]
    /\ UNCHANGED <<ship, receiving, ordering, inventory, bounds>>

(* Mutant: the ordered quantity goes to the stock. *)
SaveOrderedStock(r) ==
    /\ At(r, "save_stock")
    /\ LET s == req[r].cur
           n == req[r].counts[s]
       IN  /\ stock' = [stock EXCEPT ![s] = req[r].got + Ordered[req[r].job[1]][s]]
           /\ accepted' = [accepted EXCEPT ![s] = @ + n]
           /\ Goto(r, IF n > 0 THEN "read_balance" ELSE "line")
    /\ UNCHANGED <<ship, receiving, ordering, balance, entered, bounds>>

SaveStock(r) ==
    /\ At(r, "save_stock")
    /\ LET s == req[r].cur
           n == req[r].counts[s]
       IN  /\ stock' = [stock EXCEPT ![s] = req[r].got + n]
           /\ accepted' = [accepted EXCEPT ![s] = @ + n]
           /\ Goto(r, IF n > 0 THEN "read_balance" ELSE "line")
    /\ UNCHANGED <<ship, receiving, ordering, balance, entered, bounds>>

(* RecordEntry, and again after an error. *)
GetLatestBalance(r) ==
    /\ \/ At(r, "read_balance") /\ req' = [req EXCEPT ![r].pc = "write_entry",
                                                      ![r].got = balance[req[r].cur]]
       \/ At(r, "retry_balance") /\ req' = [req EXCEPT ![r].pc = "retry_entry",
                                                       ![r].got = balance[req[r].cur]]
    /\ UNCHANGED <<ship, receiving, ordering, inventory, bounds>>

CreateEntry(r) ==
    /\ req[r].pc \in {"write_entry", "retry_entry"}
    /\ LET s == req[r].cur
           n == req[r].counts[s]
       IN  /\ balance' = [balance EXCEPT ![s] = req[r].got + n]
           /\ entered' = [entered EXCEPT ![s] = @ + n]
    /\ Goto(r, "line")
    /\ UNCHANGED <<ship, receiving, ordering, stock, accepted, bounds>>

(* Mutant: lines nobody has counted are received too. *)
GetAllPOLineItems(r) ==
    /\ At(r, "line")
    /\ req[r].left = {}
    /\ LET o == req[r].job[1]
       IN  req' = [req EXCEPT ![r].pc = "po_line", ![r].seen = poline[o], ![r].left = LinesOf(o)]
    /\ UNCHANGED <<ship, receiving, ordering, inventory, bounds>>

(* The received quantities go to the lines of the purchase order, those of *)
(* lines counted by an earlier request included.                           *)
GetPOLineItems(r) ==
    /\ At(r, "line")
    /\ req[r].left = {}
    /\ LET o == req[r].job[1]
       IN  req' = [req EXCEPT ![r].pc = "po_line", ![r].seen = poline[o],
                              ![r].left = {s \in LinesOf(o) : req[r].counts[s] # None}]
    /\ UNCHANGED <<ship, receiving, ordering, inventory, bounds>>

AddReceived(r, s) ==
    req' = [req EXCEPT ![r].left = @ \ {s}, ![r].seen[s] = @ + req[r].counts[s]]

SavePOLineItem(r) ==
    /\ At(r, "po_line")
    /\ \E s \in req[r].left :
        /\ AddReceived(r, s)
        /\ poline' = [poline EXCEPT ![req[r].job[1]][s] = req[r].seen[s] + req[r].counts[s]]
    /\ UNCHANGED <<ship, receiving, po, inventory, bounds>>

(* UpdateGR saves the whole row that was read, its lock included. *)
UpdateGR(r) ==
    /\ At(r, "po_line")
    /\ req[r].left = {}
    /\ receipt' = [receipt EXCEPT ![req[r].job] =
                    [req[r].row EXCEPT !.status = IF req[r].odd THEN "Discrepancy" ELSE "Complete"]]
    /\ Goto(r, "count_open")
    /\ UNCHANGED <<ship, lines, typed, ordering, inventory, bounds>>

CountOpen(r) ==
    /\ At(r, "count_open")
    /\ IF OpenReceipts(req[r].job[1]) = {} THEN Goto(r, "save_po") ELSE Return(r)
    /\ UNCHANGED <<ship, receiving, ordering, inventory, bounds>>

SavePO(r) ==
    /\ At(r, "save_po")
    /\ po' = [po EXCEPT ![req[r].job[1]] = IF AllReceived(req[r]) THEN "Received" ELSE "Partial"]
    /\ Return(r)
    /\ UNCHANGED <<ship, receiving, poline, inventory, bounds>>

-----------------------------------------------------------------------------
(***************************************************************************)
(* Purchase orders.  ApprovePO saves the whole row; in the server          *)
(* TransitionState has no receipt repository and looks at no receipt.      *)
(***************************************************************************)
ApprovePO(r) ==
    \E o \in POs :
        /\ po[o] = "Draft"
        /\ Begin(r, "write_po", o, None, NewRow("Approved"))

TransitionPO(r) ==
    \E o \in POs, b \in Elements(POStatus) :
        /\ ValidTransition(po[o], b)
        /\ Begin(r, "write_po", o, None, NewRow(b))

WritePOStatus(r) ==
    /\ At(r, "write_po")
    /\ po' = [po EXCEPT ![req[r].job] = req[r].row.status]
    /\ Return(r)
    /\ UNCHANGED <<ship, receiving, poline, inventory, bounds>>

-----------------------------------------------------------------------------
(***************************************************************************)
(* Failures.  Most errors end the request where it stands.                 *)
(***************************************************************************)
Failing(r) ==
    \/ req[r].pc \in {"lock_ship", "save_ship", "save_delivered", "count_receipts", "create_receipt",
                      "lock_receipt", "read_lines", "line", "read_stock", "save_stock",
                      "save_po", "write_po"}
    \/ At(r, "create_line") /\ req[r].left # {}
    \/ At(r, "po_line") /\ req[r].left = {}

CallFails(r) == Failing(r) /\ Return(r)

(* FindGRsByPOID failed: the receipt gets the number 1. *)
CountIgnored(r) ==
    /\ At(r, "count_receipts")
    /\ req' = [req EXCEPT ![r].pc = "create_receipt", ![r].got = 1]

(* Mutant: the error of the first attempt is only logged. *)
LogEntryError(r) ==
    /\ req[r].pc \in {"read_balance", "write_entry"}
    /\ Goto(r, "line")

(* RecordEntry failed: once more, then the line is left without an entry. *)
RetryEntry(r) ==
    /\ req[r].pc \in {"read_balance", "write_entry"}
    /\ Goto(r, "retry_balance")

EntryGivenUp(r) ==
    /\ req[r].pc \in {"retry_balance", "retry_entry"}
    /\ Goto(r, "line")

(* GetPOLineItemsByPOID failed: the purchase order seems to have no line. *)
LinesIgnored(r) ==
    /\ At(r, "line")
    /\ req[r].left = {}
    /\ Goto(r, "po_line")

(* SavePOLineItem failed: the line is received in memory only. *)
SaveIgnored(r) ==
    /\ At(r, "po_line")
    /\ \E s \in req[r].left : AddReceived(r, s)

(* CountByPOIDAndNotStatus failed: no receipt seems open. *)
OpenIgnored(r) == At(r, "count_open") /\ Goto(r, "save_po")

CallFailure(r) ==
    /\ faults < MaxFaults
    /\ faults' = faults + 1
    /\ \/ CallFails(r) \/ CountIgnored(r) \/ RetryEntry(r) \/ EntryGivenUp(r)
       \/ LinesIgnored(r) \/ SaveIgnored(r) \/ OpenIgnored(r)
    /\ UNCHANGED <<ship, receiving, ordering, inventory, clock, calls>>

Crash ==
    /\ faults + 2 <= MaxFaults
    /\ faults' = faults + 2
    /\ req' = [r \in Requests |-> Idle]
    /\ UNCHANGED <<ship, receiving, ordering, inventory, clock, calls>>

LocksExpire ==
    /\ clock < MaxTime
    /\ clock' = clock + 1
    /\ UNCHANGED <<ship, receiving, ordering, inventory, req, calls, faults>>

-----------------------------------------------------------------------------
Init ==
    /\ ship = [x \in Shipments |-> NewRow("none")]
    /\ receipt = [g \in Receipts |-> NewRow("none")]
    /\ lines = [g \in Receipts |-> {}]
    /\ typed = [g \in Receipts |-> NoCounts]
    /\ po = [o \in POs |-> "Draft"]
    /\ poline = [o \in POs |-> [s \in SKUs |-> 0]]
    /\ stock = [s \in SKUs |-> 0]
    /\ balance = [s \in SKUs |-> 0]
    /\ entered = [s \in SKUs |-> 0]
    /\ accepted = [s \in SKUs |-> 0]
    /\ clock = 0
    /\ req = [r \in Requests |-> Idle]
    /\ calls = 0
    /\ faults = 0

ShipmentStep(r) ==
    \/ AcquireDispatchLock(r) \/ LockShipment(r) \/ ReleaseDispatchLock(r)
    \/ DispatchShipment(r) \/ TransitionShipment(r) \/ MarkDelivered(r) \/ UpdateShipment(r)
    \/ CountReceipts(r) \/ CreateGR(r) \/ CreateLine(r)

ReceiptStep(r) ==
    \/ AcquireLock(r) \/ LockReceipt(r) \/ ReleaseLock(r)
    \/ ProcessBlindReceipt(r) \/ ReadLines(r) \/ SaveGRLineItem(r)
    \/ ReadStock(r) \/ SaveStock(r) \/ GetLatestBalance(r) \/ CreateEntry(r)
    \/ GetPOLineItems(r) \/ SavePOLineItem(r) \/ UpdateGR(r) \/ CountOpen(r) \/ SavePO(r)

OrderStep(r) == ApprovePO(r) \/ TransitionPO(r) \/ WritePOStatus(r)

Next ==
    \/ \E r \in Requests : ShipmentStep(r) \/ ReceiptStep(r) \/ OrderStep(r) \/ CallFailure(r)
    \/ CreateShipment \/ Crash \/ LocksExpire

Spec == Init /\ [][Next]_vars

-----------------------------------------------------------------------------
Labels ==
    {"idle", "lock_ship", "save_ship", "save_delivered", "count_receipts", "create_receipt",
     "create_line", "lock_receipt", "read_lines", "line", "read_stock", "save_stock",
     "read_balance", "write_entry", "retry_balance", "retry_entry", "po_line", "count_open",
     "save_po", "write_po"}
AtShipment == {"lock_ship", "save_ship", "save_delivered", "count_receipts", "create_receipt"}
AtLine == {"read_stock", "save_stock", "read_balance", "write_entry", "retry_balance", "retry_entry"}
Counting == AtLine \cup {"read_lines", "line", "po_line", "count_open", "save_po"}
AtReceipt == Counting \cup {"create_line", "lock_receipt"}

Request ==
    [pc : Labels, job : Shipments \cup Receipts \cup POs \cup {None}, who : Operators \cup {None},
     row : Row, counts : [SKUs -> Counts \cup {None}], left : SUBSET SKUs,
     cur : SKUs \cup {None}, got : Nat, seen : [SKUs -> Nat \cup {None}], odd : BOOLEAN]

(* What a request must hold when it stands at a statement: the shipment,   *)
(* receipt, purchase order and line the statement works on.                *)
RequestOK(q) ==
    /\ q.pc \in AtShipment => q.job \in Shipments
    /\ q.pc \in AtReceipt => q.job \in Receipts
    /\ q.pc = "write_po" => q.job \in POs /\ q.row.status \in Elements(POStatus)
    /\ q.pc \in {"lock_ship", "lock_receipt"} => q.who \in Operators
    /\ q.pc \in AtLine => q.cur \in SKUs /\ q.counts[q.cur] \in Counts
    /\ q.pc \in AtLine \cup {"line", "po_line"} => \A s \in q.left : q.counts[s] \in Counts
    /\ q.pc = "po_line" => \A s \in q.left : q.seen[s] \in Nat

(* Every variable has its type, and the rows and quantities a request      *)
(* holds are there when the statement it stands at uses them.              *)
TypeOK ==
    /\ ship \in [Shipments -> Row]
    /\ receipt \in [Receipts -> Row]
    /\ lines \in [Receipts -> SUBSET SKUs]
    /\ typed \in [Receipts -> [SKUs -> Counts \cup {None}]]
    /\ po \in [POs -> Elements(POStatus)]
    /\ poline \in [POs -> [SKUs -> Nat]]
    /\ stock \in [SKUs -> Nat] /\ balance \in [SKUs -> Nat]
    /\ entered \in [SKUs -> Nat] /\ accepted \in [SKUs -> Nat]
    /\ clock \in 0..MaxTime /\ calls \in 0..MaxCalls /\ faults \in 0..MaxFaults
    /\ req \in [Requests -> Request]
    /\ \A r \in Requests : RequestOK(req[r])

(* The stock never holds more than operators have counted, nor does the    *)
(* running balance exceed the entries: whatever requests overlap, fail or  *)
(* stop, SaveStock and CreateEntry never write above what was read plus    *)
(* what was counted (they may write below it).                             *)
StockBacked == \A s \in SKUs : stock[s] <= accepted[s] /\ balance[s] <= entered[s]

(* StockBacked with what makes it inductive: a quantity a request has read *)
(* and not yet written back is not above the sum either.                   *)
BackedInv ==
    /\ StockBacked
    /\ \A r \in Requests :
        /\ At(r, "save_stock") => req[r].got <= accepted[req[r].cur]
        /\ req[r].pc \in {"write_entry", "retry_entry"} => req[r].got <= entered[req[r].cur]

(* Up to one failure, the entries of a component add up to what its stock  *)
(* was given as soon as no request stands between the two: RecordEntry is  *)
(* tried twice and an entry is never written twice.                        *)
EntriesComplete ==
    \A s \in SKUs :
        (faults < 2 /\ \A r \in Requests : ~(req[r].pc \in AtLine /\ req[r].cur = s))
            => entered[s] = accepted[s]

(* The receipts of a purchase order are numbered 1, 2, ... without a gap,  *)
(* though MarkDelivered numbers them by a count it may fail to read or     *)
(* read while another delivery creates one.                                *)
ReceiptsNumbered ==
    \A o \in POs : \A n \in Existing(o) : 1..n \subseteq Existing(o)

(* ReceiptsNumbered with what makes it inductive: the receipts below the   *)
(* number a delivery has chosen are there, and the receipt a request locks *)
(* or counts is there; one that is not there is not locked.                *)
NumberedInv ==
    /\ ReceiptsNumbered
    /\ \A g \in Receipts : receipt[g].by # None => receipt[g].status # "none"
    /\ \A r \in Requests :
        /\ At(r, "create_receipt") => 1..(req[r].got - 1) \subseteq Existing(PORef[req[r].job])
        /\ req[r].pc \in AtReceipt => receipt[req[r].job].status # "none"

(* A receipt that has been counted never goes back to waiting, and no      *)
(* receipt disappears: neither a late lock nor a second count nor a        *)
(* refused creation does that.                                             *)
CountedStays ==
    [][\A g \in Receipts :
        /\ receipt[g].status \in Counted => receipt'[g].status \in Counted
        /\ receipt[g].status # "none" => receipt'[g].status # "none"]_vars

(* No two operators count the same receipt while its lock has not expired: *)
(* scm-docs.md asks for atomic session locks of 60 minutes for receiving.  *)
OneCounter ==
    \A r, q \in Requests :
        (clock = 0 /\ req[r].pc \in Counting /\ req[q].pc \in Counting /\ req[r].job = req[q].job)
            => req[r].who = req[q].who
=============================================================================
