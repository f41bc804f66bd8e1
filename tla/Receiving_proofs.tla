-------------------------- MODULE Receiving_proofs --------------------------
(***************************************************************************)
(* Proofs about receiving, for any number of purchase orders, components,  *)
(* shipments, operators, requests, receipts, calls and failures.           *)
(***************************************************************************)
EXTENDS Receiving, FiniteSetTheorems, Sums, TLAPS

-----------------------------------------------------------------------------
(***************************************************************************)
(* Type correctness.  A step replaces what one request holds.              *)
(***************************************************************************)
RequestsOK ==
    /\ req \in [Requests -> Request]
    /\ \A r \in Requests : RequestOK(req[r])

LEMMA ReplaceRequest ==
  ASSUME RequestsOK, NEW r \in Requests, NEW q \in Request, RequestOK(q),
         req' = [req EXCEPT ![r] = q]
  PROVE  RequestsOK'
  BY DEF RequestsOK, RequestOK

LEMMA StatesType ==
  /\ Elements(ShipStatus) = {"Scheduled", "In Transit", "Delivered", "Delayed"}
  /\ Elements(POStatus) = {"Draft", "Approved", "In Transit", "Partial", "Received", "Void"}
<1>1. Elements(ShipStatus) = {ShipStatus[1], ShipStatus[2], ShipStatus[3], ShipStatus[4]}
  <2>1. DOMAIN ShipStatus = {1, 2, 3, 4}
    BY DEF ShipStatus
  <2> QED
    BY <2>1 DEF Elements
<1>2. Elements(POStatus) = {POStatus[1], POStatus[2], POStatus[3], POStatus[4], POStatus[5], POStatus[6]}
  <2>1. DOMAIN POStatus = {1, 2, 3, 4, 5, 6}
    BY DEF POStatus
  <2> QED
    BY <2>1 DEF Elements
<1> QED
  BY <1>1, <1>2 DEF ShipStatus, POStatus

LEMMA NewRowType == \A b \in Statuses : NewRow(b) \in Row
  BY ReceivingAssumption DEF NewRow, Row

LEMMA StatusChange ==
  ASSUME NEW v \in Row, NEW b \in Statuses
  PROVE  [v EXCEPT !.status = b] \in Row
  BY DEF Row

LEMMA UnlockType ==
  ASSUME NEW v \in Row
  PROVE  Unlock(v) \in Row /\ Unlock(v).status = v.status /\ Unlock(v).by = None
<1>1. 0 \in 0..(MaxTime + 1)
  BY ReceivingAssumption
<1> QED
  BY <1>1 DEF Unlock, Row

LEMMA LockType ==
  ASSUME clock \in 0..MaxTime, NEW v \in Row, NEW u \in Operators
  PROVE  Lock(v, u) \in Row /\ Lock(v, u).status = v.status
<1>1. clock + 1 \in 0..(MaxTime + 1)
  BY ReceivingAssumption
<1> QED
  BY <1>1 DEF Lock, Row

LEMMA IdleType == Idle \in Request /\ RequestOK(Idle)
<1>1. NewRow("none") \in Row
  BY NewRowType DEF Statuses
<1>2. Idle \in Request
  BY <1>1 DEF Idle, Request, Labels, NoCounts
<1> QED
  BY <1>2 DEF Idle, RequestOK, AtShipment, AtReceipt, AtLine, Counting

LEMMA ReturnKeeps ==
  ASSUME RequestsOK, NEW r \in Requests, Return(r)
  PROVE  RequestsOK'
  BY IdleType, ReplaceRequest DEF Return

LEMMA GotoKeeps ==
  ASSUME RequestsOK, NEW r \in Requests, NEW l \in Labels, Goto(r, l),
         RequestOK([req[r] EXCEPT !.pc = l])
  PROVE  RequestsOK'
<1>1. [req[r] EXCEPT !.pc = l] \in Request
  BY DEF RequestsOK, Request
<1>2. req' = [req EXCEPT ![r] = [req[r] EXCEPT !.pc = l]]
  BY DEF Goto
<1> QED
  BY <1>1, <1>2, ReplaceRequest

LEMMA BeginKeeps ==
  ASSUME RequestsOK, NEW r \in Requests, NEW label \in {"lock_ship", "save_ship", "save_delivered", "lock_receipt", "read_lines", "write_po"},
         NEW x, NEW u \in Operators \cup {None}, NEW v \in Row, Begin(r, label, x, u, v),
         label \in {"lock_ship", "save_ship", "save_delivered"} => x \in Shipments,
         label \in {"lock_receipt", "read_lines"} => x \in Receipts,
         label \in {"lock_ship", "lock_receipt"} => u \in Operators,
         label = "write_po" => x \in POs /\ v.status \in Elements(POStatus)
  PROVE  RequestsOK'
<1> DEFINE q == [Idle EXCEPT !.pc = label, !.job = x, !.who = u, !.row = v]
<1>1. x \in Shipments \cup Receipts \cup POs
  OBVIOUS
<1>2. q \in Request
  BY <1>1, IdleType DEF Request, Labels
<1>3. q.pc = label /\ q.job = x /\ q.who = u /\ q.row = v /\ q.left = {}
  BY DEF Idle
<1>4. RequestOK(q)
  BY <1>3 DEF RequestOK, AtShipment, AtReceipt, AtLine, Counting
<1> QED
  BY <1>2, <1>4, ReplaceRequest DEF Begin

LEMMA ExistingFinite ==
  ASSUME NEW o
  PROVE  IsFiniteSet(Existing(o)) /\ Cardinality(Existing(o)) \in Nat
<1>1. IsFiniteSet(1..MaxReceipts)
  BY FS_Interval, ReceivingAssumption
<1>2. Existing(o) \subseteq 1..MaxReceipts
  BY DEF Existing
<1> QED
  BY <1>1, <1>2, FS_Subset, FS_CardinalityType

LEMMA AddReceivedKeeps ==
  ASSUME RequestsOK, NEW r \in Requests, At(r, "po_line"), NEW s \in req[r].left, AddReceived(r, s)
  PROVE  RequestsOK' /\ s \in SKUs /\ req[r].seen[s] + req[r].counts[s] \in Nat
<1> DEFINE p == req[r]
           f == [p.seen EXCEPT ![s] = p.seen[s] + p.counts[s]]
           q == [p EXCEPT !.left = p.left \ {s}, !.seen = f]
<1>1. /\ p \in Request /\ s \in SKUs /\ p.job \in Receipts
      /\ \A x \in p.left : p.counts[x] \in Nat /\ p.counts[x] \in Counts /\ p.seen[x] \in Nat
  BY ReceivingAssumption DEF RequestsOK, RequestOK, Request, At, AtReceipt, Counting, Counts
<1>2. f \in [SKUs -> Nat \cup {None}] /\ \A x \in p.left : f[x] \in Nat
  <2>1. p.seen \in [SKUs -> Nat \cup {None}] /\ p.seen[s] + p.counts[s] \in Nat
    BY <1>1 DEF Request
  <2> QED
    BY <1>1, <2>1
<1> HIDE DEF f
<1>3. /\ q \in Request /\ q.pc = p.pc /\ q.job = p.job /\ q.left = p.left \ {s}
      /\ q.counts = p.counts /\ q.seen = f
  BY <1>1, <1>2 DEF Request
<1>4. RequestOK(q)
  BY <1>1, <1>2, <1>3 DEF At, RequestOK, AtShipment, AtLine
<1>5. req' = [req EXCEPT ![r] = q]
  BY DEF AddReceived, f
<1>6. RequestsOK'
  BY <1>3, <1>4, <1>5, ReplaceRequest
<1>7. p.seen[s] + p.counts[s] \in Nat
  BY <1>1
<1> QED
  BY <1>1, <1>6, <1>7

LEMMA RequestsStep == TypeOK /\ [Next]_vars => RequestsOK'
<1> SUFFICES ASSUME TypeOK, [Next]_vars PROVE RequestsOK'
  OBVIOUS
<1>0. RequestsOK
  BY DEF TypeOK, RequestsOK
<1> USE <1>0, ReceivingAssumption
<1>1. ASSUME UNCHANGED req PROVE RequestsOK'
  BY <1>1 DEF RequestsOK
<1>2. ASSUME NEW r \in Requests, ShipmentStep(r) PROVE RequestsOK'
  <2>1. CASE AcquireDispatchLock(r)
    <3>1. PICK x \in Shipments, u \in Operators : Begin(r, "lock_ship", x, u, ship[x])
      BY <2>1 DEF AcquireDispatchLock
    <3> QED
      BY <3>1, BeginKeeps DEF TypeOK
  <2>2. CASE DispatchShipment(r)
    <3>1. PICK x \in Shipments, u \in Operators :
            Begin(r, "save_ship", x, u, Unlock([ship[x] EXCEPT !.status = "In Transit"]))
      BY <2>2 DEF DispatchShipment
    <3>2. "In Transit" \in Statuses
      BY StatesType DEF Statuses
    <3>3. [ship[x] EXCEPT !.status = "In Transit"] \in Row
      BY <3>2, StatusChange DEF TypeOK
    <3>4. Unlock([ship[x] EXCEPT !.status = "In Transit"]) \in Row
      BY <3>3, UnlockType
    <3> QED
      BY <3>1, <3>4, BeginKeeps
  <2>3. CASE TransitionShipment(r)
    <3>1. PICK x \in Shipments, b \in Elements(ShipStatus) :
            Begin(r, "save_ship", x, None, [ship[x] EXCEPT !.status = b])
      BY <2>3 DEF TransitionShipment
    <3>2. [ship[x] EXCEPT !.status = b] \in Row
      BY StatusChange DEF TypeOK, Statuses
    <3> QED
      BY <3>1, <3>2, BeginKeeps
  <2>4. CASE MarkDelivered(r)
    <3>1. PICK x \in Shipments :
            Begin(r, "save_delivered", x, None, [ship[x] EXCEPT !.status = "Delivered"])
      BY <2>4 DEF MarkDelivered
    <3>2. "Delivered" \in Statuses
      BY StatesType DEF Statuses
    <3>3. [ship[x] EXCEPT !.status = "Delivered"] \in Row
      BY <3>2, StatusChange DEF TypeOK
    <3> QED
      BY <3>1, <3>3, BeginKeeps
  <2>5. CASE LockShipment(r)
    BY <2>5, ReturnKeeps DEF LockShipment
  <2>6. CASE ReleaseDispatchLock(r)
    BY <2>6, <1>1 DEF ReleaseDispatchLock
  <2>7. CASE UpdateShipment(r)
    <3>1. CASE Return(r)
      BY <3>1, ReturnKeeps
    <3>2. CASE At(r, "save_delivered") /\ Goto(r, "count_receipts")
      <4>1. RequestOK([req[r] EXCEPT !.pc = "count_receipts"])
        BY <3>2 DEF RequestsOK, RequestOK, Request, At, AtShipment, AtReceipt, AtLine, Counting
      <4> QED
        BY <3>2, <4>1, GotoKeeps DEF Labels
    <3> QED
      BY <2>7, <3>1, <3>2 DEF UpdateShipment
  <2>8. CASE CountReceipts(r)
    <3> DEFINE n == Cardinality(Existing(PORef[req[r].job])) + 1
               q == [req[r] EXCEPT !.pc = "create_receipt", !.got = n]
    <3>1. n \in Nat
      BY ExistingFinite
    <3> HIDE DEF n
    <3>2. q \in Request /\ RequestOK(q)
      <4>1. q \in Request /\ q.pc = "create_receipt" /\ q.job = req[r].job
        <5>1. req[r] \in Request
          BY DEF RequestsOK
        <5> QED
          BY <3>1, <5>1 DEF Request, Labels
      <4>2. q.job \in Shipments
        BY <2>8, <4>1 DEF CountReceipts, At, RequestsOK, RequestOK, AtShipment
      <4> QED
        BY <4>1, <4>2 DEF RequestOK, AtReceipt, AtLine, Counting
    <3>3. req' = [req EXCEPT ![r] = q]
      BY <2>8 DEF CountReceipts, n
    <3> QED
      BY <3>2, <3>3, ReplaceRequest
  <2>9. CASE CreateGR(r)
    <3> DEFINE o == PORef[req[r].job]
               g == <<o, req[r].got>>
               q == [Idle EXCEPT !.pc = "create_line", !.job = g, !.left = LinesOf(o)]
    <3>1. g \in Receipts /\ LinesOf(o) \in SUBSET SKUs
      BY <2>9 DEF CreateGR, LinesOf
    <3> HIDE DEF g, o
    <3>2. q \in Request /\ RequestOK(q)
      <4>1. q \in Request
        BY <3>1, IdleType DEF Request, Labels
      <4>2. q.pc = "create_line" /\ q.job = g
        BY DEF Idle
      <4> QED
        BY <3>1, <4>1, <4>2 DEF RequestOK, AtShipment, AtReceipt, AtLine, Counting
    <3>3. Return(r) \/ req' = [req EXCEPT ![r] = q]
      BY <2>9 DEF CreateGR, g, o
    <3> QED
      BY <3>2, <3>3, ReplaceRequest, ReturnKeeps
  <2>10. CASE CreateLine(r)
    <3>1. CASE Return(r)
      BY <3>1, ReturnKeeps
    <3>2. ASSUME NEW s \in req[r].left, At(r, "create_line"),
                 req' = [req EXCEPT ![r].left = @ \ {s}]
          PROVE  RequestsOK'
      <4> DEFINE q == [req[r] EXCEPT !.left = @ \ {s}]
      <4>1. q \in Request /\ RequestOK(q)
        BY <3>2 DEF RequestsOK, RequestOK, Request, At, AtShipment, AtReceipt, AtLine, Counting
      <4>2. req' = [req EXCEPT ![r] = q]
        BY <3>2
      <4> QED
        BY <4>1, <4>2, ReplaceRequest
    <3> QED
      BY <2>10, <3>1, <3>2 DEF CreateLine
  <2> QED
    BY <1>2, <2>1, <2>2, <2>3, <2>4, <2>5, <2>6, <2>7, <2>8, <2>9, <2>10 DEF ShipmentStep
<1>3. ASSUME NEW r \in Requests, ReceiptStep(r) PROVE RequestsOK'
  <2> DEFINE p == req[r]
  <2>0. p \in Request /\ RequestOK(p)
    BY DEF RequestsOK
  <2>1. CASE AcquireLock(r)
    <3>1. PICK g \in Receipts, u \in Operators : Begin(r, "lock_receipt", g, u, receipt[g])
      BY <2>1 DEF AcquireLock
    <3> QED
      BY <3>1, BeginKeeps DEF TypeOK
  <2>2. CASE ProcessBlindReceipt(r)
    <3>1. PICK g \in Receipts, u \in Operators : Begin(r, "read_lines", g, u, receipt[g])
      BY <2>2 DEF ProcessBlindReceipt
    <3> QED
      BY <3>1, BeginKeeps DEF TypeOK
  <2>3. CASE LockReceipt(r)
    BY <2>3, ReturnKeeps DEF LockReceipt
  <2>4. CASE ReleaseLock(r)
    BY <2>4, <1>1 DEF ReleaseLock
  <2>5. CASE ReadLines(r)
    <3>1. p.pc = "read_lines" /\ p.job \in Receipts
      BY <2>0, <2>5 DEF ReadLines, At, RequestOK, AtReceipt, Counting
    <3>2. PICK given \in SUBSET lines[p.job] : \E count \in [given -> Counts] :
            req' = [req EXCEPT ![r].pc = "line", ![r].left = given,
                     ![r].counts = [s \in SKUs |-> IF s \in given THEN count[s] ELSE typed[p.job][s]]]
      BY <2>5 DEF ReadLines
    <3>3. PICK count \in [given -> Counts] :
            req' = [req EXCEPT ![r].pc = "line", ![r].left = given,
                     ![r].counts = [s \in SKUs |-> IF s \in given THEN count[s] ELSE typed[p.job][s]]]
      BY <3>2
    <3> DEFINE c == [s \in SKUs |-> IF s \in given THEN count[s] ELSE typed[p.job][s]]
               q == [p EXCEPT !.pc = "line", !.left = given, !.counts = c]
    <3>4. given \subseteq SKUs
      BY <3>1 DEF TypeOK
    <3>5. c \in [SKUs -> Counts \cup {None}]
      <4>1. typed[p.job] \in [SKUs -> Counts \cup {None}]
        BY <3>1 DEF TypeOK
      <4> QED
        BY <4>1
    <3>6. \A s \in given : c[s] \in Counts
      BY <3>4
    <3> HIDE DEF c
    <3>7. q \in Request /\ q.pc = "line" /\ q.job = p.job /\ q.left = given /\ q.counts = c
      BY <2>0, <3>4, <3>5 DEF Request, Labels
    <3>8. RequestOK(q)
      BY <3>1, <3>6, <3>7 DEF RequestOK, AtShipment, AtLine
    <3>9. req' = [req EXCEPT ![r] = q]
      BY <3>3 DEF c
    <3> QED
      BY <3>7, <3>8, <3>9, ReplaceRequest
  <2>6. CASE SaveGRLineItem(r)
    <3>1. PICK s \in p.left, defective \in BOOLEAN :
            req' = [req EXCEPT ![r].pc = "read_stock", ![r].left = @ \ {s}, ![r].cur = s,
                     ![r].odd = @ \/ defective \/ p.counts[s] # Ordered[p.job[1]][s]]
      BY <2>6 DEF SaveGRLineItem
    <3> DEFINE b == p.odd \/ defective \/ p.counts[s] # Ordered[p.job[1]][s]
               q == [p EXCEPT !.pc = "read_stock", !.left = p.left \ {s}, !.cur = s, !.odd = b]
    <3>2. b \in BOOLEAN /\ s \in SKUs
      BY <2>0 DEF Request
    <3> HIDE DEF b
    <3>3. /\ q \in Request /\ q.pc = "read_stock" /\ q.job = p.job /\ q.cur = s
          /\ q.left = p.left \ {s} /\ q.counts = p.counts
      BY <2>0, <3>2 DEF Request, Labels
    <3>4. p.job \in Receipts /\ \A x \in p.left : p.counts[x] \in Counts
      BY <2>0, <2>6 DEF SaveGRLineItem, At, RequestOK, AtReceipt, Counting
    <3>5. RequestOK(q)
      BY <3>2, <3>3, <3>4 DEF RequestOK, AtShipment
    <3>6. req' = [req EXCEPT ![r] = q]
      BY <3>1 DEF b
    <3> QED
      BY <3>3, <3>5, <3>6, ReplaceRequest
  <2>7. CASE ReadStock(r) \/ GetLatestBalance(r)
    <3>1. PICK l \in {"save_stock", "write_entry", "retry_entry"}, n \in Nat :
            req' = [req EXCEPT ![r].pc = l, ![r].got = n] /\ p.pc \in AtLine
      <4>1. p.pc \in AtLine => stock[p.cur] \in Nat /\ balance[p.cur] \in Nat
        BY <2>0 DEF RequestOK, TypeOK
      <4>2. p.pc \in AtLine
        BY <2>7 DEF ReadStock, GetLatestBalance, At, AtLine
      <4> QED
        BY <2>7, <4>1, <4>2 DEF ReadStock, GetLatestBalance
    <3> DEFINE q == [p EXCEPT !.pc = l, !.got = n]
    <3>2. /\ q \in Request /\ q.pc = l /\ q.job = p.job /\ q.cur = p.cur
          /\ q.left = p.left /\ q.counts = p.counts
      BY <2>0 DEF Request, Labels
    <3>3. RequestOK(q)
      BY <2>0, <3>1, <3>2 DEF RequestOK, AtShipment, AtReceipt, AtLine, Counting
    <3>4. req' = [req EXCEPT ![r] = q]
      BY <3>1
    <3> QED
      BY <3>2, <3>3, <3>4, ReplaceRequest
  <2>8. CASE SaveStock(r) \/ CreateEntry(r)
    <3>1. p.pc \in AtLine
      BY <2>8 DEF SaveStock, CreateEntry, At, AtLine
    <3>2. PICK l \in {"read_balance", "line"} : Goto(r, l)
      BY <2>8 DEF SaveStock, CreateEntry
    <3>3. RequestOK([p EXCEPT !.pc = l])
      BY <2>0, <3>1 DEF Request, RequestOK, AtShipment, AtReceipt, AtLine, Counting
    <3> QED
      BY <3>2, <3>3, GotoKeeps DEF Labels
  <2>9. CASE GetPOLineItems(r)
    <3>1. p.pc = "line" /\ p.job \in Receipts
      BY <2>0, <2>9 DEF GetPOLineItems, At, RequestOK, AtReceipt, Counting
    <3> DEFINE o == p.job[1]
               S == {s \in LinesOf(o) : p.counts[s] # None}
               q == [p EXCEPT !.pc = "po_line", !.seen = poline[o], !.left = S]
    <3>2. o \in POs
      BY <3>1 DEF Receipts
    <3>3. /\ S \subseteq SKUs /\ \A s \in S : p.counts[s] \in Counts
          /\ poline[o] \in [SKUs -> Nat]
      BY <2>0, <3>2 DEF LinesOf, Request, TypeOK
    <3>4. poline[o] \in [SKUs -> Nat \cup {None}]
      BY <3>3
    <3> HIDE DEF S, o
    <3>5. /\ q \in Request /\ q.pc = "po_line" /\ q.job = p.job
          /\ q.left = S /\ q.counts = p.counts /\ q.seen = poline[o]
      BY <2>0, <3>3, <3>4 DEF Request, Labels
    <3>6. RequestOK(q)
      BY <3>1, <3>3, <3>5 DEF RequestOK, AtShipment, AtLine
    <3>7. req' = [req EXCEPT ![r] = q]
      BY <2>9 DEF GetPOLineItems, S, o
    <3> QED
      BY <3>5, <3>6, <3>7, ReplaceRequest
  <2>10. CASE SavePOLineItem(r)
    BY <2>10, AddReceivedKeeps DEF SavePOLineItem
  <2>11. CASE UpdateGR(r)
    <3>1. RequestOK([p EXCEPT !.pc = "count_open"])
      BY <2>0, <2>11
         DEF UpdateGR, At, Request, RequestOK, AtShipment, AtReceipt, AtLine, Counting
    <3> QED
      BY <2>11, <3>1, GotoKeeps DEF UpdateGR, Labels
  <2>12. CASE CountOpen(r)
    <3>1. RequestOK([p EXCEPT !.pc = "save_po"])
      BY <2>0, <2>12
         DEF CountOpen, At, Request, RequestOK, AtShipment, AtReceipt, AtLine, Counting
    <3> QED
      BY <2>12, <3>1, GotoKeeps, ReturnKeeps DEF CountOpen, Labels
  <2>13. CASE SavePO(r)
    BY <2>13, ReturnKeeps DEF SavePO
  <2> QED
    BY <1>3, <2>1, <2>2, <2>3, <2>4, <2>5, <2>6, <2>7, <2>8, <2>9, <2>10, <2>11, <2>12, <2>13
       DEF ReceiptStep
<1>4. ASSUME NEW r \in Requests, OrderStep(r) PROVE RequestsOK'
  <2>1. CASE ApprovePO(r)
    <3>1. PICK o \in POs : Begin(r, "write_po", o, None, NewRow("Approved"))
      BY <2>1 DEF ApprovePO
    <3>2. "Approved" \in Elements(POStatus) /\ NewRow("Approved") \in Row
      BY StatesType, NewRowType DEF Statuses
    <3> QED
      BY <3>1, <3>2, BeginKeeps DEF NewRow
  <2>2. CASE TransitionPO(r)
    <3>1. PICK o \in POs, b \in Elements(POStatus) : Begin(r, "write_po", o, None, NewRow(b))
      BY <2>2 DEF TransitionPO
    <3>2. NewRow(b) \in Row /\ NewRow(b).status = b
      BY NewRowType DEF Statuses, NewRow
    <3> QED
      BY <3>1, <3>2, BeginKeeps
  <2>3. CASE WritePOStatus(r)
    BY <2>3, ReturnKeeps DEF WritePOStatus
  <2> QED
    BY <1>4, <2>1, <2>2, <2>3 DEF OrderStep
<1>5. ASSUME NEW r \in Requests, CallFailure(r) PROVE RequestsOK'
  <2> DEFINE p == req[r]
  <2>0. p \in Request /\ RequestOK(p)
    BY DEF RequestsOK
  <2>1. CASE CallFails(r)
    BY <2>1, ReturnKeeps DEF CallFails
  <2>2. CASE CountIgnored(r)
    <3> DEFINE q == [p EXCEPT !.pc = "create_receipt", !.got = 1]
    <3>1. q \in Request /\ q.pc = "create_receipt" /\ q.job = p.job
      BY <2>0 DEF Request, Labels
    <3>2. p.job \in Shipments
      BY <2>0, <2>2 DEF CountIgnored, At, RequestOK, AtShipment
    <3>3. RequestOK(q)
      BY <3>1, <3>2 DEF RequestOK, AtReceipt, AtLine, Counting
    <3>4. req' = [req EXCEPT ![r] = q]
      BY <2>2 DEF CountIgnored
    <3> QED
      BY <3>1, <3>3, <3>4, ReplaceRequest
  <2>3. CASE RetryEntry(r) \/ EntryGivenUp(r)
    <3>1. p.pc \in AtLine
      BY <2>3 DEF RetryEntry, EntryGivenUp, AtLine
    <3>2. PICK l \in {"retry_balance", "line"} : Goto(r, l)
      BY <2>3 DEF RetryEntry, EntryGivenUp
    <3>3. RequestOK([p EXCEPT !.pc = l])
      BY <2>0, <3>1 DEF Request, RequestOK, AtShipment, AtReceipt, AtLine, Counting
    <3> QED
      BY <3>2, <3>3, GotoKeeps DEF Labels
  <2>4. CASE LinesIgnored(r)
    <3>1. RequestOK([p EXCEPT !.pc = "po_line"])
      BY <2>0, <2>4
         DEF LinesIgnored, At, Request, RequestOK, AtShipment, AtReceipt, AtLine, Counting
    <3> QED
      BY <2>4, <3>1, GotoKeeps DEF LinesIgnored, Labels
  <2>5. CASE SaveIgnored(r)
    BY <2>5, AddReceivedKeeps DEF SaveIgnored
  <2>6. CASE OpenIgnored(r)
    <3>1. RequestOK([p EXCEPT !.pc = "save_po"])
      BY <2>0, <2>6
         DEF OpenIgnored, At, Request, RequestOK, AtShipment, AtReceipt, AtLine, Counting
    <3> QED
      BY <2>6, <3>1, GotoKeeps DEF OpenIgnored, Labels
  <2> QED
    BY <1>5, <2>1, <2>2, <2>3, <2>4, <2>5, <2>6 DEF CallFailure
<1>6. CASE Crash
  BY <1>6, IdleType DEF Crash, RequestsOK
<1> QED
  BY <1>1, <1>2, <1>3, <1>4, <1>5, <1>6 DEF Next, vars, CreateShipment, LocksExpire

StoreOK ==
    /\ ship \in [Shipments -> Row]
    /\ receipt \in [Receipts -> Row]
    /\ lines \in [Receipts -> SUBSET SKUs]
    /\ typed \in [Receipts -> [SKUs -> Counts \cup {None}]]
    /\ po \in [POs -> Elements(POStatus)]
    /\ poline \in [POs -> [SKUs -> Nat]]
    /\ stock \in [SKUs -> Nat] /\ balance \in [SKUs -> Nat]
    /\ entered \in [SKUs -> Nat] /\ accepted \in [SKUs -> Nat]
    /\ clock \in 0..MaxTime /\ calls \in 0..MaxCalls /\ faults \in 0..MaxFaults

LEMMA StoreStep == TypeOK /\ [Next]_vars => StoreOK'
<1> SUFFICES ASSUME TypeOK, [Next]_vars PROVE StoreOK'
  OBVIOUS
<1>0. StoreOK /\ \A r \in Requests : req[r] \in Request /\ RequestOK(req[r])
  BY DEF TypeOK, StoreOK
<1> USE ReceivingAssumption
<1> USE DEF receiving, ordering, inventory, bounds
<1>1. CASE UNCHANGED vars
  BY <1>0, <1>1 DEF StoreOK, vars
<1>2. CASE CreateShipment
  <2>1. NewRow("Scheduled") \in Row
    BY StatesType, NewRowType DEF Statuses
  <2> QED
    BY <1>0, <1>2, <2>1 DEF CreateShipment, StoreOK
<1>3. CASE Crash \/ LocksExpire
  BY <1>0, <1>3 DEF Crash, LocksExpire, StoreOK
<1>4. ASSUME NEW r \in Requests, CallFailure(r) PROVE StoreOK'
  BY <1>0, <1>4 DEF CallFailure, StoreOK
<1>5. ASSUME NEW r \in Requests, Arrive(r),
             UNCHANGED <<ship, receiving, ordering, inventory, clock, faults>>
      PROVE  StoreOK'
  BY <1>0, <1>5 DEF Arrive, StoreOK
<1>6. ASSUME NEW r \in Requests, ShipmentStep(r) PROVE StoreOK'
  <2>1. CASE AcquireDispatchLock(r) \/ DispatchShipment(r) \/ TransitionShipment(r) \/ MarkDelivered(r)
    BY <1>5, <2>1
       DEF AcquireDispatchLock, DispatchShipment, TransitionShipment, MarkDelivered, Begin
  <2>2. CASE LockShipment(r)
    <3>1. ship[req[r].job] \in Row /\ req[r].who \in Operators
      BY <1>0, <2>2 DEF LockShipment, At, RequestOK, AtShipment, StoreOK
    <3>2. Lock(ship[req[r].job], req[r].who) \in Row
      BY <1>0, <3>1, LockType DEF StoreOK
    <3> QED
      BY <1>0, <2>2, <3>2 DEF LockShipment, StoreOK
  <2>3. CASE ReleaseDispatchLock(r)
    <3>1. PICK x \in Shipments : ship[x].by # None /\ ship' = [ship EXCEPT ![x] = Unlock(ship[x])]
      BY <2>3 DEF ReleaseDispatchLock
    <3>2. Unlock(ship[x]) \in Row
      BY <1>0, UnlockType DEF StoreOK
    <3> QED
      BY <1>0, <2>3, <3>1, <3>2 DEF ReleaseDispatchLock, Arrive, StoreOK
  <2>4. CASE UpdateShipment(r)
    BY <1>0, <2>4 DEF UpdateShipment, StoreOK, Request
  <2>5. CASE CountReceipts(r)
    BY <1>0, <2>5 DEF CountReceipts, StoreOK
  <2>6. CASE CreateGR(r)
    <3>1. NewRow("Pending") \in Row
      BY NewRowType DEF Statuses
    <3> QED
      BY <1>0, <2>6, <3>1 DEF CreateGR, StoreOK
  <2>7. CASE CreateLine(r)
    <3>1. req[r].left \subseteq SKUs
      BY <1>0 DEF Request
    <3> QED
      BY <1>0, <2>7, <3>1 DEF CreateLine, StoreOK
  <2> QED
    BY <1>6, <2>1, <2>2, <2>3, <2>4, <2>5, <2>6, <2>7 DEF ShipmentStep
<1>7. ASSUME NEW r \in Requests, ReceiptStep(r) PROVE StoreOK'
  <2> DEFINE p == req[r]
  <2>0. p \in Request /\ RequestOK(p)
    BY <1>0
  <2>1. CASE AcquireLock(r) \/ ProcessBlindReceipt(r)
    BY <1>5, <2>1 DEF AcquireLock, ProcessBlindReceipt, Begin
  <2>2. CASE LockReceipt(r)
    <3>1. receipt[p.job] \in Row /\ p.who \in Operators
      BY <1>0, <2>2 DEF LockReceipt, At, RequestOK, AtReceipt, StoreOK
    <3>2. Lock(receipt[p.job], p.who) \in Row
      BY <1>0, <3>1, LockType DEF StoreOK
    <3> QED
      BY <1>0, <2>2, <3>2 DEF LockReceipt, StoreOK
  <2>3. CASE ReleaseLock(r)
    <3>1. PICK g \in Receipts : receipt[g].by # None /\ receipt' = [receipt EXCEPT ![g] = Unlock(receipt[g])]
      BY <2>3 DEF ReleaseLock
    <3>2. Unlock(receipt[g]) \in Row
      BY <1>0, UnlockType DEF StoreOK
    <3> QED
      BY <1>0, <2>3, <3>1, <3>2 DEF ReleaseLock, Arrive, StoreOK
  <2>4. CASE ReadLines(r) \/ ReadStock(r) \/ GetLatestBalance(r) \/ GetPOLineItems(r) \/ CountOpen(r)
    BY <1>0, <2>4 DEF ReadLines, ReadStock, GetLatestBalance, GetPOLineItems, CountOpen, StoreOK
  <2>5. CASE SaveGRLineItem(r)
    <3>1. PICK s \in p.left : typed' = [typed EXCEPT ![p.job][s] = p.counts[s]]
      BY <2>5 DEF SaveGRLineItem
    <3>2. s \in SKUs /\ p.counts[s] \in Counts
      BY <2>0, <2>5 DEF SaveGRLineItem, At, Request, RequestOK
    <3>3. typed' \in [Receipts -> [SKUs -> Counts \cup {None}]]
      BY <1>0, <3>1, <3>2 DEF StoreOK
    <3> QED
      BY <1>0, <2>5, <3>3 DEF SaveGRLineItem, StoreOK
  <2>6. CASE SaveStock(r) \/ CreateEntry(r)
    <3>1. p.cur \in SKUs /\ p.counts[p.cur] \in Nat /\ p.got \in Nat
      BY <2>0, <2>6 DEF SaveStock, CreateEntry, At, AtLine, Request, RequestOK, Counts
    <3> DEFINE s == p.cur
               n == p.got + p.counts[s]
               a == accepted[s] + p.counts[s]
               e == entered[s] + p.counts[s]
    <3>2. n \in Nat /\ a \in Nat /\ e \in Nat
      BY <1>0, <3>1 DEF StoreOK
    <3>3. stock' \in {stock, [stock EXCEPT ![s] = n]} /\ accepted' \in {accepted, [accepted EXCEPT ![s] = a]}
      BY <2>6 DEF SaveStock, CreateEntry
    <3>4. balance' \in {balance, [balance EXCEPT ![s] = n]} /\ entered' \in {entered, [entered EXCEPT ![s] = e]}
      BY <2>6 DEF SaveStock, CreateEntry
    <3> HIDE DEF n, a, e, s
    <3>5. \A f \in [SKUs -> Nat], k \in Nat : [f EXCEPT ![s] = k] \in [SKUs -> Nat]
      OBVIOUS
    <3>6. /\ stock' \in [SKUs -> Nat] /\ balance' \in [SKUs -> Nat]
          /\ entered' \in [SKUs -> Nat] /\ accepted' \in [SKUs -> Nat]
      <4>1. /\ stock \in [SKUs -> Nat] /\ balance \in [SKUs -> Nat]
            /\ entered \in [SKUs -> Nat] /\ accepted \in [SKUs -> Nat]
        BY <1>0 DEF StoreOK
      <4>2. stock' \in [SKUs -> Nat]
        BY <3>2, <3>3, <3>5, <4>1
      <4>3. balance' \in [SKUs -> Nat]
        BY <3>2, <3>4, <3>5, <4>1
      <4>4. entered' \in [SKUs -> Nat]
        BY <3>2, <3>4, <3>5, <4>1
      <4>5. accepted' \in [SKUs -> Nat]
        BY <3>2, <3>3, <3>5, <4>1
      <4> QED
        BY <4>2, <4>3, <4>4, <4>5
    <3> QED
      BY <1>0, <2>6, <3>6 DEF SaveStock, CreateEntry, StoreOK
  <2>7. CASE SavePOLineItem(r)
    <3>1. PICK s \in p.left :
            AddReceived(r, s) /\ poline' = [poline EXCEPT ![p.job[1]][s] = p.seen[s] + p.counts[s]]
      BY <2>7 DEF SavePOLineItem
    <3>2. s \in SKUs /\ p.seen[s] + p.counts[s] \in Nat
      BY <2>7, <3>1, AddReceivedKeeps DEF SavePOLineItem, TypeOK, RequestsOK
    <3>3. poline' \in [POs -> [SKUs -> Nat]]
      BY <1>0, <3>1, <3>2 DEF StoreOK
    <3> QED
      BY <1>0, <2>7, <3>3 DEF SavePOLineItem, StoreOK
  <2>8. CASE UpdateGR(r)
    <3> DEFINE b == IF p.odd THEN "Discrepancy" ELSE "Complete"
    <3>1. [p.row EXCEPT !.status = b] \in Row
      BY <2>0, StatusChange DEF Request, Statuses, Counted
    <3> QED
      BY <1>0, <2>8, <3>1 DEF UpdateGR, StoreOK
  <2>9. CASE SavePO(r)
    BY <1>0, <2>9, StatesType DEF SavePO, StoreOK
  <2> QED
    BY <1>7, <2>1, <2>2, <2>3, <2>4, <2>5, <2>6, <2>7, <2>8, <2>9 DEF ReceiptStep
<1>8. ASSUME NEW r \in Requests, OrderStep(r) PROVE StoreOK'
  <2>1. CASE ApprovePO(r) \/ TransitionPO(r)
    BY <1>5, <2>1 DEF ApprovePO, TransitionPO, Begin
  <2>2. CASE WritePOStatus(r)
    BY <1>0, <2>2 DEF WritePOStatus, At, RequestOK, StoreOK
  <2> QED
    BY <1>8, <2>1, <2>2 DEF OrderStep
<1> QED
  BY <1>1, <1>2, <1>3, <1>4, <1>6, <1>7, <1>8 DEF Next

LEMMA TypeInit == Init => TypeOK
<1> SUFFICES ASSUME Init PROVE TypeOK
  OBVIOUS
<1>1. NewRow("none") \in Row /\ "Draft" \in Elements(POStatus) /\ NoCounts \in [SKUs -> Counts \cup {None}]
  BY NewRowType, StatesType DEF Statuses, NoCounts
<1> QED
  BY <1>1, IdleType, ReceivingAssumption DEF Init, TypeOK

(* In every reachable state the rows, quantities and requests have their   *)
(* types, and a request holds what the statement it stands at needs.       *)
THEOREM TypeCorrect == Spec => []TypeOK
<1>1. TypeOK /\ [Next]_vars => TypeOK'
  BY RequestsStep, StoreStep DEF TypeOK, RequestsOK, StoreOK
<1> QED
  BY <1>1, TypeInit, PTL DEF Spec
-----------------------------------------------------------------------------
(***************************************************************************)
(* The stock and the running balance stay within what was counted.  Only   *)
(* four steps read or write them; any other leaves every request as it is  *)
(* or away from the statements that write them.                            *)
(***************************************************************************)
Writing == {"save_stock", "write_entry", "retry_entry"}
Elsewhere == \A r \in Requests : req'[r] = req[r] \/ req'[r].pc \notin Writing

LEMMA BackedElsewhere ==
  ASSUME BackedInv, UNCHANGED inventory, Elsewhere
  PROVE  BackedInv'
  BY DEF BackedInv, StockBacked, inventory, Elsewhere, Writing, At

LEMMA OthersElsewhere ==
  ASSUME TypeOK, [Next]_vars,
         \A r \in Requests : ~(ReadStock(r) \/ GetLatestBalance(r) \/ SaveStock(r) \/ CreateEntry(r))
  PROVE  Elsewhere /\ UNCHANGED inventory
<1>0. req \in [Requests -> Request]
  BY DEF TypeOK
<1> USE DEF Elsewhere, Writing
<1>1. ASSUME NEW r \in Requests, Return(r) PROVE Elsewhere
  BY <1>0, <1>1 DEF Return, Idle
<1>2. ASSUME NEW r \in Requests, NEW l, l \notin Writing, Goto(r, l) PROVE Elsewhere
  BY <1>0, <1>2 DEF Goto, Request
<1>3. ASSUME NEW r \in Requests, NEW l, l \notin Writing, NEW x, NEW u, NEW v, Begin(r, l, x, u, v)
      PROVE  Elsewhere /\ UNCHANGED inventory
  BY <1>0, <1>3 DEF Begin, Idle
<1>4. ASSUME NEW r \in Requests, NEW s, AddReceived(r, s), At(r, "po_line") PROVE Elsewhere
  BY <1>0, <1>4 DEF AddReceived, At, Request
<1>5. ASSUME NEW r \in Requests, ShipmentStep(r) PROVE Elsewhere /\ UNCHANGED inventory
  <2>1. CASE AcquireDispatchLock(r)
    BY <1>3, <2>1 DEF AcquireDispatchLock
  <2>2. CASE DispatchShipment(r)
    BY <1>3, <2>2 DEF DispatchShipment
  <2>3. CASE TransitionShipment(r)
    BY <1>3, <2>3 DEF TransitionShipment
  <2>4. CASE MarkDelivered(r)
    BY <1>3, <2>4 DEF MarkDelivered
  <2>5. CASE LockShipment(r)
    BY <1>1, <2>5 DEF LockShipment
  <2>6. CASE ReleaseDispatchLock(r)
    BY <2>6 DEF ReleaseDispatchLock
  <2>7. CASE UpdateShipment(r)
    BY <1>1, <1>2, <2>7 DEF UpdateShipment
  <2>8. CASE CountReceipts(r)
    BY <1>0, <2>8 DEF CountReceipts, Request
  <2>9. CASE CreateGR(r)
    <3>1. Return(r) \/ \E g, S : req' = [req EXCEPT ![r] =
                        [Idle EXCEPT !.pc = "create_line", !.job = g, !.left = S]]
      BY <2>9 DEF CreateGR
    <3>2. UNCHANGED inventory
      BY <2>9 DEF CreateGR
    <3> QED
      BY <1>0, <1>1, <3>1, <3>2 DEF Idle
  <2>10. CASE CreateLine(r)
    BY <1>0, <1>1, <2>10 DEF CreateLine, At, Request
  <2> QED
    BY <1>5, <2>1, <2>2, <2>3, <2>4, <2>5, <2>6, <2>7, <2>8, <2>9, <2>10 DEF ShipmentStep
<1>6. ASSUME NEW r \in Requests, ReceiptStep(r) PROVE Elsewhere /\ UNCHANGED inventory
  <2>1. CASE AcquireLock(r)
    BY <1>3, <2>1 DEF AcquireLock
  <2>2. CASE ProcessBlindReceipt(r)
    BY <1>3, <2>2 DEF ProcessBlindReceipt
  <2>3. CASE LockReceipt(r)
    BY <1>1, <2>3 DEF LockReceipt
  <2>4. CASE ReleaseLock(r)
    BY <2>4 DEF ReleaseLock
  <2>5. CASE ReadLines(r)
    BY <1>0, <2>5 DEF ReadLines, Request
  <2>6. CASE SaveGRLineItem(r)
    BY <1>0, <2>6 DEF SaveGRLineItem, Request
  <2>7. CASE GetPOLineItems(r)
    BY <1>0, <2>7 DEF GetPOLineItems, Request
  <2>8. CASE SavePOLineItem(r)
    BY <1>4, <2>8 DEF SavePOLineItem
  <2>9. CASE UpdateGR(r)
    BY <1>2, <2>9 DEF UpdateGR
  <2>10. CASE CountOpen(r)
    BY <1>1, <1>2, <2>10 DEF CountOpen
  <2>11. CASE SavePO(r)
    BY <1>1, <2>11 DEF SavePO
  <2> QED
    BY <1>6, <2>1, <2>2, <2>3, <2>4, <2>5, <2>6, <2>7, <2>8, <2>9, <2>10, <2>11 DEF ReceiptStep
<1>7. ASSUME NEW r \in Requests, OrderStep(r) PROVE Elsewhere /\ UNCHANGED inventory
  <2>1. CASE ApprovePO(r)
    BY <1>3, <2>1 DEF ApprovePO
  <2>2. CASE TransitionPO(r)
    BY <1>3, <2>2 DEF TransitionPO
  <2>3. CASE WritePOStatus(r)
    BY <1>1, <2>3 DEF WritePOStatus
  <2> QED
    BY <1>7, <2>1, <2>2, <2>3 DEF OrderStep
<1>8. ASSUME NEW r \in Requests, CallFailure(r) PROVE Elsewhere /\ UNCHANGED inventory
  <2>1. CASE CountIgnored(r)
    BY <1>0, <1>8, <2>1 DEF CountIgnored, CallFailure, Request
  <2>2. CASE SaveIgnored(r)
    BY <1>4, <1>8, <2>2 DEF SaveIgnored, CallFailure
  <2> QED
    BY <1>1, <1>2, <1>8, <2>1, <2>2
    DEF CallFailure, CallFails, RetryEntry, EntryGivenUp, LinesIgnored, OpenIgnored
<1>9. CASE UNCHANGED vars \/ CreateShipment \/ Crash \/ LocksExpire
  BY <1>9 DEF vars, inventory, CreateShipment, Crash, LocksExpire, Idle
<1> QED
  BY <1>5, <1>6, <1>7, <1>8, <1>9 DEF Next

LEMMA BackedStep == TypeOK /\ BackedInv /\ [Next]_vars => BackedInv'
<1> SUFFICES ASSUME TypeOK, BackedInv, [Next]_vars PROVE BackedInv'
  OBVIOUS
<1>0. /\ \A r \in Requests : req[r] \in Request /\ RequestOK(req[r])
      /\ req \in [Requests -> Request]
      /\ stock \in [SKUs -> Nat] /\ balance \in [SKUs -> Nat]
      /\ entered \in [SKUs -> Nat] /\ accepted \in [SKUs -> Nat]
  BY DEF TypeOK
<1>1. ASSUME NEW r \in Requests, ReadStock(r) \/ GetLatestBalance(r) PROVE BackedInv'
  <2>1. req[r].cur \in SKUs
    BY <1>0, <1>1 DEF ReadStock, GetLatestBalance, At, RequestOK, AtLine
  <2>2. /\ \A q \in Requests \ {r} : req'[q] = req[q]
        /\ req'[r].cur = req[r].cur
        /\ \/ req'[r].pc = "save_stock" /\ req'[r].got = stock[req[r].cur]
           \/ req'[r].pc \in {"write_entry", "retry_entry"} /\ req'[r].got = balance[req[r].cur]
    BY <1>0, <1>1 DEF ReadStock, GetLatestBalance, Request
  <2>3. UNCHANGED inventory
    BY <1>1 DEF ReadStock, GetLatestBalance
  <2> QED
    BY <2>1, <2>2, <2>3 DEF BackedInv, StockBacked, inventory, At
<1>2. ASSUME NEW r \in Requests, SaveStock(r) \/ CreateEntry(r) PROVE BackedInv'
  <2> DEFINE s == req[r].cur
             n == req[r].counts[s]
             g == req[r].got
  <2>1. s \in SKUs /\ n \in Nat /\ g \in Nat
    BY <1>0, <1>2, ReceivingAssumption
       DEF SaveStock, CreateEntry, At, RequestOK, AtLine, Request, Counts
  <2>2. /\ \A q \in Requests \ {r} : req'[q] = req[q]
        /\ req'[r].pc \notin Writing
    BY <1>0, <1>2 DEF SaveStock, CreateEntry, Goto, Request, Writing
  <2> HIDE DEF n, g
  <2>3. CASE SaveStock(r)
    <3>1. g <= accepted[s]
      BY <2>3 DEF BackedInv, SaveStock, g
    <3>2. /\ stock' = [stock EXCEPT ![s] = g + n]
          /\ accepted' = [accepted EXCEPT ![s] = accepted[s] + n]
          /\ UNCHANGED <<balance, entered>>
      BY <2>3 DEF SaveStock, g, n
    <3>3. /\ \A k \in SKUs : accepted[k] <= accepted'[k]
          /\ \A k \in SKUs : stock'[k] <= accepted'[k]
      BY <1>0, <2>1, <3>1, <3>2 DEF BackedInv, StockBacked
    <3>4. StockBacked'
      BY <3>2, <3>3 DEF BackedInv, StockBacked
    <3>5. ASSUME NEW q \in Requests
          PROVE  /\ req'[q].pc = "save_stock" => req'[q].got <= accepted'[req'[q].cur]
                 /\ req'[q].pc \in {"write_entry", "retry_entry"} => req'[q].got <= entered'[req'[q].cur]
      <4>1. CASE q = r
        BY <2>2, <4>1 DEF Writing
      <4>2. CASE q # r /\ req[q].pc \in Writing
        <5>1. req'[q] = req[q] /\ req[q].cur \in SKUs /\ req[q].got \in Nat
          BY <1>0, <2>2, <4>2 DEF RequestOK, AtLine, Writing, Request
        <5>2. accepted[req[q].cur] \in Nat /\ accepted'[req[q].cur] \in Nat
          BY <1>0, <2>1, <3>2, <5>1
        <5> QED
          BY <3>2, <3>3, <5>1, <5>2 DEF BackedInv, At
      <4> QED
        BY <2>2, <4>1, <4>2 DEF Writing
    <3> QED
      BY <3>4, <3>5 DEF BackedInv, At
  <2>4. CASE CreateEntry(r)
    <3>1. g <= entered[s]
      BY <2>4 DEF BackedInv, CreateEntry, g
    <3>2. /\ balance' = [balance EXCEPT ![s] = g + n]
          /\ entered' = [entered EXCEPT ![s] = entered[s] + n]
          /\ UNCHANGED <<stock, accepted>>
      BY <2>4 DEF CreateEntry, g, n
    <3>3. /\ \A k \in SKUs : entered[k] <= entered'[k]
          /\ \A k \in SKUs : balance'[k] <= entered'[k]
      BY <1>0, <2>1, <3>1, <3>2 DEF BackedInv, StockBacked
    <3>4. StockBacked'
      BY <3>2, <3>3 DEF BackedInv, StockBacked
    <3>5. ASSUME NEW q \in Requests
          PROVE  /\ req'[q].pc = "save_stock" => req'[q].got <= accepted'[req'[q].cur]
                 /\ req'[q].pc \in {"write_entry", "retry_entry"} => req'[q].got <= entered'[req'[q].cur]
      <4>1. CASE q = r
        BY <2>2, <4>1 DEF Writing
      <4>2. CASE q # r /\ req[q].pc \in Writing
        <5>1. req'[q] = req[q] /\ req[q].cur \in SKUs /\ req[q].got \in Nat
          BY <1>0, <2>2, <4>2 DEF RequestOK, AtLine, Writing, Request
        <5>2. entered[req[q].cur] \in Nat /\ entered'[req[q].cur] \in Nat
          BY <1>0, <2>1, <3>2, <5>1
        <5> QED
          BY <3>2, <3>3, <5>1, <5>2 DEF BackedInv, At
      <4> QED
        BY <2>2, <4>1, <4>2 DEF Writing
    <3> QED
      BY <3>4, <3>5 DEF BackedInv, At
  <2> QED
    BY <1>2, <2>3, <2>4
<1>3. CASE \A r \in Requests : ~(ReadStock(r) \/ GetLatestBalance(r) \/ SaveStock(r) \/ CreateEntry(r))
  BY <1>3, OthersElsewhere, BackedElsewhere
<1> QED
  BY <1>1, <1>2, <1>3

(* The stock of a component never holds more than operators have counted,  *)
(* and the running balance never exceeds the ledger's entries.             *)
THEOREM NeverInflated == Spec => []BackedInv
<1>1. Init => BackedInv
  BY DEF Init, BackedInv, StockBacked, Idle, At
<1>2. TypeOK /\ BackedInv /\ [Next]_vars => BackedInv'
  BY BackedStep
<1> QED
  BY <1>1, <1>2, TypeCorrect, PTL DEF Spec
-----------------------------------------------------------------------------
(***************************************************************************)
(* Receipts are numbered without a gap.                                    *)
(***************************************************************************)
LEMMA InitialSegment ==
  ASSUME NEW S \in SUBSET (1..MaxReceipts), \A n \in S : 1..n \subseteq S
  PROVE  Cardinality(S) \in Nat /\ 1..Cardinality(S) \subseteq S
<1>1. IsFiniteSet(1..MaxReceipts)
  BY FS_Interval, ReceivingAssumption
<1>2. Cardinality(S) \in Nat
  BY <1>1, FS_Subset, FS_CardinalityType
<1>3. SUFFICES ASSUME NEW k \in 1..Cardinality(S), k \notin S PROVE FALSE
  BY <1>2
<1>4. k \in Nat /\ 1 <= k /\ k <= Cardinality(S)
  BY <1>2
<1>5. S \subseteq 1..(k - 1)
  <2>1. SUFFICES ASSUME NEW n \in S, ~(n < k) PROVE FALSE
    BY <1>4, ReceivingAssumption
  <2>2. k \in 1..n
    BY <1>4, <2>1, ReceivingAssumption
  <2> QED
    BY <1>3, <2>2
<1>6. IsFiniteSet(1..(k - 1)) /\ Cardinality(1..(k - 1)) = k - 1
  <2>1. 1 \in Int /\ k - 1 \in Int
    BY <1>4
  <2>2. Cardinality(1..(k - 1)) = IF 1 > k - 1 THEN 0 ELSE (k - 1) - 1 + 1
    BY <2>1, FS_Interval
  <2> QED
    BY <1>4, <2>1, <2>2, FS_Interval
<1>7. Cardinality(S) <= k - 1
  BY <1>5, <1>6, FS_Subset
<1> QED
  BY <1>2, <1>4, <1>7

(* Existing(o) in the next state.                                         *)
ExistingAfter(o) == {n \in 1..MaxReceipts : receipt'[<<o, n>>].status # "none"}

(* A step that creates no receipt: what exists stays, and only that.       *)
Kept ==
    /\ \A g \in Receipts : receipt'[g].status = "none" <=> receipt[g].status = "none"
    /\ \A g \in Receipts : receipt'[g].by # None => receipt[g].status # "none"

Placed(q) ==
    /\ q.pc = "create_receipt" => 1..(q.got - 1) \subseteq Existing(PORef[q.job])
    /\ q.pc \in AtReceipt => receipt[q.job].status # "none"

LEMMA NumberedKept ==
  ASSUME TypeOK, TypeOK', Kept, ReceiptsNumbered, \A r \in Requests : Placed(req'[r])
  PROVE  NumberedInv'
<1>1. \A o \in POs : ExistingAfter(o) = Existing(o)
  BY DEF Kept, Existing, ExistingAfter, Receipts
<1>2. ReceiptsNumbered'
  BY <1>1 DEF ReceiptsNumbered, Existing, ExistingAfter
<1>3. \A g \in Receipts : receipt'[g].by # None => receipt'[g].status # "none"
  BY DEF Kept
<1>4. ASSUME NEW r \in Requests, req'[r].pc = "create_receipt"
      PROVE  1..(req'[r].got - 1) \subseteq ExistingAfter(PORef[req'[r].job])
  <2>1. req'[r].job \in Shipments
    BY <1>4 DEF TypeOK, RequestOK, AtShipment
  <2> QED
    BY <1>1, <1>4, <2>1, ReceivingAssumption DEF Placed
<1>5. ASSUME NEW r \in Requests, req'[r].pc \in AtReceipt
      PROVE  receipt'[req'[r].job].status # "none"
  <2>1. req'[r].job \in Receipts
    BY <1>5 DEF TypeOK, RequestOK
  <2> QED
    BY <1>5, <2>1 DEF Placed, Kept
<1> QED
  BY <1>2, <1>3, <1>4, <1>5 DEF NumberedInv, At, Existing, ExistingAfter

LEMMA NumberedCreate ==
  ASSUME TypeOK, TypeOK', NumberedInv, NEW r \in Requests, CreateGR(r)
  PROVE  NumberedInv'
<1> DEFINE o == PORef[req[r].job]
           n == req[r].got
           g == <<o, n>>
<1>1. g \in Receipts /\ o \in POs /\ n \in 1..MaxReceipts
  BY DEF CreateGR, Receipts
<1>2. 1..(n - 1) \subseteq Existing(o)
  BY DEF CreateGR, NumberedInv
<1>3. req \in [Requests -> Request] /\ receipt \in [Receipts -> Row]
  BY DEF TypeOK
<1>4. \A q \in Requests \ {r} : req'[q] = req[q]
  BY <1>3 DEF CreateGR, Return
<1>5. CASE receipt[g].status # "none"
  <2>1. Return(r) /\ UNCHANGED receipt
    BY <1>5 DEF CreateGR
  <2>2. \A q \in Requests : Placed(req'[q])
    BY <1>3, <1>4, <2>1 DEF Placed, NumberedInv, At, Return, Idle, AtReceipt, Counting, AtLine
  <2> QED
    BY <2>1, <2>2, NumberedKept DEF Kept, NumberedInv
<1>6. CASE receipt[g].status = "none"
  <2>1. /\ receipt' = [receipt EXCEPT ![g] = NewRow("Pending")]
        /\ req'[r].pc = "create_line" /\ req'[r].job = g
    BY <1>3, <1>6 DEF CreateGR, Idle
  <2>2. /\ \A h \in Receipts : h # g => receipt'[h] = receipt[h]
        /\ receipt'[g].status = "Pending" /\ receipt'[g].by = None
    BY <1>1, <1>3, <2>1 DEF NewRow
  <2> HIDE DEF g
  <2>3. \A p \in POs : Existing(p) \subseteq ExistingAfter(p)
    BY <2>2 DEF Existing, ExistingAfter, Receipts
  <2>4. ExistingAfter(o) = Existing(o) \cup {n} /\ \A p \in POs \ {o} : ExistingAfter(p) = Existing(p)
    BY <1>1, <2>2 DEF Existing, ExistingAfter, Receipts, g
  <2>5. ReceiptsNumbered'
    <3>1. 1..n \subseteq ExistingAfter(o)
      <4>0. n \in Nat
        BY <1>1, ReceivingAssumption
      <4> HIDE DEF n, o
      <4>1. \A k \in 1..n : k = n \/ k \in 1..(n - 1)
        BY <4>0
      <4> QED
        BY <1>2, <2>4, <4>1
    <3> QED
      BY <2>3, <2>4, <3>1 DEF ReceiptsNumbered, NumberedInv, Existing, ExistingAfter
  <2>6. \A h \in Receipts : receipt'[h].by # None => receipt'[h].status # "none"
    BY <2>2 DEF NumberedInv
  <2>7. ASSUME NEW q \in Requests
        PROVE  /\ req'[q].pc = "create_receipt" => 1..(req'[q].got - 1) \subseteq ExistingAfter(PORef[req'[q].job])
               /\ req'[q].pc \in AtReceipt => receipt'[req'[q].job].status # "none"
    <3>1. CASE q = r
      BY <2>1, <2>2, <3>1
    <3>2. CASE q # r
      <4>1. req'[q] = req[q]
        BY <1>4, <3>2
      <4>2. req[q].pc = "create_receipt" => PORef[req[q].job] \in POs
        BY ReceivingAssumption DEF TypeOK, RequestOK, AtShipment
      <4>3. req[q].pc \in AtReceipt => req[q].job \in Receipts
        BY DEF TypeOK, RequestOK
      <4> QED
        BY <2>2, <2>3, <4>1, <4>2, <4>3 DEF NumberedInv, At
    <3> QED
      BY <3>1, <3>2
  <2> QED
    BY <2>5, <2>6, <2>7 DEF NumberedInv, At, Existing, ExistingAfter
<1> QED
  BY <1>5, <1>6

LEMMA NumberedStep == TypeOK /\ TypeOK' /\ NumberedInv /\ [Next]_vars => NumberedInv'
<1> SUFFICES ASSUME TypeOK, TypeOK', NumberedInv, [Next]_vars PROVE NumberedInv'
  OBVIOUS
<1> DEFINE Step == Kept /\ \A q \in Requests : Placed(req'[q])
<1>0. /\ req \in [Requests -> Request] /\ receipt \in [Receipts -> Row]
      /\ \A q \in Requests : Placed(req[q]) /\ req[q] \in Request /\ RequestOK(req[q])
  BY DEF TypeOK, NumberedInv, Placed, At
<1>1. ASSUME UNCHANGED receipt PROVE Kept
  BY <1>1 DEF Kept, NumberedInv
<1>2. ASSUME NEW r \in Requests, Return(r) PROVE \A q \in Requests : Placed(req'[q])
  BY <1>0, <1>2 DEF Return, Idle, Placed, AtReceipt, Counting, AtLine
<1>3. ASSUME NEW r \in Requests, NEW l, Goto(r, l), l # "create_receipt",
             l \in AtReceipt => req[r].pc \in AtReceipt
      PROVE  \A q \in Requests : Placed(req'[q])
  <2>1. /\ \A q \in Requests \ {r} : req'[q] = req[q]
        /\ req'[r].pc = l /\ req'[r].job = req[r].job
    BY <1>0, <1>3 DEF Goto, Request
  <2> QED
    BY <1>0, <1>3, <2>1 DEF Placed
<1>4. ASSUME NEW r \in Requests, NEW l, NEW x, NEW u, NEW v, Begin(r, l, x, u, v),
             l # "create_receipt", l \in AtReceipt => receipt[x].status # "none"
      PROVE  Step
  <2>1. /\ \A q \in Requests \ {r} : req'[q] = req[q]
        /\ req'[r].pc = l /\ req'[r].job = x /\ UNCHANGED receipt
    BY <1>0, <1>4 DEF Begin, Idle, receiving
  <2> QED
    BY <1>0, <1>1, <1>4, <2>1 DEF Placed
<1>5. ASSUME NEW r \in Requests, req[r].pc \in AtReceipt, req'[r].pc \in AtReceipt,
             req'[r].job = req[r].job, \A q \in Requests \ {r} : req'[q] = req[q]
      PROVE  \A q \in Requests : Placed(req'[q])
  BY <1>0, <1>5 DEF Placed, AtReceipt, Counting, AtLine
<1>6. Step => NumberedInv'
  BY NumberedKept DEF NumberedInv
<1>7. ASSUME NEW r \in Requests, ShipmentStep(r) PROVE NumberedInv'
  <2>1. CASE CreateGR(r)
    BY <2>1, NumberedCreate
  <2>2. CASE AcquireDispatchLock(r)
    BY <1>4, <1>6, <2>2 DEF AcquireDispatchLock, AtReceipt, Counting, AtLine
  <2>3. CASE DispatchShipment(r)
    BY <1>4, <1>6, <2>3 DEF DispatchShipment, AtReceipt, Counting, AtLine
  <2>4. CASE TransitionShipment(r)
    BY <1>4, <1>6, <2>4 DEF TransitionShipment, AtReceipt, Counting, AtLine
  <2>5. CASE MarkDelivered(r)
    BY <1>4, <1>6, <2>5 DEF MarkDelivered, AtReceipt, Counting, AtLine
  <2>6. CASE LockShipment(r)
    BY <1>1, <1>2, <1>6, <2>6 DEF LockShipment, receiving
  <2>7. CASE ReleaseDispatchLock(r)
    BY <1>0, <1>1, <1>6, <2>7 DEF ReleaseDispatchLock, receiving
  <2>8. CASE UpdateShipment(r)
    BY <1>1, <1>2, <1>3, <1>6, <2>8 DEF UpdateShipment, receiving, AtReceipt, Counting, AtLine
  <2>9. CASE CountReceipts(r)
    <3> DEFINE o == PORef[req[r].job]
    <3>1. o \in POs
      BY <1>0, <2>9, ReceivingAssumption DEF CountReceipts, At, RequestOK, AtShipment
    <3>2. Cardinality(Existing(o)) \in Nat /\ 1..Cardinality(Existing(o)) \subseteq Existing(o)
      BY <3>1, InitialSegment DEF NumberedInv, ReceiptsNumbered, Existing
    <3>3. /\ \A q \in Requests \ {r} : req'[q] = req[q]
          /\ req'[r].pc = "create_receipt" /\ req'[r].job = req[r].job
          /\ req'[r].got = Cardinality(Existing(o)) + 1
      BY <1>0, <2>9 DEF CountReceipts, Request
    <3>4. Placed(req'[r])
      <4>1. req'[r].got - 1 = Cardinality(Existing(o))
        BY <3>2, <3>3
      <4> QED
        BY <3>2, <3>3, <4>1 DEF Placed, AtReceipt, Counting, AtLine
    <3> QED
      BY <1>0, <1>1, <1>6, <2>9, <3>3, <3>4 DEF CountReceipts, receiving
  <2>10. CASE CreateLine(r)
    <3>1. Return(r) \/ (/\ req'[r].pc = req[r].pc /\ req'[r].job = req[r].job
                        /\ req[r].pc \in AtReceipt /\ \A q \in Requests \ {r} : req'[q] = req[q])
      BY <1>0, <2>10 DEF CreateLine, At, AtReceipt, Request
    <3> QED
      BY <1>1, <1>2, <1>5, <1>6, <2>10, <3>1 DEF CreateLine
  <2> QED
    BY <1>7, <2>1, <2>2, <2>3, <2>4, <2>5, <2>6, <2>7, <2>8, <2>9, <2>10 DEF ShipmentStep
<1>8. ASSUME NEW r \in Requests, ReceiptStep(r) PROVE NumberedInv'
  <2>1. CASE AcquireLock(r)
    BY <1>4, <1>6, <2>1 DEF AcquireLock
  <2>2. CASE ProcessBlindReceipt(r)
    <3>1. PICK g \in Receipts, u \in Operators :
            HeldBy(receipt[g], u) /\ Begin(r, "read_lines", g, u, receipt[g])
      BY <2>2 DEF ProcessBlindReceipt
    <3>2. receipt[g].status # "none"
      BY <3>1, ReceivingAssumption DEF HeldBy, NumberedInv
    <3> QED
      BY <1>4, <1>6, <3>1, <3>2
  <2>3. CASE LockReceipt(r)
    <3>1. req[r].job \in Receipts /\ req[r].who \in Operators /\ receipt[req[r].job].status # "none"
      BY <1>0, <2>3 DEF LockReceipt, At, RequestOK, AtReceipt, Placed
    <3>2. /\ receipt'[req[r].job] = Lock(receipt[req[r].job], req[r].who)
          /\ \A g \in Receipts : g # req[r].job => receipt'[g] = receipt[g]
      BY <1>0, <2>3, <3>1 DEF LockReceipt
    <3>3. receipt'[req[r].job].status = receipt[req[r].job].status
      BY <1>0, <3>1, <3>2, LockType DEF TypeOK
    <3>4. Kept
      BY <3>1, <3>2, <3>3 DEF Kept, NumberedInv
    <3> QED
      BY <1>2, <1>6, <2>3, <3>4 DEF LockReceipt
  <2>4. CASE ReleaseLock(r)
    <3>1. PICK g \in Receipts : receipt[g].by # None /\ receipt' = [receipt EXCEPT ![g] = Unlock(receipt[g])]
      BY <2>4 DEF ReleaseLock
    <3>2. /\ receipt'[g].status = receipt[g].status
          /\ \A h \in Receipts : h # g => receipt'[h] = receipt[h]
      BY <1>0, <3>1, UnlockType
    <3>3. Kept
      BY <3>1, <3>2 DEF Kept, NumberedInv
    <3> QED
      BY <1>0, <1>6, <2>4, <3>3 DEF ReleaseLock
  <2>5. CASE ReadLines(r) \/ SaveGRLineItem(r) \/ ReadStock(r) \/ GetLatestBalance(r) \/ GetPOLineItems(r)
    <3>1. /\ req[r].pc \in AtReceipt /\ req'[r].pc \in AtReceipt /\ req'[r].job = req[r].job
          /\ \A q \in Requests \ {r} : req'[q] = req[q]
      <4>1. CASE ReadLines(r)
        BY <1>0, <4>1 DEF ReadLines, At, AtReceipt, Counting, AtLine, Request
      <4>2. CASE SaveGRLineItem(r)
        BY <1>0, <4>2 DEF SaveGRLineItem, At, AtReceipt, Counting, AtLine, Request
      <4>3. CASE ReadStock(r) \/ GetLatestBalance(r)
        BY <1>0, <4>3 DEF ReadStock, GetLatestBalance, At, AtReceipt, Counting, AtLine, Request
      <4>4. CASE GetPOLineItems(r)
        BY <1>0, <4>4 DEF GetPOLineItems, At, AtReceipt, Counting, AtLine, Request
      <4> QED
        BY <2>5, <4>1, <4>2, <4>3, <4>4
    <3>2. UNCHANGED receipt
      BY <2>5
         DEF ReadLines, SaveGRLineItem, ReadStock, GetLatestBalance, GetPOLineItems, receiving
    <3> QED
      BY <1>1, <1>5, <1>6, <3>1, <3>2
  <2>6. CASE SaveStock(r) \/ CreateEntry(r)
    <3>1. PICK l \in {"read_balance", "line"} : Goto(r, l)
      BY <2>6 DEF SaveStock, CreateEntry
    <3>2. req[r].pc \in AtReceipt /\ UNCHANGED receipt
      BY <2>6 DEF SaveStock, CreateEntry, At, AtReceipt, Counting, AtLine, receiving
    <3> QED
      BY <1>1, <1>3, <1>6, <3>1, <3>2
  <2>7. CASE SavePOLineItem(r)
    <3>1. PICK s \in req[r].left : AddReceived(r, s)
      BY <2>7 DEF SavePOLineItem
    <3>2. /\ req[r].pc \in AtReceipt /\ req'[r].pc \in AtReceipt /\ req'[r].job = req[r].job
          /\ \A q \in Requests \ {r} : req'[q] = req[q]
      BY <1>0, <2>7, <3>1 DEF SavePOLineItem, AddReceived, At, AtReceipt, Counting, Request
    <3> QED
      BY <1>1, <1>5, <1>6, <2>7, <3>2 DEF SavePOLineItem, receiving
  <2>8. CASE UpdateGR(r)
    <3>1. /\ req[r].job \in Receipts /\ req[r].pc \in AtReceipt
          /\ receipt[req[r].job].status # "none" /\ req[r].row \in Row
      BY <1>0, <2>8 DEF UpdateGR, At, RequestOK, AtReceipt, Counting, Placed, Request
    <3>2. /\ receipt'[req[r].job].status \in Counted
          /\ \A g \in Receipts : g # req[r].job => receipt'[g] = receipt[g]
      BY <1>0, <2>8, <3>1 DEF UpdateGR, Counted, Row
    <3>3. Kept
      BY <3>1, <3>2 DEF Kept, NumberedInv, Counted
    <3> QED
      BY <1>3, <1>6, <2>8, <3>1, <3>3 DEF UpdateGR
  <2>9. CASE CountOpen(r)
    <3>1. req[r].pc \in AtReceipt
      BY <2>9 DEF CountOpen, At, AtReceipt, Counting
    <3> QED
      BY <1>1, <1>2, <1>3, <1>6, <2>9, <3>1 DEF CountOpen, receiving
  <2>10. CASE SavePO(r)
    BY <1>1, <1>2, <1>6, <2>10 DEF SavePO, receiving
  <2> QED
    BY <1>8, <2>1, <2>2, <2>3, <2>4, <2>5, <2>6, <2>7, <2>8, <2>9, <2>10 DEF ReceiptStep
<1>9. ASSUME NEW r \in Requests, OrderStep(r) PROVE NumberedInv'
  <2>1. CASE ApprovePO(r)
    BY <1>4, <1>6, <2>1 DEF ApprovePO, AtReceipt, Counting, AtLine
  <2>2. CASE TransitionPO(r)
    BY <1>4, <1>6, <2>2 DEF TransitionPO, AtReceipt, Counting, AtLine
  <2>3. CASE WritePOStatus(r)
    BY <1>1, <1>2, <1>6, <2>3 DEF WritePOStatus, receiving
  <2> QED
    BY <1>9, <2>1, <2>2, <2>3 DEF OrderStep
<1>10. ASSUME NEW r \in Requests, CallFailure(r) PROVE NumberedInv'
  <2>0. Kept
    BY <1>1, <1>10 DEF CallFailure, receiving
  <2>1. CASE CallFails(r)
    BY <1>2, <1>6, <2>0, <2>1 DEF CallFails
  <2>2. CASE CountIgnored(r)
    <3>1. /\ \A q \in Requests \ {r} : req'[q] = req[q]
          /\ req'[r].pc = "create_receipt" /\ req'[r].got = 1
      BY <1>0, <2>2 DEF CountIgnored, Request
    <3>2. Placed(req'[r])
      BY <3>1 DEF Placed, AtReceipt, Counting, AtLine
    <3> QED
      BY <1>0, <1>6, <2>0, <3>1, <3>2
  <2>3. CASE RetryEntry(r)
    BY <1>3, <1>6, <2>0, <2>3 DEF RetryEntry, AtReceipt, Counting, AtLine
  <2>4. CASE EntryGivenUp(r)
    BY <1>3, <1>6, <2>0, <2>4 DEF EntryGivenUp, AtReceipt, Counting, AtLine
  <2>5. CASE LinesIgnored(r)
    BY <1>3, <1>6, <2>0, <2>5 DEF LinesIgnored, At, AtReceipt, Counting
  <2>6. CASE SaveIgnored(r)
    <3>1. PICK s \in req[r].left : AddReceived(r, s)
      BY <2>6 DEF SaveIgnored
    <3>2. /\ req[r].pc \in AtReceipt /\ req'[r].pc \in AtReceipt /\ req'[r].job = req[r].job
          /\ \A q \in Requests \ {r} : req'[q] = req[q]
      BY <1>0, <2>6, <3>1 DEF SaveIgnored, AddReceived, At, AtReceipt, Counting, Request
    <3> QED
      BY <1>5, <1>6, <2>0, <3>2
  <2>7. CASE OpenIgnored(r)
    BY <1>3, <1>6, <2>0, <2>7 DEF OpenIgnored, At, AtReceipt, Counting
  <2> QED
    BY <1>10, <2>1, <2>2, <2>3, <2>4, <2>5, <2>6, <2>7 DEF CallFailure
<1>11. CASE UNCHANGED vars \/ CreateShipment \/ LocksExpire
  BY <1>0, <1>1, <1>6, <1>11 DEF vars, receiving, CreateShipment, LocksExpire
<1>12. CASE Crash
  <2>1. \A q \in Requests : Placed(req'[q])
    BY <1>12 DEF Crash, Idle, Placed, AtReceipt, Counting, AtLine
  <2> QED
    BY <1>1, <1>6, <1>12, <2>1 DEF Crash, receiving
<1> QED
  BY <1>7, <1>8, <1>9, <1>10, <1>11, <1>12 DEF Next

(* The receipts of a purchase order are numbered from 1 without a gap,     *)
(* whatever deliveries overlap and whatever count fails.                   *)
THEOREM NumberedWithoutGap == Spec => []NumberedInv
<1>1. Init => NumberedInv
  <2>1. SUFFICES ASSUME Init PROVE NumberedInv
    OBVIOUS
  <2>2. \A g \in Receipts : receipt[g].status = "none" /\ receipt[g].by = None
    BY <2>1 DEF Init, NewRow
  <2>3. \A o \in POs : Existing(o) = {}
    BY <2>2 DEF Existing, Receipts
  <2> QED
    BY <2>1, <2>2, <2>3
       DEF Init, NumberedInv, ReceiptsNumbered, At, Idle, AtReceipt, Counting, AtLine
<1>2. TypeOK /\ TypeOK' /\ NumberedInv /\ [Next]_vars => NumberedInv'
  BY NumberedStep
<1> QED
  BY <1>1, <1>2, TypeCorrect, PTL DEF Spec

-----------------------------------------------------------------------------
(***************************************************************************)
(* A counted receipt stays counted.                                        *)
(***************************************************************************)
LEMMA CountedStep ==
  ASSUME TypeOK, [Next]_vars, NEW g \in Receipts
  PROVE  /\ receipt[g].status \in Counted => receipt'[g].status \in Counted
         /\ receipt[g].status # "none" => receipt'[g].status # "none"
<1>0. /\ receipt \in [Receipts -> Row] /\ clock \in 0..MaxTime
      /\ \A r \in Requests : req[r] \in Request /\ RequestOK(req[r])
  BY DEF TypeOK
<1>1. CASE UNCHANGED receipt
  BY <1>1
<1>2. ASSUME NEW r \in Requests, CreateGR(r) \/ LockReceipt(r) \/ ReleaseLock(r) \/ UpdateGR(r)
      PROVE  receipt'[g].status = receipt[g].status \/ receipt'[g].status \in Counted
             \/ receipt[g].status = "none"
  <2>1. CASE CreateGR(r)
    BY <1>0, <2>1 DEF CreateGR
  <2>2. CASE LockReceipt(r)
    <3>1. req[r].who \in Operators
      BY <1>0, <2>2 DEF LockReceipt, At, RequestOK
    <3>2. Lock(receipt[g], req[r].who).status = receipt[g].status
      BY <1>0, <3>1, LockType
    <3> QED
      BY <1>0, <2>2, <3>2 DEF LockReceipt
  <2>3. CASE ReleaseLock(r)
    BY <1>0, <2>3, UnlockType DEF ReleaseLock
  <2>4. CASE UpdateGR(r)
    <3>1. req[r].row \in Row
      BY <1>0 DEF Request
    <3> QED
      BY <1>0, <2>4, <3>1 DEF UpdateGR, Counted, Row
  <2> QED
    BY <1>2, <2>1, <2>2, <2>3, <2>4
<1>3. UNCHANGED receipt \/ \E r \in Requests : CreateGR(r) \/ LockReceipt(r) \/ ReleaseLock(r) \/ UpdateGR(r)
  <2>1. ASSUME NEW r \in Requests, ShipmentStep(r), ~CreateGR(r) PROVE UNCHANGED receipt
    BY <2>1
       DEF ShipmentStep, AcquireDispatchLock, LockShipment, ReleaseDispatchLock,
           DispatchShipment,
                TransitionShipment, MarkDelivered, UpdateShipment, CountReceipts, CreateLine, Begin, receiving
  <2>2. ASSUME NEW r \in Requests, ReceiptStep(r), ~(LockReceipt(r) \/ ReleaseLock(r) \/ UpdateGR(r))
        PROVE  UNCHANGED receipt
    BY <2>2
       DEF ReceiptStep, AcquireLock, ProcessBlindReceipt, ReadLines, SaveGRLineItem, ReadStock,

                SaveStock, GetLatestBalance, CreateEntry, GetPOLineItems, SavePOLineItem, CountOpen,
                SavePO, Begin, receiving
  <2>3. ASSUME NEW r \in Requests, OrderStep(r) \/ CallFailure(r) PROVE UNCHANGED receipt
    BY <2>3 DEF OrderStep, ApprovePO, TransitionPO, WritePOStatus, Begin, CallFailure, receiving
  <2> QED
    BY <2>1, <2>2, <2>3 DEF Next, vars, receiving, CreateShipment, Crash, LocksExpire
<1> QED
  BY <1>1, <1>2, <1>3 DEF Counted

(* A receipt that has been counted never waits again, and none disappears: *)
(* neither a late lock nor a second count nor a delivery does that.        *)
THEOREM CountedForGood == Spec => CountedStays
<1>1. TypeOK /\ [Next]_vars =>
        [\A g \in Receipts :
            /\ receipt[g].status \in Counted => receipt'[g].status \in Counted
            /\ receipt[g].status # "none" => receipt'[g].status # "none"]_vars
  BY CountedStep
<1> QED
  BY <1>1, TypeCorrect, PTL DEF Spec, CountedStays

-----------------------------------------------------------------------------
(***************************************************************************)
(* The ledger.  A request owes the entry of a line from the step that adds *)
(* to the stock to the one that writes the entry.                          *)
(***************************************************************************)
Entering == {"read_balance", "write_entry", "retry_balance", "retry_entry"}
Owed(q, s) == IF q.pc \in Entering /\ q.cur = s THEN q.counts[s] ELSE 0
OwedFor(s) == SumFunctionOnSet([r \in Requests |-> Owed(req[r], s)], Requests)

(* The ledger lacks what is owed, until an entry has failed twice.         *)
LedgerInv ==
    /\ \A r \in Requests : req[r].pc \in {"retry_balance", "retry_entry"} => faults >= 1
    /\ faults < 2 => \A s \in SKUs : entered[s] + OwedFor(s) = accepted[s]

LEMMA OwedType ==
  ASSUME TypeOK, NEW r \in Requests, NEW s \in SKUs
  PROVE  Owed(req[r], s) \in Nat
<1>1. req[r] \in Request /\ RequestOK(req[r])
  BY DEF TypeOK
<1>2. req[r].pc \in Entering => req[r].counts[req[r].cur] \in Nat
  BY <1>1, ReceivingAssumption DEF RequestOK, AtLine, Entering, Counts
<1> QED
  BY <1>2 DEF Owed

LEMMA OwedForType ==
  ASSUME TypeOK, NEW s \in SKUs
  PROVE  OwedFor(s) \in Nat
<1>1. PICK f : f = [r \in Requests |-> Owed(req[r], s)]
  OBVIOUS
<1>2. \A r \in Requests : f[r] \in Nat
  BY <1>1, OwedType
<1>3. SumFunctionOnSet(f, Requests) \in Nat
  BY <1>2, ReceivingAssumption, SumType
<1> QED
  BY <1>1, <1>3 DEF OwedFor

(* One request moves: what is owed changes by what it owes.                *)
LEMMA OwedMoves ==
  ASSUME TypeOK, TypeOK', NEW s \in SKUs, NEW r \in Requests,
         \A q \in Requests \ {r} : req'[q] = req[q]
  PROVE  /\ OwedFor(s) \in Nat
         /\ OwedFor(s)' = OwedFor(s) + (Owed(req'[r], s) - Owed(req[r], s))
<1>1. PICK f : f = [q \in Requests |-> Owed(req[q], s)]
  OBVIOUS
<1>2. PICK e : e = [q \in Requests |-> Owed(req'[q], s)]
  OBVIOUS
<1>3. IsFiniteSet(Requests)
  BY ReceivingAssumption
<1>4. \A q \in Requests : f[q] \in Nat /\ e[q] \in Nat
  <2>1. \A q \in Requests : f[q] \in Nat
    BY <1>1, OwedType
  <2>2. \A q \in Requests : req'[q] \in Request /\ RequestOK(req'[q])
    BY DEF TypeOK
  <2>3. \A q \in Requests : req'[q].pc \in Entering => req'[q].counts[req'[q].cur] \in Nat
    BY <2>2, ReceivingAssumption DEF RequestOK, AtLine, Entering, Counts
  <2> QED
    BY <1>2, <2>1, <2>3 DEF Owed
<1>5. \A q \in Requests \ {r} : e[q] = f[q]
  BY <1>1, <1>2
<1>6. /\ SumFunctionOnSet(f, Requests) \in Nat
      /\ SumFunctionOnSet(e, Requests) = SumFunctionOnSet(f, Requests) + (e[r] - f[r])
  <2>1. \A q \in Requests : f[q] \in Nat /\ e[q] \in Nat
    BY <1>4
  <2> QED
    BY <1>3, <1>5, <2>1, SumChange
<1>7. OwedFor(s) = SumFunctionOnSet(f, Requests) /\ OwedFor(s)' = SumFunctionOnSet(e, Requests)
  BY <1>1, <1>2 DEF OwedFor
<1>8. e[r] = Owed(req'[r], s) /\ f[r] = Owed(req[r], s)
  BY <1>1, <1>2
<1> QED
  BY <1>6, <1>7, <1>8

Moves(r) == \A q \in Requests \ {r} : req'[q] = req[q]
(* A step that neither owes nor settles.                                   *)
Aside(r) == Moves(r) /\ req[r].pc \notin Entering /\ req'[r].pc \notin Entering
Bookless == UNCHANGED <<entered, accepted>> /\ faults' >= faults

LEMMA LedgerAside ==
  ASSUME TypeOK, TypeOK', LedgerInv, Bookless, NEW r \in Requests, Aside(r)
  PROVE  LedgerInv'
<1>1. faults \in Nat /\ faults' \in Nat
  BY ReceivingAssumption DEF TypeOK
<1>2. \A q \in Requests : req'[q].pc \in {"retry_balance", "retry_entry"} => faults' >= 1
  BY <1>1 DEF LedgerInv, Aside, Moves, Bookless, Entering
<1>3. ASSUME faults' < 2, NEW s \in SKUs PROVE entered'[s] + OwedFor(s)' = accepted'[s]
  <2>1. entered[s] + OwedFor(s) = accepted[s]
    BY <1>1, <1>3 DEF LedgerInv, Bookless
  <2>2. OwedFor(s) \in Nat /\ OwedFor(s)' = OwedFor(s) + (Owed(req'[r], s) - Owed(req[r], s))
    BY OwedMoves DEF Aside, Moves
  <2>3. Owed(req'[r], s) = 0 /\ Owed(req[r], s) = 0
    BY DEF Owed, Aside
  <2> QED
    BY <2>1, <2>2, <2>3 DEF Bookless
<1> QED
  BY <1>2, <1>3 DEF LedgerInv

LEMMA LedgerElsewhere ==
  ASSUME TypeOK, [Next]_vars,
         \A r \in Requests : ~(SaveStock(r) \/ GetLatestBalance(r) \/ CreateEntry(r)
                               \/ (CallFailure(r) /\ (RetryEntry(r) \/ EntryGivenUp(r)))),
         ~Crash
  PROVE  Bookless /\ (UNCHANGED req \/ \E r \in Requests : Aside(r))
<1>0. req \in [Requests -> Request] /\ faults \in Nat
  BY ReceivingAssumption DEF TypeOK
<1> USE DEF Bookless, Entering, Aside, Moves, At, inventory, bounds
<1>1. ASSUME NEW r \in Requests, Return(r), req[r].pc \notin Entering PROVE Aside(r)
  BY <1>0, <1>1 DEF Return, Idle
<1>2. ASSUME NEW r \in Requests, NEW l, l \notin Entering, Goto(r, l), req[r].pc \notin Entering
      PROVE  Aside(r)
  BY <1>0, <1>2 DEF Goto, Request
<1>3. ASSUME NEW r \in Requests, NEW l, l \notin Entering, NEW x, NEW u, NEW v, Begin(r, l, x, u, v)
      PROVE  Aside(r) /\ Bookless
  BY <1>0, <1>3 DEF Begin, Arrive, Idle
<1>4. ASSUME NEW r \in Requests, NEW s, AddReceived(r, s), At(r, "po_line") PROVE Aside(r)
  BY <1>0, <1>4 DEF AddReceived, Request
<1>5. ASSUME NEW r \in Requests, ShipmentStep(r) PROVE Bookless /\ (UNCHANGED req \/ Aside(r))
  <2>1. CASE AcquireDispatchLock(r)
    BY <1>3, <2>1 DEF AcquireDispatchLock
  <2>2. CASE DispatchShipment(r)
    BY <1>3, <2>2 DEF DispatchShipment
  <2>3. CASE TransitionShipment(r)
    BY <1>3, <2>3 DEF TransitionShipment
  <2>4. CASE MarkDelivered(r)
    BY <1>3, <2>4 DEF MarkDelivered
  <2>5. CASE LockShipment(r)
    BY <1>0, <1>1, <2>5 DEF LockShipment
  <2>6. CASE ReleaseDispatchLock(r)
    BY <1>0, <2>6 DEF ReleaseDispatchLock
  <2>7. CASE UpdateShipment(r)
    BY <1>0, <1>1, <1>2, <2>7 DEF UpdateShipment
  <2>8. CASE CountReceipts(r)
    BY <1>0, <2>8 DEF CountReceipts, Request
  <2>9. CASE CreateGR(r)
    <3>1. Return(r) \/ \E g, S : req' = [req EXCEPT ![r] =
                        [Idle EXCEPT !.pc = "create_line", !.job = g, !.left = S]]
      BY <2>9 DEF CreateGR
    <3>2. Bookless /\ req[r].pc \notin Entering
      BY <1>0, <2>9 DEF CreateGR
    <3> QED
      BY <1>0, <1>1, <3>1, <3>2 DEF Idle
  <2>10. CASE CreateLine(r)
    BY <1>0, <1>1, <2>10 DEF CreateLine, Request
  <2> QED
    BY <1>5, <2>1, <2>2, <2>3, <2>4, <2>5, <2>6, <2>7, <2>8, <2>9, <2>10 DEF ShipmentStep
<1>6. ASSUME NEW r \in Requests, ReceiptStep(r) PROVE Bookless /\ (UNCHANGED req \/ Aside(r))
  <2>1. CASE AcquireLock(r)
    BY <1>3, <2>1 DEF AcquireLock
  <2>2. CASE ProcessBlindReceipt(r)
    BY <1>3, <2>2 DEF ProcessBlindReceipt
  <2>3. CASE LockReceipt(r)
    BY <1>0, <1>1, <2>3 DEF LockReceipt
  <2>4. CASE ReleaseLock(r)
    BY <1>0, <2>4 DEF ReleaseLock
  <2>5. CASE ReadLines(r)
    BY <1>0, <2>5 DEF ReadLines, Request
  <2>6. CASE SaveGRLineItem(r)
    BY <1>0, <2>6 DEF SaveGRLineItem, Request
  <2>7. CASE GetPOLineItems(r)
    BY <1>0, <2>7 DEF GetPOLineItems, Request
  <2>8. CASE SavePOLineItem(r)
    BY <1>0, <1>4, <2>8 DEF SavePOLineItem
  <2>9. CASE UpdateGR(r)
    BY <1>0, <1>2, <2>9 DEF UpdateGR
  <2>10. CASE CountOpen(r)
    BY <1>0, <1>1, <1>2, <2>10 DEF CountOpen
  <2>11. CASE SavePO(r)
    BY <1>0, <1>1, <2>11 DEF SavePO
  <2>12. CASE ReadStock(r)
    BY <1>0, <2>12 DEF ReadStock, Request
  <2> QED
    BY <1>6, <2>1, <2>2, <2>3, <2>4, <2>5, <2>6, <2>7, <2>8, <2>9, <2>10, <2>11, <2>12
       DEF ReceiptStep
<1>7. ASSUME NEW r \in Requests, OrderStep(r) PROVE Bookless /\ (UNCHANGED req \/ Aside(r))
  <2>1. CASE ApprovePO(r)
    BY <1>3, <2>1 DEF ApprovePO
  <2>2. CASE TransitionPO(r)
    BY <1>3, <2>2 DEF TransitionPO
  <2>3. CASE WritePOStatus(r)
    BY <1>0, <1>1, <2>3 DEF WritePOStatus
  <2> QED
    BY <1>7, <2>1, <2>2, <2>3 DEF OrderStep
<1>8. ASSUME NEW r \in Requests, CallFailure(r) PROVE Bookless /\ (UNCHANGED req \/ Aside(r))
  <2>0. Bookless
    BY <1>0, <1>8 DEF CallFailure
  <2>1. CASE CountIgnored(r)
    BY <1>0, <2>0, <2>1 DEF CountIgnored, Request
  <2>2. CASE SaveIgnored(r)
    BY <1>4, <2>0, <2>2 DEF SaveIgnored
  <2>3. CASE CallFails(r)
    BY <1>1, <2>0, <2>3 DEF CallFails, Failing
  <2>4. CASE LinesIgnored(r) \/ OpenIgnored(r)
    BY <1>2, <2>0, <2>4 DEF LinesIgnored, OpenIgnored
  <2> QED
    BY <1>8, <2>1, <2>2, <2>3, <2>4 DEF CallFailure
<1>9. CASE UNCHANGED vars \/ CreateShipment \/ LocksExpire
  BY <1>0, <1>9 DEF vars, CreateShipment, LocksExpire
<1> QED
  BY <1>5, <1>6, <1>7, <1>8, <1>9 DEF Next

LEMMA LedgerStep ==
  ASSUME TypeOK, TypeOK', LedgerInv, [Next]_vars
  PROVE  LedgerInv'
<1>0. /\ \A r \in Requests : req[r] \in Request /\ RequestOK(req[r])
      /\ req \in [Requests -> Request] /\ faults \in Nat /\ faults' \in Nat
      /\ entered \in [SKUs -> Nat] /\ accepted \in [SKUs -> Nat]
  BY ReceivingAssumption DEF TypeOK
<1>1. ASSUME NEW r \in Requests, Moves(r), faults' >= faults,
             req'[r].pc \in {"retry_balance", "retry_entry"} => faults' >= 1,
             \A s \in SKUs : entered'[s] - entered[s] + Owed(req'[r], s)
                                = accepted'[s] - accepted[s] + Owed(req[r], s)
      PROVE  LedgerInv'
  <2>1. \A q \in Requests : req'[q].pc \in {"retry_balance", "retry_entry"} => faults' >= 1
    <3>1. ASSUME NEW q \in Requests, q # r, req'[q].pc \in {"retry_balance", "retry_entry"}
          PROVE  faults' >= 1
      <4>1. req'[q] = req[q]
        BY <1>1, <3>1 DEF Moves
      <4>2. faults >= 1
        BY <3>1, <4>1 DEF LedgerInv
      <4> QED
        BY <1>0, <1>1, <4>2
    <3> QED
      BY <1>1, <3>1
  <2>2. ASSUME faults' < 2, NEW s \in SKUs PROVE entered'[s] + OwedFor(s)' = accepted'[s]
    <3>1. entered[s] + OwedFor(s) = accepted[s]
      BY <1>0, <1>1, <2>2 DEF LedgerInv
    <3>2. OwedFor(s) \in Nat /\ OwedFor(s)' = OwedFor(s) + (Owed(req'[r], s) - Owed(req[r], s))
      BY <1>1, OwedMoves DEF Moves
    <3>3. /\ entered[s] \in Nat /\ accepted[s] \in Nat /\ entered'[s] \in Nat /\ accepted'[s] \in Nat
          /\ Owed(req[r], s) \in Nat
      BY <1>0, OwedType DEF TypeOK
    <3>4. Owed(req'[r], s) \in Nat
      <4>1. req'[r] \in Request /\ RequestOK(req'[r])
        BY DEF TypeOK
      <4>2. req'[r].pc \in Entering => req'[r].counts[req'[r].cur] \in Nat
        BY <4>1, ReceivingAssumption DEF RequestOK, AtLine, Entering, Counts
      <4> QED
        BY <4>2 DEF Owed
    <3>5. entered'[s] - entered[s] + Owed(req'[r], s) = accepted'[s] - accepted[s] + Owed(req[r], s)
      BY <1>1
    <3> QED
      BY <3>1, <3>2, <3>3, <3>4, <3>5
  <2> QED
    BY <2>1, <2>2 DEF LedgerInv
<1>2. ASSUME NEW r \in Requests, SaveStock(r) PROVE LedgerInv'
  <2> DEFINE k == req[r].cur
             n == req[r].counts[k]
  <2>1. k \in SKUs /\ n \in Nat /\ req[r].pc = "save_stock"
    BY <1>0, <1>2, ReceivingAssumption DEF SaveStock, At, RequestOK, AtLine, Counts
  <2>2. /\ Moves(r) /\ req'[r].cur = k /\ req'[r].counts = req[r].counts
        /\ req'[r].pc = IF n > 0 THEN "read_balance" ELSE "line"
    BY <1>0, <1>2 DEF SaveStock, Goto, Moves, Request
  <2>3. accepted' = [accepted EXCEPT ![k] = accepted[k] + n] /\ UNCHANGED <<entered, faults>>
    BY <1>2 DEF SaveStock, bounds
  <2>4. req'[r].counts[k] = n
    BY <2>2
  <2> HIDE DEF k, n
  <2>5. ASSUME NEW s \in SKUs
        PROVE  entered'[s] - entered[s] + Owed(req'[r], s) = accepted'[s] - accepted[s] + Owed(req[r], s)
    <3>1. Owed(req[r], s) = 0
      BY <2>1 DEF Owed, Entering
    <3>2. Owed(req'[r], s) = IF s = k THEN n ELSE 0
      BY <2>1, <2>2, <2>4 DEF Owed, Entering
    <3>3. accepted'[s] = IF s = k THEN accepted[s] + n ELSE accepted[s]
      BY <1>0, <2>1, <2>3
    <3>4. accepted[s] \in Nat /\ entered[s] \in Nat
      BY <1>0
    <3> QED
      BY <2>1, <2>3, <3>1, <3>2, <3>3, <3>4
  <2>6. req'[r].pc \notin {"retry_balance", "retry_entry"} /\ faults' >= faults
    BY <1>0, <2>2, <2>3
  <2> QED
    BY <1>1, <2>2, <2>5, <2>6
<1>3. ASSUME NEW r \in Requests, CreateEntry(r) PROVE LedgerInv'
  <2> DEFINE k == req[r].cur
             n == req[r].counts[k]
  <2>1. k \in SKUs /\ n \in Nat /\ req[r].pc \in Entering
    BY <1>0, <1>3, ReceivingAssumption DEF CreateEntry, At, RequestOK, AtLine, Counts, Entering
  <2>2. Moves(r) /\ req'[r].pc = "line"
    BY <1>0, <1>3 DEF CreateEntry, Goto, Moves, Request
  <2>3. entered' = [entered EXCEPT ![k] = entered[k] + n] /\ UNCHANGED <<accepted, faults>>
    BY <1>3 DEF CreateEntry, bounds
  <2>4. ASSUME NEW s \in SKUs
        PROVE  entered'[s] - entered[s] + Owed(req'[r], s) = accepted'[s] - accepted[s] + Owed(req[r], s)
    <3>1. Owed(req'[r], s) = 0
      BY <2>2 DEF Owed, Entering
    <3>2. Owed(req[r], s) = IF s = k THEN n ELSE 0
      BY <2>1 DEF Owed
    <3> HIDE DEF k, n
    <3>3. entered'[s] = IF s = k THEN entered[s] + n ELSE entered[s]
      BY <1>0, <2>1, <2>3
    <3>4. accepted[s] \in Nat /\ entered[s] \in Nat
      BY <1>0
    <3> QED
      BY <2>1, <2>3, <3>1, <3>2, <3>3, <3>4
  <2>5. req'[r].pc \notin {"retry_balance", "retry_entry"} /\ faults' >= faults
    BY <1>0, <2>2, <2>3
  <2> QED
    BY <1>1, <2>2, <2>4, <2>5
<1>4. ASSUME NEW r \in Requests, UNCHANGED <<entered, accepted>>, faults' >= faults, Moves(r),
             req[r].pc \in Entering, req'[r].pc \in Entering,
             req'[r].cur = req[r].cur, req'[r].counts = req[r].counts,
             req'[r].pc \in {"retry_balance", "retry_entry"} => faults' >= 1
      PROVE  LedgerInv'
  <2>1. ASSUME NEW s \in SKUs
        PROVE  entered'[s] - entered[s] + Owed(req'[r], s) = accepted'[s] - accepted[s] + Owed(req[r], s)
    BY <1>0, <1>4 DEF Owed
  <2> QED
    BY <1>1, <1>4, <2>1
<1>5. ASSUME NEW r \in Requests, GetLatestBalance(r) PROVE LedgerInv'
  <2>1. /\ Moves(r) /\ req[r].pc \in Entering /\ req'[r].pc \in Entering
        /\ req'[r].cur = req[r].cur /\ req'[r].counts = req[r].counts
    BY <1>0, <1>5 DEF GetLatestBalance, At, Moves, Request, Entering
  <2>2. req'[r].pc \in {"retry_balance", "retry_entry"} => req[r].pc = "retry_balance"
    BY <1>0, <1>5 DEF GetLatestBalance, At, Request
  <2>3. UNCHANGED <<entered, accepted, faults>>
    BY <1>5 DEF GetLatestBalance, inventory, bounds
  <2>4. faults' >= faults /\ (req'[r].pc \in {"retry_balance", "retry_entry"} => faults' >= 1)
    BY <1>0, <2>2, <2>3 DEF LedgerInv
  <2> QED
    BY <1>4, <2>1, <2>3, <2>4
<1>6. ASSUME NEW r \in Requests, CallFailure(r), RetryEntry(r) PROVE LedgerInv'
  <2>1. /\ Moves(r) /\ req[r].pc \in Entering /\ req'[r].pc \in Entering
        /\ req'[r].cur = req[r].cur /\ req'[r].counts = req[r].counts
    BY <1>0, <1>6 DEF RetryEntry, Goto, Moves, Request, Entering
  <2>2. UNCHANGED <<entered, accepted>> /\ faults' >= faults /\ faults' >= 1
    BY <1>0, <1>6 DEF CallFailure, inventory
  <2> QED
    BY <1>4, <2>1, <2>2
<1>7. ASSUME NEW r \in Requests, CallFailure(r), EntryGivenUp(r) PROVE LedgerInv'
  <2>1. faults' = faults + 1 /\ faults >= 1
    BY <1>7 DEF CallFailure, EntryGivenUp, LedgerInv
  <2>2. ~(faults' < 2) /\ faults' >= 1
    BY <1>0, <2>1
  <2> QED
    BY <2>2 DEF LedgerInv
<1>8. CASE Crash
  <2>1. ~(faults' < 2) /\ faults' >= 1
    BY <1>0, <1>8 DEF Crash
  <2> QED
    BY <2>1 DEF LedgerInv
<1>9. ASSUME UNCHANGED req, Bookless PROVE LedgerInv'
  <2>1. \A s \in SKUs : OwedFor(s)' = OwedFor(s)
    BY <1>9 DEF OwedFor
  <2> QED
    BY <1>0, <1>9, <2>1 DEF LedgerInv, Bookless
<1>10. CASE /\ ~Crash
             /\ \A r \in Requests : ~(SaveStock(r) \/ GetLatestBalance(r) \/ CreateEntry(r)
                                      \/ (CallFailure(r) /\ (RetryEntry(r) \/ EntryGivenUp(r))))
  <2>1. Bookless /\ (UNCHANGED req \/ \E r \in Requests : Aside(r))
    BY <1>10, LedgerElsewhere
  <2>2. CASE UNCHANGED req
    BY <1>9, <2>1, <2>2
  <2>3. ASSUME NEW r \in Requests, Aside(r) PROVE LedgerInv'
    BY <2>1, <2>3, LedgerAside
  <2> QED
    BY <2>1, <2>2, <2>3
<1> QED
  BY <1>2, <1>3, <1>5, <1>6, <1>7, <1>8, <1>10

(* Up to one failure, the ledger holds an entry for all that was added to  *)
(* the stock of a component no request works on, however many work on      *)
(* others: RecordEntry is tried again, once.                               *)
THEOREM LedgerComplete == Spec => []EntriesComplete
<1>1. Init => LedgerInv
  <2> SUFFICES ASSUME Init PROVE LedgerInv
    OBVIOUS
  <2>1. ASSUME NEW s \in SKUs PROVE OwedFor(s) = 0
    <3>1. PICK f : f = [r \in Requests |-> Owed(req[r], s)]
      OBVIOUS
    <3>2. \A r \in Requests : f[r] = 0
      BY <3>1 DEF Init, Owed, Entering, Idle
    <3>3. SumFunctionOnSet(f, Requests) = 0
      BY <3>2, ReceivingAssumption, SumZero
    <3> QED
      BY <3>1, <3>3 DEF OwedFor
  <2>2. \A r \in Requests : req[r].pc = "idle"
    BY DEF Init, Idle
  <2>3. \A s \in SKUs : entered[s] = 0 /\ accepted[s] = 0
    BY DEF Init
  <2> QED
    BY <2>1, <2>2, <2>3 DEF LedgerInv
<1>2. TypeOK /\ TypeOK' /\ LedgerInv /\ [Next]_vars => LedgerInv'
  BY LedgerStep
<1>3. TypeOK /\ LedgerInv => EntriesComplete
  <2> SUFFICES ASSUME TypeOK, LedgerInv, NEW s \in SKUs, faults < 2,
                      \A r \in Requests : ~(req[r].pc \in AtLine /\ req[r].cur = s)
               PROVE  entered[s] = accepted[s]
    BY DEF EntriesComplete
  <2>1. PICK f : f = [r \in Requests |-> Owed(req[r], s)]
    OBVIOUS
  <2>2. \A r \in Requests : f[r] = 0
    BY <2>1 DEF Owed, Entering, AtLine
  <2>3. SumFunctionOnSet(f, Requests) = 0
    BY <2>2, ReceivingAssumption, SumZero
  <2>4. entered[s] + 0 = accepted[s] /\ entered[s] \in Nat
    BY <2>1, <2>3 DEF LedgerInv, OwedFor, TypeOK
  <2> QED
    BY <2>4
<1> QED
  BY <1>1, <1>2, <1>3, TypeCorrect, PTL DEF Spec
=============================================================================
