---------------------------- MODULE Sales_proofs ----------------------------
(***************************************************************************)
(* Proofs about the sales service, for any number of orders, goods,        *)
(* requests, edits and failures; and about the same service with its       *)
(* clients: what Sales guarantees of the orders holds here too, an edit of  *)
(* a client lasts, and no stock is lost between the counters and the rows.  *)
(***************************************************************************)
EXTENDS SalesClients, Sums, TLAPS

-----------------------------------------------------------------------------
(***************************************************************************)
(* Type correctness.  A step moves one request: the two lemmas say when    *)
(* such a move keeps the locals well typed.                                *)
(***************************************************************************)
LEMMA UnitsType ==
  ASSUME NEW v \in Items, NEW s \in SKUs
  PROVE  /\ <<s, "created">> \in Line /\ <<s, "edited">> \in Line
         /\ v[<<s, "created">>] \in 0..MaxQty /\ v[<<s, "edited">>] \in 0..MaxQty
         /\ Units(v, s) \in Nat /\ Units(v, s) <= 2 * MaxQty
<1>1. <<s, "created">> \in Line /\ <<s, "edited">> \in Line
  BY DEF Line
<1>2. v[<<s, "created">>] \in 0..MaxQty /\ v[<<s, "edited">>] \in 0..MaxQty
  BY <1>1 DEF Items
<1> QED
  BY <1>1, <1>2, SalesAssumption DEF Units

LEMMA NoneIsNoItems == None \notin Items
<1>1. Items = [SKUs \X {"created", "edited"} -> 0..MaxQty]
  BY DEF Items, Line
<1> QED
  BY <1>1, SalesAssumption, Zenon

LEMMA ReturnKeepsLocals ==
  ASSUME LocalsOK, NEW p \in Procs, Return(p)
  PROVE  LocalsOK'
<1> USE DEF LocalsOK, Return, Labels
<1>1. /\ pc' \in [Procs -> Labels]
      /\ cur' \in [Procs -> Orders \cup {None}]
      /\ left' \in [Procs -> SUBSET Line]
      /\ list' \in [Procs -> SUBSET Orders]
  OBVIOUS
<1>2. row' \in [Procs -> Row]
  BY DEF Row, NoRow, Status
<1>3. want' \in [Procs -> Items]
  BY SalesAssumption DEF Items, NoItems
<1>4. \A q \in Procs : pc'[q] \in LabelsOf(q)
  BY DEF LabelsOf
<1>5. \A q \in Procs :
        pc'[q] \in {"idle", "pop", "clear_q"} \cup RebuildLabels \/ cur'[q] \in Orders
  OBVIOUS
<1> QED
  BY <1>1, <1>2, <1>3, <1>4, <1>5 DEF LabelsOf

LEMMA GotoKeepsLocals ==
  ASSUME LocalsOK, NEW p \in Procs, NEW l \in LabelsOf(p), Goto(p, l),
         cur' \in [Procs -> Orders \cup {None}],
         row' \in [Procs -> Row],
         want' \in [Procs -> Items],
         left' \in [Procs -> SUBSET Line],
         list' \in [Procs -> SUBSET Orders],
         \A q \in Procs : q # p => cur'[q] = cur[q],
         l \in {"idle", "pop", "clear_q"} \cup RebuildLabels \/ cur'[p] \in Orders
  PROVE  LocalsOK'
<1>1. l \in Labels
  BY DEF LabelsOf, Labels
<1>2. pc' \in [Procs -> Labels]
  BY <1>1 DEF LocalsOK, Goto
<1>3. \A q \in Procs : pc'[q] = IF q = p THEN l ELSE pc[q]
  BY DEF LocalsOK, Goto
<1> QED
  BY <1>2, <1>3 DEF LocalsOK, LabelsOf

LEMMA LocalsStep == TypeOK /\ [Next]_vars => LocalsOK'
<1> SUFFICES ASSUME TypeOK, [Next]_vars PROVE LocalsOK'
  OBVIOUS
<1> USE SalesAssumption
<1> USE DEF TypeOK, StoreOK, LocalsOK, LabelsOf, Procs, locals, Labels, WorkerLabels, ClerkLabels, RebuildLabels
<1>1. ASSUME NEW p \in Procs, ListQueue(p) PROVE LocalsOK'
  BY <1>1, GotoKeepsLocals DEF ListQueue, AfterList, ListedEntries, Goto
<1>2. ASSUME NEW p \in Procs, ListPendingOrders(p) PROVE LocalsOK'
  BY <1>2, GotoKeepsLocals DEF ListPendingOrders, Goto
<1>3. ASSUME NEW p \in Procs, RebuildClear(p) PROVE LocalsOK'
  BY <1>3, GotoKeepsLocals DEF RebuildClear, AfterList, Goto
<1>4. ASSUME NEW p \in Procs, RebuildEnqueue(p) PROVE LocalsOK'
  BY <1>4, GotoKeepsLocals DEF RebuildEnqueue, AfterList, Goto
<1>5. ASSUME NEW p \in Procs, CallFails(p) PROVE LocalsOK'
  BY <1>5, ReturnKeepsLocals DEF CallFails
<1>6. ASSUME NEW w \in Workers, PopEmpty(w) PROVE LocalsOK'
  BY <1>6, ReturnKeepsLocals DEF PopEmpty
<1>7. ASSUME NEW w \in Workers, PopMin(w) PROVE LocalsOK'
  BY <1>7, GotoKeepsLocals DEF PopMin, Goto
<1>8. ASSUME NEW w \in Workers, GetPayload(w) PROVE LocalsOK'
  <2>1. CASE Return(w)
    BY <2>1, ReturnKeepsLocals DEF Procs
  <2>2. CASE ~Return(w)
    BY <1>8, <2>2 DEF GetPayload, Goto
  <2> QED
    BY <2>1, <2>2
<1>9. ASSUME NEW w \in Workers, DeletePayload(w) PROVE LocalsOK'
  BY <1>9, GotoKeepsLocals DEF DeletePayload, Goto
<1>10. ASSUME NEW w \in Workers, LoadItems(w) PROVE LocalsOK'
  BY <1>10, GotoKeepsLocals DEF LoadItems, Lines, Goto, Items
<1>11. ASSUME NEW w \in Workers, CheckATP(w) PROVE LocalsOK'
  BY <1>11, GotoKeepsLocals DEF CheckATP, Visit, Goto
<1>12. ASSUME NEW w \in Workers, Requeue(w) PROVE LocalsOK'
  BY <1>12, ReturnKeepsLocals DEF Requeue
<1>13. ASSUME NEW w \in Workers, EnterReserve(w) PROVE LocalsOK'
  BY <1>13, GotoKeepsLocals DEF EnterReserve, Lines, Goto
<1>14. ASSUME NEW w \in Workers, RecheckATP(w) PROVE LocalsOK'
  <2>1. CASE Return(w)
    BY <2>1, ReturnKeepsLocals DEF Procs
  <2>2. CASE ~Return(w)
    BY <1>14, <2>2 DEF RecheckATP, Visit, Goto
  <2> QED
    BY <2>1, <2>2
<1>15. ASSUME NEW w \in Workers, ExecReserve(w) PROVE LocalsOK'
  BY <1>15, GotoKeepsLocals DEF ExecReserve, Goto
<1>16. ASSUME NEW w \in Workers, CreateReservation(w) PROVE LocalsOK'
  BY <1>16, GotoKeepsLocals DEF CreateReservation, Goto
<1>17. ASSUME NEW w \in Workers, MarkProcessing(w) PROVE LocalsOK'
  BY <1>17, GotoKeepsLocals DEF MarkProcessing, Goto
<1>18. ASSUME NEW w \in Workers, Publish(w) PROVE LocalsOK'
  BY <1>18, GotoKeepsLocals DEF Publish, Goto, Items, NoItems
<1>19. ASSUME NEW w \in Workers, ReleaseRead(w) PROVE LocalsOK'
  <2>1. CASE Return(w)
    BY <2>1, ReturnKeepsLocals DEF Procs
  <2>2. CASE ~Return(w)
    <3>1. cur[w] \in Orders
      BY <1>19, <2>2 DEF ReleaseRead
    <3>2. hold[cur[w]] \in Items
      BY <3>1
    <3>3. want' \in [Procs -> Items] /\ UNCHANGED <<cur, row, left, list>>
      BY <1>19, <2>2, <3>2 DEF ReleaseRead
    <3>4. Goto(w, "drop_exec") \/ Goto(w, "undo_row") \/ Goto(w, "undo_exec")
      BY <1>19, <2>2 DEF ReleaseRead
    <3> QED
      BY <3>1, <3>3, <3>4, GotoKeepsLocals
  <2> QED
    BY <2>1, <2>2
<1>20. ASSUME NEW w \in Workers, ReleaseExec(w) PROVE LocalsOK'
  <2>1. CASE Return(w)
    BY <2>1, ReturnKeepsLocals DEF Procs
  <2>2. CASE ~Return(w)
    BY <1>20, <2>2 DEF ReleaseExec, Goto
  <2> QED
    BY <2>1, <2>2
<1>21. ASSUME NEW w \in Workers, DeleteReservation(w) PROVE LocalsOK'
  BY <1>21, ReturnKeepsLocals DEF DeleteReservation
<1>22. ASSUME NEW w \in Workers, ExecAnswerLost(w) PROVE LocalsOK'
  BY <1>22, ReturnKeepsLocals DEF ExecAnswerLost
<1>23. ASSUME NEW w \in Workers, WriteFails(w) PROVE LocalsOK'
  BY <1>23, GotoKeepsLocals DEF WriteFails, Goto
<1>24. ASSUME NEW c \in Clerks, CreateOrder(c) PROVE LocalsOK'
  BY <1>24, GotoKeepsLocals DEF CreateOrder, Lines, Goto, Items
<1>25. ASSUME NEW c \in Clerks, CreateOrderItem(c) PROVE LocalsOK'
  BY <1>25, GotoKeepsLocals DEF CreateOrderItem, Visit, Goto
<1>26. ASSUME NEW c \in Clerks, EnqueueNew(c) PROVE LocalsOK'
  BY <1>26, ReturnKeepsLocals DEF EnqueueNew
<1>27. ASSUME NEW c \in Clerks, PatchRead(c) PROVE LocalsOK'
  BY <1>27, GotoKeepsLocals DEF PatchRead, Editable, Goto, Items
<1>28. ASSUME NEW c \in Clerks, ReplaceOrderItems(c) PROVE LocalsOK'
  BY <1>28, GotoKeepsLocals DEF ReplaceOrderItems, Goto
<1>29. ASSUME NEW c \in Clerks, CancelRead(c) PROVE LocalsOK'
  BY <1>29, GotoKeepsLocals DEF CancelRead, Editable, Goto, Row, Status
<1>30. ASSUME NEW c \in Clerks, WriteRow(c) PROVE LocalsOK'
  BY <1>30, GotoKeepsLocals DEF WriteRow, Goto
<1>31. ASSUME NEW c \in Clerks, UpdateClient(c) PROVE LocalsOK'
  BY <1>31, GotoKeepsLocals DEF UpdateClient, Goto
<1>32. ASSUME NEW c \in Clerks, ClearStaleQueue(c) PROVE LocalsOK'
  BY <1>32, ReturnKeepsLocals DEF ClearStaleQueue
<1>33. CASE ProbeFails
  BY <1>33 DEF ProbeFails
<1>34. CASE Crash
  BY <1>34 DEF Crash, Items, NoItems, Row, NoRow, Status
<1>35. CASE UNCHANGED vars
  BY <1>35 DEF vars
<1> QED
  BY <1>1, <1>2, <1>3, <1>4, <1>5, <1>6, <1>7, <1>8, <1>9, <1>10, <1>11, <1>12, <1>13, <1>14,
     <1>15, <1>16, <1>17, <1>18, <1>19, <1>20, <1>21, <1>22, <1>23, <1>24, <1>25, <1>26, <1>27,
     <1>28, <1>29, <1>30, <1>31, <1>32, <1>33, <1>34, <1>35
     DEF Next, Arrive, Fail, WorkerStep, ClerkStep, Rebuild, Dequeue, Allocate, Edit

LEMMA StoreStep == TypeOK /\ [Next]_vars => StoreOK'
<1> SUFFICES ASSUME TypeOK, [Next]_vars PROVE StoreOK'
  OBVIOUS
<1> USE SalesAssumption DEF TypeOK, StoreOK, db, queue, valkey, Procs
<1>1. ASSUME NEW p \in Procs, ListQueue(p) \/ Rebuild(p) \/ CallFails(p) PROVE StoreOK'
  BY <1>1 DEF ListQueue, Rebuild, ListPendingOrders, RebuildClear, RebuildEnqueue, CallFails,
     ClearQueue, EnqueueOrder, First
<1>2. ASSUME NEW w \in Workers, Dequeue(w) PROVE StoreOK'
  BY <1>2 DEF Dequeue, PopEmpty, PopMin, GetPayload, DeletePayload
<1>3. ASSUME NEW w \in Workers, NEW v \in Items, cur[w] \in Orders, ReserveStock(cur[w], v)
      PROVE  atp' \in [SKUs -> Int] /\ hold' \in [Orders -> Items]
  <2>1. atp' \in [SKUs -> Int]
    <3>1. \A s \in SKUs : atp[s] \in Int /\ Units(v, s) \in Nat
      BY <1>3, UnitsType
    <3> QED
      BY <1>3, <3>1 DEF ReserveStock
  <2>2. PICK f \in Later(v) : hold' = [hold EXCEPT ![cur[w]] = HSet(@, v, f)]
    BY <1>3 DEF ReserveStock
  <2>3. HSet(hold[cur[w]], v, f) \in Items
    <3>1. hold[cur[w]] \in Items
      BY <1>3
    <3>2. \A l \in Line : v[l] \in 0..MaxQty /\ hold[cur[w]][l] \in 0..MaxQty /\ 0 \in 0..MaxQty
      BY <1>3, <3>1 DEF Items
    <3> QED
      BY <3>2 DEF HSet, Items
  <2> QED
    BY <1>3, <2>1, <2>2, <2>3
<1>4. ASSUME NEW w \in Workers, ExecReserve(w) \/ ExecAnswerLost(w) PROVE StoreOK'
  <2>1. cur[w] \in Orders /\ want[w] \in Items
    BY <1>4 DEF ExecReserve, ExecAnswerLost, LocalsOK, RebuildLabels
  <2> QED
    BY <1>3, <1>4, <2>1 DEF ExecReserve, ExecAnswerLost
<1>5. ASSUME NEW w \in Workers, ReleaseExec(w) PROVE StoreOK'
  <2>1. cur[w] \in Orders /\ want[w] \in Items
    BY <1>5 DEF ReleaseExec, LocalsOK, RebuildLabels
  <2>2. NoItems \in Items
    BY DEF NoItems, Items
  <2>3. \A s \in SKUs : atp[s] \in Int /\ Units(want[w], s) \in Nat
    BY <2>1, UnitsType
  <2>4. atp' \in [SKUs -> Int] /\ hold' \in [Orders -> Items]
    BY <1>5, <2>1, <2>2, <2>3 DEF ReleaseExec, RestoreStock
  <2> QED
    BY <1>5, <2>4 DEF ReleaseExec
<1>6. ASSUME NEW w \in Workers, CreateReservation(w) \/ MarkProcessing(w) \/ Publish(w)
      PROVE  StoreOK'
  <2>1. cur[w] \in Orders /\ want[w] \in Items
    BY <1>6 DEF CreateReservation, MarkProcessing, Publish, LocalsOK, RebuildLabels
  <2>2. AllocatedRow \in Row
    BY DEF AllocatedRow, Row, Status
  <2>3. CASE CreateReservation(w)
    BY <2>1, <2>3 DEF CreateReservation
  <2>4. CASE MarkProcessing(w)
    BY <2>1, <2>2, <2>4 DEF MarkProcessing
  <2>5. CASE Publish(w)
    BY <2>1, <2>5 DEF Publish
  <2> QED
    BY <1>6, <2>3, <2>4, <2>5
<1>7. ASSUME NEW w \in Workers,
             \/ LoadItems(w) \/ CheckATP(w) \/ Requeue(w) \/ EnterReserve(w) \/ RecheckATP(w)
             \/ ReleaseRead(w) \/ DeleteReservation(w) \/ WriteFails(w)
      PROVE  StoreOK'
  <2>1. CASE DeleteReservation(w) \/ Requeue(w)
    <3>1. cur[w] \in Orders
      BY <2>1 DEF DeleteReservation, Requeue, LocalsOK, RebuildLabels
    <3> QED
      BY <2>1, <3>1 DEF DeleteReservation, Requeue, EnqueueOrder
  <2>2. CASE ~DeleteReservation(w) /\ ~Requeue(w)
    BY <1>7, <2>2 DEF LoadItems, CheckATP, EnterReserve, RecheckATP, ReleaseRead, WriteFails
  <2> QED
    BY <2>1, <2>2
<1>8. ASSUME NEW c \in Clerks, CreateOrder(c) \/ PatchRead(c) \/ CancelRead(c) \/ UpdateClient(c)
      PROVE  StoreOK'
  <2>1. NewRow \in Row
    BY DEF NewRow, Row, Status
  <2> QED
    BY <1>8, <2>1 DEF CreateOrder, PatchRead, CancelRead, UpdateClient
<1>9. ASSUME NEW c \in Clerks, CreateOrderItem(c) PROVE StoreOK'
  <2>1. cur[c] \in Orders /\ want[c] \in Items /\ left[c] \subseteq Line
    BY <1>9 DEF CreateOrderItem, LocalsOK, RebuildLabels
  <2>2. PICK l \in Line : items' = [items EXCEPT ![cur[c]][l] = want[c][l]]
    BY <1>9, <2>1 DEF CreateOrderItem
  <2>3. [items[cur[c]] EXCEPT ![l] = want[c][l]] \in Items
    BY <2>1 DEF Items
  <2>4. items' \in [Orders -> Items]
    BY <2>2, <2>3
  <2> QED
    BY <1>9, <2>4 DEF CreateOrderItem
<1>10. ASSUME NEW c \in Clerks,
              EnqueueNew(c) \/ ReplaceOrderItems(c) \/ WriteRow(c) \/ ClearStaleQueue(c)
       PROVE  StoreOK'
  <2>1. CASE ClearStaleQueue(c)
    BY <2>1 DEF ClearStaleQueue, ClearQueue
  <2>2. CASE ~ClearStaleQueue(c)
    <3>1. cur[c] \in Orders /\ want[c] \in Items /\ row[c] \in Row
      BY <1>10, <2>2 DEF EnqueueNew, ReplaceOrderItems, WriteRow, LocalsOK, RebuildLabels
    <3> QED
      BY <1>10, <2>2, <3>1 DEF EnqueueNew, ReplaceOrderItems, WriteRow, EnqueueOrder
  <2> QED
    BY <2>1, <2>2
<1>11. CASE ProbeFails \/ Crash
  BY <1>11 DEF ProbeFails, Crash
<1>12. CASE UNCHANGED vars
  BY <1>12 DEF vars
<1> QED
  BY <1>1, <1>2, <1>4, <1>5, <1>6, <1>7, <1>8, <1>9, <1>10, <1>11, <1>12
  DEF Next, Arrive, Fail, WorkerStep, ClerkStep, Allocate, Edit

LEMMA BoundsStep ==
  TypeOK /\ [Next]_vars => patches' \in 0..MaxPatches /\ faults' \in 0..MaxFaults
  BY SalesAssumption, SMTT(30) DEF TypeOK, Next, vars, bounds, Arrive, Fail, WorkerStep, ClerkStep,
     Rebuild, Dequeue, Allocate, Edit, ListQueue, ListPendingOrders, RebuildClear,
     RebuildEnqueue, PopEmpty, PopMin, GetPayload, DeletePayload, LoadItems, CheckATP, Requeue,
     EnterReserve, RecheckATP, ExecReserve, CreateReservation, MarkProcessing, Publish,
     ReleaseRead, ReleaseExec, DeleteReservation, CreateOrder, CreateOrderItem, EnqueueNew,
     PatchRead, ReplaceOrderItems, CancelRead, WriteRow, UpdateClient, ClearStaleQueue,
     CountFault, CallFails, ExecAnswerLost, WriteFails, ProbeFails, Crash

LEMMA TypesAtFirst == Init => TypeOK
<1> SUFFICES ASSUME Init PROVE TypeOK
  OBVIOUS
<1>1. NoItems \in Items /\ NoRow \in Row
  BY SalesAssumption DEF NoItems, Items, NoRow, Row, Status
<1>2. StoreOK
  <2>1. atp \in [SKUs -> Int]
    BY SalesAssumption DEF Init
  <2> QED
    BY <1>1, <2>1 DEF Init, StoreOK
<1>3. LocalsOK
  BY <1>1 DEF Init, LocalsOK, Labels, LabelsOf
<1> QED
  BY <1>2, <1>3, SalesAssumption DEF Init, TypeOK

LEMMA TypesStep == TypeOK /\ [Next]_vars => TypeOK'
  BY LocalsStep, StoreStep, BoundsStep DEF TypeOK

(* Every variable of the service keeps its type, and every request stands  *)
(* where its handler may stand (the handlers of order_service.go and       *)
(* fulfillment_service.go).                                                *)
THEOREM TypeCorrect == Spec => []TypeOK
  BY TypesAtFirst, TypesStep, PTL DEF Spec

-----------------------------------------------------------------------------
(***************************************************************************)
(* Ownership.  The steps that do not touch a reservation, a manifest or a  *)
(* row leave every owner where it was or make it a former owner.           *)
(***************************************************************************)
LEMMA OwnershipInit == Init => OwnershipInv
  BY SalesAssumption DEF Init, OwnershipInv, OwnersHold, OneOwner, WantIsReserved,
     NotYetProcessing, EditsArePending, ProcessingIsReserved, ManifestBacked, Owns, Undoing,
     Procs, NoRow

LEMMA OwnershipStep == TypeOK /\ OwnershipInv /\ [Next]_vars => OwnershipInv'
<1> SUFFICES ASSUME TypeOK, OwnershipInv, [Next]_vars PROVE OwnershipInv'
  OBVIOUS
<1> USE SalesAssumption
<1> USE DEF TypeOK, StoreOK, LocalsOK, OwnershipInv, OwnersHold, OneOwner, WantIsReserved,
            NotYetProcessing, EditsArePending, ProcessingIsReserved, ManifestBacked, Owns,
            Undoing, Procs, RebuildLabels
<1>1. ASSUME NEW p \in Procs, ListQueue(p) PROVE OwnershipInv'
  BY <1>1 DEF ListQueue, Goto, AfterList, db, locals
<1>2. ASSUME NEW p \in Procs, Rebuild(p) PROVE OwnershipInv'
  BY <1>2
     DEF Rebuild, ListPendingOrders, RebuildClear, RebuildEnqueue, Goto, AfterList, db, locals
<1>3. ASSUME NEW p \in Procs, CallFails(p) PROVE OwnershipInv'
  BY <1>3 DEF CallFails, Return, db
<1>4. ASSUME NEW w \in Workers, Dequeue(w) PROVE OwnershipInv'
  BY <1>4 DEF Dequeue, PopEmpty, PopMin, GetPayload, DeletePayload, Goto, Return, db, locals
<1>5. ASSUME NEW w \in Workers, LoadItems(w) PROVE OwnershipInv'
  BY <1>5 DEF LoadItems, Goto, db
<1>6. ASSUME NEW w \in Workers, CheckATP(w) \/ Requeue(w) PROVE OwnershipInv'
  BY <1>6 DEF CheckATP, Requeue, Visit, Goto, Return, db
<1>7. ASSUME NEW w \in Workers, EnterReserve(w) PROVE OwnershipInv'
  BY <1>7 DEF EnterReserve, Goto, db
<1>8. ASSUME NEW w \in Workers, RecheckATP(w) PROVE OwnershipInv'
  BY <1>8 DEF RecheckATP, Visit, Goto, Return, db
<1>9. ASSUME NEW w \in Workers, ExecReserve(w) \/ ExecAnswerLost(w) PROVE OwnershipInv'
  BY <1>9 DEF ExecReserve, ExecAnswerLost, Goto, Return, db, locals
<1>10. ASSUME NEW w \in Workers, CreateReservation(w) PROVE OwnershipInv'
  <2>1. want[w] \in Items /\ want[w] # None /\ cur[w] \in Orders
    BY <1>10, NoneIsNoItems DEF CreateReservation
  <2>2. CASE resv[cur[w]] = None
    <3>1. /\ resv' = [resv EXCEPT ![cur[w]] = want[w]]
          /\ pc' = [pc EXCEPT ![w] = "update"]
          /\ UNCHANGED <<order, manifest, cur, row, want>>
      BY <1>10, <2>2 DEF CreateReservation, Goto, locals
    <3>2. \A v \in Workers : Owns(v)' /\ v # w => cur[v] # cur[w]
      BY <2>2, <3>1
    <3>3. order[cur[w]].status # "PROCESSING" /\ manifest[cur[w]] = None
      BY <2>1, <2>2
    <3>4. OwnersHold' /\ OneOwner' /\ WantIsReserved'
      BY <2>1, <3>1, <3>2, <3>3
    <3>5. NotYetProcessing' /\ EditsArePending'
      BY <2>1, <3>1, <3>2, <3>3
    <3>6. ProcessingIsReserved' /\ ManifestBacked'
      BY <2>1, <3>1, <3>3
    <3> QED
      BY <3>4, <3>5, <3>6
  <2>3. CASE resv[cur[w]] # None
    BY <1>10, <2>3 DEF CreateReservation, Goto, locals
  <2> QED
    BY <2>2, <2>3
<1>11. ASSUME NEW w \in Workers, MarkProcessing(w) PROVE OwnershipInv'
  BY <1>11 DEF MarkProcessing, AllocatedRow, Goto, locals
<1>12. ASSUME NEW w \in Workers, Publish(w) PROVE OwnershipInv'
  BY <1>12 DEF Publish, Goto, db
<1>13. ASSUME NEW w \in Workers, ReleaseRead(w) PROVE OwnershipInv'
  BY <1>13 DEF ReleaseRead, Goto, Return, db
<1>14. ASSUME NEW w \in Workers, ReleaseExec(w) PROVE OwnershipInv'
  BY <1>14 DEF ReleaseExec, Goto, Return, db, locals
<1>15. ASSUME NEW w \in Workers, DeleteReservation(w) PROVE OwnershipInv'
  BY <1>15 DEF DeleteReservation, Return
<1>16. ASSUME NEW w \in Workers, WriteFails(w) PROVE OwnershipInv'
  BY <1>16 DEF WriteFails, Goto, db, locals
<1>17. ASSUME NEW c \in Clerks, CreateOrder(c) PROVE OwnershipInv'
  BY <1>17 DEF CreateOrder, NewRow, Goto
<1>18. ASSUME NEW c \in Clerks, CreateOrderItem(c) \/ EnqueueNew(c) PROVE OwnershipInv'
  BY <1>18 DEF CreateOrderItem, EnqueueNew, Visit, Goto, Return, db
<1>19. ASSUME NEW c \in Clerks, PatchRead(c) PROVE OwnershipInv'
  BY <1>19 DEF PatchRead, Editable, Goto, db
<1>20. ASSUME NEW c \in Clerks, CancelRead(c) PROVE OwnershipInv'
  BY <1>20 DEF CancelRead, Editable, Goto, db, Row
<1>21. ASSUME NEW c \in Clerks, ReplaceOrderItems(c) PROVE OwnershipInv'
  BY <1>21 DEF ReplaceOrderItems, Goto, locals
<1>22. ASSUME NEW c \in Clerks, WriteRow(c) PROVE OwnershipInv'
  BY <1>22 DEF WriteRow, Goto, locals
<1>23. ASSUME NEW c \in Clerks, UpdateClient(c) \/ ClearStaleQueue(c) PROVE OwnershipInv'
  BY <1>23 DEF UpdateClient, ClearStaleQueue, Goto, Return, db, locals
<1>24. CASE ProbeFails
  BY <1>24 DEF ProbeFails, db, locals
<1>25. CASE Crash
  BY <1>25 DEF Crash, db
<1>26. CASE UNCHANGED vars
  BY <1>26 DEF vars
<1> QED
  BY <1>1, <1>2, <1>3, <1>4, <1>5, <1>6, <1>7, <1>8, <1>9, <1>10, <1>11, <1>12, <1>13, <1>14,
     <1>15, <1>16, <1>17, <1>18, <1>19, <1>20, <1>21, <1>22, <1>23, <1>24, <1>25, <1>26
  DEF Next, Arrive, Fail, WorkerStep, ClerkStep, Allocate, Edit

(* One request at a time owns the reservation of an order between          *)
(* CreateReservation and the end of allocateOrder.                         *)
THEOREM Ownership == Spec => []OwnershipInv
<1>1. Spec => [](TypeOK /\ OwnershipInv)
  <2>1. Init => OwnershipInv
    BY OwnershipInit
  <2>2. TypeOK /\ OwnershipInv /\ [Next]_vars => OwnershipInv'
    BY OwnershipStep
  <2> QED
    BY <2>1, <2>2, TypeCorrect, PTL DEF Spec
<1> QED
  BY <1>1, PTL

(* No interleaving of ProcessQueue, edits, failures and crashes leaves an  *)
(* order PROCESSING without its row in inventory_reservations.             *)
THEOREM ProcessingReserved == Spec => []ProcessingIsReserved
<1>1. OwnershipInv => ProcessingIsReserved
  BY DEF OwnershipInv
<1> QED
  BY <1>1, Ownership, PTL

(* What was announced on sales.fulfillment.processed stays reserved.       *)
THEOREM ManifestsBacked == Spec => []ManifestBacked
<1>1. OwnershipInv => ManifestBacked
  BY DEF OwnershipInv
<1> QED
  BY <1>1, Ownership, PTL

-----------------------------------------------------------------------------
(***************************************************************************)
(* Refinement: allocateOrder, its clean-up and everything around it        *)
(* implement the abstract fulfilment.                                      *)
(***************************************************************************)
LEMMA PromiseStep == TypeOK /\ OwnershipInv /\ [Next]_vars => [Promise!Next]_(Promise!vars)
<1> SUFFICES ASSUME TypeOK, OwnershipInv, [Next]_vars PROVE Promise!Next \/ UNCHANGED <<resv, manifest>>
  BY DEF Promise!vars
<1> USE DEF db, TypeOK, LocalsOK, StoreOK, Procs, RebuildLabels
<1>1. ASSUME NEW w \in Workers, CreateReservation(w)
      PROVE  Promise!Next \/ UNCHANGED <<resv, manifest>>
  <2>1. cur[w] \in Orders /\ want[w] \in Items
    BY <1>1 DEF CreateReservation
  <2>2. CASE resv[cur[w]] = None
    <3>1. manifest[cur[w]] = None
      BY <2>1, <2>2 DEF OwnershipInv, ManifestBacked
    <3>2. resv' = [resv EXCEPT ![cur[w]] = want[w]] /\ UNCHANGED manifest
      BY <1>1, <2>2 DEF CreateReservation
    <3> QED
      BY <2>1, <2>2, <3>1, <3>2 DEF Promise!Next, Promise!Reserve
  <2> QED
    BY <1>1, <2>2 DEF CreateReservation
<1>2. ASSUME NEW w \in Workers, Publish(w) PROVE Promise!Next
  <2>1. cur[w] \in Orders
    BY <1>2 DEF Publish
  <2>2. resv[cur[w]] = want[w] /\ resv[cur[w]] # None /\ manifest[cur[w]] = None
    BY <1>2 DEF Publish, OwnershipInv, OwnersHold, WantIsReserved, Owns
  <2> QED
    BY <1>2, <2>1, <2>2 DEF Publish, Promise!Next, Promise!Announce
<1>3. ASSUME NEW w \in Workers, DeleteReservation(w) PROVE Promise!Next
  <2>1. cur[w] \in Orders /\ manifest[cur[w]] = None
    BY <1>3 DEF DeleteReservation, OwnershipInv, OwnersHold, Owns, Undoing
  <2> QED
    BY <1>3, <2>1 DEF DeleteReservation, Promise!Next, Promise!Abandon
<1>4. ASSUME NEW w \in Workers,
             \/ Dequeue(w) \/ LoadItems(w) \/ CheckATP(w) \/ Requeue(w) \/ EnterReserve(w)
             \/ RecheckATP(w) \/ ExecReserve(w) \/ MarkProcessing(w) \/ ReleaseRead(w)
             \/ ReleaseExec(w) \/ ExecAnswerLost(w) \/ WriteFails(w)
      PROVE  UNCHANGED <<resv, manifest>>
  BY <1>4
     DEF Dequeue, PopEmpty, PopMin, GetPayload, DeletePayload, LoadItems, CheckATP, Requeue,
     EnterReserve, RecheckATP, ExecReserve, MarkProcessing, ReleaseRead, ReleaseExec,
     ExecAnswerLost, WriteFails
<1>5. ASSUME NEW p \in Procs, ListQueue(p) \/ Rebuild(p) \/ CallFails(p)
      PROVE  UNCHANGED <<resv, manifest>>
  BY <1>5 DEF ListQueue, Rebuild, ListPendingOrders, RebuildClear, RebuildEnqueue, CallFails
<1>6. ASSUME NEW c \in Clerks,
             CreateOrder(c) \/ PatchRead(c) \/ CancelRead(c) \/ UpdateClient(c) \/ Edit(c)
      PROVE  UNCHANGED <<resv, manifest>>
  BY <1>6 DEF CreateOrder, PatchRead, CancelRead, UpdateClient, Edit, CreateOrderItem,
     EnqueueNew, ReplaceOrderItems, WriteRow, ClearStaleQueue
<1>7. CASE ProbeFails \/ Crash \/ UNCHANGED vars
  BY <1>7 DEF ProbeFails, Crash, vars
<1> QED
  BY <1>1, <1>2, <1>3, <1>4, <1>5, <1>6, <1>7
     DEF Next, Arrive, Fail, WorkerStep, ClerkStep, Allocate

(* An order is announced at most once, with the quantities reserved for it, *)
(* and its reservation is given up only before that, by its owner.         *)
THEOREM Refinement == Spec => ImplementsFulfilment
<1>1. Init => Promise!Init
  BY DEF Init, Promise!Init
<1>2. TypeOK /\ OwnershipInv /\ [Next]_vars => [Promise!Next]_(Promise!vars)
  BY PromiseStep
<1> QED
  BY <1>1, <1>2, TypeCorrect, Ownership, PTL DEF Spec, ImplementsFulfilment, Promise!Spec

-----------------------------------------------------------------------------
(***************************************************************************)
(* Overdrafts.  A worker that has read the counter for a line the last     *)
(* time is promised its quantity until it lowers the counter.              *)
(***************************************************************************)
Passed(w, l) == pc[w] = "exec" \/ (pc[w] = "recheck" /\ l \notin left[w])
Share(w, l) == IF Passed(w, l) THEN want[w][l] ELSE 0
Amount(w, s) == Share(w, <<s, "created">>) + Share(w, <<s, "edited">>)
Promised(s) == SumFunctionOnSet([w \in Workers |-> Amount(w, s)], Workers)
Slack == (2 * Cardinality(Workers) - 1) * MaxQty

(* What is promised is in the counter, but for all lines of the workers    *)
(* except the last one that was read.                                      *)
PromisesCovered == \A s \in SKUs : Promised(s) <= atp[s] + Slack

LEMMA AmountType ==
  ASSUME TypeOK, NEW w \in Workers, NEW s \in SKUs
  PROVE  /\ Amount(w, s) \in Nat /\ Amount(w, s) <= 2 * MaxQty
         /\ want[w] \in Items /\ Units(want[w], s) \in Nat
         /\ \A l \in {<<s, "created">>, <<s, "edited">>} :
                /\ want[w][l] \in Nat /\ want[w][l] <= MaxQty
                /\ Share(w, l) \in Nat /\ Share(w, l) <= MaxQty
<1>1. want[w] \in Items
  BY DEF TypeOK, LocalsOK, Procs
<1>2. /\ want[w][<<s, "created">>] \in 0..MaxQty /\ want[w][<<s, "edited">>] \in 0..MaxQty
      /\ Units(want[w], s) \in Nat
  BY <1>1, UnitsType
<1>3. \A l \in {<<s, "created">>, <<s, "edited">>} :
        /\ want[w][l] \in Nat /\ want[w][l] <= MaxQty
        /\ Share(w, l) \in Nat /\ Share(w, l) <= MaxQty
  BY <1>2, SalesAssumption DEF Share
<1>4. Amount(w, s) \in Nat /\ Amount(w, s) <= 2 * MaxQty
  BY <1>3, SalesAssumption DEF Amount
<1> QED
  BY <1>1, <1>2, <1>3, <1>4

(* The same of the next state.                                             *)
LEMMA AmountTypeNext ==
  ASSUME TypeOK', NEW w \in Workers, NEW s \in SKUs
  PROVE  Amount(w, s)' \in Nat
<1>1. want'[w] \in Items
  BY DEF TypeOK, LocalsOK, Procs
<1>2. want'[w][<<s, "created">>] \in 0..MaxQty /\ want'[w][<<s, "edited">>] \in 0..MaxQty
  BY <1>1, UnitsType
<1>3. Share(w, <<s, "created">>)' \in Nat /\ Share(w, <<s, "edited">>)' \in Nat
  BY <1>2, SalesAssumption DEF Share
<1> QED
  BY <1>3 DEF Amount

LEMMA SlackType ==
  /\ IsFiniteSet(Workers) /\ Cardinality(Workers) \in Nat /\ Cardinality(Workers) >= 1
  /\ Slack \in Nat
<1>1. IsFiniteSet(Workers) /\ Workers # {} /\ MaxQty \in Nat
  BY SalesAssumption
<1>2. Cardinality(Workers) \in Nat /\ Cardinality(Workers) # 0
  BY <1>1, FS_CardinalityType, FS_EmptySet
<1>3. \A n \in Nat : n # 0 => n >= 1 /\ (2 * n - 1) * MaxQty \in Nat
  BY <1>1
<1> QED
  BY <1>1, <1>2, <1>3 DEF Slack

LEMMA PromisedType ==
  ASSUME TypeOK, NEW s \in SKUs
  PROVE  Promised(s) \in Nat
<1> DEFINE f == [w \in Workers |-> Amount(w, s)]
<1>1. \A w \in Workers : f[w] \in Nat
  BY AmountType
<1> HIDE DEF f
<1>2. SumFunctionOnSet(f, Workers) \in Nat
  BY <1>1, SlackType, SumType
<1> QED
  BY <1>2 DEF Promised, f

(* Nobody is promised more, and the counter is not lowered.                *)
LEMMA PromisesShrink ==
  ASSUME TypeOK, TypeOK', NEW s \in SKUs, Promised(s) <= atp[s] + Slack, atp'[s] >= atp[s],
         \A w \in Workers : Amount(w, s)' <= Amount(w, s)
  PROVE  Promised(s)' <= atp'[s] + Slack
<1>1. PICK f : f = [w \in Workers |-> Amount(w, s)]
  OBVIOUS
<1>2. PICK e : e = [w \in Workers |-> Amount(w, s)']
  OBVIOUS
<1>3. \A w \in Workers : Amount(w, s) \in Nat /\ Amount(w, s)' \in Nat
  <2>1. \A w \in Workers : Amount(w, s) \in Nat
    BY AmountType
  <2>2. \A w \in Workers : Amount(w, s)' \in Nat
    BY AmountTypeNext
  <2> QED
    BY <2>1, <2>2
<1>4. \A w \in Workers : f[w] \in Nat /\ e[w] \in Nat /\ e[w] <= f[w]
  BY <1>1, <1>2, <1>3
<1>5. SumFunctionOnSet(e, Workers) <= SumFunctionOnSet(f, Workers)
  BY <1>4, SlackType, SumMonotone
<1>6. Promised(s) = SumFunctionOnSet(f, Workers) /\ Promised(s)' = SumFunctionOnSet(e, Workers)
  BY <1>1, <1>2 DEF Promised
<1>7. SumFunctionOnSet(e, Workers) \in Nat /\ SumFunctionOnSet(f, Workers) \in Nat
  BY <1>4, SlackType, SumType
<1>8. atp[s] \in Int /\ atp'[s] \in Int /\ Slack \in Nat
  BY SlackType DEF TypeOK, StoreOK
<1> QED
  BY <1>5, <1>6, <1>7, <1>8

(* The counter is lowered by what one worker was promised.                 *)
LEMMA PromiseKept ==
  ASSUME TypeOK, TypeOK', NEW s \in SKUs, Promised(s) <= atp[s] + Slack, NEW w \in Workers,
         pc[w] = "exec", pc'[w] \notin {"exec", "recheck"},
         \A v \in Workers \ {w} : Amount(v, s)' = Amount(v, s),
         atp'[s] = atp[s] - Units(want[w], s)
  PROVE  Promised(s)' <= atp'[s] + Slack
<1>1. PICK f : f = [v \in Workers |-> Amount(v, s)]
  OBVIOUS
<1>2. PICK e : e = [v \in Workers |-> Amount(v, s)']
  OBVIOUS
<1>3. f[w] = Units(want[w], s) /\ e[w] = 0
  BY <1>1, <1>2 DEF Amount, Share, Passed, Units
<1>4. \A v \in Workers : f[v] \in Nat
  BY <1>1, AmountType
<1>5. (\A v \in Workers : f[v] \in Nat /\ e[v] \in Nat) /\ \A v \in Workers \ {w} : e[v] = f[v]
  BY <1>1, <1>2, <1>3, <1>4
<1>6. SumFunctionOnSet(e, Workers) = SumFunctionOnSet(f, Workers) + (e[w] - f[w])
  <2> DEFINE others == Workers \ {w}
  <2>1. IsFiniteSet(others)
    BY SlackType, FS_RemoveElement
  <2>2. /\ SumFunctionOnSet(e, Workers) = e[w] + SumFunctionOnSet(e, others)
        /\ SumFunctionOnSet(f, Workers) = f[w] + SumFunctionOnSet(f, others)
    BY <1>5, SlackType, SumRemove
  <2>3. \A v \in others : e[v] = f[v]
    BY <1>5
  <2> HIDE DEF others
  <2>4. SumFunctionOnSet(e, others) = SumFunctionOnSet(f, others)
    BY <2>1, <2>3, SumSame
  <2>5. SumFunctionOnSet(f, others) \in Nat
    <3>1. \A v \in others : f[v] \in Nat
      BY <1>5 DEF others
    <3> QED
      BY <2>1, <3>1, SumType
  <2>6. e[w] \in Nat /\ f[w] \in Nat
    BY <1>5
  <2> QED
    BY <2>2, <2>4, <2>5, <2>6
<1>7. Promised(s) = SumFunctionOnSet(f, Workers) /\ Promised(s)' = SumFunctionOnSet(e, Workers)
  BY <1>1, <1>2 DEF Promised
<1>8. SumFunctionOnSet(f, Workers) \in Nat
  BY <1>5, SlackType, SumType
<1>9. atp[s] \in Int /\ Slack \in Nat /\ Units(want[w], s) \in Nat
  BY SlackType, AmountType DEF TypeOK, StoreOK
<1> QED
  BY <1>3, <1>6, <1>7, <1>8, <1>9

(* A worker is promised the line it has just read the counter for, and one  *)
(* more of the SKU at most: each of the others is promised two at most.    *)
LEMMA PromiseMade ==
  ASSUME TypeOK, NEW s \in SKUs, NEW w \in Workers, NEW q \in Nat, atp[s] >= q,
         Amount(w, s)' <= q + MaxQty, Amount(w, s)' \in Nat, atp'[s] = atp[s],
         \A v \in Workers \ {w} : Amount(v, s)' = Amount(v, s)
  PROVE  Promised(s)' <= atp'[s] + Slack
<1>1. PICK e : e = [v \in Workers |-> Amount(v, s)']
  OBVIOUS
<1>2. PICK m : m = [v \in Workers |-> 2 * MaxQty]
  OBVIOUS
<1> DEFINE others == Workers \ {w}
<1>3. MaxQty \in Nat /\ 2 * MaxQty \in Nat
  BY SalesAssumption
<1>4. \A v \in Workers : e[v] \in Nat
  BY <1>1, AmountType
<1>5. \A v \in others : e[v] \in Nat /\ m[v] \in Nat /\ e[v] <= m[v]
  BY <1>1, <1>2, <1>3, AmountType
<1>6. IsFiniteSet(others) /\ Cardinality(others) = Cardinality(Workers) - 1
  BY SlackType, FS_RemoveElement
<1> HIDE DEF others
<1>7. SumFunctionOnSet(e, others) <= SumFunctionOnSet(m, others)
  BY <1>5, <1>6, SumMonotone
<1>8. SumFunctionOnSet(m, others) + MaxQty = Slack
  <2>1. others \subseteq Workers
    BY DEF others
  <2>2. SumFunctionOnSet(m, others) = Cardinality(others) * (2 * MaxQty)
    BY <1>2, <1>3, <1>6, <2>1, SumConstant
  <2>3. \A n \in Nat, k \in Nat : (n - 1) * (2 * k) + k = (2 * n - 1) * k
    OBVIOUS
  <2> QED
    BY <1>3, <1>6, <2>2, <2>3, SlackType DEF Slack
<1>9. SumFunctionOnSet(e, Workers) = e[w] + SumFunctionOnSet(e, others)
  BY <1>4, SlackType, SumRemove DEF others
<1>10. SumFunctionOnSet(e, others) \in Nat /\ SumFunctionOnSet(m, others) \in Nat
  BY <1>5, <1>6, SumType
<1>11. Promised(s)' = SumFunctionOnSet(e, Workers) /\ e[w] = Amount(w, s)'
  BY <1>1 DEF Promised
<1>12. atp[s] \in Int /\ Slack \in Nat
  BY SlackType DEF TypeOK, StoreOK
<1> QED
  BY <1>3, <1>7, <1>8, <1>9, <1>10, <1>11, <1>12

Others(p) == \A v \in Workers \ {p} : pc'[v] = pc[v] /\ want'[v] = want[v] /\ left'[v] = left[v]

LEMMA OthersStand ==
  ASSUME TypeOK, NEW p, Others(p), NEW s \in SKUs
  PROVE  \A v \in Workers \ {p} : Amount(v, s)' = Amount(v, s)
  BY DEF Others, Amount, Share, Passed

LEMMA NothingPromised ==
  ASSUME TypeOK, TypeOK', NEW s \in SKUs, Promised(s) <= atp[s] + Slack, atp'[s] >= atp[s],
         NEW p \in Procs, Others(p), p \in Workers => Amount(p, s)' = 0
  PROVE  Promised(s)' <= atp'[s] + Slack
<1>1. \A w \in Workers : Amount(w, s)' <= Amount(w, s)
  <2>1. ASSUME NEW w \in Workers PROVE Amount(w, s)' <= Amount(w, s)
    <3>1. Amount(w, s) \in Nat
      BY AmountType
    <3>2. Amount(w, s)' = Amount(w, s) \/ Amount(w, s)' = 0
      BY OthersStand
    <3> QED
      BY <3>1, <3>2
  <2> QED
    BY <2>1
<1> QED
  BY <1>1, PromisesShrink

LEMMA PromisesStep ==
  ASSUME TypeOK, TypeOK', [Next]_vars, PromisesCovered
  PROVE  PromisesCovered'
<1> SUFFICES ASSUME NEW s \in SKUs PROVE Promised(s)' <= atp'[s] + Slack
  BY DEF PromisesCovered
<1>0. /\ Promised(s) <= atp[s] + Slack /\ atp[s] \in Int
      /\ pc \in [Procs -> Labels] /\ left \in [Procs -> SUBSET Line] /\ want \in [Procs -> Items]
      /\ Workers \subseteq Procs
  BY DEF PromisesCovered, TypeOK, StoreOK, LocalsOK, Procs
<1>1. ASSUME NEW p \in Procs, Others(p), UNCHANGED atp, pc'[p] \notin {"exec", "recheck"}
      PROVE  Promised(s)' <= atp'[s] + Slack
  <2>1. p \in Workers => Amount(p, s)' = 0
    BY <1>1 DEF Amount, Share, Passed
  <2> QED
    BY <1>0, <1>1, <2>1, NothingPromised
<1>2. ASSUME NEW p \in Procs, Return(p) PROVE Others(p) /\ pc'[p] = "idle"
  BY <1>0, <1>2 DEF Return, Others
<1>3. ASSUME NEW p \in Procs, NEW l, Goto(p, l), UNCHANGED <<want, left>>
      PROVE  Others(p) /\ pc'[p] = l
  BY <1>0, <1>3 DEF Goto, Others
<1>4. ASSUME NEW p \in Procs, NEW l, Goto(p, l)
      PROVE  pc'[p] = l /\ \A v \in Procs \ {p} : pc'[v] = pc[v]
  BY <1>0, <1>4 DEF Goto
<1>5. ASSUME UNCHANGED <<pc, want, left, atp>>
      PROVE  Promised(s)' <= atp'[s] + Slack
  <2>1. \A w \in Workers : Amount(w, s)' = Amount(w, s) /\ Amount(w, s) \in Nat
    BY <1>5, AmountType DEF Amount, Share, Passed
  <2>2. \A w \in Workers : Amount(w, s)' <= Amount(w, s)
    BY <2>1
  <2> QED
    BY <1>0, <1>5, <2>2, PromisesShrink
<1>6. ASSUME NEW p \in Procs, ListQueue(p) \/ Rebuild(p) \/ CallFails(p)
      PROVE  Promised(s)' <= atp'[s] + Slack
  <2>1. Others(p) /\ pc'[p] \notin {"exec", "recheck"}
    BY <1>2, <1>3, <1>6
    DEF ListQueue, Rebuild, ListPendingOrders, RebuildClear, RebuildEnqueue, CallFails, locals, AfterList
  <2>2. UNCHANGED atp
    BY <1>6
       DEF ListQueue, Rebuild, ListPendingOrders, RebuildClear, RebuildEnqueue, CallFails,
           valkey
  <2> QED
    BY <1>1, <2>1, <2>2
<1>7. ASSUME NEW w \in Workers, Dequeue(w) \/ Requeue(w) \/ CreateReservation(w) \/ MarkProcessing(w)
                              \/ DeleteReservation(w) \/ WriteFails(w)
      PROVE  Promised(s)' <= atp'[s] + Slack
  <2>0. w \in Procs
    BY <1>0
  <2>1. Others(w) /\ pc'[w] \notin {"exec", "recheck"}
    BY <1>2, <1>3, <1>7, <2>0
    DEF Dequeue, PopEmpty, PopMin, GetPayload, DeletePayload, Requeue, CreateReservation,
        MarkProcessing, DeleteReservation, WriteFails, locals
  <2>2. UNCHANGED atp
    BY <1>7
       DEF Dequeue, PopEmpty, PopMin, GetPayload, DeletePayload, Requeue, CreateReservation,
        MarkProcessing, DeleteReservation, WriteFails, valkey
  <2> QED
    BY <1>1, <2>0, <2>1, <2>2
<1>8. ASSUME NEW w \in Workers, LoadItems(w) \/ CheckATP(w) \/ Publish(w) \/ ReleaseRead(w)
      PROVE  Promised(s)' <= atp'[s] + Slack
  <2>0. w \in Procs
    BY <1>0
  <2>1. CASE LoadItems(w)
    <3>1. Others(w) /\ pc'[w] \in {"reserve", "check"} /\ UNCHANGED atp
      BY <1>0, <2>0, <2>1 DEF LoadItems, Others, Goto, valkey
    <3> QED
      BY <1>1, <2>0, <3>1
  <2>2. CASE CheckATP(w)
    <3>1. Others(w) /\ pc'[w] \in {"reserve", "check", "requeue"} /\ UNCHANGED atp
      BY <1>0, <2>0, <2>2 DEF CheckATP, Visit, Others, Goto, valkey
    <3> QED
      BY <1>1, <2>0, <3>1
  <2>3. CASE Publish(w)
    <3>1. Others(w) /\ pc'[w] = "pop" /\ UNCHANGED atp
      BY <1>0, <2>0, <2>3 DEF Publish, Others, Goto, valkey
    <3> QED
      BY <1>1, <2>0, <3>1
  <2>4. CASE ReleaseRead(w)
    <3>1. CASE Return(w)
      BY <1>1, <1>2, <2>0, <2>4, <3>1 DEF ReleaseRead, valkey
    <3>2. CASE ~Return(w)
      <4>1. Others(w) /\ pc'[w] \in {"drop_exec", "undo_row", "undo_exec"} /\ UNCHANGED atp
        BY <1>0, <2>0, <2>4, <3>2 DEF ReleaseRead, Others, Goto, valkey
      <4> QED
        BY <1>1, <2>0, <4>1
    <3> QED
      BY <3>1, <3>2
  <2> QED
    BY <1>8, <2>1, <2>2, <2>3, <2>4
<1>9. ASSUME NEW w \in Workers, EnterReserve(w) PROVE Promised(s)' <= atp'[s] + Slack
  <2>0. w \in Procs
    BY <1>0
  <2>1. Others(w) /\ UNCHANGED <<atp, want>>
    BY <1>0, <1>9, <2>0 DEF EnterReserve, Others, Goto, valkey
  <2>2. \/ pc'[w] = "persist"
        \/ pc'[w] = "exec" /\ Lines(want[w]) = {}
        \/ pc'[w] = "recheck" /\ left'[w] = Lines(want[w])
    BY <1>0, <1>9, <2>0 DEF EnterReserve, Goto
  <2>3. /\ <<s, "created">> \in Line /\ <<s, "edited">> \in Line
        /\ want[w][<<s, "created">>] \in Nat /\ want[w][<<s, "edited">>] \in Nat
    BY AmountType, UnitsType
  <2>4. \A l \in {<<s, "created">>, <<s, "edited">>} : l \notin Lines(want[w]) => want[w][l] = 0
    BY <2>3 DEF Lines
  <2>5. Amount(w, s)' = 0
    <3>1. Share(w, <<s, "created">>)' = 0 /\ Share(w, <<s, "edited">>)' = 0
      BY <2>1, <2>2, <2>4 DEF Share, Passed
    <3> QED
      BY <3>1 DEF Amount
  <2>6. atp'[s] >= atp[s]
    BY <1>0, <2>1
  <2> QED
    BY <1>0, <2>0, <2>1, <2>5, <2>6, NothingPromised
<1>10. ASSUME NEW w \in Workers, RecheckATP(w) PROVE Promised(s)' <= atp'[s] + Slack
  <2>0. w \in Procs /\ UNCHANGED atp /\ pc[w] = "recheck"
    BY <1>0, <1>10 DEF RecheckATP, valkey
  <2>1. CASE Return(w)
    BY <1>1, <1>2, <2>0, <2>1
  <2>2. CASE ~Return(w)
    <3>1. PICK k \in left[w] : GetATP(k[1]) >= want[w][k] /\ Visit(w, k, "exec") /\ UNCHANGED want
      BY <1>10, <2>2 DEF RecheckATP
    <3>2. /\ Others(w) /\ left'[w] = left[w] \ {k}
          /\ pc'[w] = IF left[w] = {k} THEN "exec" ELSE "recheck"
      BY <1>0, <2>0, <3>1 DEF Visit, Goto, Others
    <3> DEFINE l1 == <<s, "created">>
               l2 == <<s, "edited">>
    <3>3. /\ want[w][l1] \in Nat /\ want[w][l2] \in Nat /\ want[w][l1] <= MaxQty /\ want[w][l2] <= MaxQty
          /\ Share(w, l1) \in Nat /\ Share(w, l2) \in Nat
          /\ Share(w, l1) <= MaxQty /\ Share(w, l2) <= MaxQty
      BY AmountType
    <3>4. \A l : l # k => Share(w, l)' = Share(w, l)
      BY <2>0, <3>1, <3>2 DEF Share, Passed
    <3>5. Share(w, k) = 0 /\ Share(w, k)' = want[w][k]
      BY <2>0, <3>1, <3>2 DEF Share, Passed
    <3>6. \A v \in Workers \ {w} : Amount(v, s)' = Amount(v, s)
      BY <3>2, OthersStand
    <3>7. CASE k = l1 \/ k = l2
      <4>1. l1 # l2 /\ k[1] = s
        BY <3>7
      <4>2. Amount(w, s)' <= want[w][k] + MaxQty /\ Amount(w, s)' \in Nat /\ want[w][k] \in Nat
        <5>1. CASE k = l1
          BY <3>3, <3>4, <3>5, <4>1, <5>1, SalesAssumption DEF Amount
        <5>2. CASE k = l2
          BY <3>3, <3>4, <3>5, <4>1, <5>2, SalesAssumption DEF Amount
        <5> QED
          BY <3>7, <5>1, <5>2
      <4> HIDE DEF l1, l2
      <4>3. CASE ~disabled
        <5>1. atp[s] >= want[w][k] /\ atp'[s] = atp[s]
          BY <2>0, <3>1, <4>1, <4>3 DEF GetATP
        <5> QED
          BY <3>6, <4>2, <5>1, PromiseMade
      <4>4. CASE disabled
        <5>1. want[w][k] = 0
          BY <3>1, <4>2, <4>4 DEF GetATP
        <5>2. Amount(w, s)' = Amount(w, s)
          BY <3>4, <3>5, <5>1 DEF Amount
        <5>3. \A v \in Workers : Amount(v, s)' = Amount(v, s) /\ Amount(v, s) \in Nat
          BY <3>6, <5>2, AmountType
        <5>4. \A v \in Workers : Amount(v, s)' <= Amount(v, s)
          BY <5>3
        <5>5. atp'[s] >= atp[s]
          BY <1>0, <2>0
        <5> QED
          BY <1>0, <5>4, <5>5, PromisesShrink
      <4> QED
        BY <4>3, <4>4
    <3>8. CASE k # l1 /\ k # l2
      <4>1. \A v \in Workers : Amount(v, s)' = Amount(v, s) /\ Amount(v, s) \in Nat
        BY <3>4, <3>6, <3>8, AmountType DEF Amount
      <4>2. \A v \in Workers : Amount(v, s)' <= Amount(v, s)
        BY <4>1
      <4>3. atp'[s] >= atp[s]
        BY <1>0, <2>0
      <4> QED
        BY <1>0, <4>2, <4>3, PromisesShrink
    <3> QED
      BY <3>7, <3>8
  <2> QED
    BY <2>1, <2>2
<1>11. ASSUME NEW w \in Workers, ExecReserve(w) \/ ExecAnswerLost(w)
       PROVE  Promised(s)' <= atp'[s] + Slack
  <2>0. w \in Procs /\ pc[w] = "exec"
    BY <1>0, <1>11 DEF ExecReserve, ExecAnswerLost
  <2>1. Others(w) /\ pc'[w] \notin {"exec", "recheck"}
    BY <1>2, <1>3, <1>11, <2>0 DEF ExecReserve, ExecAnswerLost, locals
  <2>2. atp'[s] = atp[s] - Units(want[w], s)
    BY <1>11 DEF ExecReserve, ExecAnswerLost, ReserveStock
  <2>3. \A v \in Workers \ {w} : Amount(v, s)' = Amount(v, s)
    BY <2>1, OthersStand
  <2> QED
    BY <1>0, <2>0, <2>1, <2>2, <2>3, PromiseKept
<1>12. ASSUME NEW w \in Workers, ReleaseExec(w) PROVE Promised(s)' <= atp'[s] + Slack
  <2>0. w \in Procs
    BY <1>0
  <2>1. Others(w) /\ pc'[w] \in {"idle", "undo_row"}
    BY <1>2, <1>3, <1>12, <2>0 DEF ReleaseExec, locals
  <2>2. atp'[s] = atp[s] + Units(want[w], s) /\ Units(want[w], s) \in Nat
    BY <1>12, AmountType DEF ReleaseExec, RestoreStock
  <2>3. atp'[s] >= atp[s]
    BY <1>0, <2>2
  <2>4. Amount(w, s)' = 0
    BY <2>1 DEF Amount, Share, Passed
  <2> QED
    BY <1>0, <2>0, <2>1, <2>3, <2>4, NothingPromised
<1>13. ASSUME NEW c \in Clerks, CreateOrder(c) \/ PatchRead(c) \/ CancelRead(c) \/ UpdateClient(c) \/ Edit(c)
       PROVE  Promised(s)' <= atp'[s] + Slack
  <2>0. c \in Procs /\ c \notin Workers
    BY SalesAssumption DEF Procs
  <2>1. UNCHANGED atp
    BY <1>13
       DEF CreateOrder, PatchRead, CancelRead, UpdateClient, Edit, CreateOrderItem, EnqueueNew,

       ReplaceOrderItems, WriteRow, ClearStaleQueue, valkey
  <2>2. Others(c)
    <3>1. CASE CreateOrder(c) \/ PatchRead(c) \/ CancelRead(c) \/ UpdateClient(c)
      BY <1>0, <2>0, <3>1
         DEF CreateOrder, PatchRead, CancelRead, UpdateClient, Goto, Others, locals
    <3>2. CASE Edit(c)
      BY <1>0, <2>0, <3>2 DEF Edit, CreateOrderItem, EnqueueNew, ReplaceOrderItems, WriteRow,
         ClearStaleQueue, Visit, Goto, Return, Others, locals
    <3> QED
      BY <1>13, <3>1, <3>2
  <2>3. atp'[s] >= atp[s]
    BY <1>0, <2>1
  <2> QED
    BY <1>0, <2>0, <2>2, <2>3, NothingPromised
<1>14. CASE Crash
  <2>1. \A w \in Workers : Amount(w, s)' = 0 /\ Amount(w, s) \in Nat
    BY <1>0, <1>14, AmountType DEF Crash, Amount, Share, Passed
  <2>2. \A w \in Workers : Amount(w, s)' <= Amount(w, s)
    BY <2>1
  <2>3. atp'[s] >= atp[s]
    BY <1>0, <1>14 DEF Crash, valkey
  <2> QED
    BY <1>0, <2>2, <2>3, PromisesShrink
<1>15. CASE ProbeFails \/ UNCHANGED vars
  BY <1>5, <1>15 DEF ProbeFails, vars, valkey, locals
<1> QED
  BY <1>6, <1>7, <1>8, <1>9, <1>10, <1>11, <1>12, <1>13, <1>14, <1>15
  DEF Next, Arrive, WorkerStep, ClerkStep, Fail, Allocate, Procs

LEMMA NothingPromisedAtFirst == Init => PromisesCovered
<1> SUFFICES ASSUME Init, NEW s \in SKUs PROVE Promised(s) <= atp[s] + Slack
  BY DEF PromisesCovered
<1>1. PICK f : f = [w \in Workers |-> Amount(w, s)]
  OBVIOUS
<1>2. \A w \in Workers : f[w] = 0
  BY <1>1 DEF Init, Amount, Share, Passed, Procs
<1>3. SumFunctionOnSet(f, Workers) = 0
  BY <1>2, SlackType, SumZero
<1>4. Promised(s) = 0
  BY <1>1, <1>3 DEF Promised
<1>5. atp[s] \in Nat
  BY SalesAssumption DEF Init
<1> QED
  BY <1>4, <1>5, SlackType

LEMMA PromisesBound == TypeOK /\ PromisesCovered => OverdraftBounded
<1> SUFFICES ASSUME TypeOK, PromisesCovered, NEW s \in SKUs
             PROVE  atp[s] >= -(2 * Cardinality(Workers) - 1) * MaxQty
  BY DEF OverdraftBounded
<1>1. Promised(s) \in Nat /\ Promised(s) <= atp[s] + Slack /\ atp[s] \in Int /\ Slack \in Nat
  BY PromisedType, SlackType DEF PromisesCovered, TypeOK, StoreOK
<1>2. atp[s] >= -Slack
  BY <1>1
<1>3. \A n \in Nat, m \in Nat : -(2 * n - 1) * m = -((2 * n - 1) * m)
  OBVIOUS
<1>4. -(2 * Cardinality(Workers) - 1) * MaxQty = -Slack
  BY <1>3, SlackType, SalesAssumption DEF Slack
<1> QED
  BY <1>2, <1>4

(* The counters of available stock fall below zero by no more than the     *)
(* lines which the requests that run ProcessQueue have in hand, less one,  *)
(* for any number of requests, orders, edits and failures: every line was  *)
(* read in the counter by valkey.ReserveInventory before it is taken.      *)
THEOREM Overdrafts == Spec => []OverdraftBounded
<1>1. TypeOK /\ TypeOK' /\ PromisesCovered /\ [Next]_vars => PromisesCovered'
  BY PromisesStep
<1> QED
  BY <1>1, NothingPromisedAtFirst, PromisesBound, TypeCorrect, PTL DEF Spec

-----------------------------------------------------------------------------
(***************************************************************************)
(* The orders.  A step is one of Sales, or ends a handler where Sales has  *)
(* it go on: the client of an order is gone, or a statement about it fails.*)
(***************************************************************************)
Ends(p) == Return(p) /\ UNCHANGED <<db, valkey, disabled, manifest, bounds>>

LEMMA OrdersMove ==
  ASSUME ClientsNext
  PROVE  [Next]_vars \/ \E p \in Procs : Ends(p)
<1> USE DEF Procs, Next, Arrive, WorkerStep, ClerkStep, Edit, Rebuild
<1>1. ASSUME NEW p \in Procs, RebuildWithClients(p)
      PROVE  \/ UNCHANGED vars \/ Rebuild(p) \/ Ends(p)
  BY <1>1 DEF RebuildWithClients, ListPendingWithClients, ReadPendingClient, Ends
<1>2. ASSUME NEW p \in Procs, OrderRequest(p) PROVE Next
  BY <1>2 DEF OrderRequest
<1>3. ASSUME NEW w \in Workers, ServeWorker(w) PROVE [Next]_vars \/ Ends(w)
  <2>1. CASE RebuildWithClients(w)
    BY <1>1, <2>1
  <2>2. CASE Dequeue(w) \/ AllocateForClient(w)
    BY <2>2 DEF AllocateForClient, Ends
  <2> QED
    BY <1>3, <2>1, <2>2 DEF ServeWorker
<1>4. ASSUME NEW c \in Clerks, ServeClerk(c) PROVE [Next]_vars \/ Ends(c)
  <2>1. CASE RebuildWithClients(c)
    BY <1>1, <2>1
  <2>2. CASE OrderStep(c)
    BY <2>2 DEF OrderStep
  <2>3. CASE CreateOrderOfClient(c) \/ EnqueueCounted(c) \/ ClearAfterPatch(c)
    BY <2>3 DEF CreateOrderOfClient, EnqueueCounted, ClearAfterPatch
  <2>4. CASE CountOrder(c)
    BY <2>4 DEF CountOrder, Ends
  <2>5. CASE \/ GetCachedClientByID(c) \/ ExistsClientByName(c) \/ GetClientByName(c)
             \/ FetchClient(c) \/ InsertClient(c) \/ SaveClient(c) \/ RemoveClient(c)
             \/ ForgetOldName(c) \/ CacheClient(c) \/ DropClient(c)
    BY <2>5
       DEF GetCachedClientByID, ExistsClientByName, GetClientByName, FetchClient, InsertClient,

       SaveClient, RemoveClient, ForgetOldName, CacheClient, DropClient
  <2> QED
    BY <1>4, <2>1, <2>2, <2>3, <2>4, <2>5 DEF ServeClerk, ClientStep
<1>5. ASSUME NEW c \in Clerks, ClientRequest(c) \/ StatementFails(c) \/ CacheCommandLost(c)
      PROVE  UNCHANGED vars \/ Ends(c)
  BY <1>5 DEF ClientRequest, ResolveOrCreateClient, VerifyClientAPIKey, GetClient, DeleteClient,
     PatchClient, CreateClient, StatementFails, CacheCommandLost, Ends
<1>6. CASE Expire
  BY <1>6 DEF Expire
<1> QED
  BY <1>2, <1>3, <1>4, <1>5, <1>6 DEF ClientsNext

LEMMA EndsKeepsTypes ==
  ASSUME TypeOK, NEW p \in Procs, Ends(p)
  PROVE  TypeOK'
<1>1. LocalsOK'
  BY ReturnKeepsLocals DEF TypeOK, Ends
<1> QED
  BY <1>1 DEF Ends, TypeOK, StoreOK, db, valkey, bounds

LEMMA EndsKeepsOwnership ==
  ASSUME TypeOK, OwnershipInv, NEW p \in Procs, Ends(p)
  PROVE  OwnershipInv'
<1>1. pc \in [Procs -> Labels] /\ cur \in [Procs -> Orders \cup {None}]
      /\ row \in [Procs -> Row] /\ want \in [Procs -> Items]
      /\ Workers \subseteq Procs /\ Clerks \subseteq Procs
  BY DEF TypeOK, LocalsOK, Procs
<1>2. \A q \in Procs \ {p} : pc'[q] = pc[q] /\ cur'[q] = cur[q] /\ row'[q] = row[q] /\ want'[q] = want[q]
  BY <1>1 DEF Ends, Return
<1>3. pc'[p] = "idle" /\ UNCHANGED <<order, resv, manifest>>
  BY <1>1 DEF Ends, Return, db
<1> QED
  BY <1>1, <1>2, <1>3 DEF OwnershipInv, OwnersHold, OneOwner, WantIsReserved, NotYetProcessing,
     EditsArePending, ProcessingIsReserved, ManifestBacked, Owns, Undoing

LEMMA EndsKeepsPromises ==
  ASSUME TypeOK, TypeOK', PromisesCovered, NEW p \in Procs, Ends(p)
  PROVE  PromisesCovered'
<1> SUFFICES ASSUME NEW s \in SKUs PROVE Promised(s)' <= atp'[s] + Slack
  BY DEF PromisesCovered
<1>1. pc \in [Procs -> Labels] /\ left \in [Procs -> SUBSET Line] /\ want \in [Procs -> Items]
      /\ Workers \subseteq Procs /\ atp[s] \in Int
  BY DEF TypeOK, StoreOK, LocalsOK, Procs
<1>2. Others(p) /\ pc'[p] = "idle"
  BY <1>1 DEF Ends, Return, Others
<1>3. atp'[s] >= atp[s]
  BY <1>1 DEF Ends, valkey
<1>4. Promised(s) <= atp[s] + Slack
  BY DEF PromisesCovered
<1>5. Amount(p, s)' = 0
  BY <1>2 DEF Amount, Share, Passed
<1> QED
  BY <1>2, <1>3, <1>4, <1>5, NothingPromised

LEMMA OrdersStep ==
  TypeOK /\ OwnershipInv /\ PromisesCovered /\ [ClientsNext]_allVars =>
    TypeOK' /\ OwnershipInv' /\ PromisesCovered'
<1> SUFFICES ASSUME TypeOK, OwnershipInv, PromisesCovered, [ClientsNext]_allVars
             PROVE  TypeOK' /\ OwnershipInv' /\ PromisesCovered'
  OBVIOUS
<1>1. CASE [Next]_vars
  <2>1. TypeOK'
    BY <1>1, TypesStep
  <2>2. OwnershipInv'
    BY <1>1, OwnershipStep
  <2>3. PromisesCovered'
    BY <1>1, <2>1, PromisesStep
  <2> QED
    BY <2>1, <2>2, <2>3
<1>2. ASSUME NEW p \in Procs, Ends(p) PROVE TypeOK' /\ OwnershipInv' /\ PromisesCovered'
  <2>1. TypeOK'
    BY <1>2, EndsKeepsTypes
  <2>2. OwnershipInv'
    BY <1>2, EndsKeepsOwnership
  <2>3. PromisesCovered'
    BY <1>2, <2>1, EndsKeepsPromises
  <2> QED
    BY <2>1, <2>2, <2>3
<1>3. CASE ClientsNext
  BY <1>1, <1>2, <1>3, OrdersMove
<1>4. CASE UNCHANGED allVars
  BY <1>1, <1>4 DEF allVars
<1> QED
  BY <1>3, <1>4

(* The client of an order may be gone when its fulfilment reads it, and a   *)
(* statement about the client may fail: a handler that ends there leaves   *)
(* every promise of Sales intact.  An order that is PROCESSING has its     *)
(* reservation, a manifest is what is reserved, and the counters are       *)
(* overdrawn by no more than a line of each other worker.                  *)
THEOREM OrdersOfClients ==
  ClientsSpec => [](TypeOK /\ ProcessingIsReserved /\ ManifestBacked /\ OverdraftBounded)
<1>1. Init => TypeOK /\ OwnershipInv /\ PromisesCovered
  BY TypesAtFirst, OwnershipInit, NothingPromisedAtFirst
<1>2. OwnershipInv => ProcessingIsReserved /\ ManifestBacked
  BY DEF OwnershipInv
<1> QED
  BY <1>1, <1>2, OrdersStep, PromisesBound, PTL DEF ClientsSpec

-----------------------------------------------------------------------------
(***************************************************************************)
(* The requests of the clerks: what each holds where it stands.            *)
(***************************************************************************)
Copy == [id : Clients, name : Names]
CallSteps == Steps \cup {None}
Call == [for : {None, "order", "show", "create", "patch", "delete"}, at : CallSteps,
         id : Clients \cup {None}, name : Names \cup {None}, old : Names \cup {None}]

NeedsId == {"known", "fetch", "save", "forget", "cache", "clear", "remove", "drop",
            "order", "counted"}
NeedsName == {"exists", "get", "insert", "save", "forget", "cache", "remove", "drop",
              "order", "counted"}
NeedsOld == {"save", "forget"}

CallOK(x) ==
    /\ x \in Call
    /\ x.at \in NeedsId => x.id \in Clients
    /\ x.at \in NeedsName => x.name \in Names
    /\ x.at \in NeedsOld => x.old \in Names

CallsOK == call \in [Clerks -> Call] /\ \A c \in Clerks : CallOK(call[c])

ClientTypes ==
    /\ client \in [Clients -> Names \cup {None}]
    /\ meant \in [Clients -> Names \cup {None}]
    /\ byId \in [Clients -> Copy \cup {None}]
    /\ byName \in Copy \cup {None}
    /\ byName # None => byName.name = DefaultName
    /\ CallsOK
    /\ lost \in Nat

(* While no cache command was lost: what c holds is what the row says, and *)
(* so is every copy, but for the ones that c is about to delete.           *)
HoldsTheRow(c) ==
    /\ At(c, "save") => client[call[c].id] = call[c].old
    /\ call[c].at \in {"remove", "forget", "cache", "order", "counted"} =>
            client[call[c].id] = call[c].name

CopiesByIdCurrent(c) ==
    \A i \in Clients :
        \/ byId[i] = None
        \/ byId[i].name = client[i]
        \/ call[c].id = i /\ call[c].at \in {"forget", "drop"}

CopyByNameCurrent(c) ==
    \/ byName = None
    \/ client[byName.id] = DefaultName
    \/ /\ call[c].id = byName.id
       /\ \/ At(c, "forget") /\ call[c].old = DefaultName
          \/ At(c, "drop") /\ call[c].name = DefaultName

NamesAsMeant == \A i \in Clients : Present(i) => client[i] = meant[i]

Current(c) ==
    lost = 0 => NamesAsMeant /\ HoldsTheRow(c) /\ CopiesByIdCurrent(c) /\ CopyByNameCurrent(c)

-----------------------------------------------------------------------------
(***************************************************************************)
(* A step of the composition is one about clients or leaves them alone.    *)
(***************************************************************************)
AboutClients(c) ==
    \/ ClientRequest(c)
    \/ GetCachedClientByID(c) \/ ExistsClientByName(c) \/ GetClientByName(c) \/ FetchClient(c)
    \/ InsertClient(c) \/ SaveClient(c) \/ RemoveClient(c) \/ ForgetOldName(c) \/ CacheClient(c)
    \/ DropClient(c) \/ ClearAfterPatch(c) \/ CountOrder(c) \/ EnqueueCounted(c)
    \/ StatementFails(c) \/ CacheCommandLost(c)

books == <<client, byId, byName, call, meant, lost>>

LEMMA ClientsMove ==
  ASSUME ClientsNext
  PROVE  UNCHANGED books \/ Expire \/ \E c \in Clerks : AboutClients(c)
<1> USE DEF books, clientVars
<1>1. ASSUME NEW p, RebuildWithClients(p) PROVE UNCHANGED books
  BY <1>1 DEF RebuildWithClients, ListPendingWithClients, ReadPendingClient
<1>2. ASSUME NEW p, OrderRequest(p) PROVE UNCHANGED books
  BY <1>2 DEF OrderRequest
<1>3. ASSUME NEW w, ServeWorker(w) PROVE UNCHANGED books
  BY <1>1, <1>3 DEF ServeWorker, AllocateForClient
<1>4. ASSUME NEW c \in Clerks, ServeClerk(c) PROVE UNCHANGED books \/ AboutClients(c)
  <2>1. CASE OrderStep(c) \/ CreateOrderOfClient(c)
    BY <2>1 DEF OrderStep, CreateOrderOfClient
  <2> QED
    BY <1>1, <1>4, <2>1 DEF ServeClerk, ClientStep, AboutClients
<1> QED
  BY <1>2, <1>3, <1>4 DEF ClientsNext, AboutClients

LEMMA ClientTypesAtFirst == ClientsInit => ClientTypes
  BY ClientsAssumption
     DEF ClientsInit, ClientTypes, NoCall, Call, CallsOK, CallOK, CallSteps, Steps,
     NeedsId, NeedsName, NeedsOld

LEMMA OneCall ==
  ASSUME CallsOK, NEW c \in Clerks, NEW x, CallOK(x), call' = [call EXCEPT ![c] = x]
  PROVE  CallsOK'
<1>1. x \in Call
  BY DEF CallOK
<1> QED
  BY <1>1 DEF CallsOK

LEMMA Proceeds ==
  ASSUME CallsOK, NEW c \in Clerks, NEW s \in Steps, Proceed(c, s),
         s \in NeedsId => call[c].id \in Clients,
         s \in NeedsName => call[c].name \in Names,
         s \in NeedsOld => call[c].old \in Names
  PROVE  CallsOK'
<1>1. call[c] \in Call
  BY DEF CallsOK
<1>2. PICK x : x = [call[c] EXCEPT !.at = s]
  OBVIOUS
<1>3. x \in Call /\ x.at = s /\ x.id = call[c].id /\ x.name = call[c].name /\ x.old = call[c].old
  BY <1>1, <1>2 DEF Call, CallSteps
<1>4. CallOK(x)
  BY <1>3 DEF CallOK
<1>5. call' = [call EXCEPT ![c] = x]
  BY <1>2 DEF Proceed, CallsOK
<1> QED
  BY <1>4, <1>5, OneCall

LEMMA Holds ==
  ASSUME CallsOK, NEW c \in Clerks, NEW s \in Steps \ NeedsOld, NEW i \in Clients, NEW n \in Names,
         Hold(c, i, n, s)
  PROVE  CallsOK'
<1>1. call[c] \in Call
  BY DEF CallsOK
<1>2. PICK x : x = [call[c] EXCEPT !.id = i, !.name = n, !.at = s]
  OBVIOUS
<1>3. x \in Call /\ x.at = s /\ x.id = i /\ x.name = n
  BY <1>1, <1>2 DEF Call, CallSteps
<1>4. CallOK(x)
  BY <1>3 DEF CallOK
<1>5. call' = [call EXCEPT ![c] = x]
  BY <1>2 DEF Hold, CallsOK
<1> QED
  BY <1>4, <1>5, OneCall

LEMMA Finishes ==
  ASSUME CallsOK, NEW c \in Clerks, Finish(c)
  PROVE  CallsOK'
<1>1. CallOK(NoCall)
  BY ClientsAssumption DEF CallOK, NoCall, Call, CallSteps, Steps, NeedsId, NeedsName, NeedsOld
<1> QED
  BY <1>1, OneCall DEF Finish

LEMMA GoesOn ==
  ASSUME CallsOK, NEW c \in Clerks, NEW s \in CallSteps \ NeedsOld, GoOn(c, s),
         call[c].id \in Clients \/ s \notin NeedsId,
         call[c].name \in Names
  PROVE  CallsOK'
  BY Proceeds, Finishes DEF GoOn, CallSteps

LEMMA CallKept ==
  ASSUME ClientTypes, CallsOK', UNCHANGED <<client, byId, byName, meant>>, lost' \in Nat
  PROVE  ClientTypes'
  BY DEF ClientTypes

LEMMA ClientTypesStep ==
  ASSUME ClientTypes, ClientsNext
  PROVE  ClientTypes'
<1> USE ClientsAssumption
<1>0. CallsOK /\ lost \in Nat /\ \A c \in Clerks : call[c] \in Call /\ CallOK(call[c])
  BY DEF ClientTypes, CallsOK
<1> DEFINE Asks == {"order", "show", "create", "patch", "delete"}
<1>1. ASSUME NEW c \in Clerks, ClientRequest(c) PROVE ClientTypes'
  <2>1. \A f \in Asks, s \in Steps, i \in Clients \cup {None}, n \in Names \cup {None},
           o \in Names \cup {None} :
          [for |-> f, at |-> s, id |-> i, name |-> n, old |-> o] \in Call
    BY DEF Call, CallSteps
  <2>0. NoCall \in Call
    BY DEF NoCall, Call, CallSteps
  <2>2. CASE ResolveOrCreateClient(c)
    <3>1. CASE CachedByName = None
      <4>1. PICK x : x = [NoCall EXCEPT !.for = "order", !.at = "exists", !.name = DefaultName]
        OBVIOUS
      <4>2. x \in Call /\ x.at = "exists" /\ x.name = DefaultName
        BY <2>0, <4>1 DEF Call, CallSteps, Steps
      <4>3. CallOK(x)
        BY <4>2 DEF CallOK, NeedsId, NeedsName, NeedsOld
      <4>4. call' = [call EXCEPT ![c] = x]
        BY <2>2, <3>1, <4>1 DEF ResolveOrCreateClient
      <4>5. CallsOK'
        BY <1>0, <4>3, <4>4, OneCall
      <4> QED
        BY <2>2, <4>5, <1>0, CallKept DEF ResolveOrCreateClient
    <3>2. CASE CachedByName # None
      <4>0. byName.id \in Clients /\ byName.name \in Names
        BY <3>2 DEF ClientTypes, CachedByName, Copy
      <4>1. PICK x : x = [NoCall EXCEPT !.for = "order", !.at = "order",
                            !.id = byName.id, !.name = byName.name]
        OBVIOUS
      <4>2. x \in Call /\ x.at = "order" /\ x.id = byName.id /\ x.name = byName.name
        BY <2>0, <4>0, <4>1 DEF Call, CallSteps, Steps
      <4>3. CallOK(x)
        BY <4>0, <4>2 DEF CallOK, NeedsId, NeedsName, NeedsOld
      <4>4. call' = [call EXCEPT ![c] = x]
        BY <2>2, <3>2, <4>1 DEF ResolveOrCreateClient, CachedByName
      <4>5. CallsOK'
        BY <1>0, <4>3, <4>4, OneCall
      <4> QED
        BY <2>2, <4>5, <1>0, CallKept DEF ResolveOrCreateClient
    <3> QED
      BY <3>1, <3>2
  <2>3. ASSUME NEW i \in Clients, VerifyClientAPIKey(c, i) PROVE ClientTypes'
    <3>1. PICK x : x = [NoCall EXCEPT !.for = "order", !.at = "known", !.id = i]
      OBVIOUS
    <3>2. x \in Call /\ x.at = "known" /\ x.id = i
      BY <2>0, <3>1 DEF Call, CallSteps, Steps
    <3>3. CallOK(x)
      BY <3>2 DEF CallOK, NeedsId, NeedsName, NeedsOld
    <3>4. CallsOK'
      BY <1>0, <2>3, <3>1, <3>3, OneCall DEF VerifyClientAPIKey
    <3> QED
      BY <2>3, <3>4, <1>0, CallKept DEF VerifyClientAPIKey
  <2>4. ASSUME NEW i \in Clients, GetClient(c, i) PROVE ClientTypes'
    <3>1. PICK x : x = [NoCall EXCEPT !.for = "show", !.at = "fetch", !.id = i]
      OBVIOUS
    <3>2. x \in Call /\ x.at = "fetch" /\ x.id = i
      BY <2>0, <3>1 DEF Call, CallSteps, Steps
    <3>3. CallOK(x)
      BY <3>2 DEF CallOK, NeedsId, NeedsName, NeedsOld
    <3>4. CallsOK'
      BY <1>0, <2>4, <3>1, <3>3, OneCall DEF GetClient
    <3> QED
      BY <2>4, <3>4, <1>0, CallKept DEF GetClient
  <2>5. ASSUME NEW i \in Clients, DeleteClient(c, i) PROVE ClientTypes'
    <3>0. client[i] \in Names
      BY <2>5 DEF DeleteClient, Present, ClientTypes
    <3>1. CallOK([for |-> "delete", at |-> "remove", id |-> i, name |-> client[i], old |-> None])
      BY <2>1, <3>0 DEF CallOK, Steps, NeedsId, NeedsName, NeedsOld
    <3>2. CallsOK'
      BY <1>0, <2>5, <3>1, OneCall DEF DeleteClient
    <3> QED
      BY <2>5, <3>2, <1>0, CallKept DEF DeleteClient
  <2>6. ASSUME NEW i \in Clients, NEW n \in Names, PatchClient(c, i, n) PROVE ClientTypes'
    <3>0. client[i] \in Names
      BY <2>6 DEF PatchClient, Present, ClientTypes
    <3>1. CallOK([for |-> "patch", at |-> "save", id |-> i, name |-> n, old |-> client[i]])
      BY <2>1, <3>0 DEF CallOK, Steps, NeedsId, NeedsName, NeedsOld
    <3>2. CallsOK'
      BY <1>0, <2>6, <3>1, OneCall DEF PatchClient
    <3> QED
      BY <2>6, <3>2, <1>0, CallKept DEF PatchClient
  <2>7. ASSUME NEW n \in Names, CreateClient(c, n) PROVE ClientTypes'
    <3>1. PICK x : x = [NoCall EXCEPT !.for = "create", !.at = "exists", !.name = n]
      OBVIOUS
    <3>2. x \in Call /\ x.at = "exists" /\ x.name = n
      BY <2>0, <3>1 DEF Call, CallSteps, Steps
    <3>3. CallOK(x)
      BY <3>2 DEF CallOK, NeedsId, NeedsName, NeedsOld
    <3>4. CallsOK'
      BY <1>0, <2>7, <3>1, <3>3, OneCall DEF CreateClient
    <3> QED
      BY <2>7, <3>4, <1>0, CallKept DEF CreateClient
  <2> QED
    BY <1>1, <2>2, <2>3, <2>4, <2>5, <2>6, <2>7 DEF ClientRequest
<1> USE DEF At, Steps, CallSteps, NeedsId, NeedsName, NeedsOld
<1>2. ASSUME NEW c \in Clerks, GetCachedClientByID(c) PROVE ClientTypes'
  <2>1. CASE byId[call[c].id] = None
    BY <1>0, <1>2, <2>1, Proceeds, CallKept DEF GetCachedClientByID, CallOK
  <2>2. CASE byId[call[c].id] # None
    <3>1. call[c].id \in Clients /\ byId[call[c].id].name \in Names
      BY <1>0, <1>2, <2>2 DEF GetCachedClientByID, CallOK, ClientTypes, Copy
    <3>2. CallsOK'
      BY <1>0, <1>2, <2>2, <3>1, Holds DEF GetCachedClientByID
    <3> QED
      BY <1>0, <1>2, <3>2, CallKept DEF GetCachedClientByID
  <2> QED
    BY <2>1, <2>2
<1>3. ASSUME NEW c \in Clerks, ExistsClientByName(c) PROVE ClientTypes'
  <2>1. call[c].name \in Names
    BY <1>0, <1>3 DEF ExistsClientByName, CallOK
  <2>2. CASE ~Taken(call[c].name)
    BY <1>0, <1>3, <2>1, <2>2, Proceeds, CallKept DEF ExistsClientByName
  <2>3. CASE Taken(call[c].name)
    <3>1. GoOn(c, "get") \/ GoOn(c, None)
      BY <1>3, <2>3 DEF ExistsClientByName
    <3>2. CallsOK'
      BY <1>0, <2>1, <3>1, GoesOn
    <3> QED
      BY <1>0, <1>3, <3>2, CallKept DEF ExistsClientByName
  <2> QED
    BY <2>2, <2>3
<1>4. ASSUME NEW c \in Clerks, GetClientByName(c) PROVE ClientTypes'
  <2>1. ASSUME NEW i \in Clients, Present(i), Hold(c, i, client[i], "cache") PROVE CallsOK'
    <3>1. client[i] \in Names
      BY <2>1 DEF Present, ClientTypes
    <3> QED
      BY <1>0, <2>1, <3>1, Holds
  <2>2. CallsOK'
    BY <1>0, <1>4, <2>1, Finishes DEF GetClientByName
  <2> QED
    BY <1>0, <1>4, <2>2, CallKept DEF GetClientByName
<1>5. ASSUME NEW c \in Clerks, FetchClient(c) PROVE ClientTypes'
  <2>1. CASE Present(call[c].id)
    <3>1. call[c].id \in Clients /\ client[call[c].id] \in Names
      BY <2>1 DEF Present, ClientTypes
    <3>2. CallsOK'
      BY <1>0, <1>5, <2>1, <3>1, Holds DEF FetchClient
    <3> QED
      BY <1>0, <1>5, <3>2, CallKept DEF FetchClient
  <2>2. CASE ~Present(call[c].id)
    BY <1>0, <1>5, <2>2, Finishes, CallKept DEF FetchClient
  <2> QED
    BY <2>1, <2>2
<1>6. ASSUME NEW c \in Clerks, InsertClient(c) PROVE ClientTypes'
  <2>1. call[c].name \in Names
    BY <1>0, <1>6 DEF InsertClient, CallOK
  <2>2. CallsOK'
    BY <1>0, <1>6, <2>1, Holds, Finishes DEF InsertClient, Unused
  <2>3. client' \in [Clients -> Names \cup {None}] /\ meant' \in [Clients -> Names \cup {None}]
    BY <1>6, <2>1 DEF InsertClient, Unused, ClientTypes
  <2> QED
    BY <1>0, <1>6, <2>2, <2>3 DEF InsertClient, ClientTypes
<1>7. ASSUME NEW c \in Clerks, SaveClient(c) PROVE ClientTypes'
  <2>1. call[c].id \in Clients /\ call[c].name \in Names /\ call[c].old \in Names
    BY <1>0, <1>7 DEF SaveClient, CallOK
  <2>2. Proceed(c, "cache") \/ Proceed(c, "forget") \/ Finish(c)
    BY <1>7 DEF SaveClient
  <2>3. CallsOK'
    BY <1>0, <2>1, <2>2, Proceeds, Finishes
  <2>4. client' \in [Clients -> Names \cup {None}] /\ meant' \in [Clients -> Names \cup {None}]
    BY <1>7, <2>1 DEF SaveClient, ClientTypes
  <2> QED
    BY <1>0, <1>7, <2>3, <2>4 DEF SaveClient, ClientTypes
<1>8. ASSUME NEW c \in Clerks, RemoveClient(c) PROVE ClientTypes'
  <2>1. call[c].id \in Clients /\ call[c].name \in Names
    BY <1>0, <1>8 DEF RemoveClient, CallOK
  <2>2. CallsOK'
    BY <1>0, <1>8, <2>1, Proceeds, Finishes DEF RemoveClient
  <2>3. client' \in [Clients -> Names \cup {None}]
    BY <1>8 DEF RemoveClient, ClientTypes
  <2> QED
    BY <1>0, <1>8, <2>2, <2>3 DEF RemoveClient, ClientTypes
<1>9. ASSUME NEW c \in Clerks, ForgetOldName(c) PROVE ClientTypes'
  <2>1. call[c].id \in Clients /\ call[c].name \in Names
    BY <1>0, <1>9 DEF ForgetOldName, CallOK
  <2>2. CallsOK'
    BY <1>0, <1>9, <2>1, Proceeds DEF ForgetOldName
  <2> QED
    BY <1>0, <1>9, <2>2 DEF ForgetOldName, ForgetClient, ClientTypes
<1>10. ASSUME NEW c \in Clerks, CacheClient(c) PROVE ClientTypes'
  <2>1. call[c].id \in Clients /\ call[c].name \in Names
    BY <1>0, <1>10 DEF CacheClient, CallOK
  <2>2. AfterCache(c) \in {"clear", "order", None}
    BY DEF AfterCache, Found
  <2>3. CallsOK'
    BY <1>0, <1>10, <2>1, <2>2, GoesOn DEF CacheClient
  <2>4. Called(c) \in Copy /\ Called(c).name = call[c].name
    BY <2>1 DEF Called, Copy
  <2> QED
    BY <1>0, <1>10, <2>3, <2>4 DEF CacheClient, SetClient, ClientTypes
<1>11. ASSUME NEW c \in Clerks, DropClient(c) PROVE ClientTypes'
  <2>1. CallsOK'
    BY <1>0, <1>11, Finishes DEF DropClient
  <2> QED
    BY <1>0, <1>11, <2>1 DEF DropClient, ForgetClient, ClientTypes
<1>12. ASSUME NEW c \in Clerks, ClearAfterPatch(c) \/ EnqueueCounted(c) \/ StatementFails(c)
       PROVE  ClientTypes'
  BY <1>0, <1>12, Finishes, CallKept DEF ClearAfterPatch, EnqueueCounted, StatementFails
<1>13. ASSUME NEW c \in Clerks, CountOrder(c) PROVE ClientTypes'
  <2>1. call[c].id \in Clients /\ call[c].name \in Names
    BY <1>0, <1>13 DEF CountOrder, CallOK
  <2>2. CallsOK'
    BY <1>0, <1>13, <2>1, Proceeds, Finishes DEF CountOrder
  <2>3. client' \in [Clients -> Names \cup {None}]
    BY <1>13, <2>1 DEF CountOrder, ClientTypes
  <2> QED
    BY <1>0, <1>13, <2>2, <2>3 DEF CountOrder, ClientTypes
<1>14. ASSUME NEW c \in Clerks, CacheCommandLost(c) PROVE ClientTypes'
  <2>1. call[c].id \in Clients /\ call[c].name \in Names
    BY <1>0, <1>14 DEF CacheCommandLost, CallOK
  <2>2. AfterCache(c) \in {"clear", "order", None}
    BY DEF AfterCache, Found
  <2>3. CallsOK'
    BY <1>0, <1>14, <2>1, <2>2, GoesOn, Proceeds, Finishes DEF CacheCommandLost
  <2> QED
    BY <1>0, <1>14, <2>3, CallKept DEF CacheCommandLost
<1>15. CASE Expire
  BY <1>15 DEF Expire, ClientTypes, CallsOK
<1>16. CASE UNCHANGED books
  BY <1>16 DEF books, ClientTypes, CallsOK
<1>17. ASSUME NEW c \in Clerks, AboutClients(c) PROVE ClientTypes'
  BY <1>1, <1>2, <1>3, <1>4, <1>5, <1>6, <1>7, <1>8, <1>9, <1>10, <1>11, <1>12, <1>13, <1>14,
     <1>17
  DEF AboutClients
<1> QED
  BY <1>15, <1>16, <1>17, ClientsMove

-----------------------------------------------------------------------------
(***************************************************************************)
(* Edits.  One clerk: its request deletes a copy of an older name before   *)
(* another request can use it.                                             *)
(***************************************************************************)
LEMMA Fields ==
  ASSUME CallsOK, NEW c \in Clerks
  PROVE  /\ \A s : Proceed(c, s) => /\ call'[c].at = s
                                    /\ call'[c].id = call[c].id
                                    /\ call'[c].name = call[c].name
                                    /\ call'[c].old = call[c].old
         /\ \A i, n, s : Hold(c, i, n, s) => /\ call'[c].at = s
                                             /\ call'[c].id = i
                                             /\ call'[c].name = n
         /\ Finish(c) => call'[c].at = None
<1>1. call[c] \in Call /\ call \in [Clerks -> Call]
  BY DEF CallsOK
<1>2. ASSUME NEW s, Proceed(c, s)
      PROVE  /\ call'[c].at = s
             /\ call'[c].id = call[c].id
             /\ call'[c].name = call[c].name
             /\ call'[c].old = call[c].old
  BY <1>1, <1>2 DEF Proceed, Call
<1>3. ASSUME NEW i, NEW n, NEW s, Hold(c, i, n, s)
      PROVE  /\ call'[c].at = s
             /\ call'[c].id = i
             /\ call'[c].name = n
  <2>1. PICK x : x = [call[c] EXCEPT !.id = i, !.name = n, !.at = s]
    OBVIOUS
  <2>2. x.id = i /\ x.name = n /\ x.at = s
    BY <1>1, <2>1 DEF Call
  <2>3. call'[c] = x
    BY <1>1, <1>3, <2>1 DEF Hold
  <2> QED
    BY <2>2, <2>3
<1>4. Finish(c) => call'[c].at = None
  BY <1>1 DEF Finish, NoCall
<1> QED
  BY <1>2, <1>3, <1>4

LEMMA CurrentStep ==
  ASSUME ClientTypes, NEW c \in Clerks, Clerks = {c}, Current(c), ClientsNext
  PROVE  Current(c)'
<1> SUFFICES ASSUME lost' = 0
             PROVE  NamesAsMeant' /\ HoldsTheRow(c)' /\ CopiesByIdCurrent(c)' /\ CopyByNameCurrent(c)'
  BY DEF Current
<1> USE ClientsAssumption DEF At, Steps
<1>0. /\ CallsOK /\ lost \in Nat /\ call[c] \in Call /\ CallOK(call[c])
      /\ client \in [Clients -> Names \cup {None}] /\ meant \in [Clients -> Names \cup {None}]
      /\ byId \in [Clients -> Copy \cup {None}] /\ byName \in Copy \cup {None}
      /\ byName # None => byName.name = DefaultName /\ byName.id \in Clients
  BY DEF ClientTypes, CallsOK, Copy
<1>1. /\ \A s : Proceed(c, s) => /\ call'[c].at = s
                                 /\ call'[c].id = call[c].id
                                 /\ call'[c].name = call[c].name
                                 /\ call'[c].old = call[c].old
      /\ \A i, n, s : Hold(c, i, n, s) => /\ call'[c].at = s
                                          /\ call'[c].id = i
                                          /\ call'[c].name = n
      /\ Finish(c) => call'[c].at = None
  BY <1>0, Fields
<1>2. CASE UNCHANGED books
  BY <1>2
     DEF books, Current, NamesAsMeant, Present, HoldsTheRow, CopiesByIdCurrent,
         CopyByNameCurrent
<1>3. CASE Expire
  BY <1>3, <1>0
     DEF Expire, Current, NamesAsMeant, Present, HoldsTheRow, CopiesByIdCurrent,
         CopyByNameCurrent
<1>4. CASE AboutClients(c)
  <2>1. ~CacheCommandLost(c)
    BY <1>0 DEF CacheCommandLost
  <2>2. lost = 0
    BY <1>0, <1>4, <2>1
       DEF AboutClients, ClientRequest, ResolveOrCreateClient, VerifyClientAPIKey,
       GetClient, DeleteClient, PatchClient, CreateClient, GetCachedClientByID, ExistsClientByName,
       GetClientByName, FetchClient, InsertClient, SaveClient, RemoveClient, ForgetOldName,
       CacheClient, DropClient, ClearAfterPatch, CountOrder, EnqueueCounted, StatementFails
  <2>3. NamesAsMeant /\ HoldsTheRow(c) /\ CopiesByIdCurrent(c) /\ CopyByNameCurrent(c)
    BY <2>2 DEF Current
  <2>4. ASSUME call[c].at \notin {"forget", "drop"}, UNCHANGED <<client, meant, byId, byName>>,
               HoldsTheRow(c)'
        PROVE  NamesAsMeant' /\ HoldsTheRow(c)' /\ CopiesByIdCurrent(c)' /\ CopyByNameCurrent(c)'
    <3>1. NamesAsMeant' /\ CopiesByIdCurrent(c)'
      BY <2>3, <2>4 DEF NamesAsMeant, Present, CopiesByIdCurrent
    <3>2. CopyByNameCurrent(c)'
      BY <2>3, <2>4 DEF CopyByNameCurrent
    <3> QED
      BY <2>4, <3>1, <3>2
  <2>5. CASE ClientRequest(c)
    <3>0. At(c, None) /\ call[c].at = None /\ UNCHANGED <<client, meant, byId, byName>>
          /\ call \in [Clerks -> Call]
      BY <1>0, <2>5 DEF ClientRequest, ResolveOrCreateClient, VerifyClientAPIKey, GetClient,
         DeleteClient, PatchClient, CreateClient, Free, CallsOK
    <3>1. call[c].at \notin {"forget", "drop"}
      BY <3>0
    <3>2. CASE ResolveOrCreateClient(c)
      <4>1. CASE CachedByName = None
        <5>1. PICK x : x = [NoCall EXCEPT !.for = "order", !.at = "exists", !.name = DefaultName]
          OBVIOUS
        <5>2. x.at = "exists"
          BY <5>1 DEF NoCall
        <5>3. call'[c] = x
          BY <3>0, <3>2, <4>1, <5>1 DEF ResolveOrCreateClient
        <5>4. HoldsTheRow(c)'
          BY <5>2, <5>3 DEF HoldsTheRow
        <5> QED
          BY <2>4, <3>0, <3>1, <5>4
      <4>2. CASE CachedByName # None
        <5>1. PICK x : x = [NoCall EXCEPT !.for = "order", !.at = "order",
                              !.id = byName.id, !.name = byName.name]
          OBVIOUS
        <5>2. x.at = "order" /\ x.id = byName.id /\ x.name = DefaultName
          BY <1>0, <4>2, <5>1 DEF NoCall, CachedByName
        <5>3. call'[c] = x
          BY <3>0, <3>2, <4>2, <5>1 DEF ResolveOrCreateClient, CachedByName
        <5>4. client[byName.id] = DefaultName
          BY <2>3, <3>0, <4>2 DEF CopyByNameCurrent, CachedByName
        <5>5. HoldsTheRow(c)'
          BY <3>0, <5>2, <5>3, <5>4 DEF HoldsTheRow
        <5> QED
          BY <2>4, <3>0, <3>1, <5>5
      <4> QED
        BY <4>1, <4>2
    <3>3. ASSUME NEW i \in Clients, VerifyClientAPIKey(c, i) \/ GetClient(c, i)
          PROVE  HoldsTheRow(c)'
      <4>1. call'[c].at = "known" \/ call'[c].at = "fetch"
        BY <3>0, <3>3 DEF VerifyClientAPIKey, GetClient, NoCall
      <4> QED
        BY <4>1 DEF HoldsTheRow
    <3>4. ASSUME NEW n \in Names, CreateClient(c, n) PROVE HoldsTheRow(c)'
      <4>1. call'[c].at = "exists"
        BY <3>0, <3>4 DEF CreateClient, NoCall
      <4> QED
        BY <4>1 DEF HoldsTheRow
    <3>5. ASSUME NEW i \in Clients, DeleteClient(c, i) PROVE HoldsTheRow(c)'
      BY <3>0, <3>5 DEF DeleteClient, HoldsTheRow
    <3>6. ASSUME NEW i \in Clients, NEW n \in Names, PatchClient(c, i, n) PROVE HoldsTheRow(c)'
      BY <3>0, <3>6 DEF PatchClient, HoldsTheRow
    <3> QED
      BY <2>4, <2>5, <3>0, <3>1, <3>2, <3>3, <3>4, <3>5, <3>6 DEF ClientRequest
  <2>6. CASE GetCachedClientByID(c)
    <3>1. call[c].at = "known" /\ call[c].id \in Clients /\ UNCHANGED <<client, meant, byId, byName>>
      BY <1>0, <2>6 DEF GetCachedClientByID, CallOK, NeedsId
    <3>2. HoldsTheRow(c)'
      BY <1>1, <2>3, <2>6, <3>1 DEF GetCachedClientByID, HoldsTheRow, CopiesByIdCurrent
    <3> QED
      BY <2>4, <3>1, <3>2
  <2>7. CASE ExistsClientByName(c)
    <3>1. call[c].at = "exists" /\ UNCHANGED <<client, meant, byId, byName>>
      BY <2>7 DEF ExistsClientByName
    <3>2. call'[c].at \in {"insert", "get", None}
      BY <1>1, <2>7 DEF ExistsClientByName, GoOn
    <3>3. HoldsTheRow(c)'
      BY <3>2 DEF HoldsTheRow
    <3> QED
      BY <2>4, <3>1, <3>3
  <2>8. CASE GetClientByName(c) \/ FetchClient(c)
    <3>1. call[c].at \notin {"forget", "drop"} /\ UNCHANGED <<client, meant, byId, byName>>
      BY <2>8 DEF GetClientByName, FetchClient
    <3>2. (\E i : Hold(c, i, client[i], "cache")) \/ Finish(c)
      BY <2>8 DEF GetClientByName, FetchClient
    <3>3. HoldsTheRow(c)'
      BY <1>1, <3>1, <3>2 DEF HoldsTheRow
    <3> QED
      BY <2>4, <3>1, <3>3
  <2>9. CASE InsertClient(c)
    <3>0. call[c].at = "insert" /\ call[c].name \in Names /\ UNCHANGED <<byId, byName>>
      BY <1>0, <2>9 DEF InsertClient, CallOK, NeedsName
    <3>1. CASE Finish(c) /\ UNCHANGED <<client, meant>>
      <4>1. HoldsTheRow(c)'
        BY <1>1, <3>1 DEF HoldsTheRow
      <4> QED
        BY <2>4, <3>0, <3>1, <4>1
    <3>2. ASSUME NEW i \in Unused,
                 client' = [client EXCEPT ![i] = call[c].name],
                 meant' = [meant EXCEPT ![i] = call[c].name],
                 Hold(c, i, call[c].name, "cache")
          PROVE  NamesAsMeant' /\ HoldsTheRow(c)' /\ CopiesByIdCurrent(c)' /\ CopyByNameCurrent(c)'
      <4>1. i \in Clients /\ client[i] = None
        BY <1>0, <2>3, <3>2 DEF Unused, NamesAsMeant, Present
      <4>2. NamesAsMeant'
        BY <1>0, <2>3, <3>2, <4>1 DEF NamesAsMeant, Present
      <4>3. HoldsTheRow(c)'
        BY <1>0, <1>1, <3>2, <4>1 DEF HoldsTheRow
      <4>4. byId[i] = None
        BY <1>0, <2>3, <3>0, <4>1 DEF CopiesByIdCurrent, Copy
      <4>5. CopiesByIdCurrent(c)'
        BY <1>0, <2>3, <3>0, <3>2, <4>1, <4>4 DEF CopiesByIdCurrent
      <4>6. CopyByNameCurrent(c)'
        BY <1>0, <2>3, <3>0, <3>2, <4>1 DEF CopyByNameCurrent
      <4> QED
        BY <4>2, <4>3, <4>5, <4>6
    <3> QED
      BY <2>9, <3>1, <3>2 DEF InsertClient
  <2>10. CASE SaveClient(c)
    <3>0. /\ call[c].at = "save" /\ call[c].id \in Clients /\ call[c].name \in Names
          /\ UNCHANGED <<byId, byName>>
          /\ client[call[c].id] = call[c].old
      BY <1>0, <2>3, <2>10 DEF SaveClient, CallOK, NeedsName, NeedsId, HoldsTheRow
    <3>1. CASE Finish(c) /\ UNCHANGED <<client, meant>>
      <4>1. HoldsTheRow(c)'
        BY <1>1, <3>1 DEF HoldsTheRow
      <4> QED
        BY <2>4, <3>0, <3>1, <4>1
    <3>2. CASE /\ client' = [client EXCEPT ![call[c].id] = call[c].name]
               /\ meant' = [meant EXCEPT ![call[c].id] = call[c].name]
               /\ Proceed(c, IF call[c].old = call[c].name THEN "cache" ELSE "forget")
      <4>1. /\ call'[c].at = IF call[c].old = call[c].name THEN "cache" ELSE "forget"
            /\ call'[c].id = call[c].id /\ call'[c].name = call[c].name /\ call'[c].old = call[c].old
        BY <1>1, <3>2
      <4>2. client'[call[c].id] = call[c].name
            /\ \A i \in Clients : i # call[c].id => client'[i] = client[i]
        BY <1>0, <3>0, <3>2
      <4>3. NamesAsMeant'
        BY <1>0, <2>3, <3>0, <3>2 DEF NamesAsMeant, Present
      <4>4. HoldsTheRow(c)'
        BY <4>1, <4>2 DEF HoldsTheRow
      <4>5. CopiesByIdCurrent(c)'
        BY <2>3, <3>0, <4>1, <4>2 DEF CopiesByIdCurrent
      <4>6. CopyByNameCurrent(c)'
        BY <1>0, <2>3, <3>0, <4>1, <4>2 DEF CopyByNameCurrent
      <4> QED
        BY <4>3, <4>4, <4>5, <4>6
    <3> QED
      BY <2>10, <3>1, <3>2 DEF SaveClient
  <2>11. CASE RemoveClient(c)
    <3>0. /\ call[c].at = "remove" /\ call[c].id \in Clients
          /\ UNCHANGED <<byId, byName, meant>>
          /\ client[call[c].id] = call[c].name
      BY <1>0, <2>3, <2>11 DEF RemoveClient, CallOK, NeedsId, HoldsTheRow
    <3>1. CASE Finish(c) /\ UNCHANGED client
      <4>1. HoldsTheRow(c)'
        BY <1>1, <3>1 DEF HoldsTheRow
      <4> QED
        BY <2>4, <3>0, <3>1, <4>1
    <3>2. CASE client' = [client EXCEPT ![call[c].id] = None] /\ Proceed(c, "drop")
      <4>1. call'[c].at = "drop" /\ call'[c].id = call[c].id /\ call'[c].name = call[c].name
        BY <1>1, <3>2
      <4>2. client'[call[c].id] = None
            /\ \A i \in Clients : i # call[c].id => client'[i] = client[i]
        BY <1>0, <3>0, <3>2
      <4>3. NamesAsMeant'
        BY <2>3, <3>0, <4>2 DEF NamesAsMeant, Present
      <4>4. HoldsTheRow(c)'
        BY <4>1 DEF HoldsTheRow
      <4>5. CopiesByIdCurrent(c)'
        BY <2>3, <3>0, <4>1, <4>2 DEF CopiesByIdCurrent
      <4>6. CopyByNameCurrent(c)'
        BY <1>0, <2>3, <3>0, <4>1, <4>2 DEF CopyByNameCurrent
      <4> QED
        BY <4>3, <4>4, <4>5, <4>6
    <3> QED
      BY <2>11, <3>1, <3>2 DEF RemoveClient
  <2>12. CASE ForgetOldName(c)
    <3>0. /\ call[c].at = "forget" /\ call[c].id \in Clients
          /\ UNCHANGED <<client, meant>>
          /\ client[call[c].id] = call[c].name
          /\ byId' = [byId EXCEPT ![call[c].id] = None]
          /\ byName' = IF call[c].old = DefaultName THEN None ELSE byName
      BY <1>0, <2>3, <2>12 DEF ForgetOldName, ForgetClient, CallOK, NeedsId, HoldsTheRow
    <3>1. call'[c].at = "cache" /\ call'[c].id = call[c].id /\ call'[c].name = call[c].name
      BY <1>1, <2>12 DEF ForgetOldName
    <3>2. NamesAsMeant' /\ HoldsTheRow(c)'
      BY <2>3, <3>0, <3>1 DEF NamesAsMeant, Present, HoldsTheRow
    <3>3. CopiesByIdCurrent(c)'
      BY <1>0, <2>3, <3>0 DEF CopiesByIdCurrent
    <3>4. CopyByNameCurrent(c)'
      BY <2>3, <3>0 DEF CopyByNameCurrent
    <3> QED
      BY <3>2, <3>3, <3>4
  <2>13. CASE CacheClient(c)
    <3>0. /\ call[c].at = "cache" /\ call[c].id \in Clients
          /\ UNCHANGED <<client, meant>>
          /\ client[call[c].id] = call[c].name
          /\ byId' = [byId EXCEPT ![call[c].id] = Called(c)]
          /\ byName' = IF call[c].name = DefaultName THEN Called(c) ELSE byName
          /\ Called(c).id = call[c].id /\ Called(c).name = call[c].name
      BY <1>0, <2>3, <2>13 DEF CacheClient, SetClient, CallOK, NeedsId, HoldsTheRow, Called
    <3>1. \/ call'[c].at \in {"clear", None}
          \/ call'[c].at = "order" /\ call'[c].id = call[c].id /\ call'[c].name = call[c].name
      BY <1>1, <2>13 DEF CacheClient, GoOn, AfterCache, Found
    <3>2. NamesAsMeant' /\ HoldsTheRow(c)'
      BY <2>3, <3>0, <3>1 DEF NamesAsMeant, Present, HoldsTheRow
    <3>3. CopiesByIdCurrent(c)'
      BY <1>0, <2>3, <3>0 DEF CopiesByIdCurrent
    <3>4. CopyByNameCurrent(c)'
      BY <2>3, <3>0 DEF CopyByNameCurrent
    <3> QED
      BY <3>2, <3>3, <3>4
  <2>14. CASE DropClient(c)
    <3>0. /\ call[c].at = "drop" /\ call[c].id \in Clients
          /\ UNCHANGED <<client, meant>>
          /\ byId' = [byId EXCEPT ![call[c].id] = None]
          /\ byName' = IF call[c].name = DefaultName THEN None ELSE byName
      BY <1>0, <2>14 DEF DropClient, ForgetClient, CallOK, NeedsId
    <3>1. call'[c].at = None
      BY <1>1, <2>14 DEF DropClient
    <3>2. NamesAsMeant' /\ HoldsTheRow(c)'
      BY <2>3, <3>0, <3>1 DEF NamesAsMeant, Present, HoldsTheRow
    <3>3. CopiesByIdCurrent(c)'
      BY <1>0, <2>3, <3>0 DEF CopiesByIdCurrent
    <3>4. CopyByNameCurrent(c)'
      BY <2>3, <3>0 DEF CopyByNameCurrent
    <3> QED
      BY <3>2, <3>3, <3>4
  <2>15. CASE ClearAfterPatch(c) \/ EnqueueCounted(c) \/ StatementFails(c)
    <3>1. call[c].at \notin {"forget", "drop"} /\ UNCHANGED <<client, meant, byId, byName>> /\ Finish(c)
      BY <2>15 DEF ClearAfterPatch, EnqueueCounted, StatementFails
    <3>2. HoldsTheRow(c)'
      BY <1>1, <3>1 DEF HoldsTheRow
    <3> QED
      BY <2>4, <3>1, <3>2
  <2>16. CASE CountOrder(c)
    <3>0. /\ call[c].at = "order" /\ call[c].id \in Clients
          /\ UNCHANGED <<byId, byName, meant>>
          /\ client[call[c].id] = call[c].name
      BY <1>0, <2>3, <2>16 DEF CountOrder, CallOK, NeedsId, HoldsTheRow
    <3>1. client' = client
      <4>1. CASE client' = [client EXCEPT ![call[c].id] = call[c].name]
        <5>1. client' \in [Clients -> Names \cup {None}] /\ \A i \in Clients : client'[i] = client[i]
          BY <1>0, <3>0, <4>1
        <5>2. client = [i \in Clients |-> client[i]] /\ client' = [i \in Clients |-> client'[i]]
          BY <1>0, <5>1
        <5> QED
          BY <5>1, <5>2
      <4> QED
        BY <2>16, <4>1 DEF CountOrder
    <3>2. Finish(c) \/ Proceed(c, "counted")
      BY <2>16 DEF CountOrder
    <3>3. HoldsTheRow(c)'
      BY <1>1, <3>0, <3>1, <3>2 DEF HoldsTheRow
    <3> QED
      BY <2>4, <3>0, <3>1, <3>3
  <2> QED
    BY <1>4, <2>1, <2>5, <2>6, <2>7, <2>8, <2>9, <2>10, <2>11, <2>12, <2>13, <2>14, <2>15, <2>16
    DEF AboutClients
<1> QED
  BY <1>2, <1>3, <1>4, ClientsMove

(* Clerks that come one after the other: an order writes the whole row of  *)
(* its client back when it counts itself (client_service.go), and the name *)
(* it writes is always the one the client was last given, whatever copies  *)
(* are cached, expired and deleted, while no cache command was lost.       *)
THEOREM EditsAreKept == (\E c : Clerks = {c}) => (ClientsSpec => []EditsKept)
<1> SUFFICES ASSUME NEW c, Clerks = {c} PROVE ClientsSpec => []EditsKept
  OBVIOUS
<1>1. ClientsInit => ClientTypes /\ Current(c)
  <2> SUFFICES ASSUME ClientsInit PROVE ClientTypes /\ Current(c)
    OBVIOUS
  <2>1. c \in Clerks /\ call[c].at = None
    BY DEF ClientsInit, NoCall
  <2>2. Current(c)
    BY <2>1, ClientsAssumption DEF ClientsInit, Current, NamesAsMeant, Present, HoldsTheRow,
       CopiesByIdCurrent, CopyByNameCurrent, At, Steps
  <2> QED
    BY <2>2, ClientTypesAtFirst
<1>2. ClientTypes /\ Current(c) /\ [ClientsNext]_allVars => ClientTypes' /\ Current(c)'
  <2>1. CASE ClientTypes /\ Current(c) /\ ClientsNext
    <3>1. c \in Clerks
      OBVIOUS
    <3>2. ClientTypes'
      BY <2>1, ClientTypesStep
    <3>3. Current(c)'
      BY <2>1, <3>1, CurrentStep
    <3> QED
      BY <3>2, <3>3
  <2>2. CASE ClientTypes /\ Current(c) /\ UNCHANGED allVars
    BY <2>2 DEF allVars, clientVars, ClientTypes, CallsOK, Current, NamesAsMeant, Present,
       HoldsTheRow, CopiesByIdCurrent, CopyByNameCurrent, At
  <2> QED
    BY <2>1, <2>2
<1>3. Current(c) => EditsKept
  BY DEF Current, NamesAsMeant, EditsKept
<1> QED
  BY <1>1, <1>2, <1>3, PTL DEF ClientsSpec

-----------------------------------------------------------------------------
(***************************************************************************)
(* No stock is lost.  While the one worker w carries an order from the     *)
(* MULTI block to its row, or back, the units are in its hands.  What goes  *)
(* back is what the hash of the order holds then: it is what was taken,    *)
(* because a hash never has a line that the order has not, and the lines   *)
(* of an order, without a PATCH, only become more, one for a SKU.          *)
(***************************************************************************)
Trying == {"check", "requeue", "reserve", "recheck", "exec"}
Carrying == {"persist", "drop_read", "drop_exec"}
UndoLabels == {"undo_read", "undo_exec", "undo_row"}

InHand(w, s) == IF pc[w] \in Carrying THEN Units(want[w], s) ELSE 0
Balanced(w) ==
    /\ IsFiniteSet(Reserved)
    /\ \A s \in SKUs : atp[s] + Allotted(s) + InHand(w, s) = Stock[s]
LinesKnown(w) ==
    /\ \A o \in Orders : Lines(hold[o]) \subseteq Lines(items[o]) /\ Lines(items[o]) \subseteq Created
    /\ pc[w] \in Trying => Lines(hold[cur[w]]) \subseteq Lines(want[w])
    /\ pc[w] \in Trying \cup Carrying => Lines(want[w]) \subseteq Lines(items[cur[w]])
    /\ pc[w] \in Carrying => hold[cur[w]] = want[w]
    /\ \A c \in Clerks : pc[c] = "line" => left[c] \subseteq Lines(want[c]) \cap Created
Untroubled(w) ==
    /\ ~disabled /\ pc[w] \notin UndoLabels
    /\ \A c \in Clerks : pc[c] # "patch_items"
StockInv(w) == Balanced(w) /\ LinesKnown(w) /\ Untroubled(w)

(* A step of p that neither takes nor gives stock, nor goes where it could. *)
Alone(p) ==
    \A q \in Procs \ {p} : pc'[q] = pc[q] /\ cur'[q] = cur[q] /\ want'[q] = want[q] /\ left'[q] = left[q]
Elsewhere(p) ==
    /\ Alone(p)
    /\ UNCHANGED <<items, resv, atp, hold, disabled>>
    /\ pc[p] \notin Carrying
    /\ pc'[p] \notin Trying \cup Carrying \cup UndoLabels \cup {"line", "patch_items"}
Further(w) ==
    /\ Alone(w)
    /\ UNCHANGED <<items, resv, atp, hold, disabled>>
    /\ pc[w] \in Trying /\ pc'[w] \in Trying
    /\ cur'[w] = cur[w] /\ want'[w] = want[w]

LEMMA AllottedType ==
  ASSUME TypeOK, NEW s \in SKUs, IsFiniteSet(Reserved)
  PROVE  Allotted(s) \in Nat
<1> DEFINE f == [o \in Reserved |-> Units(resv[o], s)]
<1>1. \A o \in Reserved : f[o] \in Nat
  <2> TAKE o \in Reserved
  <2>1. resv[o] \in Items
    BY DEF Reserved, TypeOK, StoreOK
  <2>2. Units(resv[o], s) \in Nat
    BY <2>1, UnitsType
  <2> QED
    BY <2>2
<1> HIDE DEF f
<1>2. SumFunctionOnSet(f, Reserved) \in Nat
  BY <1>1, SumType
<1> QED
  BY <1>2 DEF Allotted, f

LEMMA BalanceKept ==
  ASSUME NEW w, Balanced(w), UNCHANGED <<resv, atp>>, \A s \in SKUs : InHand(w, s)' = InHand(w, s)
  PROVE  Balanced(w)'
BY DEF Balanced, Reserved, Allotted

LEMMA ElsewhereKeeps ==
  ASSUME TypeOK, NEW w, Workers = {w}, StockInv(w), NEW p \in Procs, Elsewhere(p)
  PROVE  StockInv(w)'
<1>1. w \in Procs /\ Clerks \subseteq Procs /\ w \notin Clerks
  BY SalesAssumption DEF Procs
<1>2. \/ pc'[w] = pc[w] /\ cur'[w] = cur[w] /\ want'[w] = want[w]
      \/ /\ pc[w] \notin Carrying
         /\ pc'[w] \notin Trying \cup Carrying \cup UndoLabels
  BY <1>1 DEF Elsewhere, Alone
<1>3. Balanced(w)'
  <2>1. \A s \in SKUs : InHand(w, s)' = InHand(w, s)
    BY <1>2 DEF InHand
  <2> QED
    BY <2>1, BalanceKept DEF StockInv, Elsewhere
<1>4. LinesKnown(w)'
  <2>1. \A c \in Clerks : pc'[c] = "line" => pc[c] = "line" /\ left'[c] = left[c] /\ want'[c] = want[c]
    BY <1>1 DEF Elsewhere, Alone
  <2> QED
    BY <1>2, <2>1 DEF StockInv, LinesKnown, Elsewhere
<1>5. Untroubled(w)'
  BY <1>1, <1>2 DEF StockInv, Untroubled, Elsewhere, Alone
<1> QED
  BY <1>3, <1>4, <1>5 DEF StockInv

LEMMA FurtherKeeps ==
  ASSUME TypeOK, NEW w, Workers = {w}, StockInv(w), Further(w)
  PROVE  StockInv(w)'
<1>1. w \in Procs /\ Clerks \subseteq Procs /\ w \notin Clerks
  BY SalesAssumption DEF Procs
<1>2. Balanced(w)'
  <2>1. \A s \in SKUs : InHand(w, s)' = InHand(w, s)
    BY DEF InHand, Further, Trying, Carrying
  <2> QED
    BY <2>1, BalanceKept DEF StockInv, Further
<1>3. LinesKnown(w)'
  BY <1>1 DEF StockInv, LinesKnown, Further, Alone, Trying, Carrying
<1>4. Untroubled(w)'
  BY <1>1 DEF StockInv, Untroubled, Further, Alone, Trying, UndoLabels
<1> QED
  BY <1>2, <1>3, <1>4 DEF StockInv

LEMMA CreateOrderKeeps ==
  ASSUME TypeOK, NEW w, Workers = {w}, StockInv(w), NEW c \in Clerks, CreateOrder(c)
  PROVE  StockInv(w)'
<1>1. w \in Procs /\ c \in Procs /\ c # w /\ Clerks \subseteq Procs
  BY SalesAssumption DEF Procs
<1>2. /\ pc \in [Procs -> Labels] /\ cur \in [Procs -> Orders \cup {None}]
      /\ want \in [Procs -> Items] /\ left \in [Procs -> SUBSET Line]
  BY DEF TypeOK, LocalsOK
<1>3. Alone(c) /\ pc'[c] = "line" /\ left'[c] \subseteq Lines(want'[c]) \cap Created
      /\ UNCHANGED <<items, resv, atp, hold, disabled>>
  BY <1>1, <1>2 DEF CreateOrder, Goto, Alone, valkey
<1>4. Balanced(w)'
  <2>1. \A s \in SKUs : InHand(w, s)' = InHand(w, s)
    BY <1>1, <1>3 DEF InHand, Alone
  <2> QED
    BY <1>3, <2>1, BalanceKept DEF StockInv
<1>5. LinesKnown(w)'
  BY <1>1, <1>3 DEF StockInv, LinesKnown, Alone
<1>6. Untroubled(w)'
  BY <1>1, <1>3 DEF StockInv, Untroubled, Alone
<1> QED
  BY <1>4, <1>5, <1>6 DEF StockInv

LEMMA CreateOrderItemKeeps ==
  ASSUME TypeOK, NEW w, Workers = {w}, StockInv(w), NEW c \in Clerks, CreateOrderItem(c)
  PROVE  StockInv(w)'
<1>1. w \in Procs /\ c \in Procs /\ c # w /\ Clerks \subseteq Procs
  BY SalesAssumption DEF Procs
<1>2. /\ pc \in [Procs -> Labels] /\ cur \in [Procs -> Orders \cup {None}]
      /\ want \in [Procs -> Items] /\ left \in [Procs -> SUBSET Line]
      /\ items \in [Orders -> Items]
  BY DEF TypeOK, StoreOK, LocalsOK
<1>3. PICK l \in left[c] : items' = [items EXCEPT ![cur[c]][l] = want[c][l]] /\ Visit(c, l, "enqueue")
  BY DEF CreateOrderItem
<1>4. pc[c] = "line" /\ cur[c] \in Orders /\ l \in Line /\ l \in Created /\ want[c][l] > 0
  <2>1. pc[c] = "line" /\ cur[c] \in Orders
    BY <1>1 DEF CreateOrderItem, TypeOK, LocalsOK, RebuildLabels
  <2>2. l \in Lines(want[c]) /\ l \in Created
    BY <1>3, <2>1 DEF StockInv, LinesKnown
  <2> QED
    BY <2>1, <2>2 DEF Lines
<1>5. Alone(c) /\ UNCHANGED <<resv, atp, hold, disabled>>
  BY <1>1, <1>2, <1>3 DEF CreateOrderItem, Visit, Goto, Alone, valkey
<1>6. pc'[c] \in {"line", "enqueue"} /\ left'[c] \subseteq left[c] /\ want'[c] = want[c]
  BY <1>1, <1>2, <1>3, <1>4 DEF CreateOrderItem, Visit, Goto
<1>7. \A o \in Orders : /\ Lines(items[o]) \subseteq Lines(items'[o])
                        /\ Lines(items'[o]) \subseteq Lines(items[o]) \cup Created
  BY <1>2, <1>3, <1>4 DEF Lines, Items
<1>8. Balanced(w)'
  <2>1. \A t \in SKUs : InHand(w, t)' = InHand(w, t)
    BY <1>1, <1>5 DEF InHand, Alone
  <2> QED
    BY <1>5, <2>1, BalanceKept DEF StockInv
<1>9. LinesKnown(w)'
  <2>1. cur[w] \in Orders \/ pc[w] \notin Trying \cup Carrying
    BY <1>1 DEF TypeOK, LocalsOK, RebuildLabels, Trying, Carrying
  <2>2. /\ \A o \in Orders : Lines(hold'[o]) \subseteq Lines(items'[o]) /\ Lines(items'[o]) \subseteq Created
        /\ pc'[w] \in Trying \cup Carrying => Lines(want'[w]) \subseteq Lines(items'[cur'[w]])
    BY <1>1, <1>5, <1>7, <2>1 DEF StockInv, LinesKnown, Alone
  <2>3. \A d \in Clerks : pc'[d] = "line" => left'[d] \subseteq Lines(want'[d]) \cap Created
    BY <1>1, <1>4, <1>5, <1>6 DEF StockInv, LinesKnown, Alone
  <2>4. /\ pc'[w] \in Trying => Lines(hold'[cur'[w]]) \subseteq Lines(want'[w])
        /\ pc'[w] \in Carrying => hold'[cur'[w]] = want'[w]
    BY <1>1, <1>5 DEF StockInv, LinesKnown, Alone
  <2> QED
    BY <2>2, <2>3, <2>4 DEF LinesKnown
<1>10. Untroubled(w)'
  BY <1>1, <1>4, <1>5, <1>6 DEF StockInv, Untroubled, Alone
<1> QED
  BY <1>8, <1>9, <1>10 DEF StockInv

(* What the facts about a step of w itself have in common.                 *)
LEMMA AtWorker ==
  ASSUME TypeOK, NEW w, Workers = {w}
  PROVE  /\ w \in Procs /\ Clerks \subseteq Procs /\ w \notin Clerks /\ Procs = Clerks \cup {w}
         /\ pc \in [Procs -> Labels] /\ cur \in [Procs -> Orders \cup {None}]
         /\ want \in [Procs -> Items] /\ left \in [Procs -> SUBSET Line]
         /\ items \in [Orders -> Items] /\ hold \in [Orders -> Items]
         /\ resv \in [Orders -> Items \cup {None}] /\ atp \in [SKUs -> Int]
         /\ pc[w] \in {"lines"} \cup Trying \cup Carrying => cur[w] \in Orders
BY SalesAssumption DEF Procs, TypeOK, StoreOK, LocalsOK, RebuildLabels, Trying, Carrying

LEMMA LoadItemsKeeps ==
  ASSUME TypeOK, NEW w, Workers = {w}, StockInv(w), LoadItems(w)
  PROVE  StockInv(w)'
<1> DEFINE o == cur[w]
<1>1. pc[w] = "lines" /\ o \in Orders
  BY AtWorker DEF LoadItems
<1>2. Alone(w) /\ UNCHANGED <<items, resv, atp, hold, disabled>>
  BY AtWorker DEF LoadItems, Goto, Alone, db, valkey
<1>3. pc'[w] \in {"reserve", "check"} /\ cur'[w] = o /\ want'[w] = items[o]
  BY AtWorker DEF LoadItems, Goto
<1>4. Balanced(w)'
  <2>1. \A s \in SKUs : InHand(w, s)' = InHand(w, s)
    BY <1>1, <1>3 DEF InHand, Carrying
  <2> QED
    BY <1>2, <2>1, BalanceKept DEF StockInv
<1>5. LinesKnown(w)'
  BY <1>1, <1>2, <1>3, AtWorker DEF StockInv, LinesKnown, Alone, Trying, Carrying
<1>6. Untroubled(w)'
  BY <1>2, <1>3, AtWorker DEF StockInv, Untroubled, Alone, UndoLabels
<1> QED
  BY <1>4, <1>5, <1>6 DEF StockInv

(* The MULTI block takes the units, and the hash then holds just them.     *)
LEMMA ExecReserveKeeps ==
  ASSUME TypeOK, NEW w, Workers = {w}, StockInv(w), ExecReserve(w)
  PROVE  StockInv(w)'
<1> DEFINE o == cur[w]
<1>1. pc[w] = "exec" /\ o \in Orders
  BY AtWorker DEF ExecReserve, Trying
<1>2. Alone(w) /\ UNCHANGED <<items, resv, disabled>>
  BY AtWorker DEF ExecReserve, Goto, Alone, db, locals
<1>3. pc'[w] = "persist" /\ cur'[w] = o /\ want'[w] = want[w] /\ left' = left
  BY AtWorker DEF ExecReserve, Goto, locals
<1>4. /\ \A s \in SKUs : atp'[s] = atp[s] - Units(want[w], s) /\ Units(want[w], s) \in Nat
      /\ \E f \in Later(want[w]) : hold' = [hold EXCEPT ![o] = HSet(@, want[w], f)]
  <2>1. want[w] \in Items
    BY AtWorker
  <2> QED
    BY <2>1, UnitsType DEF ExecReserve, ReserveStock
<1>5. hold'[o] = want[w]
  <2>1. Lines(hold[o]) \subseteq Lines(want[w]) /\ Lines(want[w]) \subseteq Created
    BY <1>1 DEF StockInv, LinesKnown, Trying
  <2>2. hold[o] \in Items /\ want[w] \in Items
    BY <1>1, AtWorker
  <2>3. PICK f \in Later(want[w]) : hold'[o] = HSet(hold[o], want[w], f)
    BY <1>1, <1>4, AtWorker
  <2>4. ASSUME NEW l \in Line
        PROVE  (IF Units(want[w], l[1]) = 0 THEN hold[o][l]
                ELSE IF l[2] = f[l[1]] THEN want[w][l] ELSE 0) = want[w][l]
    <3>1. PICK s \in SKUs, k \in {"created", "edited"} : l = <<s, k>>
      BY DEF Line
    <3>2. <<s, "created">> \in Line /\ <<s, "edited">> \in Line
      BY UnitsType, <2>2
    <3>3. /\ want[w][<<s, "created">>] \in Nat /\ want[w][<<s, "edited">>] \in Nat
          /\ hold[o][l] \in Nat /\ want[w][l] \in Nat
      BY <2>2, <3>2, SalesAssumption DEF Items
    <3>4. want[w][<<s, "edited">>] = 0
      BY <2>1, <3>2, <3>3 DEF Lines, Created
    <3>5. Units(want[w], l[1]) = want[w][<<s, "created">>]
      BY <3>1, <3>3, <3>4 DEF Units
    <3>6. CASE want[w][<<s, "created">>] = 0
      <4>1. want[w][l] = 0
        BY <3>1, <3>4, <3>6
      <4>2. hold[o][l] = 0
        BY <2>1, <3>3, <4>1 DEF Lines
      <4> QED
        BY <3>5, <3>6, <4>1, <4>2
    <3>7. CASE want[w][<<s, "created">>] # 0
      <4>1. <<s, "created">> \in Lines(want[w])
        BY <3>2, <3>3, <3>7 DEF Lines
      <4>2. want[w][<<s, f[s]>>] > 0 /\ f[s] \in {"created", "edited"}
        BY <4>1 DEF Later
      <4>3. f[s] = "created"
        BY <3>4, <4>2
      <4> QED
        BY <3>1, <3>4, <3>5, <3>7, <4>3
    <3> QED
      BY <3>6, <3>7
  <2>5. HSet(hold[o], want[w], f) = [l \in Line |-> want[w][l]]
    BY <2>4 DEF HSet
  <2> QED
    BY <2>2, <2>3, <2>5 DEF Items
<1>6. \A q \in Orders \ {o} : hold'[q] = hold[q]
  BY <1>1, <1>4, AtWorker
<1>7. Balanced(w)'
  <2>1. Reserved' = Reserved /\ \A s : Allotted(s)' = Allotted(s)
    BY <1>2 DEF Reserved, Allotted
  <2>2. \A s \in SKUs : InHand(w, s) = 0 /\ InHand(w, s)' = Units(want[w], s)
    BY <1>1, <1>3 DEF InHand, Carrying
  <2>3. IsFiniteSet(Reserved) /\ \A s \in SKUs : atp[s] + Allotted(s) + InHand(w, s) = Stock[s]
    BY DEF StockInv, Balanced
  <2>4. \A s \in SKUs : Allotted(s) \in Nat
    BY <2>3, AllottedType
  <2>5. \A s \in SKUs : atp'[s] + Allotted(s)' + InHand(w, s)' = Stock[s]
    <3> TAKE s \in SKUs
    <3>1. atp[s] \in Int
      BY AtWorker
    <3> HIDE DEF o
    <3> QED
      BY <1>4, <2>1, <2>2, <2>3, <2>4, <3>1
  <2> QED
    BY <2>1, <2>3, <2>5 DEF Balanced
<1>8. LinesKnown(w)'
  BY <1>1, <1>2, <1>3, <1>5, <1>6, AtWorker DEF StockInv, LinesKnown, Alone, Trying, Carrying
<1>9. Untroubled(w)'
  BY <1>2, <1>3, AtWorker DEF StockInv, Untroubled, Alone, UndoLabels
<1> QED
  BY <1>7, <1>8, <1>9 DEF StockInv


(* The row takes what was in hand; one that is there already leaves it.    *)
LEMMA CreateReservationKeeps ==
  ASSUME TypeOK, NEW w, Workers = {w}, StockInv(w), CreateReservation(w)
  PROVE  StockInv(w)'
<1> DEFINE o == cur[w]
<1>1. pc[w] = "persist" /\ o \in Orders
  BY AtWorker DEF CreateReservation, Carrying
<1>2. Alone(w) /\ UNCHANGED <<items, atp, hold, disabled>>
  BY AtWorker DEF CreateReservation, Goto, Alone, valkey, locals
<1>3. cur'[w] = o /\ want' = want /\ left' = left
  BY DEF CreateReservation, locals
<1>4. /\ IsFiniteSet(Reserved)
      /\ \A s \in SKUs : atp[s] + Allotted(s) + Units(want[w], s) = Stock[s]
  BY <1>1 DEF StockInv, Balanced, InHand, Carrying
<1>5. CASE resv[o] # None /\ pc'[w] = "drop_read" /\ resv' = resv
  <2>1. Balanced(w)'
    <3>1. \A s \in SKUs : InHand(w, s)' = InHand(w, s)
      BY <1>1, <1>3, <1>5 DEF InHand, Carrying
    <3> QED
      BY <1>2, <1>5, <3>1, BalanceKept DEF StockInv
  <2>2. LinesKnown(w)'
    BY <1>1, <1>2, <1>3, <1>5, AtWorker DEF StockInv, LinesKnown, Alone, Trying, Carrying
  <2>3. Untroubled(w)'
    BY <1>2, <1>5, AtWorker DEF StockInv, Untroubled, Alone, UndoLabels
  <2> QED
    BY <2>1, <2>2, <2>3 DEF StockInv
<1>6. CASE resv[o] = None /\ pc'[w] = "update" /\ resv' = [resv EXCEPT ![o] = want[w]]
  <2>1. want[w] \in Items /\ want[w] # None
    BY AtWorker, NoneIsNoItems
  <2>2. Reserved' = Reserved \cup {o} /\ o \notin Reserved
    BY <1>1, <1>6, <2>1, AtWorker DEF Reserved
  <2>3. IsFiniteSet(Reserved')
    BY <1>4, <2>2, FS_AddElement
  <2>4. \A s \in SKUs : Allotted(s)' = Allotted(s) + Units(want[w], s)
    <3> TAKE s \in SKUs
    <3> DEFINE f == [q \in Reserved |-> Units(resv[q], s)]
               e == [q \in Reserved' |-> Units(resv'[q], s)]
    <3>1. \A q \in Reserved : f[q] \in Nat /\ e[q] = f[q]
      <4> TAKE q \in Reserved
      <4>1. resv[q] \in Items /\ resv'[q] = resv[q] /\ q \in Reserved'
        BY <1>1, <1>6, <2>2, AtWorker DEF Reserved
      <4>2. Units(resv[q], s) \in Nat
        BY <4>1, UnitsType
      <4> QED
        BY <4>1, <4>2
    <3>2. e[o] = Units(want[w], s) /\ Units(want[w], s) \in Nat
      <4>1. o \in Reserved' /\ resv'[o] = want[w]
        BY <1>1, <1>6, <2>2, AtWorker
      <4>2. Units(want[w], s) \in Nat
        BY <2>1, UnitsType
      <4> QED
        BY <4>1, <4>2
    <3> HIDE DEF f, e, o
    <3>3. SumFunctionOnSet(e, Reserved') = e[o] + SumFunctionOnSet(e, Reserved' \ {o})
      <4>1. \A q \in Reserved' : e[q] \in Nat
        BY <2>2, <3>1, <3>2
      <4> QED
        BY <2>2, <2>3, <4>1, SumRemove
    <3>4. Reserved' \ {o} = Reserved
      BY <2>2
    <3>5. SumFunctionOnSet(e, Reserved) = SumFunctionOnSet(f, Reserved)
      BY <1>4, <3>1, SumSame
    <3>6. SumFunctionOnSet(f, Reserved) \in Nat
      BY <1>4, <3>1, SumType
    <3>7. Allotted(s) = SumFunctionOnSet(f, Reserved) /\ Allotted(s)' = SumFunctionOnSet(e, Reserved')
      BY DEF Allotted, f, e
    <3>8. SumFunctionOnSet(e, Reserved' \ {o}) = Allotted(s)
      BY <3>4, <3>5, <3>7, Zenon
    <3>9. Allotted(s)' = Units(want[w], s) + Allotted(s)
      BY <3>2, <3>3, <3>7, <3>8, Zenon
    <3> QED
      BY <3>2, <3>6, <3>7, <3>9
  <2>5. Balanced(w)'
    <3>1. \A s \in SKUs : InHand(w, s)' = 0
      BY <1>6 DEF InHand, Carrying
    <3>2. \A s \in SKUs : atp[s] \in Int /\ Allotted(s) \in Nat /\ Units(want[w], s) \in Nat
      BY <1>4, <2>1, UnitsType, AtWorker, AllottedType
    <3>3. \A s \in SKUs : atp'[s] + Allotted(s)' + InHand(w, s)' = Stock[s]
      <4> TAKE s \in SKUs
      <4> QED
        BY <1>2, <1>4, <2>4, <3>1, <3>2
    <3> QED
      BY <2>3, <3>3 DEF Balanced
  <2>6. LinesKnown(w)'
    BY <1>2, <1>3, <1>6, AtWorker DEF StockInv, LinesKnown, Alone, Trying, Carrying
  <2>7. Untroubled(w)'
    BY <1>2, <1>6, AtWorker DEF StockInv, Untroubled, Alone, UndoLabels
  <2> QED
    BY <2>5, <2>6, <2>7 DEF StockInv
<1>7. (resv[o] # None /\ pc'[w] = "drop_read" /\ resv' = resv)
      \/ (resv[o] = None /\ pc'[w] = "update" /\ resv' = [resv EXCEPT ![o] = want[w]])
  BY AtWorker DEF CreateReservation, Goto
<1> QED
  BY <1>5, <1>6, <1>7

(* What the hash holds is what was taken.                                  *)
LEMMA ReleaseReadKeeps ==
  ASSUME TypeOK, NEW w, Workers = {w}, StockInv(w), ReleaseRead(w)
  PROVE  StockInv(w)'
<1> DEFINE o == cur[w]
<1>1. pc[w] = "drop_read" /\ o \in Orders /\ ~disabled
  BY AtWorker DEF ReleaseRead, StockInv, Untroubled, UndoLabels, Carrying
<1>2. /\ pc' = [pc EXCEPT ![w] = "drop_exec"] /\ want' = [want EXCEPT ![w] = hold[o]]
      /\ cur' = cur /\ left' = left
      /\ UNCHANGED <<items, resv, atp, hold, disabled>>
  BY <1>1 DEF ReleaseRead, Goto, db, valkey
<1>3. hold[o] = want[w]
  BY <1>1 DEF StockInv, LinesKnown, Carrying
<1>4. pc'[w] = "drop_exec" /\ want' = want /\ Alone(w)
  BY <1>2, <1>3, AtWorker DEF Alone
<1>5. Balanced(w)'
  <2>1. \A s \in SKUs : InHand(w, s)' = InHand(w, s)
    BY <1>1, <1>4 DEF InHand, Carrying
  <2> QED
    BY <1>2, <2>1, BalanceKept DEF StockInv
<1>6. LinesKnown(w)'
  BY <1>1, <1>2, <1>4, AtWorker DEF StockInv, LinesKnown, Alone, Trying, Carrying
<1>7. Untroubled(w)'
  BY <1>2, <1>4, AtWorker DEF StockInv, Untroubled, Alone, UndoLabels
<1> QED
  BY <1>5, <1>6, <1>7 DEF StockInv

LEMMA ReleaseExecKeeps ==
  ASSUME TypeOK, NEW w, Workers = {w}, StockInv(w), ReleaseExec(w)
  PROVE  StockInv(w)'
<1> DEFINE o == cur[w]
<1>1. pc[w] = "drop_exec" /\ o \in Orders
  BY AtWorker DEF ReleaseExec, StockInv, Untroubled, UndoLabels, Carrying
<1>2. Return(w) /\ RestoreStock(o, want[w]) /\ UNCHANGED <<items, resv, disabled>>
  BY <1>1 DEF ReleaseExec, db
<1>3. Alone(w) /\ pc'[w] = "idle"
  BY <1>2, AtWorker DEF Return, Alone
<1>4. /\ \A s \in SKUs : atp'[s] = atp[s] + Units(want[w], s)
      /\ hold' = [hold EXCEPT ![o] = NoItems]
  BY <1>2 DEF RestoreStock
<1>5. Balanced(w)'
  <2>1. IsFiniteSet(Reserved) /\ \A s \in SKUs : atp[s] + Allotted(s) + Units(want[w], s) = Stock[s]
    BY <1>1 DEF StockInv, Balanced, InHand, Carrying
  <2>2. Reserved' = Reserved /\ \A s \in SKUs : Allotted(s)' = Allotted(s)
    BY <1>2 DEF Reserved, Allotted
  <2>3. \A s \in SKUs : InHand(w, s)' = 0
    BY <1>3 DEF InHand, Carrying
  <2>4. \A s \in SKUs : atp[s] \in Int /\ Allotted(s) \in Nat /\ Units(want[w], s) \in Nat
    <3>1. want[w] \in Items
      BY AtWorker
    <3> QED
      BY <2>1, <3>1, UnitsType, AtWorker, AllottedType
  <2>5. \A s \in SKUs : atp'[s] + Allotted(s)' + InHand(w, s)' = Stock[s]
    <3> TAKE s \in SKUs
    <3> QED
      BY <1>4, <2>1, <2>2, <2>3, <2>4
  <2> QED
    BY <2>1, <2>2, <2>5 DEF Balanced
<1>6. LinesKnown(w)'
  <2>1. \A q \in Orders : Lines(hold'[q]) \subseteq Lines(hold[q])
    BY <1>1, <1>4, AtWorker DEF Lines, NoItems
  <2> QED
    BY <1>2, <1>3, <2>1, AtWorker DEF StockInv, LinesKnown, Alone, Trying, Carrying
<1>7. Untroubled(w)'
  BY <1>2, <1>3, AtWorker DEF StockInv, Untroubled, Alone, UndoLabels
<1> QED
  BY <1>5, <1>6, <1>7 DEF StockInv

-----------------------------------------------------------------------------
(* Every step is one of those.                                             *)
LEMMA ElsewhereIs ==
  ASSUME TypeOK, NEW w, Workers = {w}, NEW p \in Procs,
         UNCHANGED <<items, resv, atp, hold, disabled>>,
         pc[p] \notin Carrying, NEW l, pc' = [pc EXCEPT ![p] = l],
         l \in {"idle", "list", "clear", "fill", "pop", "payload", "hdel", "lines", "publish",
                "enqueue", "write_row", "clear_q"},
         \A q \in Procs \ {p} : cur'[q] = cur[q] /\ want'[q] = want[q] /\ left'[q] = left[q]
  PROVE  Elsewhere(p)
BY AtWorker DEF Elsewhere, Alone, Trying, Carrying, UndoLabels

LEMMA ReturnElsewhere ==
  ASSUME TypeOK, NEW w, Workers = {w}, NEW p \in Procs,
         UNCHANGED <<items, resv, atp, hold, disabled>>, pc[p] \notin Carrying, Return(p)
  PROVE  Elsewhere(p)
<1>1. \A q \in Procs \ {p} : cur'[q] = cur[q] /\ want'[q] = want[q] /\ left'[q] = left[q]
  BY AtWorker DEF Return
<1> QED
  BY <1>1, ElsewhereIs DEF Return

LEMMA GotoElsewhere ==
  ASSUME TypeOK, NEW w, Workers = {w}, NEW p \in Procs,
         UNCHANGED <<items, resv, atp, hold, disabled, want, left>>,
         \A q \in Procs \ {p} : cur'[q] = cur[q],
         pc[p] \notin Carrying, NEW l, Goto(p, l),
         l \in {"idle", "list", "clear", "fill", "pop", "payload", "hdel", "lines", "publish",
                "enqueue", "write_row", "clear_q"}
  PROVE  Elsewhere(p)
BY ElsewhereIs DEF Goto

StockVars == <<items, resv, atp, hold, disabled, pc, cur, want, left>>

LEMMA RebuildElsewhere ==
  ASSUME TypeOK, NEW w, Workers = {w}, NEW p \in Procs, RebuildWithClients(p)
  PROVE  Elsewhere(p) \/ UNCHANGED StockVars
<1> USE DEF db, valkey, locals, bounds
<1>1. CASE ListPendingOrders(p)
  BY <1>1, GotoElsewhere DEF ListPendingOrders, Carrying
<1>2. CASE RebuildClear(p)
  BY <1>2, GotoElsewhere DEF RebuildClear, AfterList, Carrying
<1>3. CASE RebuildEnqueue(p)
  BY <1>3, GotoElsewhere DEF RebuildEnqueue, AfterList, Carrying
<1>4. CASE ReadPendingClient(p)
  BY <1>4, ReturnElsewhere DEF ReadPendingClient, Carrying, StockVars, vars
<1> QED
  BY <1>1, <1>2, <1>3, <1>4 DEF RebuildWithClients, ListPendingWithClients

LEMMA RequestElsewhere ==
  ASSUME TypeOK, NEW w, Workers = {w}, NEW p \in Procs, OrderRequest(p)
  PROVE  Elsewhere(p)
<1> USE DEF db, valkey, locals, bounds
<1>1. CASE ListQueue(p)
  BY <1>1, GotoElsewhere DEF ListQueue, AfterList, Carrying
<1>2. CASE CancelRead(p)
  <2>1. pc[p] \notin Carrying /\ Goto(p, "write_row")
        /\ UNCHANGED <<items, resv, atp, hold, disabled, want, left>>
    BY <1>2 DEF CancelRead, Carrying
  <2>2. \A q \in Procs \ {p} : cur'[q] = cur[q]
    BY <1>2, AtWorker DEF CancelRead
  <2> QED
    BY <2>1, <2>2, GotoElsewhere
<1> QED
  BY <1>1, <1>2 DEF OrderRequest

LEMMA WorkerStockStep ==
  ASSUME TypeOK, NEW w, Workers = {w}, StockInv(w), ServeWorker(w)
  PROVE  StockInv(w)' \/ UNCHANGED StockVars
<1> USE DEF db, valkey, locals, bounds
<1>1. w \in Procs /\ ~disabled /\ pc[w] \notin UndoLabels
  BY AtWorker DEF StockInv, Untroubled
<1>2. SUFFICES ASSUME ~UNCHANGED StockVars
               PROVE  \/ Elsewhere(w) \/ Further(w)
                      \/ LoadItems(w) \/ ExecReserve(w) \/ CreateReservation(w)
                      \/ ReleaseRead(w) \/ ReleaseExec(w)
  BY <1>1, ElsewhereKeeps, FurtherKeeps, LoadItemsKeeps, ExecReserveKeeps,
     CreateReservationKeeps, ReleaseReadKeeps, ReleaseExecKeeps
<1>3. CASE RebuildWithClients(w)
  BY <1>1, <1>2, <1>3, RebuildElsewhere
<1>4. CASE PopEmpty(w)
  BY <1>1, <1>4, ReturnElsewhere DEF PopEmpty, Carrying
<1>5. CASE PopMin(w)
  <2>1. \A q \in Procs \ {w} : cur'[q] = cur[q]
    BY <1>5, AtWorker DEF PopMin
  <2> QED
    BY <1>1, <1>5, <2>1, GotoElsewhere DEF PopMin, Carrying
<1>6. CASE GetPayload(w)
  BY <1>1, <1>6, GotoElsewhere, ReturnElsewhere DEF GetPayload, Carrying
<1>7. CASE DeletePayload(w)
  BY <1>1, <1>7, GotoElsewhere DEF DeletePayload, Carrying
<1>8. CASE CheckATP(w)
  BY <1>1, <1>8, AtWorker DEF CheckATP, Visit, Goto, Further, Alone, Trying
<1>9. CASE Requeue(w)
  BY <1>1, <1>9, ReturnElsewhere DEF Requeue, Carrying
<1>10. CASE EnterReserve(w)
  BY <1>1, <1>10, AtWorker DEF EnterReserve, Goto, Further, Alone, Trying
<1>11. CASE RecheckATP(w)
  <2>1. CASE Return(w)
    BY <1>1, <1>11, <2>1, ReturnElsewhere DEF RecheckATP, Carrying
  <2>2. ASSUME NEW s \in left[w], Visit(w, s, "exec"), UNCHANGED <<cur, row, want, list>>
        PROVE  Further(w)
    BY <1>1, <1>11, <2>2, AtWorker DEF RecheckATP, Visit, Goto, Further, Alone, Trying
  <2> QED
    BY <1>11, <2>1, <2>2 DEF RecheckATP
<1>12. CASE MarkProcessing(w)
  BY <1>1, <1>12, GotoElsewhere DEF MarkProcessing, Carrying
<1>13. CASE Publish(w)
  <2>1. \A q \in Procs \ {w} : cur'[q] = cur[q] /\ want'[q] = want[q] /\ left'[q] = left[q]
    BY <1>13, AtWorker DEF Publish
  <2> QED
    BY <1>1, <1>13, <2>1, ElsewhereIs DEF Publish, Goto, Carrying
<1>14. CASE DeleteReservation(w)
  BY <1>1, <1>14 DEF DeleteReservation, UndoLabels
<1>15. CASE /\ pc[w] = "publish" /\ Return(w)
            /\ UNCHANGED <<db, valkey, disabled, manifest, bounds, clientVars>>
  BY <1>1, <1>15, ReturnElsewhere DEF Carrying
<1> QED
  BY <1>3, <1>4, <1>5, <1>6, <1>7, <1>8, <1>9, <1>10, <1>11, <1>12, <1>13, <1>14, <1>15
     DEF ServeWorker, Dequeue, AllocateForClient, Allocate

LEMMA ClerkStockStep ==
  ASSUME TypeOK, NEW w, Workers = {w}, StockInv(w), NEW c \in Clerks,
         ServeClerk(c) \/ ClientRequest(c) \/ StatementFails(c) \/ CacheCommandLost(c)
  PROVE  StockInv(w)' \/ UNCHANGED StockVars
<1> USE DEF db, valkey, locals, bounds
<1>1. c \in Procs /\ pc[c] \notin Carrying /\ pc[c] # "patch_items"
  BY AtWorker DEF StockInv, Untroubled, TypeOK, LocalsOK, LabelsOf, RebuildLabels, ClerkLabels, Carrying
<1>2. SUFFICES ASSUME ~UNCHANGED StockVars
               PROVE  Elsewhere(c) \/ CreateOrder(c) \/ CreateOrderItem(c)
  BY <1>1, ElsewhereKeeps, CreateOrderKeeps, CreateOrderItemKeeps
<1>3. CASE RebuildWithClients(c)
  BY <1>1, <1>2, <1>3, RebuildElsewhere
<1>4. CASE WriteRow(c)
  BY <1>1, <1>4, GotoElsewhere DEF WriteRow
<1>5. CASE ClearStaleQueue(c)
  BY <1>1, <1>5, ReturnElsewhere DEF ClearStaleQueue
<1>6. CASE EnqueueNew(c)
  BY <1>1, <1>6, ReturnElsewhere DEF EnqueueNew
<1>7. CASE UpdateClient(c)
  BY <1>1, <1>7, GotoElsewhere DEF UpdateClient
<1>8. CASE CountOrder(c) \/ StatementFails(c)
  <2>1. CASE Return(c) /\ UNCHANGED <<items, resv, atp, hold, disabled>>
    BY <1>1, <2>1, ReturnElsewhere
  <2> QED
    BY <1>2, <1>8, <2>1 DEF CountOrder, StatementFails, StockVars, vars
<1>9. CASE ClientRequest(c) \/ CacheCommandLost(c)
  BY <1>2, <1>9 DEF ClientRequest, ResolveOrCreateClient, VerifyClientAPIKey, GetClient, DeleteClient,
     PatchClient, CreateClient, CacheCommandLost, StockVars, vars
<1>10. CASE \/ GetCachedClientByID(c) \/ ExistsClientByName(c) \/ GetClientByName(c)
            \/ FetchClient(c) \/ InsertClient(c) \/ SaveClient(c) \/ RemoveClient(c)
            \/ ForgetOldName(c) \/ CacheClient(c) \/ DropClient(c)
  BY <1>2, <1>10
     DEF GetCachedClientByID, ExistsClientByName, GetClientByName, FetchClient, InsertClient,
     SaveClient, RemoveClient, ForgetOldName, CacheClient, DropClient, StockVars, vars
<1> QED
  BY <1>2, <1>3, <1>4, <1>5, <1>6, <1>7, <1>8, <1>9, <1>10
     DEF ServeClerk, OrderStep, ClientStep, CreateOrderOfClient, EnqueueCounted, ClearAfterPatch

LEMMA StockStep ==
  ASSUME NEW w, Workers = {w}
  PROVE  TypeOK /\ StockInv(w) /\ [ClientsNext]_allVars => StockInv(w)'
<1> SUFFICES ASSUME TypeOK, StockInv(w), [ClientsNext]_allVars PROVE StockInv(w)'
  OBVIOUS
<1>1. CASE UNCHANGED StockVars
  BY <1>1 DEF StockVars, StockInv, Balanced, Reserved, Allotted, InHand, LinesKnown, Untroubled
<1>2. ASSUME NEW p \in Procs, OrderRequest(p) PROVE StockInv(w)'
  BY <1>2, RequestElsewhere, ElsewhereKeeps
<1>3. CASE Expire \/ UNCHANGED allVars
  BY <1>1, <1>3 DEF Expire, allVars, vars, StockVars
<1> QED
  BY <1>1, <1>2, <1>3, WorkerStockStep, ClerkStockStep DEF ClientsNext

LEMMA StockAtFirst ==
  ASSUME NEW w, Workers = {w}
  PROVE  Init => StockInv(w)
<1> SUFFICES ASSUME Init PROVE StockInv(w)
  OBVIOUS
<1>1. w \in Procs /\ Clerks \subseteq Procs /\ pc = [p \in Procs |-> "idle"]
  BY DEF Init, Procs
<1>2. Reserved = {}
  BY DEF Init, Reserved
<1>3. \A s \in SKUs : Allotted(s) = 0 /\ Stock[s] \in Nat
  BY <1>2, SumEmpty, SalesAssumption DEF Allotted
<1>4. Balanced(w)
  BY <1>1, <1>2, <1>3, FS_EmptySet DEF Balanced, InHand, Carrying, Init
<1>5. LinesKnown(w) /\ Untroubled(w)
  BY <1>1 DEF LinesKnown, Untroubled, Trying, Carrying, UndoLabels, Init, NoItems, Lines
<1> QED
  BY <1>4, <1>5 DEF StockInv

LEMMA StockAtRest ==
  ASSUME NEW w, Workers = {w}
  PROVE  TypeOK /\ StockInv(w) => StockConserved
<1> SUFFICES ASSUME TypeOK, StockInv(w), pc[w] = "idle", NEW s \in SKUs
             PROVE  atp[s] + Allotted(s) = Stock[s]
  BY DEF StockConserved
<1>1. IsFiniteSet(Reserved) /\ atp[s] + Allotted(s) + 0 = Stock[s]
  BY DEF StockInv, Balanced, InHand, Carrying
<1>2. atp[s] \in Int /\ Allotted(s) \in Nat
  BY <1>1, AtWorker, AllottedType
<1> QED
  BY <1>1, <1>2

(* While the one request that runs ProcessQueue rests, the counters of      *)
(* available stock and the reservation rows add up to the stock there was,  *)
(* for any number of orders, clerks and clients: what an allocation took    *)
(* is in a row or was given back, although the same order may be on the     *)
(* queue twice and its lines may still be coming in.                        *)
THEOREM NoStockIsLost == (\E w : Workers = {w}) => (ClientsSpec => []StockConserved)
<1> SUFFICES ASSUME NEW w, Workers = {w} PROVE ClientsSpec => []StockConserved
  OBVIOUS
<1>1. Init => TypeOK /\ OwnershipInv /\ PromisesCovered /\ StockInv(w)
  BY TypesAtFirst, OwnershipInit, NothingPromisedAtFirst, StockAtFirst
<1>2. TypeOK /\ StockInv(w) /\ [ClientsNext]_allVars => StockInv(w)'
  BY StockStep
<1>3. TypeOK /\ StockInv(w) => StockConserved
  BY StockAtRest
<1> QED
  BY <1>1, <1>2, <1>3, OrdersStep, PTL DEF ClientsSpec
=============================================================================
