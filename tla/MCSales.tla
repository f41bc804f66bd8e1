------------------------------ MODULE MCSales ------------------------------
(* Instances of Sales for TLC. *)
EXTENDS Sales, TLC
CONSTANTS s1, s2, c1, c2
StockOne == [s \in SKUs |-> 1]
Requests == Permutations(Workers)

(* The clerk c2 only edits an order of which c1 is writing the lines.  Once *)
(* it has, c1 does nothing but end its request and nothing fails; with an   *)
(* edit by c1 one thing may fail, without any edit two.  The queue is only  *)
(* cleared and listed by c1 before the second of these.                     *)
OneRow == \A o \in Orders, s \in SKUs : items[o][<<s, "created">>] = 0 \/ items[o][<<s, "edited">>] = 0
OneClerk == OneRow /\ pc[c2] = "idle"
EditedByTwoNext ==
    \/ \E w \in Workers : ListQueue(w) \/ WorkerStep(w)
    \/ \E c \in Clerks : ClerkStep(c)
    \/ OneClerk /\ (CreateOrder(c1) \/ CancelRead(c1))
    \/ OneClerk /\ faults + patches <= 1 /\ (ListQueue(c1) \/ UpdateClient(c1) \/ Fail)
    \/ OneClerk /\ faults <= 1 /\ PatchRead(c1)
    \/ faults = 0 /\ pc[c1] = "line" /\ PatchRead(c2)
EditedByTwo == Init /\ [][EditedByTwoNext]_vars
=============================================================================
