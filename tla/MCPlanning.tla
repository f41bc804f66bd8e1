----------------------------- MODULE MCPlanning -----------------------------
(* Instances of Planning, with its views, for TLC. *)
EXTENDS DemandViews, TLC

CONSTANTS m1, p1, v1, e1, e2

OnePerUnit == [b \in Builds |-> [p \in Parts |-> 1]]
OneSupplier == [p \in Parts |-> v1]
(* The first event has an item without a build, the others one too large. *)
Items == [e \in Events |->
            IF e = e1 THEN <<[build |-> None, qty |-> 1], [build |-> m1, qty |-> 2]>>
            ELSE <<[build |-> m1, qty |-> MaxQty + 1]>>]
OneQueue == [e \in Events |-> "created"]

Alike == Permutations(Requests)

(* Two requests in all, on the first two purchase orders; more of both      *)
(* where no event was sent, if all are about purchase orders and nothing is *)
(* in stock.  At the start there is nothing in stock, or enough.            *)
Unsent == \A e \in Events : event[e] = "unsent"
OnlyPurchases ==
    /\ Unsent /\ \A p \in Parts : stock[p] = 0
    /\ cache.matrix = None /\ cache.metrics = None
    /\ \A r \in Requests : req[r].kind \in {"none", "draft", "state"}
TwoPartsNext ==
    \/ calls < 2 /\ \E r \in Requests : Request(r)
    \/ \E r \in Requests : \E e \in Events : Deliver(r, e)
    \/ OnlyPurchases /\ \E r \in Requests : \E v \in Vendors : DraftByHand(r, v)
    \/ OnlyPurchases /\ \E r \in Requests : \E n \in PONumbers, s \in Status : TransitionState(r, n, s)
    \/ \E r \in Requests : Step(r) \/ CallFails(r)
    \/ \E o \in Ids : ExpireRow(o)
    \/ ExpireMatrix
    \/ ExpireMetrics
    \/ \E v \in Vendors : \E n \in 1..2 : calls < 2 /\ PlacePO(v, n)
    \/ OnlyPurchases /\ \E v \in Vendors, n \in PONumbers : PlacePO(v, n)
    \/ \E n \in PONumbers, s \in {"Partial", "Received"} : SaveReceived(n, s)
    \/ \E p \in Parts : ReceiveOrUse(p)
    \/ Crash
TwoPartsInit == Init /\ \A p \in Parts : stock[p] \in {0, MaxStock}
TwoParts == TwoPartsInit /\ [][TwoPartsNext]_vars
=============================================================================
