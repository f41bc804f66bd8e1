----------------------------- MODULE DeficitPool -----------------------------
(***************************************************************************)
(* The deficit pool between the MRP and the SCM service: the RabbitMQ      *)
(* queues system.deficit.pool, .reserved and .dlx, the lock manager that   *)
(* takes a quantity from the pool for a purchase-order line                *)
(* (deficit_lock.go, po_service.go), the readers of the pool               *)
(* (vendor_service.go), the expiry reconciler (rabbitmq.go) and the MRP's  *)
(* consumer of the reserved queue (order_consumer.go).                     *)
(*                                                                         *)
(* A message is a quantity of one SKU.  Here it carries that many units,   *)
(* each with an identity the code does not have: the identities tell which *)
(* published shortage a purchase-order line was bought for.  A queue is a  *)
(* set of messages; the broker may deliver them in any order.              *)
(***************************************************************************)
EXTENDS Integers, FiniteSets

CONSTANTS
    SKUs,         \* components
    Units,        \* units of shortage the MRP may publish
    SkuOf,        \* the SKU of each unit
    Lockers,      \* requests that run AddLineItemWithLock
    MaxRequeues,  \* requeues before a message is dead-lettered (5 in the code)
    MaxReopenings,\* bound: reservations that expire, dead letters copied
    MaxFaults,    \* bound: time-outs, broken links and failed writes
    None          \* no SKU

ASSUME DeficitAssumption ==
    /\ IsFiniteSet(Units)
    /\ SkuOf \in [Units -> SKUs]
    /\ MaxRequeues \in Nat
    /\ MaxReopenings \in Nat
    /\ MaxFaults \in Nat
    /\ None \notin SKUs

VARIABLES
    unpublished,  \* units the MRP has not published yet
    pool,         \* system.deficit.pool
    reserved,     \* system.deficit.reserved, with a TTL of 30 minutes
    dlx,          \* system.deficit.dlx
    peeked,       \* messages PeekPool has got and will put back
    pc,           \* where the request of each locker stands
    sku,          \* the component of the line
    qty,          \* the quantity of the line
    matched,      \* unacknowledged messages of the SKU
    unmatched,    \* unacknowledged messages to be requeued
    waiting,      \* acknowledged messages in their back-off sleep
    taken,        \* the units of the acknowledged matches
    ordered,      \* how many purchase-order lines carry each unit
    booked,       \* units whose reservation was published
    reopened,     \* units put on offer again: reservation expired, or copied
    reopenings,   \* reservations expired and dead letters copied so far
    faults        \* failures so far

queues == <<pool, reserved, dlx, peeked>>
request == <<sku, qty>>
held == <<matched, unmatched, waiting, taken>>
history == <<booked, reopened>>
bounds == <<reopenings, faults>>
vars == <<unpublished, pool, reserved, dlx, peeked, pc, sku, qty, matched, unmatched, waiting,
          taken, ordered, booked, reopened, reopenings, faults>>

-----------------------------------------------------------------------------
Message == [units : SUBSET Units, tries : 0..MaxRequeues]
DeadMessage == [units : SUBSET Units, tries : 0..(MaxRequeues + 1)]
NewMessage(U) == [units |-> U, tries |-> 0]
UnitsIn(M) == UNION {m.units : m \in M}
OfSku(U, s) == \A u \in U : SkuOf[u] = s

Labels == {"idle", "get", "ack", "back", "requeue", "reserve", "done", "line"}

Goto(l, label) == pc' = [pc EXCEPT ![l] = label]

Init ==
    /\ unpublished = Units
    /\ pool = {} /\ reserved = {} /\ dlx = {} /\ peeked = {}
    /\ pc = [l \in Lockers |-> "idle"]
    /\ sku = [l \in Lockers |-> None]
    /\ qty = [l \in Lockers |-> 0]
    /\ matched = [l \in Lockers |-> {}]
    /\ unmatched = [l \in Lockers |-> {}]
    /\ waiting = [l \in Lockers |-> {}]
    /\ taken = [l \in Lockers |-> {}]
    /\ ordered = [u \in Units |-> 0]
    /\ booked = {} /\ reopened = {}
    /\ reopenings = 0 /\ faults = 0

(* The request of l returns: LockDeficit closes its connection, so what is *)
(* in its back-off sleep is published on a closed channel and is gone.     *)
Return(l) ==
    /\ Goto(l, "idle")
    /\ sku' = [sku EXCEPT ![l] = None]
    /\ qty' = [qty EXCEPT ![l] = 0]
    /\ matched' = [matched EXCEPT ![l] = {}]
    /\ unmatched' = [unmatched EXCEPT ![l] = {}]
    /\ waiting' = [waiting EXCEPT ![l] = {}]
    /\ taken' = [taken EXCEPT ![l] = {}]

CountFault == faults < MaxFaults /\ faults' = faults + 1 /\ UNCHANGED reopenings

CountReopening ==
    reopenings < MaxReopenings /\ reopenings' = reopenings + 1 /\ UNCHANGED faults

-----------------------------------------------------------------------------
(***************************************************************************)
(* The MRP publishes a shortage; an operator adds a line to a draft order. *)
(***************************************************************************)
Publish ==
    /\ \E U \in SUBSET unpublished \ {{}}, s \in SKUs :
        /\ OfSku(U, s)
        /\ pool' = pool \cup {NewMessage(U)}
        /\ unpublished' = unpublished \ U
    /\ UNCHANGED <<reserved, dlx, peeked, pc, request, held, ordered, history, bounds>>

AddLineItemWithLock(l) ==
    /\ pc[l] = "idle"
    /\ \E s \in SKUs, n \in 1..Cardinality(Units) :
        /\ sku' = [sku EXCEPT ![l] = s]
        /\ qty' = [qty EXCEPT ![l] = n]
    /\ Goto(l, "get")
    /\ UNCHANGED <<unpublished, queues, held, ordered, history, bounds>>

-----------------------------------------------------------------------------
(***************************************************************************)
(* LockDeficit: get until the matches hold enough or the pool is empty.    *)
(***************************************************************************)
GetMatch(l) ==
    /\ pc[l] = "get"
    /\ \E m \in pool :
        /\ OfSku(m.units, sku[l])
        /\ pool' = pool \ {m}
        /\ matched' = [matched EXCEPT ![l] = @ \cup {m}]
        /\ Goto(l, IF Cardinality(UnitsIn(matched[l] \cup {m})) >= qty[l] THEN "ack" ELSE "get")
    /\ UNCHANGED <<unpublished, reserved, dlx, peeked, request, unmatched, waiting, taken,
                   ordered, history, bounds>>

(* Mutant: a message of another SKU is handed back at once. *)
GetOtherNacked(l) ==
    /\ pc[l] = "get"
    /\ \E m \in pool : ~OfSku(m.units, sku[l])
    /\ UNCHANGED vars

GetOther(l) ==
    /\ pc[l] = "get"
    /\ \E m \in pool :
        /\ ~OfSku(m.units, sku[l])
        /\ pool' = pool \ {m}
        /\ unmatched' = [unmatched EXCEPT ![l] = @ \cup {m}]
    /\ UNCHANGED <<unpublished, reserved, dlx, peeked, pc, request, matched, waiting, taken,
                   ordered, history, bounds>>

GetNothing(l) ==
    /\ pc[l] = "get"
    /\ pool = {}
    /\ unmatched' = [unmatched EXCEPT ![l] = @ \cup matched[l]]
    /\ matched' = [matched EXCEPT ![l] = {}]
    /\ Goto(l, "back")
    /\ UNCHANGED <<unpublished, queues, request, waiting, taken, ordered, history, bounds>>

(* Mutant: the match is requeued instead of acknowledged. *)
NackMatched(l) ==
    /\ pc[l] = "ack"
    /\ \E m \in matched[l] :
        /\ pool' = pool \cup {m}
        /\ matched' = [matched EXCEPT ![l] = @ \ {m}]
        /\ taken' = [taken EXCEPT ![l] = @ \cup m.units]
        /\ Goto(l, IF matched[l] = {m} THEN "requeue" ELSE "ack")
    /\ UNCHANGED <<unpublished, reserved, dlx, peeked, request, unmatched, waiting, ordered,
                   history, bounds>>

AckMatched(l) ==
    /\ pc[l] = "ack"
    /\ \E m \in matched[l] :
        /\ matched' = [matched EXCEPT ![l] = @ \ {m}]
        /\ taken' = [taken EXCEPT ![l] = @ \cup m.units]
        /\ Goto(l, IF matched[l] = {m} THEN "requeue" ELSE "ack")
    /\ UNCHANGED <<unpublished, queues, request, unmatched, waiting, ordered, history, bounds>>

(* Mutant: the count of requeues is never compared with the limit. *)
RequeueForever(l) ==
    /\ pc[l] \in {"requeue", "back"}
    /\ \E m \in unmatched[l] :
        /\ unmatched' = [unmatched EXCEPT ![l] = @ \ {m}]
        /\ waiting' = [waiting EXCEPT ![l] = @ \cup {[m EXCEPT !.tries = @ + 1]}]
    /\ UNCHANGED <<unpublished, queues, pc, request, matched, taken, ordered, history, bounds>>

(* Mutant: the message is copied before it is acknowledged. *)
RequeueUnacked(l) ==
    /\ pc[l] \in {"requeue", "back"}
    /\ \E m \in unmatched[l] : waiting' = [waiting EXCEPT ![l] = @ \cup {m}]
    /\ UNCHANGED <<unpublished, queues, pc, request, matched, unmatched, taken, ordered,
                   history, bounds>>

(* requeueWithBackoff: the message is acknowledged, then dead-lettered or  *)
(* left to a goroutine that sleeps before it publishes.                    *)
RequeueWithBackoff(l) ==
    /\ pc[l] \in {"requeue", "back"}
    /\ \E m \in unmatched[l] :
        LET r == [m EXCEPT !.tries = @ + 1] IN
        /\ unmatched' = [unmatched EXCEPT ![l] = @ \ {m}]
        /\ \/ /\ r.tries > MaxRequeues
              /\ dlx' = dlx \cup {r}
              /\ UNCHANGED waiting
           \/ /\ r.tries <= MaxRequeues
              /\ waiting' = [waiting EXCEPT ![l] = @ \cup {r}]
              /\ UNCHANGED dlx
    /\ UNCHANGED <<unpublished, pool, reserved, peeked, pc, request, matched, taken, ordered,
                   history, bounds>>

Republish(l) ==
    /\ \E m \in waiting[l] :
        /\ pool' = pool \cup {m}
        /\ waiting' = [waiting EXCEPT ![l] = @ \ {m}]
    /\ UNCHANGED <<unpublished, reserved, dlx, peeked, pc, request, matched, unmatched, taken,
                   ordered, history, bounds>>

Insufficient(l) ==
    /\ pc[l] = "back"
    /\ unmatched[l] = {}
    /\ Return(l)
    /\ UNCHANGED <<unpublished, queues, ordered, history, bounds>>

(* Mutant: the rest goes back to the pool and onto the line as well. *)
PublishRemainderAndKeep(l) ==
    /\ pc[l] = "requeue"
    /\ unmatched[l] = {}
    /\ \E U \in SUBSET taken[l] :
        /\ Cardinality(U) = qty[l]
        /\ pool' = IF U = taken[l] THEN pool ELSE pool \cup {NewMessage(taken[l] \ U)}
    /\ Goto(l, "reserve")
    /\ UNCHANGED <<unpublished, reserved, dlx, peeked, request, held, ordered, history, bounds>>

(* What is taken beyond the quantity asked for goes back as a new message. *)
PublishRemainder(l) ==
    /\ pc[l] = "requeue"
    /\ unmatched[l] = {}
    /\ \E U \in SUBSET taken[l] :
        /\ Cardinality(U) = qty[l]
        /\ taken' = [taken EXCEPT ![l] = U]
        /\ pool' = IF U = taken[l] THEN pool ELSE pool \cup {NewMessage(taken[l] \ U)}
    /\ Goto(l, "reserve")
    /\ UNCHANGED <<unpublished, reserved, dlx, peeked, request, matched, unmatched, waiting,
                   ordered, history, bounds>>

PublishToReserved(l) ==
    /\ pc[l] = "reserve"
    /\ reserved' = reserved \cup {NewMessage(taken[l])}
    /\ booked' = booked \cup taken[l]
    /\ Goto(l, "done")
    /\ UNCHANGED <<unpublished, pool, dlx, peeked, request, held, ordered, reopened, bounds>>

(* LockDeficit has seen its goroutine end and returns no error. *)
Locked(l) ==
    /\ pc[l] = "done"
    /\ waiting' = [waiting EXCEPT ![l] = {}]
    /\ Goto(l, "line")
    /\ UNCHANGED <<unpublished, queues, request, matched, unmatched, taken, ordered, history,
                   bounds>>

CreatePOLineItem(l) ==
    /\ pc[l] = "line"
    /\ ordered' = [u \in Units |-> IF u \in taken[l] THEN ordered[u] + 1 ELSE ordered[u]]
    /\ Return(l)
    /\ UNCHANGED <<unpublished, queues, history, bounds>>

-----------------------------------------------------------------------------
(***************************************************************************)
(* The other users of the queues: GetShortageSummary peeks at the whole    *)
(* pool, the MRP acknowledges reservations, the broker expires them, the   *)
(* reconciler moves dead letters back.                                     *)
(***************************************************************************)
Peek ==
    /\ \E m \in pool : pool' = pool \ {m} /\ peeked' = peeked \cup {m}
    /\ UNCHANGED <<unpublished, reserved, dlx, pc, request, held, ordered, history, bounds>>

PutBack ==
    /\ pool = {} /\ peeked # {}
    /\ pool' = peeked /\ peeked' = {}
    /\ UNCHANGED <<unpublished, reserved, dlx, pc, request, held, ordered, history, bounds>>

ConsumeReserved ==
    /\ \E m \in reserved : reserved' = reserved \ {m}
    /\ UNCHANGED <<unpublished, pool, dlx, peeked, pc, request, held, ordered, history, bounds>>

ExpireReserved ==
    /\ CountReopening
    /\ \E m \in reserved :
        /\ reserved' = reserved \ {m}
        /\ dlx' = dlx \cup {m}
        /\ reopened' = reopened \cup m.units
    /\ UNCHANGED <<unpublished, pool, peeked, pc, request, held, ordered, booked>>

Reconcile ==
    /\ \E m \in dlx : dlx' = dlx \ {m} /\ pool' = pool \cup {NewMessage(m.units)}
    /\ UNCHANGED <<unpublished, reserved, peeked, pc, request, held, ordered, history, bounds>>

-----------------------------------------------------------------------------
(* The reconciler publishes before it acknowledges: when its link breaks   *)
(* in between, the dead letter stays and its copy is in the pool.          *)
ReconcileUnacked ==
    /\ CountReopening
    /\ \E m \in dlx :
        /\ pool' = pool \cup {NewMessage(m.units)}
        /\ reopened' = reopened \cup m.units
    /\ UNCHANGED <<unpublished, reserved, dlx, peeked, pc, request, held, ordered, booked>>

(***************************************************************************)
(* Failures.  LockDeficit gives up when 5 seconds are over, when its       *)
(* caller goes away or when its link breaks; closing the connection hands  *)
(* the unacknowledged messages back to the pool.                           *)
(***************************************************************************)
GiveUp(l) ==
    /\ pc[l] \notin {"idle", "line"}
    /\ CountFault
    /\ pool' = pool \cup matched[l] \cup unmatched[l]
    /\ Return(l)
    /\ UNCHANGED <<unpublished, reserved, dlx, peeked, ordered, history>>

LineFails(l) ==
    /\ pc[l] = "line"
    /\ CountFault
    /\ Return(l)
    /\ UNCHANGED <<unpublished, queues, ordered, history>>

-----------------------------------------------------------------------------
LockStep(l) ==
    \/ GetMatch(l) \/ GetOther(l) \/ GetNothing(l) \/ AckMatched(l)
    \/ RequeueWithBackoff(l) \/ Insufficient(l)
    \/ PublishRemainder(l) \/ PublishToReserved(l) \/ Locked(l) \/ CreatePOLineItem(l)

Next ==
    \/ Publish
    \/ \E l \in Lockers :
        AddLineItemWithLock(l) \/ LockStep(l) \/ Republish(l) \/ GiveUp(l) \/ LineFails(l)
    \/ Peek \/ PutBack \/ ConsumeReserved \/ ExpireReserved
    \/ Reconcile \/ ReconcileUnacked

Spec == Init /\ [][Next]_vars

(* The runtime keeps running the goroutine of a request.  Neither the      *)
(* sleep of a requeue nor any other user of the pool is made to proceed.   *)
FairSpec == Spec /\ \A l \in Lockers : WF_vars(LockStep(l))

-----------------------------------------------------------------------------
(***************************************************************************)
(* Properties.                                                             *)
(***************************************************************************)
(* Every variable has its type; no message outside the dead letters has     *)
(* been requeued more often than allowed.                                  *)
TypeOK ==
    /\ unpublished \in SUBSET Units
    /\ pool \in SUBSET Message
    /\ reserved \in SUBSET Message
    /\ dlx \in SUBSET DeadMessage
    /\ peeked \in SUBSET Message
    /\ pc \in [Lockers -> Labels]
    /\ sku \in [Lockers -> SKUs \cup {None}]
    /\ qty \in [Lockers -> 0..Cardinality(Units)]
    /\ matched \in [Lockers -> SUBSET Message]
    /\ unmatched \in [Lockers -> SUBSET Message]
    /\ waiting \in [Lockers -> SUBSET Message]
    /\ taken \in [Lockers -> SUBSET Units]
    /\ ordered \in [Units -> Nat]
    /\ booked \in SUBSET Units
    /\ reopened \in SUBSET Units
    /\ reopenings \in 0..MaxReopenings
    /\ faults \in 0..MaxFaults

(* However requests, time-outs and requeues interleave, no shortage is     *)
(* bought on two purchase-order lines unless its reservation expired or    *)
(* the reconciler failed to acknowledge its dead letter (scm-docs.md:26,   *)
(* "to prevent double-buying").                                            *)
NoDoubleBuying == \A u \in Units : ordered[u] > 1 => u \in reopened

(***************************************************************************)
(* The inductive invariant behind it.  A slot is a set of messages: a      *)
(* queue, or what a request holds.                                         *)
(***************************************************************************)
Slots ==
    ({"pool", "dlx", "peeked"} \X {None}) \cup ({"matched", "unmatched", "waiting"} \X Lockers)

Stored(x) ==
    CASE x[1] = "pool" -> pool
      [] x[1] = "dlx" -> dlx
      [] x[1] = "peeked" -> peeked
      [] x[1] = "matched" -> matched[x[2]]
      [] x[1] = "unmatched" -> unmatched[x[2]]
      [] x[1] = "waiting" -> waiting[x[2]]

InOneMessage(u) ==
    \A x, y \in Slots : \A m \in Stored(x), n \in Stored(y) :
        u \in m.units /\ u \in n.units => x = y /\ m = n

Stocked(u) == \E x \in Slots : \E m \in Stored(x) : u \in m.units

TakenOnce(u) == \A l, k \in Lockers : u \in taken[l] /\ u \in taken[k] => l = k

(* Until it is put on offer again, a unit is in one place: unpublished, in  *)
(* one message of one queue or request, taken by one request, or on a line.*)
OnePlace ==
    \A u \in Units \ reopened :
        /\ InOneMessage(u)
        /\ TakenOnce(u)
        /\ u \in unpublished => ~Stocked(u)
        /\ \A l \in Lockers : u \in taken[l] => u \notin unpublished /\ ~Stocked(u)
        /\ \/ ordered[u] = 0
           \/ /\ ordered[u] = 1
              /\ u \notin unpublished
              /\ ~Stocked(u)
              /\ \A l \in Lockers : u \notin taken[l]

(* The units of a line are exactly as many as asked for, all of its SKU,   *)
(* whatever partial messages were gathered for it.                         *)
ExactLock ==
    \A l \in Lockers :
        pc[l] \in {"reserve", "done", "line"} =>
            Cardinality(taken[l]) = qty[l] /\ OfSku(taken[l], sku[l])

(* LockDeficit answers: it does not get the same messages for ever.        *)
LockReturns == \A l \in Lockers : pc[l] # "idle" ~> pc[l] = "idle"

(* "requeueWithBackoff requeues a message with exponential backoff and     *)
(* dead-lettering" (deficit_lock.go): when no request is running, every    *)
(* shortage published is in the pool, dead-lettered or was reserved.       *)
RequeuedNotLost ==
    (\A l \in Lockers : pc[l] = "idle") =>
        Units \ unpublished \subseteq UnitsIn(pool \cup dlx \cup peeked) \cup booked
=============================================================================
