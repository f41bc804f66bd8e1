------------------------- MODULE DeficitPool_proofs -------------------------
(***************************************************************************)
(* Proofs about the deficit pool, for any number of units, components,     *)
(* requests, requeues, reopenings and failures.                              *)
(***************************************************************************)
EXTENDS DeficitPool, FiniteSetTheorems, TLAPS

-----------------------------------------------------------------------------
(***************************************************************************)
(* Type correctness.                                                       *)
(***************************************************************************)
LEMMA NewMessageType == \A U \in SUBSET Units : NewMessage(U) \in Message
  BY DeficitAssumption DEF NewMessage, Message

LEMMA ReturnKeepsTypes ==
  ASSUME TypeOK, NEW l \in Lockers, Return(l)
  PROVE  /\ pc' \in [Lockers -> Labels]
         /\ sku' \in [Lockers -> SKUs \cup {None}]
         /\ qty' \in [Lockers -> 0..Cardinality(Units)]
         /\ matched' \in [Lockers -> SUBSET Message]
         /\ unmatched' \in [Lockers -> SUBSET Message]
         /\ waiting' \in [Lockers -> SUBSET Message]
         /\ taken' \in [Lockers -> SUBSET Units]
<1>1. Cardinality(Units) \in Nat
  BY FS_CardinalityType, DeficitAssumption
<1> QED
  BY <1>1 DEF TypeOK, Return, Goto, Labels

LEMMA TypeInit == Init => TypeOK
<1>1. Cardinality(Units) \in Nat
  BY FS_CardinalityType, DeficitAssumption
<1> QED
  BY <1>1, DeficitAssumption DEF Init, TypeOK, Labels

LEMMA TypeStep == TypeOK /\ [Next]_vars => TypeOK'
<1> SUFFICES ASSUME TypeOK, [Next]_vars PROVE TypeOK'
  OBVIOUS
<1> USE DeficitAssumption DEF TypeOK, queues, request, held, history, bounds, Goto, Labels
<1>1. CASE Publish
  BY <1>1, NewMessageType DEF Publish
<1>2. ASSUME NEW l \in Lockers, AddLineItemWithLock(l) PROVE TypeOK'
  <2>1. Cardinality(Units) \in Nat
    BY FS_CardinalityType
  <2> QED
    BY <1>2, <2>1 DEF AddLineItemWithLock
<1>3. ASSUME NEW l \in Lockers, GetMatch(l) PROVE TypeOK'
  BY <1>3 DEF GetMatch
<1>4. ASSUME NEW l \in Lockers, GetOther(l) PROVE TypeOK'
  BY <1>4 DEF GetOther
<1>5. ASSUME NEW l \in Lockers, GetNothing(l) PROVE TypeOK'
  BY <1>5 DEF GetNothing
<1>6. ASSUME NEW l \in Lockers, AckMatched(l) PROVE TypeOK'
  <2>1. \A m \in Message : m.units \in SUBSET Units
    BY DEF Message
  <2> QED
    BY <1>6, <2>1 DEF AckMatched
<1>7. ASSUME NEW l \in Lockers, RequeueWithBackoff(l) PROVE TypeOK'
  <2> DEFINE r(m) == [m EXCEPT !.tries = @ + 1]
  <2>1. \A m \in Message : r(m) \in DeadMessage /\ (r(m).tries <= MaxRequeues => r(m) \in Message)
    BY DEF Message, DeadMessage
  <2>2. PICK m \in unmatched[l] :
          /\ unmatched' = [unmatched EXCEPT ![l] = @ \ {m}]
          /\ \/ dlx' = dlx \cup {r(m)} /\ UNCHANGED waiting
             \/ /\ r(m).tries <= MaxRequeues
                /\ waiting' = [waiting EXCEPT ![l] = @ \cup {r(m)}]
                /\ UNCHANGED dlx
    BY <1>7 DEF RequeueWithBackoff
  <2> HIDE DEF r
  <2>3. m \in Message
    BY <2>2
  <2> QED
    BY <1>7, <2>1, <2>2, <2>3 DEF RequeueWithBackoff
<1>8. ASSUME NEW l \in Lockers, Republish(l) PROVE TypeOK'
  BY <1>8 DEF Republish
<1>9. ASSUME NEW l \in Lockers, Insufficient(l) PROVE TypeOK'
  BY <1>9, ReturnKeepsTypes DEF Insufficient
<1>10. ASSUME NEW l \in Lockers, PublishRemainder(l) PROVE TypeOK'
  BY <1>10, NewMessageType DEF PublishRemainder
<1>11. ASSUME NEW l \in Lockers, PublishToReserved(l) PROVE TypeOK'
  BY <1>11, NewMessageType DEF PublishToReserved
<1>12. ASSUME NEW l \in Lockers, Locked(l) PROVE TypeOK'
  BY <1>12 DEF Locked
<1>13. ASSUME NEW l \in Lockers, CreatePOLineItem(l) PROVE TypeOK'
  BY <1>13, ReturnKeepsTypes DEF CreatePOLineItem
<1>14. ASSUME NEW l \in Lockers, GiveUp(l) \/ LineFails(l) PROVE TypeOK'
  BY <1>14, ReturnKeepsTypes DEF GiveUp, LineFails, CountFault
<1>15. CASE Peek \/ PutBack \/ ConsumeReserved
  BY <1>15 DEF Peek, PutBack, ConsumeReserved
<1>16. CASE ExpireReserved
  <2>1. \A m \in Message : m.units \in SUBSET Units /\ m \in DeadMessage
    BY DEF Message, DeadMessage
  <2> QED
    BY <1>16, <2>1 DEF ExpireReserved, CountReopening
<1>17. CASE Reconcile
  <2>1. \A m \in DeadMessage : m.units \in SUBSET Units
    BY DEF DeadMessage
  <2> QED
    BY <1>17, <2>1, NewMessageType DEF Reconcile
<1>18. CASE ReconcileUnacked
  <2>1. \A m \in DeadMessage : m.units \in SUBSET Units
    BY DEF DeadMessage
  <2> QED
    BY <1>18, <2>1, NewMessageType DEF ReconcileUnacked, CountReopening
<1>19. CASE UNCHANGED vars
  BY <1>19 DEF vars
<1> QED
  BY <1>1, <1>2, <1>3, <1>4, <1>5, <1>6, <1>7, <1>8, <1>9, <1>10, <1>11, <1>12, <1>13, <1>14,
     <1>15, <1>16, <1>17, <1>18, <1>19 DEF Next, LockStep

(* The queues, requests and lines keep their types. *)
THEOREM TypeCorrect == Spec => []TypeOK
  BY TypeInit, TypeStep, PTL DEF Spec

-----------------------------------------------------------------------------
(***************************************************************************)
(* One place per unit.  The first lemma covers every step that only moves  *)
(* or drops messages; the others create a message, take its units out, or  *)
(* put them on a line.                                                     *)
(***************************************************************************)
Pool == <<"pool", None>>
Dlx == <<"dlx", None>>
Peeked == <<"peeked", None>>
Matched(l) == <<"matched", l>>
Unmatched(l) == <<"unmatched", l>>
Waiting(l) == <<"waiting", l>>

(* What each slot holds. *)
Holdings ==
  /\ Stored(Pool) = pool /\ Stored(Dlx) = dlx /\ Stored(Peeked) = peeked
  /\ \A l \in Lockers :
      /\ Stored(Matched(l)) = matched[l]
      /\ Stored(Unmatched(l)) = unmatched[l]
      /\ Stored(Waiting(l)) = waiting[l]

LEMMA SlotFacts ==
  /\ Pool \in Slots /\ Dlx \in Slots /\ Peeked \in Slots
  /\ \A l \in Lockers : Matched(l) \in Slots /\ Unmatched(l) \in Slots /\ Waiting(l) \in Slots
  /\ \A x \in Slots :
      \/ x \in {Pool, Dlx, Peeked}
      \/ \E l \in Lockers : x \in {Matched(l), Unmatched(l), Waiting(l)}
  BY DEF Slots, Pool, Dlx, Peeked, Matched, Unmatched, Waiting

LEMMA SlotsDiffer ==
  /\ Pool # Dlx /\ Pool # Peeked /\ Dlx # Peeked
  /\ \A l, k : /\ {Matched(l), Unmatched(l), Waiting(l)} \cap {Pool, Dlx, Peeked} = {}
               /\ Matched(l) # Unmatched(k) /\ Matched(l) # Waiting(k) /\ Unmatched(l) # Waiting(k)
               /\ Matched(l) = Matched(k) => l = k
               /\ Unmatched(l) = Unmatched(k) => l = k
               /\ Waiting(l) = Waiting(k) => l = k
  BY DEF Pool, Dlx, Peeked, Matched, Unmatched, Waiting

LEMMA Held == Holdings
  BY DEF Holdings, Stored, Pool, Dlx, Peeked, Matched, Unmatched, Waiting

LEMMA HeldNext == Holdings'
  BY Held, PTL

LEMMA Relocate ==
  ASSUME OnePlace,
         unpublished' \subseteq unpublished, ordered' = ordered, reopened \subseteq reopened',
         \A l \in Lockers : taken'[l] \subseteq taken[l],
         \A u \in Units \ reopened' :
            /\ Stocked(u)' => Stocked(u)
            /\ InOneMessage(u) => InOneMessage(u)'
  PROVE  OnePlace'
  BY DEF OnePlace, TakenOnce

LEMMA MoveOne ==
  ASSUME NEW a \in Slots, NEW b \in Slots, a # b,
         NEW m \in Stored(a), NEW n, n.units = m.units,
         \A x \in Slots : Stored(x)' = IF x = a THEN Stored(x) \ {m}
                                       ELSE IF x = b THEN Stored(x) \cup {n} ELSE Stored(x)
  PROVE  \A u : /\ Stocked(u)' => Stocked(u)
                /\ InOneMessage(u) => InOneMessage(u)'
<1> TAKE u
<1>1. Stocked(u)' => Stocked(u)
  BY DEF Stocked
<1>2. ASSUME InOneMessage(u),
             NEW x \in Slots, NEW y \in Slots, NEW p \in Stored(x)', NEW q \in Stored(y)',
             u \in p.units, u \in q.units
      PROVE  x = y /\ p = q
  <2>1. \A z \in Slots : \A r \in Stored(z)' :
          \/ z = b /\ r = n
          \/ r \in Stored(z) /\ ~(z = a /\ r = m)
    OBVIOUS
  <2>2. CASE x = b /\ p = n
    BY <1>2, <2>1, <2>2 DEF InOneMessage
  <2>3. CASE y = b /\ q = n
    BY <1>2, <2>1, <2>3 DEF InOneMessage
  <2>4. CASE ~(x = b /\ p = n) /\ ~(y = b /\ q = n)
    BY <1>2, <2>1, <2>4 DEF InOneMessage
  <2> QED
    BY <2>2, <2>3, <2>4
<1> QED
  BY <1>1, <1>2 DEF InOneMessage

LEMMA OnlyLess ==
  ASSUME \A x \in Slots : Stored(x)' \subseteq Stored(x)
  PROVE  \A u : (Stocked(u)' => Stocked(u)) /\ (InOneMessage(u) => InOneMessage(u)')
<1>1. \A u : Stocked(u)' => Stocked(u)
  BY DEF Stocked
<1>2. ASSUME NEW u, InOneMessage(u),
             NEW x \in Slots, NEW y \in Slots, NEW p \in Stored(x)', NEW q \in Stored(y)',
             u \in p.units, u \in q.units
      PROVE  x = y /\ p = q
  <2>1. p \in Stored(x) /\ q \in Stored(y)
    OBVIOUS
  <2> QED
    BY <1>2, <2>1 DEF InOneMessage
<1> QED
  BY <1>1, <1>2 DEF InOneMessage

(* All of some slots goes to another slot; the others can only lose. *)
LEMMA MoveAll ==
  ASSUME NEW A \in SUBSET Slots, NEW b \in Slots, b \notin A,
         \A x \in A : Stored(x)' = {},
         \A x \in Slots \ (A \cup {b}) : Stored(x)' \subseteq Stored(x),
         \A p \in Stored(b)' : p \in Stored(b) \/ \E a \in A : p \in Stored(a)
  PROVE  \A u : /\ Stocked(u)' => Stocked(u)
                /\ InOneMessage(u) => InOneMessage(u)'
<1> TAKE u
<1>1. \A x \in Slots : \A p \in Stored(x)' :
        \E v \in Slots : p \in Stored(v) /\ ((v = x /\ x \notin A) \/ (x = b /\ v \in A))
  <2> TAKE x \in Slots
  <2> TAKE p \in Stored(x)'
  <2>1. CASE x \in A
    BY <2>1
  <2>2. CASE x = b
    <3>1. p \in Stored(b)'
      BY <2>2
    <3>2. p \in Stored(b) \/ \E a \in A : p \in Stored(a)
      BY <3>1
    <3> QED
      BY <2>2, <3>2
  <2>3. CASE x \in Slots \ (A \cup {b})
    <3>1. p \in Stored(x) /\ x \notin A
      BY <2>3
    <3> QED
      BY <3>1
  <2> QED
    BY <2>1, <2>2, <2>3
<1>2. Stocked(u)' => Stocked(u)
  BY <1>1 DEF Stocked
<1>3. ASSUME InOneMessage(u),
             NEW x \in Slots, NEW y \in Slots, NEW p \in Stored(x)', NEW q \in Stored(y)',
             u \in p.units, u \in q.units
      PROVE  x = y /\ p = q
  <2>1. PICK v \in Slots : p \in Stored(v) /\ ((v = x /\ x \notin A) \/ (x = b /\ v \in A))
    BY <1>1
  <2>2. PICK w \in Slots : q \in Stored(w) /\ ((w = y /\ y \notin A) \/ (y = b /\ w \in A))
    BY <1>1
  <2>3. v = w /\ p = q
    BY <1>3, <2>1, <2>2 DEF InOneMessage
  <2> QED
    BY <2>1, <2>2, <2>3
<1> QED
  BY <1>2, <1>3 DEF InOneMessage

(* A message of units that are in no slot, or were reopened, is added. *)
LEMMA AddOne ==
  ASSUME NEW b \in Slots, NEW n,
         \A x \in Slots : Stored(x)' = IF x = b THEN Stored(x) \cup {n} ELSE Stored(x)
  PROVE  \A u : /\ Stocked(u)' => Stocked(u) \/ u \in n.units
                /\ InOneMessage(u) /\ (u \in n.units => ~Stocked(u)) => InOneMessage(u)'
<1> TAKE u
<1>1. Stocked(u)' => Stocked(u) \/ u \in n.units
  BY DEF Stocked
<1>2. ASSUME InOneMessage(u), u \in n.units => ~Stocked(u),
             NEW x \in Slots, NEW y \in Slots, NEW p \in Stored(x)', NEW q \in Stored(y)',
             u \in p.units, u \in q.units
      PROVE  x = y /\ p = q
  <2>1. \A z \in Slots : \A r \in Stored(z)' : (z = b /\ r = n) \/ r \in Stored(z)
    OBVIOUS
  <2>2. CASE u \in n.units
    BY <1>2, <2>1, <2>2 DEF Stocked
  <2>3. CASE u \notin n.units
    BY <1>2, <2>1, <2>3 DEF InOneMessage
  <2> QED
    BY <2>2, <2>3
<1> QED
  BY <1>1, <1>2 DEF InOneMessage

LEMMA OnePlaceInit == Init => OnePlace
<1> SUFFICES ASSUME Init PROVE OnePlace
  OBVIOUS
<1>1. \A x \in Slots : Stored(x) = {}
  BY SlotFacts, Held DEF Holdings, Init
<1> QED
  BY <1>1 DEF OnePlace, InOneMessage, TakenOnce, Stocked, Init

LEMMA GetMatchKeeps ==
  ASSUME TypeOK, OnePlace, NEW l \in Lockers, GetMatch(l) PROVE OnePlace'
<1>1. PICK m \in pool :
        /\ pool' = pool \ {m}
        /\ matched' = [matched EXCEPT ![l] = @ \cup {m}]
  BY DEF GetMatch
<1>2. \A x \in Slots : Stored(x)' = IF x = Pool THEN Stored(x) \ {m}
                                    ELSE IF x = Matched(l) THEN Stored(x) \cup {m} ELSE Stored(x)
  BY <1>1, SlotFacts, SlotsDiffer, Held, HeldNext DEF GetMatch, Holdings, TypeOK
<1>3. \A u : (Stocked(u)' => Stocked(u)) /\ (InOneMessage(u) => InOneMessage(u)')
  <2>1. Pool \in Slots /\ Matched(l) \in Slots /\ Pool # Matched(l) /\ m \in Stored(Pool)
    BY SlotFacts, SlotsDiffer, Held DEF Holdings
  <2> QED
    BY <2>1, <1>2, MoveOne
<1> QED
  BY <1>3, Relocate DEF GetMatch, history

LEMMA GetOtherKeeps ==
  ASSUME TypeOK, OnePlace, NEW l \in Lockers, GetOther(l) PROVE OnePlace'
<1>1. PICK m \in pool :
        /\ pool' = pool \ {m}
        /\ unmatched' = [unmatched EXCEPT ![l] = @ \cup {m}]
  BY DEF GetOther
<1>2. Pool \in Slots /\ Unmatched(l) \in Slots /\ Pool # Unmatched(l) /\ m \in Stored(Pool)
  BY SlotFacts, SlotsDiffer, Held DEF Holdings
<1>3. \A x \in Slots : Stored(x)' = IF x = Pool THEN Stored(x) \ {m}
                                    ELSE IF x = Unmatched(l) THEN Stored(x) \cup {m} ELSE Stored(x)
  BY <1>1, SlotFacts, SlotsDiffer, Held, HeldNext DEF GetOther, Holdings, TypeOK
<1>4. \A u : (Stocked(u)' => Stocked(u)) /\ (InOneMessage(u) => InOneMessage(u)')
  BY <1>2, <1>3, MoveOne
<1> QED
  BY <1>4, Relocate DEF GetOther, history

LEMMA GetNothingKeeps ==
  ASSUME TypeOK, OnePlace, NEW l \in Lockers, GetNothing(l) PROVE OnePlace'
<1>1. {Matched(l)} \in SUBSET Slots /\ Unmatched(l) \in Slots /\ Unmatched(l) \notin {Matched(l)}
  BY SlotFacts, SlotsDiffer
<1>2. /\ \A x \in {Matched(l)} : Stored(x)' = {}
      /\ \A x \in Slots \ ({Matched(l)} \cup {Unmatched(l)}) : Stored(x)' \subseteq Stored(x)
      /\ \A p \in Stored(Unmatched(l))' :
            p \in Stored(Unmatched(l)) \/ \E a \in {Matched(l)} : p \in Stored(a)
  BY SlotFacts, SlotsDiffer, Held, HeldNext DEF GetNothing, queues, Holdings, TypeOK
<1>3. \A u : (Stocked(u)' => Stocked(u)) /\ (InOneMessage(u) => InOneMessage(u)')
  BY <1>1, <1>2, MoveAll
<1> QED
  BY <1>3, Relocate DEF GetNothing, history

LEMMA RequeueKeeps ==
  ASSUME TypeOK, OnePlace, NEW l \in Lockers, RequeueWithBackoff(l) PROVE OnePlace'
<1> DEFINE r(m) == [m EXCEPT !.tries = @ + 1]
<1>1. PICK m \in unmatched[l] :
        /\ unmatched' = [unmatched EXCEPT ![l] = @ \ {m}]
        /\ \/ dlx' = dlx \cup {r(m)} /\ UNCHANGED waiting
           \/ waiting' = [waiting EXCEPT ![l] = @ \cup {r(m)}] /\ UNCHANGED dlx
  BY DEF RequeueWithBackoff
<1>2. r(m).units = m.units
  BY <1>1 DEF TypeOK, Message
<1> HIDE DEF r
<1>3. PICK b \in {Dlx, Waiting(l)} :
        \A x \in Slots : Stored(x)' = IF x = Unmatched(l) THEN Stored(x) \ {m}
                                      ELSE IF x = b THEN Stored(x) \cup {r(m)} ELSE Stored(x)
  <2>1. CASE dlx' = dlx \cup {r(m)} /\ UNCHANGED waiting
    <3> SUFFICES \A x \in Slots : Stored(x)' = IF x = Unmatched(l) THEN Stored(x) \ {m}
                                 ELSE IF x = Dlx THEN Stored(x) \cup {r(m)} ELSE Stored(x)
      OBVIOUS
    <3> QED
      BY <1>1, <2>1, SlotFacts, SlotsDiffer, Held, HeldNext
         DEF RequeueWithBackoff, Holdings, TypeOK
  <2>2. CASE waiting' = [waiting EXCEPT ![l] = @ \cup {r(m)}] /\ UNCHANGED dlx
    <3> SUFFICES \A x \in Slots : Stored(x)' = IF x = Unmatched(l) THEN Stored(x) \ {m}
                                 ELSE IF x = Waiting(l) THEN Stored(x) \cup {r(m)} ELSE Stored(x)
      OBVIOUS
    <3> QED
      BY <1>1, <2>2, SlotFacts, SlotsDiffer, Held, HeldNext
         DEF RequeueWithBackoff, Holdings, TypeOK
  <2> QED
    BY <1>1, <2>1, <2>2
<1>4. Unmatched(l) \in Slots /\ b \in Slots /\ Unmatched(l) # b /\ m \in Stored(Unmatched(l))
  <2>1. b \in {Dlx, Waiting(l)}
    BY <1>3
  <2>2. m \in Stored(Unmatched(l))
    BY <1>1, Held DEF Holdings
  <2>3. Unmatched(l) # b
    BY <2>1, SlotsDiffer
  <2> QED
    BY <2>1, <2>2, <2>3, SlotFacts
<1>5. \A u : (Stocked(u)' => Stocked(u)) /\ (InOneMessage(u) => InOneMessage(u)')
  BY <1>2, <1>3, <1>4, MoveOne
<1> QED
  BY <1>5, Relocate DEF RequeueWithBackoff, history

LEMMA RepublishKeeps ==
  ASSUME TypeOK, OnePlace, NEW l \in Lockers, Republish(l) PROVE OnePlace'
<1>1. PICK m \in waiting[l] :
        pool' = pool \cup {m} /\ waiting' = [waiting EXCEPT ![l] = @ \ {m}]
  BY DEF Republish
<1>2. Waiting(l) \in Slots /\ Pool \in Slots /\ Waiting(l) # Pool /\ m \in Stored(Waiting(l))
  BY SlotFacts, SlotsDiffer, Held DEF Holdings
<1>3. \A x \in Slots : Stored(x)' = IF x = Waiting(l) THEN Stored(x) \ {m}
                                    ELSE IF x = Pool THEN Stored(x) \cup {m} ELSE Stored(x)
  BY <1>1, SlotFacts, SlotsDiffer, Held, HeldNext DEF Republish, Holdings, TypeOK
<1>4. \A u : (Stocked(u)' => Stocked(u)) /\ (InOneMessage(u) => InOneMessage(u)')
  BY <1>2, <1>3, MoveOne
<1> QED
  BY <1>4, Relocate DEF Republish, history

LEMMA PeekKeeps ==
  ASSUME OnePlace, Peek PROVE OnePlace'
<1>1. PICK m \in pool : pool' = pool \ {m} /\ peeked' = peeked \cup {m}
  BY DEF Peek
<1>2. Pool \in Slots /\ Peeked \in Slots /\ Pool # Peeked /\ m \in Stored(Pool)
  BY SlotFacts, SlotsDiffer, Held DEF Holdings
<1>3. \A x \in Slots : Stored(x)' = IF x = Pool THEN Stored(x) \ {m}
                                    ELSE IF x = Peeked THEN Stored(x) \cup {m} ELSE Stored(x)
  BY <1>1, SlotFacts, SlotsDiffer, Held, HeldNext DEF Peek, held, Holdings
<1>4. \A u : (Stocked(u)' => Stocked(u)) /\ (InOneMessage(u) => InOneMessage(u)')
  BY <1>2, <1>3, MoveOne
<1> QED
  BY <1>4, Relocate DEF Peek, history, held

LEMMA PutBackKeeps ==
  ASSUME OnePlace, PutBack PROVE OnePlace'
<1>1. {Peeked} \in SUBSET Slots /\ Pool \in Slots /\ Pool \notin {Peeked}
  BY SlotFacts, SlotsDiffer
<1>2. /\ \A x \in {Peeked} : Stored(x)' = {}
      /\ \A x \in Slots \ ({Peeked} \cup {Pool}) : Stored(x)' \subseteq Stored(x)
      /\ \A p \in Stored(Pool)' : p \in Stored(Pool) \/ \E a \in {Peeked} : p \in Stored(a)
  BY SlotFacts, SlotsDiffer, Held, HeldNext DEF PutBack, held, Holdings
<1>3. \A u : (Stocked(u)' => Stocked(u)) /\ (InOneMessage(u) => InOneMessage(u)')
  BY <1>1, <1>2, MoveAll
<1> QED
  BY <1>3, Relocate DEF PutBack, history, held

LEMMA ReconcileKeeps ==
  ASSUME OnePlace, Reconcile PROVE OnePlace'
<1>1. PICK m \in dlx : dlx' = dlx \ {m} /\ pool' = pool \cup {NewMessage(m.units)}
  BY DEF Reconcile
<1>2. /\ Dlx \in Slots /\ Pool \in Slots /\ Dlx # Pool /\ m \in Stored(Dlx)
      /\ NewMessage(m.units).units = m.units
  BY SlotFacts, SlotsDiffer, Held DEF Holdings, NewMessage
<1>3. \A x \in Slots : Stored(x)' = IF x = Dlx THEN Stored(x) \ {m}
                                    ELSE IF x = Pool THEN Stored(x) \cup {NewMessage(m.units)}
                                    ELSE Stored(x)
  BY <1>1, SlotFacts, SlotsDiffer, Held, HeldNext DEF Reconcile, held, Holdings
<1>4. \A u : (Stocked(u)' => Stocked(u)) /\ (InOneMessage(u) => InOneMessage(u)')
  BY <1>2, <1>3, MoveOne
<1> QED
  BY <1>4, Relocate DEF Reconcile, history, held

(* A step after which no slot and no request holds more than before. *)
LEMMA NothingNew ==
  ASSUME OnePlace, \A x \in Slots : Stored(x)' \subseteq Stored(x),
         \A l \in Lockers : taken'[l] \subseteq taken[l],
         UNCHANGED <<unpublished, ordered, reopened>>
  PROVE  OnePlace'
<1>1. \A u : (Stocked(u)' => Stocked(u)) /\ (InOneMessage(u) => InOneMessage(u)')
  BY OnlyLess
<1> QED
  BY <1>1, Relocate

LEMMA ReturnOnlyLess ==
  ASSUME TypeOK, NEW l \in Lockers, Return(l), UNCHANGED queues
  PROVE  /\ \A x \in Slots : Stored(x)' \subseteq Stored(x)
         /\ \A k \in Lockers : taken'[k] \subseteq taken[k]
<1>1. \A x \in Slots : Stored(x)' \subseteq Stored(x)
  BY SlotFacts, Held, HeldNext DEF Holdings, Return, queues, TypeOK
<1> QED
  BY <1>1 DEF Return, TypeOK

LEMMA LossKeeps ==
  ASSUME TypeOK, OnePlace, NEW l \in Lockers,
         \/ AddLineItemWithLock(l) \/ PublishToReserved(l) \/ Locked(l)
         \/ Insufficient(l) \/ LineFails(l)
  PROVE  OnePlace'
<1>1. CASE AddLineItemWithLock(l)
  <2>1. \A x \in Slots : Stored(x)' \subseteq Stored(x)
    BY <1>1, SlotFacts, Held, HeldNext DEF AddLineItemWithLock, Holdings, queues, held
  <2> QED
    BY <1>1, <2>1, NothingNew DEF AddLineItemWithLock, held, history
<1>2. CASE PublishToReserved(l)
  <2>1. \A x \in Slots : Stored(x)' \subseteq Stored(x)
    BY <1>2, SlotFacts, Held, HeldNext DEF PublishToReserved, Holdings, held
  <2> QED
    BY <1>2, <2>1, NothingNew DEF PublishToReserved, held
<1>3. CASE Locked(l)
  <2>1. \A x \in Slots : Stored(x)' \subseteq Stored(x)
    BY <1>3, SlotFacts, Held, HeldNext DEF Locked, Holdings, queues, TypeOK
  <2> QED
    BY <1>3, <2>1, NothingNew DEF Locked, history
<1>4. CASE Insufficient(l)
  BY <1>4, ReturnOnlyLess, NothingNew DEF Insufficient, history
<1>5. CASE LineFails(l)
  BY <1>5, ReturnOnlyLess, NothingNew DEF LineFails, history
<1> QED
  BY <1>1, <1>2, <1>3, <1>4, <1>5

LEMMA ConsumeKeeps ==
  ASSUME OnePlace, ConsumeReserved PROVE OnePlace'
<1>1. \A x \in Slots : Stored(x)' \subseteq Stored(x)
  BY SlotFacts, Held, HeldNext DEF ConsumeReserved, Holdings, held
<1> QED
  BY <1>1, NothingNew DEF ConsumeReserved, held, history

LEMMA GiveUpKeeps ==
  ASSUME TypeOK, OnePlace, NEW l \in Lockers, GiveUp(l) PROVE OnePlace'
<1> DEFINE A == {Matched(l), Unmatched(l)}
<1>1. A \in SUBSET Slots /\ Pool \in Slots /\ Pool \notin A
  BY SlotFacts, SlotsDiffer
<1>2. \A x \in A : Stored(x)' = {}
  BY HeldNext DEF GiveUp, Return, Holdings, TypeOK
<1>3. \A x \in Slots \ (A \cup {Pool}) : Stored(x)' \subseteq Stored(x)
  BY SlotFacts, Held, HeldNext DEF GiveUp, Return, Holdings, TypeOK
<1>4. \A p \in Stored(Pool)' : p \in Stored(Pool) \/ \E a \in A : p \in Stored(a)
  BY Held, HeldNext DEF GiveUp, Holdings
<1> HIDE DEF A
<1>5. \A u : (Stocked(u)' => Stocked(u)) /\ (InOneMessage(u) => InOneMessage(u)')
  BY <1>1, <1>2, <1>3, <1>4, MoveAll
<1>6. \A k \in Lockers : taken'[k] \subseteq taken[k]
  BY DEF GiveUp, Return, TypeOK
<1> QED
  BY <1>5, <1>6, Relocate DEF GiveUp, history

LEMMA PublishKeeps ==
  ASSUME OnePlace, Publish PROVE OnePlace'
<1>1. PICK U \in SUBSET unpublished :
        pool' = pool \cup {NewMessage(U)} /\ unpublished' = unpublished \ U
  BY DEF Publish
<1> DEFINE n == NewMessage(U)
<1>2. n.units = U
  BY DEF NewMessage
<1> HIDE DEF n
<1>3. \A x \in Slots : Stored(x)' = IF x = Pool THEN Stored(x) \cup {n} ELSE Stored(x)
  BY <1>1, SlotFacts, SlotsDiffer, Held, HeldNext DEF Publish, held, Holdings, n
<1>4. \A u : /\ Stocked(u)' => Stocked(u) \/ u \in n.units
             /\ InOneMessage(u) /\ (u \in n.units => ~Stocked(u)) => InOneMessage(u)'
  BY <1>3, SlotFacts, AddOne
<1> QED
  BY <1>1, <1>2, <1>4 DEF Publish, OnePlace, TakenOnce, held, history

LEMMA AckKeeps ==
  ASSUME TypeOK, OnePlace, NEW l \in Lockers, AckMatched(l) PROVE OnePlace'
<1>1. PICK m \in matched[l] :
        /\ matched' = [matched EXCEPT ![l] = @ \ {m}]
        /\ taken' = [taken EXCEPT ![l] = @ \cup m.units]
  BY DEF AckMatched
<1>2. \A x \in Slots : Stored(x)' = IF x = Matched(l) THEN Stored(x) \ {m} ELSE Stored(x)
  BY <1>1, SlotFacts, SlotsDiffer, Held, HeldNext DEF AckMatched, queues, Holdings, TypeOK
<1>3. \A u : (Stocked(u)' => Stocked(u)) /\ (InOneMessage(u) => InOneMessage(u)')
  BY <1>2, OnlyLess
<1>4. Matched(l) \in Slots /\ m \in Stored(Matched(l))
  BY SlotFacts, Held DEF Holdings
<1>5. \A u \in m.units : Stocked(u) /\ (InOneMessage(u) => ~Stocked(u)')
  BY <1>2, <1>4 DEF Stocked, InOneMessage
<1>6. \A k \in Lockers : taken'[k] = IF k = l THEN taken[k] \cup m.units ELSE taken[k]
  BY <1>1 DEF TypeOK
<1>7. ASSUME NEW u \in Units \ reopened, u \in m.units
      PROVE  /\ InOneMessage(u)' /\ TakenOnce(u)' /\ ~Stocked(u)'
             /\ u \notin unpublished /\ ordered[u] = 0
  <2>1. InOneMessage(u) /\ Stocked(u)
    BY <1>5, <1>7 DEF OnePlace
  <2>2. u \notin unpublished /\ ordered[u] = 0 /\ \A k \in Lockers : u \notin taken[k]
    BY <2>1 DEF OnePlace
  <2> QED
    BY <1>3, <1>5, <1>6, <1>7, <2>1, <2>2 DEF TakenOnce
<1>8. ASSUME NEW u \in Units \ reopened, u \notin m.units
      PROVE  /\ InOneMessage(u)' /\ (Stocked(u)' => Stocked(u))
             /\ \A k \in Lockers : u \in taken'[k] <=> u \in taken[k]
  BY <1>3, <1>6, <1>8 DEF OnePlace
<1>9. unpublished' = unpublished /\ ordered' = ordered /\ reopened' = reopened
  BY DEF AckMatched, history
<1> QED
  <2> SUFFICES ASSUME NEW u \in Units \ reopened
               PROVE  /\ InOneMessage(u)'
                      /\ TakenOnce(u)'
                      /\ u \in unpublished => ~Stocked(u)'
                      /\ \A k \in Lockers : u \in taken'[k] => u \notin unpublished /\ ~Stocked(u)'
                      /\ \/ ordered[u] = 0
                         \/ /\ ordered[u] = 1
                            /\ u \notin unpublished
                            /\ ~Stocked(u)'
                            /\ \A k \in Lockers : u \notin taken'[k]
    BY <1>9 DEF OnePlace
  <2>1. CASE u \in m.units
    BY <1>7, <2>1
  <2>2. CASE u \notin m.units
    BY <1>8, <2>2 DEF OnePlace, TakenOnce
  <2> QED
    BY <2>1, <2>2

LEMMA RemainderKeeps ==
  ASSUME TypeOK, OnePlace, NEW l \in Lockers, PublishRemainder(l) PROVE OnePlace'
<1>1. PICK U \in SUBSET taken[l] :
        /\ taken' = [taken EXCEPT ![l] = U]
        /\ pool' = IF U = taken[l] THEN pool ELSE pool \cup {NewMessage(taken[l] \ U)}
  BY DEF PublishRemainder
<1>2. \A k \in Lockers : taken'[k] = IF k = l THEN U ELSE taken[k]
  BY <1>1 DEF TypeOK
<1>3. UNCHANGED <<dlx, peeked, matched, unmatched, waiting>>
  BY DEF PublishRemainder
<1>4. CASE U = taken[l]
  <2>1. pool' = pool
    BY <1>1, <1>4
  <2>2. \A x \in Slots : Stored(x)' \subseteq Stored(x)
    BY <1>3, <2>1, SlotFacts, Held, HeldNext DEF Holdings
  <2> QED
    BY <1>2, <1>4, <2>2, NothingNew DEF PublishRemainder, history
<1>5. CASE U # taken[l]
  <2> DEFINE n == NewMessage(taken[l] \ U)
  <2>1. n.units = taken[l] \ U /\ pool' = pool \cup {n}
    BY <1>1, <1>5 DEF NewMessage
  <2> HIDE DEF n
  <2>2. \A x \in Slots : Stored(x)' = IF x = Pool THEN Stored(x) \cup {n} ELSE Stored(x)
    BY <1>3, <2>1, SlotFacts, SlotsDiffer, Held, HeldNext DEF Holdings
  <2>3. \A u : /\ Stocked(u)' => Stocked(u) \/ u \in n.units
               /\ InOneMessage(u) /\ (u \in n.units => ~Stocked(u)) => InOneMessage(u)'
    BY <2>2, SlotFacts, AddOne
  <2> QED
    BY <1>2, <2>1, <2>3 DEF PublishRemainder, OnePlace, TakenOnce, history
<1> QED
  BY <1>4, <1>5

LEMMA LineKeeps ==
  ASSUME TypeOK, OnePlace, NEW l \in Lockers, CreatePOLineItem(l) PROVE OnePlace'
<1>1. /\ \A x \in Slots : Stored(x)' \subseteq Stored(x)
      /\ \A k \in Lockers : taken'[k] \subseteq taken[k]
  BY ReturnOnlyLess DEF CreatePOLineItem
<1>2. \A u : (Stocked(u)' => Stocked(u)) /\ (InOneMessage(u) => InOneMessage(u)')
  BY <1>1, OnlyLess
<1>3. taken'[l] = {}
  BY DEF CreatePOLineItem, Return, TypeOK
<1>4. \A u \in Units : ordered'[u] = IF u \in taken[l] THEN ordered[u] + 1 ELSE ordered[u]
  BY DEF CreatePOLineItem
<1> QED
  BY <1>1, <1>2, <1>3, <1>4 DEF CreatePOLineItem, OnePlace, TakenOnce, history

LEMMA ExpireKeeps ==
  ASSUME OnePlace, ExpireReserved PROVE OnePlace'
<1>1. PICK m \in reserved : dlx' = dlx \cup {m} /\ reopened' = reopened \cup m.units
  BY DEF ExpireReserved
<1>2. \A x \in Slots : Stored(x)' = IF x = Dlx THEN Stored(x) \cup {m} ELSE Stored(x)
  BY <1>1, SlotFacts, SlotsDiffer, Held, HeldNext DEF ExpireReserved, held, Holdings
<1>3. \A u : /\ Stocked(u)' => Stocked(u) \/ u \in m.units
             /\ InOneMessage(u) /\ (u \in m.units => ~Stocked(u)) => InOneMessage(u)'
  BY <1>2, SlotFacts, AddOne
<1> QED
  BY <1>1, <1>3, Relocate DEF ExpireReserved, held

LEMMA UnackedKeeps ==
  ASSUME OnePlace, ReconcileUnacked PROVE OnePlace'
<1>1. PICK m \in dlx : /\ pool' = pool \cup {NewMessage(m.units)}
                      /\ reopened' = reopened \cup m.units
  BY DEF ReconcileUnacked
<1> DEFINE n == NewMessage(m.units)
<1>2. n.units = m.units
  BY DEF NewMessage
<1> HIDE DEF n
<1>3. \A x \in Slots : Stored(x)' = IF x = Pool THEN Stored(x) \cup {n} ELSE Stored(x)
  BY <1>1, SlotFacts, SlotsDiffer, Held, HeldNext DEF ReconcileUnacked, held, Holdings, n
<1>4. \A u : /\ Stocked(u)' => Stocked(u) \/ u \in n.units
             /\ InOneMessage(u) /\ (u \in n.units => ~Stocked(u)) => InOneMessage(u)'
  BY <1>3, SlotFacts, AddOne
<1> QED
  BY <1>1, <1>2, <1>4, Relocate DEF ReconcileUnacked, held

LEMMA OnePlaceStep == TypeOK /\ OnePlace /\ [Next]_vars => OnePlace'
<1> SUFFICES ASSUME TypeOK, OnePlace, [Next]_vars PROVE OnePlace'
  OBVIOUS
<1>1. ASSUME NEW l \in Lockers, LockStep(l) PROVE OnePlace'
  BY <1>1, GetMatchKeeps, GetOtherKeeps, GetNothingKeeps, AckKeeps, RequeueKeeps, LossKeeps,
     RemainderKeeps, LineKeeps DEF LockStep
<1>2. ASSUME NEW l \in Lockers,
             AddLineItemWithLock(l) \/ Republish(l) \/ GiveUp(l) \/ LineFails(l)
      PROVE  OnePlace'
  BY <1>2, LossKeeps, RepublishKeeps, GiveUpKeeps
<1>3. CASE UNCHANGED vars
  <2>1. \A x \in Slots : Stored(x)' \subseteq Stored(x)
    BY <1>3, SlotFacts, Held, HeldNext DEF vars, Holdings
  <2> QED
    BY <1>3, <2>1, NothingNew DEF vars
<1> QED
  BY <1>1, <1>2, <1>3, PublishKeeps, PeekKeeps, PutBackKeeps, ConsumeKeeps, ExpireKeeps,
     ReconcileKeeps, UnackedKeeps DEF Next

(* Until it is put on offer again, a unit of shortage is in one place only. *)
THEOREM UnitsInOnePlace == Spec => []OnePlace
  BY TypeInit, TypeStep, OnePlaceInit, OnePlaceStep, PTL DEF Spec

(* A shortage is bought twice only after its reservation has expired, or   *)
(* after the reconciler has copied its dead letter.                        *)
THEOREM NotBoughtTwice == Spec => []NoDoubleBuying
<1>1. TypeOK /\ OnePlace => NoDoubleBuying
  BY DEF TypeOK, OnePlace, NoDoubleBuying
<1> QED
  BY <1>1, TypeCorrect, UnitsInOnePlace, PTL

-----------------------------------------------------------------------------
(***************************************************************************)
(* What a request has gathered is of the SKU it was asked for, from the    *)
(* first matching message to the line.                                     *)
(***************************************************************************)
Gathered(l) ==
  /\ pc[l] = "idle" => matched[l] = {} /\ taken[l] = {}
  /\ \A m \in matched[l] : OfSku(m.units, sku[l])
  /\ OfSku(taken[l], sku[l])
  /\ pc[l] \in {"reserve", "done", "line"} => Cardinality(taken[l]) = qty[l]

AllGathered == \A l \in Lockers : Gathered(l)

LEMMA GatheredInit == Init => AllGathered
  BY DEF Init, AllGathered, Gathered, OfSku

LEMMA GatheredReturn ==
  ASSUME TypeOK, AllGathered, NEW l \in Lockers, Return(l) PROVE AllGathered'
  BY DEF TypeOK, AllGathered, Gathered, Return, Goto, OfSku

LEMMA GatheredKept ==
  ASSUME AllGathered, UNCHANGED <<pc, sku, qty, matched, taken>> PROVE AllGathered'
  BY DEF AllGathered, Gathered

LEMMA GatheredStep == TypeOK /\ AllGathered /\ [Next]_vars => AllGathered'
<1> SUFFICES ASSUME TypeOK, AllGathered, [Next]_vars PROVE AllGathered'
  OBVIOUS
<1> USE DEF request, held, Goto
<1>1. CASE Publish \/ Peek \/ PutBack \/ ConsumeReserved
  BY <1>1, GatheredKept DEF Publish, Peek, PutBack, ConsumeReserved
<1>2. CASE ExpireReserved \/ Reconcile \/ ReconcileUnacked \/ UNCHANGED vars
  BY <1>2, GatheredKept DEF ExpireReserved, Reconcile, ReconcileUnacked, vars
<1>3. ASSUME NEW l \in Lockers, AddLineItemWithLock(l) PROVE AllGathered'
  BY <1>3 DEF AddLineItemWithLock, TypeOK, AllGathered, Gathered, OfSku
<1>4. ASSUME NEW l \in Lockers, GetMatch(l) PROVE AllGathered'
  <2>1. PICK m \in pool : /\ OfSku(m.units, sku[l])
                          /\ matched' = [matched EXCEPT ![l] = @ \cup {m}]
    BY <1>4 DEF GetMatch
  <2>2. pc[l] = "get" /\ pc' \in [Lockers -> Labels] /\ pc'[l] \in {"get", "ack"}
        /\ \A k \in Lockers \ {l} : pc'[k] = pc[k]
    BY <1>4 DEF GetMatch, TypeOK, Labels
  <2>3. UNCHANGED <<sku, qty, taken>>
    BY <1>4 DEF GetMatch
  <2> QED
    BY <2>1, <2>2, <2>3 DEF TypeOK, AllGathered, Gathered
<1>5. ASSUME NEW l \in Lockers, GetOther(l) \/ RequeueWithBackoff(l) \/ Republish(l)
      PROVE  AllGathered'
  BY <1>5, GatheredKept DEF GetOther, RequeueWithBackoff, Republish
<1>6. ASSUME NEW l \in Lockers, GetNothing(l) PROVE AllGathered'
  BY <1>6 DEF GetNothing, TypeOK, AllGathered, Gathered
<1>7. ASSUME NEW l \in Lockers, AckMatched(l) PROVE AllGathered'
  <2>1. PICK m \in matched[l] : /\ matched' = [matched EXCEPT ![l] = @ \ {m}]
                                /\ taken' = [taken EXCEPT ![l] = @ \cup m.units]
    BY <1>7 DEF AckMatched
  <2>2. /\ pc' \in [Lockers -> Labels] /\ pc'[l] \in {"requeue", "ack"}
        /\ \A k \in Lockers \ {l} : pc'[k] = pc[k]
    BY <1>7 DEF AckMatched, TypeOK, Labels
  <2>3. UNCHANGED <<sku, qty>>
    BY <1>7 DEF AckMatched
  <2>4. OfSku(m.units, sku[l])
    BY <2>1 DEF AllGathered, Gathered
  <2> QED
    BY <2>1, <2>2, <2>3, <2>4 DEF TypeOK, AllGathered, Gathered, OfSku
<1>8. ASSUME NEW l \in Lockers, PublishRemainder(l) PROVE AllGathered'
  <2>1. PICK U \in SUBSET taken[l] :
          Cardinality(U) = qty[l] /\ taken' = [taken EXCEPT ![l] = U]
    BY <1>8 DEF PublishRemainder
  <2>2. pc' = [pc EXCEPT ![l] = "reserve"] /\ UNCHANGED <<sku, qty, matched>>
    BY <1>8 DEF PublishRemainder
  <2> QED
    BY <2>1, <2>2 DEF TypeOK, AllGathered, Gathered, OfSku
<1>9. ASSUME NEW l \in Lockers, PublishToReserved(l) \/ Locked(l) PROVE AllGathered'
  BY <1>9 DEF PublishToReserved, Locked, TypeOK, AllGathered, Gathered
<1>10. ASSUME NEW l \in Lockers,
              Insufficient(l) \/ CreatePOLineItem(l) \/ GiveUp(l) \/ LineFails(l)
       PROVE  AllGathered'
  BY <1>10, GatheredReturn DEF Insufficient, CreatePOLineItem, GiveUp, LineFails
<1> QED
  BY <1>1, <1>2, <1>3, <1>4, <1>5, <1>6, <1>7, <1>8, <1>9, <1>10 DEF Next, LockStep

(* A purchase-order line is covered by exactly its quantity of its SKU.     *)
THEOREM LocksAreExact == Spec => []ExactLock
<1>1. AllGathered => ExactLock
  BY DEF AllGathered, Gathered, ExactLock
<1> QED
  BY <1>1, TypeInit, TypeStep, GatheredInit, GatheredStep, PTL DEF Spec
=============================================================================
