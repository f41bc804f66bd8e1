------------------------- MODULE Installation_proofs -------------------------
(***************************************************************************)
(* Theorems about the surroundings of the services, with their proofs: the *)
(* log of a server, the ledger as MRP reads it, the broker, the databases. *)
(***************************************************************************)
EXTENDS Installation, Sums

-----------------------------------------------------------------------------
(***************************************************************************)
(* The log of a server.  Entries go one way and keep their order.          *)
(***************************************************************************)
Increasing(s) == \A i, j \in DOMAIN s : i < j => s[i] < s[j]
Below(s, t) == \A i \in DOMAIN s, j \in DOMAIN t : s[i] < t[j]

LEMMA AppendFacts ==
  ASSUME NEW s \in Seq(Nat), NEW n \in Nat, \A i \in DOMAIN s : s[i] < n, Increasing(s)
  PROVE  /\ Append(s, n) \in Seq(Nat) /\ Len(Append(s, n)) = Len(s) + 1
         /\ Increasing(Append(s, n)) /\ ToSet(Append(s, n)) = ToSet(s) \cup {n}
<1>1. /\ Append(s, n) \in Seq(Nat) /\ Len(Append(s, n)) = Len(s) + 1
      /\ DOMAIN Append(s, n) = 1..(Len(s) + 1)
      /\ \A i \in 1..Len(s) : Append(s, n)[i] = s[i]
      /\ Append(s, n)[Len(s) + 1] = n
      /\ DOMAIN s = 1..Len(s) /\ Len(s) \in Nat
  OBVIOUS
<1>2. Increasing(Append(s, n))
  BY <1>1 DEF Increasing
<1>3. ToSet(Append(s, n)) = ToSet(s) \cup {n}
  BY <1>1 DEF ToSet
<1> QED
  BY <1>1, <1>2, <1>3

LEMMA TailFacts ==
  ASSUME NEW s \in Seq(Nat), s # <<>>, Increasing(s)
  PROVE  /\ Head(s) \in Nat /\ Tail(s) \in Seq(Nat) /\ Len(Tail(s)) = Len(s) - 1
         /\ Increasing(Tail(s)) /\ ToSet(s) = {Head(s)} \cup ToSet(Tail(s))
         /\ \A i \in DOMAIN Tail(s) : Head(s) < Tail(s)[i]
         /\ \A i \in DOMAIN Tail(s) : i + 1 \in DOMAIN s /\ Tail(s)[i] = s[i + 1]
<1>1. /\ Head(s) = s[1] /\ Head(s) \in Nat /\ Tail(s) \in Seq(Nat) /\ Len(Tail(s)) = Len(s) - 1
      /\ DOMAIN Tail(s) = 1..(Len(s) - 1)
      /\ \A i \in 1..(Len(s) - 1) : Tail(s)[i] = s[i + 1]
      /\ DOMAIN s = 1..Len(s) /\ Len(s) \in Nat /\ Len(s) > 0
  OBVIOUS
<1>2. Increasing(Tail(s))
  BY <1>1 DEF Increasing
<1>3. \A x : x \in ToSet(s) <=> x \in {Head(s)} \cup ToSet(Tail(s))
  <2>1. ASSUME NEW i \in DOMAIN s PROVE s[i] \in {Head(s)} \cup ToSet(Tail(s))
    <3>1. CASE i = 1
      BY <1>1, <3>1
    <3>2. CASE i # 1
      <4>1. i - 1 \in DOMAIN Tail(s) /\ Tail(s)[i - 1] = s[i]
        BY <1>1, <3>2
      <4> QED
        BY <4>1 DEF ToSet
    <3> QED
      BY <3>1, <3>2
  <2>2. \A x \in ToSet(s) : x \in {Head(s)} \cup ToSet(Tail(s))
    BY <2>1 DEF ToSet
  <2>3. Head(s) \in ToSet(s)
    <3>1. 1 \in DOMAIN s
      BY <1>1
    <3> QED
      BY <1>1, <3>1 DEF ToSet
  <2>4. ASSUME NEW i \in DOMAIN Tail(s) PROVE Tail(s)[i] \in ToSet(s)
    <3>1. i + 1 \in DOMAIN s /\ Tail(s)[i] = s[i + 1]
      BY <1>1
    <3> QED
      BY <3>1 DEF ToSet
  <2>5. \A x \in ToSet(Tail(s)) : x \in ToSet(s)
    BY <2>4 DEF ToSet
  <2> QED
    BY <2>2, <2>3, <2>5
<1> QED
  BY <1>1, <1>2, <1>3 DEF Increasing

LEMMA JoinFacts ==
  ASSUME NEW s \in Seq(Nat), NEW t \in Seq(Nat), Increasing(s), Increasing(t), Below(s, t)
  PROVE  /\ s \o t \in Seq(Nat) /\ Len(s \o t) = Len(s) + Len(t)
         /\ Increasing(s \o t) /\ ToSet(s \o t) = ToSet(s) \cup ToSet(t)
         /\ \A r : Below(s, r) /\ Below(t, r) => Below(s \o t, r)
<1>1. /\ s \o t \in Seq(Nat) /\ Len(s \o t) = Len(s) + Len(t) /\ DOMAIN (s \o t) = 1..(Len(s) + Len(t))
      /\ Len(s) \in Nat /\ Len(t) \in Nat /\ DOMAIN s = 1..Len(s) /\ DOMAIN t = 1..Len(t)
      /\ \A i \in 1..Len(s) : (s \o t)[i] = s[i]
      /\ \A i \in (Len(s) + 1)..(Len(s) + Len(t)) : (s \o t)[i] = t[i - Len(s)]
  OBVIOUS
<1>2. ASSUME NEW i \in DOMAIN (s \o t)
      PROVE  \/ i \in DOMAIN s /\ (s \o t)[i] = s[i]
             \/ i > Len(s) /\ i - Len(s) \in DOMAIN t /\ (s \o t)[i] = t[i - Len(s)]
  BY <1>1
<1>3. Increasing(s \o t)
  <2> SUFFICES ASSUME NEW i \in DOMAIN (s \o t), NEW j \in DOMAIN (s \o t), i < j
               PROVE  (s \o t)[i] < (s \o t)[j]
    BY DEF Increasing
  <2> QED
    BY <1>1, <1>2 DEF Increasing, Below
<1>4. \A x : x \in ToSet(s \o t) <=> x \in ToSet(s) \cup ToSet(t)
  <2>1. \A i \in DOMAIN t : i + Len(s) \in DOMAIN (s \o t) /\ (s \o t)[i + Len(s)] = t[i]
    BY <1>1
  <2>2. \A i \in DOMAIN (s \o t) : (s \o t)[i] \in ToSet(s) \cup ToSet(t)
    BY <1>2 DEF ToSet
  <2>3. \A i \in DOMAIN s : s[i] \in ToSet(s \o t)
    <3> TAKE i \in DOMAIN s
    <3>1. i \in DOMAIN (s \o t) /\ (s \o t)[i] = s[i]
      BY <1>1
    <3> QED
      BY <3>1 DEF ToSet
  <2>4. \A i \in DOMAIN t : t[i] \in ToSet(s \o t)
    BY <2>1 DEF ToSet
  <2>5. ToSet(s \o t) \subseteq ToSet(s) \cup ToSet(t)
    BY <2>2 DEF ToSet
  <2>6. ToSet(s) \subseteq ToSet(s \o t) /\ ToSet(t) \subseteq ToSet(s \o t)
    BY <2>3, <2>4 DEF ToSet
  <2> QED
    BY <2>5, <2>6
<1>5. \A r : Below(s, r) /\ Below(t, r) => Below(s \o t, r)
  BY <1>2 DEF Below
<1> QED
  BY <1>1, <1>3, <1>4, <1>5

(* Where an entry is, and what a shipper has done when it has been told to  *)
(* stop.                                                                    *)
LogTypes ==
    /\ Log!TypeOK
    /\ arrived \in Seq(Nat) /\ batch \in Seq(Nat) /\ queue \in Seq(Nat)
    /\ Len(queue) <= logged
    /\ shipper = "select" => Len(batch) < BatchSize
InOrder3 ==
    /\ Increasing(arrived) /\ Increasing(batch) /\ Increasing(queue)
    /\ Below(arrived, batch) /\ Below(arrived, queue) /\ Below(batch, queue)
LogShown ==
    /\ ToSet(arrived) \cup ToSet(batch) \cup ToSet(queue) = (1..logged) \ (refused \cup dropped)
    /\ \A d \in dropped : d > Log!QueueSize
LogStops ==
    /\ shipper \in {"drain", "last", "returned"} => server \in {"stopping", "exited"}
    /\ shipper \in {"last", "returned"} => early \cap ToSet(queue) = {}
    /\ shipper = "returned" => batch = <<>>
LogInv == LogTypes /\ InOrder3 /\ LogShown /\ LogStops

LEMMA LogAtFirst == Log!Init => LogInv
<1> SUFFICES ASSUME Log!Init PROVE LogInv
  OBVIOUS
<1>1. ToSet(<<>>) = {} /\ \A s : Below(<<>>, s) /\ Below(s, <<>>)
  BY DEF ToSet, Below
<1> QED
  BY <1>1, LogAssumption DEF Log!Init, LogInv, LogTypes, Log!TypeOK, InOrder3, Increasing, LogShown, LogStops, Log!QueueSize

LEMMA HandleKeeps ==
  ASSUME LogInv, Log!Handle, server' \in {server, "failed"}, server = "serving" \/ server' = server
  PROVE  LogInv'
<1> DEFINE n == logged + 1
<1>1. logged \in Nat /\ n \in Nat /\ logged' = n /\ n <= MaxEntries /\ Log!QueueSize \in Nat
  BY LogAssumption DEF LogInv, LogTypes, Log!TypeOK, Log!Handle, Log!QueueSize
<1>2. UNCHANGED <<batch, shipper, arrived, refused, early>>
  BY DEF Log!Handle
<1>3. \A s \in {arrived, batch, queue} : \A i \in DOMAIN s : s[i] \in 1..logged
  BY DEF LogInv, LogShown, ToSet
<1>4. /\ Len(queue') <= logged' /\ Len(queue') <= Log!QueueSize /\ queue' \in Seq(Nat) /\ Increasing(queue')
      /\ ToSet(queue') \cup dropped' = ToSet(queue) \cup dropped \cup {n}
      /\ ToSet(queue') \subseteq ToSet(queue) \cup {n} /\ dropped \subseteq dropped'
      /\ \A x \in dropped' : x \in dropped \/ (x = n /\ n > Log!QueueSize)
      /\ n \in ToSet(queue') => dropped' = dropped
  <2>1. CASE Len(queue) < Log!QueueSize
    <3>1. queue' = Append(queue, n) /\ dropped' = dropped
      BY <2>1 DEF Log!Handle
    <3>2. \A i \in DOMAIN queue : queue[i] < n
      BY <1>1, <1>3
    <3> QED
      BY <1>1, <2>1, <3>1, <3>2, AppendFacts DEF LogInv, LogTypes, InOrder3
  <2>2. CASE ~(Len(queue) < Log!QueueSize)
    <3>1. queue' = queue /\ dropped' = dropped \cup {n}
      BY <2>2 DEF Log!Handle
    <3>2. Len(queue) <= logged /\ queue \in Seq(Nat)
      BY DEF LogInv, LogTypes
    <3>3. n \notin ToSet(queue)
      BY <1>1, <1>3 DEF ToSet
    <3> QED
      BY <1>1, <2>2, <3>1, <3>2, <3>3 DEF LogInv, LogTypes, InOrder3, Log!TypeOK
  <2> QED
    BY <2>1, <2>2
<1>5. InOrder3'
  <2>1. \A s \in {arrived, batch} : Below(s, queue')
    <3> SUFFICES ASSUME NEW s \in {arrived, batch}, NEW i \in DOMAIN s, NEW j \in DOMAIN queue'
                 PROVE  s[i] < queue'[j]
      BY DEF Below
    <3>1. queue'[j] = n \/ \E k \in DOMAIN queue : queue[k] = queue'[j]
      BY <1>4 DEF ToSet
    <3> QED
      BY <1>1, <1>3, <3>1 DEF LogInv, InOrder3, Below
  <2> QED
    BY <1>2, <1>4, <2>1 DEF LogInv, InOrder3
<1>6. LogShown'
  <2>1. refused \cup dropped \subseteq 1..logged
    BY DEF LogInv, LogTypes, Log!TypeOK
  <2>2. 1..logged' = (1..logged) \cup {n} /\ n \notin 1..logged
    BY <1>1
  <2>3. (ToSet(arrived) \cup ToSet(batch) \cup ToSet(queue))' = (1..logged') \ (refused' \cup dropped')
    BY <1>2, <1>4, <2>1, <2>2 DEF LogInv, LogShown
  <2> QED
    BY <1>4, <2>3 DEF LogInv, LogShown, Log!QueueSize
<1>7. LogStops'
  <2>1. n \notin early
    BY <1>1 DEF LogInv, LogTypes, Log!TypeOK
  <2> QED
    BY <1>2, <1>4, <2>1 DEF LogInv, LogStops
<1>8. LogTypes'
  <2>1. refused' \cup dropped' \cup early' \subseteq 1..logged'
    BY <1>1, <1>2, <1>4 DEF LogInv, LogTypes, Log!TypeOK
  <2> QED
    BY <1>1, <1>2, <1>4, <2>1 DEF LogInv, LogTypes, Log!TypeOK, Log!QueueSize
<1> QED
  BY <1>5, <1>6, <1>7, <1>8 DEF LogInv

LEMMA TakeKeeps ==
  ASSUME LogInv, queue # <<>>, Log!TakeEntry, UNCHANGED <<arrived, logged>>
  PROVE  /\ InOrder3' /\ Len(batch') = Len(batch) + 1 /\ Len(queue') = Len(queue) - 1
         /\ batch' \in Seq(Nat) /\ queue' \in Seq(Nat)
         /\ ToSet(batch') \cup ToSet(queue') = ToSet(batch) \cup ToSet(queue)
         /\ ToSet(queue') \subseteq ToSet(queue)
<1> DEFINE h == Head(queue)
<1>1. /\ arrived \in Seq(Nat) /\ batch \in Seq(Nat) /\ queue \in Seq(Nat) /\ InOrder3
      /\ batch' = Append(batch, h) /\ queue' = Tail(queue)
  BY DEF LogInv, LogTypes, Log!TakeEntry
<1>2. /\ h \in Nat /\ queue' \in Seq(Nat) /\ Len(queue') = Len(queue) - 1 /\ Increasing(queue')
      /\ ToSet(queue) = {h} \cup ToSet(queue')
      /\ \A i \in DOMAIN queue' : h < queue'[i] /\ i + 1 \in DOMAIN queue /\ queue'[i] = queue[i + 1]
  BY <1>1, TailFacts DEF InOrder3
<1>3. 1 \in DOMAIN queue /\ queue[1] = h
  BY <1>1
<1>4. \A i \in DOMAIN batch : batch[i] < h
  BY <1>1, <1>3 DEF InOrder3, Below
<1>5. /\ batch' \in Seq(Nat) /\ Len(batch') = Len(batch) + 1 /\ Increasing(batch')
      /\ ToSet(batch') = ToSet(batch) \cup {h}
  BY <1>1, <1>2, <1>4, AppendFacts DEF InOrder3
<1>6. \A j \in DOMAIN batch' : batch'[j] = h \/ \E k \in DOMAIN batch : batch[k] = batch'[j]
  BY <1>5 DEF ToSet
<1>7. Below(arrived', batch')
  BY <1>1, <1>3, <1>6 DEF InOrder3, Below
<1>8. Below(arrived', queue')
  BY <1>1, <1>2 DEF InOrder3, Below
<1>9. Below(batch', queue')
  BY <1>1, <1>2, <1>6 DEF InOrder3, Below
<1> QED
  BY <1>1, <1>2, <1>5, <1>7, <1>8, <1>9 DEF InOrder3

LEMMA CollectKeeps == LogInv /\ Log!Collect => LogInv'
<1> SUFFICES ASSUME LogInv, Log!Collect PROVE LogInv'
  OBVIOUS
<1>1. queue # <<>> /\ Log!TakeEntry /\ UNCHANGED <<logged, arrived, refused, dropped, early, server>>
      /\ shipper = "select" /\ shipper' = IF Len(batch) + 1 >= BatchSize THEN "push" ELSE "select"
  BY DEF Log!Collect, Log!Shipping
<1>2. /\ InOrder3' /\ Len(batch') = Len(batch) + 1 /\ Len(queue') = Len(queue) - 1
      /\ batch' \in Seq(Nat) /\ queue' \in Seq(Nat)
      /\ ToSet(batch') \cup ToSet(queue') = ToSet(batch) \cup ToSet(queue)
  BY <1>1, TakeKeeps
<1>3. batch \in Seq(Nat) /\ Len(batch) < BatchSize /\ Len(batch) \in Nat /\ Len(queue) \in Nat
  BY <1>1 DEF LogInv, LogTypes
<1>4. LogTypes'
  BY <1>1, <1>2, <1>3, LogAssumption DEF LogInv, LogTypes, Log!TypeOK, Log!QueueSize
<1>5. LogShown'
  BY <1>1, <1>2 DEF LogInv, LogShown, Log!QueueSize
<1>6. LogStops'
  BY <1>1 DEF LogStops
<1> QED
  BY <1>2, <1>4, <1>5, <1>6 DEF LogInv

LEMMA DrainKeeps == LogInv /\ Log!Drain => LogInv'
<1> SUFFICES ASSUME LogInv, Log!Drain PROVE LogInv'
  OBVIOUS
<1>1. UNCHANGED <<logged, arrived, refused, dropped, early, server>>
      /\ shipper \in {"select", "drain"} /\ server \in {"stopping", "exited"}
  BY DEF Log!Drain, Log!Shipping, LogInv, LogStops
<1>2. CASE queue # <<>>
  <2>1. Log!TakeEntry /\ shipper' = "drain"
    BY <1>2 DEF Log!Drain
  <2>2. /\ InOrder3' /\ Len(batch') = Len(batch) + 1 /\ Len(queue') = Len(queue) - 1
        /\ batch' \in Seq(Nat) /\ queue' \in Seq(Nat) /\ Len(queue) \in Nat
        /\ ToSet(batch') \cup ToSet(queue') = ToSet(batch) \cup ToSet(queue)
    BY <1>1, <1>2, <2>1, TakeKeeps DEF LogInv, LogTypes
  <2>3. LogTypes'
    BY <1>1, <2>1, <2>2, LogAssumption DEF LogInv, LogTypes, Log!TypeOK, Log!QueueSize
  <2>4. LogShown'
    BY <1>1, <2>2 DEF LogInv, LogShown, Log!QueueSize
  <2>5. LogStops'
    BY <1>1, <2>1 DEF LogStops
  <2> QED
    BY <2>2, <2>3, <2>4, <2>5 DEF LogInv
<1>3. CASE queue = <<>>
  <2>1. UNCHANGED <<queue, batch>> /\ shipper' = IF batch = <<>> THEN "returned" ELSE "last"
    BY <1>3 DEF Log!Drain
  <2>2. ToSet(queue) = {}
    BY <1>3 DEF ToSet
  <2> QED
    BY <1>1, <2>1, <2>2 DEF LogInv, LogTypes, Log!TypeOK, InOrder3, LogShown, LogStops, Log!QueueSize
<1> QED
  BY <1>2, <1>3

LEMMA PushKeeps == LogInv /\ Log!Push => LogInv'
<1> SUFFICES ASSUME LogInv, Log!Push PROVE LogInv'
  OBVIOUS
<1>1. /\ UNCHANGED <<logged, queue, dropped, early, server>> /\ batch' = <<>>
      /\ shipper \in {"push", "last"} /\ shipper' = IF shipper = "push" THEN "select" ELSE "returned"
      /\ \/ arrived' = arrived \o batch /\ refused' = refused
         \/ refused' = refused \cup ToSet(batch) /\ arrived' = arrived
  BY DEF Log!Push, Log!Shipping, Log!ToSet, ToSet
<1>2. /\ arrived \in Seq(Nat) /\ batch \in Seq(Nat) /\ queue \in Seq(Nat) /\ InOrder3
  BY DEF LogInv, LogTypes
<1>3. /\ \A s : Below(<<>>, s) /\ Below(s, <<>>)
      /\ Increasing(<<>>) /\ ToSet(<<>>) = {} /\ <<>> \in Seq(Nat) /\ Len(<<>>) = 0
  BY DEF Below, Increasing, ToSet
<1>4. /\ InOrder3' /\ arrived' \in Seq(Nat) /\ refused' \subseteq 1..logged
      /\ (ToSet(arrived) \cup ToSet(batch) \cup ToSet(queue))' = (1..logged) \ (refused' \cup dropped)
  <2>1. CASE arrived' = arrived \o batch /\ refused' = refused
    <3>1. /\ arrived' \in Seq(Nat) /\ Increasing(arrived') /\ Below(arrived', queue)
          /\ ToSet(arrived') = ToSet(arrived) \cup ToSet(batch)
      BY <1>2, <2>1, JoinFacts DEF InOrder3
    <3>2. InOrder3'
      BY <1>1, <1>2, <1>3, <3>1 DEF InOrder3
    <3> QED
      BY <1>1, <1>3, <2>1, <3>1, <3>2 DEF LogInv, LogTypes, Log!TypeOK, LogShown
  <2>2. CASE refused' = refused \cup ToSet(batch) /\ arrived' = arrived
    <3>1. \A i \in DOMAIN batch : batch[i] \in Nat /\ batch[i] \notin ToSet(arrived) \cup ToSet(queue)
      BY <1>2 DEF InOrder3, Below, ToSet
    <3>2. ToSet(batch) \cap (ToSet(arrived) \cup ToSet(queue)) = {}
      BY <3>1 DEF ToSet
    <3>3. ToSet(batch) \subseteq 1..logged /\ refused \subseteq 1..logged
      BY DEF LogInv, LogShown, LogTypes, Log!TypeOK
    <3>4. ToSet(arrived) \cup ToSet(batch) \cup ToSet(queue) = (1..logged) \ (refused \cup dropped)
      BY DEF LogInv, LogShown
    <3>5. ToSet(arrived) \cup ToSet(queue) = (1..logged) \ (refused' \cup dropped)
      BY <2>2, <3>2, <3>4
    <3>6. InOrder3'
      BY <1>1, <1>2, <1>3, <2>2 DEF InOrder3
    <3> QED
      BY <1>1, <1>2, <1>3, <2>2, <3>3, <3>5, <3>6
  <2> QED
    BY <1>1, <2>1, <2>2
<1>5. LogTypes'
  <2>1. Len(batch') = 0 /\ batch' \in Seq(Nat) /\ 0 < BatchSize /\ BatchSize \in Nat
    BY <1>1, <1>3, LogAssumption
  <2>2. refused' \cup dropped' \cup early' \subseteq 1..logged' /\ Len(batch') <= BatchSize
    <3>1. refused \cup dropped \cup early \subseteq 1..logged
      BY DEF LogInv, LogTypes, Log!TypeOK
    <3>2. dropped' = dropped /\ early' = early /\ logged' = logged
      BY <1>1
    <3>3. Len(batch') <= BatchSize
      BY <2>1
    <3>4. refused' \cup dropped \cup early \subseteq 1..logged
      BY <1>4, <3>1
    <3> QED
      BY <3>2, <3>3, <3>4
  <2>3. Log!TypeOK'
    BY <1>1, <2>2 DEF LogInv, LogTypes, Log!TypeOK, Log!QueueSize
  <2> QED
    BY <1>1, <2>1, <2>3, <1>4 DEF LogInv, LogTypes
<1>6. LogShown'
  BY <1>1, <1>4 DEF LogInv, LogShown, Log!QueueSize
<1>7. LogStops'
  BY <1>1 DEF LogInv, LogStops
<1> QED
  BY <1>4, <1>5, <1>6, <1>7 DEF LogInv

LEMMA LogStep == LogInv /\ [Log!Next]_logVars => LogInv'
<1> SUFFICES ASSUME LogInv, [Log!Next]_logVars PROVE LogInv'
  OBVIOUS
<1>1. CASE Log!LogRecord
  BY <1>1, HandleKeeps DEF Log!LogRecord
<1>2. CASE Log!Collect
  BY <1>2, CollectKeeps
<1>3. CASE Log!Flush
  <2>1. UNCHANGED <<logged, queue, batch, arrived, refused, dropped, early, server>>
        /\ shipper = "select" /\ shipper' = "push"
    BY <1>3 DEF Log!Flush, Log!Shipping
  <2> QED
    BY <2>1 DEF LogInv, LogTypes, Log!TypeOK, InOrder3, LogShown, LogStops, Log!QueueSize
<1>4. CASE Log!Drain
  BY <1>4, DrainKeeps
<1>5. CASE Log!Push
  BY <1>5, PushKeeps
<1>6. CASE Log!ServerError
  BY <1>6, HandleKeeps DEF Log!ServerError
<1>7. CASE Log!StopLogging
  <2>1. UNCHANGED <<logged, queue, batch, shipper, arrived, refused, dropped>>
        /\ server = "failed" /\ server' = "stopping" /\ early' = ToSet(queue)
    BY <1>7 DEF Log!StopLogging, Log!ToSet, ToSet
  <2>2. ToSet(queue) \subseteq 1..logged
    BY DEF LogInv, LogShown
  <2> QED
    BY <2>1, <2>2 DEF LogInv, LogTypes, Log!TypeOK, InOrder3, LogShown, LogStops, Log!QueueSize
<1>8. CASE Log!Exit
  <2>1. UNCHANGED <<logged, queue, batch, shipper, arrived, refused, dropped, early>> /\ server' = "exited"
    BY <1>8 DEF Log!Exit
  <2> QED
    BY <2>1 DEF LogInv, LogTypes, Log!TypeOK, InOrder3, LogShown, LogStops, Log!QueueSize
<1>9. CASE UNCHANGED logVars
  BY <1>9 DEF logVars, LogInv, LogTypes, Log!TypeOK, InOrder3, LogShown, LogStops, Log!QueueSize
<1> QED
  BY <1>1, <1>2, <1>3, <1>4, <1>5, <1>6, <1>7, <1>8, <1>9 DEF Log!Next

LEMMA LogHolds == LogInv => Log!TypeOK /\ Log!OnlyKnownLosses
<1> SUFFICES ASSUME LogInv PROVE Log!TypeOK /\ Log!OnlyKnownLosses
  OBVIOUS
<1> DEFINE path == arrived \o batch \o queue
<1>1. /\ arrived \in Seq(Nat) /\ batch \in Seq(Nat) /\ queue \in Seq(Nat) /\ InOrder3
  BY DEF LogInv, LogTypes
<1>2. /\ arrived \o batch \in Seq(Nat) /\ Increasing(arrived \o batch) /\ Below(arrived \o batch, queue)
      /\ ToSet(arrived \o batch) = ToSet(arrived) \cup ToSet(batch)
  BY <1>1, JoinFacts DEF InOrder3
<1>3. path \in Seq(Nat) /\ Increasing(path) /\ ToSet(path) = ToSet(arrived) \cup ToSet(batch) \cup ToSet(queue)
  BY <1>1, <1>2, JoinFacts DEF InOrder3
<1>4. \A i \in 1..(Len(path) - 1) : path[i] < path[i + 1]
  <2> HIDE DEF path
  <2>1. DOMAIN path = 1..Len(path) /\ Len(path) \in Nat
    BY <1>3
  <2> QED
    BY <1>3, <2>1 DEF Increasing
<1>5. /\ ToSet(path) = (1..logged) \ (refused \cup dropped)
      /\ \A d \in dropped : d > Log!QueueSize
      /\ shipper = "returned" => batch = <<>> /\ early \cap ToSet(queue) = {}
  BY <1>3 DEF LogInv, LogShown, LogStops
<1>6. Log!TypeOK
  BY DEF LogInv, LogTypes
<1>7. \A s : Log!ToSet(s) = ToSet(s)
  BY DEF Log!ToSet, ToSet
<1> QED
  BY <1>4, <1>5, <1>6, <1>7 DEF Log!OnlyKnownLosses

-----------------------------------------------------------------------------
(***************************************************************************)
(* The reading of the ledger.  The places of the entries, the newest first, *)
(* are the numbers from one to how many there are.                         *)
(***************************************************************************)
HowMany(L, e) == Cardinality({x \in L : x >= e})
Newest(L, m) == {e \in L : HowMany(L, e) <= m}

LEMMA PlacesAre ==
  ASSUME NEW L \in SUBSET Nat, IsFiniteSet(L)
  PROVE  /\ Cardinality(L) \in Nat
         /\ \A e \in L : HowMany(L, e) \in 1..Cardinality(L)
         /\ \A e, f \in L : e < f => HowMany(L, f) < HowMany(L, e)
<1> DEFINE From(e) == {x \in L : x >= e}
<1>1. \A e : /\ IsFiniteSet(From(e)) /\ From(e) \in SUBSET L
             /\ Cardinality(From(e)) \in Nat /\ Cardinality(From(e)) <= Cardinality(L)
  BY FS_Subset, FS_CardinalityType
<1>2. Cardinality(L) \in Nat
  BY FS_CardinalityType
<1>3. ASSUME NEW e \in L PROVE Cardinality(From(e)) # 0
  <2>1. e \in From(e)
    BY <1>3
  <2> QED
    BY <2>1, <1>1, FS_EmptySet
<1>4. ASSUME NEW e \in L, NEW f \in L, e < f PROVE Cardinality(From(f)) < Cardinality(From(e))
  <2>1. e \in Nat /\ f \in Nat
    OBVIOUS
  <2>4. ASSUME NEW x \in From(f) PROVE x \in From(e)
    <3>1. x \in L /\ x \in Nat /\ x >= f
      OBVIOUS
    <3> QED
      BY <1>4, <2>1, <3>1
  <2>5. e \in From(e) /\ e \notin From(f)
    BY <1>4, <2>1
  <2>2. Cardinality(From(f)) <= Cardinality(From(e)) /\ Cardinality(From(f)) # Cardinality(From(e))
    BY <2>4, <2>5, <1>1, FS_Subset
  <2> QED
    BY <1>1, <2>2
<1> QED
  BY <1>1, <1>2, <1>3, <1>4 DEF HowMany

LEMMA NewestSize ==
  ASSUME NEW L \in SUBSET Nat, IsFiniteSet(L), NEW m \in Nat
  PROVE  /\ Newest(L, m) \in SUBSET L /\ IsFiniteSet(Newest(L, m))
         /\ Cardinality(L) \in Nat
         /\ m <= Cardinality(L) => Cardinality(Newest(L, m)) = m
         /\ m >= Cardinality(L) => Newest(L, m) = L
<1> DEFINE n == Cardinality(L)
           f == [e \in L |-> HowMany(L, e)]
           g == [e \in Newest(L, m) |-> HowMany(L, e)]
<1>1. /\ n \in Nat
      /\ \A e \in L : HowMany(L, e) \in 1..n
      /\ \A e, h \in L : e < h => HowMany(L, h) < HowMany(L, e)
  BY PlacesAre
<1>2. Newest(L, m) \in SUBSET L /\ IsFiniteSet(Newest(L, m))
  BY FS_Subset DEF Newest
<1>3. m >= n => Newest(L, m) = L
  <2> SUFFICES ASSUME m >= n, NEW e \in L PROVE HowMany(L, e) <= m
    BY DEF Newest
  <2>1. HowMany(L, e) \in Nat /\ HowMany(L, e) <= n
    BY <1>1
  <2> QED
    BY <1>1, <2>1
<1>4. ASSUME m <= n PROVE Cardinality(Newest(L, m)) = m
  <2>1. f \in Injection(L, 1..n)
    <3>1. \A e, h \in L : f[e] = f[h] => e = h
      <4> TAKE e, h \in L
      <4>1. e \in Nat /\ h \in Nat /\ f[e] \in Nat /\ f[h] \in Nat
        BY <1>1
      <4>2. e < h => f[h] < f[e]
        BY <1>1
      <4>3. h < e => f[e] < f[h]
        BY <1>1
      <4> QED
        BY <4>1, <4>2, <4>3
    <3>2. f \in [L -> 1..n]
      BY <1>1
    <3> QED
      BY <3>1, <3>2, Zenon DEF Injection, IsInjective
  <2>2. IsFiniteSet(1..n) /\ Cardinality(1..n) = n /\ IsFiniteSet(1..m) /\ Cardinality(1..m) = m
    BY <1>1, FS_Interval
  <2>3. f \in Surjection(L, 1..n)
    BY <2>1, <2>2, FS_Injection
  <2>4. \A k \in 1..n : \E e \in L : HowMany(L, e) = k
    BY <2>3 DEF Surjection
  <2>5. g \in Bijection(Newest(L, m), 1..m)
    <3>1. g \in [Newest(L, m) -> 1..m]
      <4> SUFFICES ASSUME NEW e \in Newest(L, m) PROVE HowMany(L, e) \in 1..m
        OBVIOUS
      <4>1. e \in L /\ HowMany(L, e) <= m
        BY DEF Newest
      <4> QED
        BY <1>1, <4>1
    <3>2. \A e, h \in Newest(L, m) : g[e] = g[h] => e = h
      <4> TAKE e, h \in Newest(L, m)
      <4>1. e \in L /\ h \in L /\ g[e] = HowMany(L, e) /\ g[h] = HowMany(L, h)
        BY <1>2
      <4>2. e \in Nat /\ h \in Nat /\ HowMany(L, e) \in Nat /\ HowMany(L, h) \in Nat
        BY <1>1, <4>1
      <4>3. e < h => HowMany(L, h) < HowMany(L, e)
        BY <1>1, <4>1
      <4>4. h < e => HowMany(L, e) < HowMany(L, h)
        BY <1>1, <4>1
      <4> QED
        BY <4>1, <4>2, <4>3, <4>4
    <3>3. \A k \in 1..m : \E e \in Newest(L, m) : g[e] = k
      <4> TAKE k \in 1..m
      <4>1. k \in 1..n /\ k <= m
        BY <1>1, <1>4
      <4>2. PICK e \in L : HowMany(L, e) = k
        BY <2>4, <4>1
      <4>3. e \in Newest(L, m)
        BY <4>1, <4>2 DEF Newest
      <4> QED
        BY <4>2, <4>3
    <3> QED
      BY <3>1, <3>2, <3>3, Zenon DEF Bijection, Injection, Surjection, IsInjective
  <2>6. ExistsBijection(Newest(L, m), 1..m)
    BY <2>5 DEF ExistsBijection
  <2> QED
    BY <1>2, <2>2, <2>6, FS_Bijection
<1> QED
  BY <1>1, <1>2, <1>3, <1>4

(* A page is what is among the newest b and not among the newest a.         *)
LEMMA PageFacts ==
  ASSUME NEW L \in SUBSET Nat, IsFiniteSet(L), NEW a \in Nat, NEW b \in Nat, a < b,
         NEW P, P = {e \in L : a < HowMany(L, e) /\ HowMany(L, e) <= b}
  PROVE  /\ P \subseteq L /\ IsFiniteSet(P) /\ Cardinality(P) \in Nat
         /\ Cardinality(P) <= b - a
         /\ P # {} => a + Cardinality(P) <= Cardinality(L)
         /\ P = {} => Cardinality(L) <= a /\ Cardinality(P) = 0
<1> DEFINE A == Newest(L, a)
           B == Newest(L, b)
           n == Cardinality(L)
<1>1. /\ A \in SUBSET L /\ IsFiniteSet(A) /\ n \in Nat
      /\ a <= n => Cardinality(A) = a
      /\ a >= n => A = L
  BY NewestSize
<1>2. /\ B \in SUBSET L /\ IsFiniteSet(B)
      /\ b <= n => Cardinality(B) = b
      /\ b >= n => B = L
  BY NewestSize
<1>3. /\ \A e \in L : HowMany(L, e) \in Nat
      /\ P = B \ A /\ A \subseteq B
  <2>1. \A e \in L : HowMany(L, e) \in Nat
    BY PlacesAre
  <2>2. \A e \in P : e \in B /\ e \notin A
    BY <2>1 DEF Newest
  <2>3. \A e \in B : e \notin A => e \in P
    BY <2>1 DEF Newest
  <2>4. \A e \in A : e \in B
    BY <2>1 DEF Newest
  <2> QED
    BY <2>1, <2>2, <2>3, <2>4
<1> HIDE DEF A, B, n
<1>4. B \cap A = A
  BY <1>3
<1>8. IsFiniteSet(B \ A) /\ Cardinality(B \ A) = Cardinality(B) - Cardinality(B \cap A)
  BY <1>2, FS_Difference
<1>5. IsFiniteSet(P) /\ Cardinality(P) = Cardinality(B) - Cardinality(A) /\ Cardinality(P) \in Nat
  BY <1>3, <1>4, <1>8, FS_CardinalityType
<1>6. P = {} <=> Cardinality(P) = 0
  BY <1>5, FS_EmptySet
<1>7. Cardinality(A) \in Nat /\ Cardinality(B) \in Nat /\ (a >= n => Cardinality(A) = n) /\ (b >= n => Cardinality(B) = n)
  BY <1>1, <1>2, FS_CardinalityType DEF n
<1> QED
  BY <1>1, <1>2, <1>3, <1>5, <1>6, <1>7 DEF n

LEMMA HowManyGrow ==
  ASSUME NEW L \in SUBSET Nat, IsFiniteSet(L), NEW M, M \subseteq L
  PROVE  \A e : HowMany(M, e) \in Nat /\ HowMany(L, e) \in Nat /\ HowMany(M, e) <= HowMany(L, e)
<1> TAKE e
<1>1. {x \in L : x >= e} \in SUBSET L /\ {x \in M : x >= e} \in SUBSET {x \in L : x >= e}
  OBVIOUS
<1>2. IsFiniteSet({x \in L : x >= e}) /\ IsFiniteSet({x \in M : x >= e})
      /\ Cardinality({x \in M : x >= e}) <= Cardinality({x \in L : x >= e})
  BY <1>1, FS_Subset
<1> QED
  BY <1>2, FS_CardinalityType DEF HowMany

LEMMA SameCardinality == \A S : Ledger!Cardinality(S) = Cardinality(S)
  BY Zenon DEF Ledger!Cardinality, Cardinality

(* What has been read at any moment of a reading: so many pages, and every  *)
(* entry of its beginning is among it or comes after these pages.           *)
Past == IF reader \in {"next", "done"} THEN page * Limit ELSE (page - 1) * Limit
Seen == IF reader = "next" THEN listed \cup found ELSE listed
RowsRead == IF reader = "next" THEN rows + Cardinality(found) ELSE rows

LedgerTypes == Ledger!TypeOK /\ stamp \in [Writers -> (1..clock) \cup {None}]
ReadingInv ==
    /\ reader # "idle" =>
         /\ \A e \in before : e \in Seen \/ HowMany(ledger, e) > Past
         /\ RowsRead <= Past /\ RowsRead <= Cardinality(ledger)
    /\ reader \in {"find", "next", "done"} => total = Cardinality(counted)
    /\ reader = "next" /\ found = {} => total <= Past
    /\ reader = "next" /\ found # {} => page <= MaxStamps
    /\ reader = "done" => total <= Past
LedgerInv == LedgerTypes /\ ReadingInv

LEMMA LedgerIs ==
  ASSUME LedgerTypes
  PROVE  /\ ledger \in SUBSET Nat /\ IsFiniteSet(ledger) /\ Cardinality(ledger) \in Nat
         /\ Cardinality(ledger) <= clock /\ clock \in Nat /\ clock <= MaxStamps
         /\ page \in Nat /\ page >= 1 /\ page <= MaxStamps + 1 /\ total \in Nat /\ total <= MaxStamps /\ rows \in Nat
         /\ page * Limit \in Nat /\ (page - 1) * Limit \in Nat /\ (page - 1) * Limit < page * Limit
         /\ page * Limit - (page - 1) * Limit = Limit /\ rows <= page * Limit
         /\ IsFiniteSet(found) /\ Cardinality(found) \in Nat
         /\ IsFiniteSet(listed) /\ IsFiniteSet(before) /\ IsFiniteSet(counted)
<1>1. ledger \subseteq 1..clock /\ clock \in Nat /\ clock <= MaxStamps
      /\ page \in 1..(MaxStamps + 1) /\ total \in 0..MaxStamps /\ rows \in 0..(page * Limit)
      /\ found \subseteq ledger /\ listed \subseteq ledger /\ before \subseteq ledger /\ counted \subseteq ledger
  BY LedgerAssumption DEF LedgerTypes, Ledger!TypeOK
<1>2. IsFiniteSet(1..clock) /\ Cardinality(1..clock) = clock
  BY <1>1, FS_Interval
<1>3. IsFiniteSet(ledger) /\ Cardinality(ledger) <= clock /\ Cardinality(ledger) \in Nat
  BY <1>1, <1>2, FS_Subset, FS_CardinalityType
<1>4. IsFiniteSet(found) /\ IsFiniteSet(listed) /\ IsFiniteSet(before) /\ IsFiniteSet(counted)
  BY <1>1, <1>3, FS_Subset
<1>5. page \in Nat /\ page >= 1 /\ Limit \in Nat /\ Limit >= 1
  BY <1>1, LedgerAssumption
<1>6. page * Limit \in Nat /\ (page - 1) * Limit \in Nat /\ page * Limit - (page - 1) * Limit = Limit
  BY <1>5
<1> QED
  BY <1>1, <1>3, <1>4, <1>5, <1>6, LedgerAssumption, FS_CardinalityType

LEMMA LedgerAtFirst == Ledger!Init => LedgerInv
<1> SUFFICES ASSUME Ledger!Init PROVE LedgerInv
  OBVIOUS
<1>1. Cardinality({}) = 0
  BY FS_EmptySet
<1>2. Limit \in Nat /\ MaxStamps \in Nat /\ MaxReadings \in Nat
  BY LedgerAssumption
<1>3. Ledger!TypeOK
  <2>1. 1 * Limit \in Nat /\ 0 \in 0..(1 * Limit) /\ 1 \in 1..(MaxStamps + 1) /\ 0 \in 0..MaxStamps /\ 0 \in 0..MaxReadings
    BY <1>2
  <2>2. ledger = {} /\ clock = 0 /\ stamp = [w \in Writers |-> None] /\ reader = "idle" /\ page = 1 /\ total = 0
        /\ found = {} /\ rows = 0 /\ listed = {} /\ before = {} /\ counted = {} /\ readings = 0
    BY DEF Ledger!Init
  <2> QED
    BY <1>1, <1>2, <2>1, <2>2, SameCardinality DEF Ledger!TypeOK, Ledger!Entries
<1> QED
  BY <1>3 DEF Ledger!Init, LedgerInv, LedgerTypes, ReadingInv

(* A writer adds to the ledger only.                                        *)
LEMMA WritingKeeps ==
  ASSUME LedgerInv, NEW w \in Writers, Ledger!RecordEntry(w) \/ Ledger!CreateEntry(w)
  PROVE  LedgerInv'
<1>1. UNCHANGED <<reader, page, total, found, rows, listed, before, counted, readings>>
  BY DEF Ledger!RecordEntry, Ledger!CreateEntry, Ledger!reading
<1>2. /\ clock \in Nat /\ ledger \subseteq 1..clock /\ clock <= MaxStamps /\ MaxStamps \in Nat
      /\ stamp \in [Writers -> (1..clock) \cup {None}] /\ None \notin Nat
  BY LedgerAssumption, LedgerIs DEF LedgerInv, LedgerTypes, Ledger!TypeOK
<1>3. /\ clock' \in 0..MaxStamps /\ clock <= clock' /\ ledger \subseteq ledger' /\ ledger' \subseteq 1..clock'
      /\ stamp' \in [Writers -> (1..clock') \cup {None}]
  <2>1. CASE Ledger!RecordEntry(w)
    <3>1. clock < MaxStamps /\ clock' = clock + 1 /\ stamp' = [stamp EXCEPT ![w] = clock + 1] /\ ledger' = ledger
      BY <2>1 DEF Ledger!RecordEntry
    <3>2. \A x \in 1..clock : x \in 1..(clock + 1)
      BY <1>2
    <3>3. clock + 1 \in 1..(clock + 1)
      BY <1>2
    <3> QED
      BY <1>2, <3>1, <3>2, <3>3
  <2>2. CASE Ledger!CreateEntry(w)
    <3>1. stamp[w] # None /\ ledger' = ledger \cup {stamp[w]} /\ stamp' = [stamp EXCEPT ![w] = None] /\ clock' = clock
      BY <2>2 DEF Ledger!CreateEntry
    <3>2. stamp[w] \in 1..clock
      BY <1>2, <3>1
    <3>3. ledger' \subseteq 1..clock' /\ ledger \subseteq ledger'
      BY <1>2, <3>1, <3>2
    <3>4. stamp' \in [Writers -> (1..clock') \cup {None}]
      BY <1>2, <3>1
    <3> QED
      BY <1>2, <3>1, <3>3, <3>4
  <2> QED
    BY <2>1, <2>2
<1>4. LedgerTypes'
  <2>1. \A x \in 1..clock' : x \in 1..MaxStamps
    BY <1>2, <1>3
  <2>2. stamp' \in [Writers -> Ledger!Entries \cup {None}]
    BY <1>3, <2>1 DEF Ledger!Entries
  <2> QED
    BY <1>1, <1>3, <2>2 DEF LedgerInv, LedgerTypes, Ledger!TypeOK, Ledger!Entries
<1>5. ReadingInv'
  <2>1. /\ ledger' \in SUBSET Nat /\ IsFiniteSet(ledger') /\ Cardinality(ledger') \in Nat
    <3>1. ledger' \in SUBSET (1..clock') /\ clock' \in Nat
      BY <1>2, <1>3
    <3>2. IsFiniteSet(1..clock')
      BY <3>1, FS_Interval
    <3>3. IsFiniteSet(ledger')
      BY <3>1, <3>2, FS_Subset
    <3>4. Cardinality(ledger') \in Nat
      BY <3>3, FS_CardinalityType
    <3> QED
      BY <3>1, <3>3, <3>4
  <2>2. \A e : HowMany(ledger, e) \in Nat /\ HowMany(ledger', e) \in Nat /\ HowMany(ledger, e) <= HowMany(ledger', e)
    BY <1>3, <2>1, HowManyGrow
  <2>3. Cardinality(ledger) \in Nat /\ Cardinality(ledger) <= Cardinality(ledger')
    BY <1>3, <2>1, FS_Subset, LedgerIs DEF LedgerInv
  <2>4. Past' = Past /\ Seen' = Seen /\ RowsRead' = RowsRead
    BY <1>1 DEF Past, Seen, RowsRead
  <2>5. Past \in Nat /\ RowsRead \in Nat
    BY LedgerIs DEF Past, RowsRead, LedgerInv
  <2>6. reader # "idle" => \A e \in before' : e \in Seen' \/ HowMany(ledger', e) > Past'
    BY <1>1, <2>2, <2>4, <2>5 DEF LedgerInv, ReadingInv
  <2>7. reader # "idle" => RowsRead' <= Past' /\ RowsRead' <= Cardinality(ledger')
    BY <2>1, <2>3, <2>4, <2>5 DEF LedgerInv, ReadingInv
  <2> QED
    BY <1>1, <2>4, <2>6, <2>7 DEF LedgerInv, ReadingInv
<1> QED
  BY <1>4, <1>5 DEF LedgerInv

LEMMA BeginKeeps == LedgerInv /\ Ledger!GetInventoryLedger => LedgerInv'
<1> SUFFICES ASSUME LedgerInv, Ledger!GetInventoryLedger PROVE LedgerInv'
  OBVIOUS
<1>1. /\ readings < MaxReadings /\ readings' = readings + 1 /\ reader' = "count"
      /\ page' = 1 /\ rows' = 0 /\ listed' = {} /\ before' = ledger
      /\ UNCHANGED <<total, found, counted, ledger, clock, stamp>>
  BY DEF Ledger!GetInventoryLedger, Ledger!writing
<1>2. Limit \in Nat /\ MaxStamps \in Nat /\ MaxReadings \in Nat
  BY LedgerAssumption
<1>3. 1 * Limit \in Nat /\ (1 - 1) * Limit = 0
  BY <1>2
<1>4. 1 \in 1..(MaxStamps + 1) /\ rows' \in 0..(page' * Limit)
  BY <1>1, <1>2, <1>3
<1>5. readings' \in 0..MaxReadings
  BY <1>1, <1>2 DEF LedgerInv, LedgerTypes, Ledger!TypeOK
<1>6. LedgerTypes'
  BY <1>1, <1>4, <1>5 DEF LedgerInv, LedgerTypes, Ledger!TypeOK, Ledger!Entries
<1>7. \A e \in ledger : HowMany(ledger, e) \in 1..Cardinality(ledger)
  BY PlacesAre, LedgerIs DEF LedgerInv
<1>8. Past' = 0 /\ RowsRead' = 0
  BY <1>1, <1>3 DEF Past, RowsRead
<1>9. Cardinality(ledger) \in Nat
  BY LedgerIs DEF LedgerInv
<1>10. \A e \in ledger : HowMany(ledger, e) > 0
  BY <1>7, <1>9
<1>11. ReadingInv'
  BY <1>1, <1>8, <1>9, <1>10 DEF ReadingInv
<1> QED
  BY <1>6, <1>11 DEF LedgerInv

LEMMA CountKeeps == LedgerInv /\ Ledger!ListEntries => LedgerInv'
<1> SUFFICES ASSUME LedgerInv, Ledger!ListEntries PROVE LedgerInv'
  OBVIOUS
<1>1. /\ reader = "count" /\ reader' = "find" /\ total' = Cardinality(ledger) /\ counted' = ledger
      /\ UNCHANGED <<page, found, rows, listed, before, readings, ledger, clock, stamp>>
  BY SameCardinality DEF Ledger!ListEntries, Ledger!writing
<1>2. total' \in 0..MaxStamps
  BY <1>1, LedgerIs, LedgerAssumption DEF LedgerInv
<1>3. LedgerTypes'
  BY <1>1, <1>2 DEF LedgerInv, LedgerTypes, Ledger!TypeOK, Ledger!Entries
<1>4. ReadingInv'
  BY <1>1 DEF LedgerInv, ReadingInv, Past, Seen, RowsRead
<1> QED
  BY <1>3, <1>4 DEF LedgerInv

LEMMA FindKeeps == LedgerInv /\ Ledger!FindEntries => LedgerInv'
<1> SUFFICES ASSUME LedgerInv, Ledger!FindEntries PROVE LedgerInv'
  OBVIOUS
<1> DEFINE a == (page - 1) * Limit
           b == page * Limit
<1>1. /\ reader = "find" /\ reader' = "next"
      /\ UNCHANGED <<page, total, rows, listed, before, counted, readings, ledger, clock, stamp>>
      /\ found' = {e \in ledger : a < HowMany(ledger, e) /\ HowMany(ledger, e) <= b}
  BY SameCardinality DEF Ledger!FindEntries, Ledger!writing, Ledger!Paginate, Ledger!Place, HowMany
<1>2. /\ ledger \in SUBSET Nat /\ IsFiniteSet(ledger) /\ Cardinality(ledger) \in Nat
      /\ Cardinality(ledger) <= MaxStamps /\ MaxStamps \in Nat
      /\ a \in Nat /\ b \in Nat /\ a < b /\ b - a = Limit /\ rows \in Nat
      /\ page \in Nat /\ page >= 1 /\ Limit \in Nat /\ Limit >= 1
  <2>1. LedgerTypes
    BY DEF LedgerInv
  <2>2. Limit \in Nat /\ Limit >= 1 /\ MaxStamps \in Nat
    BY LedgerAssumption
  <2>3. clock \in Nat /\ Cardinality(ledger) <= clock /\ clock <= MaxStamps /\ Cardinality(ledger) \in Nat
    BY <2>1, LedgerIs
  <2>4. Cardinality(ledger) <= MaxStamps
    BY <2>2, <2>3
  <2>5. /\ ledger \in SUBSET Nat /\ IsFiniteSet(ledger)
        /\ a \in Nat /\ b \in Nat /\ a < b /\ b - a = Limit /\ rows \in Nat /\ page \in Nat /\ page >= 1
    BY <2>1, LedgerIs
  <2> QED
    BY <2>2, <2>3, <2>4, <2>5
<1>3. /\ found' \subseteq ledger /\ IsFiniteSet(found') /\ Cardinality(found') \in Nat
      /\ Cardinality(found') <= Limit
      /\ found' # {} => a + Cardinality(found') <= Cardinality(ledger)
      /\ found' = {} => Cardinality(ledger) <= a /\ Cardinality(found') = 0
  <2> HIDE DEF a, b
  <2> QED
    BY <1>1, <1>2, PageFacts
<1>4. LedgerTypes'
  <2>1. found' \cup listed' \subseteq ledger'
    BY <1>1, <1>3 DEF LedgerInv, LedgerTypes, Ledger!TypeOK
  <2> QED
    BY <1>1, <1>3, <2>1, SameCardinality DEF LedgerInv, LedgerTypes, Ledger!TypeOK, Ledger!Entries
<1>5. Past = a /\ Past' = b /\ Seen = listed /\ Seen' = listed \cup found' /\ RowsRead = rows
      /\ RowsRead' = rows + Cardinality(found')
  BY <1>1 DEF Past, Seen, RowsRead
<1>6. /\ \A e \in before : e \in listed \/ HowMany(ledger, e) > a
      /\ rows <= a /\ rows <= Cardinality(ledger) /\ total = Cardinality(counted)
  BY <1>1, <1>5 DEF LedgerInv, ReadingInv
<1>7. \A e \in before' : e \in Seen' \/ HowMany(ledger', e) > Past'
  <2> TAKE e \in before'
  <2>1. e \in ledger /\ e \in before
    BY <1>1 DEF LedgerInv, LedgerTypes, Ledger!TypeOK
  <2>2. HowMany(ledger, e) \in Nat
    BY <1>2, <2>1, PlacesAre
  <2> HIDE DEF a, b
  <2> QED
    BY <1>1, <1>2, <1>5, <1>6, <2>1, <2>2
<1>8. RowsRead' <= Past' /\ RowsRead' <= Cardinality(ledger')
  <2> HIDE DEF a, b
  <2> QED
    BY <1>1, <1>2, <1>3, <1>5, <1>6
<1>9. found' = {} => total' <= Past'
  <2>1. counted \in SUBSET ledger /\ total \in 0..MaxStamps
    BY DEF LedgerInv, LedgerTypes, Ledger!TypeOK
  <2>2. Cardinality(counted) <= Cardinality(ledger)
    BY <1>2, <2>1, FS_Subset
  <2> HIDE DEF a, b
  <2>3. total \in Nat /\ total <= Cardinality(ledger)
    BY <1>2, <1>6, <2>1, <2>2
  <2>4. found' = {} => Cardinality(ledger) <= b
    BY <1>2, <1>3
  <2>5. b \in Nat /\ Cardinality(ledger) \in Nat
    BY <1>2
  <2>6. found' = {} => total <= b
    BY <2>3, <2>4, <2>5
  <2>7. total' = total /\ Past' = b
    BY <1>1, <1>5
  <2> QED
    BY <2>6, <2>7
<1>10. found' # {} => page' <= MaxStamps
  <2>1. found' # {} => a < MaxStamps
    <3> HIDE DEF a, b
    <3>1. found' # {} => Cardinality(found') # 0
      BY <1>3, FS_EmptySet
    <3> QED
      BY <1>2, <1>3, <3>1
  <2>2. a >= page - 1
    BY <1>2
  <2> HIDE DEF a, b
  <2> QED
    BY <1>1, <1>2, <2>1, <2>2
<1>11. ReadingInv'
  <2> HIDE DEF a, b
  <2> QED
    BY <1>1, <1>6, <1>7, <1>8, <1>9, <1>10 DEF ReadingInv
<1> QED
  BY <1>4, <1>11 DEF LedgerInv

(* The pages before the last hold less than was counted.                    *)
LEMMA LastPage ==
  ASSUME NEW p \in Nat, NEW t \in Nat, NEW l \in Nat \ {0}, ~(p < (t + l - 1) \div l)
  PROVE  t <= p * l
<1> DEFINE q == (t + l - 1) \div l
<1>1. q \in Int /\ t + l - 1 < (q + 1) * l
  OBVIOUS
<1> HIDE DEF q
<1>2. q <= p
  BY <1>1 DEF q
<1>3. q * l <= p * l /\ (q + 1) * l = q * l + l /\ q * l \in Int /\ p * l \in Int
  BY <1>1, <1>2
<1> QED
  BY <1>1, <1>3

LEMMA NextPageKeeps == LedgerInv /\ Ledger!NextPage => LedgerInv'
<1> SUFFICES ASSUME LedgerInv, Ledger!NextPage PROVE LedgerInv'
  OBVIOUS
<1> DEFINE b == page * Limit
<1>1. /\ reader = "next" /\ rows' = rows + Cardinality(found) /\ listed' = listed \cup found
      /\ IF Ledger!HasMore /\ found # {}
         THEN reader' = "count" /\ page' = page + 1
         ELSE reader' = "done" /\ page' = page
      /\ UNCHANGED <<total, found, before, counted, readings, ledger, clock, stamp>>
  BY SameCardinality DEF Ledger!NextPage, Ledger!writing
<1>2. /\ Cardinality(ledger) \in Nat /\ page \in Nat /\ page >= 1 /\ page <= MaxStamps + 1 /\ Limit \in Nat \ {0}
      /\ b \in Nat /\ rows \in Nat /\ Cardinality(found) \in Nat /\ total \in Nat /\ MaxStamps \in Nat
  BY LedgerIs, LedgerAssumption DEF LedgerInv
<1>3. /\ \A e \in before : e \in listed \cup found \/ HowMany(ledger, e) > b
      /\ rows + Cardinality(found) <= b /\ rows + Cardinality(found) <= Cardinality(ledger)
      /\ total = Cardinality(counted)
      /\ found = {} => total <= b
      /\ found # {} => page <= MaxStamps
  BY <1>1 DEF LedgerInv, ReadingInv, Past, Seen, RowsRead
<1>4. found \cup listed \cup listed' \subseteq ledger
  BY <1>1 DEF LedgerInv, LedgerTypes, Ledger!TypeOK
<1>5. CASE Ledger!HasMore /\ found # {}
  <2>1. reader' = "count" /\ page' = page + 1
    BY <1>1, <1>5
  <2>2. (page' - 1) * Limit = b /\ page' * Limit = b + Limit
    BY <1>2, <2>1
  <2>3. page' \in 1..(MaxStamps + 1) /\ rows' \in 0..(page' * Limit)
    <3> HIDE DEF b
    <3> QED
      BY <1>1, <1>2, <1>3, <1>5, <2>1, <2>2
  <2>4. LedgerTypes'
    BY <1>1, <1>4, <2>1, <2>3 DEF LedgerInv, LedgerTypes, Ledger!TypeOK, Ledger!Entries
  <2>5. Past' = b /\ Seen' = listed' /\ RowsRead' = rows'
    BY <2>1, <2>2 DEF Past, Seen, RowsRead
  <2>6. ReadingInv'
    <3> HIDE DEF b
    <3> QED
      BY <1>1, <1>3, <2>1, <2>5 DEF ReadingInv
  <2> QED
    BY <2>4, <2>6 DEF LedgerInv
<1>6. CASE ~(Ledger!HasMore /\ found # {})
  <2>1. reader' = "done" /\ page' = page
    BY <1>1, <1>6
  <2>2. page' * Limit = b /\ rows' \in 0..(page' * Limit)
    BY <1>1, <1>2, <1>3, <2>1
  <2>3. LedgerTypes'
    BY <1>1, <1>4, <2>1, <2>2 DEF LedgerInv, LedgerTypes, Ledger!TypeOK, Ledger!Entries
  <2>4. Past' = b /\ Seen' = listed' /\ RowsRead' = rows'
    BY <2>1 DEF Past, Seen, RowsRead
  <2>5. total <= b
    <3>1. CASE found = {}
      BY <1>3, <3>1
    <3>2. CASE ~Ledger!HasMore
      BY <1>2, <3>2, LastPage DEF Ledger!HasMore
    <3> QED
      BY <1>6, <3>1, <3>2
  <2>6. ReadingInv'
    <3> HIDE DEF b
    <3> QED
      BY <1>1, <1>3, <2>1, <2>4, <2>5 DEF ReadingInv
  <2> QED
    BY <2>3, <2>6 DEF LedgerInv
<1> QED
  BY <1>5, <1>6

LEMMA EndKeeps == LedgerInv /\ (Ledger!AnswerReading \/ Ledger!ReadingFails) => LedgerInv'
<1> SUFFICES ASSUME LedgerInv, Ledger!AnswerReading \/ Ledger!ReadingFails PROVE LedgerInv'
  OBVIOUS
<1>1. /\ reader' = "idle"
      /\ UNCHANGED <<page, total, found, rows, listed, before, counted, readings, ledger, clock, stamp>>
  BY DEF Ledger!AnswerReading, Ledger!ReadingFails, Ledger!writing
<1> QED
  BY <1>1 DEF LedgerInv, LedgerTypes, Ledger!TypeOK, Ledger!Entries, ReadingInv

LEMMA LedgerStep == LedgerInv /\ [Ledger!Next]_ledgerVars => LedgerInv'
<1> SUFFICES ASSUME LedgerInv, [Ledger!Next]_ledgerVars PROVE LedgerInv'
  OBVIOUS
<1>1. CASE UNCHANGED ledgerVars
  BY <1>1 DEF ledgerVars, LedgerInv, LedgerTypes, Ledger!TypeOK, Ledger!Entries, ReadingInv, Past, Seen, RowsRead
<1> QED
  BY <1>1, WritingKeeps, BeginKeeps, CountKeeps, FindKeeps, NextPageKeeps, EndKeeps DEF Ledger!Next

LEMMA LedgerHolds == LedgerInv => Ledger!TypeOK /\ Ledger!EntriesListed
<1> SUFFICES ASSUME LedgerInv, reader = "done"
             PROVE  /\ listed \subseteq ledger
                    /\ Cardinality(before \ listed) <= Cardinality(ledger \ counted)
                    /\ rows - Cardinality(listed) <= Cardinality(ledger \ before)
  BY SameCardinality DEF LedgerInv, LedgerTypes, Ledger!EntriesListed
<1> DEFINE b == page * Limit
           n == Cardinality(ledger)
           New == Newest(ledger, b)
<1>1. /\ ledger \in SUBSET Nat /\ IsFiniteSet(ledger) /\ n \in Nat /\ b \in Nat /\ rows \in Nat /\ total \in Nat
      /\ IsFiniteSet(listed) /\ IsFiniteSet(before) /\ IsFiniteSet(counted)
  BY LedgerIs DEF LedgerInv
<1>2. /\ \A e \in before : e \in listed \/ HowMany(ledger, e) > b
      /\ rows <= b /\ rows <= n /\ total = Cardinality(counted) /\ total <= b
  BY DEF LedgerInv, ReadingInv, Past, Seen, RowsRead
<1>3. listed \subseteq ledger /\ before \subseteq ledger /\ counted \subseteq ledger
  BY DEF LedgerInv, LedgerTypes, Ledger!TypeOK
<1> HIDE DEF b
<1>4. /\ New \in SUBSET ledger /\ IsFiniteSet(New) /\ Cardinality(New) \in Nat
      /\ b <= n => Cardinality(New) = b
      /\ b >= n => Cardinality(New) = n
  BY <1>1, NewestSize, FS_CardinalityType
<1>5. before \ listed \subseteq ledger \ New
  <2> SUFFICES ASSUME NEW e \in before, e \notin listed PROVE e \in ledger /\ e \notin New
    OBVIOUS
  <2>1. e \in ledger /\ HowMany(ledger, e) > b /\ HowMany(ledger, e) \in Nat
    BY <1>1, <1>2, <1>3, PlacesAre
  <2> QED
    BY <1>1, <2>1 DEF Newest
<1>6. \A S \in SUBSET ledger : /\ IsFiniteSet(S) /\ IsFiniteSet(ledger \ S)
                              /\ Cardinality(S) \in Nat /\ Cardinality(ledger \ S) \in Nat
                              /\ Cardinality(ledger \ S) = n - Cardinality(S)
  <2> TAKE S \in SUBSET ledger
  <2>1. ledger \cap S = S
    OBVIOUS
  <2>2. IsFiniteSet(ledger \ S) /\ Cardinality(ledger \ S) = n - Cardinality(ledger \cap S)
    BY <1>1, FS_Difference
  <2> QED
    BY <1>1, <2>1, <2>2, FS_Subset, FS_CardinalityType
<1>7. /\ Cardinality(ledger \ New) = n - Cardinality(New)
      /\ Cardinality(ledger \ counted) = n - total
      /\ Cardinality(ledger \ before) = n - Cardinality(before)
      /\ IsFiniteSet(ledger \ New) /\ Cardinality(ledger \ counted) \in Nat
      /\ Cardinality(before) \in Nat /\ Cardinality(listed) \in Nat
  BY <1>2, <1>3, <1>4, <1>6
<1>8. IsFiniteSet(before \ listed) /\ Cardinality(before \ listed) \in Nat
      /\ Cardinality(before \ listed) <= n - Cardinality(New)
  BY <1>5, <1>7, FS_Subset, FS_CardinalityType
<1>9. Cardinality(before \ listed) <= n - total
  BY <1>1, <1>2, <1>4, <1>7, <1>8
<1>10. Cardinality(before) <= Cardinality(listed) + Cardinality(before \ listed)
  <2>1. IsFiniteSet(before \cap listed) /\ Cardinality(before \cap listed) <= Cardinality(listed)
        /\ Cardinality(before \cap listed) \in Nat
    BY <1>1, FS_Intersection, FS_CardinalityType
  <2>2. Cardinality(before \ listed) = Cardinality(before) - Cardinality(before \cap listed)
    BY <1>1, FS_Difference
  <2> QED
    BY <1>7, <1>8, <2>1, <2>2
<1>11. rows - Cardinality(listed) <= n - Cardinality(before)
  BY <1>1, <1>2, <1>4, <1>7, <1>8, <1>10
<1> QED
  BY <1>3, <1>7, <1>9, <1>11

-----------------------------------------------------------------------------
(***************************************************************************)
(* The broker.                                                             *)
(***************************************************************************)
LEMMA SeqParts ==
  ASSUME NEW S, NEW s \in Seq(S), s # <<>>
  PROVE  Head(s) \in S /\ Tail(s) \in Seq(S) /\ ToSet(s) = {Head(s)} \cup ToSet(Tail(s))
<1>1. /\ Head(s) = s[1] /\ Head(s) \in S /\ Tail(s) \in Seq(S) /\ Len(Tail(s)) = Len(s) - 1
      /\ DOMAIN Tail(s) = 1..(Len(s) - 1)
      /\ \A i \in 1..(Len(s) - 1) : Tail(s)[i] = s[i + 1]
      /\ DOMAIN s = 1..Len(s) /\ Len(s) \in Nat /\ Len(s) > 0
  OBVIOUS
<1>2. ASSUME NEW i \in DOMAIN s PROVE s[i] \in {Head(s)} \cup ToSet(Tail(s))
  <2>1. CASE i = 1
    BY <1>1, <2>1
  <2>2. CASE i # 1
    <3>1. i - 1 \in DOMAIN Tail(s) /\ Tail(s)[i - 1] = s[i]
      BY <1>1, <2>2
    <3> QED
      BY <3>1 DEF ToSet
  <2> QED
    BY <2>1, <2>2
<1>3. \A x \in ToSet(s) : x \in {Head(s)} \cup ToSet(Tail(s))
  BY <1>2 DEF ToSet
<1>4. Head(s) \in ToSet(s)
  <2>1. 1 \in DOMAIN s
    BY <1>1
  <2> QED
    BY <1>1, <2>1 DEF ToSet
<1>5. ASSUME NEW i \in DOMAIN Tail(s) PROVE Tail(s)[i] \in ToSet(s)
  <2>1. i + 1 \in DOMAIN s /\ Tail(s)[i] = s[i + 1]
    BY <1>1
  <2> QED
    BY <2>1 DEF ToSet
<1>6. \A x \in ToSet(Tail(s)) : x \in ToSet(s)
  BY <1>5 DEF ToSet
<1> QED
  BY <1>1, <1>3, <1>4, <1>6

(* What an actor does at the broker, what it must have declared by then,    *)
(* and when it has.                                                         *)
Starts == {"connect", "check", "declare", "consume"}
Stages == Starts \cup {"serving"}
SalesQueues == {"sales.order.created", "sales.order.updated", "system.audit.log", "sales.order.allocated"}
Works(a) ==
    CASE a = "scm" -> {"connect", "lock", "system.audit.log"}
      [] a = "system" -> {"check", "consume"}
      [] a = "mrp" -> {"connect", "declare", "consume", "system.audit.log", "system.deficit.pool"}
      [] a = "sales" -> {"connect", "sales.client.created"} \cup SalesQueues
      [] OTHER -> {"copy"}
WantedOfSCM == {{"system.dlx", "system.deficit.pool", "system.deficit.dlx"}, {"binding", "system.audit.log"}, {"owned"}}
Wanted(a, job) ==
    IF a \in {"scm", "reconciler"} THEN WantedOfSCM
    ELSE IF job \in Starts \cup {"lock", "copy"} THEN {}
    ELSE IF a = "mrp" THEN {{job}} ELSE {SalesQueues}
Plan(a, job) == IF a = "mrp" /\ job \notin Starts THEN <<{job}>> ELSE Broker!Setup(a, job)
Names == Broker!Names
Things == (SUBSET Names) \cup {{"owned"}, {"plain"}}
Declared(d) ==
    IF d = {"owned"} THEN reserved = "owned" ELSE IF d = {"plain"} THEN TRUE ELSE d \subseteq declared

LEMMA QueuesAre ==
  /\ Broker!Queues = {"system.deficit.pool", "system.deficit.reserved", "system.deficit.dlx",
                      "sales.client.created"} \cup SalesQueues
  /\ Broker!PoolQueue = "system.deficit.pool" /\ Broker!ReservedQueue = "system.deficit.reserved"
  /\ Broker!DLXExchange = "system.dlx" /\ Broker!DLXQueue = "system.deficit.dlx"
  /\ Broker!AuditQueue = "system.audit.log" /\ Broker!ClientCreated = "sales.client.created"
  /\ Broker!Servers = {"scm", "system", "mrp", "sales"}
  /\ Broker!Actors = {"scm", "system", "mrp", "sales", "reconciler"}
BY DEF Broker!Queues, Broker!PoolQueue, Broker!ReservedQueue, Broker!DLXExchange, Broker!DLXQueue,
       Broker!AuditQueue, Broker!OrderCreatedQueue, Broker!OrderUpdatedQueue, Broker!ClientCreated,
       Broker!UnreadQueues, Broker!Servers, Broker!Actors, SalesQueues

LEMMA PairOf ==
  ASSUME NEW S, NEW x \in S, NEW y \in S
  PROVE  /\ <<x>> \in Seq(S) /\ ToSet(<<x>>) = {x}
         /\ <<x, y>> \in Seq(S) /\ ToSet(<<x, y>>) = {x, y}
<1>1. ToSet(<<x>>) = {x}
  <2>1. DOMAIN <<x>> = {1} /\ <<x>>[1] = x
    OBVIOUS
  <2> QED
    BY <2>1 DEF ToSet
<1>2. ToSet(<<x, y>>) = {x, y}
  <2>1. DOMAIN <<x, y>> = {1, 2} /\ <<x, y>>[1] = x /\ <<x, y>>[2] = y
    OBVIOUS
  <2> QED
    BY <2>1 DEF ToSet
<1> QED
  BY <1>1, <1>2

(* Whatever an actor must have declared is in its list.                     *)
LEMMA PlansAre ==
  ASSUME NEW a \in Broker!Actors, NEW job \in Works(a)
  PROVE  Plan(a, job) \in Seq(Things) /\ Wanted(a, job) \subseteq ToSet(Plan(a, job))
<1>1. Names = {"system.deficit.pool", "system.deficit.reserved", "system.deficit.dlx",
               "sales.client.created", "system.dlx", "binding"} \cup SalesQueues
  BY QueuesAre DEF Names, Broker!Names
<1> DEFINE x == {"system.dlx", "system.deficit.pool", "system.deficit.dlx"}
           y == {"binding", "system.audit.log"}
           z == {"system.deficit.pool", "system.deficit.dlx", "system.audit.log"}
           u == {"system.audit.log", "system.deficit.pool", "sales.order.created", "sales.order.updated"}
<1>2. x \in Things /\ y \in Things /\ z \in Things /\ u \in Things /\ SalesQueues \in Things
      /\ {"owned"} \in Things /\ {"plain"} \in Things
  BY <1>1 DEF Things, SalesQueues
<1> HIDE DEF x, y, z, u
<1>3. CASE a \in {"scm", "reconciler"}
  <2>1. Plan(a, job) = <<x, y, {"owned"}>>
    BY <1>3 DEF Plan, Broker!Setup, Broker!SetupSCM, x, y, Broker!PoolQueue, Broker!DLXExchange,
       Broker!DLXQueue, Broker!AuditQueue
  <2>2. DOMAIN <<x, y, {"owned"}>> = {1, 2, 3}
    OBVIOUS
  <2>3. ToSet(<<x, y, {"owned"}>>) = {x, y, {"owned"}}
    BY <2>2 DEF ToSet
  <2>4. <<x, y, {"owned"}>> \in Seq(Things)
    BY <1>2
  <2>5. Wanted(a, job) = {x, y, {"owned"}}
    BY <1>3 DEF Wanted, WantedOfSCM, x, y
  <2> QED
    BY <2>1, <2>3, <2>4, <2>5
<1>4. CASE a = "system"
  <2>1. Wanted(a, job) = {}
    BY <1>4 DEF Works, Wanted, Starts
  <2>2. Plan(a, job) = <<z, {"owned"}>>
    BY <1>4 DEF Plan, Broker!Setup, Broker!SetupSystem, z, Broker!PoolQueue, Broker!DLXQueue, Broker!AuditQueue
  <2> QED
    BY <1>2, <2>1, <2>2, PairOf
<1>5. CASE a = "mrp" /\ job \in Starts
  <2>1. Wanted(a, job) = {}
    BY <1>5 DEF Wanted, Starts
  <2>2. job \in {"connect", "declare", "consume"}
    BY <1>5 DEF Works, Starts
  <2>3. Plan(a, job) \in {<<>>, <<u>>, <<u>> \o <<{"plain"}>>}
    BY <1>5, <2>2 DEF Plan, Broker!Setup, Broker!LogStartup, Broker!DeclareQueues, u, Broker!PoolQueue,
       Broker!AuditQueue, Broker!OrderCreatedQueue, Broker!OrderUpdatedQueue
  <2>4. <<u>> \in Seq(Things) /\ <<u>> \o <<{"plain"}>> \in Seq(Things) /\ <<>> \in Seq(Things)
    BY <1>2
  <2> QED
    BY <2>1, <2>3, <2>4
<1>6. CASE a = "mrp" /\ job \notin Starts
  <2>1. job \in {"system.audit.log", "system.deficit.pool"}
    BY <1>6 DEF Works, Starts
  <2>2. Plan(a, job) = <<{job}>> /\ Wanted(a, job) = {{job}}
    BY <1>6, <2>1 DEF Plan, Wanted
  <2>3. {job} \in Things
    BY <1>1, <2>1 DEF Things, SalesQueues
  <2> QED
    BY <2>2, <2>3, PairOf
<1>7. CASE a = "sales"
  <2>1. CASE job = "connect"
    <3>1. Plan(a, job) = <<>>
      BY <1>7, <2>1 DEF Plan, Broker!Setup
    <3>2. Wanted(a, job) = {}
      BY <1>7, <2>1 DEF Wanted, Starts
    <3>3. <<>> \in Seq(Things)
      OBVIOUS
    <3> QED
      BY <3>1, <3>2, <3>3
  <2>2. CASE job # "connect"
    <3>1. Plan(a, job) = <<SalesQueues>>
      BY <1>7, <2>2 DEF Plan, Broker!Setup, Broker!SetupSales, SalesQueues, Broker!OrderCreatedQueue,
         Broker!OrderUpdatedQueue, Broker!AuditQueue, Broker!UnreadQueues
    <3>2. Wanted(a, job) \subseteq {SalesQueues}
      BY <1>7 DEF Wanted
    <3> QED
      BY <1>2, <3>1, <3>2, PairOf
  <2> QED
    BY <2>1, <2>2
<1> QED
  BY <1>3, <1>4, <1>5, <1>6, <1>7, QueuesAre

LEMMA StagesAre ==
  ASSUME NEW s \in Broker!Servers, NEW stage \in Broker!Range(Broker!Stages(s)), stage # "serving"
  PROVE  /\ Broker!NextStage(s, stage) \in Broker!Range(Broker!Stages(s))
         /\ stage \in Works(s) \cap Starts
         /\ stage = "consume" => s \in {"system", "mrp"}
<1> DEFINE t == Broker!Stages(s)
<1>1. s \in {"scm", "system", "mrp", "sales"}
  BY QueuesAre
<1>2. t \in {<<"connect", "serving">>, <<"check", "consume", "serving">>, <<"connect", "declare", "consume", "serving">>}
  BY <1>1 DEF Broker!Stages
<1>3. \E j \in 1..Len(t) : t[j] = stage
  BY <1>2 DEF Broker!Range
<1>4. PICK i \in 1..Len(t) : t[i] = stage /\ Broker!NextStage(s, stage) = t[i + 1]
  BY <1>3 DEF Broker!NextStage
<1>5. i + 1 \in DOMAIN t
  BY <1>2, <1>4
<1>6. Broker!NextStage(s, stage) \in Broker!Range(t)
  BY <1>4, <1>5 DEF Broker!Range
<1>7. stage \in Works(s) \cap Starts /\ (stage = "consume" => s \in {"system", "mrp"})
  BY <1>1, <1>4 DEF Broker!Stages, Works, Starts
<1> QED
  BY <1>6, <1>7

(* What holds of the broker and of those who are connected to it.           *)
Links == [job: Broker!Jobs, left: Seq(Things), alive: BOOLEAN]
ServersOK ==
    /\ at \in [Broker!Servers -> {"off"} \cup Stages]
    /\ \A s \in Broker!Servers : at[s] \in {"off"} \cup Broker!Range(Broker!Stages(s))
    /\ started \in [Broker!Servers -> 0..MaxStartsOfEach]
    /\ available \subseteq Broker!Servers /\ consuming \subseteq {"system", "mrp"}
    /\ sent \in 0..MaxMessages /\ failures \in 0..MaxFailures
LinkOK(a) ==
    conn[a] # None =>
      /\ conn[a].job \in Works(a)
      /\ a \in Broker!Servers => at[a] # "off" /\ (at[a] # "serving" => conn[a].job = at[a])
LinksOK == conn \in [Broker!Actors -> {None} \cup Links] /\ \A a \in Broker!Actors : LinkOK(a)
WantsOK ==
    \A a \in Broker!Actors : conn[a] # None =>
      \A d \in Wanted(a, conn[a].job) : d \in ToSet(conn[a].left) \/ Declared(d)
KnownLosses ==
    {<<"sales.client.created", "no queue">>, <<"system.deficit.pool", "stop">>, <<"system.deficit.dlx", "stop">>}
QueuesOK ==
    /\ up \in BOOLEAN /\ declared \subseteq Names /\ reserved \in {None, "owned", "plain"}
    /\ kept \in [Broker!Queues -> Nat] /\ light \in [Broker!Queues -> Nat]
    /\ \A q \in Broker!Queues : light[q] > 0 => q \in {"system.deficit.pool", "system.deficit.dlx"}
    /\ kept["system.deficit.reserved"] > 0 =>
         reserved = "owned" /\ {"system.dlx", "system.deficit.dlx", "binding"} \subseteq declared
    /\ gone \subseteq KnownLosses
BrokerInv == ServersOK /\ LinksOK /\ WantsOK /\ QueuesOK

(* What is declared stays so.                                               *)
Grow == declared \subseteq declared' /\ (reserved = "owned" => reserved' = "owned")
LEMMA DeclaredStays ==
  ASSUME NEW d, Declared(d), Grow
  PROVE  Declared(d)'
BY DEF Declared, Grow

LEMMA StageNames ==
  ASSUME NEW s \in Broker!Servers
  PROVE  Broker!Range(Broker!Stages(s)) \subseteq Stages
<1>1. Broker!Stages(s) \in {<<"connect", "serving">>, <<"check", "consume", "serving">>, <<"connect", "declare", "consume", "serving">>}
  BY QueuesAre DEF Broker!Stages
<1>2. \A i \in DOMAIN Broker!Stages(s) : Broker!Stages(s)[i] \in Stages
  BY <1>1 DEF Stages, Starts
<1> QED
  BY <1>2 DEF Broker!Range

LEMMA FinishKeeps ==
  ASSUME ServersOK, LinksOK, WantsOK, Grow, NEW a \in Broker!Actors, NEW job, NEW ok \in BOOLEAN,
         Broker!Starting(a) => job = at[a] /\ at[a] # "off", Broker!Finish(a, job, ok)
  PROVE  ServersOK' /\ LinksOK' /\ WantsOK'
<1>1. /\ conn' = [conn EXCEPT ![a] = None]
      /\ at' = IF Broker!Starting(a) THEN [at EXCEPT ![a] = Broker!NextStage(a, job)] ELSE at
      /\ available' = Broker!Enabled(a, job, ok) /\ consuming' = Broker!Subscribed(a, job, ok)
      /\ sent' = sent /\ started' = started /\ failures' = failures
  BY DEF Broker!Finish
<1>2. ASSUME Broker!Starting(a)
      PROVE  /\ a \in Broker!Servers /\ Broker!NextStage(a, job) \in Broker!Range(Broker!Stages(a))
             /\ job = "consume" => a \in {"system", "mrp"}
  <2>1. a \in Broker!Servers /\ at[a] # "serving" /\ job = at[a] /\ job # "off"
    BY <1>2 DEF Broker!Starting
  <2>2. job \in Broker!Range(Broker!Stages(a))
    BY <2>1 DEF ServersOK
  <2> QED
    BY <2>1, <2>2, StagesAre
<1>3. Broker!NextStage(a, job) \in Stages \/ ~Broker!Starting(a)
  BY <1>2, StageNames
<1>4. \A s \in Broker!Servers : s # a => at'[s] = at[s]
  BY <1>1 DEF ServersOK
<1>5. ServersOK'
  <2>1. at' \in [Broker!Servers -> {"off"} \cup Stages] /\ \A s \in Broker!Servers : at'[s] \in {"off"} \cup Broker!Range(Broker!Stages(s))
    BY <1>1, <1>2, <1>3 DEF ServersOK
  <2>2. available' \subseteq Broker!Servers /\ consuming' \subseteq {"system", "mrp"}
    BY <1>1, <1>2 DEF ServersOK, Broker!Enabled, Broker!Subscribed
  <2> QED
    BY <1>1, <2>1, <2>2 DEF ServersOK
<1>6. LinksOK'
  BY <1>1, <1>4 DEF LinksOK, LinkOK
<1>7. WantsOK'
  <2> SUFFICES ASSUME NEW b \in Broker!Actors, conn'[b] # None, NEW d \in Wanted(b, conn'[b].job)
               PROVE  d \in ToSet(conn'[b].left) \/ Declared(d)'
    BY DEF WantsOK
  <2>1. conn'[b] = conn[b]
    BY <1>1 DEF LinksOK
  <2>2. d \in ToSet(conn[b].left) \/ Declared(d)
    BY <2>1 DEF WantsOK
  <2> QED
    BY <2>1, <2>2, DeclaredStays
<1> QED
  BY <1>5, <1>6, <1>7

LEMMA OpenKeeps ==
  ASSUME LinksOK, WantsOK, Grow, NEW a \in Broker!Actors, NEW job \in Works(a),
         a \in Broker!Servers => at[a] # "off" /\ (at[a] # "serving" => job = at[a]),
         Broker!Open(a, job, Plan(a, job)), at' = at
  PROVE  LinksOK' /\ WantsOK'
<1>1. conn' = [conn EXCEPT ![a] = [job |-> job, left |-> Plan(a, job), alive |-> TRUE]]
  BY DEF Broker!Open
<1>2. Plan(a, job) \in Seq(Things) /\ Wanted(a, job) \subseteq ToSet(Plan(a, job))
  BY PlansAre
<1>3. job \in Broker!Jobs
  BY QueuesAre DEF Works, SalesQueues, Broker!Jobs
<1>4. [job |-> job, left |-> Plan(a, job), alive |-> TRUE] \in Links
  BY <1>2, <1>3 DEF Links
<1>5. LinksOK'
  <2>1. conn' \in [Broker!Actors -> {None} \cup Links]
    BY <1>1, <1>4 DEF LinksOK
  <2>2. ASSUME NEW b \in Broker!Actors PROVE LinkOK(b)'
    <3>1. CASE b = a
      BY <1>1, <3>1 DEF LinksOK, LinkOK
    <3>2. CASE b # a
      BY <1>1, <3>2 DEF LinksOK, LinkOK
    <3> QED
      BY <3>1, <3>2
  <2> QED
    BY <2>1, <2>2 DEF LinksOK
<1>6. WantsOK'
  <2> SUFFICES ASSUME NEW b \in Broker!Actors, conn'[b] # None, NEW d \in Wanted(b, conn'[b].job)
               PROVE  d \in ToSet(conn'[b].left) \/ Declared(d)'
    BY DEF WantsOK
  <2>1. CASE b = a
    <3>1. conn'[b].job = job /\ conn'[b].left = Plan(a, job)
      BY <1>1, <2>1 DEF LinksOK
    <3> QED
      BY <1>2, <2>1, <3>1
  <2>2. CASE b # a
    <3>1. conn'[b] = conn[b]
      BY <1>1, <2>2 DEF LinksOK
    <3>2. d \in ToSet(conn[b].left) \/ Declared(d)
      BY <3>1 DEF WantsOK
    <3> QED
      BY <3>1, <3>2, DeclaredStays
  <2> QED
    BY <2>1, <2>2
<1> QED
  BY <1>5, <1>6

(* The steps, one lemma for each kind.                                      *)
LEMMA QueuesStay ==
  ASSUME QueuesOK, UNCHANGED Broker!broker
  PROVE  QueuesOK' /\ Grow
BY DEF QueuesOK, Broker!broker, Grow

LEMMA StartKeeps ==
  ASSUME BrokerInv, NEW s \in Broker!Servers, Broker!Start(s)
  PROVE  BrokerInv'
<1>1. /\ at[s] = "off" /\ started[s] < MaxStartsOfEach
      /\ started' = [started EXCEPT ![s] = @ + 1]
      /\ at' = [at EXCEPT ![s] = Broker!Stages(s)[1]]
      /\ UNCHANGED Broker!broker /\ conn' = conn /\ available' = available /\ consuming' = consuming
      /\ sent' = sent /\ failures' = failures
  BY DEF Broker!Start
<1>2. 1 \in DOMAIN Broker!Stages(s)
  BY QueuesAre DEF Broker!Stages
<1>3. Broker!Stages(s)[1] \in Broker!Range(Broker!Stages(s))
  BY <1>2 DEF Broker!Range
<1>4. ServersOK'
  <2>1. at' \in [Broker!Servers -> {"off"} \cup Stages]
    BY <1>1, <1>3, StageNames DEF BrokerInv, ServersOK
  <2>2. \A b \in Broker!Servers : at'[b] \in {"off"} \cup Broker!Range(Broker!Stages(b))
    BY <1>1, <1>3 DEF BrokerInv, ServersOK
  <2>3. started' \in [Broker!Servers -> 0..MaxStartsOfEach]
    BY <1>1, BrokerAssumption DEF BrokerInv, ServersOK
  <2> QED
    BY <1>1, <2>1, <2>2, <2>3 DEF BrokerInv, ServersOK
<1>5. LinksOK'
  <2>1. conn[s] = None
    BY <1>1, QueuesAre DEF BrokerInv, LinksOK, LinkOK
  <2>2. \A b \in Broker!Servers : b # s => at'[b] = at[b]
    BY <1>1 DEF BrokerInv, ServersOK
  <2> QED
    BY <1>1, <2>1, <2>2 DEF BrokerInv, LinksOK, LinkOK
<1>6. WantsOK'
  BY <1>1 DEF BrokerInv, WantsOK, Broker!broker, Declared
<1> QED
  BY <1>1, <1>4, <1>5, <1>6, QueuesStay DEF BrokerInv

LEMMA DialKeeps ==
  ASSUME BrokerInv, NEW s \in Broker!Servers, Broker!Dial(s)
  PROVE  BrokerInv'
<1>1. /\ at[s] \notin {"off", "serving"} /\ conn[s] = None /\ UNCHANGED Broker!broker
      /\ s \in Broker!Actors
  BY DEF Broker!Dial, Broker!Actors
<1>2. QueuesOK' /\ Grow
  BY <1>1, QueuesStay DEF BrokerInv
<1>3. CASE up /\ (at[s] = "declare" => s \in available)
  <2>1. /\ Broker!Open(s, at[s], Broker!Setup(s, at[s])) /\ at' = at
        /\ available' = available /\ consuming' = consuming /\ sent' = sent /\ started' = started
        /\ failures' = failures
    BY <1>3 DEF Broker!Dial
  <2>2. at[s] \in Works(s) \cap Starts
    <3>1. at[s] \in Broker!Range(Broker!Stages(s))
      BY <1>1 DEF BrokerInv, ServersOK
    <3> QED
      BY <1>1, <3>1, StagesAre
  <2>3. Plan(s, at[s]) = Broker!Setup(s, at[s])
    BY <2>2 DEF Plan
  <2>4. LinksOK' /\ WantsOK'
    BY <1>1, <1>2, <2>1, <2>2, <2>3, OpenKeeps DEF BrokerInv
  <2> QED
    BY <1>2, <2>1, <2>4 DEF BrokerInv, ServersOK
<1>4. CASE ~(up /\ (at[s] = "declare" => s \in available))
  <2>1. Broker!Finish(s, at[s], FALSE)
    BY <1>4 DEF Broker!Dial
  <2> QED
    BY <1>1, <1>2, <2>1, FinishKeeps DEF BrokerInv
<1> QED
  BY <1>3, <1>4

LEMMA DeclareKeeps ==
  ASSUME BrokerInv, NEW a \in Broker!Actors, Broker!Declare(a)
  PROVE  BrokerInv'
<1>0. PICK d : d = Head(conn[a].left)
  OBVIOUS
<1> DEFINE goesOn == /\ conn' = [conn EXCEPT ![a].left = Tail(@)]
                     /\ at' = at /\ available' = available /\ consuming' = consuming
                     /\ sent' = sent /\ started' = started /\ failures' = failures
<1>1. /\ conn[a] # None /\ conn[a].left # <<>>
      /\ up' = up /\ kept' = kept /\ light' = light /\ gone' = gone
  BY DEF Broker!Declare
<1>2. /\ conn[a] \in Links /\ conn[a].left \in Seq(Things) /\ conn[a].job \in Works(a)
      /\ a \in Broker!Servers => at[a] # "off" /\ (at[a] # "serving" => conn[a].job = at[a])
  BY <1>1 DEF BrokerInv, LinksOK, LinkOK, Links
<1>3. d \in Things /\ Tail(conn[a].left) \in Seq(Things) /\ ToSet(conn[a].left) = {d} \cup ToSet(Tail(conn[a].left))
  BY <1>0, <1>1, <1>2, SeqParts
<1>4. ASSUME goesOn, Grow, Declared(d)'
      PROVE  ServersOK' /\ LinksOK' /\ WantsOK'
  <2>1. ServersOK'
    BY <1>4 DEF BrokerInv, ServersOK
  <2>2. conn'[a] = [conn[a] EXCEPT !.left = Tail(@)] /\ \A b \in Broker!Actors : b # a => conn'[b] = conn[b]
    BY <1>4 DEF BrokerInv, LinksOK
  <2>3. conn'[a] \in Links /\ conn'[a].job = conn[a].job /\ conn'[a].left = Tail(conn[a].left)
    BY <1>2, <1>3, <2>2 DEF Links
  <2>4. LinksOK'
    <3>1. conn' \in [Broker!Actors -> {None} \cup Links]
      BY <1>4, <2>2, <2>3 DEF BrokerInv, LinksOK
    <3>2. ASSUME NEW b \in Broker!Actors PROVE LinkOK(b)'
      <4>1. CASE b = a
        BY <1>2, <1>4, <2>3, <4>1 DEF LinkOK
      <4>2. CASE b # a
        BY <1>4, <2>2, <4>2 DEF BrokerInv, LinksOK, LinkOK
      <4> QED
        BY <4>1, <4>2
    <3> QED
      BY <3>1, <3>2 DEF LinksOK
  <2>5. WantsOK'
    <3> SUFFICES ASSUME NEW b \in Broker!Actors, conn'[b] # None, NEW e \in Wanted(b, conn'[b].job)
                 PROVE  e \in ToSet(conn'[b].left) \/ Declared(e)'
      BY DEF WantsOK
    <3>1. CASE b = a
      <4>1. e \in ToSet(conn[a].left) \/ Declared(e)
        BY <1>1, <2>3, <3>1 DEF BrokerInv, WantsOK
      <4>2. CASE e = d
        BY <1>4, <4>2
      <4>3. CASE e # d
        <5>1. e \in ToSet(Tail(conn[a].left)) \/ Declared(e)
          BY <1>3, <4>1, <4>3
        <5> QED
          BY <1>4, <2>3, <3>1, <5>1, DeclaredStays
      <4> QED
        BY <4>2, <4>3
    <3>2. CASE b # a
      <4>1. e \in ToSet(conn[b].left) \/ Declared(e)
        BY <2>2, <3>2 DEF BrokerInv, WantsOK
      <4> QED
        BY <1>4, <2>2, <3>2, <4>1, DeclaredStays
    <3> QED
      BY <3>1, <3>2
  <2> QED
    BY <2>1, <2>4, <2>5
<1>5. CASE d \in {{"owned"}, {"plain"}}
  <2>1. /\ reserved' = IF reserved = None THEN CHOOSE k \in d : TRUE ELSE reserved
        /\ declared' = declared
        /\ IF d = {"owned"} /\ reserved = "plain" THEN Broker!Finish(a, conn[a].job, FALSE) ELSE goesOn
    BY <1>0, <1>5 DEF Broker!Declare
  <2>2. (CHOOSE k \in d : TRUE) \in d
    BY <1>5
  <2>3. Grow
    BY <2>1, BrokerAssumption DEF Grow
  <2>4. QueuesOK'
    BY <1>1, <1>5, <2>1, <2>2, BrokerAssumption DEF BrokerInv, QueuesOK
  <2>5. CASE d = {"owned"} /\ reserved = "plain"
    <3>1. Broker!Finish(a, conn[a].job, FALSE)
      BY <2>1, <2>5
    <3> QED
      BY <1>2, <2>3, <2>4, <3>1, FinishKeeps DEF BrokerInv, Broker!Starting
  <2>6. CASE ~(d = {"owned"} /\ reserved = "plain")
    <3>1. Declared(d)'
      <4>1. CASE d = {"owned"}
        <5>1. reserved' = "owned"
          BY <2>1, <2>2, <2>6, <4>1 DEF BrokerInv, QueuesOK
        <5> QED
          BY <4>1, <5>1 DEF Declared
      <4>2. CASE d # {"owned"}
        BY <1>5, <4>2 DEF Declared
      <4> QED
        BY <4>1, <4>2
    <3> QED
      BY <1>4, <2>1, <2>3, <2>4, <2>6, <3>1 DEF BrokerInv
  <2> QED
    BY <2>5, <2>6
<1>6. CASE d \notin {{"owned"}, {"plain"}}
  <2>1. declared' = declared \cup d /\ goesOn /\ reserved' = reserved
    BY <1>0, <1>6 DEF Broker!Declare
  <2>2. d \subseteq Names
    BY <1>3, <1>6 DEF Things
  <2>3. Grow /\ Declared(d)'
    BY <1>6, <2>1 DEF Grow, Declared
  <2>4. QueuesOK'
    BY <1>1, <2>1, <2>2 DEF BrokerInv, QueuesOK
  <2> QED
    BY <1>4, <2>1, <2>3, <2>4 DEF BrokerInv
<1> QED
  BY <1>5, <1>6

LEMMA LoseLinkKeeps ==
  ASSUME BrokerInv, NEW a \in Broker!Actors, Broker!LoseLink(a)
  PROVE  BrokerInv'
<1>1. conn[a] # None /\ Broker!Finish(a, conn[a].job, FALSE) /\ UNCHANGED Broker!broker
  BY DEF Broker!LoseLink
<1>2. Broker!Starting(a) => conn[a].job = at[a] /\ at[a] # "off"
  BY <1>1 DEF BrokerInv, LinksOK, LinkOK, Broker!Starting
<1> QED
  BY <1>1, <1>2, QueuesStay, FinishKeeps DEF BrokerInv

(* Whoever is ready has everything declared that the job wants.             *)
LEMMA ReadyHas ==
  ASSUME BrokerInv, NEW a \in Broker!Actors, NEW job, Broker!Ready(a, job)
  PROVE  /\ job \in Works(a) /\ conn[a] # None
         /\ Broker!Starting(a) => job = at[a] /\ at[a] # "off"
         /\ \A d \in Wanted(a, job) : Declared(d)
<1>1. conn[a] # None /\ conn[a].left = <<>> /\ conn[a].job = job
  BY DEF Broker!Ready
<1>2. job \in Works(a) /\ (Broker!Starting(a) => job = at[a] /\ at[a] # "off")
  BY <1>1 DEF BrokerInv, LinksOK, LinkOK, Broker!Starting
<1>3. ToSet(conn[a].left) = {}
  BY <1>1 DEF ToSet
<1> QED
  BY <1>1, <1>2, <1>3 DEF BrokerInv, WantsOK

LEMMA FinishStageKeeps ==
  ASSUME BrokerInv, NEW s \in Broker!Servers, Broker!FinishStage(s)
  PROVE  BrokerInv'
<1>1. PICK job \in {"connect", "check", "declare", "consume"} : Broker!Ready(s, job) /\ Broker!Finish(s, job, TRUE)
  BY DEF Broker!FinishStage
<1>2. UNCHANGED Broker!broker /\ s \in Broker!Actors
  BY DEF Broker!FinishStage, Broker!Actors
<1> QED
  BY <1>1, <1>2, ReadyHas, QueuesStay, FinishKeeps DEF BrokerInv

LEMMA BeginPublishKeeps ==
  ASSUME BrokerInv, NEW s \in Broker!Servers, NEW q \in Broker!Publishes(s), Broker!BeginPublish(s, q)
  PROVE  BrokerInv'
<1>1. /\ at[s] = "serving" /\ sent < MaxMessages /\ sent' = sent + 1
      /\ Broker!Open(s, q, Broker!ToDeclare(s, q))
      /\ UNCHANGED Broker!broker /\ at' = at /\ available' = available /\ consuming' = consuming
      /\ started' = started /\ failures' = failures /\ s \in Broker!Actors
  BY DEF Broker!BeginPublish, Broker!Actors
<1>2. q \in Works(s) /\ q \notin Starts
  BY QueuesAre DEF Broker!Publishes, Broker!UnreadQueues, Broker!OrderCreatedQueue, Broker!OrderUpdatedQueue,
     Works, SalesQueues, Starts
<1>3. Broker!ToDeclare(s, q) = Plan(s, q)
  BY <1>2 DEF Broker!ToDeclare, Plan
<1>4. LinksOK' /\ WantsOK' /\ QueuesOK'
  BY <1>1, <1>2, <1>3, QueuesStay, OpenKeeps DEF BrokerInv
<1>5. ServersOK'
  BY <1>1, BrokerAssumption DEF BrokerInv, ServersOK
<1> QED
  BY <1>4, <1>5 DEF BrokerInv

LEMMA FinishPublishKeeps ==
  ASSUME BrokerInv, NEW s \in Broker!Servers, Broker!FinishPublish(s)
  PROVE  BrokerInv'
<1>1. PICK q \in Broker!Queues : Broker!Ready(s, q) /\ Broker!PublishTo(q, TRUE) /\ Broker!Finish(s, q, TRUE)
  BY DEF Broker!FinishPublish
<1>2. up' = up /\ declared' = declared /\ reserved' = reserved /\ s \in Broker!Actors
  BY DEF Broker!FinishPublish, Broker!Actors
<1>3. q \in Works(s) /\ (Broker!Starting(s) => q = at[s] /\ at[s] # "off") /\ \A d \in Wanted(s, q) : Declared(d)
  BY <1>1, <1>2, ReadyHas
<1>4. Grow
  BY <1>2 DEF Grow
<1>5. /\ q # "system.deficit.reserved"
      /\ q = "sales.client.created" \/ q \in declared
  <2>1. CASE s = "scm"
    <3>1. q = "system.audit.log"
      BY <1>1, <1>3, <2>1, QueuesAre DEF Works, SalesQueues
    <3>2. {"binding", "system.audit.log"} \subseteq declared
      BY <1>3, <2>1, <3>1 DEF Wanted, WantedOfSCM, Declared
    <3> QED
      BY <3>1, <3>2
  <2>2. CASE s = "mrp"
    <3>1. q \in {"system.audit.log", "system.deficit.pool"}
      BY <1>1, <1>3, <2>2, QueuesAre DEF Works, SalesQueues
    <3>2. {q} \subseteq declared
      BY <1>3, <2>2, <3>1 DEF Wanted, Starts, Declared
    <3> QED
      BY <3>1, <3>2
  <2>3. CASE s = "sales"
    <3>1. q \in {"sales.client.created"} \cup SalesQueues
      BY <1>1, <1>3, <2>3, QueuesAre DEF Works, SalesQueues
    <3>2. SalesQueues \subseteq declared
      <4>1. Declared(SalesQueues)
        BY <1>3, <2>3, <3>1 DEF Wanted, Starts, SalesQueues
      <4>2. SalesQueues # {"owned"} /\ SalesQueues # {"plain"}
        BY DEF SalesQueues
      <4> QED
        BY <4>1, <4>2 DEF Declared
    <3> QED
      BY <3>1, <3>2 DEF SalesQueues
  <2>4. CASE s = "system"
    BY <1>1, <1>3, <2>4, QueuesAre DEF Works, SalesQueues
  <2> QED
    BY <2>1, <2>2, <2>3, <2>4, QueuesAre
<1>6. QueuesOK'
  <2>1. /\ kept' = (IF Broker!Exists(q) THEN [kept EXCEPT ![q] = @ + 1] ELSE kept)
        /\ light' = light
        /\ gone' = (IF Broker!Exists(q) THEN gone ELSE gone \cup {<<q, "no queue">>})
    BY <1>1 DEF Broker!PublishTo
  <2>2. kept' \in [Broker!Queues -> Nat] /\ kept'["system.deficit.reserved"] = kept["system.deficit.reserved"]
    <3>1. kept \in [Broker!Queues -> Nat] /\ "system.deficit.reserved" \in Broker!Queues
      BY QueuesAre DEF BrokerInv, QueuesOK
    <3>2. kept[q] + 1 \in Nat
      BY <1>1, <3>1
    <3> QED
      BY <1>1, <1>5, <2>1, <3>1, <3>2
  <2>3. gone' \subseteq KnownLosses
    <3>1. CASE q = "sales.client.created"
      BY <2>1, <3>1 DEF BrokerInv, QueuesOK, KnownLosses
    <3>2. CASE q # "sales.client.created"
      <4>1. Broker!Exists(q)
        BY <1>5, <3>2, QueuesAre DEF Broker!Exists
      <4> QED
        BY <2>1, <4>1 DEF BrokerInv, QueuesOK
    <3> QED
      BY <3>1, <3>2
  <2> QED
    BY <1>2, <2>1, <2>2, <2>3 DEF BrokerInv, QueuesOK
<1> QED
  BY <1>1, <1>2, <1>3, <1>4, <1>6, FinishKeeps DEF BrokerInv

LEMMA MoveKeeps ==
  ASSUME QueuesOK, NEW from \in Broker!Queues, NEW to \in Broker!Queues, NEW persistent \in BOOLEAN,
         Broker!Move(from, to, persistent), from # "system.deficit.reserved",
         persistent \/ to \in {"system.deficit.pool", "system.deficit.dlx"},
         to = "system.deficit.reserved" =>
           reserved = "owned" /\ {"system.dlx", "system.deficit.dlx", "binding"} \subseteq declared,
         up' = up, declared' = declared, reserved' = reserved, gone' = gone
  PROVE  QueuesOK'
<1> DEFINE One(yes, q, place) == IF yes /\ q = place THEN 1 ELSE 0
<1>1. PICK wasKept \in BOOLEAN :
        /\ (IF wasKept THEN kept[from] ELSE light[from]) > 0
        /\ kept' = [q \in Broker!Queues |-> kept[q] - One(wasKept, q, from) + One(persistent, q, to)]
        /\ light' = [q \in Broker!Queues |-> light[q] - One(~wasKept, q, from) + One(~persistent, q, to)]
  BY DEF Broker!Move
<1>2. ASSUME NEW q \in Broker!Queues
      PROVE  /\ kept'[q] \in Nat /\ light'[q] \in Nat
             /\ light'[q] > 0 => light[q] > 0 \/ (~persistent /\ q = to)
             /\ kept'[q] > 0 => kept[q] > 0 \/ (persistent /\ q = to)
  <2>1. kept[q] \in Nat /\ light[q] \in Nat
    BY DEF QueuesOK
  <2>2. kept'[q] = kept[q] - One(wasKept, q, from) + One(persistent, q, to)
        /\ light'[q] = light[q] - One(~wasKept, q, from) + One(~persistent, q, to)
    BY <1>1
  <2>3. One(persistent, q, to) \in 0..1 /\ One(~persistent, q, to) \in 0..1
        /\ (One(persistent, q, to) = 1 <=> persistent /\ q = to)
        /\ (One(~persistent, q, to) = 1 <=> ~persistent /\ q = to)
    OBVIOUS
  <2>4. One(wasKept, q, from) \in 0..kept[q] /\ One(~wasKept, q, from) \in 0..light[q]
    BY <1>1, <2>1
  <2> HIDE DEF One
  <2> QED
    BY <2>1, <2>2, <2>3, <2>4
<1>3. kept' \in [Broker!Queues -> Nat] /\ light' \in [Broker!Queues -> Nat]
  BY <1>1, <1>2
<1> HIDE DEF One
<1> QED
  BY <1>2, <1>3, QueuesAre DEF QueuesOK

LEMMA BeginLockKeeps ==
  ASSUME BrokerInv, Broker!BeginLock \/ Broker!Tick
  PROVE  BrokerInv'
<1>1. PICK a \in {"scm", "reconciler"}, job \in {"lock", "copy"} :
        /\ a = "scm" <=> job = "lock"
        /\ at["scm"] = "serving" /\ Broker!Open(a, job, Broker!SetupSCM)
  BY DEF Broker!BeginLock, Broker!Tick
<1>2. /\ UNCHANGED Broker!broker /\ at' = at /\ available' = available /\ consuming' = consuming
      /\ sent' = sent /\ started' = started /\ failures' = failures
  BY DEF Broker!BeginLock, Broker!Tick
<1>3. a \in Broker!Actors /\ job \in Works(a) /\ (a \in Broker!Servers => at[a] = "serving")
  BY <1>1, QueuesAre DEF Works
<1>4. Plan(a, job) = Broker!SetupSCM
  BY <1>1 DEF Plan, Broker!Setup
<1>5. LinksOK' /\ WantsOK' /\ QueuesOK'
  BY <1>1, <1>2, <1>3, <1>4, QueuesStay, OpenKeeps DEF BrokerInv
<1> QED
  BY <1>2, <1>5 DEF BrokerInv, ServersOK

(* Who has declared as SCM does may put a message into the reserved queue.  *)
LEMMA OwnedHas ==
  ASSUME QueuesOK, \A d \in WantedOfSCM : Declared(d)
  PROVE  reserved = "owned" /\ {"system.dlx", "system.deficit.dlx", "binding"} \subseteq declared
<1>1. Declared({"system.dlx", "system.deficit.pool", "system.deficit.dlx"}) /\ Declared({"binding", "system.audit.log"})
      /\ Declared({"owned"})
  BY DEF WantedOfSCM
<1>2. {"system.dlx", "system.deficit.pool", "system.deficit.dlx"} \subseteq declared
  <2>1. "system.dlx" \notin {"owned", "plain"}
    OBVIOUS
  <2> QED
    BY <1>1, <2>1 DEF Declared
<1>3. {"binding", "system.audit.log"} \subseteq declared
  <2>1. "binding" \notin {"owned", "plain"}
    OBVIOUS
  <2> QED
    BY <1>1, <2>1 DEF Declared
<1>4. reserved = "owned"
  BY <1>1 DEF Declared
<1> QED
  BY <1>2, <1>3, <1>4

LEMMA FinishLockKeeps ==
  ASSUME BrokerInv, Broker!FinishLock
  PROVE  BrokerInv'
<1>1. /\ Broker!Ready("scm", "lock") /\ Broker!Finish("scm", "lock", TRUE)
      /\ up' = up /\ declared' = declared /\ reserved' = reserved /\ gone' = gone
      /\ \/ \E to \in {"system.deficit.reserved", "system.deficit.pool", "system.deficit.dlx"}, persistent \in BOOLEAN :
              (persistent <=> to = "system.deficit.reserved") /\ Broker!Move("system.deficit.pool", to, persistent)
         \/ kept' = kept /\ light' = light
  BY QueuesAre DEF Broker!FinishLock
<1>2. "scm" \in Broker!Actors
  BY QueuesAre
<1>3. (Broker!Starting("scm") => "lock" = at["scm"] /\ at["scm"] # "off") /\ \A d \in WantedOfSCM : Declared(d)
  BY <1>1, <1>2, ReadyHas DEF Wanted
<1>4. reserved = "owned" /\ {"system.dlx", "system.deficit.dlx", "binding"} \subseteq declared
  BY <1>3, OwnedHas DEF BrokerInv
<1>5. QueuesOK'
  <2>1. CASE kept' = kept /\ light' = light
    BY <1>1, <2>1 DEF BrokerInv, QueuesOK
  <2>2. CASE \E to \in {"system.deficit.reserved", "system.deficit.pool", "system.deficit.dlx"}, persistent \in BOOLEAN :
              (persistent <=> to = "system.deficit.reserved") /\ Broker!Move("system.deficit.pool", to, persistent)
    <3>1. PICK to \in {"system.deficit.reserved", "system.deficit.pool", "system.deficit.dlx"}, persistent \in BOOLEAN :
              (persistent <=> to = "system.deficit.reserved") /\ Broker!Move("system.deficit.pool", to, persistent)
      BY <2>2
    <3>2. to \in Broker!Queues /\ "system.deficit.pool" \in Broker!Queues
      BY QueuesAre
    <3> QED
      BY <1>1, <1>4, <3>1, <3>2, MoveKeeps DEF BrokerInv
  <2> QED
    BY <1>1, <2>1, <2>2
<1>6. Grow
  BY <1>1 DEF Grow
<1> QED
  BY <1>1, <1>2, <1>3, <1>5, <1>6, FinishKeeps DEF BrokerInv

LEMMA ReconcileKeeps ==
  ASSUME BrokerInv, Broker!Reconcile
  PROVE  BrokerInv'
<1>1. /\ Broker!Ready("reconciler", "copy")
      /\ up' = up /\ declared' = declared /\ reserved' = reserved /\ gone' = gone
  BY DEF Broker!Reconcile
<1>2. "reconciler" \in Broker!Actors /\ "system.deficit.pool" \in Broker!Queues /\ "system.deficit.dlx" \in Broker!Queues
  BY QueuesAre
<1>3. CASE Broker!Empty(Broker!DLXQueue)
  <2>1. Broker!Finish("reconciler", "copy", TRUE) /\ kept' = kept /\ light' = light
    BY <1>3 DEF Broker!Reconcile
  <2>2. ~Broker!Starting("reconciler")
    BY QueuesAre DEF Broker!Starting
  <2>3. UNCHANGED Broker!broker
    BY <1>1, <2>1 DEF Broker!broker
  <2> QED
    BY <1>2, <2>1, <2>2, <2>3, QueuesStay, FinishKeeps DEF BrokerInv
<1>4. CASE ~Broker!Empty(Broker!DLXQueue)
  <2>1. /\ Broker!Move("system.deficit.dlx", "system.deficit.pool", FALSE)
        /\ at' = at /\ conn' = conn /\ available' = available /\ consuming' = consuming
        /\ sent' = sent /\ started' = started /\ failures' = failures
    BY <1>4, QueuesAre DEF Broker!Reconcile
  <2>2. QueuesOK'
    BY <1>1, <1>2, <2>1, MoveKeeps DEF BrokerInv
  <2>3. ServersOK' /\ LinksOK'
    BY <2>1 DEF BrokerInv, ServersOK, LinksOK, LinkOK
  <2>4. WantsOK'
    BY <1>1, <2>1 DEF BrokerInv, WantsOK, Declared
  <2> QED
    BY <2>2, <2>3, <2>4 DEF BrokerInv
<1> QED
  BY <1>3, <1>4

(* Messages are taken, expire or are lost, while the links stay.            *)
LEMMA LinksStay ==
  ASSUME BrokerInv, declared' = declared, reserved' = reserved, at' = at, conn' = conn,
         available' = available, consuming' = consuming, sent' = sent, started' = started, failures' = failures
  PROVE  ServersOK' /\ LinksOK' /\ WantsOK'
<1>1. ServersOK' /\ LinksOK'
  BY DEF BrokerInv, ServersOK, LinksOK, LinkOK
<1>2. WantsOK'
  BY DEF BrokerInv, WantsOK, Declared
<1> QED
  BY <1>1, <1>2

LEMMA ConsumeKeeps ==
  ASSUME BrokerInv, NEW s \in Broker!Servers, Broker!Consume(s)
  PROVE  BrokerInv'
<1>1. PICK q \in Broker!Reads(s) : kept[q] > 0 /\ kept' = [kept EXCEPT ![q] = @ - 1]
  BY DEF Broker!Consume
<1>2. /\ up' = up /\ declared' = declared /\ reserved' = reserved /\ light' = light /\ gone' = gone /\ at' = at
      /\ conn' = conn /\ available' = available /\ consuming' = consuming
      /\ sent' = sent /\ started' = started /\ failures' = failures
  BY DEF Broker!Consume
<1>3. q \in Broker!Queues
  BY QueuesAre DEF Broker!Reads, Broker!OrderCreatedQueue, Broker!OrderUpdatedQueue, SalesQueues
<1>4. kept[q] \in Nat /\ kept[q] - 1 \in Nat
  BY <1>1, <1>3 DEF BrokerInv, QueuesOK
<1>5. kept' \in [Broker!Queues -> Nat] /\ \A p \in Broker!Queues : kept'[p] > 0 => kept[p] > 0
  BY <1>1, <1>3, <1>4 DEF BrokerInv, QueuesOK
<1>6. QueuesOK'
  BY <1>2, <1>5, QueuesAre DEF BrokerInv, QueuesOK
<1> QED
  BY <1>2, <1>6, LinksStay DEF BrokerInv

LEMMA ExpireKeeps ==
  ASSUME BrokerInv, Broker!Expire
  PROVE  BrokerInv'
<1> DEFINE q == "system.deficit.reserved"
           d == "system.deficit.dlx"
<1>1. /\ kept[q] > 0
      /\ up' = up /\ declared' = declared /\ reserved' = reserved /\ light' = light /\ at' = at
      /\ conn' = conn /\ available' = available /\ consuming' = consuming
      /\ sent' = sent /\ started' = started /\ failures' = failures
  BY QueuesAre DEF Broker!Expire
<1>2. reserved = "owned" /\ {"system.dlx", "system.deficit.dlx", "binding"} \subseteq declared
  BY <1>1 DEF BrokerInv, QueuesOK
<1>3. kept' = [kept EXCEPT ![q] = @ - 1, ![d] = @ + 1] /\ gone' = gone
  BY <1>2, QueuesAre DEF Broker!Expire
<1>4. q \in Broker!Queues /\ d \in Broker!Queues /\ kept[q] \in Nat /\ kept[d] \in Nat /\ q # d
  BY QueuesAre DEF BrokerInv, QueuesOK
<1>5. kept[q] - 1 \in Nat /\ kept[d] + 1 \in Nat
  BY <1>1, <1>4
<1>6. kept' \in [Broker!Queues -> Nat]
  BY <1>3, <1>4, <1>5 DEF BrokerInv, QueuesOK
<1>7. QueuesOK'
  BY <1>1, <1>2, <1>3, <1>6 DEF BrokerInv, QueuesOK
<1> QED
  BY <1>1, <1>7, LinksStay DEF BrokerInv

LEMMA StopKeeps ==
  ASSUME BrokerInv, Broker!StopBroker
  PROVE  BrokerInv'
<1>1. /\ up' = FALSE /\ failures < MaxFailures /\ failures' = failures + 1
      /\ light' = [q \in Broker!Queues |-> 0]
      /\ gone' = gone \cup {<<q, "stop">> : q \in {p \in Broker!Queues : light[p] > 0}}
      /\ conn' = [a \in Broker!Actors |-> IF conn[a] = None THEN None ELSE [conn[a] EXCEPT !.alive = FALSE]]
      /\ consuming' = {} /\ declared' = declared /\ reserved' = reserved /\ kept' = kept /\ at' = at
      /\ available' = available /\ sent' = sent /\ started' = started
  BY DEF Broker!StopBroker
<1>2. ServersOK'
  BY <1>1, BrokerAssumption DEF BrokerInv, ServersOK
<1>3. ASSUME NEW a \in Broker!Actors
      PROVE  \/ conn[a] = None /\ conn'[a] = None
             \/ /\ conn[a] # None /\ conn[a] \in Links /\ conn'[a] \in Links
                /\ conn'[a].job = conn[a].job /\ conn'[a].left = conn[a].left
  <2>1. CASE conn[a] = None
    BY <1>1, <2>1
  <2>2. CASE conn[a] # None
    <3>1. conn[a] \in Links
      BY <2>2 DEF BrokerInv, LinksOK
    <3>2. conn'[a] = [conn[a] EXCEPT !.alive = FALSE]
      BY <1>1, <2>2
    <3> QED
      BY <2>2, <3>1, <3>2 DEF Links
  <2> QED
    BY <2>1, <2>2
<1>4. LinksOK'
  <2>1. conn' \in [Broker!Actors -> {None} \cup Links]
    BY <1>1, <1>3
  <2>2. ASSUME NEW a \in Broker!Actors PROVE LinkOK(a)'
    BY <1>1, <1>3 DEF BrokerInv, LinksOK, LinkOK
  <2> QED
    BY <2>1, <2>2 DEF LinksOK
<1>5. WantsOK'
  BY <1>1, <1>3 DEF BrokerInv, WantsOK, Declared
<1>6. QueuesOK'
  <2>1. gone' \subseteq KnownLosses
    BY <1>1 DEF BrokerInv, QueuesOK, KnownLosses
  <2>2. light' \in [Broker!Queues -> Nat] /\ \A q \in Broker!Queues : ~(light'[q] > 0)
    BY <1>1
  <2>3. up' \in BOOLEAN
    BY <1>1
  <2> QED
    BY <1>1, <2>1, <2>2, <2>3 DEF BrokerInv, QueuesOK
<1> QED
  BY <1>2, <1>4, <1>5, <1>6 DEF BrokerInv

LEMMA StartBrokerKeeps ==
  ASSUME BrokerInv, Broker!StartBroker
  PROVE  BrokerInv'
<1>1. /\ up' = TRUE /\ declared' = declared /\ reserved' = reserved /\ kept' = kept /\ light' = light
      /\ gone' = gone /\ at' = at /\ conn' = conn /\ available' = available /\ consuming' = consuming
      /\ sent' = sent /\ started' = started /\ failures' = failures
  BY DEF Broker!StartBroker
<1>2. QueuesOK'
  BY <1>1 DEF BrokerInv, QueuesOK
<1> QED
  BY <1>1, <1>2, LinksStay DEF BrokerInv

LEMMA KillKeeps ==
  ASSUME BrokerInv, NEW s \in Broker!Servers, Broker!Kill(s)
  PROVE  BrokerInv'
<1>1. /\ failures < MaxFailures /\ failures' = failures + 1
      /\ at' = [at EXCEPT ![s] = "off"]
      /\ conn' = [a \in Broker!Actors |-> IF a = s \/ (s = "scm" /\ a = "reconciler") THEN None ELSE conn[a]]
      /\ available' = available \ {s} /\ consuming' = consuming \ {s}
      /\ UNCHANGED Broker!broker /\ sent' = sent /\ started' = started
  BY DEF Broker!Kill
<1>2. ServersOK'
  <2>1. ServersOK
    BY DEF BrokerInv
  <2>2. failures' \in 0..MaxFailures
    BY <1>1, <2>1, BrokerAssumption DEF ServersOK
  <2> QED
    BY <1>1, <2>1, <2>2 DEF ServersOK
<1>3. \A a \in Broker!Actors : conn'[a] = None \/ (a # s /\ conn'[a] = conn[a])
  BY <1>1
<1>4. conn' \in [Broker!Actors -> {None} \cup Links]
  BY <1>1 DEF BrokerInv, LinksOK
<1>5. \A a \in Broker!Servers : a # s => at'[a] = at[a]
  BY <1>1 DEF BrokerInv, ServersOK
<1>6. LinksOK'
  BY <1>3, <1>4, <1>5 DEF BrokerInv, LinksOK, LinkOK
<1>7. WantsOK'
  BY <1>1, <1>3 DEF BrokerInv, WantsOK, Declared, Broker!broker
<1> QED
  BY <1>1, <1>2, <1>6, <1>7, QueuesStay DEF BrokerInv

LEMMA BrokerAtFirst == Broker!Init => BrokerInv
<1> SUFFICES ASSUME Broker!Init PROVE BrokerInv
  OBVIOUS
<1>1. ServersOK
  BY BrokerAssumption DEF Broker!Init, ServersOK
<1>2. LinksOK /\ WantsOK
  BY DEF Broker!Init, LinksOK, LinkOK, WantsOK
<1>3. QueuesOK
  BY QueuesAre DEF Broker!Init, QueuesOK
<1> QED
  BY <1>1, <1>2, <1>3 DEF BrokerInv

LEMMA BrokerStep == BrokerInv /\ [Broker!Next]_brokerVars => BrokerInv'
<1> SUFFICES ASSUME BrokerInv, [Broker!Next]_brokerVars PROVE BrokerInv'
  OBVIOUS
<1>1. CASE UNCHANGED brokerVars
  <2>1. QueuesOK'
    BY <1>1 DEF BrokerInv, QueuesOK, brokerVars
  <2>2. ServersOK' /\ LinksOK' /\ WantsOK'
    BY <1>1, LinksStay DEF brokerVars
  <2> QED
    BY <2>1, <2>2 DEF BrokerInv
<1>2. CASE Broker!Next
  <2>1. ASSUME NEW s \in Broker!Servers,
               Broker!Start(s) \/ Broker!Dial(s) \/ Broker!FinishStage(s) \/ Broker!FinishPublish(s)
               \/ Broker!Consume(s) \/ Broker!Kill(s)
        PROVE  BrokerInv'
    BY <2>1, StartKeeps, DialKeeps, FinishStageKeeps, FinishPublishKeeps, ConsumeKeeps, KillKeeps
  <2>2. ASSUME NEW s \in Broker!Servers, NEW q \in Broker!Publishes(s), Broker!BeginPublish(s, q)
        PROVE  BrokerInv'
    BY <2>2, BeginPublishKeeps
  <2>3. ASSUME NEW a \in Broker!Actors, Broker!Declare(a) \/ Broker!LoseLink(a)
        PROVE  BrokerInv'
    BY <2>3, DeclareKeeps, LoseLinkKeeps
  <2>4. CASE \/ Broker!BeginLock \/ Broker!FinishLock \/ Broker!Tick \/ Broker!Reconcile
             \/ Broker!Expire \/ Broker!StopBroker \/ Broker!StartBroker
    BY <2>4, BeginLockKeeps, FinishLockKeeps, ReconcileKeeps, ExpireKeeps, StopKeeps, StartBrokerKeeps
  <2> QED
    BY <1>2, <2>1, <2>2, <2>3, <2>4 DEF Broker!Next
<1> QED
  BY <1>1, <1>2

LEMMA BrokerHolds == BrokerInv => Broker!TypeOK /\ Broker!OnlyKnownLosses
<1> SUFFICES ASSUME BrokerInv PROVE Broker!TypeOK /\ Broker!OnlyKnownLosses
  OBVIOUS
<1>1. Broker!OnlyKnownLosses
  BY QueuesAre DEF BrokerInv, QueuesOK, KnownLosses, Broker!OnlyKnownLosses
<1>2. gone \subseteq Broker!Queues \X {"no queue", "no route", "stop"}
  <2>1. gone \subseteq KnownLosses
    BY DEF BrokerInv, QueuesOK
  <2>2. \A x \in KnownLosses : x \in Broker!Queues \X {"no queue", "no route", "stop"}
    <3>1. {"sales.client.created", "system.deficit.pool", "system.deficit.dlx"} \subseteq Broker!Queues
      BY QueuesAre
    <3>2. /\ <<"sales.client.created", "no queue">> \in Broker!Queues \X {"no queue", "no route", "stop"}
          /\ <<"system.deficit.pool", "stop">> \in Broker!Queues \X {"no queue", "no route", "stop"}
          /\ <<"system.deficit.dlx", "stop">> \in Broker!Queues \X {"no queue", "no route", "stop"}
      BY <3>1
    <3> QED
      BY <3>2 DEF KnownLosses
  <2> QED
    BY <2>1, <2>2
<1>3. \A a \in Broker!Actors : conn[a] # None => conn[a].job \in Broker!Jobs
  BY DEF BrokerInv, LinksOK, Links
<1>4. Broker!TypeOK
  BY <1>2, <1>3 DEF BrokerInv, ServersOK, QueuesOK, Names, Broker!TypeOK
<1> QED
  BY <1>1, <1>4

-----------------------------------------------------------------------------
(***************************************************************************)
(* Sequences of sequences, and the sequence of a finite set.               *)
(***************************************************************************)
IsFlat(g, f, n) == g = [i \in 1..n |-> IF i = 1 THEN f[i] ELSE g[i - 1] \o f[i]]

LEMMA FlatExists ==
  ASSUME NEW f, NEW n \in Nat
  PROVE  \E g : IsFlat(g, f, n)
<1> DEFINE T == {m \in Nat : ~\E g : IsFlat(g, f, m)}
<1>1. SUFFICES ASSUME T # {} PROVE FALSE
  OBVIOUS
<1>2. PICK m \in T : \A k \in T : m <= k
  BY <1>1, Least
<1>3. m # 0
  <2>1. IsFlat(<<>>, f, 0)
    BY DEF IsFlat
  <2> QED
    BY <2>1
<1>4. m - 1 \in Nat /\ m - 1 \notin T
  BY <1>2, <1>3
<1>5. PICK g : IsFlat(g, f, m - 1)
  BY <1>4
<1> DEFINE h == [i \in 1..m |-> IF i = m THEN (IF m = 1 THEN f[m] ELSE g[m - 1] \o f[m]) ELSE g[i]]
<1>6. ASSUME NEW i \in 1..m PROVE h[i] = IF i = 1 THEN f[i] ELSE h[i - 1] \o f[i]
  <2>1. CASE i = m
    <3>1. i # 1 => i - 1 \in 1..m /\ i - 1 # m
      BY <2>1, <1>2
    <3> QED
      BY <2>1, <3>1
  <2>2. CASE i # m
    <3>1. i \in 1..(m - 1)
      BY <2>2, <1>2
    <3>2. g[i] = IF i = 1 THEN f[i] ELSE g[i - 1] \o f[i]
      BY <1>5, <3>1 DEF IsFlat
    <3>3. h[i] = g[i]
      BY <2>2
    <3>4. i # 1 => i - 1 \in 1..m /\ i - 1 # m
      BY <3>1, <1>2
    <3>5. i # 1 => h[i - 1] = g[i - 1]
      BY <3>4
    <3> HIDE DEF h
    <3> QED
      BY <3>2, <3>3, <3>5
  <2> QED
    BY <2>1, <2>2
<1>7. h = [i \in 1..m |-> h[i]]
  OBVIOUS
<1> HIDE DEF h
<1>8. IsFlat(h, f, m)
  BY <1>6, <1>7 DEF IsFlat
<1> QED
  BY <1>2, <1>8

(* What is flattened is what it is made of, in any set that is closed under *)
(* concatenation.                                                          *)
LEMMA FlattenIn ==
  ASSUME NEW n \in Nat \ {0}, NEW C, NEW f \in [1..n -> C], \A a, b \in C : a \o b \in C
  PROVE  FlattenSeq(f) \in C
<1>1. Len(f) = n
  OBVIOUS
<1> DEFINE g == CHOOSE h : IsFlat(h, f, n)
<1>2. IsFlat(g, f, n)
  BY FlatExists
<1>3. FlattenSeq(f) = g[n]
  BY <1>1 DEF FlattenSeq, IsFlat
<1> HIDE DEF g
<1>4. \A i \in 1..n : g[i] \in C
  <2> DEFINE T == {m \in 1..n : g[m] \notin C}
  <2>1. SUFFICES ASSUME T # {} PROVE FALSE
    OBVIOUS
  <2>2. PICK m \in T : \A k \in T : m <= k
    <3>1. T \in SUBSET Nat
      OBVIOUS
    <3> QED
      BY <2>1, <3>1, Least
  <2>3. g[m] = IF m = 1 THEN f[m] ELSE g[m - 1] \o f[m]
    BY <1>2, <2>2 DEF IsFlat
  <2>4. m # 1 => m - 1 \in 1..n /\ m - 1 \notin T
    BY <2>2
  <2>5. f[m] \in C
    BY <2>2
  <2> QED
    BY <2>2, <2>3, <2>4, <2>5
<1> QED
  BY <1>3, <1>4

LEMMA SetToSeqIs ==
  ASSUME NEW S, IsFiniteSet(S)
  PROVE  SetToSeq(S) \in Seq(S)
<1> DEFINE n == Cardinality(S)
<1>1. n \in Nat /\ \E f \in [1..n -> S] : IsInjective(f)
  <2>1. n \in Nat /\ ExistsBijection(1..n, S)
    BY FS_CardinalityType
  <2>2. PICK f \in Bijection(1..n, S) : TRUE
    BY <2>1 DEF ExistsBijection
  <2>3. f \in [1..n -> S] /\ \A a, b \in 1..n : f[a] = f[b] => a = b
    BY <2>2 DEF Bijection, Injection, IsInjective
  <2> QED
    BY <2>1, <2>3 DEF IsInjective
<1>2. SetToSeq(S) \in [1..n -> S]
  BY <1>1 DEF SetToSeq
<1> QED
  BY <1>1, <1>2

-----------------------------------------------------------------------------
(***************************************************************************)
(* The databases.  A row refers to rows of its own database, and a list of *)
(* statements to what is there or is written earlier in the list.          *)
(***************************************************************************)
StableId(x) == [of |-> x, seeding |-> 0]
CatalogIds == {StableId(p) : p \in Range(Parts)}

LEMMA IdIsStable == \A x : Id(x) = StableId(x)
BY DEF Id, StableUUID, StableId

Refs(r) ==
    CASE r.table = "parts_by_model" -> {<<"product_models", r.key[1]>>, <<"part_catalogs", r.key[2]>>}
      [] r.table = "parts" -> {<<"parts_by_model", r.key[3]>>}
      [] r.table = "goods_receipts" -> {<<"shipments", r.key>>}
      [] r.table = "inventory_ledger" -> {<<"component_stocks", r.key>>}
      [] r.table = "shortage_logs" -> {<<"production_orders", r.key[1]>>}
      [] r.table = "sales_orders" -> {<<"clients", r.of>>}
      [] r.table = "audit_logs" -> {<<"users", r.of>>}
      [] OTHER -> {}
HasName(d, x) == \E r \in d : r.table = x[1] /\ r.key = x[2]

(* What each row, statement and list is like, whatever it refers to.        *)
RowOK(s, r) ==
    /\ r = Row(r.table, r.key, r.of) /\ r.table \in Tables[s]
    /\ r.table = "part_catalogs" => r.key \in CatalogIds
    /\ r.table = "production_orders" => r.of \in Range(Models)
    /\ r.table = "bom_entries" => r.key[2] \in CatalogIds
StmtOK(s, t) ==
    /\ t.op \in {"ensure", "assign", "create"} /\ (s = "system" => t.op # "assign")
    /\ IsFiniteSet(t.rows) /\ \A r \in t.rows : RowOK(s, r)
    /\ \A r, q \in t.rows : r.table = q.table /\ (r.key = q.key => r = q)
    /\ t.op # "create" => \E r \in t.rows : t.rows = {r}
IsSeq(t) == t \in Seq(ToSet(t))
Shape(s, t) == IsSeq(t) /\ \A i \in DOMAIN t : StmtOK(s, t[i])
Refers(d, t) ==
    \A i \in DOMAIN t : \A r \in t[i].rows : \A x \in Refs(r) :
      HasName(d, x) \/ \E j \in 1..(i - 1) : HasName(t[j].rows, x)
ListOK(s, d, t) == Shape(s, t) /\ Refers(d, t)
RowsOf(t) == UNION {t[i].rows : i \in DOMAIN t}

LEMMA NoRefs ==
  ASSUME NEW r, r.table \notin {"parts_by_model", "parts", "goods_receipts", "inventory_ledger", "shortage_logs",
                                "sales_orders", "audit_logs"}
  PROVE  Refs(r) = {}
BY DEF Refs

LEMMA RefsNoLog == ASSUME NEW r, NEW x \in Refs(r) PROVE x[1] # "audit_logs"
BY DEF Refs

LEMMA IsSeqFacts ==
  ASSUME NEW t, IsSeq(t)
  PROVE  /\ Len(t) \in Nat /\ DOMAIN t = 1..Len(t) /\ t = [i \in 1..Len(t) |-> t[i]]
         /\ (t = <<>> <=> Len(t) = 0)
         /\ \A i \in DOMAIN t : t[i] \in ToSet(t)
BY DEF IsSeq

LEMMA MakesSeq ==
  ASSUME NEW n \in Nat, NEW t, t = [i \in 1..n |-> t[i]]
  PROVE  IsSeq(t) /\ Len(t) = n /\ DOMAIN t = 1..n
<1>1. DOMAIN t = 1..n
  OBVIOUS
<1>2. \A i \in 1..n : t[i] \in ToSet(t)
  BY <1>1 DEF ToSet
<1>3. t \in [1..n -> ToSet(t)]
  BY <1>2
<1> QED
  BY <1>1, <1>3 DEF IsSeq

LEMMA InSeq ==
  ASSUME NEW S, NEW t \in Seq(S)
  PROVE  IsSeq(t) /\ \A i \in DOMAIN t : t[i] \in S
<1>1. Len(t) \in Nat /\ DOMAIN t = 1..Len(t) /\ t = [i \in 1..Len(t) |-> t[i]] /\ \A i \in 1..Len(t) : t[i] \in S
  OBVIOUS
<1> QED
  BY <1>1, MakesSeq

LEMMA JoinIs ==
  ASSUME NEW a, NEW b, IsSeq(a), IsSeq(b)
  PROVE  /\ IsSeq(a \o b) /\ Len(a \o b) = Len(a) + Len(b) /\ DOMAIN (a \o b) = 1..(Len(a) + Len(b))
         /\ \A i \in 1..Len(a) : (a \o b)[i] = a[i]
         /\ \A i \in 1..Len(b) : (a \o b)[Len(a) + i] = b[i]
<1> DEFINE S == ToSet(a) \cup ToSet(b)
<1>1. a \in Seq(S) /\ b \in Seq(S)
  BY DEF IsSeq
<1> HIDE DEF S
<1>2. /\ a \o b \in Seq(S) /\ Len(a \o b) = Len(a) + Len(b) /\ DOMAIN (a \o b) = 1..(Len(a) + Len(b))
      /\ \A i \in 1..Len(a) : (a \o b)[i] = a[i]
      /\ \A i \in 1..Len(b) : (a \o b)[Len(a) + i] = b[i]
  BY <1>1
<1> QED
  BY <1>2, InSeq

LEMMA TailIs ==
  ASSUME NEW t, IsSeq(t), t # <<>>
  PROVE  /\ IsSeq(Tail(t)) /\ Head(t) = t[1] /\ 1 \in DOMAIN t /\ Len(t) > 0
         /\ Len(Tail(t)) = Len(t) - 1 /\ DOMAIN Tail(t) = 1..(Len(t) - 1)
         /\ \A i \in 1..(Len(t) - 1) : Tail(t)[i] = t[i + 1] /\ i + 1 \in DOMAIN t
<1>1. Len(t) \in Nat /\ Len(t) > 0 /\ DOMAIN t = 1..Len(t)
  BY IsSeqFacts
<1>2. /\ Head(t) = t[1] /\ Tail(t) \in Seq(ToSet(t)) /\ Len(Tail(t)) = Len(t) - 1
      /\ DOMAIN Tail(t) = 1..(Len(t) - 1) /\ \A i \in 1..(Len(t) - 1) : Tail(t)[i] = t[i + 1]
  BY <1>1 DEF IsSeq
<1>3. IsSeq(Tail(t))
  BY <1>2, InSeq
<1> QED
  BY <1>1, <1>2, <1>3

LEMMA RefersMore ==
  ASSUME NEW t, NEW d, NEW e, Refers(d, t), \A x : HasName(d, x) => HasName(e, x)
  PROVE  Refers(e, t)
BY DEF Refers

LEMMA NamesGrow ==
  ASSUME NEW d, NEW e, d \subseteq e, NEW x, HasName(d, x)
  PROVE  HasName(e, x)
BY DEF HasName

(* One list after the other: the second may refer to the first.             *)
LEMMA ListJoin ==
  ASSUME NEW s, NEW d, NEW a, NEW b, ListOK(s, d, a), ListOK(s, d \cup RowsOf(a), b)
  PROVE  ListOK(s, d, a \o b)
<1> DEFINE c == a \o b
<1>1. /\ IsSeq(a) /\ IsSeq(b) /\ Len(a) \in Nat /\ Len(b) \in Nat
      /\ DOMAIN a = 1..Len(a) /\ DOMAIN b = 1..Len(b)
  BY IsSeqFacts DEF ListOK, Shape
<1>2. /\ IsSeq(c) /\ DOMAIN c = 1..(Len(a) + Len(b))
      /\ \A i \in 1..Len(a) : c[i] = a[i]
      /\ \A i \in 1..Len(b) : c[Len(a) + i] = b[i]
  BY <1>1, JoinIs
<1> HIDE DEF c
<1>3. ASSUME NEW i \in DOMAIN c
      PROVE  \/ i \in 1..Len(a) /\ c[i] = a[i]
             \/ \E k \in 1..Len(b) : i = Len(a) + k /\ c[i] = b[k]
  <2>1. CASE i <= Len(a)
    BY <1>1, <1>2, <2>1
  <2>2. CASE ~(i <= Len(a))
    <3>1. i - Len(a) \in 1..Len(b) /\ i = Len(a) + (i - Len(a))
      BY <1>1, <1>2, <2>2
    <3> QED
      BY <1>2, <3>1
  <2> QED
    BY <2>1, <2>2
<1>4. Shape(s, c)
  <2>1. \A i \in DOMAIN c : StmtOK(s, c[i])
    BY <1>1, <1>3 DEF ListOK, Shape
  <2> QED
    BY <1>2, <2>1 DEF Shape
<1>5. Refers(d, c)
  <2> SUFFICES ASSUME NEW i \in DOMAIN c, NEW r \in c[i].rows, NEW x \in Refs(r)
               PROVE  HasName(d, x) \/ \E j \in 1..(i - 1) : HasName(c[j].rows, x)
    BY DEF Refers
  <2>1. CASE i \in 1..Len(a) /\ c[i] = a[i]
    <3>1. HasName(d, x) \/ \E j \in 1..(i - 1) : HasName(a[j].rows, x)
      BY <1>1, <2>1 DEF ListOK, Refers
    <3>2. \A j \in 1..(i - 1) : c[j] = a[j]
      <4>1. \A j \in 1..(i - 1) : j \in 1..Len(a)
        BY <1>1, <2>1
      <4> QED
        BY <1>2, <4>1
    <3> QED
      BY <3>1, <3>2
  <2>2. CASE \E k \in 1..Len(b) : i = Len(a) + k /\ c[i] = b[k]
    <3>1. PICK k \in 1..Len(b) : i = Len(a) + k /\ c[i] = b[k]
      BY <2>2
    <3>2. HasName(d \cup RowsOf(a), x) \/ \E j \in 1..(k - 1) : HasName(b[j].rows, x)
      BY <1>1, <3>1 DEF ListOK, Refers
    <3>3. CASE HasName(d \cup RowsOf(a), x)
      <4>1. HasName(d, x) \/ \E j \in 1..Len(a) : HasName(a[j].rows, x)
        BY <1>1, <3>3 DEF HasName, RowsOf
      <4>2. \A j \in 1..Len(a) : j \in 1..(i - 1)
        BY <1>1, <3>1
      <4> QED
        BY <1>2, <4>1, <4>2
    <3>4. CASE \E j \in 1..(k - 1) : HasName(b[j].rows, x)
      <4>1. PICK j \in 1..(k - 1) : HasName(b[j].rows, x)
        BY <3>4
      <4>2. Len(a) + j \in 1..(i - 1) /\ j \in 1..Len(b)
        BY <1>1, <3>1
      <4> QED
        BY <1>2, <4>1, <4>2
    <3> QED
      BY <3>2, <3>3, <3>4
  <2> QED
    BY <1>3, <2>1, <2>2
<1> QED
  BY <1>4, <1>5 DEF ListOK, c

LEMMA ListMore ==
  ASSUME NEW s, NEW d, NEW e, NEW t, ListOK(s, d, t), d \subseteq e
  PROVE  ListOK(s, e, t)
BY RefersMore, NamesGrow DEF ListOK

LEMMA NoneIsList == \A s, d : ListOK(s, d, <<>>) /\ RowsOf(<<>>) = {}
<1>1. IsSeq(<<>>) /\ DOMAIN <<>> = {}
  BY IsSeqFacts DEF IsSeq
<1> QED
  BY <1>1 DEF ListOK, Shape, Refers, RowsOf

(* Every statement of the list refers to what is there.                     *)
LEMMA ListEach ==
  ASSUME NEW s, NEW d, NEW n \in Nat, NEW t, t = [i \in 1..n |-> t[i]],
         \A i \in 1..n : StmtOK(s, t[i]) /\ \A r \in t[i].rows : \A x \in Refs(r) : HasName(d, x)
  PROVE  ListOK(s, d, t)
<1>1. IsSeq(t) /\ DOMAIN t = 1..n
  BY MakesSeq
<1> QED
  BY <1>1 DEF ListOK, Shape, Refers

LEMMA ListFlat ==
  ASSUME NEW s, NEW d, NEW n \in Nat, NEW f, f = [i \in 1..n |-> f[i]], \A i \in 1..n : ListOK(s, d, f[i])
  PROVE  ListOK(s, d, FlattenSeq(f))
<1>1. IsSeq(f) /\ Len(f) = n
  BY MakesSeq
<1>2. CASE n = 0
  <2>1. FlattenSeq(f) = f
    BY <1>1, <1>2 DEF FlattenSeq
  <2>2. f = <<>>
    BY <1>1, <1>2, IsSeqFacts
  <2> QED
    BY <2>1, <2>2, NoneIsList
<1>3. CASE n # 0
  <2> DEFINE U == UNION {ToSet(f[i]) : i \in 1..n}
             C == {t \in Seq(U) : ListOK(s, d, t)}
  <2>1. ASSUME NEW i \in 1..n PROVE f[i] \in C
    <3>1. f[i] \in Seq(ToSet(f[i]))
      BY DEF ListOK, Shape, IsSeq
    <3>2. ToSet(f[i]) \subseteq U
      OBVIOUS
    <3> HIDE DEF U
    <3>3. f[i] \in Seq(U)
      BY <3>1, <3>2
    <3> QED
      BY <3>3
  <2>2. ASSUME NEW a \in C, NEW b \in C PROVE a \o b \in C
    <3>1. ListOK(s, d, a) /\ ListOK(s, d \cup RowsOf(a), b)
      BY ListMore
    <3>2. a \o b \in Seq(U)
      <4> HIDE DEF U
      <4> QED
        OBVIOUS
    <3> QED
      BY <3>1, <3>2, ListJoin
  <2> HIDE DEF C
  <2>3. f \in [1..n -> C]
    BY <2>1
  <2>4. FlattenSeq(f) \in C
    BY <1>3, <2>2, <2>3, FlattenIn
  <2> QED
    BY <2>4 DEF C
<1> QED
  BY <1>2, <1>3

(* Statements of one row.                                                   *)
LEMMA OneRow ==
  ASSUME NEW s, NEW r, RowOK(s, r)
  PROVE  /\ StmtOK(s, Ensure(r)) /\ Ensure(r).rows = {r}
         /\ StmtOK(s, Create({r})) /\ Create({r}).rows = {r}
         /\ s # "system" => StmtOK(s, Assign(r)) /\ Assign(r).rows = {r}
<1>1. IsFiniteSet({r})
  BY FS_Singleton
<1> QED
  BY <1>1 DEF StmtOK, Ensure, Create, Assign

LEMMA RowIs ==
  \A t, k, o : /\ Row(t, k, o).table = t /\ Row(t, k, o).key = k /\ Row(t, k, o).of = o
               /\ Row(t, k, o) = Row(Row(t, k, o).table, Row(t, k, o).key, Row(t, k, o).of)
BY DEF Row

LEMMA ListOne ==
  ASSUME NEW s, NEW d, NEW t, StmtOK(s, t), \A r \in t.rows : \A x \in Refs(r) : HasName(d, x)
  PROVE  ListOK(s, d, <<t>>) /\ RowsOf(<<t>>) = t.rows
<1> DEFINE u == <<t>>
<1>1. u = [i \in 1..1 |-> u[i]] /\ DOMAIN u = {1} /\ u[1] = t
  OBVIOUS
<1> HIDE DEF u
<1>2. ListOK(s, d, u)
  BY <1>1, ListEach
<1>3. RowsOf(u) = t.rows
  BY <1>1 DEF RowsOf
<1> QED
  BY <1>2, <1>3 DEF u

LEMMA ListTwo ==
  ASSUME NEW s, NEW d, NEW t, NEW u, ListOK(s, d, <<t>>), ListOK(s, d \cup t.rows, <<u>>)
  PROVE  ListOK(s, d, <<t, u>>) /\ RowsOf(<<t, u>>) = t.rows \cup u.rows
<1> DEFINE w == <<t, u>>
<1>1. DOMAIN w = {1, 2} /\ w[1] = t /\ w[2] = u /\ w = [i \in 1..2 |-> w[i]]
  OBVIOUS
<1> HIDE DEF w
<1>2. IsSeq(w) /\ DOMAIN w = 1..2
  BY <1>1, MakesSeq
<1>3. StmtOK(s, t) /\ \A r \in t.rows : \A x \in Refs(r) : HasName(d, x)
  <2> DEFINE v == <<t>>
  <2>1. DOMAIN v = {1} /\ v[1] = t
    OBVIOUS
  <2> HIDE DEF v
  <2>2. ListOK(s, d, v)
    BY DEF v
  <2> QED
    BY <2>1, <2>2 DEF ListOK, Shape, Refers
<1>4. StmtOK(s, u) /\ \A r \in u.rows : \A x \in Refs(r) : HasName(d \cup t.rows, x)
  <2> DEFINE v == <<u>>
  <2>1. DOMAIN v = {1} /\ v[1] = u
    OBVIOUS
  <2> HIDE DEF v
  <2>2. ListOK(s, d \cup t.rows, v)
    BY DEF v
  <2> QED
    BY <2>1, <2>2 DEF ListOK, Shape, Refers
<1>5. \A x : HasName(d \cup t.rows, x) => HasName(d, x) \/ HasName(t.rows, x)
  BY DEF HasName
<1>6. ListOK(s, d, w)
  <2>1. Shape(s, w)
    BY <1>1, <1>2, <1>3, <1>4 DEF Shape
  <2>2. ASSUME NEW r \in w[1].rows, NEW x \in Refs(r) PROVE HasName(d, x)
    BY <1>1, <1>3
  <2>3. ASSUME NEW r \in w[2].rows, NEW x \in Refs(r) PROVE HasName(d, x) \/ HasName(w[1].rows, x)
    BY <1>1, <1>4, <1>5
  <2>4. 1 \in 1..(2 - 1)
    OBVIOUS
  <2> QED
    BY <1>1, <2>1, <2>2, <2>3, <2>4 DEF ListOK, Refers
<1>7. RowsOf(w) = t.rows \cup u.rows
  BY <1>1 DEF RowsOf
<1> QED
  BY <1>6, <1>7 DEF w

-----------------------------------------------------------------------------
(***************************************************************************)
(* The groups of the seeders: each refers to rows of its own, of the       *)
(* groups before it, or of the database.                                   *)
(***************************************************************************)
LEMMA PartsAre ==
  /\ Len(Parts) \in Nat /\ (\A i \in 1..Len(Parts) : Parts[i] \in Range(Parts))
  /\ IsFiniteSet(Range(Parts)) /\ (\A p \in Range(Parts) : \E i \in 1..Len(Parts) : p = Parts[i])
<1>1. Len(Parts) \in Nat /\ DOMAIN Parts = 1..Len(Parts)
  BY SeedingAssumption
<1>2. IsFiniteSet(1..Len(Parts))
  BY <1>1, FS_Interval
<1>3. Range(Parts) = {Parts[i] : i \in 1..Len(Parts)}
  BY <1>1 DEF Range
<1>4. IsFiniteSet({Parts[i] : i \in 1..Len(Parts)})
  <2> DEFINE S == {Parts[i] : i \in 1..Len(Parts)}
             g == [i \in 1..Len(Parts) |-> Parts[i]]
  <2>1. g \in Surjection(1..Len(Parts), S)
    BY DEF Surjection
  <2> HIDE DEF S, g
  <2>2. IsFiniteSet(S)
    BY <1>2, <2>1, FS_Surjection
  <2> QED
    BY <2>2 DEF S
<1> QED
  BY <1>1, <1>3, <1>4

LEMMA ModelsAre ==
  /\ Len(Models) \in Nat /\ (\A i \in 1..Len(Models) : Models[i] \in Range(Models))
  /\ (\A p \in Range(Models) : \E i \in 1..Len(Models) : p = Models[i])
<1>1. Len(Models) \in Nat /\ DOMAIN Models = 1..Len(Models)
  BY SeedingAssumption
<1> QED
  BY <1>1 DEF Range

LEMMA InstalledAre ==
  ASSUME NEW m \in Range(Models)
  PROVE  Len(Installed[m]) \in Nat /\ \A i \in 1..Len(Installed[m]) : Installed[m][i] \in Range(Parts)
BY SeedingAssumption

LEMMA NumbersAre ==
  ASSUME NEW n \in Nat
  PROVE  Len(Numbers(n)) = n /\ Numbers(n) \in Seq(1..n) /\ \A i \in 1..n : Numbers(n)[i] = i
BY DEF Numbers

LEMMA FlatIn ==
  ASSUME NEW n \in Nat, NEW X, NEW f \in [1..n -> Seq(X)]
  PROVE  FlattenSeq(f) \in Seq(X)
<1>1. CASE n = 0
  <2>1. f = <<>> /\ Len(f) = 0
    BY <1>1
  <2>2. FlattenSeq(f) = f
    BY <2>1 DEF FlattenSeq
  <2>3. <<>> \in Seq(X)
    OBVIOUS
  <2> QED
    BY <2>1, <2>2, <2>3
<1>2. CASE n # 0
  <2>1. \A a, b \in Seq(X) : a \o b \in Seq(X)
    OBVIOUS
  <2> QED
    BY <1>2, <2>1, FlattenIn
<1> QED
  BY <1>1, <1>2

LEMMA AtMostIs ==
  ASSUME NEW n \in Nat, NEW X, NEW t \in Seq(X)
  PROVE  AtMost(n, t) \in Seq(X) /\ Len(AtMost(n, t)) \in Nat /\ Len(AtMost(n, t)) <= n
<1> DEFINE k == IF Len(t) < n THEN Len(t) ELSE n
<1>1. k \in Nat /\ k <= n /\ k <= Len(t)
  OBVIOUS
<1>2. AtMost(n, t) = [i \in 1..k |-> t[i]]
  BY DEF AtMost
<1> HIDE DEF k
<1>3. AtMost(n, t) \in [1..k -> X]
  BY <1>1, <1>2
<1> QED
  BY <1>1, <1>3

LEMMA InOrderIs ==
  ASSUME NEW X, NEW t \in Seq(X), NEW S
  PROVE  InOrder(t, S) \in Seq(X)
<1> DEFINE f == [i \in 1..Len(t) |-> IF t[i] \in S THEN <<t[i]>> ELSE <<>>]
<1>1. InOrder(t, S) = FlattenSeq(f)
  BY DEF InOrder, Concat
<1>2. Len(t) \in Nat /\ \A i \in 1..Len(t) : t[i] \in X
  OBVIOUS
<1>3. \A x \in X : <<x>> \in Seq(X)
  OBVIOUS
<1>4. <<>> \in Seq(X)
  OBVIOUS
<1>5. f \in [1..Len(t) -> Seq(X)]
  BY <1>2, <1>3, <1>4
<1> QED
  BY <1>1, <1>2, <1>5, FlatIn

LEMMA PlainRow ==
  ASSUME NEW s, NEW t \in Tables[s], t \notin {"part_catalogs", "production_orders", "bom_entries"}, NEW k, NEW o
  PROVE  RowOK(s, Row(t, k, o))
BY RowIs DEF RowOK

LEMMA EnsureList ==
  ASSUME NEW s, NEW d, NEW r, RowOK(s, r), \A x \in Refs(r) : HasName(d, x)
  PROVE  ListOK(s, d, <<Ensure(r)>>) /\ RowsOf(<<Ensure(r)>>) = {r}
<1> DEFINE t == Ensure(r)
<1>1. StmtOK(s, t) /\ t.rows = {r}
  BY OneRow
<1> HIDE DEF t
<1>2. ListOK(s, d, <<t>>) /\ RowsOf(<<t>>) = t.rows
  BY <1>1, ListOne
<1> QED
  BY <1>1, <1>2 DEF t
LEMMA CreateList ==
  ASSUME NEW s, NEW d, NEW r, RowOK(s, r), \A x \in Refs(r) : HasName(d, x)
  PROVE  ListOK(s, d, <<Create({r})>>) /\ RowsOf(<<Create({r})>>) = {r}
<1> DEFINE t == Create({r})
<1>1. StmtOK(s, t) /\ t.rows = {r}
  BY OneRow
<1> HIDE DEF t
<1>2. ListOK(s, d, <<t>>) /\ RowsOf(<<t>>) = t.rows
  BY <1>1, ListOne
<1> QED
  BY <1>1, <1>2 DEF t
LEMMA AssignList ==
  ASSUME NEW s, s # "system", NEW d, NEW r, RowOK(s, r), \A x \in Refs(r) : HasName(d, x)
  PROVE  ListOK(s, d, <<Assign(r)>>) /\ RowsOf(<<Assign(r)>>) = {r}
<1> DEFINE t == Assign(r)
<1>1. StmtOK(s, t) /\ t.rows = {r}
  BY OneRow
<1> HIDE DEF t
<1>2. ListOK(s, d, <<t>>) /\ RowsOf(<<t>>) = t.rows
  BY <1>1, ListOne
<1> QED
  BY <1>1, <1>2 DEF t

LEMMA ScmRow ==
  ASSUME NEW r, RowOK("scm", r)
  PROVE  StmtOK("scm", Assign(r)) /\ Assign(r).rows = {r}
<1>1. "scm" # "system"
  OBVIOUS
<1> QED
  BY <1>1, OneRow

LEMMA TablesAre ==
  /\ {"states", "api_keys", "suppliers", "part_catalogs", "product_models", "parts_by_model", "component_stocks",
      "inventory_ledger", "sku_mappings", "purchase_orders", "shipments", "goods_receipts", "products", "parts"}
     \subseteq Tables["scm"]
  /\ {"bom_entries", "production_orders", "shortage_logs"} \subseteq Tables["mrp"]
  /\ {"clients", "sales_orders", "sales_order_items"} \subseteq Tables["sales"]
  /\ {"roles", "action_type_entries", "users", "audit_logs"} \subseteq Tables["system"]
BY DEF Tables, Services

LEMMA LookupList == \A d : ListOK("scm", d, LookupGroup.list)
<1> TAKE d
<1> DEFINE a == Row("states", "all", None)
           b == Row("api_keys", "default", None)
<1>1. RowOK("scm", a) /\ RowOK("scm", b) /\ Refs(a) = {} /\ Refs(b) = {}
  BY TablesAre, PlainRow, NoRefs, RowIs
<1> HIDE DEF a, b
<1>2. ListOK("scm", d, <<Ensure(a)>>) /\ ListOK("scm", d \cup Ensure(a).rows, <<Ensure(b)>>)
  BY <1>1, EnsureList
<1>3. ListOK("scm", d, <<Ensure(a), Ensure(b)>>)
  BY <1>2, ListTwo
<1> QED
  BY <1>3 DEF LookupGroup, Group, a, b

LEMMA SupplierList == \A d : ListOK("scm", d, SupplierGroup.list)
<1> TAKE d
<1> DEFINE row(i) == Row("suppliers", i, None)
           t == [i \in 1..Suppliers |-> Assign(row(i))]
<1>1. Suppliers \in Nat
  BY SeedingAssumption
<1>2. SupplierGroup.list = t
  BY <1>1, NumbersAre DEF SupplierGroup, Group, Each
<1>3. ASSUME NEW i \in 1..Suppliers
      PROVE  StmtOK("scm", t[i]) /\ \A r \in t[i].rows : \A x \in Refs(r) : HasName(d, x)
  <2> DEFINE q == row(i)
  <2>1. RowOK("scm", q) /\ Refs(q) = {}
    BY TablesAre, PlainRow, NoRefs, RowIs
  <2>2. t[i] = Assign(q)
    OBVIOUS
  <2> HIDE DEF q
  <2>3. StmtOK("scm", Assign(q)) /\ Assign(q).rows = {q}
    BY <2>1, ScmRow
  <2> QED
    BY <2>1, <2>2, <2>3
<1>4. t = [i \in 1..Suppliers |-> t[i]]
  OBVIOUS
<1> HIDE DEF t
<1> QED
  BY <1>1, <1>2, <1>3, <1>4, ListEach

CatalogNames == {<<"part_catalogs", x>> : x \in CatalogIds}

LEMMA CatalogList ==
  \A d : /\ ListOK("scm", d, CatalogGroup.list)
         /\ \A x \in CatalogNames : HasName(RowsOf(CatalogGroup.list), x)
<1> TAKE d
<1> DEFINE row(p) == Row("part_catalogs", StableId(p), p)
           n == Len(Parts)
           t == [i \in 1..n |-> Assign(row(Parts[i]))]
<1>1. n \in Nat /\ \A i \in 1..n : Parts[i] \in Range(Parts)
  BY PartsAre
<1>2. CatalogGroup.list = t
  BY IdIsStable DEF CatalogGroup, Group, Each
<1>3. ASSUME NEW i \in 1..n
      PROVE  /\ StmtOK("scm", t[i]) /\ \A r \in t[i].rows : \A x \in Refs(r) : HasName(d, x)
             /\ t[i].rows = {row(Parts[i])}
  <2>1. StableId(Parts[i]) \in CatalogIds
    BY <1>1 DEF CatalogIds
  <2> DEFINE q == row(Parts[i])
  <2>2. RowOK("scm", q) /\ Refs(q) = {}
    BY <2>1, TablesAre, NoRefs, RowIs DEF RowOK
  <2>3. t[i] = Assign(q)
    OBVIOUS
  <2> HIDE DEF q
  <2>4. StmtOK("scm", Assign(q)) /\ Assign(q).rows = {q}
    BY <2>2, ScmRow
  <2> QED
    BY <2>2, <2>3, <2>4 DEF q
<1>4. t = [i \in 1..n |-> t[i]] /\ DOMAIN t = 1..n
  OBVIOUS
<1> HIDE DEF t
<1>5. ListOK("scm", d, t)
  BY <1>1, <1>3, <1>4, ListEach
<1>6. ASSUME NEW x \in CatalogNames PROVE HasName(RowsOf(t), x)
  <2>1. PICK p \in Range(Parts) : x = <<"part_catalogs", StableId(p)>>
    BY DEF CatalogNames, CatalogIds
  <2>2. PICK i \in 1..n : p = Parts[i]
    BY PartsAre
  <2>3. row(p) \in RowsOf(t)
    BY <1>3, <1>4, <2>2 DEF RowsOf
  <2>4. row(p).table = x[1] /\ row(p).key = x[2]
    BY <2>1, RowIs
  <2> QED
    BY <2>3, <2>4 DEF HasName
<1> QED
  BY <1>2, <1>5, <1>6

(* The lines of a bill show parts of the catalogue.                         *)
LEMMA ModelList ==
  ASSUME NEW d, \A x \in CatalogNames : HasName(d, x)
  PROVE  ListOK("scm", d, ModelGroup.list)
<1> DEFINE first(m) == Row("product_models", m, None)
           line(m, p) == Row("parts_by_model", <<m, StableId(p)>>, p)
           lines(m) == [k \in 1..Len(Installed[m]) |-> Assign(line(m, Installed[m][k]))]
           of(m) == <<Assign(first(m))>> \o lines(m)
           f == [i \in 1..Len(Models) |-> of(Models[i])]
<1>1. ModelGroup.list = FlattenSeq(f)
  BY IdIsStable DEF ModelGroup, Group, Concat, Each
<1>2. ASSUME NEW m \in Range(Models) PROVE ListOK("scm", d, of(m))
  <2> DEFINE a == first(m)
             n == Len(Installed[m])
             t == lines(m)
  <2>1. RowOK("scm", a) /\ Refs(a) = {} /\ HasName({a}, <<"product_models", m>>)
    BY TablesAre, PlainRow, NoRefs, RowIs DEF HasName
  <2>2. n \in Nat /\ \A k \in 1..n : Installed[m][k] \in Range(Parts)
    BY InstalledAre
  <2>3. ASSUME NEW k \in 1..n
        PROVE  StmtOK("scm", t[k]) /\ \A r \in t[k].rows : \A x \in Refs(r) : HasName(d \cup {a}, x)
    <3> DEFINE p == Installed[m][k]
               q == line(m, p)
    <3>1. RowOK("scm", q) /\ Refs(q) = {<<"product_models", m>>, <<"part_catalogs", StableId(p)>>}
      <4>1. q.table = "parts_by_model" /\ q.key = <<m, StableId(p)>>
        BY RowIs
      <4>2. q.key[1] = m /\ q.key[2] = StableId(p)
        BY <4>1
      <4>3. RowOK("scm", q)
        BY TablesAre, PlainRow
      <4> HIDE DEF q
      <4> QED
        BY <4>1, <4>2, <4>3 DEF Refs
    <3>2. <<"part_catalogs", StableId(p)>> \in CatalogNames
      BY <2>2 DEF CatalogNames, CatalogIds
    <3>3. t[k] = Assign(q)
      OBVIOUS
    <3> HIDE DEF q, t
    <3>4. StmtOK("scm", Assign(q)) /\ Assign(q).rows = {q}
      BY <3>1, ScmRow
    <3>5. \A x \in Refs(q) : HasName(d, x) \/ HasName({a}, x)
      BY <2>1, <3>1, <3>2
    <3>6. \A x : HasName(d, x) \/ HasName({a}, x) => HasName(d \cup {a}, x)
      BY DEF HasName
    <3> QED
      BY <3>3, <3>4, <3>5, <3>6
  <2>4. t = [k \in 1..n |-> t[k]]
    OBVIOUS
  <2>5. of(m) = <<Assign(a)>> \o t
    OBVIOUS
  <2> HIDE DEF a, t, n, of
  <2>6. ListOK("scm", d, <<Assign(a)>>) /\ RowsOf(<<Assign(a)>>) = {a}
    <3>1. "scm" # "system"
      OBVIOUS
    <3>2. \A x \in Refs(a) : HasName(d, x)
      BY <2>1
    <3> QED
      BY <2>1, <3>1, <3>2, AssignList
  <2>7. ListOK("scm", d \cup {a}, t)
    BY <2>2, <2>3, <2>4, ListEach
  <2> QED
    BY <2>5, <2>6, <2>7, ListJoin
<1> HIDE DEF of
<1> DEFINE n == Len(Models)
<1>3. n \in Nat /\ f = [i \in 1..n |-> f[i]] /\ \A i \in 1..n : f[i] = of(Models[i])
  BY ModelsAre
<1> HIDE DEF f
<1>4. \A i \in 1..n : ListOK("scm", d, f[i])
  BY <1>2, <1>3, ModelsAre
<1> HIDE DEF n
<1> QED
  BY <1>1, <1>3, <1>4, ListFlat

LEMMA StockList == \A d : ListOK("scm", d, StockGroup.list)
<1> TAKE d
<1> DEFINE stock(p) == Row("component_stocks", SkuOf[p], None)
           entry(p) == Row("inventory_ledger", SkuOf[p], None)
           of(p) == <<Assign(stock(p)), Ensure(entry(p))>>
           f == [i \in 1..Len(Parts) |-> of(Parts[i])]
<1>1. StockGroup.list = FlattenSeq(f)
  BY DEF StockGroup, Group, Concat
<1>2. ASSUME NEW p PROVE ListOK("scm", d, of(p))
  <2> DEFINE a == stock(p)
             b == entry(p)
  <2>1. RowOK("scm", a) /\ Refs(a) = {} /\ HasName({a}, <<"component_stocks", SkuOf[p]>>)
    BY TablesAre, PlainRow, NoRefs, RowIs DEF HasName
  <2>2. RowOK("scm", b) /\ Refs(b) = {<<"component_stocks", SkuOf[p]>>}
    BY TablesAre, PlainRow, RowIs DEF Refs
  <2>3. of(p) = <<Assign(a), Ensure(b)>>
    OBVIOUS
  <2> HIDE DEF a, b, of
  <2>4. StmtOK("scm", Assign(a)) /\ Assign(a).rows = {a}
    BY <2>1, ScmRow
  <2>5. ListOK("scm", d, <<Assign(a)>>)
    BY <2>1, <2>4, ListOne
  <2>6. \A x \in Refs(b) : HasName(d \cup {a}, x)
    BY <2>1, <2>2 DEF HasName
  <2>7. ListOK("scm", d \cup {a}, <<Ensure(b)>>)
    BY <2>2, <2>6, EnsureList
  <2> QED
    BY <2>3, <2>4, <2>5, <2>7, ListTwo
<1> HIDE DEF of
<1> DEFINE n == Len(Parts)
<1>3. n \in Nat /\ f = [i \in 1..n |-> f[i]] /\ \A i \in 1..n : f[i] = of(Parts[i])
  BY PartsAre
<1> HIDE DEF f
<1>4. \A i \in 1..n : ListOK("scm", d, f[i])
  BY <1>2, <1>3
<1> HIDE DEF n
<1> QED
  BY <1>1, <1>3, <1>4, ListFlat

LEMMA ImageIsFinite ==
  ASSUME NEW S, IsFiniteSet(S)
  PROVE  IsFiniteSet({r.key : r \in S})
<1> DEFINE T == {r.key : r \in S}
           g == [r \in S |-> r.key]
<1>1. g \in Surjection(S, T)
  BY DEF Surjection
<1> HIDE DEF T, g
<1>2. IsFiniteSet(T)
  BY <1>1, FS_Surjection
<1> QED
  BY <1>2 DEF T

LEMMA NumbersAreFinite == IsFiniteSet(PartNumbers)
<1> DEFINE T == {SkuOf[p] : p \in Range(Parts)}
           g == [p \in Range(Parts) |-> SkuOf[p]]
<1>1. g \in Surjection(Range(Parts), T)
  BY DEF Surjection
<1> HIDE DEF T, g
<1>2. IsFiniteSet(T)
  BY <1>1, PartsAre, FS_Surjection
<1> QED
  BY <1>2 DEF T, PartNumbers

LEMMA MappingsList == \A d : ListOK("scm", d, MappingList)
<1> TAKE d
<1> DEFINE skus == SetToSeq(PartNumbers)
           n == Len(skus)
           one(i) == Row("sku_mappings", <<Seller(i - 1), skus[i]>>, None)
           two(i) == Row("sku_mappings", <<Seller(i), skus[i]>>, None)
           of(i) == <<Ensure(one(i))>> \o IF Seller(i) = Seller(i - 1) THEN <<>> ELSE <<Ensure(two(i))>>
           f == [i \in 1..n |-> of(i)]
<1>1. n \in Nat
  BY NumbersAreFinite, SetToSeqIs
<1>2. MappingList = FlattenSeq(f)
  <2>1. Len(Numbers(n)) = n /\ \A i \in 1..n : Numbers(n)[i] = i
    BY <1>1, NumbersAre
  <2>2. MappingList = FlattenSeq([i \in 1..Len(Numbers(n)) |-> of(Numbers(n)[i])])
    BY DEF MappingList, Concat
  <2> HIDE DEF n, of
  <2>3. f = [i \in 1..Len(Numbers(n)) |-> of(Numbers(n)[i])]
    BY <2>1
  <2> QED
    BY <2>2, <2>3
<1>3. ASSUME NEW i \in 1..n PROVE ListOK("scm", d, of(i))
  <2> DEFINE a == one(i)
             b == two(i)
             z == IF Seller(i) = Seller(i - 1) THEN <<>> ELSE <<Ensure(b)>>
  <2>1. RowOK("scm", a) /\ Refs(a) = {} /\ RowOK("scm", b) /\ Refs(b) = {}
    BY TablesAre, PlainRow, NoRefs, RowIs
  <2>2. of(i) = <<Ensure(a)>> \o z
    OBVIOUS
  <2> HIDE DEF a, b, of
  <2>3. ListOK("scm", d, <<Ensure(a)>>) /\ ListOK("scm", d \cup RowsOf(<<Ensure(a)>>), <<Ensure(b)>>)
    BY <2>1, EnsureList
  <2>4. ListOK("scm", d \cup RowsOf(<<Ensure(a)>>), z)
    BY <2>3, NoneIsList
  <2> HIDE DEF z
  <2> QED
    BY <2>2, <2>3, <2>4, ListJoin
<1>4. f = [i \in 1..n |-> f[i]] /\ \A i \in 1..n : f[i] = of(i)
  OBVIOUS
<1> HIDE DEF f, n, of
<1> QED
  BY <1>1, <1>2, <1>3, <1>4, ListFlat

(* A receipt refers to the shipment that is written before it.              *)
LEMMA BundleList == \A d : \A i \in Nat : ListOK("scm", d, Bundle(i))
<1> TAKE d
<1> TAKE i \in Nat
<1> DEFINE docs == Documents(i)
           n == Len(docs)
           row(k) == Row(docs[k], i, None)
           t == [k \in 1..n |-> Ensure(row(k))]
<1>1. /\ n \in Nat
      /\ \A k \in 1..n : /\ docs[k] \in {"purchase_orders", "shipments", "goods_receipts"}
                         /\ docs[k] = "goods_receipts" => 2 \in 1..(k - 1) /\ 2 \in 1..n /\ docs[2] = "shipments"
  <2>1. CASE i = 1
    <3>1. docs = <<"purchase_orders">>
      BY <2>1 DEF Documents
    <3> HIDE DEF docs
    <3> QED
      BY <3>1
  <2>2. CASE i \in {2, 3}
    <3>1. docs = <<"purchase_orders", "shipments">>
      BY <2>2 DEF Documents
    <3> HIDE DEF docs
    <3> QED
      BY <3>1
  <2>3. CASE i # 1 /\ i \notin {2, 3}
    <3>1. docs = <<"purchase_orders", "shipments", "goods_receipts">>
      BY <2>3 DEF Documents
    <3> HIDE DEF docs
    <3>2. n = 3 /\ docs[1] = "purchase_orders" /\ docs[2] = "shipments" /\ docs[3] = "goods_receipts"
      BY <3>1
    <3>3. 1..n = {1, 2, 3}
      BY <3>2
    <3> QED
      BY <3>2, <3>3
  <2> QED
    BY <2>1, <2>2, <2>3
<1>2. Bundle(i) = t
  BY DEF Bundle, Each
<1> HIDE DEF docs
<1>3. ASSUME NEW k \in 1..n
      PROVE  /\ StmtOK("scm", t[k]) /\ t[k].rows = {row(k)}
             /\ row(k).table = docs[k] /\ row(k).key = i
  <2> DEFINE q == row(k)
  <2>1. docs[k] \in Tables["scm"] /\ docs[k] \notin {"part_catalogs", "production_orders", "bom_entries"}
    <3>1. {"purchase_orders", "shipments", "goods_receipts"} \subseteq Tables["scm"]
      BY TablesAre
    <3>2. docs[k] \in {"purchase_orders", "shipments", "goods_receipts"}
      BY <1>1
    <3> QED
      BY <3>1, <3>2
  <2>2. RowOK("scm", q) /\ q.table = docs[k] /\ q.key = i
    BY <2>1, PlainRow, RowIs
  <2>3. t[k] = Ensure(q)
    OBVIOUS
  <2> HIDE DEF q, t
  <2>4. StmtOK("scm", Ensure(q)) /\ Ensure(q).rows = {q}
    BY <2>2, OneRow
  <2> QED
    BY <2>2, <2>3, <2>4 DEF q
<1>4. t = [k \in 1..n |-> t[k]]
  OBVIOUS
<1> HIDE DEF t, row
<1>5. IsSeq(t) /\ DOMAIN t = 1..n
  BY <1>1, <1>4, MakesSeq
<1>6. ASSUME NEW k \in 1..n, NEW r \in t[k].rows, NEW x \in Refs(r)
      PROVE  \E j \in 1..(k - 1) : HasName(t[j].rows, x)
  <2>1. r = row(k) /\ r.table = docs[k] /\ r.key = i
    BY <1>3
  <2>2. r.table = "goods_receipts"
    <3>1. r.table \in {"purchase_orders", "shipments", "goods_receipts"}
      BY <1>1, <2>1
    <3>2. Refs(r) # {}
      OBVIOUS
    <3>3. r.table \in {"purchase_orders", "shipments"} => Refs(r) = {}
      BY NoRefs
    <3> QED
      BY <3>1, <3>2, <3>3
  <2>3. x = <<"shipments", i>>
    BY <2>1, <2>2 DEF Refs
  <2>4. 2 \in 1..(k - 1) /\ 2 \in 1..n /\ docs[2] = "shipments"
    BY <1>1, <2>1, <2>2
  <2>5. HasName(t[2].rows, x)
    BY <1>3, <2>3, <2>4 DEF HasName
  <2> QED
    BY <2>4, <2>5
<1> QED
  BY <1>2, <1>3, <1>5, <1>6 DEF ListOK, Shape, Refers

LEMMA ProcurementList == \A d : ListOK("scm", d, ProcurementGroup.list)
<1> TAKE d
<1> DEFINE n == IF Suppliers > 5 THEN 5 ELSE Suppliers
           of(i) == IF Sells(i) THEN Bundle(i) ELSE <<>>
           f == [i \in 1..n |-> of(i)]
<1>1. n \in Nat
  BY SeedingAssumption
<1> HIDE DEF n
<1>2. Concat(Numbers(n), LAMBDA i : of(i)) = FlattenSeq(f)
  <2>1. Len(Numbers(n)) = n /\ \A i \in 1..n : Numbers(n)[i] = i
    BY <1>1, NumbersAre
  <2>2. Concat(Numbers(n), LAMBDA i : of(i)) = FlattenSeq([i \in 1..Len(Numbers(n)) |-> of(Numbers(n)[i])])
    BY DEF Concat
  <2> HIDE DEF of
  <2>3. f = [i \in 1..Len(Numbers(n)) |-> of(Numbers(n)[i])]
    BY <2>1
  <2> QED
    BY <2>2, <2>3
<1>3. ProcurementGroup.list = MappingList \o FlattenSeq(f)
  <2>1. ProcurementGroup.list = MappingList \o Concat(Numbers(n), LAMBDA i : of(i))
    BY DEF ProcurementGroup, Group, n
  <2> QED
    BY <1>2, <2>1
<1>4. \A i \in 1..n : ListOK("scm", d \cup RowsOf(MappingList), of(i))
  <2>1. \A i \in 1..n : i \in Nat
    BY <1>1
  <2> QED
    BY <2>1, BundleList, NoneIsList
<1>5. f = [i \in 1..n |-> f[i]] /\ \A i \in 1..n : f[i] = of(i)
  OBVIOUS
<1> HIDE DEF f, of
<1>6. ListOK("scm", d \cup RowsOf(MappingList), FlattenSeq(f))
  BY <1>1, <1>4, <1>5, ListFlat
<1> QED
  BY <1>3, <1>6, MappingsList, ListJoin

(* A part of a product is for a line that the bill has.                     *)
LEMMA ProductList ==
  ASSUME NEW d, IsFiniteSet(d)
  PROVE  ListOK("scm", d, ProductGroup(d).list)
<1> DEFINE lines(m) == BillLines(m, d)
           first(m, i) == Row("products", <<m, i>>, Customer(m, i))
           piece(m, i, l) == Row("parts", <<m, i, l>>, l[2])
           parts(m, i) == [k \in 1..Len(lines(m)) |-> Assign(piece(m, i, lines(m)[k]))]
           of(m, i) == <<Assign(first(m, i))>> \o parts(m, i)
           two(m) == [i \in 1..2 |-> of(m, i)]
           f == [k \in 1..Len(Models) |-> FlattenSeq(two(Models[k]))]
<1>1. ASSUME NEW m
      PROVE  Len(lines(m)) \in Nat /\ \A k \in 1..Len(lines(m)) : HasName(d, <<"parts_by_model", lines(m)[k]>>)
  <2> DEFINE S == {l \in Rows(d, {"parts_by_model"}) : l.key[1] = m}
             K == {r.key : r \in S}
  <2>1. IsFiniteSet(S)
    BY FS_Subset DEF Rows
  <2>2. \A r \in S : r \in d /\ r.table = "parts_by_model"
    BY DEF Rows
  <2>3. IsFiniteSet(K)
    <3> HIDE DEF S
    <3> QED
      BY <2>1, ImageIsFinite
  <2>4. lines(m) = SetToSeq(K)
    BY DEF BillLines
  <2>5. ASSUME NEW x \in K PROVE HasName(d, <<"parts_by_model", x>>)
    BY <2>2 DEF HasName
  <2> HIDE DEF K, S, lines
  <2>6. lines(m) \in Seq(K)
    BY <2>3, <2>4, SetToSeqIs
  <2> QED
    BY <2>5, <2>6
<1>2. ASSUME NEW m, NEW i PROVE ListOK("scm", d, of(m, i))
  <2> DEFINE a == first(m, i)
             n == Len(lines(m))
             t == parts(m, i)
  <2>1. RowOK("scm", a) /\ Refs(a) = {}
    BY TablesAre, PlainRow, NoRefs, RowIs
  <2>2. ASSUME NEW k \in 1..n
        PROVE  StmtOK("scm", t[k]) /\ \A r \in t[k].rows : \A x \in Refs(r) : HasName(d \cup {a}, x)
    <3> DEFINE l == lines(m)[k]
               q == piece(m, i, l)
    <3>1. RowOK("scm", q) /\ Refs(q) = {<<"parts_by_model", l>>}
      <4> HIDE DEF l
      <4>1. q.table = "parts" /\ q.key = <<m, i, l>>
        BY RowIs
      <4>2. q.key[3] = l
        BY <4>1
      <4>3. RowOK("scm", q)
        BY TablesAre, PlainRow
      <4> HIDE DEF q
      <4> QED
        BY <4>1, <4>2, <4>3 DEF Refs
    <3>2. t[k] = Assign(q)
      OBVIOUS
    <3>3. HasName(d, <<"parts_by_model", l>>)
      BY <1>1
    <3> HIDE DEF q, t, l
    <3>4. StmtOK("scm", Assign(q)) /\ Assign(q).rows = {q}
      BY <3>1, ScmRow
    <3>5. HasName(d \cup {a}, <<"parts_by_model", l>>)
      BY <3>3 DEF HasName
    <3> QED
      BY <3>1, <3>2, <3>4, <3>5
  <2>3. n \in Nat /\ t = [k \in 1..n |-> t[k]]
    BY <1>1
  <2>4. of(m, i) = <<Assign(a)>> \o t
    OBVIOUS
  <2> HIDE DEF a, t, n, of
  <2>5. ListOK("scm", d, <<Assign(a)>>) /\ RowsOf(<<Assign(a)>>) = {a}
    <3>1. "scm" # "system"
      OBVIOUS
    <3> QED
      BY <2>1, <3>1, AssignList
  <2>6. ListOK("scm", d \cup {a}, t)
    BY <2>2, <2>3, ListEach
  <2> QED
    BY <2>4, <2>5, <2>6, ListJoin
<1> HIDE DEF of
<1>3. ASSUME NEW m PROVE ListOK("scm", d, FlattenSeq(two(m)))
  <2> DEFINE g == two(m)
  <2>1. g = [i \in 1..2 |-> g[i]] /\ \A i \in 1..2 : g[i] = of(m, i)
    OBVIOUS
  <2> HIDE DEF g
  <2>2. ListOK("scm", d, FlattenSeq(g))
    BY <1>2, <2>1, ListFlat
  <2> QED
    BY <2>2 DEF g
<1>4. ProductGroup(d).list = FlattenSeq(f)
  <2>1. Len(Numbers(2)) = 2 /\ \A i \in 1..2 : Numbers(2)[i] = i
    BY NumbersAre
  <2>2. ASSUME NEW m PROVE two(m) = [i \in 1..Len(Numbers(2)) |-> of(m, Numbers(2)[i])]
    BY <2>1
  <2>3. ProductGroup(d).list =
          FlattenSeq([k \in 1..Len(Models) |-> FlattenSeq([i \in 1..Len(Numbers(2)) |-> of(Models[k], Numbers(2)[i])])])
    BY DEF ProductGroup, Group, Concat, Each, of
  <2> HIDE DEF two
  <2> QED
    BY <2>2, <2>3
<1> DEFINE n == Len(Models)
<1>5. n \in Nat /\ f = [k \in 1..n |-> f[k]] /\ \A k \in 1..n : f[k] = FlattenSeq(two(Models[k]))
  BY ModelsAre
<1> HIDE DEF f, n, two
<1>6. \A k \in 1..n : ListOK("scm", d, f[k])
  BY <1>3, <1>5
<1> QED
  BY <1>4, <1>5, <1>6, ListFlat

(* What MRP and Sales read from a manifest.                                 *)
ContractOK(c) ==
    /\ c.parts \subseteq CatalogIds
    /\ IsFiniteSet(c.lines) /\ \A l \in c.lines : l[2] \in c.parts
    /\ IsSeq(c.customers)

LEMMA BillsList ==
  ASSUME NEW c, ContractOK(c), NEW d
  PROVE  ListOK("mrp", d, MrpSeeder(c)[1].list)
<1> DEFINE row(l) == Row("bom_entries", l, None)
           R == {row(l) : l \in c.lines}
           t == Create(R)
<1>1. MrpSeeder(c)[1].list = <<t>>
  BY DEF MrpSeeder, Group
<1>2. ASSUME NEW r \in R
      PROVE  RowOK("mrp", r) /\ Refs(r) = {} /\ r.table = "bom_entries" /\ r = row(r.key)
  <2>1. PICK l \in c.lines : r = row(l)
    OBVIOUS
  <2>2. r.table = "bom_entries" /\ r.key = l /\ r = Row(r.table, r.key, r.of)
    BY <2>1, RowIs
  <2>3. l[2] \in CatalogIds
    BY DEF ContractOK
  <2>4. "bom_entries" \in Tables["mrp"]
    BY TablesAre
  <2>5. RowOK("mrp", r)
    BY <2>2, <2>3, <2>4 DEF RowOK
  <2>6. Refs(r) = {}
    BY <2>2, NoRefs
  <2> HIDE DEF row
  <2> QED
    BY <2>1, <2>2, <2>5, <2>6
<1>3. IsFiniteSet(R)
  <2> DEFINE g == [l \in c.lines |-> row(l)]
  <2>1. g \in Surjection(c.lines, R)
    BY DEF Surjection
  <2>2. IsFiniteSet(c.lines)
    BY DEF ContractOK
  <2> HIDE DEF g, R
  <2> QED
    BY <2>1, <2>2, FS_Surjection
<1> HIDE DEF R, row
<1>4. t.op = "create" /\ t.rows = R
  BY DEF Create
<1>5. StmtOK("mrp", t) /\ \A r \in t.rows : \A x \in Refs(r) : HasName(d, x)
  <2>1. \A r, q \in R : r.table = q.table /\ (r.key = q.key => r = q)
    BY <1>2
  <2> HIDE DEF t
  <2> QED
    BY <1>2, <1>3, <1>4, <2>1 DEF StmtOK
<1> HIDE DEF t
<1> QED
  BY <1>1, <1>5, ListOne

LEMMA OrderedIs ==
  ASSUME NEW c
  PROVE  /\ Len(Ordered(c)) \in Nat /\ Len(Ordered(c)) <= 3
         /\ \A i \in 1..Len(Ordered(c)) : Ordered(c)[i] \in Range(Models)
<1>1. InOrder(Models, c.models) \in Seq(Range(Models))
  BY SeedingAssumption, InOrderIs
<1> DEFINE t == Ordered(c)
<1>2. t \in Seq(Range(Models)) /\ Len(t) \in Nat /\ Len(t) <= 3
  <2>1. 3 \in Nat
    OBVIOUS
  <2> QED
    BY <1>1, <2>1, AtMostIs DEF Ordered
<1> HIDE DEF t
<1>3. \A i \in 1..Len(t) : t[i] \in Range(Models)
  BY <1>2
<1> QED
  BY <1>2, <1>3 DEF t

OrderNames(c) == {<<"production_orders", StableId(Ordered(c)[i])>> : i \in 1..Len(Ordered(c))}

LEMMA ProductionList ==
  ASSUME NEW c, NEW d
  PROVE  /\ ListOK("mrp", d, MrpSeeder(c)[2].list)
         /\ \A x \in OrderNames(c) : HasName(RowsOf(MrpSeeder(c)[2].list), x)
<1> DEFINE row(m) == Row("production_orders", StableId(m), m)
           n == Len(Ordered(c))
           t == [i \in 1..n |-> Create({row(Ordered(c)[i])})]
<1>1. MrpSeeder(c)[2].list = t
  BY IdIsStable DEF MrpSeeder, Group, Each
<1>2. n \in Nat /\ \A i \in 1..n : Ordered(c)[i] \in Range(Models)
  BY OrderedIs
<1>3. ASSUME NEW i \in 1..n
      PROVE  /\ StmtOK("mrp", t[i]) /\ \A r \in t[i].rows : \A x \in Refs(r) : HasName(d, x)
             /\ t[i].rows = {row(Ordered(c)[i])}
  <2> DEFINE q == row(Ordered(c)[i])
  <2>1. Ordered(c)[i] \in Range(Models)
    BY <1>2
  <2>2. RowOK("mrp", q) /\ Refs(q) = {}
    BY <2>1, TablesAre, NoRefs, RowIs DEF RowOK
  <2>3. t[i] = Create({q})
    OBVIOUS
  <2> HIDE DEF q, t
  <2>4. StmtOK("mrp", Create({q})) /\ Create({q}).rows = {q}
    BY <2>2, OneRow
  <2> QED
    BY <2>2, <2>3, <2>4 DEF q
<1>4. t = [i \in 1..n |-> t[i]] /\ DOMAIN t = 1..n
  OBVIOUS
<1> HIDE DEF t
<1>5. ListOK("mrp", d, t)
  <2> HIDE DEF n
  <2> QED
    BY <1>2, <1>3, <1>4, ListEach
<1>6. ASSUME NEW x \in OrderNames(c) PROVE HasName(RowsOf(t), x)
  <2>1. PICK i \in 1..n : x = <<"production_orders", StableId(Ordered(c)[i])>>
    BY DEF OrderNames
  <2> DEFINE q == row(Ordered(c)[i])
  <2>2. q \in RowsOf(t)
    BY <1>3, <1>4 DEF RowsOf
  <2>3. q.table = x[1] /\ q.key = x[2]
    BY <2>1, RowIs
  <2> HIDE DEF q
  <2> QED
    BY <2>2, <2>3 DEF HasName
<1> QED
  BY <1>1, <1>5, <1>6

LEMMA ShortPartsAre ==
  ASSUME NEW c, ContractOK(c), NEW i \in 1..Len(Ordered(c))
  PROVE  /\ Len(ShortParts(c, i)) \in Nat
         /\ \A k \in 1..Len(ShortParts(c, i)) : ShortParts(c, i)[k][1] = Ordered(c)[i]
<1> DEFINE B == {l \in c.lines : l[1] = Ordered(c)[i]}
           bill == SetToSeq(B)
<1>1. bill \in Seq(B)
  <2>1. IsFiniteSet(B)
    BY FS_Subset DEF ContractOK
  <2> HIDE DEF B
  <2> QED
    BY <2>1, SetToSeqIs
<1>2. i \in Nat
  BY OrderedIs
<1>3. \A l \in B : l[1] = Ordered(c)[i]
  OBVIOUS
<1> DEFINE t == ShortParts(c, i)
<1>4. t = <<>> \/ t = AtMost(2, bill) \/ t = bill
  BY <1>2 DEF ShortParts
<1> HIDE DEF t, B, bill
<1>5. t \in Seq(B)
  <2>1. AtMost(2, bill) \in Seq(B)
    BY <1>1, AtMostIs
  <2>2. <<>> \in Seq(B)
    OBVIOUS
  <2> QED
    BY <1>1, <1>4, <2>1, <2>2
<1>6. Len(t) \in Nat /\ \A k \in 1..Len(t) : t[k] \in B
  BY <1>5
<1> QED
  BY <1>3, <1>6 DEF t

(* A shortage is of an order for a model.                                   *)
LEMMA ShortageList ==
  ASSUME NEW c, ContractOK(c), NEW d, \A x \in OrderNames(c) : HasName(d, x)
  PROVE  ListOK("mrp", d, MrpSeeder(c)[3].list)
<1> DEFINE row(l) == Row("shortage_logs", <<StableId(l[1]), l[2]>>, None)
           n == Len(Ordered(c))
           of(i) == [k \in 1..Len(ShortParts(c, i)) |-> Create({row(ShortParts(c, i)[k])})]
           f == [i \in 1..n |-> of(i)]
<1>1. n \in Nat
  BY OrderedIs
<1>2. MrpSeeder(c)[3].list = FlattenSeq(f)
  <2>1. Len(Numbers(n)) = n /\ \A i \in 1..n : Numbers(n)[i] = i
    BY <1>1, NumbersAre
  <2>2. MrpSeeder(c)[3].list = FlattenSeq([i \in 1..Len(Numbers(n)) |-> of(Numbers(n)[i])])
    BY IdIsStable DEF MrpSeeder, Group, Concat, Each
  <2> HIDE DEF n, of
  <2>3. f = [i \in 1..Len(Numbers(n)) |-> of(Numbers(n)[i])]
    BY <2>1
  <2> QED
    BY <2>2, <2>3
<1>3. ASSUME NEW i \in 1..n PROVE ListOK("mrp", d, of(i))
  <2> DEFINE p == ShortParts(c, i)
             k == Len(p)
             t == of(i)
  <2>1. k \in Nat /\ (\A j \in 1..k : p[j][1] = Ordered(c)[i]) /\ t = [j \in 1..k |-> t[j]]
    BY ShortPartsAre
  <2>2. HasName(d, <<"production_orders", StableId(Ordered(c)[i])>>)
    BY DEF OrderNames
  <2>3. ASSUME NEW j \in 1..k
        PROVE  StmtOK("mrp", t[j]) /\ \A r \in t[j].rows : \A x \in Refs(r) : HasName(d, x)
    <3> DEFINE l == p[j]
               q == row(l)
    <3>1. RowOK("mrp", q) /\ Refs(q) = {<<"production_orders", StableId(l[1])>>}
      <4>1. q.table = "shortage_logs" /\ q.key = <<StableId(l[1]), l[2]>>
        BY RowIs
      <4>2. q.key[1] = StableId(l[1])
        BY <4>1
      <4>3. RowOK("mrp", q)
        BY TablesAre, PlainRow
      <4> HIDE DEF q
      <4> QED
        BY <4>1, <4>2, <4>3 DEF Refs
    <3>2. t[j] = Create({q})
      OBVIOUS
    <3>3. l[1] = Ordered(c)[i]
      BY <2>1
    <3> HIDE DEF q, t, l
    <3>4. StmtOK("mrp", Create({q})) /\ Create({q}).rows = {q}
      BY <3>1, OneRow
    <3> QED
      BY <2>2, <3>1, <3>2, <3>3, <3>4
  <2> HIDE DEF t, k
  <2>4. ListOK("mrp", d, t)
    BY <2>1, <2>3, ListEach
  <2> QED
    BY <2>4 DEF t
<1>4. f = [i \in 1..n |-> f[i]] /\ \A i \in 1..n : f[i] = of(i)
  OBVIOUS
<1> HIDE DEF f, n, of
<1> QED
  BY <1>1, <1>2, <1>3, <1>4, ListFlat

LEMMA ClientsAre ==
  ASSUME NEW c, ContractOK(c)
  PROVE  Len(Clients(c)) \in Nat
<1>1. CASE c.customers = <<>>
  BY <1>1 DEF Clients
<1>2. CASE c.customers # <<>>
  BY <1>2, IsSeqFacts DEF Clients, ContractOK
<1> QED
  BY <1>1, <1>2

ClientNames(c) == {<<"clients", Clients(c)[i]>> : i \in 1..Len(Clients(c))}

LEMMA ClientList ==
  ASSUME NEW c, ContractOK(c), NEW d
  PROVE  /\ ListOK("sales", d, SalesSeeder(c)[1].list)
         /\ \A x \in ClientNames(c) : HasName(RowsOf(SalesSeeder(c)[1].list), x)
<1> DEFINE row(k) == Row("clients", k, None)
           n == Len(Clients(c))
           t == [i \in 1..n |-> Ensure(row(Clients(c)[i]))]
<1>1. SalesSeeder(c)[1].list = t
  BY DEF SalesSeeder, ClientGroup, Group, Each
<1>2. n \in Nat
  BY ClientsAre
<1>3. ASSUME NEW i \in 1..n
      PROVE  /\ StmtOK("sales", t[i]) /\ \A r \in t[i].rows : \A x \in Refs(r) : HasName(d, x)
             /\ t[i].rows = {row(Clients(c)[i])}
  <2> DEFINE q == row(Clients(c)[i])
  <2>1. RowOK("sales", q) /\ Refs(q) = {}
    BY TablesAre, PlainRow, NoRefs, RowIs
  <2>2. t[i] = Ensure(q)
    OBVIOUS
  <2> HIDE DEF q, t
  <2>3. StmtOK("sales", Ensure(q)) /\ Ensure(q).rows = {q}
    BY <2>1, OneRow
  <2> QED
    BY <2>1, <2>2, <2>3 DEF q
<1>4. t = [i \in 1..n |-> t[i]] /\ DOMAIN t = 1..n
  OBVIOUS
<1> HIDE DEF t
<1>5. ListOK("sales", d, t)
  <2> HIDE DEF n
  <2> QED
    BY <1>2, <1>3, <1>4, ListEach
<1>6. ASSUME NEW x \in ClientNames(c) PROVE HasName(RowsOf(t), x)
  <2>1. PICK i \in 1..n : x = <<"clients", Clients(c)[i]>>
    BY DEF ClientNames
  <2> DEFINE q == row(Clients(c)[i])
  <2>2. q \in RowsOf(t)
    BY <1>3, <1>4 DEF RowsOf
  <2>3. q.table = x[1] /\ q.key = x[2]
    BY <2>1, RowIs
  <2> HIDE DEF q
  <2> QED
    BY <2>2, <2>3 DEF HasName
<1> QED
  BY <1>1, <1>5, <1>6

LEMMA OrdersAre ==
  ASSUME NEW c, ContractOK(c)
  PROVE  /\ Len(OrdersOf(c)) \in Nat
         /\ \A k \in 1..Len(OrdersOf(c)) : OrdersOf(c)[k][1] \in 1..Len(Clients(c))
<1> DEFINE n == Len(Clients(c))
           X == (1..n) \X {0, 1}
           of(i) == <<<<i, 0>>>> \o IF i % 2 = 1 THEN <<<<i, 1>>>> ELSE <<>>
           f == [i \in 1..n |-> of(i)]
           t == OrdersOf(c)
<1>1. n \in Nat
  BY ClientsAre
<1>2. t = <<>> \/ t = FlattenSeq(f)
  <2>1. Len(Numbers(n)) = n /\ \A i \in 1..n : Numbers(n)[i] = i
    BY <1>1, NumbersAre
  <2>2. t = <<>> \/ t = FlattenSeq([i \in 1..Len(Numbers(n)) |-> of(Numbers(n)[i])])
    BY DEF OrdersOf, Concat
  <2> HIDE DEF n, of, t
  <2>3. f = [i \in 1..Len(Numbers(n)) |-> of(Numbers(n)[i])]
    BY <2>1
  <2> QED
    BY <2>2, <2>3
<1>3. ASSUME NEW i \in 1..n PROVE of(i) \in Seq(X)
  <2> DEFINE a == <<i, 0>>
             b == <<i, 1>>
  <2>1. a \in X /\ b \in X
    OBVIOUS
  <2>2. of(i) = <<a>> \o IF i % 2 = 1 THEN <<b>> ELSE <<>>
    OBVIOUS
  <2> HIDE DEF a, b, X, of
  <2>3. <<a>> \in Seq(X) /\ <<b>> \in Seq(X) /\ <<>> \in Seq(X)
    BY <2>1
  <2> QED
    BY <2>2, <2>3
<1>4. f \in [1..n -> Seq(X)]
  <2> HIDE DEF X, of
  <2> QED
    BY <1>3
<1>5. t \in Seq(X)
  <2>1. <<>> \in Seq(X)
    OBVIOUS
  <2> HIDE DEF X, f, t, n
  <2>2. FlattenSeq(f) \in Seq(X)
    BY <1>1, <1>4, FlatIn
  <2> QED
    BY <1>2, <2>1, <2>2
<1>6. \A x \in X : x[1] \in 1..n
  OBVIOUS
<1> HIDE DEF X, t
<1>7. Len(t) \in Nat /\ \A k \in 1..Len(t) : t[k] \in X
  BY <1>5
<1> QED
  BY <1>6, <1>7 DEF t

(* An order is of a client, an item of nothing that a property tells apart. *)
LEMMA OrderList ==
  ASSUME NEW c, ContractOK(c), NEW d, \A x \in ClientNames(c) : HasName(d, x)
  PROVE  ListOK("sales", d, SalesSeeder(c)[2].list)
<1> DEFINE order(o) == Row("sales_orders", o, Clients(c)[o[1]])
           item(o, k) == Row("sales_order_items", <<o, k>>, None)
           m(o) == OrderItems(o[1], o[2])
           items(o) == [k \in 1..m(o) |-> Create({item(o, k)})]
           of(o) == <<Create({order(o)})>> \o items(o)
           n == Len(OrdersOf(c))
           f == [i \in 1..n |-> of(OrdersOf(c)[i])]
<1>1. ASSUME NEW o PROVE m(o) \in Nat
  BY DEF OrderItems
<1>2. SalesSeeder(c)[2].list = FlattenSeq(f)
  <2>1. ASSUME NEW o
        PROVE  Each(Numbers(OrderItems(o[1], o[2])), LAMBDA k : Create({Row("sales_order_items", <<o, k>>, None)})) = items(o)
    <3> DEFINE z == Numbers(m(o))
    <3>1. Len(z) = m(o) /\ \A k \in 1..m(o) : z[k] = k
      BY <1>1, NumbersAre
    <3>2. Each(Numbers(OrderItems(o[1], o[2])), LAMBDA k : Create({Row("sales_order_items", <<o, k>>, None)}))
            = [k \in 1..Len(z) |-> Create({item(o, z[k])})]
      BY DEF Each
    <3> HIDE DEF z, m, item
    <3>3. [k \in 1..Len(z) |-> Create({item(o, z[k])})] = items(o)
      BY <3>1
    <3> QED
      BY <3>2, <3>3
  <2>2. SalesSeeder(c)[2].list = FlattenSeq([i \in 1..n |->
          <<Create({order(OrdersOf(c)[i])})>>
          \o Each(Numbers(OrderItems(OrdersOf(c)[i][1], OrdersOf(c)[i][2])),
                  LAMBDA k : Create({Row("sales_order_items", <<OrdersOf(c)[i], k>>, None)}))])
    BY DEF SalesSeeder, Group, Concat
  <2> HIDE DEF order, items
  <2> QED
    BY <2>1, <2>2
<1>3. ASSUME NEW o, o[1] \in 1..Len(Clients(c)) PROVE ListOK("sales", d, of(o))
  <2> DEFINE a == order(o)
             k == m(o)
             t == items(o)
  <2>1. RowOK("sales", a) /\ Refs(a) = {<<"clients", Clients(c)[o[1]]>>}
    BY TablesAre, PlainRow, RowIs DEF Refs
  <2>2. HasName(d, <<"clients", Clients(c)[o[1]]>>)
    BY <1>3 DEF ClientNames
  <2>3. ASSUME NEW j \in 1..k
        PROVE  StmtOK("sales", t[j]) /\ \A r \in t[j].rows : \A x \in Refs(r) : HasName(d \cup {a}, x)
    <3> DEFINE q == item(o, j)
    <3>1. RowOK("sales", q) /\ Refs(q) = {}
      BY TablesAre, PlainRow, NoRefs, RowIs
    <3>2. t[j] = Create({q})
      OBVIOUS
    <3> HIDE DEF q, t
    <3>3. StmtOK("sales", Create({q})) /\ Create({q}).rows = {q}
      BY <3>1, OneRow
    <3> QED
      BY <3>1, <3>2, <3>3
  <2>4. k \in Nat /\ t = [j \in 1..k |-> t[j]]
    BY <1>1
  <2>5. of(o) = <<Create({a})>> \o t
    OBVIOUS
  <2> HIDE DEF a, t, k, of
  <2>6. ListOK("sales", d, <<Create({a})>>) /\ RowsOf(<<Create({a})>>) = {a}
    BY <2>1, <2>2, CreateList
  <2>7. ListOK("sales", d \cup {a}, t)
    BY <2>3, <2>4, ListEach
  <2> QED
    BY <2>5, <2>6, <2>7, ListJoin
<1>4. n \in Nat /\ f = [i \in 1..n |-> f[i]] /\ \A i \in 1..n : f[i] = of(OrdersOf(c)[i])
  BY OrdersAre
<1>5. \A i \in 1..n : OrdersOf(c)[i][1] \in 1..Len(Clients(c))
  BY OrdersAre
<1> HIDE DEF f, n, of
<1>6. \A i \in 1..n : ListOK("sales", d, f[i])
  BY <1>3, <1>4, <1>5
<1> QED
  BY <1>2, <1>4, <1>6, ListFlat

LEMMA SystemLists ==
  ASSUME NEW d, NEW i \in 1..3
  PROVE  ListOK("system", d, SystemSeeder(d)[i].list)
<1>1. ListOK("system", d, SystemSeeder(d)[1].list)
  <2> DEFINE a == Row("roles", "all", None)
             b == Row("action_type_entries", "all", None)
  <2>1. SystemSeeder(d)[1].list = <<Ensure(a), Ensure(b)>>
    BY DEF SystemSeeder, Group
  <2>2. RowOK("system", a) /\ RowOK("system", b) /\ Refs(a) = {} /\ Refs(b) = {}
    BY TablesAre, PlainRow, NoRefs, RowIs
  <2> HIDE DEF a, b
  <2>3. ListOK("system", d, <<Ensure(a)>>) /\ ListOK("system", d \cup Ensure(a).rows, <<Ensure(b)>>)
    BY <2>2, EnsureList
  <2> QED
    BY <2>1, <2>3, ListTwo
<1>2. ListOK("system", d, SystemSeeder(d)[2].list)
  <2> DEFINE row(u) == Row("users", u, "seeded")
             z == SetToSeq(Accounts)
             n == Len(z)
             t == [k \in 1..n |-> Ensure(row(z[k]))]
  <2>1. SystemSeeder(d)[2].list = t
    BY DEF SystemSeeder, Group, Each, UserStatement
  <2>2. n \in Nat
    BY SeedingAssumption, SetToSeqIs
  <2>3. ASSUME NEW k \in 1..n
        PROVE  StmtOK("system", t[k]) /\ \A r \in t[k].rows : \A x \in Refs(r) : HasName(d, x)
    <3> DEFINE q == row(z[k])
    <3>1. RowOK("system", q) /\ Refs(q) = {}
      BY TablesAre, PlainRow, NoRefs, RowIs
    <3>2. t[k] = Ensure(q)
      OBVIOUS
    <3> HIDE DEF q, t
    <3>3. StmtOK("system", Ensure(q)) /\ Ensure(q).rows = {q}
      BY <3>1, OneRow
    <3> QED
      BY <3>1, <3>2, <3>3
  <2>4. t = [k \in 1..n |-> t[k]]
    OBVIOUS
  <2> HIDE DEF t, n
  <2> QED
    BY <2>1, <2>2, <2>3, <2>4, ListEach
<1>3. ListOK("system", d, SystemSeeder(d)[3].list)
  <2> DEFINE S == {q \in Rows(d, {"users"}) : q.of # "deleted"}
             names == {r.key : r \in S}
             u == CHOOSE x \in names : TRUE
             a == Row("audit_logs", run["system"].start, u)
  <2>1. SystemSeeder(d)[3].list = IF names = {} THEN <<>> ELSE <<Create({a})>>
    BY DEF SystemSeeder, Group
  <2>2. CASE names # {}
    <3>1. u \in names
      BY <2>2
    <3>2. HasName(d, <<"users", u>>)
      <4>1. PICK r \in S : u = r.key
        BY <3>1
      <4>2. r \in d /\ r.table = "users"
        BY DEF Rows
      <4> QED
        BY <4>1, <4>2 DEF HasName
    <3> HIDE DEF u, names
    <3>3. RowOK("system", a) /\ Refs(a) = {<<"users", u>>}
      <4>1. a.table = "audit_logs" /\ a.of = u /\ RowOK("system", a)
        BY TablesAre, PlainRow, RowIs
      <4> HIDE DEF a
      <4> QED
        BY <4>1 DEF Refs
    <3> HIDE DEF a
    <3>4. ListOK("system", d, <<Create({a})>>)
      BY <3>2, <3>3, CreateList
    <3> QED
      BY <2>1, <2>2, <3>4
  <2>3. CASE names = {}
    <3> HIDE DEF a, names
    <3> QED
      BY <2>1, <2>3, NoneIsList
  <2> QED
    BY <2>2, <2>3
<1>4. i = 1 \/ i = 2 \/ i = 3
  OBVIOUS
<1> QED
  BY <1>1, <1>2, <1>3, <1>4

-----------------------------------------------------------------------------
(***************************************************************************)
(* The invariant of the databases.  What is left of a seeding refers to    *)
(* what it finds; and the identifiers that later groups will use are in    *)
(* the database or in what is left, from the group on that writes them.    *)
(***************************************************************************)
Rec(tool, start, place, group, input, todo) ==
    [tool |-> tool, start |-> start, at |-> place, group |-> group, input |-> input, todo |-> todo]

DatabaseOK(s, d) ==
    /\ IsFiniteSet(d) /\ \A r \in d : RowOK(s, r)
    /\ \A r, q \in d : Same(r, q) => r = q
Resolved(d) == \A r \in d : \A x \in Refs(r) : HasName(d, x)
NoParts(d) == \A r \in d : r.table # "part_catalogs"

RunOK(s, x) ==
    /\ x = Rec(x.tool, x.start, x.at, x.group, x.input, x.todo)
    /\ Shape(s, x.todo) /\ x.group \in Nat
    /\ x.todo # <<>> => x.at = "seed" /\ x.group \in 1..7
    /\ x.at \notin {"seed", "manifest"} => x.group = 0
    /\ x.at = "seed" /\ s \in {"mrp", "sales"} => ContractOK(x.input)
    /\ s = "mrp" /\ x.at \in {"clear", "migrate", "apply"} => x.tool = "migrate"

(* The seeder of SCM begins with an empty database.                         *)
Fresh(d, x) ==
    /\ x.at \in {"clear manifest", "migrate", "apply"} /\ x.tool # "migrate" => NoParts(d)
    /\ x.at = "seed" /\ x.group < 3 => NoParts(d) /\ NoParts(RowsOf(x.todo))

ClientsAt(c, start) == IF c.customers = <<>> THEN <<RandomUUID("client", start)>> ELSE c.customers
ClientNamesAt(c, start) == {<<"clients", ClientsAt(c, start)[i]>> : i \in 1..Len(ClientsAt(c, start))}

Promised(s, x, l) ==
    CASE s = "scm" /\ x.at = "seed" /\ x.group >= 3 /\ ~l -> CatalogNames
      [] s = "mrp" /\ x.at = "seed" /\ x.group >= 2 -> OrderNames(x.input)
      [] s = "sales" /\ x.at = "seed" /\ x.group >= 1 -> ClientNamesAt(x.input, x.start)
      [] OTHER -> {}

ServiceOK(s, d, sc, x, l) ==
    /\ DatabaseOK(s, d) /\ sc \in {"none", "dirty", "ready"} /\ (d # {} => sc = "ready")
    /\ RunOK(s, x)
    /\ (s = "scm" /\ l) \/ (Resolved(d) /\ Refers(d, x.todo))
    /\ \A n \in Promised(s, x, l) : HasName(d \cup RowsOf(x.todo), n)
    /\ s = "scm" => Fresh(d, x)

Over(f, S) == f = [t \in S |-> f[t]]
ContractsOK ==
    /\ Over(contract, {"mrp", "sales"})
    /\ manifest # None => ContractOK(manifest)
    /\ \A s \in {"mrp", "sales"} : contract[s] # None => ContractOK(contract[s])
CountsOK == starts \in 0..MaxStarts /\ faults \in 0..MaxFaults /\ changes \in 0..MaxChanges
SeedInv ==
    /\ Over(db, Services) /\ Over(schema, Services) /\ Over(run, Services) /\ lost \in BOOLEAN
    /\ \A s \in Services : ServiceOK(s, db[s], schema[s], run[s], lost)
    /\ ContractsOK /\ CountsOK

LEMMA IdleIs == Idle = Rec("none", 0, "idle", 0, None, <<>>)
BY DEF Idle, Rec

LEMMA EmptyList == \A s, d : Shape(s, <<>>) /\ Refers(d, <<>>) /\ RowsOf(<<>>) = {}
BY NoneIsList DEF ListOK

LEMMA EmptyDatabase == \A s : DatabaseOK(s, {}) /\ Resolved({}) /\ NoParts({})
BY FS_EmptySet DEF DatabaseOK, Resolved, NoParts

LEMMA NoGroup ==
  ASSUME NEW x, x.group = 0
  PROVE  x.group \in Nat /\ ~(x.group >= 3) /\ ~(x.group >= 2) /\ ~(x.group >= 1)
OBVIOUS

(* A tool that has not begun its groups.                                    *)
LEMMA AtRest ==
  ASSUME NEW s, NEW d, NEW sc, NEW l, NEW tool, NEW start, NEW place, NEW input,
         DatabaseOK(s, d), sc \in {"none", "dirty", "ready"}, d # {} => sc = "ready",
         (s = "scm" /\ l) \/ Resolved(d),
         place = "seed" /\ s \in {"mrp", "sales"} => ContractOK(input),
         s = "mrp" /\ place \in {"clear", "migrate", "apply"} => tool = "migrate",
         s = "scm" /\ place \in {"clear manifest", "migrate", "apply"} /\ tool # "migrate" => NoParts(d),
         s = "scm" /\ place = "seed" => NoParts(d)
  PROVE  ServiceOK(s, d, sc, Rec(tool, start, place, 0, input, <<>>), l)
<1>0. PICK x : x = Rec(tool, start, place, 0, input, <<>>)
  OBVIOUS
<1>1. /\ x.tool = tool /\ x.start = start /\ x.at = place /\ x.input = input /\ x.todo = <<>>
      /\ x = Rec(x.tool, x.start, x.at, x.group, x.input, x.todo)
  BY <1>0 DEF Rec
<1>z. x.group = 0
  BY <1>0 DEF Rec
<1>n. x.group \in Nat /\ ~(x.group >= 3) /\ ~(x.group >= 2) /\ ~(x.group >= 1)
  BY <1>z, NoGroup
<1>2. Shape(s, x.todo) /\ Refers(d, x.todo) /\ RowsOf(x.todo) = {}
  BY <1>1, EmptyList
<1>3. RunOK(s, x)
  <2>2. x.at = "seed" /\ s \in {"mrp", "sales"} => ContractOK(x.input)
    BY <1>1
  <2>3. s = "mrp" /\ x.at \in {"clear", "migrate", "apply"} => x.tool = "migrate"
    BY <1>1
  <2> QED
    BY <1>1, <1>2, <1>z, <1>n, <2>2, <2>3 DEF RunOK
<1>4. Promised(s, x, l) = {}
  BY <1>n DEF Promised
<1>5. s = "scm" => Fresh(d, x)
  BY <1>1, <1>2 DEF Fresh, NoParts
<1>6. ServiceOK(s, d, sc, x, l)
  BY <1>2, <1>3, <1>4, <1>5 DEF ServiceOK
<1> QED
  BY <1>0, <1>6

LEMMA Ended ==
  ASSUME NEW s, NEW d, NEW sc, NEW x, NEW l, NEW k, ServiceOK(s, d, sc, x, l), s = "scm" => (l => k)
  PROVE  ServiceOK(s, d, sc, Idle, k)
<1>1. /\ DatabaseOK(s, d) /\ sc \in {"none", "dirty", "ready"} /\ (d # {} => sc = "ready")
      /\ (s = "scm" /\ k) \/ Resolved(d)
  BY DEF ServiceOK
<1>2. ServiceOK(s, d, sc, Rec("none", 0, "idle", 0, None, <<>>), k)
  BY <1>1, AtRest
<1> QED
  BY <1>2, IdleIs

(* Only the seeding of SCM loses rows.                                      *)
LEMMA LostElsewhere ==
  ASSUME NEW s, NEW d, NEW sc, NEW x, NEW l, NEW k, ServiceOK(s, d, sc, x, l), s # "scm"
  PROVE  ServiceOK(s, d, sc, x, k)
<1>1. Promised(s, x, l) = Promised(s, x, k)
  BY DEF Promised
<1> QED
  BY <1>1 DEF ServiceOK

(* What the steps do to the tools at work.                                  *)
LEMMA RunFields ==
  ASSUME NEW s, NEW x, RunOK(s, x)
  PROVE  /\ \A a : [x EXCEPT !.at = a] = Rec(x.tool, x.start, a, x.group, x.input, x.todo)
         /\ \A n : [x EXCEPT !.group = n] = Rec(x.tool, x.start, x.at, n, x.input, x.todo)
<1> DEFINE a1 == x.tool
           a2 == x.start
           a3 == x.at
           a4 == x.group
           a5 == x.input
           a6 == x.todo
<1>1. x = Rec(a1, a2, a3, a4, a5, a6)
  BY DEF RunOK
<1> HIDE DEF a1, a2, a3, a4, a5, a6
<1>2. \A a : [x EXCEPT !.at = a] = Rec(a1, a2, a, a4, a5, a6)
  BY <1>1 DEF Rec
<1>3. \A n : [x EXCEPT !.group = n] = Rec(a1, a2, a3, n, a5, a6)
  BY <1>1 DEF Rec
<1> QED
  BY <1>2, <1>3 DEF a1, a2, a3, a4, a5, a6

LEMMA ToolIs ==
  ASSUME SeedInv, NEW s \in Services
  PROVE  /\ ServiceOK(s, db[s], schema[s], run[s], lost) /\ RunOK(s, run[s])
         /\ Over(db, Services) /\ Over(schema, Services) /\ Over(run, Services) /\ lost \in BOOLEAN
BY DEF SeedInv, ServiceOK

(* A step about one service.                                                *)
LEMMA StepAt ==
  ASSUME SeedInv, NEW s \in Services,
         Over(db', Services), Over(schema', Services), Over(run', Services), lost' \in BOOLEAN,
         \A t \in Services : t # s => db'[t] = db[t] /\ schema'[t] = schema[t] /\ run'[t] = run[t],
         s = "scm" \/ lost' = lost,
         ServiceOK(s, db'[s], schema'[s], run'[s], lost'),
         ContractsOK', CountsOK'
  PROVE  SeedInv'
<1>1. ASSUME NEW t \in Services, t # s
      PROVE  ServiceOK(t, db'[t], schema'[t], run'[t], lost')
  <2>1. db'[t] = db[t] /\ schema'[t] = schema[t] /\ run'[t] = run[t]
    BY <1>1
  <2>2. ServiceOK(t, db[t], schema[t], run[t], lost)
    BY DEF SeedInv
  <2>3. lost' = lost \/ t # "scm"
    BY <1>1
  <2>4. ServiceOK(t, db[t], schema[t], run[t], lost')
    BY <2>2, <2>3, LostElsewhere
  <2> QED
    BY <2>1, <2>4
<1>2. \A t \in Services : ServiceOK(t, db'[t], schema'[t], run'[t], lost')
  BY <1>1
<1> QED
  BY <1>2 DEF SeedInv

(***************************************************************************)
(* A statement.                                                            *)
(***************************************************************************)
LEMMA WrittenOK ==
  ASSUME NEW s, NEW d, NEW t, DatabaseOK(s, d), StmtOK(s, t), ~Conflicts(d, t)
  PROVE  /\ DatabaseOK(s, Written(d, t)) /\ Written(d, t) \subseteq d \cup t.rows
         /\ \A x : HasName(d, x) \/ HasName(t.rows, x) => HasName(Written(d, t), x)
<1> DEFINE old == {r \in d : \E q \in t.rows : Same(r, q)}
<1>1. PICK w : w = Written(d, t)
  OBVIOUS
<1>2. PICK z : z = old
  OBVIOUS
<1>3. \/ t.op = "ensure" /\ z # {} /\ w = d
      \/ t.op = "assign" /\ w = (d \ z) \cup t.rows
      \/ (t.op = "create" \/ (t.op = "ensure" /\ z = {})) /\ w = d \cup t.rows
  BY <1>1, <1>2 DEF Written, StmtOK
<1>4. t.op # "create" => \E r \in t.rows : t.rows = {r}
  BY DEF StmtOK
<1>5. IsFiniteSet(d) /\ IsFiniteSet(t.rows) /\ (\A r \in d : RowOK(s, r)) /\ (\A r \in t.rows : RowOK(s, r))
      /\ (\A r, q \in d : Same(r, q) => r = q) /\ (\A r, q \in t.rows : r.table = q.table /\ (r.key = q.key => r = q))
  BY DEF DatabaseOK, StmtOK
<1>6. \A r \in d : r \in z <=> \E q \in t.rows : Same(r, q)
  BY <1>2
<1>7. z \subseteq d
  BY <1>2
<1>8. w \subseteq d \cup t.rows
  BY <1>3
<1>9. IsFiniteSet(w)
  BY <1>5, <1>8, FS_Union, FS_Subset
<1>10. \A r \in w : RowOK(s, r)
  BY <1>5, <1>8
<1>11. t.op = "create" => \A r \in d, q \in t.rows : ~Same(r, q)
  BY DEF Conflicts
<1>12. ASSUME NEW r \in w, NEW q \in w, Same(r, q) PROVE r = q
  <2>1. Same(q, r)
    BY <1>12 DEF Same
  <2>2. CASE t.op = "ensure" /\ z # {} /\ w = d
    BY <1>5, <1>12, <2>2
  <2>3. CASE t.op = "assign" /\ w = (d \ z) \cup t.rows
    BY <1>5, <1>6, <1>12, <2>1, <2>3 DEF Same
  <2>4. CASE (t.op = "create" \/ (t.op = "ensure" /\ z = {})) /\ w = d \cup t.rows
    <3>1. \A a \in d, b \in t.rows : ~Same(a, b)
      BY <1>6, <1>11, <2>4
    <3> QED
      BY <1>5, <1>12, <2>1, <2>4, <3>1 DEF Same
  <2> QED
    BY <1>3, <2>2, <2>3, <2>4
<1>13. ASSUME NEW x, HasName(d, x) \/ HasName(t.rows, x) PROVE HasName(w, x)
  <2>1. CASE t.op = "ensure" /\ z # {} /\ w = d
    <3>1. PICK r \in z : TRUE
      BY <2>1
    <3>2. PICK q \in t.rows : Same(r, q) /\ r \in d
      BY <1>6, <1>7, <3>1
    <3>3. t.rows = {q}
      BY <1>4, <2>1, <3>2
    <3> QED
      BY <1>13, <2>1, <3>2, <3>3 DEF HasName, Same
  <2>2. CASE t.op = "assign" /\ w = (d \ z) \cup t.rows
    <3>1. CASE HasName(t.rows, x)
      BY <2>2, <3>1 DEF HasName
    <3>2. CASE HasName(d, x)
      <4>1. PICK r \in d : r.table = x[1] /\ r.key = x[2]
        BY <3>2 DEF HasName
      <4>2. CASE r \in z
        <5>1. PICK q \in t.rows : Same(r, q)
          BY <1>6, <4>2
        <5> QED
          BY <2>2, <4>1, <5>1 DEF HasName, Same
      <4>3. CASE r \notin z
        BY <2>2, <4>1, <4>3 DEF HasName
      <4> QED
        BY <4>2, <4>3
    <3> QED
      BY <1>13, <3>1, <3>2
  <2>3. CASE w = d \cup t.rows
    BY <1>13, <2>3 DEF HasName
  <2> QED
    BY <1>3, <2>1, <2>2, <2>3
<1> QED
  BY <1>1, <1>8, <1>9, <1>10, <1>12, <1>13 DEF DatabaseOK

(* The rest of a list, when its first statement is done.                    *)
LEMMA RestRefers ==
  ASSUME NEW d, NEW e, NEW t, IsSeq(t), t # <<>>, Refers(d, t),
         \A x : x[1] # "audit_logs" /\ (HasName(d, x) \/ HasName(t[1].rows, x)) => HasName(e, x)
  PROVE  Refers(e, Tail(t))
<1>1. /\ DOMAIN Tail(t) = 1..(Len(t) - 1) /\ Len(t) \in Nat /\ Len(t) > 0 /\ DOMAIN t = 1..Len(t)
      /\ \A i \in 1..(Len(t) - 1) : Tail(t)[i] = t[i + 1] /\ i + 1 \in DOMAIN t
  BY TailIs, IsSeqFacts
<1> SUFFICES ASSUME NEW i \in 1..(Len(t) - 1), NEW r \in t[i + 1].rows, NEW x \in Refs(r)
             PROVE  HasName(e, x) \/ \E j \in 1..(i - 1) : HasName(Tail(t)[j].rows, x)
  BY <1>1 DEF Refers
<1>2. x[1] # "audit_logs"
  BY RefsNoLog
<1>3. HasName(d, x) \/ \E j \in 1..((i + 1) - 1) : HasName(t[j].rows, x)
  BY <1>1 DEF Refers
<1>4. CASE \E j \in 1..((i + 1) - 1) : HasName(t[j].rows, x)
  <2>1. PICK j \in 1..((i + 1) - 1) : HasName(t[j].rows, x)
    BY <1>4
  <2>2. CASE j = 1
    BY <1>2, <2>1, <2>2
  <2>3. CASE j # 1
    <3>1. j - 1 \in 1..(i - 1) /\ j - 1 \in 1..(Len(t) - 1) /\ (j - 1) + 1 = j
      BY <2>3
    <3>2. Tail(t)[j - 1] = t[j]
      BY <1>1, <3>1
    <3> QED
      BY <2>1, <3>1, <3>2
  <2> QED
    BY <2>2, <2>3
<1> QED
  BY <1>2, <1>3, <1>4

LEMMA RestIs ==
  ASSUME NEW s, NEW t, Shape(s, t), t # <<>>
  PROVE  /\ Shape(s, Tail(t)) /\ Head(t) = t[1] /\ StmtOK(s, t[1])
         /\ RowsOf(t) = t[1].rows \cup RowsOf(Tail(t))
<1>1. /\ IsSeq(t) /\ IsSeq(Tail(t)) /\ Head(t) = t[1] /\ 1 \in DOMAIN t /\ Len(t) \in Nat /\ Len(t) > 0
      /\ DOMAIN t = 1..Len(t) /\ DOMAIN Tail(t) = 1..(Len(t) - 1)
      /\ \A i \in 1..(Len(t) - 1) : Tail(t)[i] = t[i + 1] /\ i + 1 \in DOMAIN t
  BY TailIs, IsSeqFacts DEF Shape
<1>2. Shape(s, Tail(t)) /\ StmtOK(s, t[1])
  BY <1>1 DEF Shape
<1>3. ASSUME NEW i \in 1..Len(t) PROVE i = 1 \/ (i - 1 \in 1..(Len(t) - 1) /\ Tail(t)[i - 1] = t[i])
  <2>1. i # 1 => i - 1 \in 1..(Len(t) - 1) /\ (i - 1) + 1 = i
    BY <1>1
  <2> QED
    BY <1>1, <2>1
<1>4. RowsOf(t) \subseteq t[1].rows \cup RowsOf(Tail(t))
  BY <1>1, <1>3 DEF RowsOf
<1>5. t[1].rows \cup RowsOf(Tail(t)) \subseteq RowsOf(t)
  BY <1>1 DEF RowsOf
<1> QED
  BY <1>1, <1>2, <1>4, <1>5

LEMMA NamesOfTwo ==
  \A a, b, x : HasName(a \cup b, x) <=> HasName(a, x) \/ HasName(b, x)
BY DEF HasName

LEMMA PromisesArePlain == ASSUME NEW s, NEW x, NEW l, NEW n \in Promised(s, x, l) PROVE n[1] # "audit_logs"
<1>1. \A c : \A m \in OrderNames(c) : m[1] = "production_orders"
  BY DEF OrderNames
<1>2. \A c, st : \A m \in ClientNamesAt(c, st) : m[1] = "clients"
  BY DEF ClientNamesAt
<1>3. \A m \in CatalogNames : m[1] = "part_catalogs"
  BY DEF CatalogNames
<1>4. n \in CatalogNames \/ n \in OrderNames(x.input) \/ n \in ClientNamesAt(x.input, x.start)
  BY DEF Promised
<1> QED
  BY <1>1, <1>2, <1>3, <1>4

LEMMA RestRuns ==
  ASSUME NEW s, NEW x, RunOK(s, x), x.todo # <<>>, NEW y,
         y = Rec(x.tool, x.start, x.at, x.group, x.input, Tail(x.todo))
  PROVE  /\ RunOK(s, y) /\ y.todo = Tail(x.todo) /\ y.at = x.at /\ y.at = "seed" /\ y.group = x.group
         /\ \A l : Promised(s, y, l) = Promised(s, x, l)
         /\ RowsOf(y.todo) \subseteq RowsOf(x.todo)
<1>1. /\ y.tool = x.tool /\ y.start = x.start /\ y.at = x.at /\ y.group = x.group /\ y.input = x.input
      /\ y.todo = Tail(x.todo) /\ y = Rec(y.tool, y.start, y.at, y.group, y.input, y.todo)
  BY DEF Rec
<1>2. x.at = "seed" /\ x.group \in 1..7 /\ x.group \in Nat
  BY DEF RunOK
<1>3. Shape(s, Tail(x.todo)) /\ RowsOf(x.todo) = x.todo[1].rows \cup RowsOf(Tail(x.todo))
  BY RestIs DEF RunOK
<1>4. RunOK(s, y)
  BY <1>1, <1>2, <1>3 DEF RunOK
<1>5. \A l : Promised(s, y, l) = Promised(s, x, l)
  BY <1>1 DEF Promised
<1> QED
  BY <1>1, <1>2, <1>3, <1>4, <1>5

LEMMA Executed ==
  ASSUME NEW s, NEW d, NEW sc, NEW x, NEW l, ServiceOK(s, d, sc, x, l), x.todo # <<>>, sc = "ready",
         ~Conflicts(d, Head(x.todo)), NEW y,
         y = Rec(x.tool, x.start, x.at, x.group, x.input, Tail(x.todo))
  PROVE  ServiceOK(s, Written(d, Head(x.todo)), sc, y, l)
<1>1. PICK w : w = Written(d, Head(x.todo))
  OBVIOUS
<1>2. PICK t : t = x.todo
  OBVIOUS
<1>3. DatabaseOK(s, d) /\ RunOK(s, x) /\ Shape(s, t)
  BY <1>2 DEF ServiceOK, RunOK
<1>4. /\ Head(t) = t[1] /\ StmtOK(s, t[1]) /\ RowsOf(t) = t[1].rows \cup RowsOf(Tail(t)) /\ IsSeq(t)
  BY <1>2, <1>3, RestIs DEF Shape
<1>5. /\ DatabaseOK(s, w) /\ w \subseteq d \cup t[1].rows
      /\ \A z : HasName(d, z) \/ HasName(t[1].rows, z) => HasName(w, z)
  BY <1>1, <1>2, <1>3, <1>4, WrittenOK
<1>6. /\ RunOK(s, y) /\ y.todo = Tail(t) /\ y.at = x.at /\ y.at = "seed" /\ y.group = x.group
      /\ (\A k : Promised(s, y, k) = Promised(s, x, k)) /\ RowsOf(y.todo) \subseteq RowsOf(t)
  BY <1>2, <1>3, RestRuns
<1>7. ASSUME Resolved(d), Refers(d, t) PROVE Resolved(w) /\ Refers(w, y.todo)
  <2>1. Refers(w, Tail(t))
    BY <1>2, <1>4, <1>5, <1>7, RestRefers
  <2>2. ASSUME NEW r \in w, NEW z \in Refs(r) PROVE HasName(w, z)
    <3>1. CASE r \in d
      BY <1>5, <1>7, <3>1 DEF Resolved
    <3>2. CASE r \in t[1].rows
      <4>1. 1 \in DOMAIN t
        BY <1>2, <1>4, TailIs
      <4>2. HasName(d, z) \/ \E j \in 1..(1 - 1) : HasName(t[j].rows, z)
        BY <1>7, <3>2, <4>1 DEF Refers
      <4>3. 1..(1 - 1) = {}
        OBVIOUS
      <4> QED
        BY <1>5, <4>2, <4>3
    <3> QED
      BY <1>5, <3>1, <3>2
  <2> QED
    BY <1>6, <2>1, <2>2 DEF Resolved
<1>8. (s = "scm" /\ l) \/ (Resolved(w) /\ Refers(w, y.todo))
  BY <1>2, <1>7 DEF ServiceOK
<1>9. ASSUME NEW n \in Promised(s, y, l) PROVE HasName(w \cup RowsOf(y.todo), n)
  <2>1. HasName(d \cup RowsOf(t), n)
    BY <1>2, <1>6 DEF ServiceOK
  <2>2. HasName(d, n) \/ HasName(t[1].rows, n) \/ HasName(RowsOf(Tail(t)), n)
    BY <1>4, <2>1, NamesOfTwo
  <2>3. HasName(w, n) \/ HasName(RowsOf(y.todo), n)
    BY <1>5, <1>6, <2>2
  <2> QED
    BY <2>3, NamesOfTwo
<1>10. s = "scm" => Fresh(w, y)
  <2> SUFFICES ASSUME s = "scm", y.group < 3 PROVE NoParts(w) /\ NoParts(RowsOf(y.todo))
    BY <1>6 DEF Fresh
  <2>1. NoParts(d) /\ NoParts(RowsOf(t))
    BY <1>2, <1>6 DEF ServiceOK, Fresh
  <2> QED
    BY <1>4, <1>5, <1>6, <2>1 DEF NoParts
<1> QED
  BY <1>1, <1>5, <1>6, <1>8, <1>9, <1>10 DEF ServiceOK

LEMMA Skipped ==
  ASSUME NEW s \in Services, NEW d, NEW sc, NEW x, NEW l, NEW k, ServiceOK(s, d, sc, x, l), x.todo # <<>>,
         Tolerates(s, Head(x.todo)), s = "scm" => k, s # "scm" => k = l, NEW y,
         y = Rec(x.tool, x.start, x.at, x.group, x.input, Tail(x.todo))
  PROVE  ServiceOK(s, d, sc, y, k)
<1>2. PICK t : t = x.todo
  OBVIOUS
<1>3. DatabaseOK(s, d) /\ sc \in {"none", "dirty", "ready"} /\ (d # {} => sc = "ready") /\ RunOK(s, x) /\ Shape(s, t)
  BY <1>2 DEF ServiceOK, RunOK
<1>4. /\ Head(t) = t[1] /\ StmtOK(s, t[1]) /\ RowsOf(t) = t[1].rows \cup RowsOf(Tail(t)) /\ IsSeq(t)
  BY <1>2, <1>3, RestIs DEF Shape
<1>6. /\ RunOK(s, y) /\ y.todo = Tail(t) /\ y.at = x.at /\ y.at = "seed" /\ y.group = x.group
      /\ (\A i : Promised(s, y, i) = Promised(s, x, i)) /\ RowsOf(y.todo) \subseteq RowsOf(t)
  BY <1>2, <1>3, RestRuns
<1>7. CASE s = "scm"
  <2>1. Promised(s, y, k) = {}
    BY <1>7 DEF Promised
  <2>2. Fresh(d, y)
    <3> SUFFICES ASSUME y.group < 3 PROVE NoParts(d) /\ NoParts(RowsOf(y.todo))
      BY <1>6 DEF Fresh
    <3>1. NoParts(d) /\ NoParts(RowsOf(t))
      BY <1>2, <1>6, <1>7 DEF ServiceOK, Fresh
    <3> QED
      BY <1>6, <3>1 DEF NoParts
  <2> QED
    BY <1>3, <1>6, <1>7, <2>1, <2>2 DEF ServiceOK
<1>8. CASE s # "scm"
  <2>1. \A r \in t[1].rows : r.table = "audit_logs"
    <3>1. \E r \in t[1].rows : r.table = "audit_logs"
      BY <1>2, <1>4, <1>8 DEF Tolerates
    <3> QED
      BY <1>4, <3>1 DEF StmtOK
  <2>2. \A z : z[1] # "audit_logs" => ~HasName(t[1].rows, z)
    BY <2>1 DEF HasName
  <2>3. Resolved(d) /\ Refers(d, t)
    BY <1>2, <1>8 DEF ServiceOK
  <2>4. Refers(d, y.todo)
    BY <1>2, <1>4, <1>6, <2>2, <2>3, RestRefers
  <2>5. ASSUME NEW n \in Promised(s, y, k) PROVE HasName(d \cup RowsOf(y.todo), n)
    <3>1. n \in Promised(s, x, l)
      BY <1>6, <1>8
    <3>2. HasName(d \cup RowsOf(t), n) /\ n[1] # "audit_logs"
      BY <1>2, <3>1, PromisesArePlain DEF ServiceOK
    <3>3. HasName(d, n) \/ HasName(t[1].rows, n) \/ HasName(RowsOf(Tail(t)), n)
      BY <1>4, <3>2, NamesOfTwo
    <3>4. HasName(d, n) \/ HasName(RowsOf(y.todo), n)
      BY <1>6, <2>2, <3>2, <3>3
    <3> QED
      BY <3>4, NamesOfTwo
  <2> QED
    BY <1>3, <1>6, <1>8, <2>3, <2>4, <2>5 DEF ServiceOK
<1> QED
  BY <1>7, <1>8

(***************************************************************************)
(* A group begins.                                                         *)
(***************************************************************************)
LEMMA HowManyGroups ==
  \A s \in Services : Len(Groups(s)) \in Nat /\ Len(Groups(s)) <= 7 /\ (s # "scm" => Len(Groups(s)) <= 3)
                      /\ (s = "sales" => Len(Groups(s)) <= 2)
<1>1. Len(ScmSeeder(db["scm"])) = 7
  BY DEF ScmSeeder
<1>2. Len(MrpSeeder(run["mrp"].input)) = 3
  BY DEF MrpSeeder
<1>3. Len(SalesSeeder(run["sales"].input)) = 2
  BY DEF SalesSeeder
<1>4. Len(SystemSeeder(db["system"])) = 3
  BY DEF SystemSeeder
<1>5. /\ Groups("scm") = ScmSeeder(db["scm"]) /\ Groups("mrp") = MrpSeeder(run["mrp"].input)
      /\ Groups("sales") = SalesSeeder(run["sales"].input) /\ Groups("system") = SystemSeeder(db["system"])
  BY DEF Groups
<1> SUFFICES ASSUME NEW s \in Services
             PROVE  /\ Len(Groups(s)) \in Nat /\ Len(Groups(s)) <= 7 /\ (s # "scm" => Len(Groups(s)) <= 3)
                    /\ (s = "sales" => Len(Groups(s)) <= 2)
  OBVIOUS
<1>6. CASE s = "scm"
  <2>1. Len(Groups(s)) = 7
    BY <1>1, <1>5, <1>6
  <2>2. s # "sales"
    BY <1>6
  <2>3. Len(Groups(s)) \in Nat /\ Len(Groups(s)) <= 7
    BY <2>1
  <2> QED
    BY <1>6, <2>2, <2>3
<1>7. CASE s = "mrp"
  <2>1. Len(Groups(s)) = 3
    BY <1>2, <1>5, <1>7
  <2>2. s # "sales"
    BY <1>7
  <2> QED
    BY <2>1, <2>2
<1>8. CASE s = "sales"
  <2>1. Len(Groups(s)) = 2
    BY <1>3, <1>5, <1>8
  <2>2. s # "scm"
    BY <1>8
  <2> QED
    BY <2>1, <2>2
<1>9. CASE s = "system"
  <2>1. Len(Groups(s)) = 3
    BY <1>4, <1>5, <1>9
  <2>2. s # "sales"
    BY <1>9
  <2> QED
    BY <2>1, <2>2
<1> QED
  BY <1>6, <1>7, <1>8, <1>9 DEF Services

LEMMA FirstGroups == NoParts(RowsOf(LookupGroup.list)) /\ NoParts(RowsOf(SupplierGroup.list))
<1>1. NoParts(RowsOf(LookupGroup.list))
  <2> DEFINE a == Ensure(Row("states", "all", None))
             b == Ensure(Row("api_keys", "default", None))
             w == <<a, b>>
  <2>1. LookupGroup.list = w
    BY DEF LookupGroup, Group
  <2>2. (\A r \in a.rows : r.table = "states") /\ (\A r \in b.rows : r.table = "api_keys")
    BY RowIs DEF Ensure
  <2> HIDE DEF a, b
  <2>3. DOMAIN w = {1, 2} /\ w[1] = a /\ w[2] = b
    OBVIOUS
  <2> HIDE DEF w
  <2> QED
    BY <2>1, <2>2, <2>3 DEF NoParts, RowsOf
<1>2. NoParts(RowsOf(SupplierGroup.list))
  <2> DEFINE t == [i \in 1..Suppliers |-> Assign(Row("suppliers", i, None))]
  <2>1. SupplierGroup.list = t
    <3>1. Suppliers \in Nat
      BY SeedingAssumption
    <3> QED
      BY <3>1, NumbersAre DEF SupplierGroup, Group, Each
  <2>2. \A i \in DOMAIN t : \A r \in t[i].rows : r.table = "suppliers"
    BY RowIs DEF Assign
  <2> HIDE DEF t
  <2> QED
    BY <2>1, <2>2 DEF NoParts, RowsOf
<1> QED
  BY <1>1, <1>2

LEMMA ScmGroups ==
  ASSUME NEW d
  PROVE  /\ ScmSeeder(d)[1] = LookupGroup /\ ScmSeeder(d)[2] = SupplierGroup /\ ScmSeeder(d)[3] = CatalogGroup
         /\ ScmSeeder(d)[4] = ModelGroup /\ ScmSeeder(d)[5] = StockGroup /\ ScmSeeder(d)[6] = ProcurementGroup
         /\ ScmSeeder(d)[7] = ProductGroup(d)
BY DEF ScmSeeder

LEMMA ScmLists ==
  ASSUME NEW d, IsFiniteSet(d), NEW n \in 1..7, n = 4 => \A x \in CatalogNames : HasName(d, x)
  PROVE  ListOK("scm", d, ScmSeeder(d)[n].list)
<1>1. n = 1 \/ n = 2 \/ n = 3 \/ n = 4 \/ n = 5 \/ n = 6 \/ n = 7
  OBVIOUS
<1>2. CASE n = 1
  BY <1>2, ScmGroups, LookupList
<1>3. CASE n = 2
  BY <1>3, ScmGroups, SupplierList
<1>4. CASE n = 3
  BY <1>4, ScmGroups, CatalogList
<1>5. CASE n = 4
  BY <1>5, ScmGroups, ModelList
<1>6. CASE n = 5
  BY <1>6, ScmGroups, StockList
<1>7. CASE n = 6
  BY <1>7, ScmGroups, ProcurementList
<1>8. CASE n = 7
  BY <1>8, ScmGroups, ProductList
<1> QED
  BY <1>1, <1>2, <1>3, <1>4, <1>5, <1>6, <1>7, <1>8

LEMMA ScmShapes ==
  ASSUME NEW d, IsFiniteSet(d), NEW n \in 1..7
  PROVE  Shape("scm", ScmSeeder(d)[n].list)
<1>1. CASE n # 4
  BY <1>1, ScmLists DEF ListOK
<1>2. CASE n = 4
  <2> DEFINE e == {Row("part_catalogs", x, None) : x \in CatalogIds}
  <2>1. \A x \in CatalogNames : HasName(e, x)
    <3> SUFFICES ASSUME NEW i \in CatalogIds PROVE HasName(e, <<"part_catalogs", i>>)
      BY DEF CatalogNames
    <3>1. Row("part_catalogs", i, None) \in e
      OBVIOUS
    <3> HIDE DEF e
    <3> QED
      BY <3>1, RowIs DEF HasName
  <2> HIDE DEF e
  <2>2. ListOK("scm", e, ModelGroup.list)
    BY <2>1, ModelList
  <2> QED
    BY <1>2, <2>2, ScmGroups DEF ListOK
<1> QED
  BY <1>1, <1>2

LEMMA BegunOK ==
  ASSUME NEW s, NEW d, NEW sc, NEW x, NEW l, ServiceOK(s, d, sc, x, l), x.at = "seed",
         NEW n \in 1..7, NEW t, Shape(s, t), (s = "scm" /\ l) \/ Refers(d, t),
         NEW y, y = Rec(x.tool, x.start, x.at, n, x.input, t),
         \A m \in Promised(s, y, l) : HasName(d, m) \/ HasName(RowsOf(t), m),
         s = "scm" /\ n < 3 => NoParts(d) /\ NoParts(RowsOf(t))
  PROVE  ServiceOK(s, d, sc, y, l)
<1>1. /\ y.tool = x.tool /\ y.start = x.start /\ y.at = x.at /\ y.group = n /\ y.input = x.input /\ y.todo = t
      /\ y = Rec(y.tool, y.start, y.at, y.group, y.input, y.todo)
  BY DEF Rec
<1>2. RunOK(s, x) /\ DatabaseOK(s, d) /\ sc \in {"none", "dirty", "ready"} /\ (d # {} => sc = "ready")
      /\ ((s = "scm" /\ l) \/ Resolved(d))
  BY DEF ServiceOK
<1>3. RunOK(s, y)
  <2>1. n \in Nat
    OBVIOUS
  <2> QED
    BY <1>1, <1>2, <2>1 DEF RunOK
<1>4. \A m \in Promised(s, y, l) : HasName(d \cup RowsOf(y.todo), m)
  BY <1>1, NamesOfTwo
<1>5. s = "scm" => Fresh(d, y)
  BY <1>1 DEF Fresh
<1>6. (s = "scm" /\ l) \/ (Resolved(d) /\ Refers(d, y.todo))
  BY <1>1, <1>2
<1> QED
  BY <1>2, <1>3, <1>4, <1>5, <1>6 DEF ServiceOK

LEMMA AllNamed ==
  ASSUME NEW s, NEW d, NEW sc, NEW x, NEW l, ServiceOK(s, d, sc, x, l), x.todo = <<>>
  PROVE  \A m \in Promised(s, x, l) : HasName(d, m)
<1>1. d \cup RowsOf(x.todo) = d
  BY EmptyList
<1> QED
  BY <1>1 DEF ServiceOK

LEMMA ScmBegins ==
  ASSUME NEW d, NEW sc, NEW x, NEW l \in BOOLEAN, ServiceOK("scm", d, sc, x, l), x.at = "seed", x.todo = <<>>,
         NEW n \in 1..7, n = x.group + 1, NEW y,
         \/ /\ y = Rec(x.tool, x.start, x.at, n, x.input, ScmSeeder(d)[n].list)
         \/ /\ y = Rec(x.tool, x.start, x.at, n, x.input, <<>>)
            /\ n = 3 => ~NoParts(d)
  PROVE  ServiceOK("scm", d, sc, y, l)
<1>1. IsFiniteSet(d) /\ x.group \in Nat /\ x.group = n - 1
  BY DEF ServiceOK, DatabaseOK, RunOK
<1>2. n <= 3 => NoParts(d)
  BY <1>1 DEF ServiceOK, Fresh
<1>3. n > 3 /\ ~l => \A m \in CatalogNames : HasName(d, m)
  <2> SUFFICES ASSUME n > 3, ~l PROVE \A m \in CatalogNames : HasName(d, m)
    OBVIOUS
  <2>1. x.group >= 3
    BY <1>1
  <2>2. Promised("scm", x, l) = CatalogNames
    BY <2>1 DEF Promised
  <2> QED
    BY <2>2, AllNamed
<1>4. CASE y = Rec(x.tool, x.start, x.at, n, x.input, ScmSeeder(d)[n].list)
  <2> DEFINE t == ScmSeeder(d)[n].list
  <2>1. Shape("scm", t)
    BY <1>1, ScmShapes
  <2>2. l \/ Refers(d, t)
    <3> SUFFICES ASSUME ~l PROVE Refers(d, t)
      OBVIOUS
    <3>1. n = 4 => \A m \in CatalogNames : HasName(d, m)
      BY <1>3
    <3> QED
      BY <1>1, <3>1, ScmLists DEF ListOK
  <2>3. n = 3 => \A m \in CatalogNames : HasName(RowsOf(t), m)
    BY ScmGroups, CatalogList
  <2>4. n < 3 => NoParts(RowsOf(t))
    <3>1. n < 3 => n = 1 \/ n = 2
      OBVIOUS
    <3> QED
      BY <3>1, FirstGroups, ScmGroups
  <2> HIDE DEF t
  <2>5. y.at = "seed" /\ y.group = n
    BY <1>4 DEF Rec, t
  <2>6. \A m \in Promised("scm", y, l) : m \in CatalogNames /\ n >= 3 /\ ~l
    BY <2>5 DEF Promised
  <2>7. \A m \in Promised("scm", y, l) : HasName(d, m) \/ HasName(RowsOf(t), m)
    BY <1>3, <2>3, <2>6
  <2>8. n < 3 => NoParts(d)
    BY <1>2
  <2>9. y = Rec(x.tool, x.start, x.at, n, x.input, t)
    BY <1>4 DEF t
  <2> QED
    BY <2>1, <2>2, <2>4, <2>7, <2>8, <2>9, BegunOK
<1>5. CASE y = Rec(x.tool, x.start, x.at, n, x.input, <<>>) /\ (n = 3 => ~NoParts(d))
  <2>1. n # 3
    BY <1>2, <1>5
  <2>2. y.at = "seed" /\ y.group = n
    BY <1>5 DEF Rec
  <2>3. \A m \in Promised("scm", y, l) : m \in CatalogNames /\ n >= 3 /\ ~l
    BY <2>2 DEF Promised
  <2>4. \A m \in Promised("scm", y, l) : HasName(d, m)
    BY <1>3, <2>1, <2>3
  <2>5. n < 3 => NoParts(d) /\ NoParts(RowsOf(<<>>))
    BY <1>2, EmptyList DEF NoParts
  <2> QED
    BY <1>5, <2>4, <2>5, EmptyList, BegunOK
<1> QED
  BY <1>4, <1>5

LEMMA MrpBegins ==
  ASSUME NEW d, NEW sc, NEW x, NEW l, ServiceOK("mrp", d, sc, x, l), x.at = "seed", x.todo = <<>>,
         NEW n \in 1..3, n = x.group + 1, NEW y,
         y = Rec(x.tool, x.start, x.at, n, x.input, MrpSeeder(x.input)[n].list)
  PROVE  ServiceOK("mrp", d, sc, y, l)
<1> DEFINE c == x.input
           t == MrpSeeder(c)[n].list
<1>1. ContractOK(c) /\ x.group \in Nat /\ x.group = n - 1
  BY DEF ServiceOK, RunOK
<1>2. n = 3 => \A m \in OrderNames(c) : HasName(d, m)
  <2> SUFFICES ASSUME n = 3 PROVE \A m \in OrderNames(c) : HasName(d, m)
    OBVIOUS
  <2>1. x.group >= 2
    BY <1>1
  <2>2. Promised("mrp", x, l) = OrderNames(c)
    BY <2>1 DEF Promised
  <2> QED
    BY <2>2, AllNamed
<1>3. n = 1 \/ n = 2 \/ n = 3
  OBVIOUS
<1>4. ListOK("mrp", d, t)
  BY <1>1, <1>2, <1>3, BillsList, ProductionList, ShortageList
<1>5. n = 2 => \A m \in OrderNames(c) : HasName(RowsOf(t), m)
  BY ProductionList
<1>6. y.at = "seed" /\ y.group = n /\ y.input = c
  BY DEF Rec
<1>7. \A m \in Promised("mrp", y, l) : m \in OrderNames(c) /\ n >= 2
  BY <1>6 DEF Promised
<1> HIDE DEF t, c
<1>8. \A m \in Promised("mrp", y, l) : HasName(d, m) \/ HasName(RowsOf(t), m)
  BY <1>2, <1>3, <1>5, <1>7
<1>9. n \in 1..7 /\ "mrp" # "scm"
  OBVIOUS
<1>10. y = Rec(x.tool, x.start, x.at, n, x.input, t)
  BY DEF t, c
<1> QED
  BY <1>4, <1>8, <1>9, <1>10, BegunOK DEF ListOK

LEMMA SalesBegins ==
  ASSUME NEW d, NEW sc, NEW x, NEW l, ServiceOK("sales", d, sc, x, l), x.at = "seed", x.todo = <<>>,
         x.start = run["sales"].start,
         NEW n \in 1..2, n = x.group + 1, NEW y,
         y = Rec(x.tool, x.start, x.at, n, x.input, SalesSeeder(x.input)[n].list)
  PROVE  ServiceOK("sales", d, sc, y, l)
<1> DEFINE c == x.input
           t == SalesSeeder(c)[n].list
<1>1. ContractOK(c) /\ x.group \in Nat /\ x.group = n - 1
  BY DEF ServiceOK, RunOK
<1>z. ClientNames(c) = ClientNamesAt(c, x.start)
  BY DEF ClientNames, ClientNamesAt, Clients, ClientsAt
<1>2. n = 2 => \A m \in ClientNames(c) : HasName(d, m)
  <2> SUFFICES ASSUME n = 2 PROVE \A m \in ClientNames(c) : HasName(d, m)
    OBVIOUS
  <2>1. x.group >= 1
    BY <1>1
  <2>2. Promised("sales", x, l) = ClientNames(c)
    BY <1>z, <2>1 DEF Promised
  <2> QED
    BY <2>2, AllNamed
<1>3. n = 1 \/ n = 2
  OBVIOUS
<1>4. ListOK("sales", d, t)
  BY <1>1, <1>2, <1>3, ClientList, OrderList
<1>5. n = 1 => \A m \in ClientNames(c) : HasName(RowsOf(t), m)
  BY <1>1, ClientList
<1>6. y.at = "seed" /\ y.group = n /\ y.input = c /\ y.start = x.start
  BY DEF Rec
<1>7. \A m \in Promised("sales", y, l) : m \in ClientNames(c)
  BY <1>6, <1>z DEF Promised
<1> HIDE DEF t, c
<1>8. \A m \in Promised("sales", y, l) : HasName(d, m) \/ HasName(RowsOf(t), m)
  BY <1>2, <1>3, <1>5, <1>7
<1>9. n \in 1..7 /\ "sales" # "scm"
  OBVIOUS
<1>10. y = Rec(x.tool, x.start, x.at, n, x.input, t)
  BY DEF t, c
<1> QED
  BY <1>4, <1>8, <1>9, <1>10, BegunOK DEF ListOK

LEMMA SystemBegins ==
  ASSUME NEW d, NEW sc, NEW x, NEW l, ServiceOK("system", d, sc, x, l), x.at = "seed",
         NEW n \in 1..3, NEW y,
         y = Rec(x.tool, x.start, x.at, n, x.input, SystemSeeder(d)[n].list)
  PROVE  ServiceOK("system", d, sc, y, l)
<1> DEFINE t == SystemSeeder(d)[n].list
<1>1. ListOK("system", d, t)
  BY SystemLists
<1> HIDE DEF t
<1>2. Promised("system", y, l) = {}
  BY DEF Promised
<1>3. n \in 1..7 /\ "system" # "scm"
  OBVIOUS
<1>4. y = Rec(x.tool, x.start, x.at, n, x.input, t)
  BY DEF t
<1> QED
  BY <1>1, <1>2, <1>3, <1>4, BegunOK DEF ListOK

-----------------------------------------------------------------------------
(***************************************************************************)
(* The steps of the tools.                                                 *)
(***************************************************************************)
Moved(x, a) == Rec(x.tool, x.start, a, x.group, x.input, x.todo)

LEMMA MoveIs ==
  ASSUME SeedInv, NEW s \in Services, NEW a, Move(s, a)
  PROVE  run' = [run EXCEPT ![s] = Moved(run[s], a)]
<1>1. run' = [run EXCEPT ![s] = [run[s] EXCEPT !.at = a]]
  BY DEF Move
<1>2. [run[s] EXCEPT !.at = a] = Moved(run[s], a)
  BY ToolIs, RunFields DEF Moved
<1> QED
  BY <1>1, <1>2

LEMMA RecTodo ==
  ASSUME NEW a, NEW b, NEW c, NEW e, NEW f, NEW g, NEW y, y = Rec(a, b, c, e, f, g), NEW v
  PROVE  [y EXCEPT !.todo = v] = Rec(a, b, c, e, f, v)
BY DEF Rec

LEMMA RecInput ==
  ASSUME NEW a, NEW b, NEW c, NEW e, NEW f, NEW g, NEW y, y = Rec(a, b, c, e, f, g), NEW v
  PROVE  [y EXCEPT !.input = v] = Rec(a, b, c, e, v, g)
BY DEF Rec

LEMMA TodoIs ==
  ASSUME SeedInv, NEW s \in Services, run' = [run EXCEPT ![s].todo = Tail(@)], NEW x, x = run[s]
  PROVE  run' = [run EXCEPT ![s] = Rec(x.tool, x.start, x.at, x.group, x.input, Tail(x.todo))]
<1>1. run' = [run EXCEPT ![s] = [run[s] EXCEPT !.todo = Tail(run[s].todo)]]
  OBVIOUS
<1>2. [x EXCEPT !.todo = Tail(x.todo)] = Rec(x.tool, x.start, x.at, x.group, x.input, Tail(x.todo))
  <2>1. PICK w : w = Tail(x.todo)
    OBVIOUS
  <2>2. x = Rec(x.tool, x.start, x.at, x.group, x.input, x.todo)
    BY ToolIs DEF RunOK
  <2>3. [x EXCEPT !.todo = w] = Rec(x.tool, x.start, x.at, x.group, x.input, w)
    BY <2>2, RecTodo
  <2> QED
    BY <2>1, <2>3
<1> QED
  BY <1>1, <1>2

\* The remaining ways in which BeginGroup and LoadManifest change a tool.
Numbered(s, n) == run' = [run EXCEPT ![s].group = n]
Takes(s, n, t) == run' = [run EXCEPT ![s].group = n, ![s].todo = t]
Loads(s, a, c) == run' = [run EXCEPT ![s].at = a, ![s].input = c]

LEMMA GroupIs ==
  ASSUME SeedInv, NEW s \in Services, NEW n, Numbered(s, n), NEW x, x = run[s]
  PROVE  run' = [run EXCEPT ![s] = Rec(x.tool, x.start, x.at, n, x.input, x.todo)]
<1>1. run' = [run EXCEPT ![s] = [run[s] EXCEPT !.group = n]]
  BY DEF Numbered
<1>2. [x EXCEPT !.group = n] = Rec(x.tool, x.start, x.at, n, x.input, x.todo)
  BY ToolIs, RunFields
<1> QED
  BY <1>1, <1>2

LEMMA GroupListIs ==
  ASSUME SeedInv, NEW s \in Services, NEW n, NEW t, Takes(s, n, t), NEW x, x = run[s]
  PROVE  run' = [run EXCEPT ![s] = Rec(x.tool, x.start, x.at, n, x.input, t)]
<1>1. Over(run, Services)
  BY ToolIs
<1>2. PICK g : g = [run EXCEPT ![s].group = n]
  OBVIOUS
<1>3. Over(g, Services) /\ g[s] = [x EXCEPT !.group = n] /\ \A u \in Services : u # s => g[u] = run[u]
  BY <1>1, <1>2 DEF Over
<1>4. run' = [g EXCEPT ![s] = [g[s] EXCEPT !.todo = t]]
  BY <1>2 DEF Takes
<1>5. [x EXCEPT !.group = n] = Rec(x.tool, x.start, x.at, n, x.input, x.todo)
  BY ToolIs, RunFields
<1>6. [g[s] EXCEPT !.todo = t] = Rec(x.tool, x.start, x.at, n, x.input, t)
  <2>1. PICK y : y = g[s]
    OBVIOUS
  <2>2. y = Rec(x.tool, x.start, x.at, n, x.input, x.todo)
    BY <1>3, <1>5, <2>1
  <2> QED
    BY <2>1, <2>2, RecTodo
<1> DEFINE v == Rec(x.tool, x.start, x.at, n, x.input, t)
<1> HIDE DEF v
<1>7. run' = [g EXCEPT ![s] = v]
  BY <1>4, <1>6 DEF v
<1>8. [g EXCEPT ![s] = v] = [run EXCEPT ![s] = v]
  BY <1>1, <1>3 DEF Over
<1> QED
  BY <1>7, <1>8 DEF v

LEMMA LoadIs ==
  ASSUME SeedInv, NEW s \in Services, NEW a, NEW c, Loads(s, a, c), NEW x, x = run[s]
  PROVE  run' = [run EXCEPT ![s] = Rec(x.tool, x.start, a, x.group, c, x.todo)]
<1>1. Over(run, Services)
  BY ToolIs
<1>2. PICK g : g = [run EXCEPT ![s].at = a]
  OBVIOUS
<1>3. Over(g, Services) /\ g[s] = [x EXCEPT !.at = a] /\ \A u \in Services : u # s => g[u] = run[u]
  BY <1>1, <1>2 DEF Over
<1>4. run' = [g EXCEPT ![s] = [g[s] EXCEPT !.input = c]]
  BY <1>2 DEF Loads
<1>5. [x EXCEPT !.at = a] = Rec(x.tool, x.start, a, x.group, x.input, x.todo)
  BY ToolIs, RunFields
<1>6. [g[s] EXCEPT !.input = c] = Rec(x.tool, x.start, a, x.group, c, x.todo)
  <2>1. PICK y : y = g[s]
    OBVIOUS
  <2>2. y = Rec(x.tool, x.start, a, x.group, x.input, x.todo)
    BY <1>3, <1>5, <2>1
  <2>3. [y EXCEPT !.input = c] = Rec(x.tool, x.start, a, x.group, c, x.todo)
    BY <2>2, RecInput
  <2> QED
    BY <2>1, <2>3
<1> DEFINE v == Rec(x.tool, x.start, a, x.group, c, x.todo)
<1> HIDE DEF v
<1>7. run' = [g EXCEPT ![s] = v]
  BY <1>4, <1>6 DEF v
<1>8. [g EXCEPT ![s] = v] = [run EXCEPT ![s] = v]
  BY <1>1, <1>3 DEF Over
<1> QED
  BY <1>7, <1>8 DEF v

LEMMA StartIs ==
  ASSUME NEW tool, NEW n, NEW a
  PROVE  [Idle EXCEPT !.tool = tool, !.start = n, !.at = a] = Rec(tool, n, a, 0, None, <<>>)
<1>1. PICK x : x = Idle
  OBVIOUS
<1>2. x = [tool |-> "none", start |-> 0, at |-> "idle", group |-> 0, input |-> None, todo |-> <<>>]
  BY <1>1 DEF Idle
<1>3. PICK y : y = [x EXCEPT !.tool = tool]
  OBVIOUS
<1>4. y = [tool |-> tool, start |-> 0, at |-> "idle", group |-> 0, input |-> None, todo |-> <<>>]
  BY <1>2, <1>3
<1>5. PICK z : z = [y EXCEPT !.start = n]
  OBVIOUS
<1>6. z = [tool |-> tool, start |-> n, at |-> "idle", group |-> 0, input |-> None, todo |-> <<>>]
  BY <1>4, <1>5
<1>7. [z EXCEPT !.at = a] = [tool |-> tool, start |-> n, at |-> a, group |-> 0, input |-> None, todo |-> <<>>]
  BY <1>6
<1>8. [x EXCEPT !.tool = tool, !.start = n, !.at = a] = [z EXCEPT !.at = a]
  BY <1>2, <1>3, <1>4, <1>5, <1>6
<1> QED
  BY <1>1, <1>7, <1>8 DEF Rec

LEMMA SameContracts ==
  ASSUME SeedInv, UNCHANGED <<manifest, contract>>
  PROVE  ContractsOK'
BY DEF SeedInv, ContractsOK, Over

(* A step of one tool that leaves the rows alone, and one that does not.    *)
LEMMA ToolStep ==
  ASSUME SeedInv, NEW s \in Services, NEW y, run' = [run EXCEPT ![s] = y], db' = db, NEW sc,
         (schema' = schema /\ sc = schema[s]) \/ schema' = [schema EXCEPT ![s] = sc],
         lost' \in BOOLEAN, s = "scm" \/ lost' = lost,
         ServiceOK(s, db[s], sc, y, lost'), ContractsOK', CountsOK'
  PROVE  SeedInv'
<1>1. Over(db, Services) /\ Over(schema, Services) /\ Over(run, Services)
  BY ToolIs
<1>2. Over(run', Services) /\ run'[s] = y /\ \A t \in Services : t # s => run'[t] = run[t]
  BY <1>1 DEF Over
<1>3. Over(schema', Services) /\ schema'[s] = sc /\ \A t \in Services : t # s => schema'[t] = schema[t]
  <2>1. CASE schema' = schema /\ sc = schema[s]
    BY <1>1, <2>1
  <2>2. CASE schema' = [schema EXCEPT ![s] = sc]
    BY <1>1, <2>2 DEF Over
  <2> QED
    BY <2>1, <2>2
<1>4. Over(db', Services) /\ db'[s] = db[s]
  BY <1>1
<1> QED
  BY <1>2, <1>3, <1>4, StepAt

LEMMA RowStep ==
  ASSUME SeedInv, NEW s \in Services, NEW d, db' = [db EXCEPT ![s] = d], NEW sc, NEW y,
         (schema' = schema /\ sc = schema[s]) \/ schema' = [schema EXCEPT ![s] = sc],
         (run' = run /\ y = run[s]) \/ run' = [run EXCEPT ![s] = y],
         lost' \in BOOLEAN, s = "scm" \/ lost' = lost,
         ServiceOK(s, d, sc, y, lost'), ContractsOK', CountsOK'
  PROVE  SeedInv'
<1>1. Over(db, Services) /\ Over(schema, Services) /\ Over(run, Services)
  BY ToolIs
<1>2. Over(run', Services) /\ run'[s] = y /\ \A t \in Services : t # s => run'[t] = run[t]
  <2>1. CASE run' = run /\ y = run[s]
    BY <1>1, <2>1
  <2>2. CASE run' = [run EXCEPT ![s] = y]
    BY <1>1, <2>2 DEF Over
  <2> QED
    BY <2>1, <2>2
<1>3. Over(schema', Services) /\ schema'[s] = sc /\ \A t \in Services : t # s => schema'[t] = schema[t]
  <2>1. CASE schema' = schema /\ sc = schema[s]
    BY <1>1, <2>1
  <2>2. CASE schema' = [schema EXCEPT ![s] = sc]
    BY <1>1, <2>2 DEF Over
  <2> QED
    BY <2>1, <2>2
<1>4. Over(db', Services) /\ db'[s] = d /\ \A t \in Services : t # s => db'[t] = db[t]
  BY <1>1 DEF Over
<1> QED
  BY <1>2, <1>3, <1>4, StepAt

LEMMA ToolAtRest ==
  ASSUME SeedInv, NEW s \in Services, run[s].at \notin {"seed", "manifest"}
  PROVE  /\ run[s].group = 0 /\ run[s].todo = <<>>
         /\ \A a : Moved(run[s], a) = Rec(run[s].tool, run[s].start, a, 0, run[s].input, <<>>)
<1>1. RunOK(s, run[s])
  BY ToolIs
<1>2. run[s].group = 0 /\ run[s].todo = <<>>
  BY <1>1 DEF RunOK
<1> QED
  BY <1>2 DEF Moved

LEMMA BeganEmpty ==
  ASSUME SeedInv, run["scm"].at \in {"clear manifest", "migrate", "apply"}, run["scm"].tool # "migrate"
  PROVE  NoParts(db["scm"])
<1>1. "scm" \in Services
  BY DEF Services
<1> QED
  BY <1>1, ToolIs DEF ServiceOK, Fresh

LEMMA MigrationOfMrp ==
  ASSUME SeedInv, run["mrp"].at \in {"clear", "migrate", "apply"}
  PROVE  run["mrp"].tool = "migrate"
<1>1. "mrp" \in Services
  BY DEF Services
<1> QED
  BY <1>1, ToolIs DEF RunOK

LEMMA StartOK ==
  ASSUME SeedInv, NEW s \in Services, NEW tool \in {"seed", "migrate"}, Start(s, tool)
  PROVE  SeedInv'
<1> DEFINE a == FirstStep(s, tool)
           y == Rec(tool, starts + 1, a, 0, None, <<>>)
<1>1. run' = [run EXCEPT ![s] = y]
  <2>1. run' = [run EXCEPT ![s] = [Idle EXCEPT !.tool = tool, !.start = starts + 1, !.at = a]]
    BY DEF Start
  <2> HIDE DEF a
  <2>2. [Idle EXCEPT !.tool = tool, !.start = starts + 1, !.at = a] = y
    BY StartIs
  <2> QED
    BY <2>1, <2>2
<1>2. /\ db' = db /\ schema' = schema /\ lost' = lost /\ lost \in BOOLEAN
      /\ starts' = starts + 1 /\ starts < MaxStarts /\ faults' = faults /\ changes' = changes
  BY DEF Start, SeedInv
<1>3. /\ a \in {"clear", "load", "migrate"}
      /\ s = "mrp" /\ a \in {"clear", "migrate", "apply"} => tool = "migrate"
      /\ s = "scm" /\ a \in {"clear manifest", "migrate", "apply"} => tool = "migrate"
  BY DEF FirstStep, Services
<1>4. /\ DatabaseOK(s, db[s]) /\ schema[s] \in {"none", "dirty", "ready"} /\ (db[s] # {} => schema[s] = "ready")
      /\ (s = "scm" /\ lost) \/ Resolved(db[s])
  BY ToolIs DEF ServiceOK
<1> HIDE DEF a
<1>5. ServiceOK(s, db[s], schema[s], y, lost')
  BY <1>2, <1>3, <1>4, AtRest
<1>6. ContractsOK'
  BY SameContracts DEF Start
<1>7. CountsOK'
  BY <1>2, SeedingAssumption DEF SeedInv, CountsOK
<1> HIDE DEF y
<1> QED
  BY <1>1, <1>2, <1>5, <1>6, <1>7, ToolStep

LEMMA ClearDatabaseOK ==
  ASSUME SeedInv, NEW s \in Services, ClearDatabase(s)
  PROVE  SeedInv'
<1> DEFINE x == run[s]
           a == IF s = "scm" THEN "clear manifest" ELSE "migrate"
           y == Rec(x.tool, x.start, a, 0, x.input, <<>>)
<1>1. /\ x.at = "clear" /\ Move(s, a) /\ db' = [db EXCEPT ![s] = {}] /\ schema' = [schema EXCEPT ![s] = "none"]
      /\ lost' = IF s = "scm" THEN FALSE ELSE lost
      /\ UNCHANGED <<manifest, contract, starts, faults, changes>>
  BY DEF ClearDatabase
<1>2. run' = [run EXCEPT ![s] = y]
  BY <1>1, MoveIs, ToolAtRest
<1>3. s = "mrp" => x.tool = "migrate"
  BY <1>1, MigrationOfMrp
<1>4. ServiceOK(s, {}, "none", y, lost')
  BY <1>3, EmptyDatabase, AtRest
<1>5. lost' \in BOOLEAN /\ (s = "scm" \/ lost' = lost)
  BY <1>1 DEF SeedInv
<1>6. ContractsOK' /\ CountsOK'
  BY <1>1, SameContracts DEF SeedInv, CountsOK
<1> HIDE DEF y
<1> QED
  BY <1>1, <1>2, <1>4, <1>5, <1>6, RowStep

LEMMA ClearManifestOK ==
  ASSUME SeedInv, ClearManifest
  PROVE  SeedInv'
<1> DEFINE x == run["scm"]
           y == Rec(x.tool, x.start, "migrate", 0, x.input, <<>>)
<1>s. "scm" \in Services
  BY DEF Services
<1>1. /\ x.at = "clear manifest" /\ Move("scm", "migrate") /\ manifest' = None
      /\ UNCHANGED <<db, schema, contract, lost, starts, faults, changes>>
  BY DEF ClearManifest
<1>2. run' = [run EXCEPT !["scm"] = y]
  BY <1>s, <1>1, MoveIs, ToolAtRest
<1>3. x.tool # "migrate" => NoParts(db["scm"])
  BY <1>1, BeganEmpty
<1>4. /\ DatabaseOK("scm", db["scm"]) /\ schema["scm"] \in {"none", "dirty", "ready"}
      /\ (db["scm"] # {} => schema["scm"] = "ready") /\ (lost \/ Resolved(db["scm"]))
  BY <1>s, ToolIs DEF ServiceOK
<1>5. ServiceOK("scm", db["scm"], schema["scm"], y, lost')
  <2>1. "scm" # "mrp" /\ "migrate" # "seed"
    OBVIOUS
  <2> QED
    BY <1>1, <1>3, <1>4, <2>1, AtRest
<1>6. ContractsOK' /\ CountsOK'
  BY <1>1 DEF SeedInv, ContractsOK, CountsOK, Over
<1>7. lost' \in BOOLEAN
  BY <1>1 DEF SeedInv
<1> HIDE DEF y
<1> QED
  BY <1>s, <1>1, <1>2, <1>5, <1>6, <1>7, ToolStep

LEMMA AfterSchemaOK ==
  ASSUME SeedInv, NEW s \in Services, run[s].at \in {"migrate", "apply"}, AfterSchema(s),
         NEW sc \in {"none", "dirty", "ready"}, db[s] # {} => sc = "ready"
  PROVE  \E y : run' = [run EXCEPT ![s] = y] /\ ServiceOK(s, db[s], sc, y, lost)
<1> DEFINE x == run[s]
<1>1. DatabaseOK(s, db[s]) /\ ((s = "scm" /\ lost) \/ Resolved(db[s]))
  BY ToolIs DEF ServiceOK
<1>2. CASE x.tool = "migrate"
  <2>1. run' = [run EXCEPT ![s] = Rec("none", 0, "idle", 0, None, <<>>)]
    BY <1>2, IdleIs DEF AfterSchema, Exit
  <2>2. ServiceOK(s, db[s], sc, Rec("none", 0, "idle", 0, None, <<>>), lost)
    BY <1>1, AtRest
  <2> QED
    BY <2>1, <2>2
<1>3. CASE x.tool # "migrate"
  <2> DEFINE a == IF s = "sales" THEN "load" ELSE "seed"
             y == Rec(x.tool, x.start, a, 0, x.input, <<>>)
  <2>1. Move(s, a)
    BY <1>3 DEF AfterSchema
  <2>2. run' = [run EXCEPT ![s] = y]
    BY <2>1, MoveIs, ToolAtRest
  <2>3. s # "mrp"
    BY <1>3, MigrationOfMrp
  <2>4. s = "scm" => NoParts(db[s])
    BY <1>3, BeganEmpty
  <2>5. a \in {"load", "seed"} /\ (a = "seed" => s \notin {"mrp", "sales"})
    BY <2>3
  <2> HIDE DEF a
  <2>6. ServiceOK(s, db[s], sc, y, lost)
    BY <1>1, <2>3, <2>4, <2>5, AtRest
  <2> HIDE DEF y
  <2> QED
    BY <2>2, <2>6
<1> QED
  BY <1>2, <1>3

LEMMA MigrateOK ==
  ASSUME SeedInv, NEW s \in Services, Migrate(s)
  PROVE  SeedInv'
<1> DEFINE x == run[s]
<1>1. /\ s \in {"scm", "mrp"} /\ x.at = "migrate" /\ db' = db /\ lost' = lost /\ lost \in BOOLEAN
      /\ UNCHANGED <<manifest, contract, starts, faults, changes>>
  BY DEF Migrate, SeedInv
<1>2. ContractsOK' /\ CountsOK'
  BY <1>1, SameContracts DEF SeedInv, CountsOK
<1>3. DatabaseOK(s, db[s]) /\ ((s = "scm" /\ lost) \/ Resolved(db[s]))
      /\ schema[s] \in {"none", "dirty", "ready"} /\ (db[s] # {} => schema[s] = "ready")
  BY ToolIs DEF ServiceOK
<1>4. CASE schema[s] = "none"
  <2> DEFINE y == Rec(x.tool, x.start, "apply", 0, x.input, <<>>)
  <2>1. schema' = [schema EXCEPT ![s] = "dirty"] /\ Move(s, "apply")
    BY <1>4 DEF Migrate
  <2>2. run' = [run EXCEPT ![s] = y]
    BY <1>1, <2>1, MoveIs, ToolAtRest
  <2>3. db[s] = {}
    BY <1>3, <1>4
  <2>4. s = "mrp" => x.tool = "migrate"
    BY <1>1, MigrationOfMrp
  <2>5. ServiceOK(s, db[s], "dirty", y, lost')
    BY <1>1, <2>3, <2>4, EmptyDatabase, AtRest
  <2> HIDE DEF y
  <2> QED
    BY <1>1, <1>2, <2>1, <2>2, <2>5, ToolStep
<1>5. CASE schema[s] # "none"
  <2>1. AfterSchema(s) /\ schema' = schema
    BY <1>5 DEF Migrate
  <2>2. PICK y : run' = [run EXCEPT ![s] = y] /\ ServiceOK(s, db[s], schema[s], y, lost)
    BY <1>1, <1>3, <2>1, AfterSchemaOK
  <2> QED
    BY <1>1, <1>2, <2>1, <2>2, ToolStep
<1> QED
  BY <1>4, <1>5

LEMMA ApplyOK ==
  ASSUME SeedInv, NEW s \in Services, ApplyUp(s) \/ Apply(s) \/ ApplyFails(s)
  PROVE  SeedInv'
<1>1. /\ run[s].at \in {"migrate", "apply"} /\ AfterSchema(s) /\ db' = db /\ lost' = lost /\ lost \in BOOLEAN
      /\ schema' = schema \/ schema' = [schema EXCEPT ![s] = "ready"]
      /\ UNCHANGED <<manifest, contract, starts, changes>>
      /\ faults' = faults \/ (faults < MaxFaults /\ faults' = faults + 1)
  BY DEF ApplyUp, Apply, ApplyFails, Fault, SeedInv
<1>2. ContractsOK' /\ CountsOK'
  BY <1>1, SameContracts, SeedingAssumption DEF SeedInv, CountsOK
<1>3. schema[s] \in {"none", "dirty", "ready"} /\ (db[s] # {} => schema[s] = "ready")
  BY ToolIs DEF ServiceOK
<1>4. PICK sc : sc \in {"none", "dirty", "ready"} /\ (db[s] # {} => sc = "ready")
               /\ ((schema' = schema /\ sc = schema[s]) \/ schema' = [schema EXCEPT ![s] = sc])
  BY <1>1, <1>3
<1>5. PICK y : run' = [run EXCEPT ![s] = y] /\ ServiceOK(s, db[s], sc, y, lost)
  BY <1>1, <1>4, AfterSchemaOK
<1> QED
  BY <1>1, <1>2, <1>4, <1>5, ToolStep

LEMMA ApplyDownOK ==
  ASSUME SeedInv, ApplyDown
  PROVE  SeedInv'
<1> DEFINE x == run["system"]
<1>s. "system" \in Services
  BY DEF Services
<1>1. /\ x.at = "idle" /\ db' = [db EXCEPT !["system"] = {}] /\ schema' = [schema EXCEPT !["system"] = "none"]
      /\ run' = run /\ lost' = lost /\ lost \in BOOLEAN /\ starts < MaxStarts /\ starts' = starts + 1
      /\ UNCHANGED <<manifest, contract, faults, changes>>
  BY DEF ApplyDown, SeedInv
<1>2. x = Rec(x.tool, x.start, x.at, 0, x.input, <<>>)
  <2>1. x.group = 0 /\ x.todo = <<>>
    BY <1>s, <1>1, ToolAtRest
  <2>2. x = Rec(x.tool, x.start, x.at, x.group, x.input, x.todo)
    BY <1>s, ToolIs DEF RunOK
  <2> QED
    BY <2>1, <2>2
<1>3. ServiceOK("system", {}, "none", Rec(x.tool, x.start, x.at, 0, x.input, <<>>), lost')
  <2>1. "system" # "mrp" /\ "system" # "scm" /\ "idle" # "seed"
    OBVIOUS
  <2> QED
    BY <1>1, <2>1, EmptyDatabase, AtRest
<1>4. ContractsOK' /\ CountsOK'
  BY <1>1, SameContracts, SeedingAssumption DEF SeedInv, CountsOK
<1> QED
  BY <1>s, <1>1, <1>2, <1>3, <1>4, RowStep

LEMMA LoadManifestOK ==
  ASSUME SeedInv, NEW s \in {"mrp", "sales"}, LoadManifest(s)
  PROVE  SeedInv'
<1> DEFINE x == run[s]
<1>s. s \in Services /\ s # "scm"
  BY DEF Services
<1>1. /\ x.at = "load" /\ db' = db /\ schema' = schema /\ lost' = lost /\ lost \in BOOLEAN
      /\ UNCHANGED <<manifest, contract, starts, faults, changes>>
  BY DEF LoadManifest, SeedInv
<1>2. ContractsOK' /\ CountsOK'
  BY <1>1, SameContracts DEF SeedInv, CountsOK
<1>3. DatabaseOK(s, db[s]) /\ Resolved(db[s])
      /\ schema[s] \in {"none", "dirty", "ready"} /\ (db[s] # {} => schema[s] = "ready")
  BY <1>s, ToolIs DEF ServiceOK
<1>4. CASE Exit(s)
  <2>1. ServiceOK(s, db[s], schema[s], Idle, lost')
    BY <1>s, <1>1, ToolIs, Ended
  <2>2. run' = [run EXCEPT ![s] = Idle]
    BY <1>4 DEF Exit
  <2> QED
    BY <1>s, <1>1, <1>2, <2>1, <2>2, ToolStep
<1>5. CASE contract[s] # None /\ run' = [run EXCEPT ![s].at = "seed", ![s].input = contract[s]]
  <2> DEFINE y == Rec(x.tool, x.start, "seed", 0, contract[s], <<>>)
  <2>1. run' = [run EXCEPT ![s] = y]
    <3>1. PICK z : z = run[s]
      OBVIOUS
    <3>2. PICK c : c = contract[s]
      OBVIOUS
    <3>3. Loads(s, "seed", c)
      BY <1>5, <3>2 DEF Loads
    <3>4. run' = [run EXCEPT ![s] = Rec(z.tool, z.start, "seed", z.group, c, z.todo)]
      BY <1>s, <3>1, <3>3, LoadIs
    <3>5. z.group = 0 /\ z.todo = <<>>
      BY <1>s, <1>1, <3>1, ToolAtRest
    <3> QED
      BY <3>1, <3>2, <3>4, <3>5
  <2>2. ContractOK(contract[s])
    BY <1>5 DEF SeedInv, ContractsOK
  <2>3. ServiceOK(s, db[s], schema[s], y, lost')
    BY <1>s, <1>1, <1>3, <2>2, AtRest
  <2> HIDE DEF y
  <2> QED
    BY <1>s, <1>1, <1>2, <2>1, <2>3, ToolStep
<1> QED
  BY <1>4, <1>5 DEF LoadManifest

LEMMA BeginGroupOK ==
  ASSUME SeedInv, NEW s \in Services, BeginGroup(s)
  PROVE  SeedInv'
<1>0. PICK x : x = run[s]
  OBVIOUS
<1> DEFINE n == x.group + 1
           gs == Groups(s)
<1>1. /\ x.at = "seed" /\ x.todo = <<>> /\ db' = db /\ schema' = schema /\ lost' = lost /\ lost \in BOOLEAN
      /\ UNCHANGED <<manifest, contract, starts, faults, changes>>
  BY <1>0 DEF BeginGroup, SeedInv
<1>2. ContractsOK' /\ CountsOK'
  BY <1>1, SameContracts DEF SeedInv, CountsOK
<1>3. ServiceOK(s, db[s], schema[s], x, lost) /\ x.group \in Nat
  BY <1>0, ToolIs DEF RunOK
<1>4. \/ Exit(s)
      \/ s = "scm" /\ Move(s, "manifest")
      \/ n <= Len(gs) /\ run' = [run EXCEPT ![s].group = n, ![s].todo = gs[n].list]
      \/ s = "scm" /\ n <= Len(gs) /\ Skips(s, gs[n]) /\ run' = [run EXCEPT ![s].group = n]
  <2>1. run[s].group + 1 = n
    BY <1>0
  <2>2. IF n > Len(gs) THEN IF s = "scm" THEN Move(s, "manifest") ELSE Exit(s)
        ELSE IF ~Skips(s, gs[n]) THEN run' = [run EXCEPT ![s].group = n, ![s].todo = gs[n].list]
             ELSE IF s = "scm" THEN run' = [run EXCEPT ![s].group = n] ELSE Exit(s)
    BY <2>1, Zenon DEF BeginGroup
  <2>3. CASE n > Len(gs)
    BY <2>2, <2>3, Zenon
  <2>4. CASE ~(n > Len(gs))
    <3>1. n <= Len(gs)
      <4>1. n \in Nat /\ Len(gs) \in Nat
        BY <1>3, HowManyGroups
      <4> HIDE DEF n, gs
      <4> QED
        BY <2>4, <4>1
    <3> QED
      BY <2>2, <2>4, <3>1, Zenon
  <2> QED
    BY <2>3, <2>4
<1>5. CASE Exit(s)
  <2>1. ServiceOK(s, db[s], schema[s], Idle, lost')
    BY <1>1, <1>3, Ended
  <2>2. run' = [run EXCEPT ![s] = Idle]
    BY <1>5 DEF Exit
  <2> QED
    BY <1>1, <1>2, <2>1, <2>2, ToolStep
<1>6. CASE s = "scm" /\ Move(s, "manifest")
  <2>1. PICK y : y = Moved(x, "manifest")
    OBVIOUS
  <2>2. run' = [run EXCEPT ![s] = y]
    BY <1>0, <1>6, <2>1, MoveIs
  <2>3. /\ y.tool = x.tool /\ y.start = x.start /\ y.at = "manifest" /\ y.group = x.group /\ y.input = x.input
        /\ y.todo = <<>> /\ y = Rec(y.tool, y.start, y.at, y.group, y.input, y.todo)
    BY <1>1, <2>1 DEF Moved, Rec
  <2>4. RunOK(s, y)
    BY <1>3, <2>3, EmptyList DEF RunOK
  <2>5. Promised(s, y, lost') = {}
    BY <1>6, <2>3 DEF Promised
  <2>6. Fresh(db[s], y)
    BY <2>3 DEF Fresh
  <2>7. ServiceOK(s, db[s], schema[s], y, lost')
    BY <1>1, <1>3, <2>3, <2>4, <2>5, <2>6, EmptyList DEF ServiceOK
  <2> QED
    BY <1>1, <1>2, <2>2, <2>7, ToolStep
<1>7. CASE n <= Len(gs) /\ run' = [run EXCEPT ![s].group = n, ![s].todo = gs[n].list]
  <2>1. PICK t : t = gs[n].list
    OBVIOUS
  <2>2. PICK k : k = n
    OBVIOUS
  <2>3. Takes(s, k, t)
    BY <1>7, <2>1, <2>2 DEF Takes
  <2> DEFINE y == Rec(x.tool, x.start, x.at, k, x.input, t)
  <2>4. run' = [run EXCEPT ![s] = y]
    BY <1>0, <2>3, GroupListIs
  <2>5. k \in Nat /\ k >= 1 /\ k <= Len(gs) /\ k = x.group + 1
    BY <1>3, <1>7, <2>2
  <2>6. Len(gs) \in Nat /\ Len(gs) <= 7 /\ (s # "scm" => Len(gs) <= 3) /\ (s = "sales" => Len(gs) <= 2)
    BY HowManyGroups
  <2>7. k \in 1..7 /\ (s # "scm" => k \in 1..3) /\ (s = "sales" => k \in 1..2)
    BY <2>5, <2>6
  <2>8. ServiceOK(s, db[s], schema[s], y, lost)
    <3>1. CASE s = "scm"
      <4>1. y = Rec(x.tool, x.start, x.at, k, x.input, ScmSeeder(db[s])[k].list)
        BY <2>1, <2>2, <3>1 DEF Groups
      <4> HIDE DEF y
      <4> QED
        BY <1>1, <1>3, <2>5, <2>7, <3>1, <4>1, ScmBegins
    <3>2. CASE s = "mrp"
      <4>1. y = Rec(x.tool, x.start, x.at, k, x.input, MrpSeeder(x.input)[k].list)
        BY <1>0, <2>1, <2>2, <3>2 DEF Groups
      <4>2. k \in 1..3
        BY <2>7, <3>2
      <4> HIDE DEF y
      <4> QED
        BY <1>1, <1>3, <2>5, <3>2, <4>1, <4>2, MrpBegins
    <3>3. CASE s = "sales"
      <4>1. y = Rec(x.tool, x.start, x.at, k, x.input, SalesSeeder(x.input)[k].list)
        BY <1>0, <2>1, <2>2, <3>3 DEF Groups
      <4>2. k \in 1..2
        BY <2>7, <3>3
      <4>3. x.start = run["sales"].start
        BY <1>0, <3>3
      <4> HIDE DEF y
      <4> QED
        BY <1>1, <1>3, <2>5, <3>3, <4>1, <4>2, <4>3, SalesBegins
    <3>4. CASE s = "system"
      <4>1. y = Rec(x.tool, x.start, x.at, k, x.input, SystemSeeder(db[s])[k].list)
        BY <2>1, <2>2, <3>4 DEF Groups
      <4>2. k \in 1..3
        BY <2>7, <3>4
      <4> HIDE DEF y
      <4> QED
        BY <1>1, <1>3, <3>4, <4>1, <4>2, SystemBegins
    <3> QED
      BY <3>1, <3>2, <3>3, <3>4 DEF Services
  <2> HIDE DEF y
  <2> QED
    BY <1>1, <1>2, <2>4, <2>8, ToolStep
<1>8. CASE s = "scm" /\ n <= Len(gs) /\ Skips(s, gs[n]) /\ run' = [run EXCEPT ![s].group = n]
  <2>1. PICK k : k = n
    OBVIOUS
  <2> DEFINE y == Rec(x.tool, x.start, x.at, k, x.input, x.todo)
  <2>2. run' = [run EXCEPT ![s] = y]
    <3>1. Numbered(s, k)
      BY <1>8, <2>1 DEF Numbered
    <3> QED
      BY <1>0, <3>1, GroupIs
  <2>3. k \in 1..7 /\ k = x.group + 1
    <3>1. Len(gs) \in Nat /\ Len(gs) <= 7
      BY HowManyGroups
    <3> QED
      BY <1>3, <1>8, <2>1, <3>1
  <2>4. k = 3 => ~NoParts(db[s])
    <3> SUFFICES ASSUME k = 3 PROVE ~NoParts(db[s])
      OBVIOUS
    <3>1. gs[3] = CatalogGroup
      <4>1. gs = ScmSeeder(db[s])
        BY <1>8 DEF Groups
      <4> QED
        BY <4>1, ScmGroups
    <3>2. Skips(s, CatalogGroup)
      BY <1>8, <2>1, <3>1
    <3>3. CatalogGroup.guard = {"part_catalogs"}
      BY DEF CatalogGroup, Group
    <3>4. Rows(db[s], {"part_catalogs"}) # {}
      BY <3>2, <3>3 DEF Skips
    <3> QED
      BY <3>4 DEF Rows, NoParts
  <2>5. y = Rec(x.tool, x.start, x.at, k, x.input, <<>>)
    BY <1>1
  <2> HIDE DEF y
  <2>6. ServiceOK(s, db[s], schema[s], y, lost)
    BY <1>1, <1>3, <1>8, <2>3, <2>4, <2>5, ScmBegins
  <2> QED
    BY <1>1, <1>2, <2>2, <2>6, ToolStep
<1> QED
  BY <1>4, <1>5, <1>6, <1>7, <1>8

LEMMA RefusedOK ==
  ASSUME SeedInv, NEW s \in Services, Refused(s), run[s].todo # <<>>,
         faults' = faults \/ (faults < MaxFaults /\ faults' = faults + 1)
  PROVE  SeedInv'
<1>0. PICK x : x = run[s]
  OBVIOUS
<1>1. /\ db' = db /\ schema' = schema /\ lost' = (lost \/ s = "scm") /\ lost \in BOOLEAN
      /\ UNCHANGED <<manifest, contract, starts, changes>>
  BY DEF Refused, SeedInv
<1>2. ContractsOK' /\ CountsOK'
  BY <1>1, SameContracts, SeedingAssumption DEF SeedInv, CountsOK
<1>3. ServiceOK(s, db[s], schema[s], x, lost)
  BY <1>0, ToolIs
<1>4. lost' \in BOOLEAN /\ (s = "scm" => lost') /\ (s # "scm" => lost' = lost)
  BY <1>1
<1>5. CASE Tolerates(s, Head(run[s].todo))
  <2>1. run' = [run EXCEPT ![s].todo = Tail(@)]
    BY <1>5 DEF Refused
  <2>2. PICK y : y = Rec(x.tool, x.start, x.at, x.group, x.input, Tail(x.todo))
    OBVIOUS
  <2>3. run' = [run EXCEPT ![s] = y]
    BY <1>0, <2>1, <2>2, TodoIs
  <2>4. ServiceOK(s, db[s], schema[s], y, lost')
    BY <1>0, <1>3, <1>4, <1>5, <2>2, Skipped
  <2> QED
    BY <1>1, <1>2, <1>4, <2>3, <2>4, ToolStep
<1>6. CASE ~Tolerates(s, Head(run[s].todo))
  <2>1. ServiceOK(s, db[s], schema[s], Idle, lost')
    BY <1>3, <1>4, Ended
  <2>2. run' = [run EXCEPT ![s] = Idle]
    BY <1>6 DEF Refused, Exit
  <2> QED
    BY <1>1, <1>2, <1>4, <2>1, <2>2, ToolStep
<1> QED
  BY <1>5, <1>6

LEMMA ExecuteOK ==
  ASSUME SeedInv, NEW s \in Services, Execute(s) \/ Fails(s)
  PROVE  SeedInv'
<1>0. PICK x : x = run[s]
  OBVIOUS
<1>1. CASE Refused(s) /\ run[s].todo # <<>> /\ (faults' = faults \/ (faults < MaxFaults /\ faults' = faults + 1))
  BY <1>1, RefusedOK
<1>2. CASE /\ x.todo # <<>> /\ schema[s] = "ready" /\ ~Conflicts(db[s], Head(x.todo))
           /\ db' = [db EXCEPT ![s] = Written(@, Head(x.todo))]
           /\ run' = [run EXCEPT ![s].todo = Tail(@)]
           /\ UNCHANGED <<schema, manifest, contract, lost, starts, faults, changes>>
  <2>1. PICK y : y = Rec(x.tool, x.start, x.at, x.group, x.input, Tail(x.todo))
    OBVIOUS
  <2>2. run' = [run EXCEPT ![s] = y]
    BY <1>0, <1>2, <2>1, TodoIs
  <2>3. PICK d : d = Written(db[s], Head(x.todo))
    OBVIOUS
  <2>4. db' = [db EXCEPT ![s] = d]
    BY <1>2, <2>3
  <2>5. ServiceOK(s, db[s], schema[s], x, lost)
    BY <1>0, ToolIs
  <2>6. ServiceOK(s, d, schema[s], y, lost)
    BY <1>2, <2>1, <2>3, <2>5, Executed
  <2>7. ContractsOK' /\ CountsOK' /\ lost' = lost /\ lost \in BOOLEAN /\ schema' = schema
    BY <1>2, SameContracts DEF SeedInv, CountsOK
  <2> QED
    BY <2>2, <2>4, <2>6, <2>7, RowStep
<1> QED
  BY <1>0, <1>1, <1>2 DEF Execute, Fails, Fault

LEMMA KillOK ==
  ASSUME SeedInv, NEW s \in Services, Kill(s)
  PROVE  SeedInv'
<1>1. /\ db' = db /\ schema' = schema /\ lost' = lost /\ lost \in BOOLEAN /\ run' = [run EXCEPT ![s] = Idle]
      /\ UNCHANGED <<manifest, contract, starts, changes>> /\ faults < MaxFaults /\ faults' = faults + 1
  BY DEF Kill, Fault, Exit, SeedInv
<1>2. ContractsOK' /\ CountsOK'
  BY <1>1, SameContracts, SeedingAssumption DEF SeedInv, CountsOK
<1>3. ServiceOK(s, db[s], schema[s], Idle, lost')
  BY <1>1, ToolIs, Ended
<1> QED
  BY <1>1, <1>2, <1>3, ToolStep

LEMMA CustomersAre == \E X : Customers \in Seq(X)
<1> DEFINE X == {Customer(Models[k], i) : k \in 1..Len(Models), i \in 1..2}
           two(m) == [i \in 1..Len(Numbers(2)) |-> Customer(m, Numbers(2)[i])]
           f == [k \in 1..Len(Models) |-> two(Models[k])]
<1>1. Customers = FlattenSeq(f)
  BY DEF Customers, Concat, Each
<1>2. Len(Numbers(2)) = 2 /\ \A i \in 1..2 : Numbers(2)[i] = i
  BY NumbersAre
<1>3. ASSUME NEW k \in 1..Len(Models) PROVE two(Models[k]) \in Seq(X)
  <2>1. two(Models[k]) = [i \in 1..2 |-> Customer(Models[k], i)]
    BY <1>2
  <2>2. \A i \in 1..2 : Customer(Models[k], i) \in X
    OBVIOUS
  <2> HIDE DEF X, two
  <2>3. PICK t : t = two(Models[k])
    OBVIOUS
  <2>4. t \in [1..2 -> X]
    BY <2>1, <2>2, <2>3
  <2>5. t \in Seq(X)
    <3>1. PICK n \in Nat : n = 2
      OBVIOUS
    <3>2. t \in [1..n -> X]
      BY <2>4, <3>1
    <3> QED
      BY <3>1, <3>2
  <2> QED
    BY <2>3, <2>5
<1> HIDE DEF X, two
<1>4. Len(Models) \in Nat /\ f \in [1..Len(Models) -> Seq(X)]
  BY <1>3, ModelsAre
<1> HIDE DEF f
<1>5. FlattenSeq(f) \in Seq(X)
  BY <1>4, FlatIn
<1> QED
  BY <1>1, <1>5

LEMMA ManifestIsOK ==
  ASSUME NEW d, DatabaseOK("scm", d)
  PROVE  ContractOK(BuildSeedManifest(d))
<1> DEFINE P == {r.key : r \in Rows(d, {"part_catalogs"})}
           L == {l \in Rows(d, {"parts_by_model"}) : InCatalog(l, d)}
           K == {r.key : r \in L}
           C == InOrder(Customers, {r.of : r \in Rows(d, {"products"})})
           c == BuildSeedManifest(d)
<1>1. c.parts = P /\ c.lines = K /\ c.customers = C
  BY DEF BuildSeedManifest
<1>2. P \subseteq CatalogIds
  BY DEF DatabaseOK, RowOK, Rows
<1>3. IsFiniteSet(K)
  <2>1. L \subseteq d /\ IsFiniteSet(d)
    BY DEF DatabaseOK, Rows
  <2> HIDE DEF L
  <2>2. IsFiniteSet(L)
    BY <2>1, FS_Subset
  <2> QED
    BY <2>2, ImageIsFinite
<1>4. ASSUME NEW l \in K PROVE l[2] \in P
  <2>1. PICK r \in L : l = r.key
    OBVIOUS
  <2>2. InCatalog(r, d)
    BY <2>1
  <2> QED
    BY <2>1, <2>2 DEF InCatalog
<1>5. IsSeq(C)
  <2>1. PICK X : Customers \in Seq(X)
    BY CustomersAre
  <2>2. C \in Seq(X)
    BY <2>1, InOrderIs
  <2> QED
    BY <2>2, InSeq
<1> HIDE DEF P, K, C, c
<1> QED
  BY <1>1, <1>2, <1>3, <1>4, <1>5 DEF ContractOK, c

LEMMA WriteSeedManifestOK ==
  ASSUME SeedInv, WriteSeedManifest
  PROVE  SeedInv'
<1>s. "scm" \in Services
  BY DEF Services
<1>1. /\ db' = db /\ schema' = schema /\ lost' = lost /\ lost \in BOOLEAN /\ run' = [run EXCEPT !["scm"] = Idle]
      /\ UNCHANGED <<contract, starts, faults, changes>>
      /\ manifest' = IF schema["scm"] = "ready" THEN BuildSeedManifest(db["scm"]) ELSE manifest
  BY DEF WriteSeedManifest, Exit, SeedInv
<1>2. ServiceOK("scm", db["scm"], schema["scm"], run["scm"], lost)
  BY <1>s, ToolIs
<1>3. ContractOK(BuildSeedManifest(db["scm"]))
  BY <1>2, ManifestIsOK DEF ServiceOK
<1>4. ContractsOK' /\ CountsOK'
  BY <1>1, <1>3 DEF SeedInv, ContractsOK, CountsOK, Over
<1>5. ServiceOK("scm", db["scm"], schema["scm"], Idle, lost')
  BY <1>1, <1>2, Ended
<1> QED
  BY <1>s, <1>1, <1>4, <1>5, ToolStep

LEMMA CopyManifestOK ==
  ASSUME SeedInv, NEW s \in {"mrp", "sales"}, CopyManifest(s)
  PROVE  SeedInv'
<1>1. /\ manifest # None /\ contract' = [contract EXCEPT ![s] = manifest]
      /\ UNCHANGED <<db, schema, manifest, run, lost, starts, faults, changes>>
  BY DEF CopyManifest
<1>2. Over(contract, {"mrp", "sales"}) /\ ContractOK(manifest)
      /\ \A t \in {"mrp", "sales"} : contract[t] # None => ContractOK(contract[t])
  BY <1>1 DEF SeedInv, ContractsOK
<1>3. Over(contract', {"mrp", "sales"})
      /\ \A t \in {"mrp", "sales"} : contract'[t] = manifest \/ contract'[t] = contract[t]
  BY <1>1, <1>2 DEF Over
<1>4. ContractsOK'
  BY <1>1, <1>2, <1>3 DEF ContractsOK
<1>5. CountsOK'
  BY <1>1 DEF SeedInv, CountsOK
<1>6. \A t \in Services : ServiceOK(t, db'[t], schema'[t], run'[t], lost')
  BY <1>1 DEF SeedInv
<1>7. Over(db', Services) /\ Over(schema', Services) /\ Over(run', Services) /\ lost' \in BOOLEAN
  BY <1>1 DEF SeedInv
<1> QED
  BY <1>4, <1>5, <1>6, <1>7 DEF SeedInv

(* A row under another value of its user: it keeps its name.                *)
LEMMA UserRow ==
  ASSUME NEW r, RowOK("system", r), r.table = "users", NEW to, NEW q, q = [r EXCEPT !.of = to]
  PROVE  RowOK("system", q) /\ q.table = r.table /\ q.key = r.key /\ Refs(q) = {}
<1>1. r = Row(r.table, r.key, r.of) /\ "users" \in Tables["system"]
  BY DEF RowOK
<1>2. PICK k, o : r = [table |-> "users", key |-> k, of |-> o]
  BY <1>1 DEF Row
<1>3. q = Row("users", k, to)
  BY <1>2 DEF Row
<1>4. "users" \notin {"part_catalogs", "production_orders", "bom_entries"}
  OBVIOUS
<1>5. RowOK("system", q)
  BY <1>1, <1>3, <1>4, PlainRow
<1>6. q.table = "users" /\ q.key = k
  BY <1>3 DEF Row
<1>7. r.key = k
  BY <1>2
<1>8. Refs(q) = {}
  BY <1>6, NoRefs
<1> QED
  BY <1>5, <1>6, <1>7, <1>8

LEMMA ChangeUserOK ==
  ASSUME SeedInv, NEW r \in db["system"], NEW to, ChangeUser(r, to)
  PROVE  SeedInv'
<1>0. PICK x : x = run["system"]
  OBVIOUS
<1>s. "system" \in Services /\ "system" # "scm" /\ "system" # "mrp" /\ "system" # "sales"
  BY DEF Services
<1>d. PICK d : d = db["system"]
  OBVIOUS
<1>1. PICK q : q = [r EXCEPT !.of = to]
  OBVIOUS
<1>2. PICK e : e = (d \ {r}) \cup {q}
  OBVIOUS
<1>3. /\ r.table = "users" /\ db' = [db EXCEPT !["system"] = e] /\ run' = run /\ schema' = schema
      /\ lost' = lost /\ lost \in BOOLEAN /\ UNCHANGED <<manifest, contract, starts, faults>>
      /\ changes < MaxChanges /\ changes' = changes + 1
  BY <1>d, <1>1, <1>2 DEF ChangeUser, SeedInv
<1>4. ServiceOK("system", d, schema["system"], x, lost)
  BY <1>0, <1>d, <1>s, ToolIs
<1>5. /\ DatabaseOK("system", d) /\ schema["system"] \in {"none", "dirty", "ready"}
      /\ (d # {} => schema["system"] = "ready") /\ RunOK("system", x) /\ Resolved(d) /\ Refers(d, x.todo)
  BY <1>4, <1>s DEF ServiceOK
<1>6. RowOK("system", q) /\ q.table = r.table /\ q.key = r.key /\ Refs(q) = {}
  BY <1>d, <1>1, <1>3, <1>5, UserRow DEF DatabaseOK
<1>7. \A z : HasName(d, z) => HasName(e, z)
  BY <1>2, <1>6 DEF HasName
<1>8. DatabaseOK("system", e)
  <2>1. IsFiniteSet(e)
    <3>1. IsFiniteSet(d \ {r}) /\ IsFiniteSet({q})
      BY <1>5, FS_Subset, FS_Singleton DEF DatabaseOK
    <3> QED
      BY <1>2, <3>1, FS_Union
  <2>2. \A z \in e : RowOK("system", z)
    BY <1>2, <1>5, <1>6 DEF DatabaseOK
  <2>3. \A y \in d : (y.table = r.table /\ y.key = r.key) => y = r
    BY <1>d, <1>5 DEF DatabaseOK, Same
  <2>4. \A y, z \in d : (y.table = z.table /\ y.key = z.key) => y = z
    BY <1>5 DEF DatabaseOK, Same
  <2>5. ASSUME NEW y \in e, NEW z \in e, y.table = z.table, y.key = z.key PROVE y = z
    <3>1. CASE y = q /\ z = q
      BY <3>1
    <3>2. CASE y = q /\ z \in d \ {r}
      BY <1>6, <2>3, <2>5, <3>2
    <3>3. CASE z = q /\ y \in d \ {r}
      BY <1>6, <2>3, <2>5, <3>3
    <3>4. CASE y \in d \ {r} /\ z \in d \ {r}
      BY <2>4, <2>5, <3>4
    <3> QED
      BY <1>2, <3>1, <3>2, <3>3, <3>4
  <2> QED
    BY <2>1, <2>2, <2>5 DEF DatabaseOK, Same
<1>9. Resolved(e)
  <2>1. ASSUME NEW y \in e, NEW z \in Refs(y) PROVE HasName(e, z)
    <3>1. y \in d
      BY <1>2, <1>6
    <3> QED
      BY <1>5, <1>7, <3>1 DEF Resolved
  <2> QED
    BY <2>1 DEF Resolved
<1>10. Refers(e, x.todo)
  BY <1>5, <1>7, RefersMore
<1>11. Promised("system", x, lost) = {}
  BY <1>s DEF Promised
<1>12. e # {} => schema["system"] = "ready"
  BY <1>d, <1>5
<1>13. ServiceOK("system", e, schema["system"], x, lost)
  BY <1>s, <1>5, <1>8, <1>9, <1>10, <1>11, <1>12 DEF ServiceOK
<1>14. ContractsOK' /\ CountsOK'
  BY <1>3, SameContracts, SeedingAssumption DEF SeedInv, CountsOK
<1> QED
  BY <1>0, <1>s, <1>3, <1>13, <1>14, RowStep

LEMMA SeedAtFirst ==
  ASSUME Init
  PROVE  SeedInv
<1>1. Over(db, Services) /\ Over(schema, Services) /\ Over(run, Services) /\ lost \in BOOLEAN
  BY DEF Init, Over
<1>2. ASSUME NEW s \in Services PROVE ServiceOK(s, db[s], schema[s], run[s], lost)
  <2>1. db[s] = {} /\ schema[s] = "none" /\ run[s] = Rec("none", 0, "idle", 0, None, <<>>)
    BY IdleIs DEF Init
  <2>2. "idle" # "seed" /\ "idle" \notin {"clear", "clear manifest", "migrate", "apply"}
    OBVIOUS
  <2>3. DatabaseOK(s, {}) /\ Resolved({}) /\ NoParts({})
    BY EmptyDatabase
  <2>4. ServiceOK(s, {}, "none", Rec("none", 0, "idle", 0, None, <<>>), lost)
    BY <2>2, <2>3, AtRest
  <2> QED
    BY <2>1, <2>4
<1>3. ContractsOK /\ CountsOK
  BY SeedingAssumption DEF Init, ContractsOK, CountsOK, Over
<1> QED
  BY <1>1, <1>2, <1>3 DEF SeedInv

LEMMA SeedSame ==
  ASSUME SeedInv, UNCHANGED vars
  PROVE  SeedInv'
<1>1. UNCHANGED <<db, schema, manifest, contract, run, lost, starts, faults, changes>>
  BY DEF vars
<1>2. ContractsOK' /\ CountsOK'
  BY <1>1, SameContracts DEF SeedInv, CountsOK
<1>3. \A t \in Services : ServiceOK(t, db'[t], schema'[t], run'[t], lost')
  BY <1>1 DEF SeedInv
<1>4. Over(db', Services) /\ Over(schema', Services) /\ Over(run', Services) /\ lost' \in BOOLEAN
  BY <1>1 DEF SeedInv
<1> QED
  BY <1>2, <1>3, <1>4 DEF SeedInv

LEMMA SeedStep ==
  ASSUME SeedInv, [Next]_vars
  PROVE  SeedInv'
<1>1. ASSUME NEW s \in Services, NEW tool \in {"seed", "migrate"}, Start(s, tool) PROVE SeedInv'
  BY <1>1, StartOK
<1>2. ASSUME NEW s \in Services, ClearDatabase(s) PROVE SeedInv'
  BY <1>2, ClearDatabaseOK
<1>3. ASSUME NEW s \in Services, Migrate(s) PROVE SeedInv'
  BY <1>3, MigrateOK
<1>4. ASSUME NEW s \in Services, ApplyUp(s) \/ Apply(s) \/ ApplyFails(s) PROVE SeedInv'
  BY <1>4, ApplyOK
<1>5. ASSUME NEW s \in Services, Seed(s) PROVE SeedInv'
  BY <1>5, BeginGroupOK, ExecuteOK, KillOK DEF Seed
<1>6. CASE ClearManifest \/ WriteSeedManifest \/ ApplyDown
  BY <1>6, ClearManifestOK, WriteSeedManifestOK, ApplyDownOK
<1>7. ASSUME NEW s \in {"mrp", "sales"}, LoadManifest(s) \/ CopyManifest(s) PROVE SeedInv'
  BY <1>7, LoadManifestOK, CopyManifestOK
<1>8. ASSUME NEW r \in db["system"], NEW to \in {"changed", "deleted"}, ChangeUser(r, to) PROVE SeedInv'
  BY <1>8, ChangeUserOK
<1>9. CASE UNCHANGED vars
  BY <1>9, SeedSame
<1> QED
  BY <1>1, <1>2, <1>3, <1>4, <1>5, <1>6, <1>7, <1>8, <1>9 DEF Next

(* A name is used once.                                                     *)
LEMMA NamesOnce ==
  ASSUME NEW s, NEW d, DatabaseOK(s, d)
  PROVE  Cardinality({<<r.table, r.key>> : r \in d}) = Cardinality(d)
<1> DEFINE N == {<<r.table, r.key>> : r \in d}
           f == [r \in d |-> <<r.table, r.key>>]
<1>1. IsFiniteSet(d) /\ \A r, q \in d : (r.table = q.table /\ r.key = q.key) => r = q
  BY DEF DatabaseOK, Same
<1>2. f \in [d -> N] /\ \A r \in d : f[r] = <<r.table, r.key>>
  OBVIOUS
<1>3. \A n \in N : \E r \in d : n = <<r.table, r.key>>
  OBVIOUS
<1>4. \A r, q \in d : <<r.table, r.key>> = <<q.table, q.key>> => r = q
  BY <1>1
<1> HIDE DEF N, f
<1>5. \A r, q \in d : f[r] = f[q] => r = q
  BY <1>2, <1>4
<1>6. f \in Injection(d, N)
  BY <1>2, <1>5 DEF Injection, IsInjective
<1>7. f \in Surjection(d, N)
  BY <1>2, <1>3 DEF Surjection
<1>8. ExistsBijection(d, N)
  BY <1>6, <1>7 DEF ExistsBijection, Bijection
<1>9. Cardinality(d) = Cardinality(N)
  BY <1>1, <1>8, FS_Bijection
<1> QED
  BY <1>9 DEF N

LEMMA SeedTypes ==
  ASSUME SeedInv
  PROVE  TypeOK
<1>1. ASSUME NEW s \in Services
      PROVE  /\ schema[s] \in {"none", "dirty", "ready"}
             /\ db[s] # {} => schema[s] = "ready"
             /\ \A r \in db[s] : r.table \in Tables[s]
             /\ Cardinality({<<r.table, r.key>> : r \in db[s]}) = Cardinality(db[s])
             /\ run[s].todo # <<>> => run[s].at = "seed" /\ run[s].group \in 1..7
  <2>1. ServiceOK(s, db[s], schema[s], run[s], lost)
    BY ToolIs
  <2>2. DatabaseOK(s, db[s]) /\ schema[s] \in {"none", "dirty", "ready"} /\ (db[s] # {} => schema[s] = "ready")
        /\ RunOK(s, run[s])
    BY <2>1 DEF ServiceOK
  <2>3. Cardinality({<<r.table, r.key>> : r \in db[s]}) = Cardinality(db[s])
    BY <2>2, NamesOnce
  <2>4. \A r \in db[s] : r.table \in Tables[s]
    BY <2>2 DEF DatabaseOK, RowOK
  <2>5. run[s].todo # <<>> => run[s].at = "seed" /\ run[s].group \in 1..7
    BY <2>2 DEF RunOK
  <2> QED
    BY <2>2, <2>3, <2>4, <2>5
<1>2. CountsOK
  BY DEF SeedInv
<1> QED
  BY <1>1, <1>2 DEF TypeOK, CountsOK

LEMMA NamedIsKey ==
  \A s, t, k : HasName(db[s], <<t, k>>) <=> k \in Keys(s, t)
BY DEF HasName, Keys, Rows

LEMMA Resolving ==
  ASSUME Resolved(db["scm"])
  PROVE  ScmResolves
<1>1. ASSUME NEW r \in db["scm"], NEW x \in Refs(r) PROVE HasName(db["scm"], x)
  BY DEF Resolved
<1>2. ASSUME NEW r \in db["scm"], r.table = "parts_by_model"
      PROVE  r.key[1] \in Keys("scm", "product_models") /\ r.key[2] \in Keys("scm", "part_catalogs")
  <2>1. Refs(r) = {<<"product_models", r.key[1]>>, <<"part_catalogs", r.key[2]>>}
    BY <1>2 DEF Refs
  <2> QED
    BY <1>1, <2>1, NamedIsKey
<1>3. ASSUME NEW r \in db["scm"], r.table = "parts" PROVE r.key[3] \in Keys("scm", "parts_by_model")
  <2>1. Refs(r) = {<<"parts_by_model", r.key[3]>>}
    BY <1>3 DEF Refs
  <2> QED
    BY <1>1, <2>1, NamedIsKey
<1>4. ASSUME NEW r \in db["scm"], r.table = "goods_receipts" PROVE r.key \in Keys("scm", "shipments")
  <2>1. Refs(r) = {<<"shipments", r.key>>}
    BY <1>4 DEF Refs
  <2> QED
    BY <1>1, <2>1, NamedIsKey
<1>5. ASSUME NEW r \in db["scm"], r.table = "inventory_ledger" PROVE r.key \in Keys("scm", "component_stocks")
  <2>1. Refs(r) = {<<"component_stocks", r.key>>}
    BY <1>5 DEF Refs
  <2> QED
    BY <1>1, <2>1, NamedIsKey
<1>6. \A t, k : k \in Keys("scm", t) <=> \E r \in db["scm"] : r.table = t /\ k = r.key
  BY DEF Keys, Rows
<1>7. {line[1] : line \in Keys("scm", "parts_by_model")} \subseteq Keys("scm", "product_models")
  BY <1>2, <1>6
<1>8. {line[2] : line \in Keys("scm", "parts_by_model")} \subseteq Keys("scm", "part_catalogs")
  BY <1>2, <1>6
<1>9. {p[3] : p \in Keys("scm", "parts")} \subseteq Keys("scm", "parts_by_model")
  BY <1>3, <1>6
<1>10. Keys("scm", "goods_receipts") \subseteq Keys("scm", "shipments")
  BY <1>4, <1>6
<1>11. Keys("scm", "inventory_ledger") \subseteq Keys("scm", "component_stocks")
  BY <1>5, <1>6
<1> QED
  BY <1>7, <1>8, <1>9, <1>10, <1>11 DEF ScmResolves

(* A whole catalogue has every identifier a seeding can have given out.     *)
LEMMA WholeHasAll ==
  ASSUME SeedInv, WholeCatalog
  PROVE  CatalogIds \subseteq Keys("scm", "part_catalogs")
<1>1. "scm" \in Services
  BY DEF Services
<1>2. DatabaseOK("scm", db["scm"])
  BY <1>1, ToolIs DEF ServiceOK
<1>3. Keys("scm", "part_catalogs") \subseteq CatalogIds
  BY <1>2 DEF DatabaseOK, RowOK, Keys, Rows
<1>4. ASSUME NEW p \in Range(Parts) PROVE StableId(p) \in Keys("scm", "part_catalogs")
  <2>1. PICK i \in Keys("scm", "part_catalogs") : i.of = p
    BY DEF WholeCatalog
  <2>2. PICK q \in Range(Parts) : i = StableId(q)
    BY <1>3 DEF CatalogIds
  <2>3. i.of = q
    BY <2>2 DEF StableId
  <2> QED
    BY <2>1, <2>2, <2>3
<1> QED
  BY <1>4 DEF CatalogIds

LEMMA RowsOfMrp ==
  ASSUME SeedInv
  PROVE  /\ {l[2] : l \in Keys("mrp", "bom_entries")} \subseteq CatalogIds
         /\ {o.of : o \in Rows(db["mrp"], {"production_orders"})} \subseteq Range(Models)
         /\ {l[1] : l \in Keys("mrp", "shortage_logs")} \subseteq Keys("mrp", "production_orders")
<1>1. "mrp" \in Services /\ "mrp" # "scm"
  BY DEF Services
<1>2. DatabaseOK("mrp", db["mrp"]) /\ Resolved(db["mrp"])
  BY <1>1, ToolIs DEF ServiceOK
<1>3. {l[2] : l \in Keys("mrp", "bom_entries")} \subseteq CatalogIds
  BY <1>2 DEF DatabaseOK, RowOK, Keys, Rows
<1>4. {o.of : o \in Rows(db["mrp"], {"production_orders"})} \subseteq Range(Models)
  BY <1>2 DEF DatabaseOK, RowOK, Rows
<1>5. ASSUME NEW r \in db["mrp"], r.table = "shortage_logs" PROVE r.key[1] \in Keys("mrp", "production_orders")
  <2>1. Refs(r) = {<<"production_orders", r.key[1]>>}
    BY <1>5 DEF Refs
  <2> QED
    BY <1>2, <2>1, NamedIsKey DEF Resolved
<1>6. {l[1] : l \in Keys("mrp", "shortage_logs")} \subseteq Keys("mrp", "production_orders")
  BY <1>5 DEF Keys, Rows
<1> QED
  BY <1>3, <1>4, <1>6

LEMMA RowsOfTheOthers ==
  ASSUME SeedInv
  PROVE  /\ {o.of : o \in Rows(db["sales"], {"sales_orders"})} \subseteq Keys("sales", "clients")
         /\ {o.of : o \in Rows(db["system"], {"audit_logs"})} \subseteq Keys("system", "users")
<1>1. "sales" \in Services /\ "sales" # "scm" /\ "system" \in Services /\ "system" # "scm"
  BY DEF Services
<1>2. Resolved(db["sales"]) /\ Resolved(db["system"])
  BY <1>1, ToolIs DEF ServiceOK
<1>3. ASSUME NEW r \in db["sales"], r.table = "sales_orders" PROVE r.of \in Keys("sales", "clients")
  <2>1. Refs(r) = {<<"clients", r.of>>}
    BY <1>3 DEF Refs
  <2> QED
    BY <1>2, <2>1, NamedIsKey DEF Resolved
<1>4. ASSUME NEW r \in db["system"], r.table = "audit_logs" PROVE r.of \in Keys("system", "users")
  <2>1. Refs(r) = {<<"users", r.of>>}
    BY <1>4 DEF Refs
  <2> QED
    BY <1>2, <2>1, NamedIsKey DEF Resolved
<1> QED
  BY <1>3, <1>4 DEF Rows

LEMMA SeedResolves ==
  ASSUME SeedInv
  PROVE  ReferencesResolve
<1>1. ~lost => ScmResolves
  <2>1. "scm" \in Services
    BY DEF Services
  <2>2. lost \/ Resolved(db["scm"])
    BY <2>1, ToolIs DEF ServiceOK
  <2> QED
    BY <2>2, Resolving
<1>2. ContractsOK
  BY DEF SeedInv
<1>3. manifest # None => \A line \in manifest.lines : line[2] \in manifest.parts
  BY <1>2 DEF ContractsOK, ContractOK
<1>4. WholeCatalog => {l[2] : l \in Keys("mrp", "bom_entries")} \subseteq Keys("scm", "part_catalogs")
  BY RowsOfMrp, WholeHasAll
<1>5. WholeCatalog => \A s \in {"mrp", "sales"} : contract[s] # None =>
          contract[s].parts \subseteq Keys("scm", "part_catalogs")
  BY <1>2, WholeHasAll DEF ContractsOK, ContractOK
<1>6. WholeModels =>
          {o.of : o \in Rows(db["mrp"], {"production_orders"})} \subseteq Keys("scm", "product_models")
  BY RowsOfMrp DEF WholeModels
<1> QED
  BY <1>1, <1>3, <1>4, <1>5, <1>6, RowsOfMrp, RowsOfTheOthers DEF ReferencesResolve

(* The statements of the seeder of System add rows and overwrite none.      *)
LEMMA SystemAdds ==
  ASSUME SeedInv, Execute("system")
  PROVE  db["system"] \subseteq db'["system"]
<1>s. "system" \in Services
  BY DEF Services
<1>0. PICK x : x = run["system"]
  OBVIOUS
<1>1. Over(db, Services) /\ Shape("system", x.todo)
  BY <1>s, <1>0, ToolIs DEF RunOK
<1>2. x.todo # <<>>
  BY <1>0 DEF Execute
<1>3. PICK t : t = Head(x.todo)
  OBVIOUS
<1>4. StmtOK("system", t)
  BY <1>1, <1>2, <1>3, RestIs
<1>5. PICK d : d = db["system"]
  OBVIOUS
<1>6. PICK w : w = Written(d, t)
  OBVIOUS
<1>7. w = d \/ w = d \cup t.rows
  <2>1. t.op = "ensure" \/ t.op = "create"
    BY <1>4 DEF StmtOK
  <2> QED
    BY <1>6, <2>1 DEF Written
<1>8. db' = db \/ db' = [db EXCEPT !["system"] = w]
  BY <1>0, <1>3, <1>5, <1>6 DEF Execute, Refused
<1>9. db'["system"] = d \/ db'["system"] = w
  BY <1>s, <1>1, <1>5, <1>8 DEF Over
<1> QED
  BY <1>5, <1>7, <1>9

LEMMA UsersKept ==
  ASSUME SeedInv, [Next]_vars, NEW r \in Rows(db["system"], {"users"}), r.of # "seeded", schema'["system"] = "ready"
  PROVE  \E q \in db'["system"] : Same(r, q) /\ q.of # "seeded"
<1>s. "system" \in Services /\ Over(db, Services) /\ Over(schema, Services)
  BY ToolIs DEF Services
<1>1. r \in db["system"] /\ r.table = "users"
  BY DEF Rows
<1>k. ASSUME db["system"] \subseteq db'["system"] PROVE \E q \in db'["system"] : Same(r, q) /\ q.of # "seeded"
  BY <1>1, <1>k DEF Same
<1>2. ASSUME NEW s \in Services, NEW tool \in {"seed", "migrate"}, Start(s, tool) PROVE db' = db
  BY <1>2 DEF Start
<1>3. ASSUME NEW s \in Services, ClearDatabase(s) PROVE db'["system"] = db["system"]
  <2>1. db' = [db EXCEPT ![s] = {}] /\ schema' = [schema EXCEPT ![s] = "none"]
    BY <1>3 DEF ClearDatabase
  <2>2. s # "system"
    BY <1>s, <2>1 DEF Over
  <2> QED
    BY <1>s, <2>1, <2>2 DEF Over
<1>4. ASSUME NEW s \in Services, Migrate(s) \/ ApplyUp(s) \/ Apply(s) \/ ApplyFails(s) PROVE db' = db
  BY <1>4 DEF Migrate, ApplyUp, Apply, ApplyFails
<1>5. ASSUME NEW s \in Services, BeginGroup(s) \/ Fails(s) \/ Kill(s) PROVE db' = db
  BY <1>5 DEF BeginGroup, Fails, Refused, Kill
<1>6. ASSUME NEW s \in Services, Execute(s) PROVE db["system"] \subseteq db'["system"]
  <2>1. CASE s = "system"
    BY <1>6, <2>1, SystemAdds
  <2>2. CASE s # "system"
    <3>1. db' = db \/ \E w : db' = [db EXCEPT ![s] = w]
      BY <1>6 DEF Execute, Refused
    <3> QED
      BY <1>s, <2>2, <3>1 DEF Over
  <2> QED
    BY <2>1, <2>2
<1>7. CASE ClearManifest \/ WriteSeedManifest \/ UNCHANGED vars
  BY <1>k, <1>7 DEF ClearManifest, WriteSeedManifest, vars
<1>8. ~ApplyDown
  <2>1. ApplyDown => schema' = [schema EXCEPT !["system"] = "none"]
    BY DEF ApplyDown
  <2> QED
    BY <1>s, <2>1 DEF Over
<1>9. ASSUME NEW s \in {"mrp", "sales"}, LoadManifest(s) \/ CopyManifest(s) PROVE db' = db
  BY <1>9 DEF LoadManifest, CopyManifest
<1>10. ASSUME NEW p \in db["system"], NEW to \in {"changed", "deleted"}, ChangeUser(p, to)
       PROVE  \E q \in db'["system"] : Same(r, q) /\ q.of # "seeded"
  <2>1. PICK q : q = [p EXCEPT !.of = to]
    OBVIOUS
  <2>2. PICK e : e = (db["system"] \ {p}) \cup {q}
    OBVIOUS
  <2>3. db' = [db EXCEPT !["system"] = e] /\ p.table = "users"
    BY <1>10, <2>1, <2>2 DEF ChangeUser
  <2>4. db'["system"] = e
    BY <1>s, <2>3 DEF Over
  <2>5. RowOK("system", p)
    BY <1>s, ToolIs DEF ServiceOK, DatabaseOK
  <2>6. PICK k, o : p = [table |-> "users", key |-> k, of |-> o]
    BY <2>3, <2>5 DEF RowOK, Row
  <2>7. q = [table |-> "users", key |-> k, of |-> to]
    BY <2>1, <2>6
  <2>8. q.table = p.table /\ q.key = p.key /\ q.of = to /\ to # "seeded"
    BY <2>6, <2>7
  <2>9. CASE r = p
    BY <2>2, <2>4, <2>8, <2>9 DEF Same
  <2>10. CASE r # p
    BY <1>1, <2>2, <2>4, <2>10 DEF Same
  <2> QED
    BY <2>9, <2>10
<1>11. ASSUME NEW s \in Services, Seed(s) PROVE db["system"] \subseteq db'["system"]
  BY <1>5, <1>6, <1>11 DEF Seed
<1> QED
  BY <1>k, <1>2, <1>3, <1>4, <1>7, <1>8, <1>9, <1>10, <1>11 DEF Next

-----------------------------------------------------------------------------
(***************************************************************************)
(* The theorems.                                                           *)
(***************************************************************************)
PartsInv == SeedInv /\ LogInv /\ LedgerInv /\ BrokerInv

LEMMA PartsInvariant == SpecInstalled => []PartsInv
<1>1. InitInstalled => PartsInv
  BY SeedAtFirst, LogAtFirst, LedgerAtFirst, BrokerAtFirst DEF InitInstalled, PartsInv
<1>2. PartsInv /\ [NextInstalled]_allVars => PartsInv'
  <2> SUFFICES ASSUME PartsInv, [NextInstalled]_allVars PROVE PartsInv'
    OBVIOUS
  <2>1. [Next]_vars /\ [Log!Next]_logVars /\ [Ledger!Next]_ledgerVars /\ [Broker!Next]_brokerVars
    BY DEF NextInstalled, allVars
  <2> QED
    BY <2>1, SeedStep, LogStep, LedgerStep, BrokerStep DEF PartsInv
<1> QED
  BY <1>1, <1>2, PTL DEF SpecInstalled

(* Each part keeps to its types; in particular no seeding, killed, refused  *)
(* or repeated, writes a name twice into a database, or a row into one      *)
(* whose tables are not there.                                              *)
THEOREM PartsAreTyped == SpecInstalled => []TypesOK
<1>1. PartsInv => TypesOK
  BY SeedTypes, BrokerHolds, LogHolds, LedgerHolds DEF PartsInv, TypesOK
<1> QED
  BY <1>1, PartsInvariant, PTL

(* Whatever tool was killed or had a row refused, and whenever SCM was      *)
(* seeded again, a row refers to rows that are there, and what MRP and      *)
(* Sales took from a manifest is in every whole catalogue.                  *)
THEOREM ReferencesAreKept == SpecInstalled => []ReferencesResolve
<1>1. PartsInv => ReferencesResolve
  BY SeedResolves DEF PartsInv
<1> QED
  BY <1>1, PartsInvariant, PTL

(* A user whom an administrator changed or deleted stays changed or deleted *)
(* however often System is seeded again.                                    *)
THEOREM UsersAreKept == SpecInstalled => ReseedKeepsUsers
<1> DEFINE Kept == \A r \in Rows(db["system"], {"users"}) :
                      r.of # "seeded" /\ schema'["system"] = "ready" =>
                      \E q \in db'["system"] : Same(r, q) /\ q.of # "seeded"
<1>1. PartsInv /\ [NextInstalled]_allVars => [Kept]_vars
  <2> SUFFICES ASSUME PartsInv, [NextInstalled]_allVars PROVE Kept
    OBVIOUS
  <2>1. [Next]_vars
    BY DEF NextInstalled, allVars
  <2>2. SeedInv
    BY DEF PartsInv
  <2> QED
    BY <2>1, <2>2, UsersKept
<1> QED
  BY <1>1, PartsInvariant, PTL DEF SpecInstalled, ReseedKeepsUsers

(* In whatever order servers are started, killed and cut off, the broker    *)
(* drops only the events of new clients and what SCM put back itself when   *)
(* it stops, and a log only what its full queue, the collector or the exit  *)
(* of the process took, each entry in order.                                *)
THEOREM LossesAreKnown == SpecInstalled => []OnlyKnownLosses
<1>1. PartsInv => OnlyKnownLosses
  BY BrokerHolds, LogHolds DEF PartsInv, OnlyKnownLosses
<1> QED
  BY <1>1, PartsInvariant, PTL

(* A completed reading of the ledger misses and repeats no more than was    *)
(* written at the wrong moment, whatever the size of a page.                *)
THEOREM EntriesAreListed == SpecInstalled => []EntriesListed
<1>1. PartsInv => EntriesListed
  BY LedgerHolds DEF PartsInv, EntriesListed
<1> QED
  BY <1>1, PartsInvariant, PTL
=============================================================================
