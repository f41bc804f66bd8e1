------------------------------ MODULE Messaging ------------------------------
(***************************************************************************)
(* The RabbitMQ broker of the installation and how the four servers, each  *)
(* started when it pleases its operator, come to share it: whoever opens a *)
(* channel declares what it is about to use, one declaration after the     *)
(* other (queues.go, rabbitmq.go of each service), and a server decides at *)
(* its start, once, whether it has a broker.                               *)
(*                                                                         *)
(* A queue holds numbers of messages.  The servers themselves are modelled *)
(* elsewhere (DeficitPool, Planning, AuditTrail) over a broker that has    *)
(* all its queues; here is what they rely on.  The requests of a server    *)
(* are taken one at a time, the expiry reconciler of SCM beside them.      *)
(***************************************************************************)
EXTENDS Naturals, SequencesExt

CONSTANTS
    MaxMessages,      \* bound: messages ever published by a request
    MaxStartsOfEach,  \* bound: starts of each server
    MaxFailures,      \* bound: times the broker stops or a server is killed
    None

PoolQueue == "system.deficit.pool"
ReservedQueue == "system.deficit.reserved"
DLXExchange == "system.dlx"
DLXQueue == "system.deficit.dlx"
AuditQueue == "system.audit.log"
OrderCreatedQueue == "sales.order.created"
OrderUpdatedQueue == "sales.order.updated"
ClientCreated == "sales.client.created"
\* The other events of Sales: five queues that are declared together and that
\* nobody reads; one stands for them all.
UnreadQueues == {"sales.order.allocated"}
Queues == {PoolQueue, ReservedQueue, DLXQueue, AuditQueue, OrderCreatedQueue, OrderUpdatedQueue,
           ClientCreated} \cup UnreadQueues

Names == Queues \cup {DLXExchange, "binding"}

Servers == {"scm", "system", "mrp", "sales"}
Jobs == Queues \cup {"connect", "check", "declare", "consume", "lock", "copy"}
Actors == Servers \cup {"reconciler"}

VARIABLES
    up,           \* the broker runs
    declared,     \* its durable queues, the exchange and "binding"
    reserved,     \* the reserved queue: None, owned (with SCM's arguments) or plain
    kept, light,  \* messages of each queue that survive a stop, and those that do not
    at,           \* where the start of each server stands
    conn,         \* the connection of each actor: what is left to declare, and for what
    available,    \* servers whose client found a broker when they started
    consuming,    \* servers subscribed to their queues
    gone,         \* messages lost: the queue, and why (history)
    sent, started, failures
broker == <<up, declared, reserved, kept, light, gone>>
vars == <<up, declared, reserved, kept, light, at, conn, available, consuming, gone, sent, started, failures>>

Init ==
    /\ up = TRUE /\ declared = {} /\ reserved = None
    /\ kept = [q \in Queues |-> 0] /\ light = [q \in Queues |-> 0]
    /\ at = [s \in Servers |-> "off"]
    /\ conn = [a \in Actors |-> None]
    /\ available = {} /\ consuming = {} /\ gone = {}
    /\ sent = 0 /\ started = [s \in Servers |-> 0] /\ failures = 0

-----------------------------------------------------------------------------
(* What each service declares, in order; the queues that one list names in  *)
(* a row are declared in one step.  "owned" and "plain" are the two ways of *)
(* declaring the reserved queue, with and without dead-lettering.           *)
\* Mutant: SCM declares the exchange and the queues, as System does, without
\* the binding.
UnboundSCM == <<{DLXExchange, PoolQueue, DLXQueue}, {AuditQueue}, {"owned"}>>
SetupSCM == <<{DLXExchange, PoolQueue, DLXQueue}, {"binding", AuditQueue}, {"owned"}>>
SetupSystem == <<{PoolQueue, DLXQueue, AuditQueue}, {"owned"}>>
LogStartup == <<{AuditQueue, PoolQueue, OrderCreatedQueue, OrderUpdatedQueue}>>
DeclareQueues == LogStartup \o <<{"plain"}>>
SetupSales == <<{OrderCreatedQueue, OrderUpdatedQueue, AuditQueue} \cup UnreadQueues>>

(* The stages of a start, each with the connection it needs. *)
Stages(s) ==
    CASE s = "scm" -> <<"connect", "serving">>
      [] s = "system" -> <<"check", "consume", "serving">>
      [] s = "mrp" -> <<"connect", "declare", "consume", "serving">>
      [] s = "sales" -> <<"connect", "serving">>
Setup(s, job) ==
    CASE s \in {"scm", "reconciler"} -> SetupSCM
      [] s = "system" -> SetupSystem
      [] s = "mrp" /\ job = "connect" -> <<>>
      [] s = "mrp" /\ job = "declare" -> LogStartup
      [] s = "mrp" /\ job = "consume" -> DeclareQueues
      [] s = "sales" /\ job = "connect" -> <<>>
      [] s = "sales" /\ job # "connect" -> SetupSales
NextStage(s, stage) ==
    LET i == CHOOSE j \in 1..Len(Stages(s)) : Stages(s)[j] = stage IN Stages(s)[i + 1]

Start(s) ==
    /\ at[s] = "off" /\ started[s] < MaxStartsOfEach
    /\ started' = [started EXCEPT ![s] = @ + 1]
    /\ at' = [at EXCEPT ![s] = Stages(s)[1]]
    /\ UNCHANGED <<broker, conn, available, consuming, sent, failures>>

Open(a, job, left) == conn' = [conn EXCEPT ![a] = [job |-> job, left |-> left, alive |-> TRUE]]

(* A job ends, well or not, and a start goes on to its next stage: no       *)
(* server gives up because it has no broker.                                *)
Starting(a) == a \in Servers /\ at[a] # "serving"
\* A client that found a broker when it was made stays enabled, whatever comes.
Enabled(a, job, ok) ==
    IF Starting(a) /\ job = "connect" /\ ok THEN available \cup {a} ELSE available
Subscribed(a, job, ok) ==
    IF Starting(a) /\ job = "consume" /\ ok THEN consuming \cup {a} ELSE consuming
Finish(a, job, ok) ==
    /\ conn' = [conn EXCEPT ![a] = None]
    /\ at' = IF Starting(a) THEN [at EXCEPT ![a] = NextStage(a, job)] ELSE at
    /\ available' = Enabled(a, job, ok) /\ consuming' = Subscribed(a, job, ok)
    /\ UNCHANGED <<sent, started, failures>>

(* A stage of a start dials; the one that declares the queues of MRP needs  *)
(* the client of the stage before.                                          *)
Dial(s) ==
    /\ at[s] \notin {"off", "serving"} /\ conn[s] = None
    /\ IF up /\ (at[s] = "declare" => s \in available)
       THEN /\ Open(s, at[s], Setup(s, at[s]))
            /\ UNCHANGED <<at, available, consuming, sent, started, failures>>
       ELSE Finish(s, at[s], FALSE)
    /\ UNCHANGED broker

-----------------------------------------------------------------------------
(* The broker declares: what exists alike is found, a queue that exists     *)
(* with other arguments is refused with 406 and the channel closed.  MRP    *)
(* declares the reserved queue on a throwaway channel and goes on.          *)
Ready(a, job) == conn[a] # None /\ conn[a].alive /\ conn[a].left = <<>> /\ conn[a].job = job
Declare(a) ==
    LET d == Head(conn[a].left)
        goOn == /\ conn' = [conn EXCEPT ![a].left = Tail(@)]
                /\ UNCHANGED <<at, available, consuming, sent, started, failures>> IN
    /\ conn[a] # None /\ conn[a].alive /\ conn[a].left # <<>>
    /\ IF d \in {{"owned"}, {"plain"}}
       THEN /\ reserved' = IF reserved = None THEN CHOOSE k \in d : TRUE ELSE reserved
            /\ IF d = {"owned"} /\ reserved = "plain" THEN Finish(a, conn[a].job, FALSE) ELSE goOn
            /\ UNCHANGED declared
       ELSE /\ declared' = declared \cup d
            /\ goOn
            /\ UNCHANGED reserved
    /\ UNCHANGED <<up, kept, light, gone>>

LoseLink(a) ==
    /\ conn[a] # None /\ ~conn[a].alive
    /\ Finish(a, conn[a].job, FALSE)
    /\ UNCHANGED broker

(* The last act of a stage: nothing more, or the subscription. *)
FinishStage(s) ==
    /\ \E job \in {"connect", "check", "declare", "consume"} : Ready(s, job) /\ Finish(s, job, TRUE)
    /\ UNCHANGED broker

-----------------------------------------------------------------------------
(* Requests and timers.  The client of SCM that failed at the start is not  *)
(* used by the audit middleware and the reconciler; a lock dials anyway.    *)
Exists(q) == IF q = ReservedQueue THEN reserved # None ELSE q \in declared

\* An accepted message that no queue takes is returned to nobody.
PublishTo(q, persistent) ==
    /\ kept' = IF Exists(q) /\ persistent THEN [kept EXCEPT ![q] = @ + 1] ELSE kept
    /\ light' = IF Exists(q) /\ ~persistent THEN [light EXCEPT ![q] = @ + 1] ELSE light
    /\ gone' = IF Exists(q) THEN gone ELSE gone \cup {<<q, "no queue">>}

Publishes(s) ==
    CASE s = "scm" -> {AuditQueue}
      [] s = "mrp" -> {AuditQueue, PoolQueue}
      [] s = "sales" -> {AuditQueue, OrderCreatedQueue, OrderUpdatedQueue, ClientCreated} \cup UnreadQueues
      [] OTHER -> {}

\* MRP declares the queue it publishes to, the others their whole list.
ToDeclare(s, q) == IF s = "mrp" THEN <<{q}>> ELSE Setup(s, q)
BeginPublish(s, q) ==
    /\ at[s] = "serving" /\ conn[s] = None /\ up
    /\ s \in available /\ sent < MaxMessages
    /\ sent' = sent + 1
    /\ Open(s, q, ToDeclare(s, q))
    /\ UNCHANGED <<broker, at, available, consuming, started, failures>>

FinishPublish(s) ==
    \E q \in Queues :
        /\ Ready(s, q)
        /\ PublishTo(q, TRUE)
        /\ Finish(s, q, TRUE)
        /\ UNCHANGED <<up, declared, reserved>>

\* A message leaves a queue and is published to another.
Move(from, to, persistent) ==
    \E wasKept \in BOOLEAN :
        LET One(yes, q, place) == IF yes /\ q = place THEN 1 ELSE 0 IN
        /\ (IF wasKept THEN kept[from] ELSE light[from]) > 0
        /\ kept' = [q \in Queues |-> kept[q] - One(wasKept, q, from) + One(persistent, q, to)]
        /\ light' = [q \in Queues |-> light[q] - One(~wasKept, q, from) + One(~persistent, q, to)]
Empty(q) == kept[q] + light[q] = 0

BeginLock ==
    /\ at["scm"] = "serving" /\ conn["scm"] = None /\ up
    /\ ~Empty(PoolQueue)
    /\ Open("scm", "lock", SetupSCM)
    /\ UNCHANGED <<broker, at, available, consuming, sent, started, failures>>

\* A message of the pool is reserved; or it is put back, or dead-lettered
\* after its last try, as a message that a stop of the broker loses.
FinishLock ==
    /\ Ready("scm", "lock")
    /\ \/ Move(PoolQueue, ReservedQueue, TRUE)
       \/ Move(PoolQueue, PoolQueue, FALSE)
       \/ Move(PoolQueue, DLXQueue, FALSE)
       \/ Empty(PoolQueue) /\ UNCHANGED <<kept, light>>
    /\ Finish("scm", "lock", TRUE)
    /\ UNCHANGED <<up, declared, reserved, gone>>

\* The reconciler runs in the servers of SCM that had a broker at their start.
Tick ==
    /\ at["scm"] = "serving" /\ "scm" \in available /\ up
    /\ conn["reconciler"] = None /\ ~Empty(DLXQueue)
    /\ Open("reconciler", "copy", SetupSCM)
    /\ UNCHANGED <<broker, at, available, consuming, sent, started, failures>>

\* The dead letters go back to the pool one by one.
Reconcile ==
    /\ Ready("reconciler", "copy")
    /\ IF Empty(DLXQueue)
       THEN Finish("reconciler", "copy", TRUE) /\ UNCHANGED <<kept, light>>
       ELSE /\ Move(DLXQueue, PoolQueue, FALSE)
            /\ UNCHANGED <<at, conn, available, consuming, sent, started, failures>>
    /\ UNCHANGED <<up, declared, reserved, gone>>

(* A subscribed server takes a message from one of its queues. *)
Reads(s) ==
    CASE s = "mrp" -> {OrderCreatedQueue, OrderUpdatedQueue, ReservedQueue}
      [] s = "system" -> {AuditQueue}
      [] OTHER -> {}
Consume(s) ==
    /\ s \in consuming
    /\ \E q \in Reads(s) : kept[q] > 0 /\ kept' = [kept EXCEPT ![q] = @ - 1]
    /\ UNCHANGED <<up, declared, reserved, light, gone, at, conn, available, consuming, sent, started, failures>>

-----------------------------------------------------------------------------
(* The broker: a reservation expires and is dead-lettered when the queue    *)
(* says so and the exchange has a way; a stop closes every connection and   *)
(* forgets what is not persistent.                                          *)
Expire ==
    /\ up /\ kept[ReservedQueue] > 0
    /\ IF reserved = "owned" /\ {DLXExchange, DLXQueue, "binding"} \subseteq declared
       THEN kept' = [kept EXCEPT ![ReservedQueue] = @ - 1, ![DLXQueue] = @ + 1] /\ UNCHANGED gone
       ELSE /\ kept' = [kept EXCEPT ![ReservedQueue] = @ - 1]
            /\ gone' = gone \cup {<<ReservedQueue, "no route">>}
    /\ UNCHANGED <<up, declared, reserved, light, at, conn, available, consuming, sent, started, failures>>

StopBroker ==
    /\ up /\ failures < MaxFailures
    /\ up' = FALSE /\ failures' = failures + 1
    /\ light' = [q \in Queues |-> 0]
    /\ gone' = gone \cup {<<q, "stop">> : q \in {p \in Queues : light[p] > 0}}
    /\ conn' = [a \in Actors |-> IF conn[a] = None THEN None ELSE [conn[a] EXCEPT !.alive = FALSE]]
    /\ consuming' = {}
    /\ UNCHANGED <<declared, reserved, kept, at, available, sent, started>>

StartBroker ==
    /\ ~up /\ up' = TRUE
    /\ UNCHANGED <<declared, reserved, kept, light, gone, at, conn, available, consuming, sent, started, failures>>

Kill(s) ==
    /\ at[s] # "off" /\ failures < MaxFailures
    /\ failures' = failures + 1
    /\ at' = [at EXCEPT ![s] = "off"]
    /\ conn' = [a \in Actors |-> IF a = s \/ (s = "scm" /\ a = "reconciler") THEN None ELSE conn[a]]
    /\ available' = available \ {s} /\ consuming' = consuming \ {s}
    /\ UNCHANGED <<broker, sent, started>>

Next ==
    \/ \E s \in Servers :
         \/ Start(s) \/ Dial(s) \/ FinishStage(s)
         \/ \E q \in Publishes(s) : BeginPublish(s, q)
         \/ FinishPublish(s) \/ Consume(s) \/ Kill(s)
    \/ \E a \in Actors : Declare(a) \/ LoseLink(a)
    \/ BeginLock \/ FinishLock \/ Tick \/ Reconcile
    \/ Expire \/ StopBroker \/ StartBroker
Spec == Init /\ [][Next]_vars
-----------------------------------------------------------------------------
(* What exists has a name the services use, a start is at one of its        *)
(* stages, only readers subscribe, and the counters keep their bounds.      *)
TypeOK ==
    /\ up \in BOOLEAN
    /\ declared \subseteq Names
    /\ reserved \in {None, "owned", "plain"}
    /\ kept \in [Queues -> Nat] /\ light \in [Queues -> Nat]
    /\ \A s \in Servers : at[s] \in {"off"} \cup Range(Stages(s)) /\ started[s] \in 0..MaxStartsOfEach
    /\ \A a \in Actors : conn[a] # None => conn[a].job \in Jobs
    /\ available \subseteq Servers /\ consuming \subseteq {"system", "mrp"}
    /\ gone \subseteq Queues \X {"no queue", "no route", "stop"}
    /\ sent \in 0..MaxMessages /\ failures \in 0..MaxFailures

(* In whatever order the servers are started, killed and cut off, the       *)
(* broker drops no message for want of a queue or of a way to it: who       *)
(* publishes has declared before, in the same channel, and a reservation    *)
(* exists only where the exchange and the binding do, although System       *)
(* declares the queue without them (queues.go:22, system rabbitmq.go:93).   *)
(* What is known to go: the events of new clients, for which nobody         *)
(* declares a queue (client_service.go:101), and, when the broker stops,    *)
(* what SCM put into the pool and into the dead letters itself, without     *)
(* asking for persistence (deficit_lock.go:233, :261, rabbitmq.go:404).     *)
OnlyKnownLosses ==
    gone \subseteq {<<ClientCreated, "no queue">>, <<PoolQueue, "stop">>, <<DLXQueue, "stop">>}
=============================================================================
