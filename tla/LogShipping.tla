----------------------------- MODULE LogShipping -----------------------------
(***************************************************************************)
(* The log handler of a service (log.go, the same in all four): every      *)
(* request and the metrics job put entries into a bounded queue, without   *)
(* waiting, and one goroutine ships them to the collector in batches, when *)
(* a batch is full, when a ticker fires and once more when the service     *)
(* stops.  An entry is the number under which it was logged.               *)
(***************************************************************************)
EXTENDS Naturals, FiniteSets, SequencesExt

CONSTANTS
    BatchSize,     \* entries of a batch (200 in the code), half of the queue
    MaxEntries     \* bound: entries logged

VARIABLES
    logged,     \* entries logged so far
    queue,      \* the buffered channel
    batch,      \* what the shipper has taken and not yet pushed
    shipper,    \* the shipper: "select", "push", "drain", "last", "returned"
    arrived,    \* what the collector received, in order
    refused,    \* entries of pushes that failed, which are written to stderr
    dropped,    \* entries that found the queue full
    early,      \* entries waiting when the service stopped its logging (history)
    server      \* the server: "serving", "failed", "stopping", "exited"
vars == <<logged, queue, batch, shipper, arrived, refused, dropped, early, server>>

Init ==
    /\ logged = 0 /\ queue = <<>> /\ batch = <<>> /\ shipper = "select"
    /\ arrived = <<>> /\ refused = {} /\ dropped = {} /\ early = {} /\ server = "serving"

QueueSize == BatchSize * 2

(* A record becomes an entry, unless the queue is full. *)
Handle ==
    /\ server # "exited"
    /\ logged < MaxEntries
    /\ logged' = logged + 1
    /\ IF Len(queue) < QueueSize
       THEN queue' = Append(queue, logged + 1) /\ UNCHANGED dropped
       ELSE dropped' = dropped \cup {logged + 1} /\ UNCHANGED queue
    /\ UNCHANGED <<batch, shipper, arrived, refused, early>>

(* A request or the metrics job logs. *)
LogRecord == Handle /\ UNCHANGED server

-----------------------------------------------------------------------------
(* The shipper. *)

Shipping(stage) == shipper = stage /\ server # "exited"
TakeEntry == batch' = Append(batch, Head(queue)) /\ queue' = Tail(queue)

Collect ==
    /\ Shipping("select")
    /\ queue # <<>>
    /\ TakeEntry
    /\ shipper' = IF Len(batch) + 1 >= BatchSize THEN "push" ELSE "select"
    /\ UNCHANGED <<logged, arrived, refused, dropped, early, server>>

Flush ==
    /\ Shipping("select")
    /\ batch # <<>>
    /\ shipper' = "push"
    /\ UNCHANGED <<logged, queue, batch, arrived, refused, dropped, early, server>>

Drain ==
    /\ \/ Shipping("select") /\ server = "stopping"
       \/ Shipping("drain")
    /\ IF queue # <<>>
       THEN TakeEntry /\ shipper' = "drain"
       ELSE /\ shipper' = IF batch = <<>> THEN "returned" ELSE "last"
            /\ UNCHANGED <<queue, batch>>
    /\ UNCHANGED <<logged, arrived, refused, dropped, early, server>>

(* A push that fails is not repeated. *)
Push ==
    /\ Shipping("push") \/ Shipping("last")
    /\ \/ arrived' = arrived \o batch /\ UNCHANGED refused
       \/ refused' = refused \cup ToSet(batch) /\ UNCHANGED arrived
    /\ batch' = <<>>
    /\ shipper' = IF shipper = "push" THEN "select" ELSE "returned"
    /\ UNCHANGED <<logged, queue, dropped, early, server>>

-----------------------------------------------------------------------------
(* The end of a server: its listener fails, which it logs, or it is killed. *)

ServerError == server = "serving" /\ Handle /\ server' = "failed"

(* The stop function tells the shipper and does not wait for it. *)
StopLogging ==
    /\ server = "failed"
    /\ server' = "stopping"
    /\ early' = ToSet(queue)
    /\ UNCHANGED <<logged, queue, batch, shipper, arrived, refused, dropped>>

Exit ==
    /\ server # "exited"
    /\ server' = "exited"
    /\ UNCHANGED <<logged, queue, batch, shipper, arrived, refused, dropped, early>>

Next ==
    \/ LogRecord \/ Collect \/ Flush \/ Drain \/ Push
    \/ ServerError \/ StopLogging \/ Exit

Spec == Init /\ [][Next]_vars

-----------------------------------------------------------------------------
(* The queue and a batch keep their sizes, but for the last batch. *)
TypeOK ==
    /\ logged \in 0..MaxEntries
    /\ Len(queue) <= QueueSize
    /\ shipper \in {"select", "push", "drain", "last", "returned"}
    /\ shipper \in {"select", "push"} => Len(batch) <= BatchSize
    /\ refused \cup dropped \cup early \subseteq 1..logged
    /\ server \in {"serving", "failed", "stopping", "exited"}

(* What is logged goes one way, once and in its order: it arrived, waits in *)
(* the batch or the queue, was refused with its whole batch or found the    *)
(* queue full, which takes that many entries before it (log.go:117-216); a  *)
(* shipper that has returned left nothing behind that waited when it was    *)
(* told to stop.  What still waits when the process exits is known to go.   *)
OnlyKnownLosses ==
    LET path == arrived \o batch \o queue IN
    /\ \A i \in 1..(Len(path) - 1) : path[i] < path[i + 1]
    /\ ToSet(path) = (1..logged) \ (refused \cup dropped)
    /\ \A d \in dropped : d > QueueSize
    /\ shipper = "returned" => batch = <<>> /\ early \cap ToSet(queue) = {}
=============================================================================
