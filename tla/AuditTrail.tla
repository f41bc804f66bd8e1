----------------------------- MODULE AuditTrail -----------------------------
(***************************************************************************)
(* The audit log of the system service.  Its own handlers write entries    *)
(* into the database; the other services publish theirs to the queue       *)
(* system.audit.log once a request has done its work, and one consumer      *)
(* takes them one at a time (audit_consumer.go).                           *)
(*                                                                         *)
(* The consumer sets no prefetch limit, so that the broker hands it every  *)
(* message at once: a rejected one comes again after all the others.       *)
(***************************************************************************)
EXTENDS Requests

CONSTANTS
    Users,        \* accounts, by their e-mail address
    Events,       \* what the other services publish
    Sort          \* of each event: "good", "invalid" or "garbled"

ASSUME SortAssumption == Sort \in [Events -> {"good", "invalid", "garbled"}]

VARIABLES
    log,        \* audit_logs: entries of each user, by action
    sent,       \* events that the other services have published, or tried to
    trail,      \* messages on their way to the consumer, in their order
    handling,   \* the message that the consumer works on
    inserted,   \* whether it has its row
    consuming,  \* whether the consumer has a connection
    stored      \* audit_logs: rows of each published event

auditVars == <<log, sent, trail, handling, inserted, consuming, stored>>
queueVars == <<sent, trail, handling, inserted, consuming, stored>>

Actions == {"LOGIN", "CREATE", "UPDATE"}
NoEntries == [a \in Actions |-> 0]

(* An entry of a handler goes into the database; its failure is ignored. *)
Ingest(r, u, action) ==
    /\ \/ Answer(r) /\ log' = [log EXCEPT ![u][action] = @ + 1]
       \/ Ignored(r, Idle) /\ UNCHANGED log
    /\ UNCHANGED queueVars

-----------------------------------------------------------------------------
(* Events of the other services. *)

Follow == UNCHANGED <<req, alone, calm, calls>>

PublishFails ==
    /\ Fault
    /\ Follow

(* Counted with the requests, since each follows one of another service.    *)
PublishToAudit(e) ==
    /\ e \notin sent
    /\ sent' = sent \cup {e}
    /\ \/ Aside /\ trail' = Append(trail, e)
       \/ PublishFails /\ UNCHANGED trail
    /\ UNCHANGED <<log, handling, inserted, consuming, stored>>

TakeDelivery ==
    /\ consuming /\ handling = None /\ trail # <<>>
    /\ handling' = Head(trail)
    /\ trail' = Tail(trail)
    /\ Follow
    /\ inserted' = FALSE
    /\ UNCHANGED <<faults, log, sent, consuming, stored>>

(* A message that cannot be decoded is dropped. *)
DropDelivery ==
    /\ handling # None /\ Sort[handling] = "garbled"
    /\ handling' = None
    /\ Follow
    /\ UNCHANGED <<faults, log, sent, trail, inserted, consuming, stored>>

(* A rejected message goes back, unless the broker has taken it back when   *)
(* the connection was lost.                                                 *)
Rejected == trail
Returned == IF consuming THEN Append(trail, handling) ELSE trail
Requeue ==
    /\ handling # None /\ Sort[handling] # "garbled" /\ ~inserted
    /\ IF Sort[handling] = "invalid" THEN UNCHANGED faults ELSE Fault
    /\ trail' = Returned
    /\ handling' = None
    /\ Follow
    /\ UNCHANGED <<log, sent, inserted, consuming, stored>>

InsertEvent ==
    /\ handling # None /\ Sort[handling] = "good" /\ ~inserted
    /\ stored' = [stored EXCEPT ![handling] = @ + 1]
    /\ inserted' = TRUE
    /\ Follow
    /\ UNCHANGED <<faults, log, sent, trail, handling, consuming>>

AckDelivery ==
    /\ handling # None /\ inserted
    /\ handling' = None
    /\ inserted' = FALSE
    /\ Follow
    /\ UNCHANGED <<faults, log, sent, trail, consuming, stored>>

Consume == TakeDelivery \/ DropDelivery \/ Requeue \/ InsertEvent \/ AckDelivery

(* The broker takes back what was not acknowledged; the consumer ends its   *)
(* loop when the channel closes, and only a restart begins another.         *)
Unacked == IF handling = None \/ ~consuming THEN trail ELSE <<handling>> \o trail
LoseConnection ==
    /\ consuming /\ Fault
    /\ consuming' = FALSE
    /\ trail' = Unacked
    /\ Follow
    /\ UNCHANGED <<log, sent, handling, inserted, stored>>

RestartConsumer ==
    /\ trail' = Unacked
    /\ handling' = None
    /\ inserted' = FALSE
    /\ consuming' \in BOOLEAN   \* it may find no broker
    /\ UNCHANGED <<log, sent, stored>>

-----------------------------------------------------------------------------
AuditInit ==
    /\ sent = {} /\ trail = <<>> /\ handling = None
    /\ inserted = FALSE /\ consuming = TRUE /\ stored = [e \in Events |-> 0]

AuditNext == (\E e \in Events : PublishToAudit(e)) \/ Consume \/ LoseConnection

AuditOK ==
    /\ log \in [Users -> [Actions -> Nat]]
    /\ sent \subseteq Events
    /\ stored \in [Events -> Nat] /\ \A e \in Events : stored[e] > 0 => e \in sent
    /\ trail \in Seq(sent) /\ handling \in sent \cup {None}
    /\ {inserted, consuming} \subseteq BOOLEAN

(* A valid event that reached the queue gets into the log, though invalid   *)
(* ones come back for ever, inserts fail, the connection is lost and the    *)
(* service restarts; nobody consumes while the connection is lost           *)
(* (audit_consumer.go:95).                                                  *)
AuditStored ==
    \A e \in Events :
      (Sort[e] = "good" /\ \E i \in DOMAIN trail : trail[i] = e) ~> (stored[e] > 0 \/ ~consuming)
=============================================================================
