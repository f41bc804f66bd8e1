---------------------------- MODULE Installation ----------------------------
(***************************************************************************)
(* The surroundings of the services: the databases and how they are seeded *)
(* (Seeding), the broker and how the servers meet at it (Messaging), the   *)
(* log of a server (LogShipping), and the ledger of SCM as MRP reads it    *)
(* page by page (LedgerReading).  They share no state, so a behaviour is   *)
(* one of these parts, chosen at the start.                                *)
(***************************************************************************)
EXTENDS Seeding

CONSTANTS
    MaxMessages, MaxStartsOfEach, MaxFailures,     \* of Messaging
    BatchSize, MaxEntries,                         \* of LogShipping
    Writers, Limit, MaxStamps, MaxReadings         \* of LedgerReading

ASSUME LogAssumption == BatchSize \in Nat \ {0} /\ MaxEntries \in Nat
ASSUME LedgerAssumption ==
    Limit \in Nat \ {0} /\ MaxStamps \in Nat /\ MaxReadings \in Nat /\ None \notin Nat

VARIABLES
    part,
    up, declared, reserved, kept, light, at, conn, available, consuming, gone, sent, started, failures,
    logged, queue, batch, shipper, arrived, refused, dropped, early, server,
    ledger, clock, stamp, reader, page, total, found, rows, listed, before, counted, readings

brokerVars == <<up, declared, reserved, kept, light, at, conn, available, consuming, gone, sent,
                started, failures>>
logVars == <<logged, queue, batch, shipper, arrived, refused, dropped, early, server>>
ledgerVars == <<ledger, clock, stamp, reader, page, total, found, rows, listed, before, counted, readings>>
allVars == <<part, vars, brokerVars, logVars, ledgerVars>>

Broker == INSTANCE Messaging
ASSUME BrokerAssumption ==
    /\ MaxMessages \in Nat /\ MaxStartsOfEach \in Nat /\ MaxFailures \in Nat
    /\ None \notin {"owned", "plain"}

Log == INSTANCE LogShipping
Ledger == INSTANCE LedgerReading WITH MaxEntries <- MaxStamps, NoStamp <- None

InitInstalled ==
    /\ part \in {"databases", "broker", "log", "ledger"}
    /\ Init /\ Broker!Init /\ Log!Init /\ Ledger!Init
NextInstalled ==
    /\ part' = part
    /\ \/ part = "databases" /\ Next /\ UNCHANGED <<brokerVars, logVars, ledgerVars>>
       \/ part = "broker" /\ Broker!Next /\ UNCHANGED <<vars, logVars, ledgerVars>>
       \/ part = "log" /\ Log!Next /\ UNCHANGED <<vars, brokerVars, ledgerVars>>
       \/ part = "ledger" /\ Ledger!Next /\ UNCHANGED <<vars, brokerVars, logVars>>
SpecInstalled == InitInstalled /\ [][NextInstalled]_allVars

(* Each part keeps to its types: what a tool or a start may be doing, the   *)
(* tables and queues that there are, the sizes of batches and pages.        *)
TypesOK == TypeOK /\ Broker!TypeOK /\ Log!TypeOK /\ Ledger!TypeOK

(* The broker drops no message but those that are known to go: those for    *)
(* which nobody declares a queue (client_service.go:101), and what SCM put  *)
(* into the pool and the dead letters when it stops (deficit_lock.go:261).  *)
(* A log loses no entry but what its full queue or the collector refused,   *)
(* and what waits when the process exits (log.go:117-216).                  *)
OnlyKnownLosses == Broker!OnlyKnownLosses /\ Log!OnlyKnownLosses

(* A reading of the ledger that completes misses and repeats no more than   *)
(* what SCM wrote at the wrong moment (inventory_service.go:163-185).       *)
EntriesListed == Ledger!EntriesListed
=============================================================================
