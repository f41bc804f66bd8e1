------------------------------ MODULE Requests ------------------------------
(***************************************************************************)
(* HTTP requests that the SCM and MRP services serve, for the modules of   *)
(* the catalogue.  A slot follows one request through the handler, the     *)
(* service, the repositories and the services it calls; each SQL statement *)
(* or cache command that others can see or disturb is a step.              *)
(***************************************************************************)
EXTENDS Integers, Sequences, FiniteSets

CONSTANTS
    Requests,     \* requests being served at the same time
    Subjects,     \* what a request is about: SKUs, models, products, vendors
    MaxCalls,     \* bound: requests
    MaxFaults,    \* bound: failed statements and calls, and restarts
    None          \* no row, no value

ASSUME RequestsAssumption == IsFiniteSet(Requests) /\ MaxCalls \in Nat /\ MaxFaults \in Nat

VARIABLES
    req,       \* where each request stands and what it holds in memory
    alone,     \* subjects that no two requests met on, unless to read (history)
    calm,      \* subjects that no read met a change on (history)
    calls, faults

Idle == [at |-> "idle", kind |-> "none", on |-> {}, key |-> None, arg |-> None,
         held |-> None, todo |-> {}, wrote |-> FALSE]

RequestsInit ==
    /\ req = [r \in Requests |-> Idle]
    /\ alone = Subjects
    /\ calm = Subjects
    /\ calls = 0
    /\ faults = 0

(* A request about the subjects S begins; it may meet others at work on them. *)
Reads == {"get product", "get optimal", "read bom", "get user", "login", "refresh"}
Begin(r, S, first) ==
    LET met == {q \in Requests : req[q].on \cap S # {}}
        reading(kind) == kind \in Reads
        changing == {q \in met : ~reading(first.kind) \/ ~reading(req[q].kind)}
        mixed == {q \in met : reading(first.kind) # reading(req[q].kind)}
        about(Q) == IF Q = {} THEN {} ELSE S \cup UNION {req[q].on : q \in Q} IN
    /\ req[r].at = "idle"
    /\ calls < MaxCalls
    /\ calls' = calls + 1
    /\ req' = [req EXCEPT ![r] = [first EXCEPT !.on = S]]
    /\ alone' = alone \ about(changing)
    /\ calm' = calm \ about(mixed)
    /\ UNCHANGED faults

First(at, kind, key, arg) == [Idle EXCEPT !.at = at, !.kind = kind, !.key = key, !.arg = arg]

Continue(r, next) ==
    /\ req' = [req EXCEPT ![r] = next]
    /\ UNCHANGED <<alone, calm, calls, faults>>
Goto(r, at) == Continue(r, [req[r] EXCEPT !.at = at])
Wrote(r, at) == Continue(r, [req[r] EXCEPT !.at = at, !.wrote = TRUE])
Answer(r) == Continue(r, Idle)

(* What is left half done is neither alone nor calm any more. *)
Spoil(S) == alone' = alone \ S /\ calm' = calm \ S
HalfDone(r) == IF req[r].wrote THEN req[r].on ELSE {}

(* A request that ends with an error may leave its work half done. *)
Refuse(r) ==
    /\ req' = [req EXCEPT ![r] = Idle]
    /\ Spoil(HalfDone(r))
    /\ UNCHANGED <<calls, faults>>

Fault == faults < MaxFaults /\ faults' = faults + 1

(* A statement or call fails: the request ends with an error. *)
StepFails(r) ==
    /\ req[r].at # "idle"
    /\ Fault
    /\ req' = [req EXCEPT ![r] = Idle]
    /\ Spoil(HalfDone(r))
    /\ UNCHANGED calls

(* A failed command whose error the code ignores. *)
Ignored(r, next) ==
    /\ Fault
    /\ req' = [req EXCEPT ![r] = next]
    /\ Spoil(req[r].on)
    /\ UNCHANGED calls

(* Something changes outside the requests that are followed. *)
Aside ==
    /\ calls < MaxCalls
    /\ calls' = calls + 1
    /\ UNCHANGED <<req, alone, calm, faults>>

At(r, at) == req[r].at = at
Quiet(x) == \A r \in Requests : x \notin req[r].on
=============================================================================
