---------------------------- MODULE SalesClients ----------------------------
(***************************************************************************)
(* The clients of the sales service (client_service.go), their rows, the   *)
(* copies of them that are cached in Valkey by id and by name              *)
(* (infrastructure/cache/usecases.go), and what orders and their           *)
(* fulfilment, which are Sales, do with them: an order names its client, a *)
(* created order is counted in the client's row, which writes back all of  *)
(* it, and the fulfilment reads the client of every order it queues or     *)
(* announces.  Of a client the name is kept; its tier, its address and the *)
(* count go the way of the name.                                           *)
(*                                                                         *)
(* A clerk serves POST and DELETE /clients, GET and PATCH /clients/{id},   *)
(* PATCH /clients/me and the requests of Sales; each statement and each    *)
(* cache command is one step.                                              *)
(***************************************************************************)
EXTENDS Sales, Functions

CONSTANTS
    Clients,      \* client identifiers, in the order in which they are given out
    Names,        \* client names
    DefaultName,  \* "Default Client", to whom orders without a client go
    MaxEdits,     \* bound: number of PATCH requests to a client
    MaxLost       \* bound: number of lost cache commands

(* The steps of a client request.                                          *)
Steps == {"known", "fetch", "exists", "get", "insert", "save", "forget", "cache",
          "clear", "remove", "drop", "order", "counted"}

ASSUME ClientsAssumption ==
    /\ Clients \subseteq Nat
    /\ DefaultName \in Names
    /\ None \notin Names
    /\ None \notin Clients
    /\ None \notin Steps
    /\ None \notin [id : Clients, name : Names]
    /\ MaxEdits \in Nat
    /\ MaxLost \in Nat

VARIABLES
    client,  \* SQLite clients: the name, or None for no row
    owner,   \* SQLite sales_orders: client_id
    byId,    \* Valkey sales:cache:client:id:<id>
    byName,  \* Valkey sales:cache:client:name:<DefaultName>: no other name is looked up
    call,    \* per clerk: the client request it serves and the copy in its hands
    unread,  \* per request: the pending orders whose client rebuildQueue has yet to read
    meant,   \* history: the name each client was last given
    edits,   \* PATCH requests so far
    lost     \* lost cache commands so far

clientVars == <<client, owner, byId, byName, call, unread, meant, edits, lost>>
allVars == <<vars, clientVars>>

-----------------------------------------------------------------------------
(* The call of a clerk: what it is for ("order", "show", "create", "patch", *)
(* "delete") and the step it is at.                                         *)
NoCall == [for |-> None, at |-> None, id |-> None, name |-> None, old |-> None]

At(c, s) == call[c].at = s
Free(c) == pc[c] = "idle" /\ At(c, None)
Proceed(c, s) == call' = [call EXCEPT ![c].at = s]
Finish(c) == call' = [call EXCEPT ![c] = NoCall]
Called(c) == [id |-> call[c].id, name |-> call[c].name]

(* The request of c now holds a copy of client i.                          *)
Hold(c, i, n, s) == call' = [call EXCEPT ![c] = [@ EXCEPT !.id = i, !.name = n, !.at = s]]

(* Where a request goes with the client it has found.                      *)
Found(c) == IF call[c].for = "order" THEN "order" ELSE None
GoOn(c, s) == IF s = None THEN Finish(c) ELSE Proceed(c, s)

Present(i) == i \in Clients /\ client[i] # None
Taken(n) == \E i \in Clients : Present(i) /\ client[i] = n
Unused == {i \in Clients : meant[i] = None}

ClientsInit ==
    /\ client = [i \in Clients |-> None]
    /\ owner = [o \in Orders |-> None]
    /\ byId = [i \in Clients |-> None]
    /\ byName = None
    /\ call = [c \in Clerks |-> NoCall]
    /\ unread = [p \in Procs |-> {}]
    /\ meant = [i \in Clients |-> None]
    /\ edits = 0
    /\ lost = 0

-----------------------------------------------------------------------------
(***************************************************************************)
(* Cache commands: SET of both keys, DEL of both keys.  Their errors are   *)
(* ignored, so a lost command is a step without effect; a copy expires     *)
(* after 30 minutes.                                                       *)
(***************************************************************************)
SetClient(c) ==
    /\ byId' = [byId EXCEPT ![call[c].id] = Called(c)]
    /\ byName' = IF call[c].name = DefaultName THEN Called(c) ELSE byName

ForgetClient(i, n) ==
    /\ byId' = [byId EXCEPT ![i] = None]
    /\ byName' = IF n = DefaultName THEN None ELSE byName

Expire ==
    /\ \/ \E i \in Clients : byId[i] # None /\ byId' = [byId EXCEPT ![i] = None]
          /\ UNCHANGED byName
       \/ byName # None /\ byName' = None /\ UNCHANGED byId
    /\ UNCHANGED <<vars, client, owner, call, unread, meant, edits, lost>>

-----------------------------------------------------------------------------
(***************************************************************************)
(* The requests.                                                           *)
(***************************************************************************)
CachedByName == byName

(* POST /orders of an operator, ResolveOrCreateClient: the copy filed under *)
(* the default name is used as it is.                                      *)
ResolveOrCreateClient(c) ==
    /\ Free(c)
    /\ call' = [call EXCEPT ![c] =
            IF CachedByName = None
            THEN [NoCall EXCEPT !.for = "order", !.at = "exists", !.name = DefaultName]
            ELSE [NoCall EXCEPT !.for = "order", !.at = "order",
                    !.id = CachedByName.id, !.name = CachedByName.name]]
    /\ UNCHANGED <<vars, client, owner, byId, byName, unread, meant, edits, lost>>

(* POST /orders with the API key of a client: the key is looked up in its  *)
(* row, the order then takes a cached copy if there is one.                *)
VerifyClientAPIKey(c, i) ==
    /\ Free(c)
    /\ Present(i)
    /\ call' = [call EXCEPT ![c] = [NoCall EXCEPT !.for = "order", !.at = "known", !.id = i]]
    /\ UNCHANGED <<vars, client, owner, byId, byName, unread, meant, edits, lost>>

GetCachedClientByID(c) ==
    /\ At(c, "known")
    /\ IF byId[call[c].id] = None THEN Proceed(c, "fetch")
       ELSE Hold(c, call[c].id, byId[call[c].id].name, "order")
    /\ UNCHANGED <<vars, client, owner, byId, byName, unread, meant, edits, lost>>

(* GET /clients/{id} of a client that has no cached copy. *)
GetClient(c, i) ==
    /\ Free(c)
    /\ byId[i] = None
    /\ call' = [call EXCEPT ![c] = [NoCall EXCEPT !.for = "show", !.at = "fetch", !.id = i]]
    /\ UNCHANGED <<vars, client, owner, byId, byName, unread, meant, edits, lost>>

(* POST /clients. *)
CreateClient(c, n) ==
    /\ Free(c)
    /\ call' = [call EXCEPT ![c] =
            [NoCall EXCEPT !.for = "create", !.at = "exists", !.name = n]]
    /\ UNCHANGED <<vars, client, owner, byId, byName, unread, meant, edits, lost>>

(* PATCH and DELETE /clients/{id}: both read the row, not a copy.  A PATCH *)
(* without a new name keeps the one there is.                              *)
PatchClient(c, i, n) ==
    /\ Free(c)
    /\ edits < MaxEdits
    /\ edits' = edits + 1
    /\ Present(i)
    /\ call' = [call EXCEPT ![c] =
            [for |-> "patch", at |-> "save", id |-> i, name |-> n,
             old |-> client[i]]]
    /\ UNCHANGED <<vars, client, owner, byId, byName, unread, meant, lost>>

DeleteClient(c, i) ==
    /\ Free(c)
    /\ Present(i)
    /\ call' = [call EXCEPT ![c] =
            [for |-> "delete", at |-> "remove", id |-> i, name |-> client[i],
             old |-> None]]
    /\ UNCHANGED <<vars, client, owner, byId, byName, unread, meant, edits, lost>>

-----------------------------------------------------------------------------
(***************************************************************************)
(* Their statements.                                                       *)
(***************************************************************************)
(* A name that exists is a conflict for POST /clients.                     *)
ExistsClientByName(c) ==
    /\ At(c, "exists")
    /\ IF ~Taken(call[c].name) THEN Proceed(c, "insert")
       ELSE GoOn(c, IF call[c].for = "order" THEN "get" ELSE None)
    /\ UNCHANGED <<vars, client, owner, byId, byName, unread, meant, edits, lost>>

GetClientByName(c) ==
    /\ At(c, "get")
    /\ \/ \E i \in Clients : Present(i) /\ client[i] = call[c].name
                             /\ Hold(c, i, client[i], "cache")
       \/ ~Taken(call[c].name) /\ Finish(c)
    /\ UNCHANGED <<vars, client, owner, byId, byName, unread, meant, edits, lost>>

FetchClient(c) ==
    /\ At(c, "fetch")
    /\ IF Present(call[c].id) THEN Hold(c, call[c].id, client[call[c].id], "cache")
       ELSE Finish(c)
    /\ UNCHANGED <<vars, client, owner, byId, byName, unread, meant, edits, lost>>

(* The name has a unique index.  A client too many for the bound Clients   *)
(* is refused like a name that is taken.                                   *)
InsertClient(c) ==
    /\ At(c, "insert")
    /\ \/ /\ ~Taken(call[c].name)
          /\ \E i \in Unused :
                /\ First(i, Unused)
                /\ client' = [client EXCEPT ![i] = call[c].name]
                /\ meant' = [meant EXCEPT ![i] = call[c].name]
                /\ Hold(c, i, call[c].name, "cache")
       \/ /\ Taken(call[c].name) \/ Unused = {}
          /\ Finish(c)
          /\ UNCHANGED <<client, meant>>
    /\ UNCHANGED <<vars, owner, byId, byName, unread, edits, lost>>

(* UPDATE of every column: a row that is gone or a name that is taken      *)
(* ends the request.                                                       *)
SaveClient(c) ==
    /\ At(c, "save")
    /\ \/ /\ Present(call[c].id)
          /\ \A i \in Clients \ {call[c].id} : Present(i) => client[i] # call[c].name
          /\ client' = [client EXCEPT ![call[c].id] = call[c].name]
          /\ meant' = [meant EXCEPT ![call[c].id] = call[c].name]
          /\ Proceed(c, IF call[c].old = call[c].name THEN "cache" ELSE "forget")
       \/ /\ \/ ~Present(call[c].id)
             \/ \E i \in Clients \ {call[c].id} : Present(i) /\ client[i] = call[c].name
          /\ Finish(c)
          /\ UNCHANGED <<client, meant>>
    /\ UNCHANGED <<vars, owner, byId, byName, unread, edits, lost>>

RemoveClient(c) ==
    /\ At(c, "remove")
    /\ \/ /\ Present(call[c].id)
          /\ client' = [client EXCEPT ![call[c].id] = None]
          /\ Proceed(c, "drop")
       \/ ~Present(call[c].id) /\ Finish(c) /\ UNCHANGED client
    /\ UNCHANGED <<vars, owner, byId, byName, unread, meant, edits, lost>>

(* Mutant: a renamed client stays filed under its old name. *)
KeepOldName(c) ==
    /\ At(c, "forget")
    /\ Proceed(c, "cache")
    /\ UNCHANGED <<vars, client, owner, byId, byName, unread, meant, edits, lost>>

(* A renamed client: the copies under its id and its old name go.          *)
ForgetOldName(c) ==
    /\ At(c, "forget")
    /\ ForgetClient(call[c].id, call[c].old)
    /\ Proceed(c, "cache")
    /\ UNCHANGED <<vars, client, owner, unread, meant, edits, lost>>

AfterCache(c) == IF call[c].for = "patch" THEN "clear" ELSE Found(c)

CacheClient(c) ==
    /\ At(c, "cache")
    /\ SetClient(c)
    /\ GoOn(c, AfterCache(c))
    /\ UNCHANGED <<vars, client, owner, unread, meant, edits, lost>>

DropClient(c) ==
    /\ At(c, "drop")
    /\ ForgetClient(call[c].id, call[c].name)
    /\ Finish(c)
    /\ UNCHANGED <<vars, client, owner, unread, meant, edits, lost>>

(* The queue is cleared after a client changed: the rest is Sales.         *)
ClearAfterPatch(c) ==
    /\ At(c, "clear")
    /\ UpdateClient(c)
    /\ Finish(c)
    /\ UNCHANGED <<client, owner, byId, byName, unread, meant, edits, lost>>

-----------------------------------------------------------------------------
(***************************************************************************)
(* CreateOrder, from the client in its hands to its queue entry.           *)
(***************************************************************************)
CreateOrderOfClient(c) ==
    /\ At(c, "order")
    /\ CreateOrder(c)
    /\ owner' = [owner EXCEPT ![cur'[c]] = call[c].id]
    /\ UNCHANGED <<client, byId, byName, call, unread, meant, edits, lost>>

(* The copy in hand, one order older, is written over the whole row; the   *)
(* copies in the cache stay as they are.                                   *)
CountOrder(c) ==
    /\ At(c, "order")
    /\ pc[c] = "enqueue"
    /\ \/ /\ Present(call[c].id)
          /\ client' = [client EXCEPT ![call[c].id] = call[c].name]
          /\ Proceed(c, "counted")
          /\ UNCHANGED vars
       \/ /\ ~Present(call[c].id)
          /\ Finish(c)
          /\ Return(c)
          /\ UNCHANGED <<client, db, valkey, disabled, manifest, bounds>>
    /\ UNCHANGED <<owner, byId, byName, unread, meant, edits, lost>>

EnqueueCounted(c) ==
    /\ At(c, "counted")
    /\ EnqueueNew(c)
    /\ Finish(c)
    /\ UNCHANGED <<client, owner, byId, byName, unread, meant, edits, lost>>

-----------------------------------------------------------------------------
(***************************************************************************)
(* The fulfilment reads the row of each client.  rebuildQueue returns at   *)
(* the first that is gone, before it touches the queue; allocateOrder      *)
(* returns after it has marked the order, without a manifest.              *)
(***************************************************************************)
ListPendingWithClients(p) ==
    /\ ListPendingOrders(p)
    /\ unread' = [unread EXCEPT ![p] = list'[p]]
    /\ UNCHANGED <<client, owner, byId, byName, call, meant, edits, lost>>

ReadPendingClient(p) ==
    /\ pc[p] = "clear"
    /\ \E o \in Orders :
        /\ First(o, unread[p])
        /\ \/ /\ Present(owner[o])
              /\ unread' = [unread EXCEPT ![p] = @ \ {o}]
              /\ UNCHANGED vars
           \/ /\ ~Present(owner[o])
              /\ unread' = [unread EXCEPT ![p] = {}]
              /\ Return(p)
              /\ UNCHANGED <<db, valkey, disabled, manifest, bounds>>
    /\ UNCHANGED <<client, owner, byId, byName, call, meant, edits, lost>>

RebuildWithClients(p) ==
    \/ ListPendingWithClients(p)
    \/ ReadPendingClient(p)
    \/ unread[p] = {} /\ RebuildClear(p) /\ UNCHANGED clientVars
    \/ RebuildEnqueue(p) /\ UNCHANGED clientVars

AllocateForClient(w) ==
    \/ /\ pc[w] = "publish" => Present(owner[cur[w]])
       /\ Allocate(w)
       /\ UNCHANGED clientVars
    \/ /\ pc[w] = "publish"
       /\ ~Present(owner[cur[w]])
       /\ Return(w)
       /\ UNCHANGED <<db, valkey, disabled, manifest, bounds, clientVars>>

-----------------------------------------------------------------------------
(* A statement that fails ends its request, and so does the whole call; a  *)
(* cache command that fails is ignored.                                    *)
StatementFails(c) ==
    /\ \/ \E s \in {"exists", "get", "insert", "fetch", "save", "remove"} : At(c, s)
       \/ At(c, "order") /\ pc[c] = "enqueue"
    /\ Finish(c)
    /\ Return(c)
    /\ UNCHANGED <<db, valkey, disabled, manifest, bounds,
                   client, owner, byId, byName, unread, meant, edits, lost>>

CacheCommandLost(c) ==
    /\ lost < MaxLost
    /\ lost' = lost + 1
    /\ \/ At(c, "cache") /\ GoOn(c, AfterCache(c))
       \/ At(c, "forget") /\ Proceed(c, "cache")
       \/ At(c, "drop") /\ Finish(c)
    /\ UNCHANGED <<vars, client, owner, byId, byName, unread, meant, edits>>

ClientRequest(c) ==
    \/ ResolveOrCreateClient(c)
    \/ \E i \in Clients :
        \/ VerifyClientAPIKey(c, i) \/ GetClient(c, i) \/ DeleteClient(c, i)
        \/ \E n \in Names : PatchClient(c, i, n)
    \/ \E n \in Names : CreateClient(c, n)

ClientStep(c) ==
    \/ GetCachedClientByID(c) \/ ExistsClientByName(c) \/ GetClientByName(c) \/ FetchClient(c) \/ InsertClient(c)
    \/ SaveClient(c) \/ RemoveClient(c) \/ ForgetOldName(c) \/ CacheClient(c)
    \/ DropClient(c) \/ ClearAfterPatch(c)
    \/ CreateOrderOfClient(c) \/ CountOrder(c) \/ EnqueueCounted(c)

(* The other requests of Sales; the PATCH of an order, which no client      *)
(* takes part in, is left to its runs.                                      *)
OrderStep(c) ==
    /\ CreateOrderItem(c) \/ WriteRow(c) \/ ClearStaleQueue(c)
    /\ UNCHANGED clientVars

OrderRequest(p) ==
    /\ p \in Clerks => Free(p)
    /\ ListQueue(p) \/ (p \in Clerks /\ CancelRead(p))
    /\ UNCHANGED clientVars

ServeWorker(w) ==
    \/ RebuildWithClients(w)
    \/ Dequeue(w) /\ UNCHANGED clientVars
    \/ AllocateForClient(w)

ServeClerk(c) == RebuildWithClients(c) \/ OrderStep(c) \/ ClientStep(c)

ClientsNext ==
    \/ \E p \in Procs : OrderRequest(p)
    \/ \E w \in Workers : ServeWorker(w)
    \/ \E c \in Clerks : ClientRequest(c) \/ ServeClerk(c)
    \/ \E c \in Clerks : StatementFails(c) \/ CacheCommandLost(c)
    \/ Expire

ClientsSpec ==
    /\ Init /\ ClientsInit
    /\ [][ClientsNext]_allVars
    /\ \A w \in Workers : WF_allVars(ServeWorker(w))
    /\ \A c \in Clerks : WF_allVars(ServeClerk(c))

-----------------------------------------------------------------------------
(* While no request runs ProcessQueue, every counter and the reservations  *)
(* add up to the stock that was there: what an allocation takes from the   *)
(* counters (fulfillment_service.go:144) it leaves in a reservation row or *)
(* gives back (:154), however often the queue offers it the same order.    *)
Reserved == {o \in Orders : resv[o] # None}
Allotted(s) == SumFunctionOnSet([o \in Reserved |-> Units(resv[o], s)], Reserved)
StockConserved ==
    (\A w \in Workers : pc[w] = "idle") => \A s \in SKUs : atp[s] + Allotted(s) = Stock[s]

(* An edit of a client lasts: no order created later, from a cached copy   *)
(* or from a row, writes an older name back, provided that clerks come one *)
(* after the other and no cache command was lost.                          *)
EditsKept ==
    lost = 0 => \A i \in Clients : Present(i) => client[i] = meant[i]
=============================================================================
