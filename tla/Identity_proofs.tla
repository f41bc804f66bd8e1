-------------------------- MODULE Identity_proofs --------------------------
(***************************************************************************)
(* Proofs about accounts and sessions, for any number of users, profiles,  *)
(* passwords, requests, events, calls and failures.                        *)
(***************************************************************************)
EXTENDS Identity, FiniteSetTheorems, TLAPS

-----------------------------------------------------------------------------
Pairs == Users \X (Nat \ {0})
Issued == {j \in Pairs : j[2] <= issued[j[1]]}
There == {u \in Users : account[u] # None}

Kinds == {"none", "create user", "update user", "set status", "change password", "get user",
          "login", "refresh", "logout"}
Caching == {"cache id", "cache email"}
Issuing == {"get account", "read account", "save token", "list token", "create session"} \cup Caching
Places(kind) ==
    CASE kind = "none" -> {"idle"}
      [] kind = "create user" -> {"find email", "insert user", "log"} \cup Caching
      [] kind = "update user" -> {"read account", "save user"} \cup Caching
      [] kind = "set status" -> {"read account", "set status", "read again"} \cup Caching
      [] kind = "change password" -> {"read account", "save user", "log"} \cup Caching
      [] kind = "get user" -> {"read account"} \cup Caching
      [] kind = "login" -> {"authenticate", "log"} \cup Issuing
      [] kind = "refresh" -> {"validate token", "find session", "drop session"} \cup Issuing
      [] kind = "logout" -> {"drop sessions", "find tokens", "delete tokens", "block"}
Ats == {"idle", "find email", "insert user", "log", "read account", "save user", "set status", "read again",
        "cache id", "cache email", "get account", "save token", "list token", "create session",
        "authenticate", "validate token", "find session", "drop session", "drop sessions", "find tokens",
        "delete tokens", "block"}

Changes == [profile: Profiles, by: {"itself", "another"}]
Change == [old: Passwords, new: Passwords]
Args(kind) ==
    CASE kind = "create user" -> Profiles
      [] kind = "update user" -> Changes
      [] kind = "set status" -> Statuses
      [] kind = "change password" -> Change
      [] kind = "login" -> Passwords
      [] kind \in {"refresh", "logout"} -> Pairs
      [] kind \in {"none", "get user"} -> {None}
RequestType ==
    [at: Ats, kind: Kinds, on: SUBSET Users, key: Users \cup {None},
     arg: Profiles \cup Changes \cup Statuses \cup Change \cup Passwords \cup Pairs \cup {None},
     held: AccountType \cup {None}, todo: SUBSET Pairs, wrote: BOOLEAN]

Serving(x, there, pairs) ==
    /\ x.at \in Places(x.kind)
    /\ x.arg \in Args(x.kind)
    /\ IF x.kind = "none" THEN x.on = {} ELSE x.key \in Users /\ x.on = {x.key}
    /\ x.kind \in {"refresh", "logout"} => x.arg \in pairs /\ x.arg[1] = x.key
    /\ x.at \in {"save user", "set status", "read again"} => x.key \in there
    /\ x.at \in Caching \cup {"save user", "authenticate", "save token", "list token", "create session"}
         => x.held \in AccountType
    /\ x.todo \subseteq pairs /\ \A j \in x.todo : j[1] = x.key
    /\ x.at \in {"list token", "create session", "drop session"} => \E j \in Pairs : x.todo = {j}
    /\ x.wrote => x.kind \in {"create user", "update user", "set status", "change password"}

RequestsOK == req \in [Requests -> RequestType] /\ \A r \in Requests : Serving(req[r], There, Issued)
AccountsOK ==
    /\ account \in [Users -> AccountType \cup {None}]
    /\ byId \in [Users -> AccountType \cup {None}]
    /\ byEmail \in [Users -> AccountType \cup {None}]
    /\ meant \in [Users -> AccountType \cup {None}]
    /\ \A u \in Users : meant[u] = None <=> account[u] = None
TokensOK ==
    /\ issued \in [Users -> Nat]
    /\ sessions \subseteq Issued /\ tokens \subseteq Issued /\ access \subseteq Issued /\ out \subseteq Issued
    /\ blacklist \subseteq access \cup out /\ ending \subseteq access
    /\ index \in [Users -> SUBSET Issued] /\ \A u \in Users : \A j \in index[u] : j[1] = u
    /\ ended \in [Users -> Nat] /\ \A u \in Users : ended[u] <= issued[u]
EntriesOK == log \in [Users -> [Actions -> Nat]] /\ owed \in [Users -> [Actions -> Nat]]
TrailOK ==
    /\ sent \subseteq Events
    /\ stored \in [Events -> Nat] /\ \A e \in Events : stored[e] > 0 => e \in sent
    /\ trail \in Seq(sent) /\ handling \in sent \cup {None}
    /\ inserted \in BOOLEAN /\ consuming \in BOOLEAN
Types == RequestsOK /\ AccountsOK /\ TokensOK /\ EntriesOK /\ TrailOK /\ alone \subseteq Users

(* Two requests about a user both read, or the user is not alone. *)
On(u) == {r \in Requests : u \in req[r].on}
MeetInv == \A u \in alone : \A q, r \in On(u) : q = r \/ {req[q].kind, req[r].kind} \subseteq Reads

Stale(u, ats) == \E r \in On(u) : req[r].wrote /\ req[r].at \in ats
Reader(x) ==
    /\ x.at \in Caching => x.held = account[x.key]
    /\ x.at = "save user" /\ x.kind = "update user" => x.held = [account[x.key] EXCEPT !.profile = x.arg.profile]
    /\ x.at = "save user" /\ x.kind = "change password" => x.held = [account[x.key] EXCEPT !.password = x.arg.new]
    /\ x.kind = "login" /\ x.at \in {"authenticate", "save token", "list token", "create session"}
         => x.held = account[x.key]
    /\ x.kind = "login" /\ x.at \in {"save token", "list token", "create session"}
         => x.held.status = "ACTIVE" /\ x.held.password = x.arg
CacheOf(u) ==
    /\ account[u] = meant[u]
    /\ byId[u] \in {None, account[u]} \/ Stale(u, {"read again", "cache id"})
    /\ byEmail[u] \in {None, account[u]} \/ Stale(u, {"read again", "cache id", "cache email"})
    /\ \A r \in On(u) : Reader(req[r])
CacheInv == \A u \in alone : CacheOf(u)

Listing(u) == UNION {req[r].todo : r \in {q \in On(u) : req[q].at = "list token"}}
Ender(x) ==
    /\ x.at \in {"find tokens", "delete tokens", "block"} => OfUser(x.key, sessions) = {}
    /\ x.at = "delete tokens" => OfUser(x.key, tokens) \subseteq x.todo
    /\ x.at = "block" => OfUser(x.key, tokens) = {}
    /\ x.at \in {"list token", "create session", "drop session"} => \A j \in x.todo : j[2] > ended[x.key]
TokensOf(u) ==
    /\ OfUser(u, tokens) \subseteq index[u] \cup Listing(u)
    /\ \A j \in OfUser(u, sessions \cup tokens) : j[2] > ended[u]
    /\ \A j \in OfUser(u, out) : j[2] <= ended[u]
    /\ OfUser(u, out) \cap access \subseteq blacklist \cup ending
    /\ \A r \in On(u) : Ender(req[r])
TokenInv == \A u \in alone : TokensOf(u)

Owes(x, a) ==
    CASE a = "LOGIN"  -> x.kind = "login" /\ x.at = "log"
      [] a = "CREATE" -> x.kind = "create user" /\ x.at \in Caching \cup {"log"}
      [] a = "UPDATE" -> x.kind = "change password" /\ x.at \in Caching \cup {"log"}
Owing(u, a) == {r \in On(u) : Owes(req[r], a)}
EntriesOf(u) == \A a \in Actions : owed[u][a] = log[u][a] + Cardinality(Owing(u, a))
EntriesInv == \A u \in alone : EntriesOf(u)

-----------------------------------------------------------------------------
LEMMA IdleType == Idle \in RequestType /\ \A there, pairs : Serving(Idle, there, pairs)
  BY DEF Idle, RequestType, Ats, Kinds, Serving, Places, Args, Caching

(* What one request holds is replaced; accounts and tokens only grow.      *)
LEMMA Replaced ==
  ASSUME RequestsOK, There \subseteq There', Issued \subseteq Issued',
         NEW r \in Requests, NEW y \in RequestType, Serving(y, There', Issued'),
         req' = [req EXCEPT ![r] = y]
  PROVE  RequestsOK'
<1>1. \A q \in Requests : Serving(req[q], There, Issued) => Serving(req[q], There', Issued')
  BY DEF Serving
<1> QED
  BY <1>1 DEF RequestsOK

(* A step of a request leaves it with its kind, key and argument, or ends  *)
(* it, and changes no other request.                                       *)
Same(x, y) == y.kind = x.kind /\ y.on = x.on /\ y.key = x.key /\ y.arg = x.arg
Moves(r, y) ==
    /\ req' = [req EXCEPT ![r] = y]
    /\ y \in RequestType /\ Serving(y, There', Issued')
    /\ y = Idle \/ Same(req[r], y)

LEMMA Ends ==
  ASSUME NEW r \in Requests, req' = [req EXCEPT ![r] = Idle]
  PROVE  Moves(r, Idle)
  BY IdleType DEF Moves

-----------------------------------------------------------------------------
LEMMA AccountWritten ==
  ASSUME AccountsOK, NEW u \in Users, NEW row \in AccountType, NEW new \in AccountType,
         account' = [account EXCEPT ![u] = row], meant' = [meant EXCEPT ![u] = new],
         UNCHANGED <<byId, byEmail>>
  PROVE  AccountsOK' /\ There \subseteq There'
  BY NoAccountAssumption DEF AccountsOK, There

LEMMA CopyWritten ==
  ASSUME AccountsOK, NEW u \in Users, NEW row \in AccountType \cup {None}, UNCHANGED <<account, meant>>,
         \/ byId' = [byId EXCEPT ![u] = row] /\ UNCHANGED byEmail
         \/ byEmail' = [byEmail EXCEPT ![u] = row] /\ UNCHANGED byId
  PROVE  AccountsOK' /\ There \subseteq There'
  BY DEF AccountsOK, There

LEMMA AccountsSame ==
  ASSUME AccountsOK, UNCHANGED userVars
  PROVE  AccountsOK' /\ There \subseteq There'
  BY DEF AccountsOK, There, userVars

LEMMA AccountsWork ==
  ASSUME Types, NEW r \in Requests, Works(r)
  PROVE  AccountsOK' /\ There \subseteq There'
<1>1. RequestsOK /\ AccountsOK /\ req[r] \in RequestType /\ Serving(req[r], There, Issued)
  BY DEF Types, RequestsOK
<1> PICK x, u : x = req[r] /\ u = req[r].key
  OBVIOUS
<1>2. x.at # "idle" => u \in Users
  BY <1>1 DEF Serving, Places
<1>3. ASSUME InsertUser(r) PROVE AccountsOK' /\ There \subseteq There'
  <2>1. x.kind = "create user" /\ u \in Users
    BY <1>1, <1>2, <1>3
       DEF InsertUser, At, Serving, Places, Issuing, Caching, RequestType, Kinds
  <2>2. Account(x.arg, First10) \in AccountType
    <3>1. x.arg \in Profiles
      BY <1>1, <2>1 DEF Serving, Args
    <3>2. First10 \in Passwords
      BY IdentityAssumption DEF First10
    <3> QED
      BY <3>1, <3>2 DEF Account, AccountType, Statuses
  <2>3. \/ account' = [account EXCEPT ![u] = Account(x.arg, First10)] /\ meant' = [meant EXCEPT ![u] = Account(x.arg, First10)]
        \/ UNCHANGED <<account, meant>>
    BY <1>3 DEF InsertUser
  <2>4. UNCHANGED <<byId, byEmail>>
    BY <1>3 DEF InsertUser
  <2> QED
    BY <1>1, <2>1, <2>2, <2>3, <2>4, AccountWritten, AccountsSame DEF userVars
<1>4. ASSUME SaveUser(r) PROVE AccountsOK' /\ There \subseteq There'
  <2>1. /\ x.at = "save user" /\ u \in Users /\ x.held \in AccountType /\ account[u] # None
        /\ x.kind \in {"update user", "change password"}
    BY <1>1, <1>2, <1>4
       DEF SaveUser, At, Serving, Places, Issuing, Caching, There, RequestType, Kinds
  <2>2. meant[u] \in AccountType
    BY <1>1, <2>1 DEF AccountsOK
  <2>3. CASE x.kind = "change password"
    <3>1. x.arg.new \in Passwords
      BY <1>1, <2>3 DEF Serving, Args, Change
    <3>2. [meant[u] EXCEPT !.password = x.arg.new] \in AccountType
      BY <2>2, <3>1 DEF AccountType
    <3>3. meant' = [meant EXCEPT ![u] = [meant[u] EXCEPT !.password = x.arg.new]]
      BY <1>4, <2>3 DEF SaveUser
    <3> QED
      BY <1>1, <1>4, <2>1, <3>2, <3>3, AccountWritten DEF SaveUser
  <2>4. CASE x.kind = "update user"
    <3>1. x.arg.profile \in Profiles
      BY <1>1, <2>4 DEF Serving, Args, Changes
    <3>2. [meant[u] EXCEPT !.profile = x.arg.profile] \in AccountType
      BY <2>2, <3>1 DEF AccountType
    <3>3. meant' = [meant EXCEPT ![u] = [meant[u] EXCEPT !.profile = x.arg.profile]]
      BY <1>4, <2>4 DEF SaveUser
    <3> QED
      BY <1>1, <1>4, <2>1, <3>2, <3>3, AccountWritten DEF SaveUser
  <2> QED
    BY <2>1, <2>3, <2>4
<1>5. ASSUME WriteStatus(r) PROVE AccountsOK' /\ There \subseteq There'
  <2>1. x.at = "set status" /\ u \in Users /\ account[u] # None /\ x.kind = "set status"
    BY <1>1, <1>2, <1>5
       DEF WriteStatus, At, Serving, Places, Issuing, Caching, There, RequestType, Kinds
  <2>2. account[u] \in AccountType /\ meant[u] \in AccountType /\ x.arg \in Statuses
    BY <1>1, <2>1 DEF AccountsOK, Serving, Args
  <2>3. [account[u] EXCEPT !.status = x.arg] \in AccountType /\ [meant[u] EXCEPT !.status = x.arg] \in AccountType
    BY <2>2 DEF AccountType
  <2>4. /\ account' = [account EXCEPT ![u] = [account[u] EXCEPT !.status = x.arg]]
        /\ meant' = [meant EXCEPT ![u] = [meant[u] EXCEPT !.status = x.arg]]
    BY <1>5 DEF WriteStatus
  <2>5. UNCHANGED <<byId, byEmail>>
    BY <1>5 DEF WriteStatus
  <2> QED
    BY <1>1, <2>1, <2>3, <2>4, <2>5, AccountWritten
<1>6. ASSUME CacheId(r) \/ CacheEmail(r) PROVE AccountsOK' /\ There \subseteq There'
  <2>1. x.at \in Caching /\ u \in Users /\ x.held \in AccountType
    BY <1>1, <1>2, <1>6 DEF CacheId, CacheEmail, At, Serving, Caching
  <2>2. UNCHANGED <<account, meant>>
    BY <1>6 DEF CacheId, CacheEmail
  <2>3. \/ byId' = [byId EXCEPT ![u] = x.held] /\ UNCHANGED byEmail
        \/ byEmail' = [byEmail EXCEPT ![u] = x.held] /\ UNCHANGED byId
        \/ UNCHANGED <<byId, byEmail>>
    BY <1>6 DEF CacheId, CacheEmail
  <2> QED
    BY <1>1, <2>1, <2>2, <2>3, CopyWritten, AccountsSame DEF userVars
<1>7. ASSUME ~(InsertUser(r) \/ SaveUser(r) \/ WriteStatus(r) \/ CacheId(r) \/ CacheEmail(r))
      PROVE  AccountsOK' /\ There \subseteq There'
  <2>1. UNCHANGED userVars
    BY <1>7
       DEF Works, FindEmail, GetByID, ReadAgain, Log, GetAccount, Authenticate,
           SaveRefreshToken, ListRefreshToken,
                CreateSession, ValidateRefreshToken, GetByJTI, DeleteByJTI, DeleteByUserID, FindTokens, DeleteUserTokens,
                BlacklistAccessToken, Fails
  <2> QED
    BY <1>1, <2>1, AccountsSame
<1> QED
  BY <1>3, <1>4, <1>5, <1>6, <1>7

LEMMA EntriesWork ==
  ASSUME Types, NEW r \in Requests, Works(r)
  PROVE  EntriesOK'
<1>1. EntriesOK /\ req[r] \in RequestType /\ Serving(req[r], There, Issued)
  BY DEF Types, RequestsOK
<1>2. req[r].at # "idle" => req[r].key \in Users
  BY <1>1 DEF Serving, Places
<1>3. ASSUME NEW u \in Users, NEW a \in Actions, Owe(u, a), UNCHANGED log PROVE EntriesOK'
  <2>1. owed[u] \in [Actions -> Nat] /\ owed[u][a] + 1 \in Nat
    BY <1>1 DEF EntriesOK
  <2>2. [owed[u] EXCEPT ![a] = owed[u][a] + 1] \in [Actions -> Nat]
    BY <2>1
  <2>3. owed' = [owed EXCEPT ![u] = [owed[u] EXCEPT ![a] = owed[u][a] + 1]]
    BY <1>3 DEF Owe
  <2> QED
    BY <1>1, <1>3, <2>2, <2>3 DEF EntriesOK
<1>4. ASSUME NEW u \in Users, NEW a \in Actions, Ingest(r, u, a), UNCHANGED owed PROVE EntriesOK'
  <2>1. log[u] \in [Actions -> Nat] /\ log[u][a] + 1 \in Nat
    BY <1>1 DEF EntriesOK
  <2>2. [log[u] EXCEPT ![a] = log[u][a] + 1] \in [Actions -> Nat]
    BY <2>1
  <2>3. log' = [log EXCEPT ![u] = [log[u] EXCEPT ![a] = log[u][a] + 1]] \/ UNCHANGED log
    BY <1>4 DEF Ingest
  <2> QED
    BY <1>1, <1>4, <2>2, <2>3 DEF EntriesOK
<1>5. ASSUME UNCHANGED <<log, owed>> PROVE EntriesOK'
  BY <1>1, <1>5 DEF EntriesOK
<1>6. CASE InsertUser(r) \/ SaveUser(r) \/ CreateSession(r)
  <2>1. req[r].key \in Users /\ UNCHANGED log
    BY <1>1, <1>2, <1>6 DEF InsertUser, SaveUser, CreateSession, At, auditVars
  <2>2. \/ \E a \in Actions : Owe(req[r].key, a)
        \/ UNCHANGED owed
    BY <1>6 DEF InsertUser, SaveUser, CreateSession, Actions
  <2> QED
    BY <1>3, <1>5, <2>1, <2>2
<1>7. CASE Log(r)
  <2>1. req[r].key \in Users /\ UNCHANGED owed
    BY <1>1, <1>2, <1>7 DEF Log, At
  <2>2. \E a \in Actions : Ingest(r, req[r].key, a)
    BY <1>7 DEF Log, Actions
  <2> QED
    BY <1>4, <2>1, <2>2
<1>8. CASE ~(InsertUser(r) \/ SaveUser(r) \/ CreateSession(r) \/ Log(r))
  <2>1. UNCHANGED <<log, owed>>
    BY <1>8
       DEF Works, FindEmail, GetByID, WriteStatus, ReadAgain, CacheId, CacheEmail, GetAccount,
           Authenticate,
                SaveRefreshToken, ListRefreshToken, ValidateRefreshToken, GetByJTI, DeleteByJTI, DeleteByUserID, FindTokens,
                DeleteUserTokens, BlacklistAccessToken, Fails, auditVars
  <2> QED
    BY <1>5, <2>1
<1> QED
  BY <1>6, <1>7, <1>8

LEMMA IssuedIs == \A u, n : <<u, n>> \in Issued <=> u \in Users /\ n \in Nat \ {0} /\ n <= issued[u]
  BY DEF Issued, Pairs

LEMMA SaveRefreshTokenIssues ==
  ASSUME Types, NEW r \in Requests, SaveRefreshToken(r)
  PROVE  LET j == <<req[r].key, issued[req[r].key] + 1>> IN
         /\ req[r].key \in Users /\ j \in Pairs /\ j \notin Issued /\ Issued' = Issued \cup {j}
         /\ issued' \in [Users -> Nat] /\ \A u \in Users : issued[u] <= issued'[u]
<1> PICK u : u = req[r].key
  OBVIOUS
<1>1. u \in Users /\ issued \in [Users -> Nat] /\ issued' = [issued EXCEPT ![u] = issued[u] + 1]
  BY DEF Types, RequestsOK, TokensOK, Serving, Places, SaveRefreshToken, At
<1>2. issued' \in [Users -> Nat] /\ \A v \in Users : issued[v] <= issued'[v]
  BY <1>1
<1> PICK j : j = <<u, issued[u] + 1>>
  OBVIOUS
<1>3. j \in Pairs /\ j \notin Issued
  BY <1>1 DEF Issued, Pairs
<1>4. \A i \in Pairs : i[2] <= issued'[i[1]] <=> i[2] <= issued[i[1]] \/ i = j
  <2> SUFFICES ASSUME NEW i \in Pairs PROVE i[2] <= issued'[i[1]] <=> i[2] <= issued[i[1]] \/ i = j
    OBVIOUS
  <2>1. i[1] \in Users /\ i[2] \in Nat \ {0} /\ i = <<i[1], i[2]>>
    BY DEF Pairs
  <2>2. CASE i[1] = u
    BY <1>1, <2>1, <2>2
  <2>3. CASE i[1] # u
    BY <1>1, <2>1, <2>3
  <2> QED
    BY <2>2, <2>3
<1>5. Issued' = Issued \cup {j}
  BY <1>3, <1>4 DEF Issued, Pairs
<1> QED
  BY <1>1, <1>2, <1>3, <1>5

LEMMA TokensWork ==
  ASSUME Types, NEW r \in Requests, Works(r)
  PROVE  TokensOK' /\ Issued \subseteq Issued'
<1>1. TokensOK /\ req[r] \in RequestType /\ Serving(req[r], There, Issued)
  BY DEF Types, RequestsOK
<1> PICK x, u : x = req[r] /\ u = req[r].key
  OBVIOUS
<1>2. (x.at # "idle" => u \in Users) /\ x.todo \subseteq Issued /\ \A j \in x.todo : j[1] = u
  BY <1>1 DEF Serving, Places
<1>3. ASSUME UNCHANGED issued PROVE Issued' = Issued
  BY <1>3 DEF Issued
<1>4. CASE SaveRefreshToken(r)
  <2> PICK j : j = <<u, issued[u] + 1>>
    OBVIOUS
  <2>1. /\ Issued' = Issued \cup {j} /\ issued' \in [Users -> Nat] /\ \A v \in Users : issued[v] <= issued'[v]
    BY <1>4, SaveRefreshTokenIssues
  <2>2. tokens' \subseteq tokens \cup {j} /\ UNCHANGED <<sessions, index, access, ending, blacklist, ended, out>>
    BY <1>4 DEF SaveRefreshToken
  <2>3. \A v \in Users : ended[v] <= issued'[v]
    BY <1>1, <2>1 DEF TokensOK
  <2> QED
    BY <1>1, <2>1, <2>2, <2>3 DEF TokensOK
<1>5. CASE ListRefreshToken(r)
  <2>1. u \in Users /\ UNCHANGED <<issued, sessions, tokens, access, ending, blacklist, ended, out>>
    BY <1>2, <1>5 DEF ListRefreshToken, At
  <2>2. index' = [index EXCEPT ![u] = index[u] \cup x.todo] \/ UNCHANGED index
    BY <1>5 DEF ListRefreshToken, Listed
  <2>3. index' \in [Users -> SUBSET Issued] /\ \A v \in Users : \A j \in index'[v] : j[1] = v
    BY <1>1, <1>2, <2>1, <2>2 DEF TokensOK
  <2> QED
    BY <1>1, <1>3, <2>1, <2>3 DEF TokensOK
<1>6. CASE CreateSession(r) \/ DeleteByJTI(r) \/ DeleteByUserID(r)
  <2>1. sessions' \subseteq sessions \cup x.todo /\ access' \subseteq access \cup x.todo /\ access \subseteq access'
    BY <1>6 DEF CreateSession, DeleteByJTI, DeleteByUserID
  <2>2. UNCHANGED <<issued, tokens, index, ending, blacklist, ended, out>>
    BY <1>6 DEF CreateSession, DeleteByJTI, DeleteByUserID
  <2> QED
    BY <1>1, <1>2, <1>3, <2>1, <2>2 DEF TokensOK
<1>7. CASE DeleteUserTokens(r)
  <2>1. tokens' \subseteq tokens /\ UNCHANGED <<issued, sessions, access, ending, blacklist, ended, out>>
    BY <1>7 DEF DeleteUserTokens
  <2>2. index' = [index EXCEPT ![u] = {}] \/ UNCHANGED index
    BY <1>7 DEF DeleteUserTokens
  <2>3. index' \in [Users -> SUBSET Issued] /\ \A v \in Users : \A j \in index'[v] : j[1] = v
    BY <1>1, <2>2 DEF TokensOK
  <2> QED
    BY <1>1, <1>3, <2>1, <2>3 DEF TokensOK
<1>8. CASE BlacklistAccessToken(r)
  <2>1. u \in Users /\ x.arg \in Issued /\ UNCHANGED <<issued, sessions, tokens, index, access, ending>>
    BY <1>1, <1>2, <1>8
       DEF BlacklistAccessToken, At, Serving, Places, Issuing, Caching, RequestType, Kinds
  <2>2. ended' = [ended EXCEPT ![u] = issued[u]] /\ out' = out \cup {x.arg}
    BY <1>8 DEF BlacklistAccessToken
  <2>3. blacklist' \subseteq blacklist \cup {x.arg}
    BY <1>8 DEF BlacklistAccessToken
  <2>4. ended' \in [Users -> Nat] /\ \A v \in Users : ended'[v] <= issued[v]
    BY <1>1, <2>1, <2>2 DEF TokensOK
  <2> QED
    BY <1>1, <1>3, <2>1, <2>2, <2>3, <2>4 DEF TokensOK
<1>9. CASE ~ \/ SaveRefreshToken(r) \/ ListRefreshToken(r) \/ CreateSession(r) \/ DeleteByJTI(r)
             \/ DeleteByUserID(r) \/ DeleteUserTokens(r) \/ BlacklistAccessToken(r)
  <2>1. UNCHANGED sessionVars
    BY <1>9
       DEF Works, FindEmail, InsertUser, GetByID, SaveUser, WriteStatus, ReadAgain, CacheId,
           CacheEmail, Log, GetAccount,
                Authenticate, ValidateRefreshToken, GetByJTI, FindTokens, Fails
  <2> QED
    BY <1>1, <1>3, <2>1 DEF TokensOK, sessionVars
<1> QED
  BY <1>4, <1>5, <1>6, <1>7, <1>8, <1>9

(* Where a request may go on, and what it then has to hold.                *)
Fits(x, y) ==
    /\ y \in RequestType /\ Same(x, y) /\ y.at \in Places(x.kind)
    /\ y.at \in {"save user", "set status", "read again"} => x.key \in There
    /\ y.at \in Caching \cup {"save user", "authenticate", "save token", "list token", "create session"}
         => y.held \in AccountType
    /\ y.todo \subseteq Issued' /\ \A j \in y.todo : j[1] = x.key
    /\ y.at \in {"list token", "create session", "drop session"} => \E j \in Pairs : y.todo = {j}
    /\ y.wrote => x.kind \in {"create user", "update user", "set status", "change password"}

LEMMA FitsMoves ==
  ASSUME RequestsOK, There \subseteq There', Issued \subseteq Issued', NEW r \in Requests, NEW y,
         Fits(req[r], y), req' = [req EXCEPT ![r] = y]
  PROVE  Moves(r, req'[r])
<1>1. Serving(req[r], There, Issued) /\ req'[r] = y
  BY DEF RequestsOK
<1> QED
  BY <1>1 DEF Moves, Serving, Fits, Same

LEMMA StaysFit ==
  ASSUME Types, Issued \subseteq Issued', NEW r \in Requests, NEW at \in Places(req[r].kind), at \in Ats,
         at \notin {"save user", "set status", "read again"},
         at \in Caching \cup {"authenticate", "save token", "list token", "create session"} => req[r].held \in AccountType,
         at \in {"list token", "create session", "drop session"} => \E j \in Pairs : req[r].todo = {j}
  PROVE  Fits(req[r], [req[r] EXCEPT !.at = at])
<1> PICK x : x = req[r]
  OBVIOUS
<1>1. x \in RequestType /\ Serving(x, There, Issued)
  BY DEF Types, RequestsOK
<1> DEFINE y == [x EXCEPT !.at = at]
<1>2. y \in RequestType /\ Same(x, y) /\ y.at = at /\ y.held = x.held /\ y.todo = x.todo /\ y.wrote = x.wrote
  BY <1>1 DEF RequestType, Same
<1> HIDE DEF y
<1>3. Fits(x, y)
  BY <1>1, <1>2 DEF Fits, Serving
<1> QED
  BY <1>3 DEF y

LEMMA AfterCacheFits ==
  ASSUME Types, Issued \subseteq Issued', NEW r \in Requests, req[r].at \in Caching
  PROVE  AfterCache(r) = Idle \/ Fits(req[r], AfterCache(r))
<1>1. req[r] \in RequestType /\ Serving(req[r], There, Issued)
  BY DEF Types, RequestsOK
<1>2. req[r].held \in AccountType
  BY <1>1 DEF Serving
<1>3. CASE req[r].kind \in {"create user", "change password"}
  BY <1>2, <1>3, StaysFit DEF AfterCache, Places, Ats, Caching
<1>4. CASE req[r].kind = "login"
  BY <1>2, <1>4, StaysFit DEF AfterCache, Places, Ats, Caching, Issuing
<1>5. CASE req[r].kind = "refresh"
  BY <1>2, <1>5, StaysFit DEF AfterCache, Places, Ats, Caching, Issuing
<1>6. CASE req[r].kind \notin {"create user", "change password", "login", "refresh"}
  BY <1>6 DEF AfterCache
<1> QED
  BY <1>3, <1>4, <1>5, <1>6

LEMMA AfterReadFits ==
  ASSUME Types, Issued \subseteq Issued', NEW r \in Requests, req[r].at = "read account", account[req[r].key] # None
  PROVE  Fits(req[r], AfterRead(r, account[req[r].key]))
<1> PICK x, row : x = req[r] /\ row = account[x.key]
  OBVIOUS
<1>1. x \in RequestType /\ Serving(x, There, Issued)
  BY DEF Types, RequestsOK
<1>2. x.key \in Users /\ x.key \in There /\ row \in AccountType
  BY <1>1 DEF Types, AccountsOK, Serving, Places, There
<1>3. x.kind \in {"update user", "set status", "change password", "get user", "login", "refresh"}
  BY <1>1 DEF Serving, Places, Issuing, Caching, RequestType, Kinds
<1>4. ASSUME NEW at \in Places(x.kind) \cap {"save user", "set status", "cache id"},
             NEW held \in AccountType \cup {None}, at # "set status" => held \in AccountType
      PROVE  Fits(x, [x EXCEPT !.at = at, !.held = held])
  <2> DEFINE y == [x EXCEPT !.at = at, !.held = held]
  <2>1. y \in RequestType /\ Same(x, y) /\ y.at = at /\ y.held = held /\ y.todo = x.todo /\ y.wrote = x.wrote
    BY <1>1 DEF RequestType, Same, Ats
  <2> HIDE DEF y
  <2>2. Fits(x, y)
    BY <1>1, <1>2, <1>4, <2>1 DEF Fits, Serving, Caching
  <2> QED
    BY <2>2 DEF y
<1>5. CASE x.kind = "update user"
  <2>1. x.arg.profile \in Profiles
    BY <1>1, <1>5 DEF Serving, Args, Changes
  <2>2. [row EXCEPT !.profile = x.arg.profile] \in AccountType
    BY <1>2, <2>1 DEF AccountType
  <2> QED
    BY <1>4, <1>5, <2>2 DEF AfterRead, Places
<1>6. CASE x.kind = "change password"
  <2>1. x.arg.new \in Passwords
    BY <1>1, <1>6 DEF Serving, Args, Change
  <2>2. [row EXCEPT !.password = x.arg.new] \in AccountType
    BY <1>2, <2>1 DEF AccountType
  <2> QED
    BY <1>4, <1>6, <2>2 DEF AfterRead, Places
<1>7. CASE x.kind = "set status"
  BY <1>4, <1>7 DEF AfterRead, Places
<1>8. CASE x.kind \in {"get user", "login", "refresh"}
  BY <1>2, <1>4, <1>8 DEF AfterRead, Places, Issuing, Caching
<1> QED
  BY <1>3, <1>5, <1>6, <1>7, <1>8

(* A step of a request moves it on in its kind, or ends it.                *)
LEMMA RequestsMove ==
  ASSUME Types, NEW r \in Requests, Works(r)
  PROVE  Moves(r, req'[r])
<1>1. /\ req \in [Requests -> RequestType] /\ req[r] \in RequestType /\ Serving(req[r], There, Issued)
      /\ AccountsOK /\ TokensOK /\ RequestsOK
  BY DEF Types, RequestsOK
<1>2. There \subseteq There' /\ Issued \subseteq Issued'
  BY AccountsWork, TokensWork
<1> PICK x : x = req[r]
  OBVIOUS
<1>3. ASSUME req' = [req EXCEPT ![r] = Idle] PROVE Moves(r, req'[r])
  BY <1>1, <1>3, Ends
<1>4. ASSUME NEW y, req' = [req EXCEPT ![r] = y], Fits(x, y) PROVE Moves(r, req'[r])
  BY <1>1, <1>2, <1>4, FitsMoves
<1>5. ASSUME Refuse(r) PROVE Moves(r, req'[r])
  BY <1>3, <1>5 DEF Refuse
<1>6. ASSUME NEW at \in Places(x.kind), at \in Ats,
             at \notin {"save user", "set status", "read again"},
             at \in Caching \cup {"authenticate", "save token", "list token", "create session"} => x.held \in AccountType,
             at \in {"list token", "create session", "drop session"} => \E j \in Pairs : x.todo = {j},
             req' = [req EXCEPT ![r] = [x EXCEPT !.at = at]]
      PROVE  Moves(r, req'[r])
  BY <1>2, <1>4, <1>6, StaysFit
<1>7. ASSUME NEW at, x.at = at, at # "idle"
      PROVE  x.key \in Users /\ x.todo \in SUBSET Issued /\ (\A j \in x.todo : j[1] = x.key) /\ (at = "find email" => x.kind = "create user")
  BY <1>1, <1>7 DEF Serving, Places, Issuing, Caching, RequestType, Kinds
<1>8. CASE FindEmail(r)
  <2>1. "insert user" \in Places(x.kind)
    BY <1>1, <1>8 DEF FindEmail, At, Serving, Places, Issuing, Caching, RequestType, Kinds
  <2>2. Refuse(r) \/ req' = [req EXCEPT ![r] = [x EXCEPT !.at = "insert user"]]
    BY <1>8 DEF FindEmail, Missed, Continue
  <2> QED
    BY <1>5, <1>6, <2>1, <2>2 DEF Ats, Caching
<1>9. CASE InsertUser(r)
  <2> PICK row : row = Account(x.arg, First10)
    OBVIOUS
  <2>1. x.kind = "create user" /\ x.key \in Users
    BY <1>1, <1>9 DEF InsertUser, At, Serving, Places, Issuing, Caching, RequestType, Kinds
  <2>2. row \in AccountType
    <3>1. x.arg \in Profiles /\ First10 \in Passwords
      BY <1>1, <2>1, IdentityAssumption DEF Serving, Args, First10
    <3> QED
      BY <3>1 DEF Account, AccountType, Statuses
  <2> DEFINE y == [x EXCEPT !.at = "cache id", !.held = row, !.wrote = TRUE]
  <2>3. Refuse(r) \/ req' = [req EXCEPT ![r] = y]
    BY <1>9 DEF InsertUser, Continue
  <2>4. y \in RequestType /\ Same(x, y) /\ y.at = "cache id" /\ y.held = row /\ y.todo = x.todo
    BY <1>1, <2>2 DEF RequestType, Same, Ats
  <2> HIDE DEF y
  <2>5. Fits(x, y)
    BY <1>1, <1>2, <2>1, <2>2, <2>4 DEF Fits, Serving, Places, Caching
  <2> QED
    BY <1>4, <1>5, <2>3, <2>5
<1>10. CASE GetByID(r)
  <2>1. Refuse(r) \/ (account[x.key] # None /\ req' = [req EXCEPT ![r] = AfterRead(r, account[x.key])])
    BY <1>10 DEF GetByID, Continue
  <2> QED
    BY <1>2, <1>4, <1>5, <1>10, <2>1, AfterReadFits DEF GetByID, At
<1>11. CASE SaveUser(r)
  <2> DEFINE y == [x EXCEPT !.at = "cache id", !.wrote = TRUE]
  <2>1. x.kind \in {"update user", "change password"} /\ x.key \in Users /\ x.held \in AccountType
    BY <1>1, <1>11 DEF SaveUser, At, Serving, Places, Issuing, Caching, RequestType, Kinds
  <2>2. req' = [req EXCEPT ![r] = y]
    BY <1>11 DEF SaveUser, Wrote, Continue
  <2>3. y \in RequestType /\ Same(x, y) /\ y.at = "cache id" /\ y.held = x.held /\ y.todo = x.todo
    BY <1>1 DEF RequestType, Same, Ats
  <2> HIDE DEF y
  <2>4. Fits(x, y)
    BY <1>1, <1>2, <2>1, <2>3 DEF Fits, Serving, Places, Caching
  <2> QED
    BY <1>4, <2>2, <2>4
<1>12. CASE WriteStatus(r)
  <2> DEFINE y == [x EXCEPT !.at = "read again", !.wrote = TRUE]
  <2>1. x.kind = "set status" /\ x.key \in There
    BY <1>1, <1>12 DEF WriteStatus, At, Serving, Places, Issuing, Caching, RequestType, Kinds
  <2>2. req' = [req EXCEPT ![r] = y]
    BY <1>12 DEF WriteStatus, Wrote, Continue
  <2>3. y \in RequestType /\ Same(x, y) /\ y.at = "read again" /\ y.todo = x.todo
    BY <1>1 DEF RequestType, Same, Ats
  <2> HIDE DEF y
  <2>4. Fits(x, y)
    BY <1>1, <1>2, <2>1, <2>3 DEF Fits, Serving, Places, Caching
  <2> QED
    BY <1>4, <2>2, <2>4
<1>13. CASE ReadAgain(r)
  <2> DEFINE y == [x EXCEPT !.at = "cache id", !.held = account[x.key]]
  <2>1. x.kind = "set status" /\ x.key \in There /\ account[x.key] \in AccountType
    BY <1>1, <1>13
       DEF ReadAgain, At, There, AccountsOK, Serving, Places, Issuing, Caching, RequestType,
           Kinds
  <2>2. req' = [req EXCEPT ![r] = y] \/ req' = [req EXCEPT ![r] = Idle]
    BY <1>13 DEF ReadAgain, CachedByStatus, Continue, Ignored
  <2>3. y \in RequestType /\ Same(x, y) /\ y.at = "cache id" /\ y.held = account[x.key] /\ y.todo = x.todo /\ y.wrote = x.wrote
    BY <1>1, <2>1 DEF RequestType, Same, Ats
  <2> HIDE DEF y
  <2>4. Fits(x, y)
    BY <1>1, <1>2, <2>1, <2>3 DEF Fits, Serving, Places, Caching
  <2> QED
    BY <1>3, <1>4, <2>2, <2>4
<1>14. CASE CacheId(r)
  <2>1. \/ req' = [req EXCEPT ![r] = [x EXCEPT !.at = "cache email"]]
        \/ req' = [req EXCEPT ![r] = AfterCache(r)]
    BY <1>14 DEF CacheId, Goto, Continue, Ignored
  <2>2. x.at = "cache id" /\ x.held \in AccountType /\ "cache email" \in Places(x.kind)
    BY <1>1, <1>14 DEF CacheId, At, Serving, Places, Issuing, Caching, RequestType, Kinds
  <2>3. AfterCache(r) = Idle \/ Fits(x, AfterCache(r))
    BY <1>2, <2>2, AfterCacheFits DEF Caching
  <2> QED
    BY <1>3, <1>4, <1>6, <2>1, <2>2, <2>3 DEF Ats
<1>15. CASE CacheEmail(r)
  <2>1. req' = [req EXCEPT ![r] = AfterCache(r)] /\ x.at \in Caching
    BY <1>15 DEF CacheEmail, Continue, Ignored, At, Caching
  <2>2. AfterCache(r) = Idle \/ Fits(x, AfterCache(r))
    BY <1>2, <2>1, AfterCacheFits
  <2> QED
    BY <1>3, <1>4, <2>1, <2>2
<1>16. CASE GetAccount(r)
  <2> DEFINE copy == IF x.kind = "login" THEN byEmail[x.key] ELSE byId[x.key]
             at == IF x.kind = "login" THEN "authenticate" ELSE "save token"
             y == [x EXCEPT !.at = at, !.held = copy]
  <2>1. x.kind \in {"login", "refresh"} /\ x.key \in Users
    BY <1>1, <1>16 DEF GetAccount, At, Serving, Places, Issuing, Caching, RequestType, Kinds
  <2>2. \/ req' = [req EXCEPT ![r] = [x EXCEPT !.at = "read account"]]
        \/ copy # None /\ req' = [req EXCEPT ![r] = y]
    BY <1>16 DEF GetAccount, Continue, Missed
  <2>3. copy \in AccountType \cup {None}
    BY <1>1, <2>1 DEF AccountsOK
  <2>4. at \in Places(x.kind) /\ at \in Ats /\ at \in {"authenticate", "save token"}
    BY <2>1 DEF Places, Issuing, Ats
  <2>5. y \in RequestType /\ Same(x, y) /\ y.at = at /\ y.held = copy /\ y.todo = x.todo /\ y.wrote = x.wrote
    <3> HIDE DEF copy, at
    <3> QED
      BY <1>1, <2>3, <2>4 DEF RequestType, Same
  <2> HIDE DEF copy, at, y
  <2>6. copy # None => Fits(x, y)
    BY <1>1, <1>2, <2>3, <2>4, <2>5 DEF Fits, Serving, Caching
  <2>7. "read account" \in Places(x.kind)
    BY <2>1 DEF Places, Issuing
  <2> QED
    BY <1>4, <1>6, <2>2, <2>6, <2>7 DEF Ats, Caching
<1>17. CASE Authenticate(r)
  <2>1. x.held \in AccountType /\ "save token" \in Places(x.kind)
    BY <1>1, <1>17 DEF Authenticate, At, Serving, Places, Issuing, Caching, RequestType, Kinds
  <2>2. Refuse(r) \/ req' = [req EXCEPT ![r] = [x EXCEPT !.at = "save token"]]
    BY <1>17 DEF Authenticate, Goto, Continue
  <2> QED
    BY <1>5, <1>6, <2>1, <2>2 DEF Ats, Caching
<1>18. CASE SaveRefreshToken(r)
  <2> PICK j : j = <<x.key, issued[x.key] + 1>>
    OBVIOUS
  <2> DEFINE y(at) == [x EXCEPT !.at = at, !.todo = {j}]
  <2>1. j \in Pairs /\ j \in Issued'
    BY <1>18, SaveRefreshTokenIssues
  <2>2. x.held \in AccountType /\ {"list token", "create session"} \subseteq Places(x.kind)
    BY <1>1, <1>18
       DEF SaveRefreshToken, At, Serving, Places, Issuing, Caching, RequestType, Kinds
  <2>3. req' = [req EXCEPT ![r] = y("list token")] \/ req' = [req EXCEPT ![r] = y("create session")]
    BY <1>18 DEF SaveRefreshToken, Continue, Ignored
  <2>4. ASSUME NEW at \in {"list token", "create session"}
        PROVE  y(at) \in RequestType /\ Same(x, y(at)) /\ y(at).at = at /\ y(at).held = x.held /\ y(at).todo = {j} /\ y(at).wrote = x.wrote
    BY <1>1, <2>1 DEF RequestType, Same, Ats
  <2> HIDE DEF y
  <2>5. ASSUME NEW at \in {"list token", "create session"} PROVE Fits(x, y(at))
    <3>1. j[1] = x.key
      OBVIOUS
    <3> QED
      BY <1>1, <2>1, <2>2, <2>4, <3>1 DEF Fits, Serving
  <2> QED
    BY <1>4, <2>3, <2>5
<1>19. CASE ListRefreshToken(r)
  <2>1. x.held \in AccountType /\ "create session" \in Places(x.kind) /\ \E j \in Pairs : x.todo = {j}
    BY <1>1, <1>19
       DEF ListRefreshToken, At, Serving, Places, Issuing, Caching, RequestType, Kinds
  <2>2. req' = [req EXCEPT ![r] = [x EXCEPT !.at = "create session"]]
    BY <1>19 DEF ListRefreshToken, Continue, Ignored
  <2> QED
    BY <1>6, <2>1, <2>2 DEF Ats, Caching
<1>20. CASE CreateSession(r)
  <2>1. (IF x.kind = "login" THEN "log" ELSE "drop session") \in Places(x.kind) /\ \E j \in Pairs : x.todo = {j}
    BY <1>1, <1>20 DEF CreateSession, At, Serving, Places, Issuing, Caching, RequestType, Kinds
  <2>2. \/ x.kind = "login" /\ req' = [req EXCEPT ![r] = [x EXCEPT !.at = "log"]]
        \/ x.kind # "login" /\ req' = [req EXCEPT ![r] = [x EXCEPT !.at = "drop session"]]
    BY <1>20 DEF CreateSession, Goto, Continue
  <2> QED
    BY <1>6, <2>1, <2>2 DEF Ats, Caching
<1>21. CASE ValidateRefreshToken(r)
  <2>1. {"get account", "find session"} \subseteq Places(x.kind)
    BY <1>1, <1>21
       DEF ValidateRefreshToken, At, Serving, Places, Issuing, Caching, RequestType, Kinds
  <2>2. \/ req' = [req EXCEPT ![r] = [x EXCEPT !.at = "get account"]]
        \/ req' = [req EXCEPT ![r] = [x EXCEPT !.at = "find session"]]
    BY <1>21 DEF ValidateRefreshToken, Goto, Continue, Missed
  <2> QED
    BY <1>6, <2>1, <2>2 DEF Ats, Caching
<1>22. CASE GetByJTI(r)
  <2>1. "get account" \in Places(x.kind)
    BY <1>1, <1>22 DEF GetByJTI, At, Serving, Places, Issuing, Caching, RequestType, Kinds
  <2>2. Refuse(r) \/ req' = [req EXCEPT ![r] = [x EXCEPT !.at = "get account"]]
    BY <1>22 DEF GetByJTI, Goto, Continue
  <2> QED
    BY <1>5, <1>6, <2>1, <2>2 DEF Ats, Caching
<1>23. CASE DeleteByUserID(r)
  <2>1. "find tokens" \in Places(x.kind)
    BY <1>1, <1>23 DEF DeleteByUserID, At, Serving, Places, Issuing, Caching, RequestType, Kinds
  <2>2. req' = [req EXCEPT ![r] = [x EXCEPT !.at = "find tokens"]]
    BY <1>23 DEF DeleteByUserID, Goto, Continue
  <2> QED
    BY <1>6, <2>1, <2>2 DEF Ats, Caching
<1>24. CASE FindTokens(r)
  <2> DEFINE y == [x EXCEPT !.at = "delete tokens", !.todo = index[x.key]]
  <2>1. {"delete tokens", "block"} \subseteq Places(x.kind) /\ x.key \in Users
    BY <1>1, <1>24 DEF FindTokens, At, Serving, Places, Issuing, Caching, RequestType, Kinds
  <2>2. req' = [req EXCEPT ![r] = y] \/ req' = [req EXCEPT ![r] = [x EXCEPT !.at = "block"]]
    BY <1>24 DEF FindTokens, Continue, Ignored
  <2>3. index[x.key] \subseteq Issued /\ index[x.key] \subseteq Pairs /\ \A j \in index[x.key] : j[1] = x.key
    BY <1>1, <2>1 DEF TokensOK, Issued
  <2>4. y \in RequestType /\ Same(x, y) /\ y.at = "delete tokens" /\ y.todo = index[x.key] /\ y.wrote = x.wrote
    BY <1>1, <2>3 DEF RequestType, Same, Ats
  <2> HIDE DEF y
  <2>5. Fits(x, y)
    BY <1>1, <1>2, <2>1, <2>3, <2>4 DEF Fits, Serving, Caching
  <2> QED
    BY <1>4, <1>6, <2>1, <2>2, <2>5 DEF Ats, Caching
<1>25. CASE DeleteUserTokens(r)
  <2> DEFINE y(at, todo) == [x EXCEPT !.at = at, !.todo = todo]
  <2>1. {"delete tokens", "block"} \subseteq Places(x.kind) /\ x.todo \subseteq Issued /\ \A j \in x.todo : j[1] = x.key
    BY <1>1, <1>25
       DEF DeleteUserTokens, At, Serving, Places, Issuing, Caching, RequestType, Kinds
  <2>2. \E at \in {"delete tokens", "block"}, todo \in SUBSET x.todo : req' = [req EXCEPT ![r] = y(at, todo)]
    <3>1. CASE req' = [req EXCEPT ![r] = [x EXCEPT !.at = "block", !.todo = {}]]
      BY <3>1
    <3>2. CASE \E j \in x.todo : req' = [req EXCEPT ![r] = [x EXCEPT !.todo = x.todo \ {j}]]
      <4>1. PICK j \in x.todo : req' = [req EXCEPT ![r] = [x EXCEPT !.todo = x.todo \ {j}]]
        BY <3>2
      <4>2. [x EXCEPT !.todo = x.todo \ {j}] = y("delete tokens", x.todo \ {j})
        BY <1>1, <1>25 DEF DeleteUserTokens, At, RequestType
      <4> HIDE DEF y
      <4> QED
        BY <4>1, <4>2
    <3> QED
      BY <1>25, <3>1, <3>2 DEF DeleteUserTokens, Continue, Ignored
  <2>3. ASSUME NEW at \in {"delete tokens", "block"}, NEW todo \in SUBSET x.todo, NEW z, z = y(at, todo)
        PROVE  Fits(x, z)
    <3>1. z \in RequestType /\ Same(x, z) /\ z.at = at /\ z.todo = todo /\ z.wrote = x.wrote
      BY <1>1, <2>3 DEF RequestType, Same, Ats
    <3>2. z.todo \subseteq Issued' /\ \A j \in z.todo : j[1] = x.key
      BY <1>2, <2>1, <3>1
    <3> QED
      BY <1>1, <2>1, <3>1, <3>2 DEF Fits, Serving, Caching
  <2> HIDE DEF y
  <2> QED
    BY <1>4, <2>2, <2>3
<1>26. CASE Log(r) \/ DeleteByJTI(r) \/ BlacklistAccessToken(r) \/ Fails(r)
  <2>1. req' = [req EXCEPT ![r] = Idle]
    BY <1>26
       DEF Log, Ingest, DeleteByJTI, BlacklistAccessToken, Fails, StepFails, Answer, Continue,
           Ignored
  <2> QED
    BY <1>3, <2>1
<1> QED
  BY <1>8, <1>9, <1>10, <1>11, <1>12, <1>13, <1>14, <1>15, <1>16, <1>17, <1>18, <1>19, <1>20,
     <1>21, <1>22, <1>23, <1>24, <1>25, <1>26
     DEF Works

-----------------------------------------------------------------------------
(* What begins is a request about one user.                                *)
Begun(r, y) ==
    /\ req' = [req EXCEPT ![r] = y] /\ req[r].at = "idle"
    /\ y \in RequestType /\ Serving(y, There, Issued) /\ y.kind # "none" /\ y.wrote = FALSE /\ y.todo = {} /\ y.held = None
    /\ y.at \in {"find email", "read account", "get account", "validate token", "drop sessions"}
    /\ alone' \subseteq alone
    /\ y.key \in alone' => \A q \in On(y.key) : {req[q].kind, y.kind} \subseteq Reads
    /\ UNCHANGED <<auditVars, userVars, sessionVars, owed>>

LEMMA StartBegins ==
  ASSUME Types, NEW r \in Requests, NEW u \in Users, NEW kind \in Kinds, NEW arg \in Args(kind),
         NEW at \in {"find email", "read account", "get account", "validate token", "drop sessions"},
         at \in Places(kind), kind \in {"refresh", "logout"} => arg \in Issued /\ arg[1] = u,
         Start(r, u, at, kind, arg)
  PROVE  \E y : Begun(r, y)
<1> DEFINE y == [First(at, kind, u, arg) EXCEPT !.on = {u}]
           changing == {q \in {p \in Requests : req[p].on \cap {u} # {}} : ~(kind \in Reads) \/ ~(req[q].kind \in Reads)}
           about(Q) == IF Q = {} THEN {} ELSE {u} \cup UNION {req[q].on : q \in Q}
<1>1. kind # "none" /\ arg \in Profiles \cup Changes \cup Statuses \cup Change \cup Passwords \cup Pairs \cup {None}
  BY DEF Places, Args, Kinds
<1>2. First(at, kind, u, arg).kind = kind
  BY DEF First, Idle
<1>3. req[r].at = "idle" /\ req' = [req EXCEPT ![r] = y] /\ alone' = alone \ about(changing)
  BY <1>2 DEF Start, Begin
<1>4. /\ y \in RequestType /\ y.at = at /\ y.kind = kind /\ y.on = {u} /\ y.key = u /\ y.arg = arg
      /\ y.held = None /\ y.todo = {} /\ y.wrote = FALSE
  <2>1. ASSUME NEW z \in RequestType
        PROVE  LET x == [z EXCEPT !.at = at, !.kind = kind, !.key = u, !.arg = arg] IN
               /\ x \in RequestType /\ x.at = at /\ x.kind = kind /\ x.key = u /\ x.arg = arg
               /\ x.held = z.held /\ x.todo = z.todo /\ x.wrote = z.wrote
    <3>1. at \in Ats /\ u \in Users \cup {None}
      BY DEF Ats
    <3> QED
      BY <1>1, <2>1, <3>1 DEF RequestType
  <2>2. ASSUME NEW z \in RequestType
        PROVE  LET x == [z EXCEPT !.on = {u}] IN
               /\ x \in RequestType /\ x.at = z.at /\ x.kind = z.kind /\ x.on = {u} /\ x.key = z.key /\ x.arg = z.arg
               /\ x.held = z.held /\ x.todo = z.todo /\ x.wrote = z.wrote
    BY <2>2 DEF RequestType
  <2>3. Idle \in RequestType /\ Idle.held = None /\ Idle.todo = {} /\ Idle.wrote = FALSE
    BY IdleType DEF Idle
  <2> QED
    BY <2>1, <2>2, <2>3 DEF First
<1>5. Serving(y, There, Issued)
  BY <1>1, <1>4 DEF Serving, Caching
<1>6. u \in alone' => \A q \in On(u) : {req[q].kind, kind} \subseteq Reads
  <2> SUFFICES ASSUME u \in alone', NEW q \in On(u) PROVE {req[q].kind, kind} \subseteq Reads
    OBVIOUS
  <2>1. changing = {}
    BY <1>3
  <2>2. q \in {p \in Requests : req[p].on \cap {u} # {}}
    BY DEF On
  <2> QED
    BY <2>1, <2>2
<1>7. alone' \subseteq alone /\ UNCHANGED <<auditVars, userVars, sessionVars, owed>>
  BY <1>3 DEF Start
<1> HIDE DEF y, changing, about
<1>8. Begun(r, y)
  BY <1>1, <1>3, <1>4, <1>5, <1>6, <1>7 DEF Begun
<1> QED
  BY <1>8

LEMMA AskedBegins ==
  ASSUME Types, NEW r \in Requests, Asked(r)
  PROVE  \E y : Begun(r, y)
<1>1. ASSUME NEW u \in Users, NEW p \in Profiles, Create(r, u, p) PROVE \E y : Begun(r, y)
  BY <1>1, StartBegins DEF Create, Kinds, Args, Places
<1>2. ASSUME NEW u \in Users, NEW p \in Profiles, NEW by \in {"itself", "another"}, Update(r, u, p, by) PROVE \E y : Begun(r, y)
  <2> PICK arg : arg = [profile |-> p, by |-> by]
    OBVIOUS
  <2>1. arg \in Args("update user") /\ Start(r, u, "read account", "update user", arg)
    BY <1>2 DEF Update, Args, Changes
  <2> QED
    BY <2>1, StartBegins DEF Kinds, Places
<1>3. ASSUME NEW u \in Users, NEW status \in Statuses, SetStatus(r, u, status) PROVE \E y : Begun(r, y)
  BY <1>3, StartBegins DEF SetStatus, Kinds, Args, Places
<1>4. ASSUME NEW u \in Users, NEW old \in Passwords, NEW new \in Passwords, ChangePassword(r, u, old, new) PROVE \E y : Begun(r, y)
  <2> PICK arg : arg = [old |-> old, new |-> new]
    OBVIOUS
  <2>1. arg \in Args("change password") /\ Start(r, u, "read account", "change password", arg)
    BY <1>4 DEF ChangePassword, Args, Change
  <2> QED
    BY <2>1, StartBegins DEF Kinds, Places
<1>5. ASSUME NEW u \in Users, NEW p \in Passwords, Login(r, u, p) PROVE \E y : Begun(r, y)
  BY <1>5, StartBegins DEF Login, Kinds, Args, Places, Issuing
<1>6. ASSUME NEW u \in Users, GetUser(r, u) PROVE \E y : Begun(r, y)
  BY <1>6, StartBegins DEF GetUser, Kinds, Args, Places
<1>7. ASSUME NEW u \in Users, NEW n \in 1..issued[u], Refresh(r, <<u, n>>) PROVE \E y : Begun(r, y)
  <2>1. issued[u] \in Nat
    BY DEF Types, TokensOK
  <2>2. <<u, n>> \in Issued /\ <<u, n>> \in Pairs
    BY <2>1 DEF Issued, Pairs
  <2> QED
    BY <1>7, <2>2, StartBegins DEF Refresh, Kinds, Args, Places
<1>8. ASSUME NEW a \in access, Logout(r, a) PROVE \E y : Begun(r, y)
  <2>1. a \in Issued /\ a \in Pairs /\ a[1] \in Users
    BY DEF Types, TokensOK, Issued, Pairs
  <2> QED
    BY <1>8, <2>1, StartBegins DEF Logout, Kinds, Args, Places
<1> QED
  BY <1>1, <1>2, <1>3, <1>4, <1>5, <1>6, <1>7, <1>8 DEF Asked

LEMMA AskedTypes ==
  ASSUME Types, NEW r \in Requests, Asked(r)
  PROVE  Types'
<1> PICK y : Begun(r, y)
  BY AskedBegins
<1>1. UNCHANGED <<account, byId, byEmail, meant, issued, sessions, tokens, index, access, ending, blacklist, ended, out,
                  log, owed, sent, trail, handling, inserted, consuming, stored>>
  BY DEF Begun, auditVars, userVars, sessionVars
<1>2. There' = There /\ Issued' = Issued
  BY <1>1 DEF There, Issued
<1>3. AccountsOK' /\ TokensOK' /\ EntriesOK' /\ TrailOK' /\ alone' \subseteq Users
  BY <1>1, <1>2 DEF Begun, Types, AccountsOK, TokensOK, EntriesOK, TrailOK
<1>4. RequestsOK'
  BY <1>2, Replaced DEF Begun, Types
<1> QED
  BY <1>3, <1>4 DEF Types

(* A step of a request does not touch the trail of events, and makes no    *)
(* user alone again.                                                       *)
LEMMA WorksAside ==
  ASSUME NEW r \in Requests, Works(r)
  PROVE  UNCHANGED queueVars /\ alone' \subseteq alone
<1>1. ASSUME NEW next, Continue(r, next) \/ Missed(r, next) \/ Ignored(r, next) PROVE alone' \subseteq alone
  BY <1>1 DEF Continue, Missed, Ignored, Spoil
<1>2. ASSUME Refuse(r) \/ StepFails(r) PROVE alone' \subseteq alone
  BY <1>2 DEF Refuse, StepFails, Spoil
<1>3. ASSUME NEW at, Goto(r, at) \/ Wrote(r, at) \/ Answer(r) PROVE alone' \subseteq alone
  BY <1>1, <1>3 DEF Goto, Wrote, Answer
<1>4. CASE FindEmail(r) \/ InsertUser(r) \/ GetByID(r) \/ SaveUser(r) \/ WriteStatus(r) \/ ReadAgain(r)
  BY <1>1, <1>2, <1>3, <1>4
     DEF FindEmail, InsertUser, GetByID, SaveUser, WriteStatus, ReadAgain, auditVars, queueVars
<1>5. CASE CacheId(r) \/ CacheEmail(r) \/ Log(r)
  BY <1>1, <1>3, <1>5 DEF CacheId, CacheEmail, Log, Ingest, auditVars, queueVars
<1>6. CASE GetAccount(r) \/ Authenticate(r) \/ SaveRefreshToken(r) \/ ListRefreshToken(r) \/ CreateSession(r)
  BY <1>1, <1>2, <1>3, <1>6
     DEF GetAccount, Authenticate, SaveRefreshToken, ListRefreshToken, CreateSession,
         auditVars, queueVars
<1>7. CASE ValidateRefreshToken(r) \/ GetByJTI(r) \/ DeleteByJTI(r) \/ DeleteByUserID(r) \/ FindTokens(r) \/ Fails(r)
  BY <1>1, <1>2, <1>3, <1>7
     DEF ValidateRefreshToken, GetByJTI, DeleteByJTI, DeleteByUserID, FindTokens, Fails,
         auditVars, queueVars
<1>8. CASE DeleteUserTokens(r) \/ BlacklistAccessToken(r)
  BY <1>1, <1>3, <1>8 DEF DeleteUserTokens, BlacklistAccessToken, auditVars, queueVars
<1> QED
  BY <1>4, <1>5, <1>6, <1>7, <1>8 DEF Works

LEMMA WorksTypes ==
  ASSUME Types, NEW r \in Requests, Works(r)
  PROVE  Types'
<1>1. AccountsOK' /\ There \subseteq There' /\ TokensOK' /\ Issued \subseteq Issued' /\ EntriesOK'
  BY AccountsWork, TokensWork, EntriesWork
<1>2. RequestsOK'
  BY <1>1, RequestsMove, Replaced DEF Moves, Types
<1>3. TrailOK' /\ alone' \subseteq Users
  BY WorksAside DEF Types, TrailOK, queueVars
<1> QED
  BY <1>1, <1>2, <1>3 DEF Types

(* The trail of events.                                                    *)
LEMMA TrailTypes ==
  ASSUME TrailOK, AuditNext
  PROVE  TrailOK'
<1>1. sent \subseteq Events /\ trail \in Seq(sent) /\ handling \in sent \cup {None}
  BY DEF TrailOK
<1>2. CASE \E e \in Events : PublishToAudit(e)
  <2>1. PICK e \in Events : PublishToAudit(e)
    BY <1>2
  <2>2. sent \subseteq sent' /\ sent' = sent \cup {e} /\ trail \in Seq(sent')
    BY <1>1, <2>1 DEF PublishToAudit
  <2>3. trail' = Append(trail, e) \/ trail' = trail
    BY <2>1 DEF PublishToAudit
  <2>4. trail' \in Seq(sent')
    BY <2>2, <2>3
  <2>5. UNCHANGED <<handling, inserted, consuming, stored>>
    BY <2>1 DEF PublishToAudit
  <2> QED
    BY <2>2, <2>4, <2>5 DEF TrailOK
<1>3. CASE TakeDelivery
  <2>1. Head(trail) \in sent /\ Tail(trail) \in Seq(sent)
    BY <1>1, <1>3 DEF TakeDelivery
  <2>2. UNCHANGED <<sent, consuming, stored>> /\ handling' = Head(trail) /\ trail' = Tail(trail) /\ inserted' = FALSE
    BY <1>3 DEF TakeDelivery
  <2> QED
    BY <2>1, <2>2 DEF TrailOK
<1>4. CASE DropDelivery \/ AckDelivery
  BY <1>1, <1>4 DEF DropDelivery, AckDelivery, TrailOK
<1>5. CASE Requeue
  <2>1. handling \in sent /\ Append(trail, handling) \in Seq(sent)
    BY <1>1, <1>5 DEF Requeue
  <2>2. trail' \in Seq(sent) /\ handling' = None /\ UNCHANGED <<sent, inserted, consuming, stored>>
    BY <1>1, <1>5, <2>1 DEF Requeue, Returned
  <2> QED
    BY <2>2 DEF TrailOK
<1>6. CASE InsertEvent
  <2>1. handling \in sent /\ handling \in Events
    BY <1>1, <1>6 DEF InsertEvent
  <2> QED
    BY <1>6, <2>1 DEF InsertEvent, TrailOK
<1>7. CASE LoseConnection
  <2>1. Unacked \in Seq(sent)
    <3>1. handling # None => <<handling>> \in Seq(sent)
      BY <1>1
    <3> QED
      BY <1>1, <3>1 DEF Unacked
  <2> QED
    BY <1>7, <2>1 DEF LoseConnection, TrailOK
<1> QED
  BY <1>2, <1>3, <1>4, <1>5, <1>6, <1>7 DEF AuditNext, Consume

LEMMA AuditAside ==
  ASSUME AuditNext
  PROVE  UNCHANGED <<log, req, alone>>
  BY DEF AuditNext, Consume, PublishToAudit, PublishFails, Aside, TakeDelivery, DropDelivery,
         Requeue, InsertEvent, AckDelivery,
         LoseConnection, Follow

LEMMA AuditTypes ==
  ASSUME Types, AuditNext, Outside
  PROVE  Types'
<1>1. UNCHANGED <<account, byId, byEmail, meant, issued, sessions, tokens, index, access, ending, blacklist, ended, out,
                  log, owed, req, alone>>
  BY AuditAside DEF Outside, userVars, sessionVars
<1>2. There' = There /\ Issued' = Issued
  BY <1>1 DEF There, Issued
<1>3. AccountsOK' /\ TokensOK' /\ EntriesOK' /\ alone' \subseteq Users
  BY <1>1, <1>2 DEF Types, AccountsOK, TokensOK, EntriesOK
<1>4. RequestsOK'
  BY <1>1, <1>2 DEF Types, RequestsOK
<1>5. TrailOK'
  BY TrailTypes DEF Types
<1> QED
  BY <1>3, <1>4, <1>5 DEF Types

(* The end of an access token comes in steps, in which its block goes       *)
(* before it or with it.                                                   *)
AccessEnds ==
    \/ \E a \in access \ ending : LastSecond(a)
    \/ \E a \in ending \cap blacklist : BlockEnds(a)
    \/ \E a \in ending : ExpireAccess(a)

LEMMA AccessEndsSo ==
  ASSUME AccessEnds
  PROVE  /\ UNCHANGED <<req, alone, auditVars, userVars, issued, sessions, tokens, index, ended, out, owed>>
         /\ access' \subseteq access /\ blacklist' \subseteq blacklist
         /\ ending \cap access' \subseteq ending' /\ ending' \subseteq ending \cup access
         /\ \A i \in blacklist : i \in blacklist' \/ i \in ending
         /\ (ending \subseteq access) => (ending' \subseteq access')
         /\ \A i \in blacklist' : i \in access => i \in access'
<1>1. CASE \E a \in access \ ending : LastSecond(a)
  BY <1>1 DEF LastSecond, Aside
<1>2. CASE \E a \in ending \cap blacklist : BlockEnds(a)
  BY <1>2 DEF BlockEnds
<1>3. CASE \E a \in ending : ExpireAccess(a)
  BY <1>3 DEF ExpireAccess
<1> QED
  BY <1>1, <1>2, <1>3 DEF AccessEnds

LEMMA ExpiryTypes ==
  ASSUME Types,
         \/ \E u \in Users : ExpireAccount(u)
         \/ \E j \in sessions \cup tokens : ExpireSession(j)
         \/ AccessEnds
  PROVE  Types'
<1>1. UNCHANGED <<account, meant, issued, index, ended, out, log, owed, req, alone, sent, trail, handling, inserted, consuming, stored>>
  BY AccessEndsSo DEF ExpireAccount, ExpireSession, Aside, userVars, sessionVars, auditVars
<1>2. There' = There /\ Issued' = Issued
  BY <1>1 DEF There, Issued
<1>3. EntriesOK' /\ TrailOK' /\ alone' \subseteq Users
  BY <1>1 DEF Types, EntriesOK, TrailOK
<1>4. RequestsOK'
  BY <1>1, <1>2 DEF Types, RequestsOK
<1>5. AccountsOK'
  <2>1. CASE \E u \in Users : ExpireAccount(u)
    BY <1>1, <2>1 DEF ExpireAccount, Types, AccountsOK
  <2>2. CASE UNCHANGED <<byId, byEmail>>
    BY <1>1, <2>2 DEF Types, AccountsOK
  <2> QED
    BY <2>1, <2>2, AccessEndsSo DEF ExpireSession, userVars
<1>6. TokensOK'
  <2>1. sessions' \subseteq sessions /\ tokens' \subseteq tokens
    BY AccessEndsSo DEF ExpireAccount, ExpireSession, sessionVars
  <2>2. /\ access' \subseteq access /\ blacklist' \subseteq blacklist
        /\ (ending \subseteq access) => (ending' \subseteq access')
        /\ \A i \in blacklist' : i \in access => i \in access'
    BY AccessEndsSo DEF ExpireAccount, ExpireSession, sessionVars
  <2>3. blacklist' \subseteq access' \cup out' /\ ending' \subseteq access'
    BY <1>1, <2>2 DEF Types, TokensOK
  <2> QED
    BY <1>1, <1>2, <2>1, <2>2, <2>3 DEF Types, TokensOK
<1> QED
  BY <1>3, <1>4, <1>5, <1>6 DEF Types

LEMMA RestartTypes ==
  ASSUME Types, Restart
  PROVE  Types'
<1>1. UNCHANGED <<log, sent, stored, account, byId, byEmail, meant, issued, sessions, access, ending, blacklist, ended, out, owed>>
  BY DEF Restart, RestartConsumer, userVars
<1>2. There' = There /\ Issued' = Issued
  BY <1>1 DEF There, Issued
<1>3. RequestsOK'
  BY IdleType DEF Restart, RequestsOK
<1>4. AccountsOK' /\ EntriesOK' /\ alone' \subseteq Users
  BY <1>1 DEF Types, AccountsOK, EntriesOK, Restart, Spoil
<1>5. TokensOK'
  <2>1. tokens' = tokens \cup sessions /\ index' = [u \in Users |-> index[u] \cup OfUser(u, sessions)]
    BY DEF Restart
  <2>2. index' \in [Users -> SUBSET Issued] /\ \A u \in Users : \A j \in index'[u] : j[1] = u
    BY <2>1 DEF Types, TokensOK, OfUser
  <2> QED
    BY <1>1, <1>2, <2>1, <2>2 DEF Types, TokensOK
<1>6. TrailOK'
  <2>1. Unacked \in Seq(sent)
    <3>1. trail \in Seq(sent) /\ (handling # None => <<handling>> \in Seq(sent))
      BY DEF Types, TrailOK
    <3> QED
      BY <3>1 DEF Unacked
  <2> QED
    BY <1>1, <2>1 DEF Restart, RestartConsumer, Types, TrailOK
<1> QED
  BY <1>3, <1>4, <1>5, <1>6 DEF Types

LEMMA InitTypes == Init => Types
<1> SUFFICES ASSUME Init PROVE Types
  OBVIOUS
<1> PICK U \in SUBSET {u \in Users : account[u] # None} :
         /\ byId = [u \in Users |-> IF u \in U THEN account[u] ELSE None]
         /\ issued = [u \in Users |-> IF u \in U THEN 1 ELSE 0]
         /\ sessions = {<<u, 1>> : u \in U}
         /\ log = [u \in Users |-> [NoEntries EXCEPT !["LOGIN"] = issued[u]]]
  BY DEF Init
<1>1. Account("admin", First10) \in AccountType
  BY IdentityAssumption DEF Account, AccountType, Statuses, First10
<1>2. AccountsOK
  BY <1>1 DEF Init, AccountsOK
<1>3. RequestsOK /\ alone \subseteq Users
  BY IdleType, IdentityAssumption DEF Init, RequestsInit, RequestsOK
<1>4. issued \in [Users -> Nat] /\ sessions \subseteq Issued /\ tokens = sessions /\ access = sessions
  BY DEF Init, Issued, Pairs
<1>5. TokensOK
  <2>1. index \in [Users -> SUBSET Issued] /\ \A u \in Users : \A j \in index[u] : j[1] = u
    BY <1>4 DEF Init, OfUser
  <2>2. ended \in [Users -> Nat] /\ \A u \in Users : ended[u] <= issued[u]
    BY <1>4 DEF Init
  <2>3. ending = {} /\ blacklist = {} /\ out = {}
    BY DEF Init
  <2> QED
    BY <1>4, <2>1, <2>2, <2>3 DEF TokensOK
<1>6. EntriesOK
  <2>1. \A u \in Users : [NoEntries EXCEPT !["LOGIN"] = issued[u]] \in [Actions -> Nat]
    BY <1>4 DEF NoEntries, Actions
  <2> QED
    BY <2>1 DEF Init, EntriesOK
<1>7. TrailOK
  <2>1. sent = {} /\ trail = <<>> /\ handling = None /\ inserted = FALSE /\ consuming = TRUE /\ stored = [e \in Events |-> 0]
    BY DEF Init, AuditInit
  <2>2. trail \in Seq(sent) /\ stored \in [Events -> Nat] /\ \A e \in Events : stored[e] = 0
    BY <2>1
  <2>3. sent \subseteq Events /\ handling \in sent \cup {None} /\ inserted \in BOOLEAN /\ consuming \in BOOLEAN
    BY <2>1
  <2>4. \A e \in Events : ~(stored[e] > 0)
    BY <2>2
  <2> QED
    BY <2>2, <2>3, <2>4 DEF TrailOK
<1> QED
  BY <1>2, <1>3, <1>5, <1>6, <1>7 DEF Types

LEMMA TypesStep == Types /\ [Next]_vars => Types'
<1> SUFFICES ASSUME Types, [Next]_vars PROVE Types'
  OBVIOUS
<1>1. CASE UNCHANGED vars
  BY <1>1
     DEF vars, auditVars, userVars, sessionVars, Types, RequestsOK, AccountsOK, TokensOK,
         EntriesOK, TrailOK, There, Issued
<1>2. ASSUME NEW r \in Requests, Asked(r) \/ Works(r) PROVE Types'
  BY <1>2, AskedTypes, WorksTypes
<1>3. CASE AuditNext /\ Outside
  BY <1>3, AuditTypes
<1>4. CASE \/ \E u \in Users : ExpireAccount(u)
           \/ \E j \in sessions \cup tokens : ExpireSession(j)
           \/ AccessEnds
  BY <1>4, ExpiryTypes
<1>5. CASE Restart
  BY <1>5, RestartTypes
<1> QED
  BY <1>1, <1>2, <1>3, <1>4, <1>5 DEF Next, AccessEnds

LEMMA TypesAlways == Spec => []Types
  BY InitTypes, TypesStep, PTL DEF Spec

LEMMA TypesHold == Types => TypeOK
<1> SUFFICES ASSUME Types PROVE TypeOK
  OBVIOUS
<1>1. AuditOK
  BY DEF Types, TrailOK, EntriesOK, AuditOK
<1>2. {account, byId, byEmail, meant} \subseteq [Users -> AccountType \cup {None}]
  BY DEF Types, AccountsOK
<1>3. \A j \in Issued : j[2] \in 1..issued[j[1]]
  BY DEF Types, TokensOK, Issued, Pairs
<1>4. \A u \in Users : index[u] \subseteq {<<u, n>> : n \in 1..issued[u]}
  <2> SUFFICES ASSUME NEW u \in Users, NEW j \in index[u] PROVE j \in {<<u, n>> : n \in 1..issued[u]}
    OBVIOUS
  <2>1. j \in Issued /\ j[1] = u
    BY DEF Types, TokensOK
  <2>2. j = <<j[1], j[2]>>
    BY <2>1 DEF Issued, Pairs
  <2> QED
    BY <1>3, <2>1, <2>2
<1>5. ASSUME NEW r \in Requests
      PROVE  /\ req[r].at \in {"cache id", "cache email", "save user", "authenticate", "save token"} =>
                  req[r].held \in AccountType
             /\ req[r].at \in {"list token", "create session", "drop session"} => Cardinality(req[r].todo) = 1
  <2>1. Serving(req[r], There, Issued)
    BY DEF Types, RequestsOK
  <2>2. \A j : Cardinality({j}) = 1
    BY FS_Singleton
  <2> QED
    BY <2>1, <2>2 DEF Serving, Caching
<1> QED
  BY <1>1, <1>2, <1>3, <1>4, <1>5 DEF TypeOK, Types, TokensOK

(* Every variable keeps its type, tokens and sessions are among those that *)
(* were issued, and a request holds what its next statement uses, whatever *)
(* fails, expires or restarts (user_service.go, auth_service.go).          *)
THEOREM TypeCorrect == Spec => []TypeOK
  BY TypesAlways, TypesHold, PTL

-----------------------------------------------------------------------------
(* Which requests are about a user.                                        *)
LEMMA OnOne ==
  ASSUME Types
  PROVE  \A u, r : r \in On(u) => r \in Requests /\ u \in Users /\ req[r].key = u /\ req[r].on = {u} /\ req[r].at # "idle"
<1> SUFFICES ASSUME NEW u, NEW r, r \in On(u)
             PROVE  r \in Requests /\ u \in Users /\ req[r].key = u /\ req[r].on = {u} /\ req[r].at # "idle"
  OBVIOUS
<1>1. r \in Requests /\ u \in req[r].on /\ Serving(req[r], There, Issued) /\ req[r].kind \in Kinds
  BY DEF On, Types, RequestsOK, RequestType
<1>2. req[r].kind # "none" /\ req[r].key \in Users /\ req[r].on = {req[r].key}
  BY <1>1 DEF Serving
<1>3. "idle" \notin Places(req[r].kind)
  BY <1>1, <1>2 DEF Kinds, Places, Issuing, Caching
<1> QED
  BY <1>1, <1>2, <1>3 DEF Serving

LEMMA AtWork ==
  ASSUME Types, NEW r \in Requests, Works(r)
  PROVE  req[r].at # "idle" /\ req[r].key \in Users /\ r \in On(req[r].key) /\ req[r].on = {req[r].key}
<1>1. req[r].at # "idle"
  BY DEF Works, FindEmail, InsertUser, GetByID, SaveUser, WriteStatus, ReadAgain, CacheId,
         CacheEmail, Log, GetAccount,
         Authenticate, SaveRefreshToken, ListRefreshToken, CreateSession, ValidateRefreshToken, GetByJTI, DeleteByJTI,
         DeleteByUserID, FindTokens, DeleteUserTokens, BlacklistAccessToken, Fails, At, Statements
<1>2. req[r].kind # "none"
  BY <1>1 DEF Types, RequestsOK, Serving, Places
<1> QED
  BY <1>1, <1>2 DEF Types, RequestsOK, Serving, On

LEMMA OnMoves ==
  ASSUME Types, NEW r \in Requests, NEW y, Moves(r, y)
  PROVE  /\ \A q \in Requests : req'[q] = IF q = r THEN y ELSE req[q]
         /\ \A u : On(u)' \subseteq On(u) /\ On(u) \ {r} = On(u)' \ {r}
         /\ \A u : u \notin req[r].on => r \notin On(u) /\ r \notin On(u)' /\ On(u)' = On(u)
         /\ \A u : r \in On(u) /\ y # Idle => On(u)' = On(u)
<1>1. /\ \A q \in Requests : req'[q] = IF q = r THEN y ELSE req[q]
      /\ y.on = req[r].on \/ (y = Idle /\ y.on = {})
  BY DEF Moves, Same, Types, RequestsOK, Idle
<1> QED
  BY <1>1 DEF On

LEMMA OnBegun ==
  ASSUME Types, NEW r \in Requests, NEW y, Begun(r, y)
  PROVE  /\ \A q \in Requests : req'[q] = IF q = r THEN y ELSE req[q]
         /\ y.on = {y.key} /\ y.key \in Users
         /\ \A u : r \notin On(u) /\ On(u)' = IF u = y.key THEN On(u) \cup {r} ELSE On(u)
<1>1. \A q \in Requests : req'[q] = IF q = r THEN y ELSE req[q]
  BY DEF Begun, Types, RequestsOK
<1>2. y.on = {y.key} /\ y.key \in Users
  BY DEF Begun, Serving
<1>3. \A u : r \notin On(u)
  BY OnOne DEF Begun
<1> QED
  BY <1>1, <1>2, <1>3 DEF On

(* Whoever changes a user that is alone meets nobody there.                *)
LEMMA MeetsNobody ==
  ASSUME MeetInv, NEW u \in alone, NEW r \in On(u), req[r].kind \notin Reads
  PROVE  On(u) = {r}
  BY DEF MeetInv

LEMMA MeetsReaders ==
  ASSUME MeetInv, NEW u \in alone, NEW r \in On(u), req[r].kind \in Reads
  PROVE  \A q \in On(u) : req[q].kind \in Reads
  BY DEF MeetInv

-----------------------------------------------------------------------------
(* What happens to one user, and who is on it, is all that an invariant    *)
(* about this user depends on.                                             *)
SameToken(j) ==
    /\ j \in sessions' <=> j \in sessions
    /\ j \in tokens' <=> j \in tokens
    /\ j \in access' <=> j \in access
    /\ j \in ending' <=> j \in ending
    /\ j \in blacklist' <=> j \in blacklist
    /\ j \in out' <=> j \in out
SameUser(u) ==
    /\ UNCHANGED <<account[u], meant[u], byId[u], byEmail[u], index[u], ended[u], log[u], owed[u]>>
    /\ \A j : j[1] = u => SameToken(j)
    /\ On(u)' = On(u) /\ \A q \in On(u) : req'[q] = req[q]

LEMMA SameUserKeeps ==
  ASSUME Types, Types', NEW u, SameUser(u)
  PROVE  (CacheOf(u) => CacheOf(u)') /\ (TokensOf(u) => TokensOf(u)') /\ (EntriesOf(u) => EntriesOf(u)')
<1>1. /\ UNCHANGED <<account[u], meant[u], byId[u], byEmail[u], index[u], ended[u], log[u], owed[u]>>
      /\ On(u)' = On(u) /\ \A q \in On(u) : req'[q] = req[q]
  BY DEF SameUser
<1>2. \A j : j[1] = u => /\ j \in sessions' <=> j \in sessions
                         /\ j \in tokens' <=> j \in tokens
                         /\ j \in access' <=> j \in access
                         /\ j \in ending' <=> j \in ending
                         /\ j \in blacklist' <=> j \in blacklist
                         /\ j \in out' <=> j \in out
  BY DEF SameUser, SameToken
<1>3. \A q \in On(u) : req[q].key = u
  BY OnOne
<1>4. OfUser(u, sessions)' = OfUser(u, sessions) /\ OfUser(u, tokens)' = OfUser(u, tokens) /\ OfUser(u, out)' = OfUser(u, out)
  BY <1>2 DEF OfUser
<1>5. ASSUME CacheOf(u) PROVE CacheOf(u)'
  <2>1. \A ats : Stale(u, ats) => Stale(u, ats)'
    BY <1>1 DEF Stale
  <2>2. \A q \in On(u) : Reader(req[q]) => Reader(req[q])'
    <3> SUFFICES ASSUME NEW q \in On(u), Reader(req[q]) PROVE Reader(req[q])'
      OBVIOUS
    <3>1. req'[q] = req[q] /\ req[q].key = u /\ account'[u] = account[u] /\ meant'[u] = meant[u]
      BY <1>1, <1>3
    <3> QED
      BY <3>1 DEF Reader
  <2> QED
    BY <1>1, <1>5, <2>1, <2>2 DEF CacheOf
<1>6. ASSUME TokensOf(u) PROVE TokensOf(u)'
  <2>1. Listing(u)' = Listing(u)
    <3>1. {q \in On(u) : req[q].at = "list token"}' = {q \in On(u) : req[q].at = "list token"}
      BY <1>1
    <3>2. \A q \in {p \in On(u) : req[p].at = "list token"} : req'[q].todo = req[q].todo
      BY <1>1
    <3> QED
      BY <3>1, <3>2 DEF Listing
  <2>2. \A q \in On(u) : Ender(req[q]) => Ender(req[q])'
    BY <1>1, <1>3, <1>4 DEF Ender
  <2>3. OfUser(u, sessions \cup tokens)' = OfUser(u, sessions \cup tokens)
    BY <1>2 DEF OfUser
  <2>4. OfUser(u, out)' \cap access' \subseteq blacklist' \cup ending'
          <=> OfUser(u, out) \cap access \subseteq blacklist \cup ending
    BY <1>2 DEF OfUser
  <2> QED
    BY <1>1, <1>4, <1>6, <2>1, <2>2, <2>3, <2>4 DEF TokensOf
<1>7. ASSUME EntriesOf(u) PROVE EntriesOf(u)'
  <2>1. \A a : Owing(u, a)' = Owing(u, a)
    BY <1>1 DEF Owing
  <2> QED
    BY <1>1, <1>7, <2>1 DEF EntriesOf
<1> QED
  BY <1>5, <1>6, <1>7

LEMMA Elsewhere ==
  ASSUME Types, NEW r \in Requests, Works(r), NEW u \in Users, u # req[r].key
  PROVE  SameUser(u)
<1> PICK k : k = req[r].key
  OBVIOUS
<1>1. k \in Users /\ u # k /\ req[r].on = {k}
  BY AtWork
<1>2. On(u)' = On(u) /\ \A q \in On(u) : req'[q] = req[q]
  <2> PICK y : y = req'[r]
    OBVIOUS
  <2>1. Moves(r, y)
    BY RequestsMove
  <2>2. u \notin req[r].on
    BY <1>1
  <2> QED
    BY <2>1, <2>2, OnMoves DEF On
<1>3. UNCHANGED <<account[u], meant[u], byId[u], byEmail[u]>>
  <2>1. AccountsOK
    BY DEF Types
  <2>2. CASE InsertUser(r)
    BY <1>1, <2>1, <2>2 DEF InsertUser, AccountsOK
  <2>3. CASE SaveUser(r)
    BY <1>1, <2>1, <2>3 DEF SaveUser, AccountsOK
  <2>4. CASE WriteStatus(r)
    BY <1>1, <2>1, <2>4 DEF WriteStatus, AccountsOK
  <2>5. CASE CacheId(r) \/ CacheEmail(r)
    BY <1>1, <2>1, <2>5 DEF CacheId, CacheEmail, AccountsOK
  <2>6. CASE UNCHANGED userVars
    BY <2>6 DEF userVars
  <2> QED
    BY <2>2, <2>3, <2>4, <2>5, <2>6
      DEF Works, FindEmail, GetByID, ReadAgain, Log, GetAccount, Authenticate, SaveRefreshToken, ListRefreshToken,
          CreateSession, ValidateRefreshToken, GetByJTI, DeleteByJTI, DeleteByUserID, FindTokens, DeleteUserTokens,
          BlacklistAccessToken, Fails
<1>4. UNCHANGED <<log[u], owed[u]>>
  <2>1. EntriesOK
    BY DEF Types
  <2>2. CASE InsertUser(r) \/ SaveUser(r) \/ CreateSession(r)
    BY <1>1, <2>1, <2>2 DEF InsertUser, SaveUser, CreateSession, Owe, EntriesOK, auditVars
  <2>3. CASE Log(r)
    BY <1>1, <2>1, <2>3 DEF Log, Ingest, EntriesOK
  <2>4. CASE UNCHANGED <<log, owed>>
    BY <2>4
  <2> QED
    BY <2>2, <2>3, <2>4
      DEF Works, FindEmail, GetByID, WriteStatus, ReadAgain, CacheId, CacheEmail, GetAccount, Authenticate, SaveRefreshToken,
          ListRefreshToken, ValidateRefreshToken, GetByJTI, DeleteByJTI, DeleteByUserID, FindTokens, DeleteUserTokens,
          BlacklistAccessToken, Fails, auditVars
<1>5. UNCHANGED <<index[u], ended[u]>> /\ \A j : j[1] = u => SameToken(j)
  <2>1. TokensOK /\ (\A j \in req[r].todo : j[1] = k) /\ req[r].at # "idle"
        /\ (req[r].kind = "refresh" \/ req[r].kind = "logout" => req[r].arg[1] = k)
    BY AtWork DEF Types, RequestsOK, Serving
  <2>2. CASE SaveRefreshToken(r)
    <3>1. UNCHANGED <<sessions, index, access, ending, blacklist, ended, out>>
      BY <2>2 DEF SaveRefreshToken
    <3>2. tokens' = tokens \cup {<<k, issued[k] + 1>>} \/ tokens' = tokens
      BY <2>2 DEF SaveRefreshToken
    <3> QED
      BY <1>1, <3>1, <3>2 DEF SameToken
  <2>3. CASE ListRefreshToken(r)
    BY <1>1, <2>1, <2>3 DEF ListRefreshToken, Listed, TokensOK, SameToken
  <2>4. CASE CreateSession(r)
    <3>1. sessions' = sessions \cup req[r].todo /\ (access' = access \cup req[r].todo \/ access' = access)
      BY <2>4 DEF CreateSession
    <3>2. UNCHANGED <<tokens, index, ending, blacklist, ended, out>>
      BY <2>4 DEF CreateSession
    <3> QED
      BY <1>1, <2>1, <3>1, <3>2 DEF SameToken
  <2>5. CASE DeleteByJTI(r)
    <3>1. req[r].arg[1] = k
      BY <2>1, <2>5
         DEF DeleteByJTI, At, Types, RequestsOK, RequestType, Kinds, Serving, Places, Issuing,
             Caching
    <3>2. sessions' = sessions \ {req[r].arg} /\ access' = access \cup req[r].todo
      BY <2>5 DEF DeleteByJTI
    <3>3. UNCHANGED <<tokens, index, ending, blacklist, ended, out>>
      BY <2>5 DEF DeleteByJTI
    <3> QED
      BY <1>1, <2>1, <3>1, <3>2, <3>3 DEF SameToken
  <2>6. CASE DeleteByUserID(r)
    <3>1. sessions' = sessions \ OfUser(k, sessions) /\ UNCHANGED <<tokens, index, access, ending, blacklist, ended, out>>
      BY <2>6 DEF DeleteByUserID
    <3> QED
      BY <1>1, <3>1 DEF SameToken, OfUser
  <2>7. CASE DeleteUserTokens(r)
    <3>1. \/ UNCHANGED <<tokens, index>>
          \/ UNCHANGED index /\ \E j \in req[r].todo : tokens' = tokens \ {j}
          \/ UNCHANGED tokens /\ index' = [index EXCEPT ![k] = {}]
      BY <2>7 DEF DeleteUserTokens
    <3>2. UNCHANGED <<sessions, access, ending, blacklist, ended, out>>
      BY <2>7 DEF DeleteUserTokens
    <3> QED
      BY <1>1, <2>1, <3>1, <3>2 DEF TokensOK, SameToken
  <2>8. CASE BlacklistAccessToken(r)
    <3>1. req[r].arg[1] = k
      BY <2>1, <2>8
         DEF BlacklistAccessToken, At, Types, RequestsOK, RequestType, Kinds, Serving, Places,
             Issuing, Caching
    <3> QED
      BY <1>1, <2>1, <2>8, <3>1 DEF BlacklistAccessToken, TokensOK, SameToken
  <2>9. CASE UNCHANGED sessionVars
    BY <2>9 DEF sessionVars, SameToken
  <2> QED
    BY <2>2, <2>3, <2>4, <2>5, <2>6, <2>7, <2>8, <2>9
      DEF Works, FindEmail, InsertUser, GetByID, SaveUser, WriteStatus, ReadAgain, CacheId, CacheEmail, Log, GetAccount,
          Authenticate, ValidateRefreshToken, GetByJTI, FindTokens, Fails
<1> QED
  BY <1>2, <1>3, <1>4, <1>5 DEF SameUser

(* The requests that may meet.                                             *)
LEMMA MeetStep == Types /\ MeetInv /\ [Next]_vars => MeetInv'
<1> SUFFICES ASSUME Types, MeetInv, [Next]_vars PROVE MeetInv'
  OBVIOUS
<1>1. ASSUME UNCHANGED req, alone' \subseteq alone PROVE MeetInv'
  BY <1>1 DEF MeetInv, On
<1>2. ASSUME NEW r \in Requests, Works(r) PROVE MeetInv'
  <2> PICK y : y = req'[r]
    OBVIOUS
  <2>1. Moves(r, y) /\ alone' \subseteq alone
    BY <1>2, RequestsMove, WorksAside
  <2>2. \A u : \A q \in On(u)' : q \in On(u) /\ req'[q].kind = req[q].kind
    <3>1. y = Idle => \A u : r \notin On(u)'
      BY <2>1, OnMoves DEF On, Idle
    <3> QED
      BY <2>1, <3>1, OnMoves DEF Moves, Same, On
  <2> QED
    BY <2>1, <2>2 DEF MeetInv
<1>3. ASSUME NEW r \in Requests, Asked(r) PROVE MeetInv'
  <2> PICK y : Begun(r, y)
    BY <1>3, AskedBegins
  <2>1. /\ \A q \in Requests : req'[q] = IF q = r THEN y ELSE req[q]
        /\ y.on = {y.key} /\ y.key \in Users
        /\ \A u : r \notin On(u) /\ On(u)' = IF u = y.key THEN On(u) \cup {r} ELSE On(u)
    BY OnBegun
  <2>2. \A u : \A q \in On(u) : q \in Requests
    BY DEF On
  <2>3. alone' \subseteq alone /\ (y.key \in alone' => \A q \in On(y.key) : {req[q].kind, y.kind} \subseteq Reads)
    BY DEF Begun
  <2> SUFFICES ASSUME NEW u \in alone', NEW p \in On(u)', NEW q \in On(u)'
               PROVE  p = q \/ {req'[p].kind, req'[q].kind} \subseteq Reads
    BY DEF MeetInv
  <2>4. CASE p = r \/ q = r
    BY <2>1, <2>2, <2>3, <2>4
  <2>5. CASE p # r /\ q # r
    <3>1. p \in On(u) /\ q \in On(u) /\ u \in alone
      BY <2>1, <2>3, <2>5
    <3> QED
      BY <2>1, <2>2, <2>5, <3>1 DEF MeetInv
  <2> QED
    BY <2>4, <2>5
<1>4. CASE UNCHANGED vars
  BY <1>1, <1>4 DEF vars
<1>5. CASE AuditNext
  BY <1>1, <1>5, AuditAside
<1>6. CASE (\E u \in Users : ExpireAccount(u)) \/ (\E j \in sessions \cup tokens : ExpireSession(j)) \/ AccessEnds
  BY <1>1, <1>6, AccessEndsSo DEF ExpireAccount, ExpireSession, Aside
<1>7. CASE Restart
  <2>1. \A u : On(u)' = {}
    BY <1>7 DEF Restart, On, Idle
  <2> QED
    BY <2>1 DEF MeetInv
<1> QED
  BY <1>2, <1>3, <1>4, <1>5, <1>6, <1>7 DEF Next, AccessEnds

-----------------------------------------------------------------------------
(* What is left half done, and a command whose failure is ignored, spoil   *)
(* the user.                                                               *)
LEMMA Spoils ==
  ASSUME NEW r \in Requests, NEW u, r \in On(u), u \in alone'
  PROVE  /\ \A next : ~Ignored(r, next)
         /\ Refuse(r) \/ StepFails(r) => ~req[r].wrote
  BY DEF On, Ignored, Refuse, StepFails, Spoil, HalfDone

LEMMA StaleKept ==
  ASSUME Types, NEW r \in Requests, NEW y, Moves(r, y), NEW u, r \in On(u), NEW ats, Stale(u, ats),
         req[r].wrote /\ req[r].at \in ats => y.wrote /\ y.at \in ats
  PROVE  Stale(u, ats)'
<1>1. PICK q \in On(u) : req[q].wrote /\ req[q].at \in ats
  BY DEF Stale
<1>2. /\ \A p \in Requests : req'[p] = IF p = r THEN y ELSE req[p]
      /\ On(u) \ {r} = On(u)' \ {r}
      /\ y # Idle => On(u)' = On(u)
  BY OnMoves
<1>3. CASE q = r
  <2>1. y # Idle
    BY <1>1, <1>3 DEF Idle
  <2> QED
    BY <1>1, <1>2, <1>3, <2>1 DEF Stale
<1>4. CASE q # r
  BY <1>1, <1>2, <1>4 DEF Stale, On
<1> QED
  BY <1>3, <1>4

(* The requests on a user hold the account as it is in the database.       *)
LEMMA ReadersKept ==
  ASSUME Types, NEW r \in Requests, NEW y, Moves(r, y), NEW u, r \in On(u), UNCHANGED account,
         \A q \in On(u) : Reader(req[q]), y # Idle => Reader(y)
  PROVE  (\A q \in On(u) : Reader(req[q]))'
<1>1. /\ \A p \in Requests : req'[p] = IF p = r THEN y ELSE req[p]
      /\ On(u)' \subseteq On(u)
  BY OnMoves
<1>2. y = Idle => r \notin On(u)'
  BY <1>1 DEF On, Idle
<1>3. \A q \in On(u)' : Reader(req'[q])
  BY <1>1, <1>2 DEF On
<1> QED
  BY <1>3 DEF Reader

(* A step that leaves the account and its copies as they are.              *)
LEMMA CacheRead ==
  ASSUME Types, NEW r \in Requests, NEW y, Moves(r, y), NEW u, r \in On(u), UNCHANGED userVars,
         CacheOf(u), y # Idle => Reader(y),
         req[r].wrote => req[r].at # "cache email",
         req[r].wrote /\ req[r].at \in {"read again", "cache id"} => y.wrote /\ y.at \in {"read again", "cache id"}
  PROVE  CacheOf(u)'
<1>1. UNCHANGED <<account, meant, byId, byEmail>>
  BY DEF userVars
<1>2. (\A q \in On(u) : Reader(req[q]))'
  BY <1>1, ReadersKept DEF CacheOf
<1>3. Stale(u, {"read again", "cache id"}) => Stale(u, {"read again", "cache id"})'
  BY StaleKept
<1>4. Stale(u, {"read again", "cache id", "cache email"}) => Stale(u, {"read again", "cache id", "cache email"})'
  BY StaleKept
<1> QED
  BY <1>1, <1>2, <1>3, <1>4 DEF CacheOf

(* A change writes the row first; both copies are stale until it has       *)
(* written them too.                                                       *)
LEMMA CacheWritten ==
  ASSUME Types, NEW r \in Requests, NEW y, Moves(r, y), NEW u, On(u) = {r}, account'[u] = meant'[u],
         y.wrote, y.at \in {"read again", "cache id"}, Reader(y)'
  PROVE  CacheOf(u)'
<1>1. y # Idle
  <2>1. Idle.at = "idle"
    BY DEF Idle
  <2> QED
    BY <2>1
<1>2. On(u)' = {r} /\ req'[r] = y
  BY <1>1, OnMoves
<1>3. Stale(u, {"read again", "cache id"})' /\ Stale(u, {"read again", "cache id", "cache email"})'
  BY <1>2 DEF Stale
<1>4. (\A q \in On(u) : Reader(req[q]))'
  <2>1. \A q \in On(u)' : req'[q] = y
    BY <1>2
  <2> QED
    BY <2>1 DEF Reader
<1> QED
  BY <1>3, <1>4 DEF CacheOf

LEMMA CacheWorks ==
  ASSUME Types, MeetInv, NEW r \in Requests, Works(r), NEW u \in alone', u = req[r].key, CacheOf(u)
  PROVE  CacheOf(u)'
<1> PICK x, y : x = req[r] /\ y = req'[r]
  OBVIOUS
<1>1. /\ r \in On(u) /\ u \in Users /\ u \in alone /\ x.at # "idle"
      /\ Moves(r, y) /\ Serving(x, There, Issued) /\ x \in RequestType /\ AccountsOK
  BY RequestsMove, AtWork, WorksAside DEF Types, RequestsOK
<1>2. \A next : ~Ignored(r, next)
  BY <1>1, Spoils
<1>3. x.kind \notin Reads => On(u) = {r}
  BY <1>1, MeetsNobody
<1>4. Reader(x)
  BY <1>1 DEF CacheOf
<1>5. ASSUME NEW next, Continue(r, next) PROVE y = next
  BY <1>5 DEF Continue, Types, RequestsOK
<1>6. ASSUME Refuse(r) \/ StepFails(r) PROVE y = Idle /\ ~x.wrote
  BY <1>1, <1>6, Spoils DEF Refuse, StepFails, Types, RequestsOK
<1>7. CASE InsertUser(r) /\ account[u] = None
  <2> DEFINE row == Account(x.arg, First10)
             next == [x EXCEPT !.at = "cache id", !.held = row, !.wrote = TRUE]
  <2>1. y = next /\ account' = [account EXCEPT ![u] = row] /\ meant' = [meant EXCEPT ![u] = row]
    BY <1>5, <1>7 DEF InsertUser
  <2> HIDE DEF row
  <2>2. y.wrote /\ y.at = "cache id" /\ y.held = row /\ y.key = u
    BY <1>1, <2>1 DEF RequestType
  <2>3. account'[u] = row /\ meant'[u] = row
    BY <1>1, <2>1 DEF AccountsOK
  <2>4. Reader(y)'
    BY <2>2, <2>3 DEF Reader, Caching
  <2>5. x.kind \notin Reads
    BY <1>1, <1>7
       DEF InsertUser, At, Serving, Places, Issuing, Caching, RequestType, Kinds, Reads
  <2> HIDE DEF next
  <2> QED
    BY <1>1, <1>3, <2>2, <2>3, <2>4, <2>5, CacheWritten
<1>8. CASE SaveUser(r)
  <2> DEFINE next == [x EXCEPT !.at = "cache id", !.wrote = TRUE]
  <2>1. y = next /\ account' = [account EXCEPT ![u] = x.held]
    BY <1>5, <1>8 DEF SaveUser, Wrote
  <2>2. y.wrote /\ y.at = "cache id" /\ y.held = x.held /\ y.key = u
    BY <1>1, <2>1 DEF RequestType
  <2>3. x.kind \in {"update user", "change password"} /\ x.at = "save user" /\ account[u] # None
    BY <1>1, <1>8 DEF SaveUser, At, Serving, Places, Issuing, Caching, RequestType, Kinds, There
  <2>4. account[u] = meant[u]
    BY DEF CacheOf
  <2>5. meant'[u] = x.held
    <3>1. CASE x.kind = "change password"
      <4>1. x.held = [account[u] EXCEPT !.password = x.arg.new]
        BY <1>4, <2>3, <3>1 DEF Reader
      <4>2. meant' = [meant EXCEPT ![u] = [meant[u] EXCEPT !.password = x.arg.new]]
        BY <1>8, <3>1 DEF SaveUser
      <4> QED
        BY <1>1, <2>4, <4>1, <4>2 DEF AccountsOK
    <3>2. CASE x.kind = "update user"
      <4>1. x.held = [account[u] EXCEPT !.profile = x.arg.profile]
        BY <1>4, <2>3, <3>2 DEF Reader
      <4>2. meant' = [meant EXCEPT ![u] = [meant[u] EXCEPT !.profile = x.arg.profile]]
        BY <1>8, <3>2 DEF SaveUser
      <4> QED
        BY <1>1, <2>4, <4>1, <4>2 DEF AccountsOK
    <3> QED
      BY <2>3, <3>1, <3>2
  <2>6. account'[u] = x.held
    BY <1>1, <2>1 DEF AccountsOK
  <2>7. Reader(y)'
    BY <2>2, <2>6 DEF Reader, Caching
  <2>8. x.kind \notin Reads
    BY <2>3 DEF Reads
  <2> HIDE DEF next
  <2> QED
    BY <1>1, <1>3, <2>2, <2>5, <2>6, <2>7, <2>8, CacheWritten
<1>9. CASE WriteStatus(r)
  <2> DEFINE next == [x EXCEPT !.at = "read again", !.wrote = TRUE]
  <2>1. /\ y = next /\ account' = [account EXCEPT ![u] = [account[u] EXCEPT !.status = x.arg]]
        /\ meant' = [meant EXCEPT ![u] = [meant[u] EXCEPT !.status = x.arg]]
    BY <1>5, <1>9 DEF WriteStatus, Wrote
  <2>2. y.wrote /\ y.at = "read again" /\ y.key = u
    BY <1>1, <2>1 DEF RequestType
  <2>3. account'[u] = meant'[u]
    BY <1>1, <2>1 DEF AccountsOK, CacheOf
  <2>4. Reader(y)'
    BY <2>2 DEF Reader, Caching
  <2>5. x.kind \notin Reads
    BY <1>1, <1>9
       DEF WriteStatus, At, Serving, Places, Issuing, Caching, RequestType, Kinds, Reads
  <2> HIDE DEF next
  <2> QED
    BY <1>1, <1>3, <2>2, <2>3, <2>4, <2>5, CacheWritten
<1>10. CASE CacheId(r)
  <2> DEFINE next == [x EXCEPT !.at = "cache email"]
  <2>1. /\ y = next /\ byId' = [byId EXCEPT ![u] = x.held] /\ UNCHANGED <<account, meant, byEmail>> /\ x.at = "cache id"
    BY <1>2, <1>5, <1>10 DEF CacheId, Goto, At
  <2>2. y.wrote = x.wrote /\ y.at = "cache email" /\ y.held = x.held /\ y.key = u /\ y.kind = x.kind
    BY <1>1, <2>1 DEF RequestType
  <2>3. x.held = account[u]
    BY <1>4, <2>1 DEF Reader, Caching
  <2> HIDE DEF next
  <2>4. Reader(y)
    BY <2>2, <2>3 DEF Reader
  <2>5. (\A q \in On(u) : Reader(req[q]))'
    BY <1>1, <2>1, <2>4, ReadersKept DEF CacheOf
  <2>6. byId'[u] = account'[u]
    BY <1>1, <2>1, <2>3 DEF AccountsOK
  <2>7. Stale(u, {"read again", "cache id", "cache email"}) => Stale(u, {"read again", "cache id", "cache email"})'
    <3>1. req[r].wrote /\ req[r].at \in {"read again", "cache id", "cache email"} =>
            y.wrote /\ y.at \in {"read again", "cache id", "cache email"}
      BY <2>1, <2>2
    <3>2. r \in On(u) /\ Moves(r, y)
      BY <1>1
    <3> QED
      BY <3>1, <3>2, StaleKept
  <2> QED
    BY <2>1, <2>5, <2>6, <2>7 DEF CacheOf
<1>11. CASE CacheEmail(r)
  <2>1. /\ y = AfterCache(r) /\ byEmail' = [byEmail EXCEPT ![u] = x.held] /\ UNCHANGED <<account, meant, byId>>
        /\ x.at = "cache email"
    BY <1>2, <1>5, <1>11 DEF CacheEmail, At
  <2>2. y = Idle \/ (y.at \in {"log", "authenticate", "save token"} /\ y.held = x.held /\ y.key = u /\ y.kind = x.kind
                     /\ (y.at = "save token" => x.kind = "refresh"))
    BY <1>1, <2>1 DEF AfterCache, RequestType
  <2>3. x.held = account[u]
    BY <1>4, <2>1 DEF Reader, Caching
  <2>4. y # Idle => Reader(y)
    BY <2>2, <2>3 DEF Reader, Caching
  <2>5. (\A q \in On(u) : Reader(req[q]))'
    BY <1>1, <2>1, <2>4, ReadersKept DEF CacheOf
  <2>6. byEmail'[u] = account'[u]
    BY <1>1, <2>1, <2>3 DEF AccountsOK
  <2>7. Stale(u, {"read again", "cache id"}) => Stale(u, {"read again", "cache id"})'
    <3>1. req[r].wrote /\ req[r].at \in {"read again", "cache id"} =>
            y.wrote /\ y.at \in {"read again", "cache id"}
      BY <2>1
    <3>2. r \in On(u) /\ Moves(r, y)
      BY <1>1
    <3> QED
      BY <3>1, <3>2, StaleKept
  <2> QED
    BY <2>1, <2>5, <2>6, <2>7 DEF CacheOf
<1>12. ASSUME UNCHANGED userVars, x.at \notin {"read again", "cache id", "cache email"}, y # Idle => Reader(y)
       PROVE  CacheOf(u)'
  BY <1>1, <1>12, CacheRead
<1>13. ASSUME NEW at, Goto(r, at) PROVE y = [x EXCEPT !.at = at]
  BY <1>5, <1>13 DEF Goto
<1>14. ASSUME NEW next, Missed(r, next) PROVE y = next
  BY <1>14 DEF Missed, Types, RequestsOK
<1>15. ASSUME NEW at, y = [x EXCEPT !.at = at],
              at \notin Caching \cup {"save user", "authenticate", "save token", "list token", "create session"}
       PROVE  Reader(y)
  <2>1. y.at = at
    BY <1>1, <1>15 DEF RequestType
  <2> QED
    BY <1>15, <2>1 DEF Reader
<1>16. CASE ReadAgain(r)
  <2> DEFINE next == [x EXCEPT !.at = "cache id", !.held = account[u]]
  <2>1. y = next /\ UNCHANGED userVars /\ x.at = "read again"
    BY <1>2, <1>5, <1>16 DEF ReadAgain, CachedByStatus, At
  <2>2. y.wrote = x.wrote /\ y.at = "cache id" /\ y.held = account[u] /\ y.key = u
    BY <1>1, <2>1 DEF RequestType
  <2>3. Reader(y)
    BY <2>2 DEF Reader, Caching
  <2> HIDE DEF next
  <2> QED
    BY <1>1, <2>1, <2>2, <2>3, CacheRead
<1>17. CASE GetByID(r)
  <2>1. UNCHANGED userVars /\ x.at = "read account" /\ (Refuse(r) \/ (y = AfterRead(r, account[u]) /\ account[u] # None))
    BY <1>5, <1>17 DEF GetByID, At
  <2>2. ASSUME y = AfterRead(r, account[u]) PROVE Reader(y)
    <3>1. x.kind \in {"update user", "set status", "change password", "get user", "login", "refresh"}
      BY <1>1, <2>1 DEF Serving, Places, Issuing, Caching, RequestType, Kinds
    <3>2. /\ y.kind = x.kind /\ y.key = u /\ y.arg = x.arg
          /\ \/ x.kind = "update user" /\ y.at = "save user" /\ y.held = [account[u] EXCEPT !.profile = x.arg.profile]
             \/ x.kind = "change password" /\ y.at = "save user" /\ y.held = [account[u] EXCEPT !.password = x.arg.new]
             \/ x.kind = "set status" /\ y.at = "set status"
             \/ x.kind \in {"get user", "login", "refresh"} /\ y.at = "cache id" /\ y.held = account[u]
      BY <1>1, <2>2, <3>1 DEF AfterRead, RequestType
    <3> QED
      BY <3>2 DEF Reader, Caching
  <2> QED
    BY <1>6, <1>12, <2>1, <2>2
<1>18. CASE GetAccount(r)
  <2>1. UNCHANGED userVars /\ x.at = "get account"
    BY <1>18 DEF GetAccount, At
  <2>2. x.kind \in {"login", "refresh"} /\ x.kind \in Reads
    BY <1>1, <2>1 DEF Serving, Places, Issuing, Caching, RequestType, Kinds, Reads
  <2>3. CASE y = [x EXCEPT !.at = "read account"]
    BY <1>12, <1>15, <2>1, <2>3 DEF Caching
  <2>4. CASE x.kind = "refresh" /\ y = [x EXCEPT !.at = "save token", !.held = byId[u]]
    <3>1. y.kind = "refresh" /\ y.at = "save token"
      BY <1>1, <2>4 DEF RequestType
    <3> QED
      BY <1>12, <2>1, <3>1 DEF Reader, Caching
  <2>5. CASE x.kind = "login" /\ byEmail[u] # None /\ y = [x EXCEPT !.at = "authenticate", !.held = byEmail[u]]
    <3>1. \A q \in On(u) : ~req[q].wrote
      <4>1. \A q \in On(u) : req[q].kind \in Reads /\ Serving(req[q], There, Issued)
        BY <1>1, <2>2, MeetsReaders DEF On, Types, RequestsOK
      <4> QED
        BY <4>1 DEF Serving, Reads
    <3>2. byEmail[u] = account[u]
      BY <2>5, <3>1 DEF CacheOf, Stale
    <3>3. y.kind = "login" /\ y.at = "authenticate" /\ y.key = u /\ y.held = account[u]
      BY <1>1, <2>5, <3>2 DEF RequestType
    <3> QED
      BY <1>12, <2>1, <3>3 DEF Reader, Caching
  <2> QED
    BY <1>5, <1>14, <1>18, <2>2, <2>3, <2>4, <2>5 DEF GetAccount
<1>19. CASE Authenticate(r)
  <2>1. UNCHANGED userVars /\ x.at = "authenticate"
    BY <1>19 DEF Authenticate, At
  <2>2. CASE Refuse(r)
    BY <1>6, <1>12, <2>1, <2>2
  <2>3. CASE ~Refuse(r)
    <3>1. y = [x EXCEPT !.at = "save token"] /\ x.held.status # "INACTIVE" /\ x.held.password = x.arg
      BY <1>13, <1>19, <2>3 DEF Authenticate
    <3>2. x.kind = "login" /\ x.held \in AccountType
      BY <1>1, <2>1 DEF Serving, Places, Issuing, Caching, RequestType, Kinds
    <3>3. x.held = account[u] /\ x.held.status = "ACTIVE"
      BY <1>4, <2>1, <3>1, <3>2 DEF Reader, AccountType, Statuses
    <3>4. y.kind = "login" /\ y.at = "save token" /\ y.key = u /\ y.held = x.held /\ y.arg = x.arg
      BY <1>1, <3>1, <3>2 DEF RequestType
    <3> QED
      BY <1>12, <2>1, <3>1, <3>3, <3>4 DEF Reader, Caching
  <2> QED
    BY <2>2, <2>3
<1>20. CASE SaveRefreshToken(r) \/ ListRefreshToken(r)
  <2> DEFINE j == <<u, issued[u] + 1>>
  <2>1. UNCHANGED userVars /\ x.at \in {"save token", "list token"}
    BY <1>20 DEF SaveRefreshToken, ListRefreshToken, At
  <2>2. y = [x EXCEPT !.at = "list token", !.todo = {j}] \/ y = [x EXCEPT !.at = "create session"]
    BY <1>2, <1>5, <1>20 DEF SaveRefreshToken, ListRefreshToken
  <2> HIDE DEF j
  <2>3. y.kind = x.kind /\ y.at \in {"list token", "create session"} /\ y.key = u /\ y.held = x.held /\ y.arg = x.arg
    BY <1>1, <2>2 DEF RequestType
  <2>4. CASE x.kind # "login"
    BY <1>12, <2>1, <2>3, <2>4 DEF Reader, Caching
  <2>5. CASE x.kind = "login"
    <3>1. x.held = account[u] /\ x.held.status = "ACTIVE" /\ x.held.password = x.arg
      BY <1>4, <2>1, <2>5 DEF Reader
    <3>2. Reader(y)
      BY <2>3, <3>1 DEF Reader, Caching
    <3> QED
      BY <1>12, <2>1, <3>2
  <2> QED
    BY <2>4, <2>5
<1>21. CASE FindEmail(r) \/ (InsertUser(r) /\ account[u] # None)
  <2>1. UNCHANGED userVars /\ x.at \in {"find email", "insert user"}
    BY <1>21 DEF FindEmail, InsertUser, At, userVars
  <2>2. Refuse(r) \/ y = [x EXCEPT !.at = "insert user"]
    BY <1>5, <1>14, <1>21 DEF FindEmail, InsertUser
  <2> QED
    BY <1>6, <1>12, <1>15, <2>1, <2>2 DEF Caching
<1>22. CASE CreateSession(r) \/ ValidateRefreshToken(r) \/ GetByJTI(r) \/ DeleteByUserID(r)
  <2>1. UNCHANGED userVars /\ x.at \in {"create session", "validate token", "find session", "drop sessions"}
    BY <1>22 DEF CreateSession, ValidateRefreshToken, GetByJTI, DeleteByUserID, At
  <2>2. \/ Refuse(r)
        \/ \E at \in {"log", "drop session", "get account", "find session", "find tokens"} : y = [x EXCEPT !.at = at]
    BY <1>5, <1>13, <1>14, <1>22
       DEF CreateSession, ValidateRefreshToken, GetByJTI, DeleteByUserID
  <2> QED
    BY <1>6, <1>12, <1>15, <2>1, <2>2 DEF Caching
<1>23. CASE FindTokens(r) \/ DeleteUserTokens(r)
  <2>1. UNCHANGED userVars /\ x.at \in {"find tokens", "delete tokens"}
    BY <1>23 DEF FindTokens, DeleteUserTokens, At
  <2>2. \E at \in {"delete tokens", "block"} : \E todo : y = [x EXCEPT !.at = at, !.todo = todo]
    <3>1. CASE FindTokens(r)
      BY <1>2, <1>5, <3>1 DEF FindTokens
    <3>2. CASE DeleteUserTokens(r) /\ y = [x EXCEPT !.at = "block", !.todo = {}]
      BY <3>2
    <3>3. CASE DeleteUserTokens(r) /\ \E j : y = [x EXCEPT !.todo = x.todo \ {j}]
      <4>1. PICK j : y = [x EXCEPT !.todo = x.todo \ {j}]
        BY <3>3
      <4>2. x.at = "delete tokens"
        BY <3>3 DEF DeleteUserTokens, At
      <4>3. y = [x EXCEPT !.at = "delete tokens", !.todo = x.todo \ {j}]
        BY <1>1, <4>1, <4>2 DEF RequestType
      <4> QED
        BY <4>3
    <3> QED
      BY <1>2, <1>5, <1>23, <3>1, <3>2, <3>3 DEF DeleteUserTokens
  <2>3. y.at \in {"delete tokens", "block"}
    BY <1>1, <2>2 DEF RequestType
  <2> QED
    BY <1>12, <2>1, <2>3 DEF Reader, Caching
<1>24. CASE Log(r) \/ DeleteByJTI(r) \/ BlacklistAccessToken(r) \/ Fails(r)
  <2>1. UNCHANGED userVars /\ x.at \notin {"read again", "cache id", "cache email"}
    BY <1>24 DEF Log, DeleteByJTI, BlacklistAccessToken, Fails, Statements, At
  <2>2. y = Idle
    BY <1>2, <1>5, <1>6, <1>24 DEF Log, Ingest, DeleteByJTI, BlacklistAccessToken, Fails, Answer
  <2> QED
    BY <1>12, <2>1, <2>2
<1> QED
  BY <1>7, <1>8, <1>9, <1>10, <1>11, <1>16, <1>17, <1>18, <1>19, <1>20, <1>21, <1>22, <1>23,
     <1>24
     DEF Works

LEMMA CacheStep == Types /\ MeetInv /\ CacheInv /\ [Next]_vars => CacheInv'
<1> SUFFICES ASSUME Types, MeetInv, CacheInv, [Next]_vars, NEW u \in alone' PROVE CacheOf(u)'
  BY DEF CacheInv
<1>1. ASSUME UNCHANGED <<req, userVars>>, u \in alone PROVE CacheOf(u)'
  <2>1. UNCHANGED <<req, account, meant, byId, byEmail>> /\ CacheOf(u)
    BY <1>1 DEF CacheInv, userVars
  <2>2. (\A ats : Stale(u, ats) => Stale(u, ats)') /\ (\A r \in On(u) : Reader(req[r]))'
    BY <2>1 DEF Stale, On, Reader, CacheOf
  <2> QED
    BY <2>1, <2>2 DEF CacheOf
<1>2. ASSUME NEW r \in Requests, Works(r) PROVE CacheOf(u)'
  <2>1. u \in alone /\ u \in Users /\ CacheOf(u)
    BY <1>2, WorksAside DEF CacheInv, Types
  <2>2. CASE u = req[r].key
    BY <1>2, <2>1, <2>2, CacheWorks
  <2>3. CASE u # req[r].key
    BY <1>2, <2>1, <2>3, Elsewhere, SameUserKeeps, WorksTypes
  <2> QED
    BY <2>2, <2>3
<1>3. ASSUME NEW r \in Requests, Asked(r) PROVE CacheOf(u)'
  <2> PICK y : Begun(r, y)
    BY <1>3, AskedBegins
  <2>1. /\ \A q \in Requests : req'[q] = IF q = r THEN y ELSE req[q]
        /\ y.on = {y.key} /\ y.key \in Users
        /\ \A v : r \notin On(v) /\ On(v)' = IF v = y.key THEN On(v) \cup {r} ELSE On(v)
    BY OnBegun
  <2>2. /\ UNCHANGED <<account, meant, byId, byEmail>> /\ u \in alone /\ CacheOf(u)
        /\ y.at \in {"find email", "read account", "get account", "validate token", "drop sessions"}
    BY DEF Begun, userVars, CacheInv
  <2>3. \A ats : Stale(u, ats) => Stale(u, ats)'
    BY <2>1 DEF Stale, On
  <2>4. Reader(y)'
    BY <2>2 DEF Reader, Caching
  <2>5. \A q \in On(u)' : Reader(req[q])'
    <3> SUFFICES ASSUME NEW q \in On(u)' PROVE Reader(req[q])'
      OBVIOUS
    <3>1. CASE q = r
      BY <2>1, <2>4, <3>1 DEF Reader
    <3>2. CASE q # r
      <4>1. q \in On(u) /\ req'[q] = req[q] /\ Reader(req[q])
        BY <2>1, <2>2, <3>2 DEF CacheOf, On
      <4> QED
        BY <2>2, <4>1 DEF Reader
    <3> QED
      BY <3>1, <3>2
  <2> QED
    BY <2>2, <2>3, <2>5 DEF CacheOf
<1>4. CASE UNCHANGED vars
  BY <1>1, <1>4 DEF vars
<1>5. CASE AuditNext /\ Outside
  BY <1>1, <1>5, AuditAside DEF Outside
<1>6. CASE \E v \in Users : ExpireAccount(v)
  <2>1. PICK v \in Users : ExpireAccount(v)
    BY <1>6
  <2>2. UNCHANGED <<req, alone, account, meant>> /\ CacheOf(u) /\ u \in Users
    BY <2>1 DEF ExpireAccount, Aside, CacheInv, Types
  <2>3. byId'[u] \in {None, byId[u]} /\ byEmail'[u] \in {None, byEmail[u]}
    BY <2>1, <2>2 DEF ExpireAccount, Types, AccountsOK
  <2>4. (\A ats : Stale(u, ats) => Stale(u, ats)') /\ (\A r \in On(u) : Reader(req[r]))'
    BY <2>2 DEF Stale, On, Reader, CacheOf
  <2> QED
    BY <2>2, <2>3, <2>4 DEF CacheOf
<1>7. CASE (\E j \in sessions \cup tokens : ExpireSession(j)) \/ AccessEnds
  BY <1>1, <1>7, AccessEndsSo DEF ExpireSession, Aside
<1>8. CASE Restart
  <2>1. UNCHANGED <<account, meant, byId, byEmail>> /\ u \in alone /\ CacheOf(u)
    BY <1>8 DEF Restart, userVars, Spoil, CacheInv
  <2>2. On(u) = {}
    BY <1>8 DEF Restart, Spoil, On
  <2>3. On(u)' = {}
    BY <1>8 DEF Restart, On, Idle
  <2> QED
    BY <2>1, <2>2, <2>3 DEF CacheOf, Stale
<1> QED
  BY <1>2, <1>3, <1>4, <1>5, <1>6, <1>7, <1>8 DEF Next, AccessEnds

LEMMA NobodyAtFirst == Init => \A u : On(u) = {}
  BY DEF Init, RequestsInit, On, Idle

LEMMA CacheInit == Init => MeetInv /\ CacheInv
<1> SUFFICES ASSUME Init PROVE MeetInv /\ CacheInv
  OBVIOUS
<1>1. \A u : On(u) = {}
  BY NobodyAtFirst
<1>2. \A u \in Users : account[u] = meant[u] /\ byId[u] \in {None, account[u]} /\ byEmail[u] \in {None, account[u]}
  BY DEF Init
<1>3. alone \subseteq Users
  BY InitTypes DEF Types
<1> QED
  BY <1>1, <1>2, <1>3 DEF MeetInv, CacheInv, CacheOf

LEMMA CacheAlways == Spec => [](Types /\ MeetInv /\ CacheInv)
  BY InitTypes, TypesStep, CacheInit, MeetStep, CacheStep, PTL DEF Spec

(* Both copies of an account are its row, as long as no two requests met   *)
(* on it and no cache command failed: the change that is not in both       *)
(* copies yet is still at work (user_service.go:203).                      *)
THEOREM CopiesAreCurrent == Spec => []CachedUserCurrent
<1>1. CacheInv => CachedUserCurrent
  BY DEF CacheInv, CacheOf, CachedUserCurrent, Quiet, Stale, On
<1> QED
  BY <1>1, CacheAlways, PTL

(* A login that met no change of the account is let in by the status and   *)
(* the password that the last changes gave the account, whichever copy it  *)
(* read (user_service.go:240).                                             *)
THEOREM LoginsAreMeant == Spec => []LoginAsMeant
<1>1. Types /\ CacheInv => LoginAsMeant
  <2> SUFFICES ASSUME Types, CacheInv, NEW r \in Requests, req[r].kind = "login",
                      req[r].at \in {"save token", "list token", "create session"}, req[r].key \in alone \cap calm
               PROVE  /\ req[r].held = meant[req[r].key]
                      /\ req[r].held.status = "ACTIVE" /\ req[r].held.password = req[r].arg
    BY DEF LoginAsMeant
  <2>1. r \in On(req[r].key)
    BY DEF Types, RequestsOK, Serving, On
  <2> QED
    BY <2>1 DEF CacheInv, CacheOf, Reader
<1> QED
  BY <1>1, CacheAlways, PTL

-----------------------------------------------------------------------------
(* Tokens.  What the others on the user hold stays as it is.               *)
LEMMA EndersKept ==
  ASSUME Types, NEW r \in Requests, NEW y, Moves(r, y), NEW u, r \in On(u),
         \A q \in On(u) \ {r} : Ender(req[q]) => Ender(req[q])',
         \A q \in On(u) : Ender(req[q]), y # Idle => Ender(y)'
  PROVE  (\A q \in On(u) : Ender(req[q]))'
<1>1. /\ \A p \in Requests : req'[p] = IF p = r THEN y ELSE req[p]
      /\ On(u)' \subseteq On(u)
  BY OnMoves
<1>2. y = Idle => r \notin On(u)'
  BY <1>1 DEF On, Idle
<1> SUFFICES ASSUME NEW q \in On(u)' PROVE Ender(req[q])'
  OBVIOUS
<1>3. q \in On(u) /\ q \in Requests
  BY <1>1 DEF On
<1>4. CASE q = r
  <2>1. req'[q] = y
    BY <1>1, <1>3, <1>4
  <2> QED
    BY <1>2, <1>4, <2>1 DEF Ender
<1>5. CASE q # r
  BY <1>1, <1>3, <1>5
<1> QED
  BY <1>4, <1>5

LEMMA ListingIs ==
  ASSUME Types, NEW r \in Requests, NEW y, Moves(r, y), NEW u, r \in On(u)
  PROVE  /\ \A j \in Listing(u) : j \in Listing(u)' \/ (req[r].at = "list token" /\ j \in req[r].todo)
         /\ y.at = "list token" => y.todo \subseteq Listing(u)'
<1>1. /\ \A p \in Requests : req'[p] = IF p = r THEN y ELSE req[p]
      /\ On(u) \ {r} = On(u)' \ {r}
      /\ y # Idle => On(u)' = On(u)
  BY OnMoves
<1>2. y.at = "list token" => y # Idle
  <2>1. Idle.at = "idle"
    BY DEF Idle
  <2> QED
    BY <2>1
<1>3. y.at = "list token" => y.todo \subseteq Listing(u)'
  BY <1>1, <1>2 DEF Listing
<1>4. \A j \in Listing(u) : j \in Listing(u)' \/ (req[r].at = "list token" /\ j \in req[r].todo)
  <2> SUFFICES ASSUME NEW q \in On(u), req[q].at = "list token", NEW j \in req[q].todo, q # r
               PROVE  j \in Listing(u)'
    BY DEF Listing
  <2>1. q \in On(u)' /\ req'[q] = req[q]
    BY <1>1 DEF On
  <2> QED
    BY <2>1 DEF Listing
<1> QED
  BY <1>3, <1>4

LEMMA OthersEnd ==
  ASSUME Types, MeetInv, NEW r \in Requests, NEW y, Moves(r, y), NEW u \in alone, r \in On(u),
         UNCHANGED ended \/ req[r].kind = "logout"
  PROVE  \A q \in On(u) \ {r} : Ender(req[q]) => Ender(req[q])'
<1> SUFFICES ASSUME NEW q \in On(u) \ {r}, Ender(req[q]) PROVE Ender(req[q])'
  OBVIOUS
<1>1. req[r].kind \in Reads /\ req[q].kind \in Reads
  BY DEF MeetInv
<1>2. UNCHANGED ended
  BY <1>1 DEF Reads
<1>3. req'[q] = req[q] /\ Serving(req[q], There, Issued) /\ req[q].kind \in Kinds
  BY OnMoves DEF On, Types, RequestsOK, RequestType
<1>4. req[q].at \notin {"find tokens", "delete tokens", "block"}
  BY <1>1, <1>3 DEF Serving, Places, Issuing, Caching, Kinds, Reads
<1> QED
  BY <1>2, <1>3, <1>4 DEF Ender

LEMMA TokensWorks ==
  ASSUME Types, MeetInv, NEW r \in Requests, Works(r), NEW u \in alone', u = req[r].key, TokensOf(u)
  PROVE  TokensOf(u)'
<1> PICK x, y : x = req[r] /\ y = req'[r]
  OBVIOUS
<1>1. /\ r \in On(u) /\ u \in Users /\ u \in alone /\ x.at # "idle"
      /\ Moves(r, y) /\ Serving(x, There, Issued) /\ x \in RequestType /\ TokensOK
  BY RequestsMove, AtWork, WorksAside DEF Types, RequestsOK
<1>2. \A next : ~Ignored(r, next)
  BY <1>1, Spoils
<1>3. x.kind \notin Reads => On(u) = {r}
  BY <1>1, MeetsNobody
<1>4. /\ \A i : i \in tokens /\ i[1] = u => i \in index[u] \/ i \in Listing(u)
      /\ \A i : i[1] = u /\ (i \in sessions \/ i \in tokens) => i[2] > ended[u]
      /\ \A i : i[1] = u /\ i \in out => i[2] <= ended[u] /\ (i \in access => i \in blacklist \cup ending)
      /\ Ender(x)
  BY <1>1 DEF TokensOf, OfUser
<1>5. ASSUME NEW next, Continue(r, next) PROVE y = next
  BY <1>5 DEF Continue, Types, RequestsOK
<1>6. ASSUME NEW next, Missed(r, next) PROVE y = next
  BY <1>6 DEF Missed, Types, RequestsOK
<1>7. ASSUME Refuse(r) \/ StepFails(r) PROVE y = Idle
  BY <1>7 DEF Refuse, StepFails, Types, RequestsOK
<1>8. ASSUME NEW at, Goto(r, at) PROVE y = [x EXCEPT !.at = at]
  BY <1>5, <1>8 DEF Goto
<1>9. ASSUME \A i : i \in tokens' /\ i[1] = u => i \in index'[u] \/ i \in Listing(u)',
             \A i : i[1] = u /\ (i \in sessions' \/ i \in tokens') => i[2] > ended'[u],
             \A i : i[1] = u /\ i \in out' => i[2] <= ended'[u] /\ (i \in access' => i \in blacklist' \cup ending'),
             y # Idle => Ender(y)',
             UNCHANGED ended \/ x.kind = "logout"
      PROVE  TokensOf(u)'
  <2>1. \A q \in On(u) \ {r} : Ender(req[q]) => Ender(req[q])'
    BY <1>1, <1>9, OthersEnd
  <2>2. \A q \in On(u) : Ender(req[q])
    BY DEF TokensOf
  <2>3. (\A q \in On(u) : Ender(req[q]))'
    BY <1>1, <1>9, <2>1, <2>2, EndersKept
  <2> QED
    BY <1>9, <2>3 DEF TokensOf, OfUser
<1>10. /\ \A j \in Listing(u) : j \in Listing(u)' \/ (x.at = "list token" /\ j \in x.todo)
       /\ y.at = "list token" => y.todo \subseteq Listing(u)'
  BY <1>1, ListingIs
<1>11. ASSUME UNCHANGED sessionVars, x.at # "list token", y # Idle => Ender(y) PROVE TokensOf(u)'
  <2>1. UNCHANGED <<sessions, tokens, index, access, ending, blacklist, ended, out>>
    BY <1>11 DEF sessionVars
  <2>2. y # Idle => Ender(y)'
    BY <1>11, <2>1 DEF Ender, OfUser
  <2> QED
    BY <1>4, <1>9, <1>10, <1>11, <2>1, <2>2
<1>12. ASSUME NEW at, y.at = at,
              at \notin {"find tokens", "delete tokens", "block", "list token", "create session", "drop session"}
       PROVE  Ender(y) /\ Ender(y)'
  BY <1>12 DEF Ender
<1>13. x.todo \subseteq Issued /\ (\A i \in x.todo : i[1] = u) /\ ended[u] \in Nat /\ issued[u] \in Nat /\ ended[u] <= issued[u]
       /\ \A i \in Issued : i[2] \in Nat /\ (i[1] = u => i[2] <= issued[u])
  BY <1>1 DEF Serving, TokensOK, Issued, Pairs
<1>14. CASE SaveRefreshToken(r)
  <2> PICK j : j = <<u, issued[u] + 1>>
    OBVIOUS
  <2>1. /\ y = [x EXCEPT !.at = "list token", !.todo = {j}] /\ tokens' = tokens \cup {j} /\ x.at = "save token"
        /\ UNCHANGED <<sessions, index, access, ending, blacklist, ended, out>>
    BY <1>2, <1>5, <1>14 DEF SaveRefreshToken, At
  <2>2. y.at = "list token" /\ y.todo = {j} /\ y.key = u
    BY <1>1, <2>1 DEF RequestType
  <2>3. j[2] > ended[u]
    BY <1>13
  <2>4. Ender(y)'
    BY <2>1, <2>2, <2>3 DEF Ender
  <2>5. \A i : i \in tokens' /\ i[1] = u => i \in index'[u] \/ i \in Listing(u)'
    BY <1>4, <1>10, <2>1, <2>2
  <2>6. \A i : i[1] = u /\ (i \in sessions' \/ i \in tokens') => i[2] > ended'[u]
    BY <1>4, <2>1, <2>3
  <2> QED
    BY <1>4, <1>9, <2>1, <2>4, <2>5, <2>6
<1>15. CASE ListRefreshToken(r)
  <2>1. /\ y = [x EXCEPT !.at = "create session"] /\ index' = [index EXCEPT ![u] = index[u] \cup x.todo]
        /\ UNCHANGED <<sessions, tokens, access, ending, blacklist, ended, out>> /\ x.at = "list token"
    BY <1>2, <1>5, <1>15 DEF ListRefreshToken, Listed, At
  <2>2. y.at = "create session" /\ y.todo = x.todo /\ y.key = u
    BY <1>1, <2>1 DEF RequestType
  <2>3. \A i \in x.todo : i[2] > ended[u]
    BY <1>4, <2>1 DEF Ender
  <2>4. Ender(y)'
    BY <2>1, <2>2, <2>3 DEF Ender
  <2>5. index'[u] = index[u] \cup x.todo
    BY <1>1, <2>1 DEF TokensOK
  <2>6. \A i : i \in tokens' /\ i[1] = u => i \in index'[u] \/ i \in Listing(u)'
    BY <1>4, <1>10, <2>1, <2>5
  <2> QED
    BY <1>4, <1>9, <2>1, <2>4, <2>6
<1>16. CASE CreateSession(r)
  <2>1. /\ sessions' = sessions \cup x.todo /\ (access' = access \cup x.todo \/ access' = access) /\ x.at = "create session"
        /\ UNCHANGED <<tokens, index, ending, blacklist, ended, out>>
        /\ \E at \in {"log", "drop session"} : y = [x EXCEPT !.at = at]
    BY <1>8, <1>16 DEF CreateSession, At
  <2>2. y.at \in {"log", "drop session"} /\ y.todo = x.todo /\ y.key = u
    BY <1>1, <2>1 DEF RequestType
  <2>3. \A i \in x.todo : i[2] > ended[u] /\ i[2] \in Nat
    BY <1>4, <1>13, <2>1 DEF Ender
  <2>4. Ender(y)'
    BY <2>1, <2>2, <2>3 DEF Ender
  <2>5. \A i : i[1] = u /\ (i \in sessions' \/ i \in tokens') => i[2] > ended'[u]
    BY <1>4, <2>1, <2>3
  <2>6. \A i \in x.todo : i \notin out
    BY <1>4, <1>13, <2>3
  <2>7. \A i : i[1] = u /\ i \in out' => i[2] <= ended'[u] /\ (i \in access' => i \in blacklist' \cup ending')
    BY <1>4, <2>1, <2>6
  <2> QED
    BY <1>4, <1>9, <1>10, <2>1, <2>4, <2>5, <2>7
<1>17. CASE DeleteByJTI(r)
  <2>1. /\ sessions' = sessions \ {x.arg} /\ access' = access \cup x.todo /\ x.at = "drop session" /\ y = Idle
        /\ UNCHANGED <<tokens, index, ending, blacklist, ended, out>>
    BY <1>5, <1>17 DEF DeleteByJTI, Answer, At
  <2>2. \A i \in x.todo : i[2] > ended[u] /\ i[2] \in Nat
    BY <1>4, <1>13, <2>1 DEF Ender
  <2>3. \A i \in x.todo : i \notin out
    BY <1>4, <1>13, <2>2
  <2>4. \A i : i[1] = u /\ i \in out' => i[2] <= ended'[u] /\ (i \in access' => i \in blacklist' \cup ending')
    BY <1>4, <2>1, <2>3
  <2> QED
    BY <1>4, <1>9, <1>10, <2>1, <2>4
<1>18. CASE DeleteByUserID(r)
  <2>1. /\ sessions' = sessions \ OfUser(u, sessions) /\ y = [x EXCEPT !.at = "find tokens"] /\ x.at = "drop sessions"
        /\ UNCHANGED <<tokens, index, access, ending, blacklist, ended, out>>
    BY <1>8, <1>18 DEF DeleteByUserID, At
  <2>2. y.at = "find tokens" /\ y.key = u
    BY <1>1, <2>1 DEF RequestType
  <2>3. Ender(y)'
    BY <2>1, <2>2 DEF Ender, OfUser
  <2> QED
    BY <1>4, <1>9, <1>10, <2>1, <2>3
<1>19. CASE FindTokens(r)
  <2>1. /\ y = [x EXCEPT !.at = "delete tokens", !.todo = index[u]] /\ x.at = "find tokens" /\ UNCHANGED sessionVars
    BY <1>2, <1>5, <1>19 DEF FindTokens, At
  <2>2. y.at = "delete tokens" /\ y.todo = index[u] /\ y.key = u
    BY <1>1, <2>1 DEF RequestType
  <2>3. x.kind = "logout"
    BY <1>1, <2>1 DEF Serving, Places, Issuing, Caching, RequestType, Kinds
  <2>4. Listing(u) = {}
    BY <1>3, <2>1, <2>3 DEF Listing, Reads
  <2>5. Ender(y)
    BY <1>4, <2>1, <2>2, <2>4 DEF Ender, OfUser
  <2> QED
    BY <1>11, <2>1, <2>5
<1>20. CASE DeleteUserTokens(r)
  <2>1. x.at = "delete tokens" /\ UNCHANGED <<sessions, access, ending, blacklist, ended, out>>
    BY <1>20 DEF DeleteUserTokens, At
  <2>2. CASE \E j \in x.todo : y = [x EXCEPT !.todo = x.todo \ {j}] /\ tokens' = tokens \ {j} /\ UNCHANGED index
    <3>1. PICK j \in x.todo : y = [x EXCEPT !.todo = x.todo \ {j}] /\ tokens' = tokens \ {j} /\ UNCHANGED index
      BY <2>2
    <3>2. y.at = "delete tokens" /\ y.todo = x.todo \ {j} /\ y.key = u
      BY <1>1, <2>1, <3>1 DEF RequestType
    <3>3. Ender(y)'
      BY <1>4, <2>1, <3>1, <3>2 DEF Ender, OfUser
    <3> QED
      BY <1>4, <1>9, <1>10, <2>1, <3>1, <3>3
  <2>3. CASE x.todo = {} /\ y = [x EXCEPT !.at = "block", !.todo = {}] /\ UNCHANGED tokens /\ index' = [index EXCEPT ![u] = {}]
    <3>1. y.at = "block" /\ y.todo = {} /\ y.key = u
      BY <1>1, <2>3 DEF RequestType
    <3>2. OfUser(u, tokens) = {}
      BY <1>4, <2>1, <2>3 DEF Ender
    <3>3. Ender(y)'
      BY <1>4, <2>1, <2>3, <3>1, <3>2 DEF Ender, OfUser
    <3>4. \A i : i \in tokens' /\ i[1] = u => i \in index'[u] \/ i \in Listing(u)'
      BY <2>3, <3>2 DEF OfUser
    <3> QED
      BY <1>4, <1>9, <2>1, <2>3, <3>3, <3>4
  <2> QED
    BY <1>2, <1>5, <1>20, <2>2, <2>3 DEF DeleteUserTokens
<1>21. CASE BlacklistAccessToken(r)
  <2>1. /\ x.at = "block" /\ y = Idle /\ ended' = [ended EXCEPT ![u] = issued[u]] /\ out' = out \cup {x.arg}
        /\ (x.arg \in access \ ending => blacklist' = blacklist \cup {x.arg})
        /\ (x.arg \notin access \ ending => blacklist' = blacklist)
        /\ UNCHANGED <<sessions, tokens, index, access, ending>>
    BY <1>2, <1>5, <1>21 DEF BlacklistAccessToken, Answer, At
  <2>2. x.kind = "logout" /\ x.arg \in Issued
    BY <1>1, <2>1 DEF Serving, Places, Issuing, Caching, RequestType, Kinds
  <2>3. ended'[u] = issued[u]
    BY <1>1, <2>1 DEF TokensOK
  <2>4. \A i : i[1] = u => i \notin sessions /\ i \notin tokens
    BY <1>4, <2>1 DEF Ender, OfUser
  <2>5. \A i : i[1] = u /\ i \in out' => i[2] <= ended'[u] /\ (i \in access' => i \in blacklist' \cup ending')
    BY <1>1, <1>4, <1>13, <2>1, <2>2, <2>3 DEF TokensOK
  <2> QED
    BY <1>9, <2>1, <2>2, <2>4, <2>5
<1>22. CASE Log(r) \/ Fails(r)
  <2>1. UNCHANGED sessionVars /\ x.at # "list token"
    BY <1>22 DEF Log, Fails, Statements, At
  <2>2. y = Idle
    BY <1>2, <1>5, <1>7, <1>22 DEF Log, Ingest, Fails, Answer
  <2> QED
    BY <1>11, <2>1, <2>2
<1>23. CASE FindEmail(r) \/ InsertUser(r) \/ SaveUser(r) \/ WriteStatus(r) \/ ReadAgain(r) \/ CacheId(r)
  <2>1. UNCHANGED sessionVars /\ x.at # "list token"
    BY <1>23 DEF FindEmail, InsertUser, SaveUser, WriteStatus, ReadAgain, CacheId, At
  <2>2. y = Idle \/ y.at \in {"insert user", "cache id", "read again", "cache email"}
    <3>1. CASE FindEmail(r)
      <4>1. Refuse(r) \/ y = [x EXCEPT !.at = "insert user"]
        BY <1>5, <1>6, <3>1 DEF FindEmail
      <4> QED
        BY <1>1, <1>7, <4>1 DEF RequestType
    <3>2. CASE InsertUser(r)
      <4> DEFINE row == Account(x.arg, First10)
      <4>1. Refuse(r) \/ y = [x EXCEPT !.at = "cache id", !.held = row, !.wrote = TRUE]
        BY <1>5, <3>2 DEF InsertUser
      <4> HIDE DEF row
      <4> QED
        BY <1>1, <1>7, <4>1 DEF RequestType
    <3>3. CASE SaveUser(r) \/ WriteStatus(r)
      <4>1. y = [x EXCEPT !.at = "cache id", !.wrote = TRUE] \/ y = [x EXCEPT !.at = "read again", !.wrote = TRUE]
        BY <1>5, <3>3 DEF SaveUser, WriteStatus, Wrote
      <4> QED
        BY <1>1, <4>1 DEF RequestType
    <3>4. CASE ReadAgain(r) \/ CacheId(r)
      <4>1. y = [x EXCEPT !.at = "cache id", !.held = account[u]] \/ y = [x EXCEPT !.at = "cache email"]
        BY <1>2, <1>5, <1>8, <3>4 DEF ReadAgain, CacheId, CachedByStatus
      <4> QED
        BY <1>1, <4>1 DEF RequestType
    <3> QED
      BY <1>23, <3>1, <3>2, <3>3, <3>4
  <2> QED
    BY <1>11, <1>12, <2>1, <2>2
<1>24. CASE GetByID(r) \/ CacheEmail(r)
  <2>1. UNCHANGED sessionVars /\ x.at # "list token"
    BY <1>24 DEF GetByID, CacheEmail, At
  <2>2. y = Idle \/ y.at \in {"save user", "set status", "cache id", "log", "authenticate", "save token"}
    <3>1. Refuse(r) \/ y = AfterRead(r, account[u]) \/ y = AfterCache(r)
      BY <1>2, <1>5, <1>24 DEF GetByID, CacheEmail
    <3>2. CASE y = AfterRead(r, account[u])
      BY <1>1, <3>2 DEF AfterRead, RequestType
    <3>3. CASE y = AfterCache(r)
      BY <1>1, <3>3 DEF AfterCache, RequestType
    <3> QED
      BY <1>7, <3>1, <3>2, <3>3
  <2> QED
    BY <1>11, <1>12, <2>1, <2>2
<1>25. CASE GetAccount(r) \/ Authenticate(r) \/ ValidateRefreshToken(r) \/ GetByJTI(r)
  <2>1. UNCHANGED sessionVars /\ x.at # "list token"
    BY <1>25 DEF GetAccount, Authenticate, ValidateRefreshToken, GetByJTI, At
  <2>2. y = Idle \/ y.at \in {"read account", "authenticate", "save token", "get account", "find session"}
    <3>1. \/ Refuse(r)
          \/ \E at \in {"read account", "save token", "get account", "find session"} : y = [x EXCEPT !.at = at]
          \/ \E at \in {"authenticate", "save token"} : \E row : y = [x EXCEPT !.at = at, !.held = row]
      BY <1>5, <1>6, <1>8, <1>25 DEF GetAccount, Authenticate, ValidateRefreshToken, GetByJTI
    <3> QED
      BY <1>1, <1>7, <3>1 DEF RequestType
  <2> QED
    BY <1>11, <1>12, <2>1, <2>2
<1> QED
  BY <1>14, <1>15, <1>16, <1>17, <1>18, <1>19, <1>20, <1>21, <1>22, <1>23, <1>24, <1>25
     DEF Works

LEMMA TokenStep == Types /\ MeetInv /\ TokenInv /\ [Next]_vars => TokenInv'
<1> SUFFICES ASSUME Types, MeetInv, TokenInv, [Next]_vars, NEW u \in alone' PROVE TokensOf(u)'
  BY DEF TokenInv
<1>1. ASSUME NEW r \in Requests, Works(r) PROVE TokensOf(u)'
  <2>1. u \in alone /\ u \in Users /\ TokensOf(u)
    BY <1>1, WorksAside DEF TokenInv, Types
  <2>2. CASE u = req[r].key
    BY <1>1, <2>1, <2>2, TokensWorks
  <2>3. CASE u # req[r].key
    BY <1>1, <2>1, <2>3, Elsewhere, SameUserKeeps, WorksTypes
  <2> QED
    BY <2>2, <2>3
<1>2. ASSUME UNCHANGED <<req, sessionVars>>, u \in alone PROVE TokensOf(u)'
  <2>1. UNCHANGED <<req, sessions, tokens, index, access, ending, blacklist, ended, out>> /\ TokensOf(u)
    BY <1>2 DEF TokenInv, sessionVars
  <2>2. Listing(u)' = Listing(u) /\ (\A r \in On(u) : Ender(req[r]))'
    BY <2>1 DEF Listing, On, Ender, OfUser, TokensOf
  <2> QED
    BY <2>1, <2>2 DEF TokensOf, OfUser
<1>3. ASSUME NEW r \in Requests, Asked(r) PROVE TokensOf(u)'
  <2> PICK y : Begun(r, y)
    BY <1>3, AskedBegins
  <2>1. /\ \A q \in Requests : req'[q] = IF q = r THEN y ELSE req[q]
        /\ y.on = {y.key} /\ y.key \in Users
        /\ \A v : r \notin On(v) /\ On(v)' = IF v = y.key THEN On(v) \cup {r} ELSE On(v)
    BY OnBegun
  <2>2. /\ UNCHANGED <<sessions, tokens, index, access, ending, blacklist, ended, out>> /\ u \in alone /\ TokensOf(u)
        /\ y.at \in {"find email", "read account", "get account", "validate token", "drop sessions"}
    BY DEF Begun, sessionVars, TokenInv
  <2>3. Listing(u) \subseteq Listing(u)'
    <3> SUFFICES ASSUME NEW q \in On(u), req[q].at = "list token", NEW j \in req[q].todo PROVE j \in Listing(u)'
      BY DEF Listing
    <3>1. q \in On(u)' /\ req'[q] = req[q]
      BY <2>1 DEF On
    <3> QED
      BY <3>1 DEF Listing
  <2>4. \A q \in On(u)' : Ender(req[q])'
    <3> SUFFICES ASSUME NEW q \in On(u)' PROVE Ender(req[q])'
      OBVIOUS
    <3>1. CASE q = r
      BY <2>1, <2>2, <3>1 DEF Ender
    <3>2. CASE q # r
      <4>1. q \in On(u) /\ req'[q] = req[q] /\ Ender(req[q])
        BY <2>1, <2>2, <3>2 DEF TokensOf, On
      <4> QED
        BY <2>2, <4>1 DEF Ender, OfUser
    <3> QED
      BY <3>1, <3>2
  <2> QED
    BY <2>2, <2>3, <2>4 DEF TokensOf, OfUser
<1>4. CASE UNCHANGED vars
  BY <1>2, <1>4 DEF vars
<1>5. CASE AuditNext /\ Outside
  BY <1>2, <1>5, AuditAside DEF Outside
<1>6. CASE \E v \in Users : ExpireAccount(v)
  BY <1>2, <1>6 DEF ExpireAccount, Aside
<1>7. CASE (\E j \in sessions \cup tokens : ExpireSession(j)) \/ AccessEnds
  <2>1. UNCHANGED <<req, alone, index, ended, out>> /\ TokensOf(u)
    BY <1>7, AccessEndsSo DEF ExpireSession, Aside, TokenInv
  <2>2. /\ sessions' \subseteq sessions /\ tokens' \subseteq tokens
        /\ \A i \in access' : i \in access /\ (i \in blacklist \cup ending => i \in blacklist' \cup ending')
    BY <1>7, AccessEndsSo DEF ExpireSession
  <2>3. Listing(u)' = Listing(u)
    BY <2>1 DEF Listing, On
  <2>4. \A r \in On(u) : Ender(req[r]) => Ender(req[r])'
    BY <2>1, <2>2 DEF Ender, OfUser
  <2>5. (\A r \in On(u) : Ender(req[r]))'
    BY <2>1, <2>4 DEF On, TokensOf
  <2> QED
    BY <2>1, <2>2, <2>3, <2>5 DEF TokensOf, OfUser
<1>8. CASE Restart
  <2>1. /\ UNCHANGED <<sessions, access, ending, blacklist, ended, out>> /\ u \in alone /\ u \in Users /\ TokensOf(u)
        /\ tokens' = tokens \cup sessions /\ index' = [v \in Users |-> index[v] \cup OfUser(v, sessions)]
    BY <1>8 DEF Restart, Spoil, TokenInv, Types
  <2>2. On(u) = {}
    BY <1>8 DEF Restart, Spoil, On
  <2>3. On(u)' = {}
    BY <1>8 DEF Restart, On, Idle
  <2>4. Listing(u) = {}
    BY <2>2 DEF Listing
  <2> QED
    BY <2>1, <2>3, <2>4 DEF TokensOf, OfUser
<1> QED
  BY <1>1, <1>3, <1>4, <1>5, <1>6, <1>7, <1>8 DEF Next, AccessEnds

LEMMA TokenInit == Init => TokenInv
<1> SUFFICES ASSUME Init, NEW u \in alone PROVE TokensOf(u)
  BY DEF TokenInv
<1>1. On(u) = {} /\ u \in Users
  BY NobodyAtFirst, InitTypes DEF Types
<1>2. tokens = sessions /\ index[u] = OfUser(u, sessions) /\ ended[u] = 0 /\ out = {} /\ sessions \subseteq Issued
  BY <1>1, InitTypes DEF Init, Types, TokensOK
<1>3. \A j \in Issued : j[2] > 0
  BY DEF Issued, Pairs
<1> QED
  BY <1>1, <1>2, <1>3 DEF TokensOf, OfUser

LEMMA TokenAlways == Spec => [](Types /\ MeetInv /\ TokenInv)
  BY InitTypes, TypesStep, CacheInit, MeetStep, TokenInit, TokenStep, PTL DEF Spec

(* After a logout that met no other request of the user and ignored no     *)
(* error, no session or token from before it is left, and none comes back  *)
(* with a restart, although the tokens are listed apart from the sessions; *)
(* the access token is blocked until the last second before it expires     *)
(* (auth_service.go:220).                                                  *)
THEOREM LogoutsEndAll == Spec => []LoggedOut
<1>1. TokenInv => LoggedOut
  BY DEF TokenInv, TokensOf, LoggedOut
<1> QED
  BY <1>1, TokenAlways, PTL

-----------------------------------------------------------------------------
(* Entries of the log.                                                     *)
LEMMA OwingIs ==
  ASSUME Types, NEW r \in Requests, NEW y, Moves(r, y), NEW u, r \in On(u), NEW a \in Actions
  PROVE  /\ Cardinality(Owing(u, a)) \in Nat /\ Cardinality(Owing(u, a))' \in Nat
         /\ (Owes(req[r], a) <=> Owes(y, a)) => Cardinality(Owing(u, a))' = Cardinality(Owing(u, a))
         /\ ~Owes(req[r], a) /\ Owes(y, a) => Cardinality(Owing(u, a))' = Cardinality(Owing(u, a)) + 1
         /\ Owes(req[r], a) /\ ~Owes(y, a) => Cardinality(Owing(u, a)) = Cardinality(Owing(u, a))' + 1
<1> DEFINE others == Owing(u, a) \ {r}
<1>1. /\ \A p \in Requests : req'[p] = IF p = r THEN y ELSE req[p]
      /\ On(u) \ {r} = On(u)' \ {r}
      /\ y # Idle => On(u)' = On(u)
  BY OnMoves
<1>2. y = Idle => ~Owes(y, a)
  <2>1. Idle.kind = "none"
    BY DEF Idle
  <2> QED
    BY <2>1 DEF Owes, Actions
<1>3. Owing(u, a) = others \cup (IF Owes(req[r], a) THEN {r} ELSE {})
  BY DEF Owing
<1>4. Owing(u, a)' = others \cup (IF Owes(y, a) THEN {r} ELSE {})
  <2>1. \A q \in On(u) \ {r} : req'[q] = req[q]
    BY <1>1 DEF On
  <2>2. others = {q \in On(u) \ {r} : Owes(req[q], a)}
    BY DEF Owing
  <2>3. Owing(u, a)' \ {r} = {q \in On(u) \ {r} : Owes(req'[q], a)}
    BY <1>1 DEF Owing
  <2>4. r \in Owing(u, a)' <=> Owes(y, a)
    <3>1. r \in On(u)' => req'[r] = y
      BY <1>1
    <3>2. Owes(y, a) => r \in On(u)' /\ req'[r] = y
      BY <1>1, <1>2
    <3> QED
      BY <3>1, <3>2 DEF Owing
  <2>5. Owing(u, a)' \ {r} = others
    BY <2>1, <2>2, <2>3
  <2> QED
    BY <2>4, <2>5
<1>5. IsFiniteSet(others) /\ r \notin others
  BY RequestsAssumption, FS_Subset DEF Owing, On
<1> HIDE DEF others
<1>6. Cardinality(others) \in Nat /\ Cardinality(others \cup {r}) = Cardinality(others) + 1 /\ others \cup {} = others
  BY <1>5, FS_AddElement, FS_CardinalityType
<1>7. (Owes(req[r], a) => Owing(u, a) = others \cup {r}) /\ (~Owes(req[r], a) => Owing(u, a) = others)
  BY <1>3
<1>8. (Owes(y, a) => Owing(u, a)' = others \cup {r}) /\ (~Owes(y, a) => Owing(u, a)' = others)
  BY <1>4
<1>9. /\ Owes(req[r], a) => Cardinality(Owing(u, a)) = Cardinality(others) + 1
      /\ ~Owes(req[r], a) => Cardinality(Owing(u, a)) = Cardinality(others)
  BY <1>6, <1>7
<1>10. /\ Owes(y, a) => Cardinality(Owing(u, a))' = Cardinality(others) + 1
       /\ ~Owes(y, a) => Cardinality(Owing(u, a))' = Cardinality(others)
  BY <1>6, <1>8
<1>11. ASSUME NEW n \in Nat, NEW old, NEW new, NEW P, NEW Q,
              P => old = n + 1, ~P => old = n, Q => new = n + 1, ~Q => new = n
       PROVE  /\ old \in Nat /\ new \in Nat
              /\ (P <=> Q) => new = old
              /\ ~P /\ Q => new = old + 1
              /\ P /\ ~Q => old = new + 1
  BY <1>11
<1> QED
  BY <1>6, <1>9, <1>10, <1>11

LEMMA EntriesWorks ==
  ASSUME Types, MeetInv, NEW r \in Requests, Works(r), NEW u \in alone', u = req[r].key, EntriesOf(u)
  PROVE  EntriesOf(u)'
<1> PICK x, y : x = req[r] /\ y = req'[r]
  OBVIOUS
<1>1. /\ r \in On(u) /\ u \in Users /\ x.at # "idle"
      /\ Moves(r, y) /\ Serving(x, There, Issued) /\ x \in RequestType
      /\ log \in [Users -> [Actions -> Nat]] /\ owed \in [Users -> [Actions -> Nat]]
  BY RequestsMove, AtWork DEF Types, RequestsOK, EntriesOK
<1>2. \A next : ~Ignored(r, next)
  BY <1>1, Spoils
<1>3. \A a \in Actions : owed[u][a] = log[u][a] + Cardinality(Owing(u, a))
  BY DEF EntriesOf
<1>4. \A a \in Actions :
        /\ Cardinality(Owing(u, a)) \in Nat /\ Cardinality(Owing(u, a))' \in Nat
        /\ (Owes(x, a) <=> Owes(y, a)) => Cardinality(Owing(u, a))' = Cardinality(Owing(u, a))
        /\ ~Owes(x, a) /\ Owes(y, a) => Cardinality(Owing(u, a))' = Cardinality(Owing(u, a)) + 1
        /\ Owes(x, a) /\ ~Owes(y, a) => Cardinality(Owing(u, a)) = Cardinality(Owing(u, a))' + 1
  BY <1>1, OwingIs
<1>5. ASSUME NEW next, Continue(r, next) PROVE y = next
  BY <1>5 DEF Continue, Types, RequestsOK
<1>6. ASSUME NEW next, Missed(r, next) PROVE y = next
  BY <1>6 DEF Missed, Types, RequestsOK
<1>7. ASSUME Refuse(r) \/ StepFails(r) PROVE y = Idle
  BY <1>7 DEF Refuse, StepFails, Types, RequestsOK
<1>8. ASSUME NEW at, Goto(r, at) PROVE y = [x EXCEPT !.at = at]
  BY <1>5, <1>8 DEF Goto
<1>9. ASSUME NEW b \in Actions, Owe(u, b), UNCHANGED log,
             \A a \in Actions : ~Owes(x, a) /\ (Owes(y, a) <=> a = b)
      PROVE  EntriesOf(u)'
  <2>1. \A a \in Actions : owed'[u][a] = IF a = b THEN owed[u][a] + 1 ELSE owed[u][a]
    BY <1>1, <1>9 DEF Owe
  <2>2. \A a \in Actions : owed'[u][a] = log'[u][a] + Cardinality(Owing(u, a))'
    <3> SUFFICES ASSUME NEW a \in Actions PROVE owed'[u][a] = log'[u][a] + Cardinality(Owing(u, a))'
      OBVIOUS
    <3>1. log[u][a] \in Nat /\ owed[u][a] \in Nat
      BY <1>1
    <3> QED
      BY <1>3, <1>4, <1>9, <2>1, <3>1
  <2> QED
    BY <2>2 DEF EntriesOf
<1>10. ASSUME UNCHANGED <<log, owed>>, \A a \in Actions : Owes(x, a) <=> Owes(y, a)
       PROVE  EntriesOf(u)'
  BY <1>3, <1>4, <1>10 DEF EntriesOf
<1>11. ASSUME UNCHANGED <<log, owed>>, \A a \in Actions : ~Owes(x, a), \A a \in Actions : ~Owes(y, a)
       PROVE  EntriesOf(u)'
  BY <1>10, <1>11
<1>12. \A a \in Actions : ~Owes(Idle, a)
  <2>1. Idle.kind = "none"
    BY DEF Idle
  <2> QED
    BY <2>1 DEF Owes, Actions
<1>13. \A z : z.at \notin Caching \cup {"log"} \/ z.kind \notin {"create user", "change password", "login"}
          => \A a \in Actions : ~Owes(z, a)
  BY DEF Owes, Actions
<1>14. CASE InsertUser(r)
  <2>1. x.at = "insert user" /\ x.kind = "create user" /\ UNCHANGED log
    BY <1>1, <1>14
       DEF InsertUser, At, auditVars, Serving, Places, Issuing, Caching, RequestType, Kinds
  <2>2. CASE account[u] # None
    BY <1>7, <1>11, <1>12, <1>13, <1>14, <2>1, <2>2 DEF InsertUser, Caching
  <2>3. CASE account[u] = None
    <3> DEFINE row == Account(x.arg, First10)
    <3>1. y = [x EXCEPT !.at = "cache id", !.held = row, !.wrote = TRUE] /\ Owe(u, "CREATE")
      BY <1>5, <1>14, <2>3 DEF InsertUser
    <3> HIDE DEF row
    <3>2. y.at = "cache id" /\ y.kind = "create user"
      BY <1>1, <2>1, <3>1 DEF RequestType
    <3>3. \A a \in Actions : ~Owes(x, a) /\ (Owes(y, a) <=> a = "CREATE")
      BY <2>1, <3>2 DEF Owes, Actions, Caching
    <3> QED
      BY <1>9, <2>1, <3>1, <3>3 DEF Actions
  <2> QED
    BY <2>2, <2>3
<1>15. CASE SaveUser(r)
  <2>1. x.at = "save user" /\ UNCHANGED log /\ y = [x EXCEPT !.at = "cache id", !.wrote = TRUE]
    BY <1>5, <1>15 DEF SaveUser, Wrote, At, auditVars
  <2>2. y.at = "cache id" /\ y.kind = x.kind /\ x.kind \in {"update user", "change password"}
    BY <1>1, <2>1 DEF Serving, Places, Issuing, Caching, RequestType, Kinds
  <2>3. CASE x.kind = "change password"
    <3>1. \A a \in Actions : ~Owes(x, a) /\ (Owes(y, a) <=> a = "UPDATE")
      BY <2>1, <2>2, <2>3 DEF Owes, Actions, Caching
    <3>2. Owe(u, "UPDATE")
      BY <1>15, <2>3 DEF SaveUser
    <3> QED
      BY <1>9, <2>1, <3>1, <3>2 DEF Actions
  <2>4. CASE x.kind = "update user"
    BY <1>11, <1>13, <1>15, <2>1, <2>2, <2>4 DEF SaveUser
  <2> QED
    BY <2>2, <2>3, <2>4
<1>16. CASE CreateSession(r)
  <2>1. x.at = "create session" /\ UNCHANGED log
    BY <1>16 DEF CreateSession, At, auditVars
  <2>2. CASE x.kind = "login"
    <3>1. y = [x EXCEPT !.at = "log"] /\ Owe(u, "LOGIN")
      BY <1>8, <1>16, <2>2 DEF CreateSession
    <3>2. y.at = "log" /\ y.kind = "login"
      BY <1>1, <2>2, <3>1 DEF RequestType
    <3>3. \A a \in Actions : ~Owes(x, a) /\ (Owes(y, a) <=> a = "LOGIN")
      BY <2>1, <3>2 DEF Owes, Actions, Caching
    <3> QED
      BY <1>9, <2>1, <3>1, <3>3 DEF Actions
  <2>3. CASE x.kind # "login"
    <3>1. y = [x EXCEPT !.at = "drop session"] /\ UNCHANGED owed
      BY <1>8, <1>16, <2>3 DEF CreateSession
    <3>2. y.at = "drop session"
      BY <1>1, <3>1 DEF RequestType
    <3> QED
      BY <1>11, <1>13, <2>1, <3>1, <3>2 DEF Caching
  <2> QED
    BY <2>2, <2>3
<1>17. CASE Log(r)
  <2> DEFINE b == CASE x.kind = "login" -> "LOGIN" [] x.kind = "create user" -> "CREATE" [] OTHER -> "UPDATE"
  <2>1. x.at = "log" /\ y = Idle /\ UNCHANGED owed /\ log' = [log EXCEPT ![u][b] = log[u][b] + 1]
    BY <1>2, <1>5, <1>17 DEF Log, Ingest, Answer, At
  <2>2. x.kind \in {"create user", "change password", "login"}
    BY <1>1, <2>1 DEF Serving, Places, Issuing, Caching, RequestType, Kinds
  <2>3. b \in Actions /\ \A a \in Actions : Owes(x, a) <=> a = b
    BY <2>1, <2>2 DEF Owes, Actions
  <2> HIDE DEF b
  <2>4. \A a \in Actions : log'[u][a] = IF a = b THEN log[u][a] + 1 ELSE log[u][a]
    BY <1>1, <2>1, <2>3
  <2>5. \A a \in Actions : owed'[u][a] = log'[u][a] + Cardinality(Owing(u, a))'
    <3> SUFFICES ASSUME NEW a \in Actions PROVE owed'[u][a] = log'[u][a] + Cardinality(Owing(u, a))'
      OBVIOUS
    <3>1. log[u][a] \in Nat /\ owed[u][a] \in Nat
      BY <1>1
    <3> QED
      BY <1>3, <1>4, <1>12, <2>1, <2>3, <2>4, <3>1
  <2> QED
    BY <2>5 DEF EntriesOf
<1>18. CASE CacheId(r)
  <2>1. UNCHANGED <<log, owed>> /\ x.at = "cache id" /\ y = [x EXCEPT !.at = "cache email"]
    BY <1>2, <1>8, <1>18 DEF CacheId, At, auditVars
  <2>2. y.at = "cache email" /\ y.kind = x.kind
    BY <1>1, <2>1 DEF RequestType
  <2>3. \A a \in Actions : Owes(x, a) <=> Owes(y, a)
    BY <2>1, <2>2 DEF Owes, Actions, Caching
  <2> QED
    BY <1>10, <2>1, <2>3
<1>19. CASE CacheEmail(r)
  <2>1. UNCHANGED <<log, owed>> /\ x.at = "cache email" /\ y = AfterCache(r)
    BY <1>2, <1>5, <1>19 DEF CacheEmail, At, auditVars
  <2>2. CASE x.kind \in {"create user", "change password"}
    <3>1. y.at = "log" /\ y.kind = x.kind
      BY <1>1, <2>1, <2>2 DEF AfterCache, RequestType
    <3>2. \A a \in Actions : Owes(x, a) <=> Owes(y, a)
      BY <2>1, <2>2, <3>1 DEF Owes, Actions, Caching
    <3> QED
      BY <1>10, <2>1, <3>2
  <2>3. CASE x.kind \notin {"create user", "change password"}
    <3>1. \A a \in Actions : ~Owes(x, a)
      BY <2>1, <2>3 DEF Owes, Actions
    <3>2. y = Idle \/ y.at \in {"authenticate", "save token"}
      BY <1>1, <2>1, <2>3 DEF AfterCache, RequestType
    <3> QED
      BY <1>11, <1>12, <1>13, <2>1, <3>1, <3>2 DEF Caching
  <2> QED
    BY <2>2, <2>3
<1>20. CASE Fails(r) \/ DeleteByJTI(r) \/ BlacklistAccessToken(r)
  <2>1. UNCHANGED <<log, owed>> /\ x.at \notin Caching \cup {"log"}
    BY <1>20 DEF Fails, DeleteByJTI, BlacklistAccessToken, Statements, At, auditVars, Caching
  <2>2. y = Idle
    BY <1>2, <1>5, <1>7, <1>20 DEF Fails, DeleteByJTI, BlacklistAccessToken, Answer
  <2> QED
    BY <1>11, <1>12, <1>13, <2>1, <2>2
<1>21. CASE FindEmail(r) \/ WriteStatus(r) \/ GetAccount(r) \/ Authenticate(r) \/ ValidateRefreshToken(r) \/ GetByJTI(r)
  <2>1. UNCHANGED <<log, owed>> /\ x.at \notin Caching \cup {"log"}
    BY <1>21
       DEF FindEmail, WriteStatus, GetAccount, Authenticate, ValidateRefreshToken, GetByJTI,
           At, auditVars, Caching
  <2>2. \/ Refuse(r)
        \/ \E at \in {"insert user", "read account", "save token", "get account", "find session"} : y = [x EXCEPT !.at = at]
        \/ y = [x EXCEPT !.at = "read again", !.wrote = TRUE]
        \/ \E at \in {"authenticate", "save token"} : \E row : y = [x EXCEPT !.at = at, !.held = row]
    <3>1. CASE FindEmail(r) \/ WriteStatus(r)
      BY <1>5, <1>6, <3>1 DEF FindEmail, WriteStatus, Wrote
    <3>2. CASE GetAccount(r) \/ Authenticate(r) \/ ValidateRefreshToken(r) \/ GetByJTI(r)
      BY <1>5, <1>6, <1>8, <3>2 DEF GetAccount, Authenticate, ValidateRefreshToken, GetByJTI
    <3> QED
      BY <1>21, <3>1, <3>2
  <2>3. y = Idle \/ y.at \notin Caching \cup {"log"}
    BY <1>1, <1>7, <2>2 DEF RequestType, Caching
  <2> QED
    BY <1>11, <1>12, <1>13, <2>1, <2>3
<1>22. CASE GetByID(r) \/ ReadAgain(r)
  <2>1. UNCHANGED <<log, owed>> /\ x.at \in {"read account", "read again"}
    BY <1>22 DEF GetByID, ReadAgain, At, auditVars
  <2>2. x.kind # "create user"
    BY <1>1, <2>1 DEF Serving, Places, Issuing, Caching, RequestType, Kinds
  <2>3. y = Idle \/ y.at \notin Caching \cup {"log"} \/ (y.kind = x.kind /\ x.kind # "change password" /\ y.at = "cache id")
    <3>1. CASE Refuse(r)
      BY <1>7, <3>1
    <3>2. CASE y = AfterRead(r, account[u])
      BY <1>1, <3>2 DEF AfterRead, RequestType, Caching
    <3>3. CASE y = [x EXCEPT !.at = "cache id", !.held = account[u]] /\ x.at = "read again"
      <4>1. x.kind = "set status"
        BY <1>1, <3>3 DEF Serving, Places, Issuing, Caching, RequestType, Kinds
      <4> QED
        BY <1>1, <3>3, <4>1 DEF RequestType
    <3> QED
      BY <1>2, <1>5, <1>22, <3>1, <3>2, <3>3 DEF GetByID, ReadAgain, CachedByStatus, At
  <2>4. \A a \in Actions : ~Owes(y, a)
    BY <1>12, <1>13, <2>2, <2>3 DEF Owes, Actions, Caching
  <2> QED
    BY <1>11, <1>13, <2>1, <2>4 DEF Caching
<1>23. CASE SaveRefreshToken(r) \/ ListRefreshToken(r) \/ DeleteByUserID(r)
  <2>1. UNCHANGED <<log, owed>> /\ x.at \notin Caching \cup {"log"}
    BY <1>23 DEF SaveRefreshToken, ListRefreshToken, DeleteByUserID, At, auditVars, Caching
  <2>2. \/ \E todo : y = [x EXCEPT !.at = "list token", !.todo = todo]
        \/ \E at \in {"create session", "find tokens"} : y = [x EXCEPT !.at = at]
    BY <1>2, <1>5, <1>8, <1>23 DEF SaveRefreshToken, ListRefreshToken, DeleteByUserID
  <2>3. y.at \notin Caching \cup {"log"}
    BY <1>1, <2>2 DEF RequestType, Caching
  <2> QED
    BY <1>11, <1>13, <2>1, <2>3
<1>24. CASE FindTokens(r) \/ DeleteUserTokens(r)
  <2>1. UNCHANGED <<log, owed>> /\ x.at \in {"find tokens", "delete tokens"}
    BY <1>24 DEF FindTokens, DeleteUserTokens, At, auditVars
  <2>2. x.kind = "logout"
    BY <1>1, <2>1 DEF Serving, Places, Issuing, Caching, RequestType, Kinds
  <2>3. y.kind = "logout" \/ y = Idle
    BY <1>1, <2>2 DEF Moves, Same
  <2> QED
    BY <1>11, <1>12, <1>13, <2>1, <2>2, <2>3
<1> QED
  BY <1>14, <1>15, <1>16, <1>17, <1>18, <1>19, <1>20, <1>21, <1>22, <1>23, <1>24 DEF Works

LEMMA EntriesStep == Types /\ MeetInv /\ EntriesInv /\ [Next]_vars => EntriesInv'
<1> SUFFICES ASSUME Types, MeetInv, EntriesInv, [Next]_vars, NEW u \in alone' PROVE EntriesOf(u)'
  BY DEF EntriesInv
<1>1. ASSUME NEW r \in Requests, Works(r) PROVE EntriesOf(u)'
  <2>1. u \in alone /\ u \in Users /\ EntriesOf(u)
    BY <1>1, WorksAside DEF EntriesInv, Types
  <2>2. CASE u = req[r].key
    BY <1>1, <2>1, <2>2, EntriesWorks
  <2>3. CASE u # req[r].key
    BY <1>1, <2>1, <2>3, Elsewhere, SameUserKeeps, WorksTypes
  <2> QED
    BY <2>2, <2>3
<1>2. ASSUME UNCHANGED <<log, owed>>, u \in alone, \A a \in Actions : Owing(u, a)' = Owing(u, a) PROVE EntriesOf(u)'
  BY <1>2 DEF EntriesInv, EntriesOf
<1>3. ASSUME UNCHANGED <<log, owed, req, alone>> PROVE EntriesOf(u)'
  <2>1. \A a \in Actions : Owing(u, a)' = Owing(u, a)
    BY <1>3 DEF Owing, On
  <2> QED
    BY <1>2, <1>3, <2>1
<1>4. ASSUME NEW r \in Requests, Asked(r) PROVE EntriesOf(u)'
  <2> PICK y : Begun(r, y)
    BY <1>4, AskedBegins
  <2>1. /\ \A q \in Requests : req'[q] = IF q = r THEN y ELSE req[q]
        /\ y.on = {y.key} /\ y.key \in Users
        /\ \A v : r \notin On(v) /\ On(v)' = IF v = y.key THEN On(v) \cup {r} ELSE On(v)
    BY OnBegun
  <2>2. /\ UNCHANGED <<log, owed>> /\ u \in alone
        /\ y.at \in {"find email", "read account", "get account", "validate token", "drop sessions"}
    BY DEF Begun, auditVars
  <2>3. \A a \in Actions : ~Owes(y, a)
    BY <2>2 DEF Owes, Actions, Caching
  <2>4. ASSUME NEW a \in Actions PROVE Owing(u, a)' = Owing(u, a)
    <3>1. \A q : q \in On(u)' /\ Owes(req'[q], a) <=> q \in On(u) /\ Owes(req[q], a)
      <4>1. \A q \in On(u) : q \in Requests /\ q # r /\ req'[q] = req[q] /\ q \in On(u)'
        BY <2>1 DEF On
      <4>2. \A q \in On(u)' : q \in On(u) \/ (q = r /\ req'[q] = y)
        BY <2>1
      <4> QED
        BY <2>3, <4>1, <4>2
    <3> QED
      BY <3>1 DEF Owing
  <2> QED
    BY <1>2, <2>2, <2>4
<1>5. CASE UNCHANGED vars
  BY <1>3, <1>5 DEF vars, auditVars
<1>6. CASE AuditNext /\ Outside
  BY <1>3, <1>6, AuditAside DEF Outside
<1>7. CASE (\E v \in Users : ExpireAccount(v)) \/ (\E j \in sessions \cup tokens : ExpireSession(j)) \/ AccessEnds
  BY <1>3, <1>7, AccessEndsSo DEF ExpireAccount, ExpireSession, Aside, auditVars
<1>8. CASE Restart
  <2>1. UNCHANGED <<log, owed>> /\ u \in alone
    BY <1>8 DEF Restart, Spoil
  <2>2. On(u) = {}
    BY <1>8 DEF Restart, Spoil, On
  <2>3. On(u)' = {}
    BY <1>8 DEF Restart, On, Idle
  <2>4. \A a \in Actions : Owing(u, a)' = Owing(u, a)
    BY <2>2, <2>3 DEF Owing
  <2> QED
    BY <1>2, <2>1, <2>4
<1> QED
  BY <1>1, <1>4, <1>5, <1>6, <1>7, <1>8 DEF Next, AccessEnds

LEMMA EntriesInit == Init => EntriesInv
<1> SUFFICES ASSUME Init, NEW u \in alone, NEW a \in Actions PROVE owed[u][a] = log[u][a] + Cardinality(Owing(u, a))
  BY DEF EntriesInv, EntriesOf
<1>1. Owing(u, a) = {} /\ u \in Users
  BY NobodyAtFirst, InitTypes DEF Types, Owing
<1>2. owed = log
  BY DEF Init
<1>3. log[u][a] \in Nat
  BY <1>1, InitTypes DEF Types, EntriesOK
<1> QED
  BY <1>1, <1>2, <1>3, FS_EmptySet

LEMMA EntriesAlways == Spec => [](Types /\ MeetInv /\ EntriesInv)
  BY InitTypes, TypesStep, CacheInit, MeetStep, EntriesInit, EntriesStep, PTL DEF Spec

(* Every login, creation and change of password that ended well has its    *)
(* own entry in the log and no other, once the requests of the user are    *)
(* served and if none of them failed half-way (auth_handler.go:76).        *)
THEOREM EntriesAreWritten == Spec => []Audited
<1>1. Types /\ EntriesInv => Audited
  <2> SUFFICES ASSUME Types, EntriesInv, NEW u \in alone, Quiet(u) PROVE log[u] = owed[u]
    BY DEF Audited
  <2>1. On(u) = {}
    BY DEF Quiet, On
  <2>2. \A a \in Actions : owed[u][a] = log[u][a] + 0 /\ log[u][a] \in Nat
    <3>1. \A a : Owing(u, a) = {}
      BY <2>1 DEF Owing
    <3> QED
      BY <3>1, FS_EmptySet DEF EntriesInv, EntriesOf, Types, EntriesOK
  <2>3. log[u] \in [Actions -> Nat] /\ owed[u] \in [Actions -> Nat]
    BY DEF Types, EntriesOK
  <2> QED
    BY <2>2, <2>3
<1> QED
  BY <1>1, EntriesAlways, PTL

=============================================================================
