------------------------------ MODULE Identity ------------------------------
(***************************************************************************)
(* Accounts and sessions of the system service (user_service.go and        *)
(* auth_service.go).  An account is a row of users and two copies in       *)
(* Valkey, by id and by e-mail address; the address never changes and      *)
(* stands here for both.  A session is a row of sessions and a refresh     *)
(* token in Valkey, which an index per user lists for the logout.          *)
(*                                                                         *)
(* The n-th pair of tokens of user u, and its session, is <<u, n>>.        *)
(***************************************************************************)
EXTENDS AuditTrail

CONSTANTS
    Profiles,     \* name and role of an account; "admin" is that of an administrator
    Passwords     \* passwords

ASSUME IdentityAssumption ==
    /\ Subjects = Users
    /\ "admin" \in Profiles /\ Passwords # {}

VARIABLES
    account,     \* users: the row of each user
    byId,        \* Valkey: copy under the id
    byEmail,     \* Valkey: copy under the address
    issued,      \* pairs of tokens generated for each user
    sessions,    \* sessions: rows
    tokens,      \* Valkey: refresh tokens
    index,       \* Valkey: refresh tokens listed for each user
    access,      \* access tokens in the hands of clients that have not expired
    ending,      \* those of them in the last second of their life
    blacklist,   \* Valkey: access tokens of ended sessions
    meant,       \* what the changes that ended well made of each account (history)
    owed,        \* entries that the log should have (history)
    ended,       \* pairs of tokens that the last logout ended, by user (history)
    out          \* access tokens that were used for a logout (history)

userVars == <<account, byId, byEmail, meant>>
sessionVars == <<issued, sessions, tokens, index, access, ending, blacklist, ended, out>>
vars == <<req, alone, calm, calls, faults, auditVars, userVars, sessionVars, owed>>

Statuses == {"ACTIVE", "INACTIVE"}
Account(profile, password) == [profile |-> profile, status |-> "ACTIVE", password |-> password]
AccountType == [profile: Profiles, status: Statuses, password: Passwords]

ASSUME NoAccountAssumption == None \notin AccountType

OfUser(u, S) == {j \in S : j[1] = u}
Owe(u, action) == owed' = [owed EXCEPT ![u][action] = @ + 1]

(* A failed command after which the request takes another way. *)
Missed(r, next) ==
    /\ Fault
    /\ req' = [req EXCEPT ![r] = next]
    /\ UNCHANGED <<alone, calm, calls>>

-----------------------------------------------------------------------------
(* Requests about an account. *)

Start(r, u, at, kind, arg) ==
    /\ Begin(r, {u}, First(at, kind, u, arg))
    /\ UNCHANGED <<auditVars, userVars, sessionVars, owed>>

Create(r, u, profile) == Start(r, u, "find email", "create user", profile)
Update(r, u, profile, by) == Start(r, u, "read account", "update user", [profile |-> profile, by |-> by])
SetStatus(r, u, status) == Start(r, u, "read account", "set status", status)

(* A user proves itself by an access token.  The black list counts as empty *)
(* when Valkey fails.                                                       *)
VerifyAccessToken(a) == a \in access /\ (a \notin blacklist \/ faults < MaxFaults)
ChangePassword(r, u, old, new) ==
    /\ \E a \in OfUser(u, access) : VerifyAccessToken(a)
    /\ Start(r, u, "read account", "change password", [old |-> old, new |-> new])

(* An account that is cached under its id is answered without the database. *)
GetUser(r, u) == byId[u] = None /\ Start(r, u, "read account", "get user", None)

(* The answer of the look-up counts as no account when it fails; the unique *)
(* address then refuses the row.                                            *)
FindEmail(r) ==
    LET next == [req[r] EXCEPT !.at = "insert user"] IN
    /\ At(r, "find email")
    /\ IF account[req[r].key] # None THEN Refuse(r) \/ Missed(r, next) ELSE Continue(r, next)
    /\ UNCHANGED <<auditVars, userVars, sessionVars, owed>>

First10 == CHOOSE p \in Passwords : TRUE   \* the first ten letters of the id
InsertUser(r) ==
    LET u == req[r].key
        row == Account(req[r].arg, First10) IN
    /\ At(r, "insert user")
    /\ IF account[u] # None
       THEN Refuse(r) /\ UNCHANGED <<account, meant, owed>>
       ELSE /\ account' = [account EXCEPT ![u] = row]
            /\ meant' = [meant EXCEPT ![u] = row]
            /\ Owe(u, "CREATE")
            /\ Continue(r, [req[r] EXCEPT !.at = "cache id", !.held = row, !.wrote = TRUE])
    /\ UNCHANGED <<auditVars, byId, byEmail, sessionVars>>

(* An administrator may not change another one. *)
Forbidden(r, row) == req[r].kind = "update user" /\ row.profile = "admin" /\ req[r].arg.by = "another"
WrongPassword(r, row) == req[r].kind = "change password" /\ row.password # req[r].arg.old
AfterRead(r, row) ==
    LET to(at, held) == [req[r] EXCEPT !.at = at, !.held = held] IN
    CASE req[r].kind = "update user"     -> to("save user", [row EXCEPT !.profile = req[r].arg.profile])
      [] req[r].kind = "change password" -> to("save user", [row EXCEPT !.password = req[r].arg.new])
      [] req[r].kind = "set status"      -> to("set status", None)
      [] OTHER                           -> to("cache id", row)
GetByIDUnchecked(r) ==
    LET row == account[req[r].key] IN
    /\ At(r, "read account")
    /\ IF req[r].kind = "get user" THEN Continue(r, AfterRead(r, row))
       ELSE IF row = None THEN Refuse(r)
       ELSE IF Forbidden(r, row) \/ WrongPassword(r, row) THEN Refuse(r)
       ELSE Continue(r, AfterRead(r, row))
    /\ UNCHANGED <<auditVars, userVars, sessionVars, owed>>
GetByID(r) ==
    LET row == account[req[r].key] IN
    /\ At(r, "read account")
    /\ IF row = None THEN Refuse(r)
       ELSE IF Forbidden(r, row) \/ WrongPassword(r, row) THEN Refuse(r)
       ELSE Continue(r, AfterRead(r, row))
    /\ UNCHANGED <<auditVars, userVars, sessionVars, owed>>

(* The whole row is written as it was read, but for the change. *)
SaveUser(r) ==
    LET u == req[r].key
        password == req[r].kind = "change password" IN
    /\ At(r, "save user")
    /\ account' = [account EXCEPT ![u] = req[r].held]
    /\ IF password
       THEN Owe(u, "UPDATE") /\ meant' = [meant EXCEPT ![u].password = req[r].arg.new]
       ELSE UNCHANGED owed /\ meant' = [meant EXCEPT ![u].profile = req[r].arg.profile]
    /\ Wrote(r, "cache id")
    /\ UNCHANGED <<auditVars, byId, byEmail, sessionVars>>

(* Only the status is written, and the row read again for the cache. *)
WriteStatusOnly(r) ==
    LET u == req[r].key IN
    /\ At(r, "set status")
    /\ account' = [account EXCEPT ![u].status = req[r].arg]
    /\ meant' = [meant EXCEPT ![u].status = req[r].arg]
    /\ Answer(r)
    /\ UNCHANGED <<auditVars, byId, byEmail, sessionVars, owed>>
WriteStatus(r) ==
    LET u == req[r].key IN
    /\ At(r, "set status")
    /\ account' = [account EXCEPT ![u].status = req[r].arg]
    /\ meant' = [meant EXCEPT ![u].status = req[r].arg]
    /\ Wrote(r, "read again")
    /\ UNCHANGED <<auditVars, byId, byEmail, sessionVars, owed>>

CachedByStatus(r) == account[req[r].key]
ReadAgain(r) ==
    /\ At(r, "read again")
    /\ \/ Continue(r, [req[r] EXCEPT !.at = "cache id", !.held = CachedByStatus(r)])
       \/ Ignored(r, Idle)
    /\ UNCHANGED <<auditVars, userVars, sessionVars, owed>>

(* The copy under the id is written first; when that fails, the other is    *)
(* not.                                                                     *)
AfterCacheUnlogged(r) ==
    CASE req[r].kind = "login"   -> [req[r] EXCEPT !.at = "authenticate"]
      [] req[r].kind = "refresh" -> [req[r] EXCEPT !.at = "save token"]
      [] OTHER                   -> Idle
AfterCache(r) ==
    LET to(at) == [req[r] EXCEPT !.at = at] IN
    CASE req[r].kind \in {"create user", "change password"} -> to("log")
      [] req[r].kind = "login"                              -> to("authenticate")
      [] req[r].kind = "refresh"                            -> to("save token")
      [] OTHER                                              -> Idle
CacheIdOnly(r) ==
    /\ At(r, "cache id")
    /\ byId' = [byId EXCEPT ![req[r].key] = req[r].held]
    /\ Continue(r, AfterCache(r))
    /\ UNCHANGED <<auditVars, account, byEmail, meant, sessionVars, owed>>
CacheId(r) ==
    /\ At(r, "cache id")
    /\ \/ /\ byId' = [byId EXCEPT ![req[r].key] = req[r].held]
          /\ Goto(r, "cache email")
       \/ Ignored(r, AfterCache(r)) /\ UNCHANGED byId
    /\ UNCHANGED <<auditVars, account, byEmail, meant, sessionVars, owed>>
CacheEmail(r) ==
    /\ At(r, "cache email")
    /\ \/ /\ byEmail' = [byEmail EXCEPT ![req[r].key] = req[r].held]
          /\ Continue(r, AfterCache(r))
       \/ Ignored(r, AfterCache(r)) /\ UNCHANGED byEmail
    /\ UNCHANGED <<auditVars, account, byId, meant, sessionVars, owed>>

Log(r) ==
    /\ At(r, "log")
    /\ Ingest(r, req[r].key, CASE req[r].kind = "login" -> "LOGIN"
                               [] req[r].kind = "create user" -> "CREATE"
                               [] OTHER -> "UPDATE")
    /\ UNCHANGED <<userVars, sessionVars, owed>>

-----------------------------------------------------------------------------
(* Login: the account comes from the copy under its address, or from its    *)
(* row, which then fills the cache.                                         *)

Login(r, u, password) == Start(r, u, "get account", "login", password)

GetAccount(r) ==
    LET u == req[r].key
        login == req[r].kind = "login"
        copy == IF login THEN byEmail[u] ELSE byId[u]
        hit == [req[r] EXCEPT !.at = IF login THEN "authenticate" ELSE "save token", !.held = copy]
        miss == [req[r] EXCEPT !.at = "read account"] IN
    /\ At(r, "get account")
    /\ IF copy = None THEN Continue(r, miss) ELSE Continue(r, hit) \/ Missed(r, miss)
    /\ UNCHANGED <<auditVars, userVars, sessionVars, owed>>

Authenticate(r) ==
    /\ At(r, "authenticate")
    /\ IF req[r].held.status = "INACTIVE" \/ req[r].held.password # req[r].arg
       THEN Refuse(r)
       ELSE Goto(r, "save token")
    /\ UNCHANGED <<auditVars, userVars, sessionVars, owed>>

(* The refresh token is saved, then listed for the user; errors are ignored. *)
SaveRefreshToken(r) ==
    LET u == req[r].key
        j == <<u, issued[u] + 1>>
        to(at) == [req[r] EXCEPT !.at = at, !.todo = {j}] IN
    /\ At(r, "save token")
    /\ issued' = [issued EXCEPT ![u] = @ + 1]
    /\ \/ Continue(r, to("list token")) /\ tokens' = tokens \cup {j}
       \/ Ignored(r, to("create session")) /\ UNCHANGED tokens
    /\ UNCHANGED <<auditVars, userVars, sessions, index, access, ending, blacklist, ended, out, owed>>

Unlisted(r) == index
Listed(r) == [index EXCEPT ![req[r].key] = @ \cup req[r].todo]
ListRefreshToken(r) ==
    LET next == [req[r] EXCEPT !.at = "create session"] IN
    /\ At(r, "list token")
    /\ \/ Continue(r, next) /\ index' = Listed(r)
       \/ Ignored(r, next) /\ UNCHANGED index
    /\ UNCHANGED <<auditVars, userVars, issued, sessions, tokens, access, ending, blacklist, ended, out, owed>>

CreateSession(r) ==
    LET login == req[r].kind = "login" IN
    /\ At(r, "create session")
    /\ sessions' = sessions \cup req[r].todo
    /\ IF login
       THEN Goto(r, "log") /\ access' = access \cup req[r].todo /\ Owe(req[r].key, "LOGIN")
       ELSE Goto(r, "drop session") /\ UNCHANGED <<access, owed>>
    /\ UNCHANGED <<auditVars, userVars, issued, tokens, index, ending, blacklist, ended, out>>

-----------------------------------------------------------------------------
(* Refresh: the token is looked for in Valkey, then in the database; the    *)
(* session of the old token gives way to a new one, and the old token       *)
(* itself stays in Valkey.                                                  *)

Refresh(r, j) == Start(r, j[1], "validate token", "refresh", j)

ValidateRefreshToken(r) ==
    LET next == [req[r] EXCEPT !.at = "find session"] IN
    /\ At(r, "validate token")
    /\ IF req[r].arg \in tokens THEN Goto(r, "get account") \/ Missed(r, next) ELSE Continue(r, next)
    /\ UNCHANGED <<auditVars, userVars, sessionVars, owed>>

GetByJTI(r) ==
    /\ At(r, "find session")
    /\ IF req[r].arg \in sessions THEN Goto(r, "get account") ELSE Refuse(r)
    /\ UNCHANGED <<auditVars, userVars, sessionVars, owed>>

DeleteByJTI(r) ==
    /\ At(r, "drop session")
    /\ sessions' = sessions \ {req[r].arg}
    /\ access' = access \cup req[r].todo
    /\ Answer(r)
    /\ UNCHANGED <<auditVars, userVars, issued, tokens, index, ending, blacklist, ended, out, owed>>

-----------------------------------------------------------------------------
(* Logout: the rows, the tokens that are listed, the list, and the access   *)
(* token, which is blocked for as many whole seconds as it lasts: for none, *)
(* SET is refused, and its error ignored, when it has less than one.        *)

Logout(r, a) == a \in access /\ Start(r, a[1], "drop sessions", "logout", a)

DeleteByUserID(r) ==
    /\ At(r, "drop sessions")
    /\ sessions' = sessions \ OfUser(req[r].key, sessions)
    /\ Goto(r, "find tokens")
    /\ UNCHANGED <<auditVars, userVars, issued, tokens, index, access, ending, blacklist, ended, out, owed>>

FindTokens(r) ==
    /\ At(r, "find tokens")
    /\ \/ Continue(r, [req[r] EXCEPT !.at = "delete tokens", !.todo = index[req[r].key]])
       \/ Ignored(r, [req[r] EXCEPT !.at = "block"])
    /\ UNCHANGED <<auditVars, userVars, sessionVars, owed>>

DeleteUserTokens(r) ==
    LET u == req[r].key
        blocking == [req[r] EXCEPT !.at = "block", !.todo = {}] IN
    /\ At(r, "delete tokens")
    /\ \/ Ignored(r, blocking) /\ UNCHANGED <<tokens, index>>
       \/ \E j \in req[r].todo :
            /\ tokens' = tokens \ {j}
            /\ Continue(r, [req[r] EXCEPT !.todo = @ \ {j}])
            /\ UNCHANGED index
       \/ /\ req[r].todo = {}
          /\ index' = [index EXCEPT ![u] = {}]
          /\ Continue(r, blocking)
          /\ UNCHANGED tokens
    /\ UNCHANGED <<auditVars, userVars, issued, sessions, access, ending, blacklist, ended, out, owed>>

BlacklistAccessToken(r) ==
    LET u == req[r].key
        a == req[r].arg IN
    /\ At(r, "block")
    /\ ended' = [ended EXCEPT ![u] = issued[u]]
    /\ out' = out \cup {a}
    /\ IF a \in access \ ending
       THEN \/ Answer(r) /\ blacklist' = blacklist \cup {a}
            \/ Ignored(r, Idle) /\ UNCHANGED blacklist
       ELSE Answer(r) /\ UNCHANGED blacklist
    /\ UNCHANGED <<auditVars, userVars, issued, sessions, tokens, index, access, ending, owed>>

-----------------------------------------------------------------------------
(* Expiry, and a restart, after which the tokens of the sessions are put    *)
(* into Valkey again (none of these commands fails here).                   *)

ExpireAccount(u) ==
    /\ Aside
    /\ \/ byId[u] # None /\ byId' = [byId EXCEPT ![u] = None] /\ UNCHANGED byEmail
       \/ byEmail[u] # None /\ byEmail' = [byEmail EXCEPT ![u] = None] /\ UNCHANGED byId
    /\ UNCHANGED <<auditVars, account, meant, sessionVars, owed>>

ExpireSession(j) ==
    /\ Aside
    /\ sessions' = sessions \ {j} /\ tokens' = tokens \ {j}
    /\ UNCHANGED <<auditVars, userVars, issued, index, access, ending, blacklist, ended, out, owed>>

(* The last second of an access token: in it the block ends, which was set  *)
(* in whole seconds, and at its end the token.                              *)
LastSecond(a) ==
    /\ Aside
    /\ ending' = ending \cup {a}
    /\ UNCHANGED <<auditVars, userVars, issued, sessions, tokens, index, access, blacklist, ended, out, owed>>

BlockEnds(a) ==
    /\ UNCHANGED <<req, alone, calm, calls, faults>>
    /\ blacklist' = blacklist \ {a}
    /\ UNCHANGED <<auditVars, userVars, issued, sessions, tokens, index, access, ending, ended, out, owed>>

ExpireAccess(a) ==
    /\ UNCHANGED <<req, alone, calm, calls, faults>>
    /\ access' = access \ {a} /\ ending' = ending \ {a} /\ blacklist' = blacklist \ {a}
    /\ UNCHANGED <<auditVars, userVars, issued, sessions, tokens, index, ended, out, owed>>

Restart ==
    /\ Fault
    /\ req' = [r \in Requests |-> Idle]
    /\ Spoil(UNION {req[r].on : r \in Requests})
    /\ RestartConsumer
    /\ tokens' = tokens \cup sessions
    /\ index' = [u \in Users |-> index[u] \cup OfUser(u, sessions)]
    /\ UNCHANGED <<calls, log, userVars, issued, sessions, access, ending, blacklist, ended, out, owed>>

(* Where an error of the database ends the request. *)
Statements == {"insert user", "read account", "save user", "set status", "find session",
               "create session", "drop session", "drop sessions"}
Fails(r) ==
    /\ req[r].at \in Statements
    /\ StepFails(r)
    /\ UNCHANGED <<auditVars, userVars, sessionVars, owed>>

-----------------------------------------------------------------------------
(* An account is not there yet, or as the seeder left it, or logged in.      *)
Init ==
    /\ RequestsInit /\ AuditInit
    /\ account \in [Users -> {None, Account("admin", First10)}]
    /\ meant = account
    /\ \E U \in SUBSET {u \in Users : account[u] # None} :
         /\ byId = [u \in Users |-> IF u \in U THEN account[u] ELSE None]
         /\ issued = [u \in Users |-> IF u \in U THEN 1 ELSE 0]
         /\ sessions = {<<u, 1>> : u \in U}
         /\ log = [u \in Users |-> [NoEntries EXCEPT !["LOGIN"] = issued[u]]]
    /\ byEmail = byId
    /\ tokens = sessions /\ access = sessions
    /\ index = [u \in Users |-> OfUser(u, sessions)]
    /\ ended = [u \in Users |-> 0]
    /\ ending = {} /\ blacklist = {} /\ out = {}
    /\ owed = log

Asked(r) ==
    \/ \E u \in Users :
         \/ \E p \in Profiles : Create(r, u, p) \/ \E by \in {"itself", "another"} : Update(r, u, p, by)
         \/ \E x \in Statuses : SetStatus(r, u, x)
         \/ \E old, new \in Passwords : ChangePassword(r, u, old, new)
         \/ \E p \in Passwords : Login(r, u, p)
         \/ GetUser(r, u)
         \/ \E n \in 1..issued[u] : Refresh(r, <<u, n>>)
    \/ \E a \in access : Logout(r, a)

Works(r) ==
    \/ FindEmail(r) \/ InsertUser(r) \/ GetByID(r) \/ SaveUser(r) \/ WriteStatus(r) \/ ReadAgain(r)
    \/ CacheId(r) \/ CacheEmail(r) \/ Log(r)
    \/ GetAccount(r) \/ Authenticate(r) \/ SaveRefreshToken(r) \/ ListRefreshToken(r) \/ CreateSession(r)
    \/ ValidateRefreshToken(r) \/ GetByJTI(r) \/ DeleteByJTI(r)
    \/ DeleteByUserID(r) \/ FindTokens(r) \/ DeleteUserTokens(r) \/ BlacklistAccessToken(r)
    \/ Fails(r)

Outside == UNCHANGED <<userVars, sessionVars, owed>>
Next ==
    \/ \E r \in Requests : Asked(r) \/ Works(r)
    \/ AuditNext /\ Outside
    \/ \E u \in Users : ExpireAccount(u)
    \/ \E j \in sessions \cup tokens : ExpireSession(j)
    \/ \E a \in access \ ending : LastSecond(a)
    \/ \E a \in ending \cap blacklist : BlockEnds(a)
    \/ \E a \in ending : ExpireAccess(a)
    \/ Restart

Spec == Init /\ [][Next]_vars /\ WF_vars(Consume /\ Outside)

-----------------------------------------------------------------------------
(* Every variable keeps its type, and a request holds what its next         *)
(* statement uses.                                                          *)
TypeOK ==
    /\ AuditOK
    /\ {account, byId, byEmail, meant} \subseteq [Users -> AccountType \cup {None}]
    /\ \A j \in sessions \cup tokens \cup access \cup out : j[2] \in 1..issued[j[1]]
    /\ blacklist \subseteq access \cup out /\ ending \subseteq access
    /\ \A u \in Users : index[u] \subseteq {<<u, n>> : n \in 1..issued[u]}
    /\ \A r \in Requests :
         /\ req[r].at \in {"cache id", "cache email", "save user", "authenticate", "save token"} =>
              req[r].held \in AccountType
         /\ req[r].at \in {"list token", "create session", "drop session"} => Cardinality(req[r].todo) = 1

(* Both copies of an account are its row, as long as no two requests met on *)
(* it and no cache command failed, although every change writes the row     *)
(* first and each copy by a command of its own (user_service.go:203).       *)
CachedUserCurrent ==
    \A u \in alone : Quiet(u) => {byId[u], byEmail[u]} \subseteq {None, account[u]}

(* A login that no change of the account met is let in by the status and    *)
(* the password that the last changes gave the account, whichever copy of   *)
(* it the login read (user_service.go:240).                                 *)
LoginAsMeant ==
    \A r \in Requests :
      (req[r].kind = "login" /\ req[r].at \in {"save token", "list token", "create session"}
         /\ req[r].key \in alone \cap calm) =>
        /\ req[r].held = meant[req[r].key]
        /\ req[r].held.status = "ACTIVE" /\ req[r].held.password = req[r].arg

(* After a logout that met no other request of the user and ignored no      *)
(* error, no session or token from before it is left, in the database or in *)
(* Valkey, and none comes back with a restart; the access token is blocked  *)
(* until the last second before it expires (auth_service.go:220): in that   *)
(* second it may be good again, and a logout that comes then does not block *)
(* it at all.                                                               *)
LoggedOut ==
    \A u \in alone :
      /\ \A j \in OfUser(u, sessions \cup tokens) : j[2] > ended[u]
      /\ OfUser(u, out) \cap access \subseteq blacklist \cup ending

(* Every login, creation and change of password that ended well has its own *)
(* entry in the log and no other, once the requests of the user are served  *)
(* and if none of them failed half-way (auth_handler.go:76).                *)
Audited == \A u \in alone : Quiet(u) => log[u] = owed[u]
=============================================================================
