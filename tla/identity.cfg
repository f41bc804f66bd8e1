SPECIFICATION Spec
CONSTANTS
    u1 = u1
    e1 = e1
    e2 = e2
    e3 = e3
    None = None
    Requests = {r1, r2}
    Subjects = {u1}
    MaxCalls = 2
    MaxFaults = 2
    Users = {u1}
    Events = {e1, e2, e3}
    Sort <- Sorts
    Profiles = {"admin"}
    Passwords = {"x", "y"}
INVARIANTS
    TypeOK
    CachedUserCurrent
    LoginAsMeant
    LoggedOut
    Audited
PROPERTIES
    AuditStored
CHECK_DEADLOCK FALSE
