SPECIFICATION Spec
CONSTANTS
    s1 = s1
    m1 = m1
    m2 = m2
    p1 = p1
    v1 = v1
    v2 = v2
    None = None
    AllModels = AllModels
    Requests = {r1, r2}
    Subjects <- All
    MaxCalls = 2
    MaxFaults = 1
    Skus = {s1}
    Codes = {m1, m2}
    Texts = {"a", "b"}
    MaxRows = 2
    Products = {p1}
    Vendors = {v1, v2}
    Offered = {s1}
    Price <- Prices
    Names = {"a", "b"}
    Recipes <- Lists
INVARIANTS
    TypeOK
    PartWhole
    BillIsLast
    CachesCurrent
CHECK_DEADLOCK FALSE
