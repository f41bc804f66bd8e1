CONSTANTS
  POs = {p1}
  SKUs = {s1}
  Ordered <- OneOfEach
  Shipments = {x1}
  PORef <- OnePO
  Operators = {u1, u2}
  Requests = {r1, r2}
  MaxReceipts = 2
  MaxCount = 1
  MaxCalls = 5
  MaxTime = 1
  MaxFaults = 2
  None = None
SPECIFICATION Spec
SYMMETRY Alike
INVARIANTS
  TypeOK
  BackedInv
  EntriesComplete
  NumberedInv
PROPERTY
  CountedStays
CHECK_DEADLOCK FALSE
