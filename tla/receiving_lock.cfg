CONSTANTS
  POs = {p1}
  SKUs = {s1}
  Ordered <- OneOfEach
  Shipments = {x1}
  PORef <- OnePO
  Operators = {u1, u2}
  Requests = {r1, r2}
  MaxReceipts = 2
  MaxCount = 1
  MaxCalls = 6
  MaxTime = 1
  MaxFaults = 0
  None = None
SPECIFICATION Spec
SYMMETRY Alike
INVARIANTS
  OneCounter
CHECK_DEADLOCK FALSE
