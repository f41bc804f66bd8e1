CONSTANTS
  m1 = m1
  p1 = p1
  v1 = v1
  e1 = e1
  e2 = e2
  Builds = {m1}
  Parts = {p1}
  PerUnit <- OnePerUnit
  Vendors = {v1}
  Supplier <- OneSupplier
  Events = {e1, e2}
  Lines <- Items
  Queue <- OneQueue
  Requests = {r1, r2}
  MaxQty = 2
  MaxStock = 2
  MaxOrders = 2
  MaxPOs = 4
  MaxEvents = 1
  MaxDeliver = 2
  MaxCalls = 4
  MaxDisturb = 1
  None = None
SPECIFICATION TwoParts
SYMMETRY Alike
INVARIANTS
  TypeOK
  AckedIsPlanned
  OffersBacked
  StatusAgreesWithRows
  ViewsAgree
  OpenPOsBounded
CHECK_DEADLOCK FALSE
