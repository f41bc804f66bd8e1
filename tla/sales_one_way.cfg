CONSTANTS
  Orders = {1}
  SKUs = {s1}
  s1 = s1
  c1 = c1
  c2 = c2
  s2 = s2
  Workers = {w1}
  Clerks = {c1}
  Stock <- StockOne
  MaxQty = 1
  MaxPatches = 1
  MaxFaults = 0
  None = None
SPECIFICATION FairSpec
PROPERTIES
  OneWayStateMachine
