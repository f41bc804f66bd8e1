CONSTANTS
  Orders = {1}
  SKUs = {s1}
  s1 = s1
  Workers = {w1}
  Clerks = {c1}
  Stock <- StockTwo
  MaxQty = 2
  MaxPatches = 0
  MaxFaults = 0
  None = None
  Clients = {1}
  Names = {"Default Client", "other"}
  DefaultName = "Default Client"
  MaxEdits = 1
  MaxLost = 1
SPECIFICATION ClientsSpec
INVARIANTS
  StockConserved
  EditsKept
PROPERTIES
  ProcessQueueReturns
