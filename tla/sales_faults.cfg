CONSTANTS
  Orders = {1}
  SKUs = {s1}
  s1 = s1
  s2 = s2
  c1 = c1
  c2 = c2
  Workers = {w1, w2}
  Clerks = {c1, c2}
  Stock <- StockOne
  MaxQty = 1
  MaxPatches = 1
  MaxFaults = 2
  None = None
SPECIFICATION EditedByTwo
SYMMETRY Requests
INVARIANTS
  TypeOK
  OverdraftBounded
  ProcessingIsReserved
  
  

  
