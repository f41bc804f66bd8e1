CONSTANTS
  screen = screen
  panel = panel
  SKUs = {screen, panel}
  Units = {1, 2, 3}
  SkuOf <- SkuOfUnit
  Lockers = {l1, l2}
  MaxRequeues = 1
  MaxReopenings = 0
  MaxFaults = 1
  None = None
SPECIFICATION Spec
SYMMETRY Requests
INVARIANTS
  TypeOK
  NoDoubleBuying
  ExactLock
