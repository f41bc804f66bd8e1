CONSTANTS
  screen = screen
  panel = panel
  SKUs = {screen, panel}
  Units = {1, 3}
  SkuOf <- SkuOfUnit
  Lockers = {l1, l2}
  MaxRequeues = 1
  MaxReopenings = 1
  MaxFaults = 1
  None = None
SPECIFICATION FairSpec
INVARIANTS
  OnePlace
PROPERTIES
  LockReturns
