CONSTANTS
  screen = screen
  panel = panel
  SKUs = {screen, panel}
  Units = {1, 3}
  SkuOf <- SkuOfUnit
  Lockers = {l1}
  MaxRequeues = 1
  MaxReopenings = 0
  MaxFaults = 0
  None = None
SPECIFICATION Spec
INVARIANTS
  RequeuedNotLost
