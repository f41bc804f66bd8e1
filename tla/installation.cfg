CONSTANTS
  p1 = p1
  p2 = p2
  p3 = p3
  p4 = p4
  m1 = m1
  m2 = m2
  m3 = m3
  Parts <- PartList
  SkuOf <- PartNumberOf
  Models <- ModelList
  Installed <- Bills
  Suppliers = 5
  Accounts = {a1}
  MaxTools = 1
  MaxStarts = 3
  MaxFaults = 1
  MaxChanges = 1
  MaxMessages = 1
  MaxStartsOfEach = 2
  MaxFailures = 1
  BatchSize = 2
  MaxEntries = 6
  Writers = {w1, w2}
  Limit = 2
  MaxStamps = 6
  MaxReadings = 1
  None = None
SPECIFICATION SpecInstalled
INVARIANTS
  TypesOK
  ReferencesResolve
  OnlyKnownLosses
  EntriesListed
PROPERTIES
  ReseedKeepsUsers
CHECK_DEADLOCK FALSE
