SPECIFICATION ThemeSpec
CONSTANTS
  Tenants = {"t1"}
  MaxRuns = 2
  MaxRequests = 0
  StableStorage = FALSE
PROPERTIES
  Settles
CHECK_DEADLOCK FALSE
