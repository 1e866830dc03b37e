SPECIFICATION AppsSpec
CONSTANTS
  Tabs = {"tab1", "tab2"}
  Categories = {"analytics", "marketing"}
  Default = "analytics"
  Tenants = {"t1", "t2"}
  MaxRuns = 3
  MaxRequests = 2
  StableStorage = TRUE
  Posts = {1, 2, 3, 4, 5}
  Files <- MCFiles
  Limit = 2
  MaxEdits = 2
  MaxLoads = 2
  Pods = {"p1", "p2"}
  Jobs = {"j1", "j2"}
  Malformed = {"j2"}
  Concurrency = 2
  MaxTroubles = 2
  MaxSignals = 2
  Pings = {"ping1", "ping2", "ping3"}
  Closes = {"close1", "close2"}
  MaxConnections = 2
  NoPool = "undefined"
INVARIANTS
  EventsHaveConsent
  TabsKnowDecision
  RestShowsOwn
  CacheIsOwn
  StoreIsListing
  ShutdownsAreHarmless
  NoDoubleEnd
PROPERTIES
  ThemeSettles
  LoadEnds
  JobsEnd
  CloseReturns
CHECK_DEADLOCK FALSE
