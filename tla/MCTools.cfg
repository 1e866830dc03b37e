SPECIFICATION ToolsSpec
CONSTANTS
  Budgets = {0, 5, 20, 25, 150, 300, 2000, 5000}
  EnvCounts = {1, 2, 3, 5, 10}
  Asked = {"ha_level", "secret_backend"}
  ToolBudgets = {0, 17, 30, 31, 151, 2001, 50001}
  ToolEnvs = {1, 4}
  Nodes = {0, 3}
  Gigabytes = {0, 333}
  MaxCalls = 2
  MaxPriceEdits = 1
  MaxKills = 2
  MaxMissing = 1
  Terminals = {"a", "b"}
  Titles = {"x", "y"}
  LastNumber = 2
  Template = {"package.json", "src"}
  ProfileDirs = {"p-solo", "p-one", "p-two"}
  Shipped = {"p-solo"}
  MaxCommands = 3
  MaxEdits = 1
  MaxCrashes = 1
  ConfigFiles = {"base", "prod", "acme"}
  ShippedConfig <- MCShipped
  EditPaths <- MCEditPaths
  Parents <- MCParents
  MaxConfigEdits = 1
  Names = {"A", "B"}
  SpecProfiles = {"p-solo", "ci"}
  SpecLines <- MCSpecLines
  MaxLines = 4
INVARIANTS
  ComplianceRuled
  MultiRegionRules
  PerfectFitWins
  RanksEachOnce
  BillAddsUp
  TradeoffsAreOfNow
  ExitTellsOutcome
  AdrNumbersAreUnique
  ProfilesNameThemselves
  RenderedIsWhole
  NearestFileWins
  ReportIsOfSpec
PROPERTIES
  MoneyNeverUnseats
  NothingOverwritten
CHECK_DEADLOCK FALSE
