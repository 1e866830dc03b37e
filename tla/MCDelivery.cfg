SPECIFICATION DeliverySpec
CONSTANTS
    MaxRuns = 3
    Versions = {v1}
    Pulls = {p1}
    NoRun = NoRun
    Images = {i1, i2}
    ChartTag = ChartTag
    None = None
    ControlPlanes = 3
    WorkerNodes = 3
    MaxUnavailable = 2
    MaxUpgrades = 3
SYMMETRY Symmetry
CHECK_DEADLOCK FALSE
INVARIANTS
    AdmittedIsClean
    ProdAfterStaging
    VerifiedRan
    OneAtATime
    WorkersBehind
    CleanRunRepairs
    CordonAccounted
PROPERTIES
    MainTagForward
