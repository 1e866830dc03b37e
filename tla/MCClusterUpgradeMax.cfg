SPECIFICATION UpgradeSpec
CONSTANTS
    ControlPlanes = 1
    WorkerNodes = 4
    MaxUnavailable = 2
    MaxUpgrades = 1
CHECK_DEADLOCK FALSE
INVARIANTS
    RespectsMaxUnavailable
