SPECIFICATION DbSpec
CONSTANTS
    Pings = {i1, i2}
    Closes = {c1}
    MaxConnections = 1
    NoPool = NoPool
CHECK_DEADLOCK FALSE
INVARIANTS
    ConnectionsBounded
