SPECIFICATION DevicesSpec
CONSTANTS
    r1 = r1
    r2 = r2
    Records = {r1, r2}
    Levels = {"restricted", "confidential"}
    LevelsOf <- MCLevelsOf
    Ttl <- MCTtl
    MaxTime = 2
    MaxCrashes = 1
    None = None
    Programs = {p1}
    DeviceIds = {i1, i2}
    NoDevice = NoDevice
    Intervals = {0, 1, 2}
    MaxWait = 5
    Slower = 1
    RequestTime = 1
    MaxSlowDowns = 2
    LastSecond = 9
    Bearers = {b1, b2}
    Kids = {k1, k2}
    KeyTtl = 1
    FetchTime = 1
    LastMoment = 3
    NoBearer = NoBearer
    Papers <- MCPapers
    Owner = "ana"
    Ceiling = 2
    MaxChanges = 3
    MaxBreakdowns = 2
    Jobs = {"admin"}
    SigningKeys = {1, 2}
    SnapshotTtl = 1
    LastInstant = 2
    Lags <- MCLags
    Noters = {n1, n2}
    MaxSignals = 1
    MaxNotes = 3
    Wanted <- MCWanted
    Pins = {"w1", "home"}
    Budgets = {3, 4, 6}
    Spellings <- MCSpellings
INVARIANT NoOrphan
CHECK_DEADLOCK FALSE
