SPECIFICATION ServicesSpec
CONSTANTS
    u1 = u1
    u2 = u2
    f1 = f1
    f2 = f2
    Databases <- MCDatabases
    Steps <- MCSteps
    Adds <- MCAdds
    MaxStarts = 3
    Exporters = {e1, e2}
    Actors = {a1}
    Folders = {f1}
    Asks <- MCAsks
    ExportCap = 2
    Burst = 1
    Sweep = 2
    Span = 1
    Retention = 2
    CallTime = 1
    QueryCap = 4
    LastTime = 3
    MaxExports = 3
    MaxStops = 1
    h1 = h1
    h1x = h1x
    h2 = h2
    h3 = h3
    g1 = g1
    g2 = g2
    Savers = {o1}
    Viewers = {v1}
    Slugs = {g1,g2}
    Everywhere = Everywhere
    Paths = {h1,h1x,h2,h3}
    KeyOf <- MCKeyOf
    NoKey = NoKey
    Secret = {h3}
    Claims <- MCClaims
    Selectors <- MCSelectors
    Touched <- MCTouched
    MaxFiles = 2
    FileTime = 2
    TotalTime = 2
    Ttl = 1
    ScanLimit = 2
    PageLimit = 1
    Old <- MCOld
    LastTick = 3
    MaxSaves = 1
    Collectors = {c1, c2}
    Pagers = {p1}
    Hours = 2
    Zone = 1
    FirstHour = 3
    LastHour = 4
    MaxRecorded = 3
    m1 = m1
    Modes = {m1}
    AnyMode = AnyMode
    Ranges <- MCRanges
    PageSize = 1
    Notes = {1, 2, 3}
    AclOf <- MCAclOf
    Askers <- MCAskers
    AnyCaller = AnyCaller
    MaxBreaks = 1
    Reports <- MCReports
    MaxMetered = 3
    r1 = r1
    r2 = r2
    Runs = {r1, r2}
    FileOfRun <- MCFileOfRun
    Contents = {1, 2, 3}
    TooLarge = {2}
    LengthOf <- MCLengthOf
    ChunkLength = 4
    Overlap = 1
    MaxStarted = 3
    o2 = o2
    o3 = o3
    Listeners = {l1, l2}
    Shells = {s1}
    Admins = {o2, o3}
    MayDo <- MCMayDo
    Targets = {t1}
    RoleNames = {"owner", "viewer"}
    Policies = {{}}
    DefaultPolicy = {q1}
    Requests = {q1}
    Days = {1}
    LastDay = 2
    MaxCalls = 3
    MaxFaults = 1
    Users = {u3, u4}
    Hosting = {"vps-gpu", "vps-cpu"}
    MaxAsks = 3
    MaxTokens = 2
    MaxTroubles = 1
    RankBound = 3
    l1 = l1
    l2 = l2
    d1 = d1
    d2 = d2
    d3 = d3
    d4 = d4
    Dispatchers = {d1, d2, d3}
    Advisers = {d4}
    ServerOf <- MCServerOf
    Outcome = {o2}
    Price <- MCPrice
    DedupWindow = 1
    StatsTtl = 2
    LastBeat = 2
    MaxLogged = 3
    Surfacers = {s2, s3}
    Recurring = {t2, t3}
    MaxAttempts = 2
    MaxSurfaced = 2
    CountBound = 3
    Senders = {s4, s5, s6}
    Hooks = {s6}
    Sources <- MCSources
    Drafts = {"w1", "w2"}
    FirstDraft = "w1"
    MaxDocs = 1
    MaxSends = 2
    MaxRewrites = 2
    Registrars = {g3, g4}
    Projects = {"p1", "p2"}
    MaxRegistrations = 3
    MaxKilled = 1
    MaxLines = 4
    Installers = {"cli", "ui"}
    InstallModes = {"local", "mac_mlx"}
    Events <- MCEvents
    AtFirst <- MCAtFirst
    MaxInstalls = 2
    MaxRetouches = 1
    MaxKills = 1
INVARIANTS
    PartsTypeOK
    ToolsKeepStores
    ExportsWatched
    HistorySound
    AnswersSound
    InflowSound
    SetupSound
    BackendsSound
CHECK_DEADLOCK FALSE
