SPECIFICATION StoresSpec
CONSTANTS
    a = a
    b = b
    c = c
    l = l
    h = h
    noHash = noHash
    Procs = {p1, p2}
    Clearers = {k1}
    Readers = {s1}
    Items <- MCItems
    Legacy <- MCLegacy
    NoHash = noHash
    Torn = torn
    MaxClears = 1
    None = None
    Callers = {q1, q2}
    Memories = {m1, m2}
    Missing = Missing
    Scrap = Scrap
    MaxEvents = 4
    MaxTears = 1
    Jobs = {j1, j2}
    NoOwner = NoOwner
    BadCursor = BadCursor
    Latest = Latest
    MaxChanges = 3
    MaxSyncs = 3
    MaxKills = 2
    Searches = {r1, r2}
    Keys = {x1, x2, x3}
    Sizes = {2, 4, 8}
    Penalty <- MCPenalty
    Capacity = 6
    MaxHits = 3
    c1 = c1
    c2 = c2
    Threads = {t1, t2}
    Recalls = {a1, a2}
    Chunks = {c1, c2}
    FileOf <- MCFileOf
    MaxFeedback = 2
    Nobody = Nobody
    Discoveries = {d1, d2}
    NoVector = NoVector
    MaxLabel = 3
    MaxDeaths = 3
    Entities = {e1, e2, e3, e4}
    Origin = e1
    MaxHops = 3
    Count = 4
    Documents = {y1, y2}
    Principals = {"alice", "bob"}
    Payloads = {1}
    Ranks = {1, 2}
    Workers = {w1}
    Limit = 2
    MaxBatch = 2
    MaxLog = 3
    NoDocument = NoDocument
    Linkers = {k1, k2}
    SessionIds = {s1, s2, s3}
    Words = {w1}
    MinOverlap = 1
    Window = 2
    Day = 3
    Target = 1
    LastDay = 8
    MaxPublished = 3
    MaxLinkKills = 1
    MergeBound = 3
INVARIANTS
    PartsTypeOK
    ReadsWhatStayed
    LogSound
    CursorCovered
    WithinLimit
    MovedOnce
    LabelsMatch
    GraphSound
    NothingMissed
PROPERTIES
    BusSpec
    NoWidening
