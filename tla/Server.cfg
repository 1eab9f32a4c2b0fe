SPECIFICATION ServerSpec
CONSTANTS
    w1 = w1
    r1 = r1
    r2 = r2
    k1 = k1
    k2 = k2
    v1 = v1
    v2 = v2
    n1 = n1
    n2 = n2
    n3 = n3
    n4 = n4
    Sessions = {s1, s2}
    Files = {f1}
    Requests = {q1, q2}
    Lifespan = lifespan
    MaxDeletes = 2
    MaxRuns = 2
    MaxFailures = 1
    None = None
    Producers = {p1, p2}
    Projects = {r1, r2}
    Contents = {m1, m2}
    Watchers = {w1}
    Follows <- MCFollows
    Absent = Absent
    NoRef = NoRef
    Newest = Newest
    Sinces = {0, Newest}
    Garbled = Garbled
    Stores = {"sqlite", "json"}
    BatchSize = 2
    MaxPublishes = 3
    MaxDrops = 2
    MaxCrashes = 1
    Workers = {v1, v2}
    Checks = {k1, k2}
    WorkerOf <- MCWorkerOf
    Principals = {u1}
    Quota = 2
    WindowTicks = 2
    MaxTicks = 3
    Deciders = {t1, t2}
    Inputs <- MCInputs
    CacheSize = 2
    Callers <- MCCallers
    Nobody = Nobody
    ToolNames <- MCToolNames
    Notes = {n1, n2, n3, n4}
    About <- MCAbout
    Queries <- MCQueries
    Vectors = {"v", "b"}
    Untold = Untold
    x1 = x1
    x2 = x2
    x3 = x3
    NoX = NoX
    Embeddings = {x1, x2, x3}
    NoEmbedding = NoX
    Cosine <- MCCosine
    BaseScores = {0, 1, 3}
    Weightings <- MCWeightings
    Gatings <- MCGatings
    MaxPool = 3
    Finds <- MCFinds
    ScoreFloor = 1
    NoveltyFloor = 20
    KeepCapacity = 2
    MaxKeeps = 3
    Names <- MCNames
    EntityCap = 2
    MaxChunks = 3
    ClusterCount = 2
    MaxFits = 2
INVARIANTS
    PartsTypeOK
    CheckpointsCover
    FabricSound
    QuotaKept
    PolicyObeyed
    AnswerSound
    RankingSound
PROPERTIES
    ServerProgress
CHECK_DEADLOCK FALSE
