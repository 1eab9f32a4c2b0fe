SPECIFICATION DiscoveriesSpec
CONSTANTS
    Scenarios = {"hygiene", "prune", "crossing"}
    Crossing = {e1, j1, w1}
    Names = {1, 2}
    Editors = {e1}
    Janitors = {j1}
    Pruners = {p1}
    Writers = {w1}
    Topics = {"auth", "db"}
    Importances = {50}
    Edits <- SmallEdits
    Corpus <- AnyCorpus
    MaxDay = 3
    MaxCaptures = 5
    AgeDays = 1
    CaptureDedups = TRUE
    Keep = Keep
    None = None
    t1 = t1
    t2 = t2
    l1 = l1
    Learners = {l1, l2}
    Transcripts = {t1, t2}
    Kinds <- MCKinds
    MaxSessions = 2
    LastDate = 1
    MaxSaid = 1
    MaxLearned = 2
    MaxCut = 1
    EveryN = 2
    Tasks = {k1, k2}
    MaxBatches = 4
    Hooks = {h1, h2}
    MaxCommits = 3
    MaxMidnights = 1
    MaxSilences = 1
    MaxStopped = 1
    Notions <- MCNotions
    Threshold = 60
    Scores = {0, 25, 50, 100}
    Ratios = {0, 25, 50, 75, 100}
    Chunks = {3, 5, 8}
    Header = 2
    Overflow = 4
    Caps = {1, 5, 6, 7, 10, 12, 15, 20}
    MaxParts = 4
INVARIANTS TypeOK RewriteIsolated NothingLost ExtractsSound
PROPERTIES PinSticky DecayDateMonotone OneSurvivor GuardedStays
