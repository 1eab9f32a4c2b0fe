SPECIFICATION FairSessionsSpec
CONSTANTS
    Sessions = {s1}
    Files = {f1, f2}
    Requests = {q1, q2}
    Lifespan = lifespan
    MaxDeletes = 2
    MaxRuns = 1
    MaxFailures = 0
    None = None
INVARIANT NothingLeft
CHECK_DEADLOCK FALSE
