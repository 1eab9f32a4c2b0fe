SPECIFICATION SyncSpec
CONSTANTS
    Documents = {d1, d2}
    Principals = {"alice", "bob"}
    Payloads = {1, 2}
    Ranks = {1, 2}
    Workers = {w1}
    Limit = 1
    MaxBatch = 2
    MaxLog = 3
    NoDocument = NoDocument
INVARIANT NothingMissed
