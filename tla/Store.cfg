SPECIFICATION MCSpec
CONSTANTS
    i1 = i1
    i2 = i2
    s1 = s1
    s2 = s2
    Ids = {i1, i2}
    Metas = {m}
    Shards = {s1, s2}
    ShardOf <- MCShardOf
    Deferred = TRUE
    Callers = {c1}
    Workers = {w1, w2}
    BackfillBatch = 1
    BackfillMaxBatchesPerShard = 2
    MaxCommits = 3
    None = None
    Requests = {r1}
    Kinds = {"hybrid", "vector", "sessions", "mcp"}
INVARIANTS StatsSeeReturned BackfillThorough AnnFindsIndex
PROPERTIES EmbeddedStays BackfillEnds RequestsAnswered
CHECK_DEADLOCK FALSE
