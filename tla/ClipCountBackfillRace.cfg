CONSTANTS
    s1 = s1
    s2 = s2
    a = a
    Backfill = Backfill
    NoItem = NoItem
    Rows <- MCRows
    Shards = {s1, s2}
    ShardOf <- MCShardOf
    Channels = {"16"}
    Qualities = {"ok", "quarantined"}
    WithBackfill = TRUE
    InitialSource <- NewTable
    MaxAttempts = 2
    BatchSize = 1
    MaxWrites = 2
    MaxFaults = 0
SPECIFICATION OnePartSpec
INVARIANTS StaleRowStillQueued
CHECK_DEADLOCK FALSE
