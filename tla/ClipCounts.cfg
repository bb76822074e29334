CONSTANTS
    s1 = s1
    s2 = s2
    a = a
    Backfill = Backfill
    NoItem = NoItem
    Rows <- MCRows
    Shards = {s1, s2}
    ShardOf <- MCShardOf
    Channels = {"16"}
    Qualities = {"ok", "quarantined"}
    WithBackfill = FALSE
    InitialSource <- NewTable
    MaxAttempts = 2
    BatchSize = 2
    MaxWrites = 2
    MaxFaults = 1
SPECIFICATION BothSpec
INVARIANTS SummaryMatchesMembership StaleRowStillQueued BackfillIsRight
PROPERTIES Converges ImplementsView
CHECK_DEADLOCK FALSE
