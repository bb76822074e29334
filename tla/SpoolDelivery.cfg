CONSTANTS
    NoTime = NoTime
    Clips = {1, 2, 3, 4, 5, 6}
    Recording <- MCRecording
    Empty = {6}
    MergeGap = 6
    MaxSpan = 20
    MinDuration = 2
    Second = 2
    MaxFiles = 3
    MaxRetained = 4
    MaxChannels = 1
    MaxFailures = 1
    MaxTroubles = 1
SPECIFICATION FairSpec
INVARIANTS DeliveryIsRight RetriesMakeNoDuplicate
PROPERTIES SpoolDrains
CHECK_DEADLOCK FALSE
