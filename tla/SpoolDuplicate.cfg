CONSTANTS
    NoTime = NoTime
    Clips = {1, 2}
    Recording <- MCRecording
    Empty = {}
    MergeGap = 6
    MaxSpan = 20
    MinDuration = 2
    Second = 2
    MaxFiles = 2
    MaxRetained = 3
    MaxChannels = 0
    MaxFailures = 0
    MaxTroubles = 1
SPECIFICATION Spec
INVARIANTS NoDuplicateAudio
CHECK_DEADLOCK FALSE
