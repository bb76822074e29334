CONSTANTS
    Keys = {1}
    ChannelOf <- MCChannelOf
    Limit = 1
    RetryErrors = FALSE
    MaxPresigns = 1
    MaxStars = 0
    MaxCrashes = 1
    MaxFaults = 0
SPECIFICATION FailuresSpec
INVARIANTS InterruptedClipStaysQueued
CHECK_DEADLOCK FALSE
