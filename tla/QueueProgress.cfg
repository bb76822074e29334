CONSTANTS
    Keys = {1, 2, 3}
    ChannelOf <- MCChannelOf
    Limit = 2
    RetryErrors = TRUE
    MaxPresigns = 1
    MaxStars = 1
    MaxCrashes = 1
    MaxFaults = 1
SPECIFICATION QueueSpec
INVARIANTS RowsAreRight DamageIsContained
PROPERTIES PollIsFair UploadsFinish
CHECK_DEADLOCK FALSE
