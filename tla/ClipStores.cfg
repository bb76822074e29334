CONSTANTS
    Threads = {1, 2}
    LastVersion = 3
    MaxSearches = 4
SPECIFICATION StoresSpec
INVARIANTS DatabaseIsRight ListingIsRight ToolsAreRight AnswersAreWhole
CHECK_DEADLOCK FALSE
