CONSTANTS
    Runs = {r1}
    Callers = {a}
    MaxHistory = 1
    MaxRequests = 1
    MaxStops = 0
SPECIFICATION RunsSpec
PROPERTIES CompletedStays
CHECK_DEADLOCK FALSE
