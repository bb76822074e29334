CONSTANTS
    None = None
    Clips = {x1, x2}
    Requests = {q1, q2}
    Texts = {"draft", "final"}
    Reviewed = {"final"}
    Editors = {a, b}
    Searchers = {s1, s2}
    Runs = {x1, x2}
    Callers = {a, b}
    MaxLabels = 1
    MaxAudio = 1
    MaxSubmits = 2
    MaxTroubles = 2
    MaxSearches = 2
    MaxHistory = 1
    MaxRequests = 2
    MaxStops = 1
SPECIFICATION AsrSpec
INVARIANTS
    LabelsInv RequestsCountOnce SavedEditsStand
    ReadyIsReviewed SearchesAreRight ExperimentsAreRight
PROPERTIES ImplementsLog WeightsStay
SYMMETRY Symmetry
CHECK_DEADLOCK FALSE
