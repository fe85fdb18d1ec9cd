CONSTANTS
    j1 = j1
    j2 = j2
    Item = {1}
    Job = {j1, j2}
    Window = 1
    Limit = 1
    MaxAttempts = 2
    MaxBatches = 2
    Dates = {0, 1}
    NoDate = NoDate
    Deleted = Deleted
    LastDay = 1
    MaxEdits = 1
    MaxFaults = 1
    MaxSkips = 1
SPECIFICATION FairSpec
INVARIANTS PublishedHasEvent AttemptsBounded
PROPERTIES PublishedIsFinal AlertsSettle
CHECK_DEADLOCK FALSE
