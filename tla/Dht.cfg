SPECIFICATION FairSpec
CONSTANTS
    Puts = {p1, p2, p3}
    Rejected = {p3}
    Gets = {g1}
    MaxRetry = 2
    Nodes = {n1}
    ConfigNodes = {}
    MaxBegin = 1
    MaxOverlap = 2
INVARIANTS PutAccounted RetryBudget BootstrapInFlight RequestNotWedged
PROPERTIES PutRetriedOtherwise GetEnds BootstrapFinishes
CHECK_DEADLOCK FALSE
