SPECIFICATION FairSpec
CONSTANTS
    Puts = {p1}
    Rejected = {}
    Gets = {}
    MaxRetry = 1
    Nodes = {n1}
    ConfigNodes = {n1}
    MaxBegin = 1
    MaxOverlap = 1
PROPERTIES PutRetried
CHECK_DEADLOCK FALSE
