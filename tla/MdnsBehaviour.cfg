SPECIFICATION FairSpec
CONSTANTS
    Interfaces = {eth, lo}
    Unfit = {lo}
    Nodes = {n1, n2}
    MaxTime = 3
    MaxChanges = 3
    MaxAnswers = 3
INVARIANTS TasksFollow StaysWhileFresh KnownAtRest
PROPERTIES IsPeerPresence DiscoveryReported ExpiryReported
CHECK_DEADLOCK FALSE
