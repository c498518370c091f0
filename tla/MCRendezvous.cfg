SPECIFICATION FairSpec
CONSTANTS
    p1 = p1  p2 = p2  n1 = n1  n2 = n2  tcp = tcp  circuit = circuit
    Points = {p1, p2}
    Addresses <- TwoAddresses
    Namespaces = {n1, n2}
    Wishes <- TwoWishes
    Searches <- TwoSearches
    Self = self
    Others = {}
    None = None
    MaxReports = 1
INVARIANTS OnlyAsked
PROPERTIES RegisteredAtLast
CHECK_DEADLOCK FALSE
