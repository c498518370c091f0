SPECIFICATION ForgetfulSpec
CONSTANTS
    p1 = p1  p2 = p2  n1 = n1  n2 = n2  tcp = tcp  circuit = circuit
    Points = {p1}
    Addresses <- OneAddress
    Namespaces = {n1}
    Wishes <- OneWish
    Searches = {}
    Self = self
    Others = {}
    None = None
    MaxReports = 0
PROPERTIES UnregisterLasts
CHECK_DEADLOCK FALSE
