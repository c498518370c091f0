SPECIFICATION FairSpec
CONSTANTS
    Relays = {r1}
    Others = {o1}
    Addresses = {a1, lo}
    Loopback = {lo}
    MaxCommands = 2
INVARIANTS
    HeededLasts
PROPERTIES
    CircuitExchanged
    HandshakeEnds
