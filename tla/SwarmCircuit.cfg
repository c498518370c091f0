SPECIFICATION Spec
CONSTANTS
    Relays = {r1}
    Others = {o1}
    Addresses = {a1}
    Loopback = {}
    MaxCommands = 1
PROPERTIES
    CircuitOfRelay
