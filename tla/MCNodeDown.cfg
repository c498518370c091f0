SPECIFICATION FairSpec
CONSTANTS
    Clients = {c1}
    Kinds <- OnlyShutdown
    Relays = {}
    MaxCalls = 1
    MaxMsgs = 1
    CallbackErrs = FALSE
PROPERTIES ShutdownReported
CHECK_DEADLOCK FALSE
