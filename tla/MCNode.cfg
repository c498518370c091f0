SPECIFICATION FairSpec
CONSTANTS
    Clients = {c1, c2}
    Kinds <- AllHandlers
    Relays = {r1}
    MaxCalls = 3
    MaxMsgs = 2
    CallbackErrs = TRUE
INVARIANTS NoWaiterStranded EventsInOrder DownMeansStopping ExecutorStarts
PROPERTIES IsEventFeed ShutdownStops RequestReturns ExecutorEnds
CHECK_DEADLOCK FALSE
