SPECIFICATION FairSpec
CONSTANTS
    ProbeInterval = 2
    QueryInterval = 3
    Messages = {{}, {"service_name"}, {"meta_query_service"},
                {"meta_query_service", "service_name"}, {"error"}}
    AnswerPackets = 1
    Buffer = 0
    MaxPackets = 3
    MaxSend = 2
INVARIANTS HandedInOrder SleepsArmed
PROPERTIES EverythingRead AnswersSent HandedOver TaskEnds
CHECK_DEADLOCK FALSE
