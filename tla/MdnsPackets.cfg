SPECIFICATION Spec
CONSTANTS
    Nodes = {n1, n2}
    Texts = {254, 255, 256}
    PeerNames = {34, 65}
    ServiceName = 17
    MAX_PACKET_SIZE = 765
    ReceiveBuffer = 680
    MaxAddresses = 4
    MaxAnswers = 1
INVARIANTS
    RecordsOnce
    PacketsFit
    FoundOthers
    EachTells
CHECK_DEADLOCK FALSE
