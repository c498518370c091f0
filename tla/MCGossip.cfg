SPECIFICATION FairSpec
CONSTANTS
    m1 = m1  m2 = m2  m3 = m3  d1 = d1  d2 = d2
    Msgs = {m1, m2, m3}
    Contents = {d1, d2}
    Content <- SameContents
    Oversized = {m3}
    Topics = {t1}
    MaxReceived = 2
INVARIANTS ReceivedInOrder
PROPERTIES IsOutbox Republished
CHECK_DEADLOCK FALSE
