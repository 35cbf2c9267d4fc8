SPECIFICATION FairSpec
CONSTANTS
    HostStalls = TRUE
    MaxBytes = 4
    MaxControl = 3
    w1 = w1
    w2 = w2
    Writers = {w1}
    RingSize = 3
    BulkMax = 4
    MaxPacket = 2
    MqMax = 2
CHECK_DEADLOCK FALSE
INVARIANTS
    OverrunNeedsTimeout
PROPERTIES
    Drains
