SPECIFICATION Spec
CONSTANTS
    HostStalls = FALSE
    MaxBytes = 5
    MaxControl = 4
    w1 = w1
    w2 = w2
    Writers = {w1, w2}
    RingSize = 3
    BulkMax = 4
    MaxPacket = 2
    MqMax = 2
SYMMETRY WriterSymmetry
CHECK_DEADLOCK FALSE
INVARIANTS
    TypeOK
    NoLostWakeup
    InOrder
    DoneMeansDelivered
