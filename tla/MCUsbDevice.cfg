SPECIFICATION Spec
CONSTANTS
    Blocks = {b1, b2}
    Null = Null
    Nak = Nak
    MaxPacket = 2
    RxSize = 4
    MqMax = 3
    MaxBytes = 5
    MaxControl = 7
SYMMETRY BlockSymmetry
INVARIANTS
    OutAlive
    ReceivedInOrder
    HaltKnown
    BufferLives
    ControlAnswered
CHECK_DEADLOCK FALSE
