CONSTANTS
    Size = 3
    Byte = {0, 1}
    MaxLen = 4
SPECIFICATION Spec
INVARIANTS
    MirrorInv
PROPERTIES
    PutForceOutcome
    ImplementsQueue
