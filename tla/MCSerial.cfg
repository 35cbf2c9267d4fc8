SPECIFICATION Spec
CONSTANTS
    BufSz = 3
    Quiet = TRUE
    MaxBytes = 5
    MaxSwitches = 3
INVARIANTS
    NoByteLost
    ReadInOrder
    ShellAwake
    UsersHaveFifo
CHECK_DEADLOCK FALSE
