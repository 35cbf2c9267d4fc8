SPECIFICATION Spec
CONSTANTS
    BufSz = 3
    Quiet = FALSE
    MaxBytes = 5
    MaxSwitches = 3
INVARIANT IsrHasFifo
CHECK_DEADLOCK FALSE
