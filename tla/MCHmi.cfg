SPECIFICATION FairSpec
CONSTANTS
    Commands <- FourCommands
    CmdLen = 3
    BufSize = 6
    MaxBurst = 3
    Pauses = FALSE
    MaxFrames = 3
CHECK_DEADLOCK FALSE
INVARIANTS
    ExecutesWhatWasSent
    TunedAsShown
PROPERTY
    EveryFrameExecuted
