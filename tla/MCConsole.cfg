SPECIFICATION ConsoleSpec
CONSTANTS
    MaxPresses = 4
    MaxLogs = 1
CONSTRAINT NotTorn
CHECK_DEADLOCK FALSE
INVARIANTS
    RefsMatchHolders
    UsedDevicesOpen
    ShellHears
