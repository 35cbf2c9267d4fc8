SPECIFICATION Spec
CONSTANTS
    t1 = t1
    t2 = t2
    t3 = t3
    Thread = {t1, t2, t3}
    Isr = Isr
    Prio <- MCPrio
    Mutex = {A, B}
    Null = Null
    SemMod = 3
    HoldMod = 3
    Bits = {b1, b2}
    MbSize = 2
    MqMax = 2
    MaxSent = 3
SYMMETRY IpcSymmetry
INVARIANTS
    OnOneList
    NobodySleepsOverIt
    UnitsConserved
    HoldsMatch
    PriorityRestored
    Inherited
    MailsInOrder
    MessagesKept
CHECK_DEADLOCK FALSE
