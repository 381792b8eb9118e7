CONSTANTS
    Proc = {p1, p2, p3}
    Undo = {u1}
    NULL = NULL
    IPC_PRIVATE = IPC_PRIVATE
    Key = {IPC_PRIVATE}
    SEMMNI = 1
    SEMMNS = 1
    SEMMSL = 1
    SEMVMX = 2
    SEMAEM = 2
    SEMUME = 1
    IntMax = 1
    MaxSeq = 1
    MapSlots = 1
    Ops <- WakeOps
    FaultAt = {}
    SlotReuse = FALSE
SPECIFICATION FairSpec
PROPERTIES
    EventuallyServed
CHECK_DEADLOCK FALSE
