CONSTANTS
    Proc = {p1, p2}
    Undo = {u1, u2}
    NULL = NULL
    IPC_PRIVATE = IPC_PRIVATE
    Key = {IPC_PRIVATE}
    SEMMNI = 1
    SEMMNS = 2
    SEMMSL = 1
    SEMVMX = 1
    SEMAEM = 1
    SEMUME = 1
    IntMax = 1
    MaxSeq = 1
    MapSlots = 2
    Ops <- FaultOps
    FaultAt = {"semop", "setall", "ipcset"}
    SlotReuse = TRUE
SYMMETRY Symm
SPECIFICATION Spec
INVARIANTS
    NoLostWakeup
CHECK_DEADLOCK FALSE
