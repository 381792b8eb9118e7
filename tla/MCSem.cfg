CONSTANTS
    Proc = {p1, p2}
    Undo = {u1, u2}
    NULL = NULL
    IPC_PRIVATE = IPC_PRIVATE
    Key = {IPC_PRIVATE}
    SEMMNI = 2
    SEMMNS = 2
    SEMMSL = 2
    SEMVMX = 2
    SEMAEM = 2
    SEMUME = 1
    IntMax = 3
    MaxSeq = 1
    MapSlots = 2
    Ops <- MCOps
    FaultAt = {}
    SlotReuse = FALSE
SYMMETRY Symm
SPECIFICATION Spec
INVARIANTS
    TablesSound
    SleepsOnlyIfBlocked
    AllOrNothing
    NoOrphanSleeper
    SetsDisjoint
CHECK_DEADLOCK FALSE
