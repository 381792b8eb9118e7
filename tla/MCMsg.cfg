CONSTANTS
    Proc = {p1, p2}
    NULL = NULL
    IPC_PRIVATE = IPC_PRIVATE
    Key = {IPC_PRIVATE}
    MSGMNI = 1
    MSGTQL = 2
    MSGSEG = 2
    MSGSSZ = 1
    MSGMNB = 3
    MapSlots = 2
    Calls <- AllCalls
    IntMax = 1
    MaxSeq = 1
SYMMETRY Symm
SPECIFICATION Spec
INVARIANTS
    MutualExclusion
    HolderValid
    ReceiverStable
    NoLostWakeup
    WritersBlocked
    PoolsExact
    ScanFinds
PROPERTIES
    ImplementsMsgQueue
CHECK_DEADLOCK FALSE
