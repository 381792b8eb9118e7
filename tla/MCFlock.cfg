CONSTANTS
    Proc = {p1, p2}
    Remote = {p2}
    Vnode = {v1}
    NULL = NULL
    MAXEND = 3
    Size = 2
    Offset = 1
    Requests <- AllRequests
SPECIFICATION Spec
INVARIANTS
    ListSound
    BlockedExact

    
CHECK_DEADLOCK FALSE
