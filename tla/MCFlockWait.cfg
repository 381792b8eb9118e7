CONSTANTS
    Proc = {p1, p2, p3}
    Remote = {}
    Vnode = {v1}
    NULL = NULL
    MAXEND = 2
    Size = 2
    Offset = 1
    Requests <- WaitRequests
SPECIFICATION Spec
INVARIANTS
    NoLostWakeup
    NoDeadlock
    DeadflckEnds
SYMMETRY Symm
CHECK_DEADLOCK FALSE
