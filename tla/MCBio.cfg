CONSTANTS
    n1 = n1
    n2 = n2
    Proc = {p1, p2}
    Buf = {b1, b2}
    Block = {n1, n2}
    Size <- TwoSizes
    ESIZE = 1
    BUFHWM = 3
    AWFREE = 0
    RAFREE = 0
    KMEMSLEEP = {"ngeteblk"}
    NULL = NULL
SPECIFICATION Spec
INVARIANTS
    Accounted
    OneBufPerBlock
    
    
    NoLostWakeup
SYMMETRY Symm
CHECK_DEADLOCK FALSE
