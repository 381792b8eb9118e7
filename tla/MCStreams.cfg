CONSTANTS
    Proc = {p1, p2}
    Stream = {s1}
    NULL = NULL
    HIWAT = 3
    LOWAT = 2
    BUF = 2
    MAXIN = 2
    Settings <- Apart
    MAKESLEEP = FALSE
SYMMETRY Symm
SPECIFICATION Spec
INVARIANTS
    ListsSound
    
    

    
CHECK_DEADLOCK FALSE
