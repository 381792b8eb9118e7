CONSTANTS
    Proc = {p1}
    Stream = {s1}
    NULL = NULL
    HIWAT = 3
    LOWAT = 2
    BUF = 2
    MAXIN = 2
    Settings <- Both
    MAKESLEEP = FALSE
SPECIFICATION Spec
INVARIANT RunListSound
CHECK_DEADLOCK FALSE
