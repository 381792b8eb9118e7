CONSTANTS
    p1 = p1
    p2 = p2
    c1 = c1
    c2 = c2
    km = km
    Proc = {p1, p2}
    Chan = {c1, c2, km}
    KmChan = km
    Hash <- Hash1
    Caught = {"SIGUSR"}
    Ignored = {"SIGCONT"}
    Detached = {p2}
    Sleeps <- Sleeps1
    Sent <- Sent1
    Traced <- Traced1
    RunOptions <- Options1
    KMEMSHORT = FALSE
    NULL = NULL
SPECIFICATION Spec
INVARIANTS
    TablesSound
    StopsSound
    
PROPERTIES
    SleepEnds
CHECK_DEADLOCK FALSE
