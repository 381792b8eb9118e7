CONSTANTS
    Client = {c1, c2, c3}
    Units = 7
    MaxSize = 3
    Align = 4
    MapSlots = 2
SYMMETRY Clients
SPECIFICATION Spec
INVARIANTS
    MapWellFormed
    Conservation
    FirstFitComplete
    NoLostWakeup
CHECK_DEADLOCK FALSE
