SPECIFICATION Spec
CONSTANTS
    Procs = {p1, p2}
    Events = {e1, e2, e3}
    HoldersMayStall = FALSE
    EveryRecords = 1
    MaxFaults = 1
    NoFile = NoFile
    NoEvent = NoEvent
SYMMETRY Symmetry
INVARIANTS
    NeverForked
CHECK_DEADLOCK FALSE
