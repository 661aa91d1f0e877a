SPECIFICATION FairSpec
CONSTANTS
    Procs = {p1, p2}
    Events = {e1, e2, e3}
    HoldersMayStall = TRUE
    EveryRecords = 1
    MaxFaults = 1
    NoFile = NoFile
    NoEvent = NoEvent
INVARIANTS
    ExclusiveUnlessBroken
    DamageOnlyAtTail
    AckedReadable
    NoFalseAlarm
    TruncationCaught
PROPERTIES
    EveryRecordSettles
CHECK_DEADLOCK FALSE
