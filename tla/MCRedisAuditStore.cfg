SPECIFICATION FairSpec
CONSTANTS
    Replicas = {r1, r2}
    Events = {e1, e2}
    EveryRecords = 1
    MaxAppendRetries = 2
    MaxFaults = 2
    MaxCrashes = 1
    NoOne = NoOne
    NoEvent = NoEvent
INVARIANTS
    ChainNeverForks
    AnchorsNeverAccuse
    ConflictsArePaidFor
PROPERTIES
    ImplementsAuditLog
    EveryRecordSettles
CHECK_DEADLOCK FALSE
