SPECIFICATION ProtectionSpec
CONSTANTS
    Tokens = {t1, t2}
    Retention = 1
    NoRecord = NoRecord
    Replicas = {p1, p2}
    MaxMutateRetries = 2
    Procs = {p1, p2}
    HoldersMayStall = TRUE
    NoFile = NoFile
    MaxTime = 3
    MaxCalls = 3
    MaxFaults = 1
    Calls = {p1, p2}
    Kids = {k1, k2}
    FirstKid = k1
    NoKid = NoKid
    MaxEncryptions = 3
    Window = 2
    MaxRequests = 4
    MaxKeyFaults = 1
    MaxCrashes = 1
    TextLength = 6
    MaxMatchBytes = 2
    MaxDelta = 3
    MaxOthers = 1
    Rules <- MCRules
    Texts <- MCTexts
SYMMETRY Symmetry
INVARIANTS
    CoversSequentialUse
    PerProcessLimit
    NoOrphanedEnvelopes
    SameAsOneShot
    BlockedNeverShown
    TailBeforeTerminator
    EachCountedOnce
PROPERTIES
    KeptUntilExpiry
    ImplementsTokenMap
    KeptWhileLocked
CHECK_DEADLOCK FALSE
