SPECIFICATION Spec
CONSTANTS
    Tokens = {t1}
    Retention = 2
    NoRecord = NoRecord
    Replicas = {r1}
    MaxMutateRetries = 1
    MaxTime = 3
    MaxCalls = 2
    MaxFaults = 0
INVARIANTS
    LiveTokenRestorable
CHECK_DEADLOCK FALSE
