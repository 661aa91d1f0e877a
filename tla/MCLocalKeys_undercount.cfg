SPECIFICATION KeysSpec
CONSTANTS
    Calls = {c1, c2}
    Kids = {k1}
    FirstKid = k1
    NoKid = NoKid
    MaxEncryptions = 5
    Window = 2
    MaxRequests = 4
    MaxKeyFaults = 0
    MaxCrashes = 0
SYMMETRY Symmetry
INVARIANTS
    NeverUnderEstimates
CHECK_DEADLOCK FALSE
