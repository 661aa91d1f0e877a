SPECIFICATION FetchSpec
CONSTANTS
    FetchConfigs <- MCFetchConfigs
    Kids = {k1}
    Verifiers = {v1}
    MaxFetchTime = 4
    MaxRotations = 0
PROPERTIES
    OneFetchPerCooldown
CHECK_DEADLOCK FALSE
