SPECIFICATION OidcSpec
CONSTANTS
    OidcConfigs <- MCOidcConfigs
    Subjects = {u1}
    MaxAtOnce = 1
    MaxLogins = 1
    MaxSessions = 1
    MaxOidcTime = 9
    MaxVisits = 5
INVARIANTS
    CeilingIsAbsolute
CHECK_DEADLOCK FALSE
