SPECIFICATION Spec
CONSTANTS
    Requests = {r1}
    Configs <- MCConfigs
PROPERTIES
    GoneEndsPipe
CHECK_DEADLOCK FALSE
