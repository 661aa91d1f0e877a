SPECIFICATION Spec
CONSTANTS
    Requests = {r1, r2}
    Configs <- MCConfigs
INVARIANTS
    InFlightExact
    RecordedBeforeForwarded
    RecordedBeforeAnswered
PROPERTIES
    OnlyGraceCuts
    CloseEnds
    LeavingEndsPipe
CHECK_DEADLOCK FALSE
