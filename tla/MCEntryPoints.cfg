SPECIFICATION EntrySpec
CONSTANTS
    TokenIds = {t1, t2}
    CliProcs = {p1, p2}
    BearerRequests = {q1, q2}
    MaxCommands = 4
    SandboxConfigs <- MCSandboxConfigs
    MaxAuthCalls = 3
    MaxReplies = 1
    MaxSandboxTime = 2
    FetchConfigs <- MCFetchConfigs
    Kids = {k1, k2}
    Verifiers = {v1, v2}
    MaxFetchTime = 6
    MaxRotations = 1
    LimiterConfigs <- MCLimiterConfigs
    LimitKeys = {a, b}
    MaxLimiterTime = 3
    MaxHits = 3
    MaxSentHits = 2
    MaxSkew = 1
    McpLines <- MCMcpLines
    AllowedMethods = {"tools/call"}
    MaxLines = 2
    OidcConfigs <- MCOidcConfigs
    Subjects = {u1, u2}
    MaxAtOnce = 2
    MaxLogins = 2
    MaxSessions = 2
    MaxOidcTime = 8
    MaxVisits = 4
    DashConfigs <- MCDashConfigs
    Pagers = {c1}
    ChainCallers = {r1, r2}
    Lengths = {1, 2}
    MaxRecords = 3
INVARIANTS
    EndedStaysEnded
    LoginUsedOnce
    OwnClaimsOnly
    ClosedStaysDown
    StaleOnlyUnrefreshed
    RevokedIsRefused
    BudgetKept
    PagedWithoutGap
    ChainAnswerCurrent
PROPERTIES
    SubjectPinned
    FetchesSpaced
    CallsReturn
    WrapEnds
CHECK_DEADLOCK FALSE
