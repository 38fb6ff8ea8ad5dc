CONSTANTS
    p1 = p1 p2 = p2 None = None
    Procs = {p1, p2}
    Rotates = TRUE
    ClaudeTokens = 4
    MaxLocks = 1
    CodexTokens = 3
    MaxServers = 2
    MaxPolls = 2
    Requests = {r1}
    Pollers = {c1}
    Askers = {a1}
    Lifetime = 1
    StatusClock = 1
    MaxVersion = 2
    Polled <- MCPolled
    Outlooks = {"fine", "major"}
    Reports <- MCReports
    Tasks = {p1, p2}
    Sweeps = {s1}
    LimitFiles = {f1}
    Says <- MCSays
    Limits <- MCLimits
    Length <- MCLength
    Kinds <- MCTurnKinds
    TurnTokens = 26
    QuotaClock = 2
    MaxTurns = 1
    MaxSays = 3
    Trailing = 3
    MinHistory = 1
SPECIFICATION Spec
SYMMETRY MCSymmetry
INVARIANTS LoginsKept HealthTrue QuotaTrue
PROPERTY GoodUsageStays
CHECK_DEADLOCK FALSE
