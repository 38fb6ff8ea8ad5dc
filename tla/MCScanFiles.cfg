SPECIFICATION TwoSpec
CONSTANTS
    s1 = s1
    s2 = s2
    m1 = m1
    m2 = m2
    m3 = m3
    u1 = u1
    u2 = u2
    NoId = NoId
    None = None
    Files = {1, 2}
    Sessions = {s1, s2}
    MsgIds = {m1, m2, m3}
    ToolIds = {u1, u2}
    Contents <- AllFiles
    OwnFiles <- OwnSessions
    SharedFiles <- GrowingFiles
    Scanners = {scanner1}
    scanner1 = scanner1
    scanner2 = scanner2
    opener = opener
    Openers = {}
    Rewrites = TRUE
    MaxEdits = 4
    MaxCrashes = 2
INVARIANTS OwnTurnsExact TotalsExact SessionsTrue OwnToolCosts OwnRowsMarked MessagesOnce
PROPERTY ScansConverge
