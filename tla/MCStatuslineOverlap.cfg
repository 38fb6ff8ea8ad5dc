SPECIFICATION FairSpec
CONSTANTS
    p1 = p1
    p2 = p2
    s1 = s1
    s2 = s2
    None = None
    Pids = {p1, p2}
    Sessions = {s1}
    TTL = 1
    MaxClock = 1
    MaxVersion = 0
    MaxRunning = 2
    MaxKills = 1
    MaxTries = 1
    PidReuse = TRUE
INVARIANT LockReleased
PROPERTY EveryRunEnds
