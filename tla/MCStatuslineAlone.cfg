SPECIFICATION Spec
CONSTANTS
    p1 = p1
    p2 = p2
    s1 = s1
    s2 = s2
    None = None
    Pids = {p1, p2}
    Sessions = {s1, s2}
    TTL = 2
    MaxClock = 2
    MaxVersion = 1
    MaxRunning = 1
    MaxKills = 1
    MaxTries = 1
    PidReuse = FALSE
INVARIANTS CacheWhole LineCurrent StubOnlyWhenBusy
