CONSTANTS
    c1 = c1 c2 = c2 f1 = f1 f2 = f2 f3 = f3 z1 = z1 z2 = z2 z3 = z3
    d1 = d1 d2 = d2 None = None
    Convs = {c1, c2}
    Payloads = {x, y}
    Writers = {w}
    CacheFiles = {f1, f2, f3}
    Cached <- MCCached
    Stamps = {1, 2}
    MaxCaptures = 3
    Zips = {z1, z2, z3}
    Vendor <- MCVendor
    Readable = {z1}
    Holds <- MCHolds
    MaxEvents = 3
    MaxImports = 3
    MaxVersion = 3
    MaxTokens = 2
    HookBuilds = {b1, b2}
    UserHooks = {u1}
    JobBuilds = {"old", "new"}
    UserLines = {"backup"}
    CrontabFails = TRUE
    MaxCommands = 4
    MaxJobCommands = 3
    RunCaptures = {c1, c2}
    Outputs <- MCOutputs
    Says = {"x", "y", "a", "b", "c", "-"}
    MaxRuns = 3
SPECIFICATION Spec
INVARIANTS IntakeKept InstallsSafe JobsSound SnapshotOwn
PROPERTIES DownloadsImported WatcherServes
CHECK_DEADLOCK FALSE
