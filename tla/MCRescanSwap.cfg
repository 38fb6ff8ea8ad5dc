CONSTANTS
    q1 = q1  q2 = q2  hook = hook
    event = event  limits = limits
    Requests = {q1, q2}
    Writers = {hook}
    Rows = {event, limits}
    TableOf <- MCTableOf
    FromFiles = {limits}
    Inodes = {1, 2, 3, 4, 5}
    None = None
    MaxAsked = 2
    MaxCrashes = 1
    MaxDisconnects = 1
SPECIFICATION FairSpec
INVARIANT OwedKeptUnbroken
PROPERTY EveryRequestEnds
CHECK_DEADLOCK FALSE
