CONSTANTS
    r1 = r1  r2 = r2  r3 = r3  b1 = b1  b2 = b2  b3 = b3
    Requests = {r1, r2, r3}
    Callers = {r1, r2, r3, b1, b2, b3}
    TaskOf <- MCTaskOf
    None = None
    Kinds <- MCKinds
    Interval = 1
    LiveTtl = 1
    MaxClock = 1
    MaxVersion = 3
    MaxDrops = 1
SPECIFICATION Spec
INVARIANTS PollsApart AnswersAdvance LastWebhookTrue AnswersNew NobodyStuck
CHECK_DEADLOCK FALSE
