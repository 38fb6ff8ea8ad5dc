-------------------------------- MODULE Shared --------------------------------
(* State that several processes or tasks write: the logins of Claude and of     *)
(* Codex, the caches of the Claude usage, the status polls, the quota history.  *)
(* They share no state, so one run explores each alone, `part` saying which:    *)
(* the parts take the variables v1, v2, ... in the order they declare theirs.   *)
EXTENDS Naturals

CONSTANTS
    Procs, Rotates, ClaudeTokens, MaxLocks,                     \* Tokens
    CodexTokens, MaxServers, MaxPolls,                          \* Codex
    Requests,                                                   \* Usage
    Pollers, Askers, Lifetime, StatusClock, MaxVersion,         \* Health
    Polled, Outlooks, Reports,
    Tasks, Sweeps, LimitFiles, Says, Limits, Length, Kinds,     \* Quota
    TurnTokens, QuotaClock, MaxTurns, MaxSays, Trailing, MinHistory,
    None

VARIABLES part, v1, v2, v3, v4, v5, v6, v7, v8, v9, v10, v11, v12, v13, v14,
          v15, v16

T == INSTANCE Tokens WITH
        MaxToken <- ClaudeTokens,
        stored <- v1, locked <- v2, locks <- v3, overrides <- v4,
        issued <- v5, grants <- v6, expired <- v7, pc <- v8, job <- v9,
        answer <- v10, lost <- v11
X == INSTANCE Codex WITH
        MaxToken <- CodexTokens, mode <- v1,
        forced <- v2, file <- v3, issued <- v4, grants <- v5, expired <- v6,
        servers <- v7, held <- v8, pc <- v9, poll <- v10, answer <- v11,
        polls <- v12, lost <- v13
U == INSTANCE Usage WITH
        oauthOn <- v1, adminOn <- v2, usageCache <- v3,
        usageFresh <- v4, usageLock <- v5, adminCache <- v6, adminFresh <- v7,
        adminLock <- v8, factors <- v9, pc <- v10, windows <- v11,
        shown <- v12
H == INSTANCE Health WITH
        MaxClock <- StatusClock, clock <- v1, enabled <- v2, backend <- v3,
        page <- v4, cache <- v5, lock <- v6, poll <- v7, signal <- v8,
        sigLock <- v9, ask <- v10, degraded <- v11, spiking <- v12,
        known <- v13, seen <- v14, told <- v15, early <- v16
Q == INSTANCE Quota WITH
        Files <- LimitFiles, Answers <- Says, Tokens <- TurnTokens,
        MaxClock <- QuotaClock, clock <- v1,
        turns <- v2, history <- v3, task <- v4, content <- v5, sweep <- v6,
        noted <- v7, says <- v8

ASSUME Instances == T!TokensAssumption /\ X!CodexAssumption /\
                 U!UsageAssumption /\ H!HealthBounds /\ Q!QuotaAssumption

vars == <<part, v1, v2, v3, v4, v5, v6, v7, v8, v9, v10, v11, v12, v13, v14,
          v15, v16>>

\* The variables a part does not use stay None.
Init ==
    \/ part = "claude" /\ T!Init /\ v12 = None /\ v13 = None /\ v14 = None
       /\ v15 = None /\ v16 = None
    \/ part = "codex" /\ X!Init /\ v14 = None /\ v15 = None /\ v16 = None
    \/ part = "usage" /\ U!Init /\ v13 = None /\ v14 = None /\ v15 = None
       /\ v16 = None
    \/ part = "status" /\ H!Init
    \/ part = "quota" /\ Q!Init /\ v9 = None /\ v10 = None /\ v11 = None
       /\ v12 = None /\ v13 = None /\ v14 = None /\ v15 = None /\
       v16 = None

Claude ==
    /\ part = "claude" /\ T!Next
    /\ UNCHANGED <<part, v12, v13, v14, v15, v16>>
Codex ==
    /\ part = "codex" /\ X!Next
    /\ UNCHANGED <<part, v14, v15, v16>>
Usage ==
    /\ part = "usage" /\ U!Next
    /\ UNCHANGED <<part, v13, v14, v15, v16>>
Status ==
    /\ part = "status" /\ H!Next
    /\ UNCHANGED <<part>>
Quota ==
    /\ part = "quota" /\ Q!Next
    /\ UNCHANGED <<part, v9, v10, v11, v12, v13, v14, v15, v16>>
Next == Claude \/ Codex \/ Usage \/ Status \/ Quota

Spec == Init /\ [][Next]_vars

\* As long as no answer was lost, some store of each login holds a refresh token
\* the service still takes; and a poll of Codex answers with a reading or with an
\* error (oauth/credentials.rs, live_providers/codex.rs).
LoginsKept ==
    /\ part = "claude" => T!TypeOK /\ T!GrantKept
    /\ part = "codex" => X!TypeOK /\ X!CodexGrantKept /\ X!AnswerWhole

\* Once a caller was answered with the usage of the login, none is answered without
\* usage (refresh_usage_windows_with, cached_or_unavailable_claude_usage).
GoodUsageStays == [][part = "usage" => U!UsageStays]_vars

\* Each change of the level that alerts looked at was told, a poll without news
\* keeps what was stored, and, while one provider is polled, a spike is told
\* only ahead of its official page (poll_agent_status, webhooks).
HealthTrue == part = "status" => H!TypeOK /\ H!HealthTrue

\* The stored history follows what was observed, and a smoothed percentage lies
\* between those it was made of (rate_window_history, quota_estimator.rs).
QuotaTrue == part = "quota" => Q!TypeOK /\ Q!QuotaTrue

=============================================================================
