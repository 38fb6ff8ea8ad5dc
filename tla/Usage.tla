------------------------------- MODULE Usage -------------------------------
(***************************************************************************)
(* Where the Claude usage on a live snapshot comes from: the login's usage  *)
(* windows, else the organisation's admin analytics, else the last good    *)
(* answer, else the factors stored in the database.  Background polls and   *)
(* requests share two caches, each filled under a lock of its own; a        *)
(* request at start-up reads the caches without a poll.                     *)
(***************************************************************************)
EXTENDS Naturals, FiniteSets

CONSTANTS Requests, None

\* The loops of start_background_pollers_with for these caches.
Callers == Requests \cup {"oauth usage", "Claude admin analytics"}

VARIABLES oauthOn, adminOn,     \* the configuration
          usageCache, usageFresh, usageLock,
          adminCache, adminFresh, adminLock,
          factors,              \* a /usage run is stored
          pc, windows,          \* each caller: its step, the answer it polled
          shown                 \* each caller: what it came to

config == <<oauthOn, adminOn>>
usage == <<usageCache, usageFresh, usageLock>>
admin == <<adminCache, adminFresh, adminLock>>
vars == <<config, usage, admin, factors, pc, windows, shown>>

\* UsageWindowsResponse; summary is whether the admin summary carries data.
Answers == [source : {"unavailable", "oauth", "admin"}, available : BOOLEAN,
            error : BOOLEAN, summary : {"none", "data", "failed"}]
\* What an instance must satisfy: None is no caller, no summary and no answer.
UsageAssumption == None \notin Callers \cup {"data", "failed"} /\ None \notin Answers

Unavailable == [source |-> "unavailable", available |-> FALSE, error |-> FALSE,
                summary |-> "none"]
WithError == [Unavailable EXCEPT !.error = TRUE]
Windows == [Unavailable EXCEPT !.source = "oauth", !.available = TRUE]
FromAdmin(summary) == [Unavailable EXCEPT !.source = "admin", !.available = TRUE,
                                          !.summary = summary]

TypeOK ==
    /\ {oauthOn, adminOn, usageFresh, adminFresh, factors} \subseteq BOOLEAN
    /\ usageCache \in Answers \cup {None} /\ adminCache \in {None, "data", "failed"}
    /\ usageLock \in Callers \cup {None} /\ adminLock \in Callers \cup {None}
    /\ pc \in [Callers -> {"idle", "usage", "ask", "store", "admin", "analytics"}]
    /\ windows \in [Callers -> Answers]
    /\ shown \in [Callers -> Answers \cup {None}]

Init ==
    /\ oauthOn \in BOOLEAN /\ adminOn \in BOOLEAN
    /\ usageCache = None /\ usageFresh = FALSE /\ usageLock = None
    /\ adminCache = None /\ adminFresh = FALSE /\ adminLock = None
    /\ factors \in BOOLEAN
    /\ pc = [c \in Callers |-> "idle"]
    /\ windows = [c \in Callers |-> Unavailable]
    /\ shown = [c \in Callers |-> None]

Goto(c, step) == pc' = [pc EXCEPT ![c] = step]
Answer(c, a) == Goto(c, "idle") /\ shown' = [shown EXCEPT ![c] = a]

-----------------------------------------------------------------------------
(* refresh_usage_windows_with *)

UsageOff(c) ==
    /\ pc[c] = "idle" /\ c \in Requests /\ ~oauthOn /\ ~adminOn
    /\ Answer(c, Unavailable)
    /\ UNCHANGED <<config, usage, admin, factors, windows>>

UsageHit(c) ==
    /\ pc[c] \in {"idle", "usage"} /\ c # "Claude admin analytics"
    /\ usageCache # None /\ usageFresh /\ (oauthOn \/ adminOn)
    /\ pc[c] = "usage" => usageLock = None
    /\ Answer(c, usageCache)
    /\ UNCHANGED <<config, usage, admin, factors, windows>>

WantUsage(c) ==
    /\ pc[c] = "idle" /\ c # "Claude admin analytics"
    /\ c \in Requests => oauthOn \/ adminOn
    /\ c = "oauth usage" => oauthOn
    /\ ~usageFresh
    /\ Goto(c, "usage")
    /\ UNCHANGED <<config, usage, admin, factors, windows, shown>>

\* Under the refresh lock the cache is looked at again.
LockUsage(c) ==
    /\ pc[c] = "usage" /\ usageLock = None /\ ~usageFresh
    /\ usageLock' = c
    /\ Goto(c, "ask")
    /\ UNCHANGED <<config, usageCache, usageFresh, admin, factors, windows, shown>>

\* poll_usage, when the login may be used; the analytics follow if it fails.
PollUsage(c) ==
    /\ pc[c] = "ask"
    /\ \E a \in IF oauthOn THEN {Windows, WithError} ELSE {Unavailable} :
        /\ windows' = [windows EXCEPT ![c] = a]
        /\ Goto(c, IF ~a.available /\ adminOn THEN "admin" ELSE "store")
    /\ UNCHANGED <<config, usage, admin, factors, shown>>

\* Mutated form: a failed poll replaces the good answer.
StoreUsageAlways(c) ==
    /\ pc[c] = "store"
    /\ usageCache' = windows[c] /\ usageFresh' = TRUE /\ usageLock' = None
    /\ Answer(c, windows[c])
    /\ UNCHANGED <<config, admin, factors, windows>>

\* An answer without usage leaves the last one in place, counted as fresh.
StoreUsage(c) ==
    /\ pc[c] = "store"
    /\ LET stored == IF windows[c].available \/ usageCache = None
                     THEN windows[c] ELSE usageCache
       IN  usageCache' = stored /\ Answer(c, stored)
    /\ usageFresh' = TRUE /\ usageLock' = None
    /\ UNCHANGED <<config, admin, factors, windows>>

-----------------------------------------------------------------------------
(* refresh_claude_admin_summary_with *)

\* The windows a usage poll that asked for them has now.
AfterAdmin(c, summary) ==
    IF c = "Claude admin analytics"
    THEN Goto(c, "idle") /\ UNCHANGED windows
    ELSE /\ Goto(c, "store")
         /\ windows' = [windows EXCEPT ![c] =
                IF summary = "data" THEN FromAdmin(summary) ELSE @]

WantAdmin ==
    /\ adminOn /\ pc["Claude admin analytics"] = "idle" /\ ~adminFresh
    /\ Goto("Claude admin analytics", "admin")
    /\ UNCHANGED <<config, usage, admin, factors, windows, shown>>

AdminHit(c) ==
    /\ pc[c] = "admin" /\ adminCache # None /\ adminFresh
    /\ AfterAdmin(c, adminCache)
    /\ UNCHANGED <<config, usage, admin, factors, shown>>

LockAdmin(c) ==
    /\ pc[c] = "admin" /\ adminLock = None /\ ~adminFresh
    /\ adminLock' = c
    /\ Goto(c, "analytics")
    /\ UNCHANGED <<config, usage, adminCache, adminFresh, factors, windows, shown>>

\* fetch_org_claude_code_summary, or no key is set: a failure is a summary too.
StoreAdmin(c) ==
    /\ pc[c] = "analytics"
    /\ \E fetched \in {"data", "failed"} :
        LET stored == IF fetched = "failed" /\ adminCache # None
                      THEN adminCache ELSE fetched
        IN  adminCache' = stored /\ AfterAdmin(c, stored)
    /\ adminFresh' = TRUE /\ adminLock' = None
    /\ UNCHANGED <<config, usage, factors, shown>>

-----------------------------------------------------------------------------
(* Start-up and the clock *)

\* cached_or_unavailable_claude_usage: the cached usage, else any admin summary.
Startup(c) ==
    /\ pc[c] = "idle" /\ c \in Requests
    /\ Answer(c, IF usageCache # None THEN usageCache
                 ELSE IF adminCache # None THEN FromAdmin(adminCache)
                 ELSE Unavailable)
    /\ UNCHANGED <<config, usage, admin, factors, windows>>

Age ==
    /\ \/ usageFresh /\ usageFresh' = FALSE /\ UNCHANGED adminFresh
       \/ adminFresh /\ adminFresh' = FALSE /\ UNCHANGED usageFresh
    /\ UNCHANGED <<config, usageCache, usageLock, adminCache, adminLock, factors,
                   pc, windows, shown>>

\* A request whose client is gone is dropped where it waits, with the locks it holds.
HangUp(c) ==
    /\ c \in Requests /\ pc[c] # "idle"
    /\ Goto(c, "idle")
    /\ usageLock' = (IF usageLock = c THEN None ELSE usageLock)
    /\ adminLock' = (IF adminLock = c THEN None ELSE adminLock)
    /\ UNCHANGED <<config, usageCache, usageFresh, adminCache, adminFresh, factors,
                   windows, shown>>

\* A /usage run is parsed and stored.
StoreFactors ==
    /\ ~factors /\ factors' = TRUE
    /\ UNCHANGED <<config, usage, admin, pc, windows, shown>>

RefreshUsage(c) ==
    \/ UsageOff(c) \/ UsageHit(c) \/ WantUsage(c) \/ LockUsage(c)
    \/ PollUsage(c) \/ StoreUsage(c)
RefreshAdmin(c) == AdminHit(c) \/ LockAdmin(c) \/ StoreAdmin(c)

Next ==
    \/ \E c \in Callers : RefreshUsage(c) \/ RefreshAdmin(c)
    \/ \E c \in Requests : Startup(c) \/ HangUp(c)
    \/ WantAdmin \/ Age \/ StoreFactors

Spec == Init /\ [][Next]_vars

-----------------------------------------------------------------------------
(* Properties *)

\* build_claude_snapshot: the sources tried, in order, with what came of them.
Snapshot(a, local) ==
    LET used == IF a.available THEN a.source
                ELSE IF local THEN "local" ELSE "unavailable"
        oauth == IF used = "oauth" THEN "success"
                 ELSE IF a.error THEN "error" ELSE "unavailable"
    IN  [available |-> a.available \/ local, used |-> used,
         attempts |-> IF used \in {"oauth", "unavailable"} THEN <<oauth>>
                      ELSE <<oauth, "success">>,
         fallback |-> used \in {"local", "admin"},
         error |-> used = "unavailable" /\ a.error]

\* Once a caller has been answered with the usage of the login, none is answered
\* without usage again, from whichever cache, after whichever failure, and at
\* start-up too (refresh_usage_windows_with, cached_or_unavailable_claude_usage).
LoginShown == \E c \in Callers :
    shown[c] # None /\ shown[c].available /\ shown[c].source = "oauth"
Answered(c) == UsageOff(c) \/ UsageHit(c) \/ StoreUsage(c) \/ (c \in Requests /\ Startup(c))
UsageStays == LoginShown => \A c \in Callers : Answered(c) => shown'[c].available

\* The analytics at start-up are not so: a poll that met their failure before may
\* still store it after a request was shown their data.
AnyShown == \E c \in Callers : shown[c] # None /\ shown[c].available
AnyStays == AnyShown => \A c \in Callers : Answered(c) => shown'[c].available

\* An answer taken from the admin analytics has their data: claude.rs says of it
\* "using org-wide Anthropic admin analytics".
AdminHasData ==
    \A c \in Callers :
        shown[c] # None /\ Snapshot(shown[c], factors).used = "admin" =>
            shown[c].summary = "data"

-----------------------------------------------------------------------------
(* What the proof needs: what was shown of the login is in the cache, and is    *)
(* there only where the login may be used.                                      *)
Types ==
    /\ windows \in [Callers -> Answers] /\ shown \in [Callers -> Answers \cup {None}]
    /\ usageCache \in Answers \cup {None} /\ adminCache \in {None, "data", "failed"}
OfLogin(a) == a.available /\ a.source = "oauth"
Cached ==
    /\ LoginShown => usageCache # None /\ usageCache.available
    /\ \A c \in Callers : OfLogin(windows[c]) => oauthOn
    /\ usageCache # None /\ OfLogin(usageCache) => oauthOn
    /\ LoginShown => oauthOn
Inv == Types /\ Cached

=============================================================================
