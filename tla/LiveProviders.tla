---------------------------- MODULE LiveProviders ----------------------------
(***************************************************************************)
(* The live provider snapshots (src/src/live_providers/mod.rs, cache.rs and *)
(* the handlers of src/src/server/api.rs): reads are answered from the      *)
(* cache, an expired one included, which a task of its own then renews; a   *)
(* forced refresh fetches.  A fetch that needs Claude's usage windows asks  *)
(* the polls of module Polls for them.                                      *)
(***************************************************************************)
EXTENDS Polls, FiniteSets

CONSTANTS
    Requests,       \* requests, each made once
    TaskOf,         \* request -> the background task it may spawn
    Kinds,          \* request -> what it may ask for
    LiveTtl,        \* LIVE_PROVIDER_CACHE_SECS, in ticks
    MaxDrops        \* bound: clients that hang up

Background == { TaskOf[q] : q \in Requests }
Tasks == Requests \cup Background
Providers == {"claude", "codex"}

\* What is asked for: both snapshots, one of them, or the usage windows alone.
Scopes == Providers \cup {"all", "usage"}

ASSUME LiveBounds == {LiveTtl, MaxDrops} \subseteq Nat
ASSUME LiveTasks == Requests \cap Background = {} /\ Tasks = Callers
ASSUME LiveKinds ==
    Kinds \in [Requests -> SUBSET [force : BOOLEAN, scope : Scopes]]

VARIABLES
    live,           \* live_provider_cache: None, or its time and its snapshots
    liveLock,       \* the task that holds live_provider_refresh_lock, or None
    task,           \* local state of each task
    shown,          \* provider -> newest version shown to anyone (history variable)
    drops

liveVars == <<live, liveLock, task, shown, drops>>
vars == <<pollVars, liveVars>>

Nothing == [p \in {} |-> Unavailable]

\* renewed: a full answer was stored since the request was made (history).
Fresh0 == [pc |-> "new", force |-> FALSE, scope |-> "all", waited |-> FALSE,
           got |-> Nothing, floor |-> [p \in Providers |-> Unavailable], renewed |-> FALSE]

Init ==
    /\ PollInit
    /\ live = None /\ liveLock = None
    /\ task = [t \in Tasks |-> Fresh0]
    /\ shown = [p \in Providers |-> Unavailable]
    /\ drops = 0

At(t, stage) == task[t].pc = stage
Goto(t, stage) == task' = [task EXCEPT ![t].pc = stage]

\* providers_to_build
Built(t) == IF task[t].scope = "all" THEN Providers ELSE {task[t].scope}

\* Where a request of this kind begins.
FirstStage(kind) ==
    IF kind.scope = "usage" THEN "build" ELSE IF kind.force THEN "lock" ELSE "look"

LiveFresh == live # None /\ clock - live.at < LiveTtl

ShownWith(snaps) ==
    [p \in Providers |-> IF p \in DOMAIN snaps THEN Larger(shown[p], snaps[p]) ELSE shown[p]]

\* The task ends with these snapshots.
Show(t, snaps) ==
    /\ task' = [task EXCEPT ![t].pc = "done", ![t].got = snaps]
    /\ shown' = ShownWith(snaps)

\* filter_response
Filtered(t) == [p \in Built(t) \cap DOMAIN live.snaps |-> live.snaps[p]]

-----------------------------------------------------------------------------
(* Requests *)

\* Mutated form: a forced refresh of everything leaves the cache alone.
AskLeavingCache(q, kind) ==
    /\ At(q, "new")
    /\ task' = [task EXCEPT ![q].pc = FirstStage(kind),
                            ![q].force = kind.force, ![q].scope = kind.scope,
                            ![q].floor = shown, ![q].renewed = FALSE]
    /\ UNCHANGED <<pollVars, live, liveLock, shown, drops>>

\* A forced refresh of everything empties the cache first.
Ask(q, kind) ==
    /\ At(q, "new")
    /\ task' = [task EXCEPT ![q].pc = FirstStage(kind),
                            ![q].force = kind.force, ![q].scope = kind.scope,
                            ![q].floor = shown, ![q].renewed = FALSE]
    /\ live' = IF kind.force /\ kind.scope = "all" THEN None ELSE live
    /\ UNCHANGED <<pollVars, liveLock, shown, drops>>

LookFresh(q) ==
    /\ At(q, "look")
    /\ \/ LiveFresh /\ Show(q, Filtered(q))
       \/ ~LiveFresh /\ Goto(q, "any") /\ UNCHANGED shown
    /\ UNCHANGED <<pollVars, live, liveLock, drops>>

\* What try_lock may return: another request may hold the lock for a moment, to see
\* that nobody refreshes.
TryOutcomes(q) ==
    LET probed == live # None /\ \E r \in Requests \ {q} : At(r, "any")
    IN  { ok \in BOOLEAN : IF ok THEN liveLock = None ELSE liveLock # None \/ probed }

\* An expired answer is served at once; if nobody refreshes, a task is spawned to.
ServeStale(q) ==
    /\ At(q, "any")
    /\ live # None
    /\ \E spawns \in TryOutcomes(q) :
          LET snaps == Filtered(q)
              spawned == [Fresh0 EXCEPT !.pc = "wait", !.scope = task[q].scope, !.floor = shown]
          IN  /\ task' = [t \in Tasks |->
                             IF t = q THEN [task[q] EXCEPT !.pc = "done", !.got = snaps]
                             ELSE IF spawns /\ t = TaskOf[q] THEN spawned ELSE task[t]]
              /\ shown' = ShownWith(snaps)
    /\ UNCHANGED <<pollVars, live, liveLock, drops>>

NothingCached(q) ==
    /\ At(q, "any")
    /\ live = None
    /\ Goto(q, "lock")
    /\ UNCHANGED <<pollVars, live, liveLock, shown, drops>>

\* try_lock, or else wait for the lock.
TryLock(q) ==
    /\ At(q, "lock")
    /\ \E locked \in TryOutcomes(q) :
          /\ liveLock' = IF locked THEN q ELSE liveLock
          /\ task' = [task EXCEPT ![q].pc = IF locked THEN "again" ELSE "wait",
                                  ![q].waited = ~locked]
    /\ UNCHANGED <<pollVars, live, shown, drops>>

TakeLock(t) ==
    /\ At(t, "wait")
    /\ liveLock = None
    /\ liveLock' = t
    /\ Goto(t, "again")
    /\ UNCHANGED <<pollVars, live, shown, drops>>

\* The cache answers if it is fresh, unless the refresh is forced, and in any
\* state if the request had to wait for another refresh.
CacheServes(t) ==
    \/ LiveFresh /\ ~task[t].force
    \/ live # None /\ task[t].waited

LookAgainLive(t) ==
    /\ At(t, "again")
    /\ \/ CacheServes(t) /\ liveLock' = None /\ Show(t, Filtered(t))
       \/ ~CacheServes(t) /\ Goto(t, "build") /\ UNCHANGED <<liveLock, shown>>
    /\ UNCHANGED <<pollVars, live, drops>>

-----------------------------------------------------------------------------
(* fetch_live_provider_response *)

\* refresh_usage_windows, here and for GET /api/usage-windows.  The windows shown
\* alone do not count as a snapshot shown.
AskUsage(t) ==
    /\ At(t, "build")
    /\ Built(t) \cap {"claude", "usage"} # {}
    /\ StartPoll(t)
    /\ Goto(t, "usage")
    /\ UNCHANGED <<live, liveLock, shown, drops>>

ShowUsage(t) ==
    /\ At(t, "usage")
    /\ task[t].scope = "usage"
    /\ Return(t)
    /\ task' = [task EXCEPT ![t].pc = "done", ![t].got = [p \in {"claude"} |-> poll[t].got]]
    /\ UNCHANGED <<live, liveLock, shown, drops>>

SkipUsage(t) ==
    /\ At(t, "build")
    /\ Built(t) = {"codex"}
    /\ Goto(t, "codex")
    /\ UNCHANGED <<pollVars, live, liveLock, shown, drops>>

BuildClaude(t) ==
    /\ At(t, "usage")
    /\ "claude" \in Built(t)
    /\ Return(t)
    /\ task' = [task EXCEPT ![t].pc = IF "codex" \in Built(t) THEN "codex" ELSE "store",
                            ![t].got = [p \in {"claude"} |-> poll[t].got]]
    /\ UNCHANGED <<live, liveLock, shown, drops>>

\* Codex is asked directly; when no source answers its snapshot says so.
BuildCodex(t) ==
    /\ At(t, "codex")
    /\ \E v \in {world, Unavailable} :
          task' = [task EXCEPT ![t].pc = "store",
                               ![t].got = [p \in Built(t) |->
                                              IF p = "codex" THEN v ELSE task[t].got[p]]]
    /\ UNCHANGED <<pollVars, live, liveLock, shown, drops>>

\* update_cache_after_fetch: a full answer replaces the cache, that of a provider
\* alone is merged into it and renews its time, and is dropped if there is none.
Updated(t) ==
    LET got == task[t].got
    IN  IF DOMAIN got = Providers THEN [at |-> clock, snaps |-> got]
        ELSE IF live = None THEN None
        ELSE [at |-> clock,
              snaps |-> [p \in Providers |-> IF p \in DOMAIN got THEN got[p] ELSE live.snaps[p]]]

StoreLive(t) ==
    /\ At(t, "store")
    /\ live' = Updated(t)
    /\ liveLock' = None
    /\ task' = [s \in Tasks |->
                  [task[s] EXCEPT !.pc = IF s = t THEN "done" ELSE @,
                                  !.renewed = @ \/ DOMAIN task[t].got = Providers]]
    /\ shown' = IF t \in Requests THEN ShownWith(task[t].got) ELSE shown
    /\ UNCHANGED <<pollVars, drops>>

Released(t) == liveLock' = IF liveLock = t THEN None ELSE liveLock

\* Mutated form: an error keeps the lock.
FailLocked(t) ==
    /\ task[t].pc \in {"codex", "store"}
    /\ task' = [task EXCEPT ![t].pc = "done", ![t].got = Nothing]
    /\ UNCHANGED <<pollVars, live, liveLock, shown, drops>>

\* A snapshot cannot be built: the error ends the task.
FailBuild(t) ==
    /\ task[t].pc \in {"codex", "store"}
    /\ task' = [task EXCEPT ![t].pc = "done", ![t].got = Nothing]
    /\ Released(t)
    /\ UNCHANGED <<pollVars, live, shown, drops>>

\* The client of a request hangs up: its future is dropped wherever it waits, with
\* its locks.  A spawned task goes on.
HangUp(q) ==
    /\ drops < MaxDrops
    /\ drops' = drops + 1
    /\ task[q].pc \notin {"new", "done"}
    /\ task' = [task EXCEPT ![q].pc = "done", ![q].got = Nothing]
    /\ Released(q)
    /\ Dropped(q)
    /\ UNCHANGED <<environment, pollCache, webhook, newest, live, shown>>

-----------------------------------------------------------------------------

Step(t) ==
    \/ LookFresh(t) \/ ServeStale(t) \/ NothingCached(t) \/ TryLock(t)
    \/ TakeLock(t) \/ LookAgainLive(t)
    \/ AskUsage(t) \/ ShowUsage(t) \/ SkipUsage(t) \/ BuildClaude(t) \/ BuildCodex(t) \/ StoreLive(t)

\* What goes on by itself once requests are made.
Work ==
    \/ \E t \in Tasks : Step(t)
    \/ UNCHANGED liveVars /\ \E c \in Callers : PollStep(c)

Next ==
    \/ Work
    \/ \E q \in Requests : HangUp(q) \/ \E kind \in Kinds[q] : Ask(q, kind)
    \/ \E t \in Tasks : FailBuild(t)
    \/ (Tick \/ Change) /\ UNCHANGED liveVars

Spec == Init /\ [][Next]_vars

-----------------------------------------------------------------------------
(* Properties *)

\* The polls have their types, a cached answer has both providers, and whoever
\* fetches has the lock.
TypeOK ==
    /\ PollTypeOK
    /\ live = None \/ (live.at \in 0..MaxClock /\ DOMAIN live.snaps = Providers)
    /\ liveLock \in Tasks \cup {None}
    /\ \A t \in Tasks :
          /\ task[t].pc \in {"new", "look", "any", "lock", "wait", "again", "build", "usage",
                             "codex", "store", "done"}
          /\ task[t].scope \in Scopes
          /\ DOMAIN task[t].got \subseteq Providers
    /\ drops \in 0..MaxDrops

\* No request shows data older than what anyone was shown before it was made.
NoStepBack ==
    \A q \in Requests : \A p \in DOMAIN task[q].got :
        At(q, "done") => \/ task[q].got[p] = Unavailable
                         \/ task[q].got[p] >= task[q].floor[p]

\* A forced refresh of everything shows nothing that was cached when it was made:
\* it fetches, or it shows what another task has fetched and stored since.
ForcedIsNew ==
    \A q \in Requests :
        (task[q].force /\ task[q].scope = "all" /\ At(q, "done") /\ DOMAIN task[q].got # {})
            => task[q].renewed

\* What a request shows is as new as what was shown before it was made, and
\* newer than the cache it was told to pass over.
AnswersNew == NoStepBack /\ ForcedIsNew

\* No request waits for ever: as long as one has not ended, some task can go on,
\* whoever failed or hung up while it held a lock or waited for one.
NobodyStuck == (\E q \in Requests : task[q].pc \notin {"new", "done"}) => ENABLED Work

=============================================================================
