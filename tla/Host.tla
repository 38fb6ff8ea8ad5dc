--------------------------------- MODULE Host ---------------------------------
(* What runs around the database on the user's machine: the web capture store,  *)
(* the import folder, the file watcher, the hook installers, the scheduled jobs *)
(* and the usage monitor.                                                       *)
(* They share no state, so one run explores each alone, `part` saying which:    *)
(* the parts take the variables v1, v2, ... in the order they declare theirs.   *)
EXTENDS Naturals

CONSTANTS
    Convs, Payloads, Writers, CacheFiles, Cached, Stamps, MaxCaptures, \* Captures
    Zips, Vendor, Readable, Holds, MaxEvents, MaxImports,  \* Imports
    MaxVersion, MaxTokens,                                 \* Watch
    HookBuilds, UserHooks,                                 \* Installers
    JobBuilds, UserLines, CrontabFails,                    \* Jobs
    MaxCommands, MaxJobCommands,                           \* of Installers, of Jobs
    RunCaptures, Outputs, Says, MaxRuns,                   \* Monitor
    None

VARIABLES part, v1, v2, v3, v4, v5, v6, v7, v8, folder, sent, channel,
          watcher, exports, broken, written, scanned, tokens, thread, reads,
          handle, missed

C == INSTANCE Captures WITH
        taken <- v1, current <- v2, history <- v3, tmp <- v4, dumped <- v5,
        work <- v6, report <- v7, saved <- v8
I == INSTANCE Imports
W == INSTANCE Watch
H == INSTANCE Installers WITH
        Builds <- HookBuilds, file <- v1, backup <- v2, run <- v3,
        result <- v4, count <- v5, torn <- v6
J == INSTANCE Jobs WITH
        Builds <- JobBuilds, MaxCommands <- MaxJobCommands, os <- v1,
        crontab <- v2, plist <- v3, loaded <- v4, run <- v5, sound <- v6,
        count <- v7, astray <- v8
M == INSTANCE Monitor WITH
        Captures <- RunCaptures, runs <- v1, factors <- v2, capture <- v3,
        meant <- v4, whole <- v5

ASSUME Instances == C!CapturesAssumption /\ I!ImportsAssumption /\
                 W!WatchBounds /\ H!InstallersAssumption /\ J!JobsAssumption /\
                 M!MonitorAssumption

vars == <<part, v1, v2, v3, v4, v5, v6, v7, v8, folder, sent, channel,
          watcher, exports, broken, written, scanned, tokens, thread, reads,
          handle, missed>>

\* The variables a part does not use stay None.
Init ==
    \/ part = "web" /\ C!Init /\ I!Init /\ W!Init
    \/ part = "exports" /\ I!Init /\ W!Init /\ v1 = None /\ v2 = None /\
       v3 = None /\ v4 = None /\ v5 = None /\ v6 = None /\ v7 = None /\
       v8 = None
    \/ part = "watch" /\ W!Init /\ I!Init /\ v1 = None /\ v2 = None /\
       v3 = None /\ v4 = None /\ v5 = None /\ v6 = None /\ v7 = None /\
       v8 = None
    \/ part = "hooks" /\ H!Init /\ I!Init /\ W!Init /\ v7 = None /\
       v8 = None
    \/ part = "jobs" /\ J!Init /\ I!Init /\ W!Init
    \/ part = "monitor" /\ M!Init /\ I!Init /\ W!Init /\ v6 = None /\
       v7 = None /\ v8 = None

Web ==
    /\ part = "web" /\ C!Next
    /\ UNCHANGED <<part, folder, sent, channel, watcher, exports, broken,
                   written, scanned, tokens, thread, reads, handle, missed>>
Exports ==
    /\ part = "exports" /\ I!Next
    /\ UNCHANGED <<part, v1, v2, v3, v4, v5, v6, v7, v8, written, scanned,
                   tokens, thread, reads, handle, missed>>
Watch ==
    /\ part = "watch" /\ W!Next
    /\ UNCHANGED <<part, v1, v2, v3, v4, v5, v6, v7, v8, folder, sent,
                   channel, watcher, exports, broken>>
Hooks ==
    /\ part = "hooks" /\ H!Next
    /\ UNCHANGED <<part, v7, v8, folder, sent, channel, watcher, exports, broken,
                   written, scanned, tokens, thread, reads, handle, missed>>
Jobs ==
    /\ part = "jobs" /\ J!Next
    /\ UNCHANGED <<part, folder, sent, channel, watcher, exports, broken,
                   written, scanned, tokens, thread, reads, handle, missed>>
Monitor ==
    /\ part = "monitor" /\ M!Next
    /\ UNCHANGED <<part, v6, v7, v8, folder, sent, channel, watcher, exports, broken,
                   written, scanned, tokens, thread, reads, handle, missed>>
Next == Web \/ Exports \/ Watch \/ Hooks \/ Jobs \/ Monitor

\* The watcher of the folder and the thread of the file watcher run, and so does
\* whoever drops the handle of the latter.
Importing ==
    /\ part = "exports" /\ I!Watch
    /\ UNCHANGED <<part, v1, v2, v3, v4, v5, v6, v7, v8, written, scanned,
                   tokens, thread, reads, handle, missed>>
Serving(A) ==
    /\ part = "watch" /\ A
    /\ UNCHANGED <<part, v1, v2, v3, v4, v5, v6, v7, v8, folder, sent,
                   channel, watcher, exports, broken>>
Spec == Init /\ [][Next]_vars /\ WF_vars(Importing)
             /\ WF_vars(Serving(W!Loop)) /\ WF_vars(Serving(W!Join))

\* The jobs alone, for the run that follows one command with another.
JobsSpec == Init /\ part = "jobs" /\ [][Jobs]_vars

\* What the capture store was told to save is never lost, the current copy of a
\* conversation is whole, the counts of a cache import add up, and an export that
\* is listed has all its conversations (archive/web.rs, macos_cache.rs, imports).
IntakeKept ==
    /\ part = "web" => C!TypeOK /\ C!NothingLost /\ C!CurrentWhole /\ C!ReportAddsUp
    /\ I!TypeOK /\ I!ListedWhole

\* Every export put whole into the folder is imported in the end, unless the
\* watcher is down (the import watcher).
DownloadsImported == I!DownloadsImported

\* Every change of a transcript is read by a later scan, or a scan that failed
\* saw it; whoever stops the watcher gets it back (server/mod.rs, the watcher).
WatcherServes == W!WatcherServes

\* The installers keep what is the user's, and what they say they installed is
\* there (hook and statusline install).
InstallsSafe == part = "hooks" => H!TypeOK /\ H!InstallsSafe

\* A job installed without a failure runs once, from that build (scheduler).
JobsSound == part = "jobs" => J!TypeOK /\ J!JobsSound

\* Installing or removing one job leaves every other entry of the crontab
\* (scheduler/cron.rs, merge_heimdall_entry).
OthersStay == [][part = "jobs" => J!OthersKept]_vars

\* The factors stored with a usage run are those its own command printed,
\* whichever captures overlap (usage_monitor.rs).
SnapshotOwn == part = "monitor" => M!TypeOK /\ M!SnapshotOwn

=============================================================================
