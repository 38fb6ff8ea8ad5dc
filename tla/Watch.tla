-------------------------------- MODULE Watch --------------------------------
(* The file watcher: the system's notifications become tokens in a channel, a *)
(* thread drains the tokens of a window of two seconds and then calls back,    *)
(* and the callback scans and tells the pages that listen.  Dropping the      *)
(* handle disconnects the shutdown channel and joins the thread.             *)
EXTENDS Naturals

CONSTANTS
    MaxVersion, \* bound on the changes of a file
    MaxTokens   \* bound on the tokens in the channel

\* What an instance must satisfy.
WatchBounds == {MaxVersion, MaxTokens} \subseteq Nat \ {0}

VARIABLES
    written,  \* how often the transcripts changed
    scanned,  \* the change the last scan that ended well saw
    tokens,   \* tokens in the channel that the thread has not taken
    thread,   \* where the thread is
    reads,    \* the change the scan under way saw when it looked
    handle,   \* the handle: held, dropped (joining) or joined
    missed    \* the last change that a failed scan saw (history)

vars == <<written, scanned, tokens, thread, reads, handle, missed>>

Init ==
    /\ written = 0 /\ scanned = 0 /\ tokens = 0 /\ reads = 0
    /\ thread = "wait" /\ handle = "held" /\ missed = 0

Shutdown == handle # "held"
Step(from, to) == thread = from /\ thread' = to

---------------------------------------------------------------------------

\* A transcript is created or appended to; only the watched kinds of event on
\* .jsonl files leave a token, and a token is never lost.
Write ==
    /\ written < MaxVersion /\ tokens < MaxTokens
    /\ written' = written + 1 /\ tokens' = tokens + 1
    /\ UNCHANGED <<scanned, thread, reads, handle, missed>>

Take ==
    /\ Step("wait", IF Shutdown THEN "ended" ELSE "drain")
    /\ tokens > 0 /\ tokens' = tokens - 1
    /\ UNCHANGED <<written, scanned, reads, handle, missed>>

\* Every 200 ms without an event the thread looks for a shutdown.
Idle ==
    /\ Step("wait", IF Shutdown THEN "ended" ELSE "wait") /\ tokens = 0
    /\ UNCHANGED <<written, scanned, tokens, reads, handle, missed>>

\* Tokens of the same burst are taken with the first.
Drain ==
    /\ thread = "drain" /\ tokens > 0 /\ tokens' = tokens - 1
    /\ UNCHANGED <<written, scanned, thread, reads, handle, missed>>

StopInBurst ==
    /\ Step("drain", "ended") /\ Shutdown
    /\ UNCHANGED <<written, scanned, tokens, reads, handle, missed>>

\* The window closes on a clock: tokens may be left for the next one.
Close ==
    /\ Step("drain", IF Shutdown THEN "ended" ELSE "call")
    /\ UNCHANGED <<written, scanned, tokens, reads, handle, missed>>

\* The scan lock is taken by this thread only.  The scan reads what the files
\* hold when it comes to them.
Call ==
    /\ Step("call", "scan") /\ reads' = written
    /\ UNCHANGED <<written, scanned, tokens, handle, missed>>

\* Mutated form: what came while the scan ran is taken to belong to it.
ScanEndsDrained ==
    /\ Step("scan", "wait") /\ scanned' = reads /\ tokens' = 0
    /\ UNCHANGED <<written, reads, handle, missed>>

\* A page that listens is told; nobody listening is no error.
ScanEnds ==
    /\ Step("scan", "wait") /\ scanned' = reads
    /\ UNCHANGED <<written, tokens, reads, handle, missed>>

\* The error is logged; what was to be read waits for the next event.
ScanFails ==
    /\ Step("scan", "wait") /\ missed' = reads
    /\ UNCHANGED <<written, scanned, tokens, reads, handle>>

Drop ==
    /\ handle = "held" /\ handle' = "dropped"
    /\ UNCHANGED <<written, scanned, tokens, thread, reads, missed>>

Join ==
    /\ handle = "dropped" /\ thread = "ended" /\ handle' = "joined"
    /\ UNCHANGED <<written, scanned, tokens, thread, reads, missed>>

Loop == Take \/ Idle \/ Drain \/ StopInBurst \/ Close \/ Call \/ ScanEnds \/ ScanFails
Next == Write \/ Loop \/ Drop \/ Join

Spec == Init /\ [][Next]_vars
\* The thread runs, and so does whoever drops the handle, until it is joined.
FairSpec == Spec /\ WF_vars(Loop) /\ WF_vars(Join)

---------------------------------------------------------------------------
(* Properties *)

TypeOK ==
    /\ written \in 0 .. MaxVersion /\ {scanned, reads, missed} \subseteq 0 .. written
    /\ tokens \in 0 .. MaxTokens
    /\ thread \in {"wait", "drain", "call", "scan", "ended"}
    /\ handle \in {"held", "dropped", "joined"}

\* Every change, the ones made while a scan runs included, is read by a scan
\* that began after it, unless that scan fails or the watcher is stopped.
ChangesRead ==
    \A v \in 1 .. MaxVersion : written >= v ~> scanned >= v \/ missed >= v \/ Shutdown

\* Who stops the watcher gets it back, in the middle of a burst too.
StopEnds == handle = "dropped" ~> handle = "joined"

WatcherServes == ChangesRead /\ StopEnds

=============================================================================
