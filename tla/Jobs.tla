-------------------------------- MODULE Jobs --------------------------------
(* The jobs a user schedules: lines of the crontab on Linux, property lists   *)
(* that launchd loads on macOS.  A command installs or removes one job or two, *)
(* each in steps that can fail or be the last before the process dies.        *)
EXTENDS Naturals, Sequences, SequencesExt

CONSTANTS
    Builds,     \* the binaries commands are run from
    UserLines,  \* crontab entries of the user's own
    CrontabFails, \* whether `crontab -l` may fail, and a death cut what `crontab -` reads
    MaxCommands \* bound on the commands run

VARIABLES
    os,      \* "linux" or "macos"
    crontab, \* its lines
    plist,   \* per job: the build its property list starts, or "none"
    loaded,  \* per job: the build launchd starts, or "none"
    run,     \* the command under way
    sound,   \* per job: the build last installed without a failure, or "none"
    count,   \* commands started
    astray   \* jobs a cut crontab has a tag of but no command, on macOS jobs that
             \* launchd would not unload

JobsAssumption == "torn" \notin Builds

vars == <<os, crontab, plist, loaded, run, sound, count, astray>>

\* The jobs with a crontab entry, and the dashboard, which is launchd's only.
CronJobs == {"scan", "archive", "usage-monitor", "pricing-sync"}
Labels == CronJobs \cup {"daemon"}

Line(kind, of, build) == [kind |-> kind, of |-> of, build |-> build]
Tag(job) == Line("tag", job, "none")
Command(job, build) == Line("command", job, build)
Blank == Line("blank", "none", "none")
UserLine(line) == Line("user", line, "none")

Verbs == {"install", "uninstall"}
Task(verb, job, build) == [verb |-> verb, job |-> job, build |-> build]
Idle == [pc |-> "idle", todo |-> <<>>, read |-> <<>>]

Init ==
    /\ os \in {"linux", "macos"} /\ crontab = <<>>
    /\ plist = [j \in Labels |-> "none"] /\ loaded = [j \in Labels |-> "none"]
    /\ run = Idle /\ sound = [j \in Labels |-> "none"] /\ count = 0 /\ astray = {}

---------------------------------------------------------------------------
(* The texts *)

\* Mutated form: the tag line goes and the command below it stays.
RemoveTag(lines, job) == SelectSeq(lines, LAMBDA line : line # Tag(job))

\* A block begins at the job's tag and ends with the next blank line, which
\* goes too, or with the text.
Keep(job, acc, line) ==
    IF line = Tag(job) THEN [acc EXCEPT !.skip = TRUE]
    ELSE IF acc.skip THEN [acc EXCEPT !.skip = line # Blank]
    ELSE [acc EXCEPT !.out = Append(@, line)]

RemoveEntries(lines, job) ==
    LET read[n \in 0..Len(lines)] ==
            IF n = 0 THEN [out |-> <<>>, skip |-> FALSE]
            ELSE Keep(job, read[n - 1], lines[n])
    IN read[Len(lines)].out

MergeEntry(lines, job, build) ==
    RemoveEntries(lines, job) \o <<Tag(job), Command(job, build)>>

---------------------------------------------------------------------------
(* The user, and what launchd does at login *)

AddLine(line, apart) ==
    /\ os = "linux" /\ run.pc = "idle" /\ UserLine(line) \notin Range(crontab)
    /\ crontab' = crontab \o (IF apart THEN <<Blank, UserLine(line)>> ELSE <<UserLine(line)>>)
    /\ UNCHANGED <<os, plist, loaded, run, sound, count, astray>>

\* A list cut short starts nothing.
Login ==
    /\ os = "macos" /\ run.pc = "idle"
    /\ loaded' = [j \in Labels |-> IF plist[j] = "torn" THEN "none" ELSE plist[j]]
    /\ astray' = {}
    /\ UNCHANGED <<os, crontab, plist, run, sound, count>>

---------------------------------------------------------------------------
(* A command: its tasks in turn, the first failure ends it *)

\* What each command of the program may have to do: the archive's job comes with
\* the scan's or not, and goes with it.
Scheduler(build) ==
    {<<Task("install", "scan", build)>>,
     <<Task("install", "scan", build), Task("install", "archive", build)>>,
     <<Task("uninstall", "scan", build), Task("uninstall", "archive", build)>>}
UsageMonitor(build) == {<<Task(verb, "usage-monitor", build)>> : verb \in Verbs}
Pricing(build) == {<<Task(verb, "pricing-sync", build)>> : verb \in Verbs}
Daemon(build) == {<<Task(verb, "daemon", build)>> : verb \in Verbs}

First == Head(run.todo)
Done == IF Len(run.todo) = 1 THEN Idle ELSE [Idle EXCEPT !.pc = "begin", !.todo = Tail(run.todo)]

Start(tasks) ==
    /\ run.pc = "idle" /\ count < MaxCommands
    /\ count' = count + 1
    /\ run' = [Idle EXCEPT !.pc = "begin", !.todo = tasks]
    /\ UNCHANGED <<os, crontab, plist, loaded, sound, astray>>

\* The dashboard cannot be installed on Linux: the command fails at once.
Unsupported ==
    /\ os = "linux" /\ run.pc = "idle" /\ count < MaxCommands
    /\ count' = count + 1
    /\ UNCHANGED <<os, crontab, plist, loaded, run, sound, astray>>

StartAny ==
    \E build \in Builds :
        \/ \E tasks \in Scheduler(build) \cup UsageMonitor(build) \cup Pricing(build) : Start(tasks)
        \/ os = "macos" /\ \E tasks \in Daemon(build) : Start(tasks)

\* Until a task has ended well, nothing is said of its job.
Unsaid == sound' = [sound EXCEPT ![First.job] = "none"]

(* Linux *)

\* A listing that fails, for whatever reason, reads as an empty crontab.
ReadCrontab ==
    /\ os = "linux" /\ run.pc = "begin"
    /\ \E lines \in {crontab} \cup (IF CrontabFails THEN {<<>>} ELSE {}) :
        IF First.verb = "uninstall" /\ Tag(First.job) \notin Range(lines)
        THEN run' = Done
        ELSE run' = [run EXCEPT !.pc = "crontab", !.read = lines]
    /\ Unsaid
    /\ UNCHANGED <<os, crontab, plist, loaded, count, astray>>

Text == IF First.verb = "install" THEN MergeEntry(run.read, First.job, First.build)
        ELSE RemoveEntries(run.read, First.job)

WriteCrontab ==
    /\ run.pc = "crontab"
    /\ crontab' = Text /\ astray' = astray \ {First.job}
    /\ sound' = IF First.verb = "install" THEN [sound EXCEPT ![First.job] = First.build]
                ELSE sound
    /\ run' = Done
    /\ UNCHANGED <<os, plist, loaded, count>>

WriteFails ==
    /\ run.pc = "crontab"
    /\ run' = Idle
    /\ UNCHANGED <<os, crontab, plist, loaded, sound, count, astray>>

\* `crontab -` is started before it is given the text: if the command dies in
\* between, it takes what it was given for the whole.
WriteCut ==
    /\ run.pc = "crontab" /\ CrontabFails
    /\ \E n \in 0..Len(Text) :
        /\ crontab' = SubSeq(Text, 1, n)
        /\ astray' = astray \cup {Text[i].of : i \in {i \in {n} \cap 1..n : Text[i].kind = "tag"}}
    /\ run' = Idle
    /\ UNCHANGED <<os, plist, loaded, sound, count>>

(* macOS: installing begins with uninstalling *)

AfterRemoval == IF First.verb = "install" THEN [run EXCEPT !.pc = "write"] ELSE Done

\* Without a list there is nothing to uninstall.
NotListed ==
    /\ os = "macos" /\ run.pc = "begin" /\ plist[First.job] = "none"
    /\ Unsaid
    /\ run' = AfterRemoval
    /\ UNCHANGED <<os, crontab, plist, loaded, count, astray>>

Bootout ==
    /\ os = "macos" /\ run.pc = "begin" /\ plist[First.job] # "none"
    /\ Unsaid
    /\ loaded' = [loaded EXCEPT ![First.job] = "none"]
    /\ astray' = astray \ {First.job}
    /\ run' = [run EXCEPT !.pc = "remove"]
    /\ UNCHANGED <<os, crontab, plist, count>>

\* That launchd would not unload the job is ignored.
BootoutFails ==
    /\ os = "macos" /\ run.pc = "begin" /\ plist[First.job] # "none"
    /\ Unsaid
    /\ astray' = astray \cup {j \in {First.job} : loaded[j] # "none"}
    /\ run' = [run EXCEPT !.pc = "remove"]
    /\ UNCHANGED <<os, crontab, plist, loaded, count>>

RemovePlist ==
    /\ run.pc = "remove"
    /\ plist' = [plist EXCEPT ![First.job] = "none"]
    /\ run' = AfterRemoval
    /\ UNCHANGED <<os, crontab, loaded, sound, count, astray>>

\* The list is created and then filled.
CreatePlist ==
    /\ run.pc = "write"
    /\ plist' = [plist EXCEPT ![First.job] = "torn"]
    /\ run' = [run EXCEPT !.pc = "fill"]
    /\ UNCHANGED <<os, crontab, loaded, sound, count, astray>>

WritePlist ==
    /\ run.pc = "fill"
    /\ plist' = [plist EXCEPT ![First.job] = First.build]
    /\ run' = [run EXCEPT !.pc = "bootstrap"]
    /\ UNCHANGED <<os, crontab, loaded, sound, count, astray>>

\* launchd takes a job it has not loaded.
Bootstrap ==
    /\ run.pc = "bootstrap" /\ loaded[First.job] = "none"
    /\ loaded' = [loaded EXCEPT ![First.job] = First.build]
    /\ sound' = [sound EXCEPT ![First.job] = First.build]
    /\ run' = Done
    /\ UNCHANGED <<os, crontab, plist, count, astray>>

\* The command says so and leaves the list in place.
BootstrapFails ==
    /\ run.pc = "bootstrap"
    /\ run' = Idle
    /\ UNCHANGED <<os, crontab, plist, loaded, sound, count, astray>>

\* The process dies, or a call on a list fails and ends the command.
Die ==
    /\ run.pc # "idle"
    /\ run' = Idle
    /\ UNCHANGED <<os, crontab, plist, loaded, sound, count, astray>>

\* What the status commands say: the tag, or the list, is there.
Installed(job) == IF os = "linux" THEN Tag(job) \in Range(crontab) ELSE plist[job] # "none"

Next ==
    \/ \E line \in UserLines, apart \in BOOLEAN : AddLine(line, apart)
    \/ Login
    \/ StartAny \/ Unsupported
    \/ ReadCrontab \/ WriteCrontab \/ WriteFails \/ WriteCut
    \/ NotListed \/ Bootout \/ BootoutFails \/ RemovePlist
    \/ CreatePlist \/ WritePlist \/ Bootstrap \/ BootstrapFails
    \/ Die

Spec == Init /\ [][Next]_vars

---------------------------------------------------------------------------
(* Properties *)

Lists == Builds \cup {"none", "torn"}
Steps == {"begin", "crontab", "remove", "write", "fill", "bootstrap"}

TypeOK ==
    /\ os \in {"linux", "macos"} /\ run.pc \in Steps \cup {"idle"}
    /\ plist \in [Labels -> Lists] /\ loaded \in [Labels -> Builds \cup {"none"}]
    /\ astray \in SUBSET Labels
    /\ \A i \in DOMAIN crontab : crontab[i].kind \in {"tag", "command", "blank", "user"}

\* However a job is installed over itself, and whatever else is installed and
\* removed around it, it has one tag and at most one command, the one below the
\* other; a tag without one is from a crontab that a death cut there.
OneEntryEach ==
    \A job \in CronJobs :
        LET tags == {i \in DOMAIN crontab : crontab[i] = Tag(job)}
            commands == {i \in DOMAIN crontab : crontab[i].kind = "command" /\ crontab[i].of = job}
        IN /\ \A i, j \in tags : i = j
           /\ commands \subseteq {i + 1 : i \in tags}
           /\ job \notin astray => commands = {i + 1 : i \in tags}

\* A job that launchd has loaded has its list in place, so that an uninstall,
\* which looks for the list, reaches it, unless launchd would not unload it.
LoadedIsListed ==
    \A job \in Labels : loaded[job] # "none" =>
        plist[job] = loaded[job] \/ (os = "macos" /\ job \in astray)

\* A job whose last install ended well runs from that build alone; launchd has it
\* loaded, and the status command reports it.
RunsItsBuild ==
    \A job \in Labels : sound[job] # "none" =>
        IF os = "macos" THEN Installed(job) /\ loaded[job] = sound[job]
        ELSE \A i \in DOMAIN crontab :
                crontab[i].kind = "command" /\ crontab[i].of = job => crontab[i].build = sound[job]

JobsSound == OneEntryEach /\ LoadedIsListed /\ RunsItsBuild

\* Installing or removing a job leaves every line of the crontab that is not
\* its own.
OthersKept ==
    WriteCrontab =>
        \A i \in DOMAIN crontab :
            crontab[i] # Blank /\ crontab[i].of # First.job => crontab[i] \in Range(crontab')
OthersStay == [][OthersKept]_vars

---------------------------------------------------------------------------
(* What the proofs need: an invariant of the steps. *)

Lines == {Tag(job) : job \in Labels} \cup {Command(job, build) : job \in Labels, build \in Builds}
         \cup {Blank} \cup {UserLine(line) : line \in UserLines}

\* A tag has a command of its job below it, but for one at the end of a text that
\* is `open`, that is, still being read, and those of the jobs a cut text lost the
\* command of; a command has its tag above it.
TagsFollowed(lines, open, cut) ==
    \A i \in DOMAIN lines : lines[i].kind = "tag" =>
        \/ open /\ i = Len(lines)
        \/ lines[i].of \in cut
        \/ i + 1 \in DOMAIN lines /\ lines[i + 1].kind = "command" /\ lines[i + 1].of = lines[i].of
CommandsTagged(lines) ==
    \A i \in DOMAIN lines : lines[i].kind = "command" =>
        i - 1 \in DOMAIN lines /\ lines[i - 1] = Tag(lines[i].of)
TagsApart(lines) ==
    \A i, j \in DOMAIN lines :
        lines[i].kind = "tag" /\ lines[j].kind = "tag" /\ lines[i].of = lines[j].of => i = j
Paired(lines, open, cut) ==
    TagsFollowed(lines, open, cut) /\ CommandsTagged(lines) /\ TagsApart(lines)

Texts(cut) == {lines \in Seq(Lines) : Paired(lines, FALSE, cut)}

\* The commands of a text are of the builds installed last.
OfBuilds(lines, last) ==
    \A i \in DOMAIN lines :
        lines[i].kind = "command" /\ last[lines[i].of] # "none" =>
            lines[i].build = last[lines[i].of]

Types ==
    /\ os \in {"linux", "macos"} /\ crontab \in Seq(Lines) /\ astray \in SUBSET Labels
    /\ plist \in [Labels -> Lists] /\ loaded \in [Labels -> Builds \cup {"none"}]
    /\ sound \in [Labels -> Builds \cup {"none"}]
    /\ run \in [pc : Steps \cup {"idle"}, todo : Seq([verb : {"install", "uninstall"},
                job : Labels, build : Builds]), read : Seq(Lines)]
    /\ run.pc # "idle" => run.todo # <<>>

\* The crontab, and what a command has read of it.
Entered ==
    os = "linux" =>
        /\ crontab \in Texts(astray) /\ OfBuilds(crontab, sound)
        /\ run.pc \in {"idle", "begin", "crontab"}
        /\ run.pc = "crontab" => /\ run.read \in Texts(astray) /\ OfBuilds(run.read, sound)
                                 /\ sound[First.job] = "none"

\* The job a command is at is unloaded from the first step to the last, or astray.
AtWork ==
    os = "macos" =>
        /\ run.pc # "crontab" /\ crontab = <<>>
        /\ run.pc \in {"remove", "write", "fill", "bootstrap"} =>
             /\ loaded[First.job] = "none" \/ First.job \in astray
             /\ sound[First.job] = "none"
        /\ run.pc = "bootstrap" => plist[First.job] = First.build

Listed ==
    \A job \in Labels :
        /\ loaded[job] # "none" => plist[job] = loaded[job] \/ (os = "macos" /\ job \in astray)
        /\ os = "macos" /\ sound[job] # "none" =>
              plist[job] = sound[job] /\ loaded[job] = sound[job]

Inv == Types /\ Entered /\ AtWork /\ Listed

=============================================================================
