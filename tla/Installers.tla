----------------------------- MODULE Installers -----------------------------
(* The entries this program puts into other programs' settings: the hook and  *)
(* the status line in Claude's settings.json, the server in a client's        *)
(* mcp.json.  A command reads the file, copies what it read beside it, empties *)
(* the file and writes it again; it may die between any two of these.         *)
EXTENDS Naturals, Sequences, SequencesExt

CONSTANTS
    Builds,     \* the binaries commands are run from
    UserHooks,  \* hook entries of the user's own
    MaxCommands \* bound on the commands run

InstallersAssumption == MaxCommands \in Nat

VARIABLES
    file,     \* what each of the two files holds, Absent or Empty
    backup,   \* the copies beside them
    run,      \* the command under way
    result,   \* what the last one said
    count,    \* commands started
    torn      \* per file: 0, or once a command died over it the commands since, that one too

vars == <<file, backup, run, result, count, torn>>

Files == {"settings", "mcp"}

\* One shape for both files: hooks of any owner in order, the status line and
\* whether it bears our version, the server under our name, the user's rest.
Content(exists, hooks, line, stamped, server, rest) ==
    [exists |-> exists, hooks |-> hooks, line |-> line, stamped |-> stamped, server |-> server,
     rest |-> rest]
Absent == Content(FALSE, <<>>, "none", FALSE, "none", FALSE)
Empty == Content(TRUE, <<>>, "none", FALSE, "none", FALSE)

Ours(build) == [owner |-> "heimdall", build |-> build]
Theirs(hook) == [owner |-> "user", build |-> hook]

Idle == [pc |-> "idle", op |-> "none", file |-> "none", build |-> "none", root |-> Empty]
Nothing(what) == [what |-> what, build |-> "none"]

Init ==
    /\ file = [f \in Files |->
                IF f = "settings" THEN Content(TRUE, <<>>, "none", FALSE, "none", TRUE)
                ELSE Content(TRUE, <<>>, "none", FALSE, "none", TRUE)]
    /\ backup = [f \in Files |-> Absent]
    /\ run = Idle
    /\ result = Nothing("none") /\ count = 0 /\ torn = [f \in Files |-> 0]

---------------------------------------------------------------------------
(* The user, between commands *)

AddHook(hook) ==
    /\ run.pc = "idle" /\ file["settings"].exists
    /\ Theirs(hook) \notin Range(file["settings"].hooks)
    /\ file' = [file EXCEPT !["settings"].hooks = Append(@, Theirs(hook))]
    /\ UNCHANGED <<backup, run, result, count, torn>>

Customize ==
    /\ run.pc = "idle" /\ file["mcp"].server = "none"
    /\ file' = [file EXCEPT !["mcp"].server = "user", !["mcp"].exists = TRUE]
    /\ UNCHANGED <<backup, run, result, count, torn>>

---------------------------------------------------------------------------
(* What a command makes of the file it read *)

HasEntry(root) == \E i \in DOMAIN root.hooks : root.hooks[i].owner = "heimdall"
WithoutEntries(root) ==
    LET kept[n \in 0..Len(root.hooks)] ==
            IF n = 0 THEN <<>>
            ELSE IF root.hooks[n].owner = "heimdall" THEN kept[n - 1]
            ELSE Append(kept[n - 1], root.hooks[n])
    IN [root EXCEPT !.hooks = kept[Len(root.hooks)]]

\* Mutated form: a second install appends a second entry.
AppendHook(root, build) ==
    [root EXCEPT !.hooks = Append(@, Ours(build)), !.exists = TRUE]

\* Our entries go first, so that there is one, of this build, in the end.
InstallHook(root, build) ==
    [WithoutEntries(root) EXCEPT !.hooks = Append(@, Ours(build)), !.exists = TRUE]

InstallLine(root) == [root EXCEPT !.line = "ours", !.stamped = TRUE, !.exists = TRUE]
UninstallLine(root) == [root EXCEPT !.line = "none", !.stamped = FALSE]

InstallServer(root) == [root EXCEPT !.server = "ours", !.exists = TRUE]
UninstallServer(root) == [root EXCEPT !.server = "none"]

\* A server of that name that is not ours is not touched; what is not there is
\* not removed; anything else is written.
Verdict(op, root) ==
    CASE op \in {"install hook", "install line"} -> "write"
      [] op = "install server" -> IF root.server = "user" THEN "refused" ELSE "write"
      [] op = "uninstall hook" -> IF HasEntry(root) THEN "write" ELSE "nothing"
      [] op = "uninstall line" -> IF root.stamped THEN "write" ELSE "nothing"
      [] op = "uninstall server" -> IF root.server = "ours" THEN "write" ELSE "nothing"

Changed(op, root, build) ==
    CASE op = "install hook" -> InstallHook(root, build)
      [] op = "uninstall hook" -> WithoutEntries(root)
      [] op = "install line" -> InstallLine(root)
      [] op = "uninstall line" -> UninstallLine(root)
      [] op = "install server" -> InstallServer(root)
      [] op = "uninstall server" -> UninstallServer(root)

FileOf(op) == IF op \in {"install server", "uninstall server"} THEN "mcp" ELSE "settings"
Ops == {"install hook", "uninstall hook", "install line", "uninstall line", "install server",
        "uninstall server"}

---------------------------------------------------------------------------
(* A command *)

Since(f) == IF torn[f] = 0 THEN torn ELSE [torn EXCEPT ![f] = @ + 1]

\* An empty file reads as an empty object; uninstalling from none is nothing.
Begin(op, build) ==
    /\ run.pc = "idle" /\ count < MaxCommands
    /\ count' = count + 1
    /\ LET f == FileOf(op)
           verdict == Verdict(op, file[f]) IN
        IF verdict = "write"
        THEN /\ run' = [pc |-> "backup", op |-> op, file |-> f, build |-> build,
                        root |-> file[f]]
             /\ result' = Nothing("none")
        ELSE /\ result' = Nothing(verdict) /\ UNCHANGED run
    /\ UNCHANGED <<file, backup, torn>>

\* settings.json is copied whatever it holds; mcp.json only when it is there
\* and not empty.
Backup ==
    /\ run.pc = "backup"
    /\ backup' = IF run.file = "settings" \/ file["mcp"] \notin {Absent, Empty}
                 THEN [backup EXCEPT ![run.file] = [run.root EXCEPT !.exists = TRUE]]
                 ELSE backup
    /\ run' = [run EXCEPT !.pc = "empty"]
    /\ torn' = Since(run.file)
    /\ UNCHANGED <<file, result, count>>

\* Creating the file anew empties it.
CreateFile ==
    /\ run.pc = "empty"
    /\ file' = [file EXCEPT ![run.file] = Empty]
    /\ run' = [run EXCEPT !.pc = "write"]
    /\ UNCHANGED <<backup, result, count, torn>>

WriteFile ==
    /\ run.pc = "write"
    /\ file' = [file EXCEPT ![run.file] = Changed(run.op, run.root, run.build)]
    /\ result' = [what |-> run.op, build |-> run.build] /\ run' = Idle
    /\ UNCHANGED <<backup, count, torn>>

Die ==
    /\ run.pc # "idle"
    /\ torn' = IF run.pc = "write" /\ torn[run.file] = 0 THEN [torn EXCEPT ![run.file] = 1] ELSE torn
    /\ run' = Idle
    /\ UNCHANGED <<file, backup, result, count>>

Next ==
    \/ \E hook \in UserHooks : AddHook(hook)
    \/ Customize
    \/ \E op \in Ops, build \in Builds : Begin(op, build)
    \/ Backup \/ CreateFile \/ WriteFile \/ Die

Spec == Init /\ [][Next]_vars

---------------------------------------------------------------------------
(* Properties *)

Once(root) ==
    \A i, j \in DOMAIN root.hooks :
        root.hooks[i].owner = "heimdall" /\ root.hooks[j].owner = "heimdall" => i = j

TypeOK ==
    /\ \A f \in Files : file[f].line \in {"none", "ours"} /\ file[f].server \in {"none", "ours", "user"}
    /\ run.pc \in {"idle", "backup", "empty", "write"}
    /\ torn \in [Files -> 0 .. MaxCommands]

\* However often commands run and die, there is one hook entry of ours at most,
\* and right after an install it is of the build that installed it.
EntryOnce ==
    /\ Once(file["settings"])
    /\ result.what = "install hook" => Ours(result.build) \in Range(file["settings"].hooks)

\* What the user has in mcp.json is in the file or in its copy at any moment,
\* also when a command dies over the file and is run again.  Only the command
\* after that takes the copy from what the second one left.
ServersKept == torn["mcp"] <= 2 => file["mcp"].rest \/ backup["mcp"].rest

\* As long as no command died over it, settings.json keeps the rest of the
\* user's settings; and a server the user set up is never replaced by ours.
SettingsKept ==
    /\ torn["settings"] = 0 /\ run.pc # "write" => file["settings"].rest
    /\ run.op = "install server" => run.root.server # "user"

InstallsSafe == EntryOnce /\ ServersKept /\ SettingsKept

---------------------------------------------------------------------------
(* What the proofs need: an invariant of the steps. *)

Entries == [owner : {"heimdall", "user"}, build : Builds \cup UserHooks]
Contents == [exists : BOOLEAN, hooks : Seq(Entries), line : {"none", "ours"},
             stamped : BOOLEAN, server : {"none", "ours", "user"}, rest : BOOLEAN]

Types ==
    /\ file \in [Files -> Contents] /\ backup \in [Files -> Contents]
    /\ torn \in [Files -> Nat] /\ count \in 0..MaxCommands
    /\ run.pc \in {"idle", "backup", "empty", "write"}
    /\ run.pc = "idle" => run = Idle
    /\ run.pc # "idle" =>
         /\ run \in [pc : {"backup", "empty", "write"}, op : Ops, file : Files,
                     build : Builds, root : Contents]
         /\ run.file = FileOf(run.op)
         /\ run.op = "install server" => run.root.server # "user"

\* At most one death is counted a command.
Counted ==
    /\ \A f \in Files : torn[f] <= count
    /\ run.pc # "idle" => count > 0
    /\ run.pc = "backup" => torn[run.file] < count

\* A command has read what is in the file until it empties it, and while it runs
\* no earlier result stands.
Reads ==
    /\ run.pc \in {"backup", "empty"} => run.root = file[run.file]
    /\ run.pc = "write" => file[run.file] = Empty
    /\ run.pc # "idle" => result.what = "none"

OneEntry ==
    /\ \A f \in Files : Once(file[f])
    /\ run.pc # "idle" => Once(run.root)
    /\ result.what = "install hook" => Ours(result.build) \in Range(file["settings"].hooks)

Over(f, steps) == run.pc \in steps /\ run.file = f

\* Until a command dies over a file, the rest is in it, or in the hands of the
\* command that writes it and, for mcp.json, in the copy.
RestKept ==
    /\ \A f \in Files : torn[f] = 0 =>
         /\ Over(f, {"write"}) \/ file[f].rest
         /\ Over(f, {"backup", "empty", "write"}) => run.root.rest
    /\ torn["mcp"] = 0 /\ Over("mcp", {"empty", "write"}) => backup["mcp"].rest

\* After the first death the copy has it and the file is empty, or holds a
\* server of the user's that no command touches; the next command keeps the copy.
CopyKept ==
    /\ torn["mcp"] \in {1, 2} => backup["mcp"].rest
    /\ torn["mcp"] = 1 => /\ file["mcp"] = Empty \/ file["mcp"].server = "user"
                          /\ ~Over("mcp", {"empty", "write"})
    /\ run.pc # "idle" /\ run.file = "mcp" => run.root.server # "user"

Inv == Types /\ Counted /\ Reads /\ OneEntry /\ RestKept /\ CopyKept

=============================================================================
