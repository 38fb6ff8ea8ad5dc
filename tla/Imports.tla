------------------------------ MODULE Imports ------------------------------
(***************************************************************************)
(* Account exports: ZIP files that appear in a folder are imported under   *)
(* <archive>/exports by a watcher.  The file system tells it of every      *)
(* write; it handles one event at a time, waits two seconds and imports    *)
(* whatever is at the path then.  A ZIP whose download is not finished     *)
(* cannot be read and its import fails, and any call of an import may.     *)
(***************************************************************************)
EXTENDS Naturals, Sequences

CONSTANTS Zips,       \* the ZIP files of the folder
          Vendor,     \* the export each holds: "openai", "anthropic", "unknown"
          Readable,   \* those the parser of their vendor can read
          Holds,      \* the conversations in it, by the names of their files
          MaxEvents,  \* bound: events the folder ever sends
          MaxImports, \* bound: imports ever started
          None

\* What an instance must satisfy.
ImportsAssumption ==
    /\ Vendor \in [Zips -> {"openai", "anthropic", "unknown"}]
    /\ Readable \subseteq Zips
    /\ MaxEvents \in Nat /\ MaxImports \in Nat /\ None \notin Zips

VARIABLES folder,     \* each ZIP: "absent", "partial" or "whole"
          sent,       \* events sent so far
          channel,    \* events not yet received
          watcher,    \* its step, the ZIP it is at, what is left to write
          exports,    \* the import directories, oldest first
          broken      \* the ZIPs whose last import a failed call ended

vars == <<folder, sent, channel, watcher, exports, broken>>

AllConvs == UNION {Holds[z] : z \in Zips}

\* An import directory; away: its ZIP was taken away before it was copied.
Import == [zip : Zips, original : {"none", "partial", "whole"}, away : BOOLEAN,
           convs : SUBSET AllConvs, warned : SUBSET AllConvs,
           meta : {"none", "torn", "whole"}]
Steps == {"recv", "settle", "open", "copy", "parse", "write", "meta", "down"}

TypeOK ==
    /\ folder \in [Zips -> {"absent", "partial", "whole"}]
    /\ sent \in 0..MaxEvents /\ channel \in Seq(Zips)
    /\ watcher \in [pc : Steps, zip : Zips \cup {None}, todo : SUBSET AllConvs]
    /\ exports \in Seq(Import)
    /\ broken \in SUBSET Zips

At(pc) == watcher.pc = pc
Receiving == [pc |-> "recv", zip |-> None, todo |-> {}]

Init ==
    /\ folder = [z \in Zips |-> "absent"]
    /\ sent = 0 /\ channel = <<>>
    /\ watcher = Receiving
    /\ exports = <<>> /\ broken = {}

Last == Len(exports)

\* A Create or Modify event for the ZIP; no one hears it once the watcher is down.
Notify(z) ==
    /\ sent < MaxEvents /\ sent' = sent + 1
    /\ channel' = IF At("down") THEN channel ELSE Append(channel, z)

\* The browser writes the file, some of it at a time.
Download(z) ==
    /\ folder[z] \in {"absent", "partial"}
    /\ \E state \in {"partial", "whole"} : folder' = [folder EXCEPT ![z] = state]
    /\ Notify(z)
    /\ UNCHANGED <<watcher, exports, broken>>

Remove(z) ==
    /\ folder[z] # "absent"
    /\ folder' = [folder EXCEPT ![z] = "absent"]
    /\ exports' = IF At("copy") /\ watcher.zip = z
                  THEN [exports EXCEPT ![Last].away = TRUE] ELSE exports
    /\ UNCHANGED <<sent, channel, watcher, broken>>

-----------------------------------------------------------------------------
(* run_watch *)

Receive ==
    /\ At("recv") /\ channel # <<>>
    /\ watcher' = [watcher EXCEPT !.pc = "settle", !.zip = Head(channel)]
    /\ channel' = Tail(channel)
    /\ broken' = broken \ {Head(channel)}
    /\ UNCHANGED <<folder, sent, exports>>

\* After the two seconds the file may be gone again.
Settle ==
    /\ At("settle")
    /\ watcher' = IF folder[watcher.zip] = "absent" THEN Receiving
                  ELSE [watcher EXCEPT !.pc = "open"]
    /\ UNCHANGED <<folder, sent, channel, exports, broken>>

-----------------------------------------------------------------------------
(* import_zip *)

\* Mutated form: the events that came during the failed import are dropped.
UnreadableDrains ==
    /\ At("open")
    /\ folder[watcher.zip] # "whole" \/ Vendor[watcher.zip] = "unknown"
    /\ watcher' = Receiving /\ channel' = <<>>
    /\ UNCHANGED <<folder, sent, exports, broken>>

\* A file that is gone or cut short, or of no known vendor, ends the import
\* before anything is written.
Unreadable ==
    /\ At("open")
    /\ folder[watcher.zip] # "whole" \/ Vendor[watcher.zip] = "unknown"
    /\ watcher' = Receiving
    /\ UNCHANGED <<folder, sent, channel, exports, broken>>

\* Otherwise the import, which holds the file open, gets a directory named by the
\* time.
MakeDir ==
    /\ At("open") /\ Len(exports) < MaxImports
    /\ folder[watcher.zip] = "whole" /\ Vendor[watcher.zip] # "unknown"
    /\ exports' = Append(exports, [zip |-> watcher.zip, original |-> "none",
                                   away |-> FALSE, convs |-> {}, warned |-> {},
                                   meta |-> "none"])
    /\ watcher' = [watcher EXCEPT !.pc = "copy", !.todo = Holds[watcher.zip]]
    /\ UNCHANGED <<folder, sent, channel, broken>>

\* The ZIP is copied by its path, whatever is there by now.
CopyOriginal ==
    /\ At("copy") /\ folder[watcher.zip] # "absent"
    /\ exports' = [exports EXCEPT ![Last].original = folder[watcher.zip]]
    /\ watcher' = [watcher EXCEPT !.pc = "parse"]
    /\ UNCHANGED <<folder, sent, channel, broken>>

CopyFails ==
    /\ At("copy") /\ folder[watcher.zip] = "absent"
    /\ watcher' = Receiving
    /\ UNCHANGED <<folder, sent, channel, exports, broken>>

\* The conversations are read from the open file: all of them or none.
Parse ==
    /\ At("parse")
    /\ watcher' = IF watcher.zip \in Readable THEN [watcher EXCEPT !.pc = "write"]
                  ELSE Receiving
    /\ UNCHANGED <<folder, sent, channel, exports, broken>>

\* A conversation that cannot be written becomes a warning.
WriteConv(c) ==
    /\ At("write") /\ c \in watcher.todo
    /\ \/ exports' = [exports EXCEPT ![Last].convs = @ \cup {c}]
       \/ exports' = [exports EXCEPT ![Last].warned = @ \cup {c}]
    /\ watcher' = [watcher EXCEPT !.todo = @ \ {c}]
    /\ UNCHANGED <<folder, sent, channel, broken>>

\* metadata.json is what makes an import appear in the list; it is created and
\* then filled.
CreateMetadata ==
    /\ At("write") /\ watcher.todo = {}
    /\ exports' = [exports EXCEPT ![Last].meta = "torn"]
    /\ watcher' = [watcher EXCEPT !.pc = "meta"]
    /\ UNCHANGED <<folder, sent, channel, broken>>

WriteMetadata ==
    /\ At("meta")
    /\ exports' = [exports EXCEPT ![Last].meta = "whole"]
    /\ watcher' = Receiving
    /\ UNCHANGED <<folder, sent, channel, broken>>

\* Any other call that fails ends the import where it is: a warning in the log,
\* and the watcher waits for the next event.
IoFails ==
    /\ watcher.pc \in {"open", "copy", "parse", "write", "meta"}
    /\ watcher' = Receiving
    /\ broken' = broken \cup {watcher.zip}
    /\ UNCHANGED <<folder, sent, channel, exports>>

Interrupt ==
    /\ ~At("down")
    /\ watcher' = [pc |-> "down", zip |-> None, todo |-> {}]
    /\ channel' = <<>>
    /\ UNCHANGED <<folder, sent, exports, broken>>

Watch ==
    \/ Receive \/ Settle \/ Unreadable \/ MakeDir \/ CopyOriginal \/ CopyFails
    \/ Parse
    \/ \E c \in AllConvs : WriteConv(c)
    \/ CreateMetadata \/ WriteMetadata \/ IoFails

Next ==
    \/ \E z \in Zips : Download(z) \/ Remove(z)
    \/ Watch \/ Interrupt

Spec == Init /\ [][Next]_vars
FairSpec == Spec /\ WF_vars(Watch)

-----------------------------------------------------------------------------
(* Properties *)

\* An import the list shows has, for each conversation of its ZIP, a file or a
\* warning, and the ZIP, unless that was taken away under it: wherever an import
\* failed or was interrupted (import_zip, list_imports).
ListedWhole ==
    \A i \in DOMAIN exports : exports[i].meta = "whole" =>
        /\ exports[i].original = "whole" \/ (exports[i].original = "partial" /\ exports[i].away)
        /\ exports[i].convs \cup exports[i].warned = Holds[exports[i].zip]

\* A finished download that its vendor's parser can read is imported while the
\* watcher runs, unless it is taken away first or a call of its last import
\* failed, however its events and the other imports fell (run_watch).
Imported(z) == \E i \in DOMAIN exports :
    exports[i].zip = z /\ exports[i].meta = "whole" /\ exports[i].original = "whole"
DownloadsImported ==
    \A z \in {y \in Readable : Vendor[y] # "unknown"} :
        folder[z] = "whole" ~>
            Imported(z) \/ folder[z] # "whole" \/ At("down") \/ z \in broken

-----------------------------------------------------------------------------
(* An invariant of the steps, for the proof of ListedWhole *)

\* The import under way is the last one, not listed yet; each conversation of the
\* export is written, warned about or still to write.
UnderWay ==
    /\ watcher.pc \in Steps \ {"recv", "down"} => watcher.zip \in Zips
    /\ watcher.pc \in {"copy", "parse", "write", "meta"} =>
         /\ exports # <<>>
         /\ exports[Last].zip = watcher.zip /\ exports[Last].meta # "whole"
         /\ exports[Last].convs \cup exports[Last].warned \cup watcher.todo
              = Holds[watcher.zip]
    /\ watcher.pc = "copy" => folder[watcher.zip] = "whole" \/ exports[Last].away
    /\ watcher.pc \in {"parse", "write", "meta"} =>
         exports[Last].original = "whole"
           \/ (exports[Last].original = "partial" /\ exports[Last].away)
    /\ watcher.pc = "meta" => watcher.todo = {}

Inv == TypeOK /\ UnderWay /\ ListedWhole

=============================================================================
