------------------------------ MODULE Captures ------------------------------
(***************************************************************************)
(* Web conversations kept under <archive>/web: the current copy of each,   *)
(* the copies it replaced, and the temporary file a new copy is written    *)
(* to.  Copies come from the browser companion, one request each, and from *)
(* runs that write many: the scrapers and the readers of the ChatGPT       *)
(* application's cache.  Every step is a call that changes the disk, and   *)
(* the process can die between two of them.                                *)
(***************************************************************************)
EXTENDS Naturals

CONSTANTS Convs,      \* conversations, by their sanitised id
          Payloads,   \* what a conversation may hold
          Writers,    \* requests and commands that write copies
          CacheFiles, \* files of an encrypted cache directory
          Cached,     \* what each holds: conversations, "garbage", "sealed"
          Stamps,     \* the times captures say they were made at
          MaxCaptures, \* bound: captures ever made
          None

Copies == [payload : Payloads, at : Stamps]
Torn == [payload |-> None, at |-> 0]      \* a file cut short

\* What an instance must satisfy.
CapturesAssumption ==
    /\ MaxCaptures \in Nat
    /\ Cached \in [CacheFiles -> SUBSET Convs \cup {{"garbage"}, {"sealed"}}]
    /\ {"garbage", "sealed"} \cap Convs = {}
    /\ None \notin Convs \cup Copies \cup {Torn} /\ Torn \notin Copies

VARIABLES taken,      \* captures made so far
          current,    \* <conv>.json
          history,    \* <conv>.history/<at>.json
          tmp,        \* .tmp-<conv>.json
          dumped,     \* raw blobs in .failed-decrypts
          work,       \* each writer: its step and its locals
          report,     \* each writer: the counts of its last run
          saved       \* copies whose writer was told "saved"

vars == <<taken, current, history, tmp, dumped, work, report, saved>>

Idle == [pc |-> "idle", conv |-> None, copy |-> None, convs |-> {}, files |-> {},
         kind |-> None]

\* The fields of the reports, and "unread": the files of a plain directory that
\* could not be read, which a report only has among its errors.
Counts == {"attempted", "decrypted", "failed_parse", "failed_decrypt",
           "parsed", "written", "unchanged", "errors", "unread"}
NoCounts == [k \in Counts |-> 0]

Steps == {"idle", "look", "rotate", "create", "fill", "rename", "next"}
Work == [pc : Steps, conv : Convs \cup {None}, copy : Copies \cup {None},
         convs : SUBSET Convs, files : SUBSET CacheFiles,
         kind : {"plain", "v2", "v3", None}]

TypeOK ==
    /\ taken \in 0..MaxCaptures
    /\ current \in [Convs -> Copies \cup {Torn, None}]
    /\ history \in [Convs -> [Stamps -> Copies \cup {None}]]
    /\ tmp \in [Convs -> Copies \cup {Torn, None}]
    /\ dumped \in SUBSET CacheFiles
    /\ work \in [Writers -> Work]
    /\ report \in [Writers -> [Counts -> Nat]]
    /\ saved \in SUBSET (Convs \X Copies)

Init ==
    /\ taken = 0
    /\ current = [c \in Convs |-> None]
    /\ history = [c \in Convs |-> [t \in Stamps |-> None]]
    /\ tmp = [c \in Convs |-> None]
    /\ dumped = {}
    /\ work = [w \in Writers |-> Idle]
    /\ report = [w \in Writers |-> NoCounts]
    /\ saved = {}

tree == <<current, history, tmp>>

Step(w, pc) == work' = [work EXCEPT ![w].pc = pc]
Count(w, ks) == report' = [report EXCEPT ![w] =
                             [k \in Counts |-> IF k \in ks THEN @[k] + 1 ELSE @[k]]]

-----------------------------------------------------------------------------
(* write_web_conversation *)

\* A copy carries the time its maker gives it: a client's is taken as it comes,
\* and a clock may give the same one twice.
Take(w, c, copy) ==
    /\ taken < MaxCaptures
    /\ taken' = taken + 1
    /\ work' = [work EXCEPT ![w].pc = "look", ![w].conv = c, ![w].copy = copy,
                            ![w].convs = @ \ {c}]

\* The write is over: a run goes on with its list, a request is answered.
Over(w) ==
    work' = [work EXCEPT ![w].pc = "next", ![w].conv = None, ![w].copy = None]

\* Nothing stored yet: write.  The same bytes: leave everything.
LookAbsent(w) ==
    /\ work[w].pc = "look" /\ current[work[w].conv] = None
    /\ Step(w, "create")
    /\ UNCHANGED <<taken, tree, dumped, report, saved>>

LookSame(w) ==
    /\ work[w].pc = "look" /\ current[work[w].conv] = work[w].copy
    /\ Over(w)
    /\ Count(w, {"unchanged"})
    /\ UNCHANGED <<taken, tree, dumped, saved>>

LookOther(w) ==
    /\ work[w].pc = "look"
    /\ current[work[w].conv] \notin {None, work[w].copy}
    /\ Step(w, "rotate")
    /\ UNCHANGED <<taken, tree, dumped, report, saved>>

\* Mutated form: the old copy makes room for the new one.
RotateAway(w) ==
    /\ work[w].pc = "rotate" /\ current[work[w].conv] \in Copies
    /\ current' = [current EXCEPT ![work[w].conv] = None]
    /\ Step(w, "create")
    /\ UNCHANGED <<taken, history, tmp, dumped, report, saved>>

\* The old copy is renamed after its own time stamp, over any file of that name.
Rotate(w) ==
    /\ work[w].pc = "rotate" /\ current[work[w].conv] \in Copies
    /\ LET c == work[w].conv
       IN  /\ history' = [history EXCEPT ![c][current[c].at] = current[c]]
           /\ current' = [current EXCEPT ![c] = None]
    /\ Step(w, "create")
    /\ UNCHANGED <<taken, tmp, dumped, report, saved>>

\* Mutated form: the new copy is written in place.
CreateInPlace(w) ==
    /\ work[w].pc = "create"
    /\ current' = [current EXCEPT ![work[w].conv] = Torn]
    /\ Step(w, "fill")
    /\ UNCHANGED <<taken, history, tmp, dumped, report, saved>>

\* File::create cuts the temporary file to nothing ...
Create(w) ==
    /\ work[w].pc = "create"
    /\ tmp' = [tmp EXCEPT ![work[w].conv] = Torn]
    /\ Step(w, "fill")
    /\ UNCHANGED <<taken, current, history, dumped, report, saved>>

\* ... and the bytes follow.
Fill(w) ==
    /\ work[w].pc = "fill"
    /\ tmp' = [tmp EXCEPT ![work[w].conv] = work[w].copy]
    /\ Step(w, "rename")
    /\ UNCHANGED <<taken, current, history, dumped, report, saved>>

Rename(w) ==
    /\ work[w].pc = "rename"
    /\ LET c == work[w].conv
       IN  /\ current' = [current EXCEPT ![c] = tmp[c]]
           /\ tmp' = [tmp EXCEPT ![c] = None]
           /\ saved' = saved \cup {<<c, work[w].copy>>}
    /\ Over(w)
    /\ Count(w, {"written"})
    /\ UNCHANGED <<taken, history, dumped>>

\* A call fails (no space left): the error is counted, the disk stays as it is.
Fail(w) ==
    /\ work[w].pc \in {"rotate", "create", "fill", "rename"}
    /\ Over(w)
    /\ Count(w, {"errors"})
    /\ UNCHANGED <<taken, tree, dumped, saved>>

-----------------------------------------------------------------------------
(* who writes *)

\* A request of the companion carries one copy, a run of one; a repeated one
\* carries the same bytes.
Post(w, c, copy) ==
    /\ work[w].pc = "idle"
    /\ Take(w, c, copy)
    /\ report' = [report EXCEPT ![w] = [NoCounts EXCEPT !["parsed"] = 1]]
    /\ UNCHANGED <<tree, dumped, saved>>

Repost(w, c) ==
    /\ work[w].pc = "idle" /\ current[c] \in Copies
    /\ work' = [work EXCEPT ![w].pc = "look", ![w].conv = c, ![w].copy = current[c]]
    /\ report' = [report EXCEPT ![w] = [NoCounts EXCEPT !["parsed"] = 1]]
    /\ UNCHANGED <<taken, tree, dumped, saved>>

\* A scraper has a list of conversations to write, the reader of a cache
\* directory, plain or sealed, a list of files.
StartScrape(w, convs) ==
    /\ work[w].pc = "idle" /\ convs # {}
    /\ work' = [work EXCEPT ![w].pc = "next", ![w].convs = convs]
    /\ report' = [report EXCEPT ![w] = NoCounts]
    /\ UNCHANGED <<taken, tree, dumped, saved>>

StartIngest(w, kind) ==
    /\ work[w].pc = "idle"
    /\ work' = [work EXCEPT ![w].pc = "next", ![w].files = CacheFiles,
                            ![w].kind = kind]
    /\ report' = [report EXCEPT ![w] = NoCounts]
    /\ UNCHANGED <<taken, tree, dumped, saved>>

\* The keychain refuses the key, or holds none: one error and no file tried.
KeyRefused(w) ==
    /\ work[w].pc = "idle"
    /\ report' = [report EXCEPT ![w] = [NoCounts EXCEPT !["errors"] = 1]]
    /\ UNCHANGED <<taken, tree, dumped, work, saved>>

\* Each conversation of the list is fetched or parsed and written; a failed
\* fetch is counted and the run goes on.
NextConv(w, c, copy) ==
    /\ work[w].pc = "next" /\ c \in work[w].convs
    /\ Take(w, c, copy)
    /\ Count(w, {"parsed"})
    /\ UNCHANGED <<tree, dumped, saved>>

FetchFails(w, c) ==
    /\ work[w].pc = "next" /\ c \in work[w].convs
    /\ work' = [work EXCEPT ![w].convs = @ \ {c}]
    /\ Count(w, {"parsed", "errors"})
    /\ UNCHANGED <<taken, tree, dumped, saved>>

\* decrypt_v2_dir and decrypt_v3_dir; openai::parse_conversations.
Decrypts(f) == Cached[f] # {"sealed"}
Parses(f) == Cached[f] \subseteq Convs

KeepRaw(w, f) ==
    /\ Decrypts(f) /\ ~Parses(f)
    /\ dumped' = dumped \cup {f}
    /\ work' = [work EXCEPT ![w].files = @ \ {f}]
    /\ Count(w, {"attempted", "failed_parse", "errors"})

\* Each sealed file is decrypted and read as conversations; one that cannot be
\* decrypted is counted.
SealedFile(w, f) ==
    /\ work[w].pc = "next" /\ work[w].convs = {} /\ f \in work[w].files
    /\ \/ KeepRaw(w, f)
       \/ /\ Parses(f)
          /\ work' = [work EXCEPT ![w].files = @ \ {f}, ![w].convs = Cached[f]]
          /\ Count(w, {"attempted", "decrypted"})
          /\ UNCHANGED dumped
       \/ /\ ~Decrypts(f)
          /\ work' = [work EXCEPT ![w].files = @ \ {f}]
          /\ Count(w, {"attempted", "failed_decrypt", "errors"})
          /\ UNCHANGED dumped
    /\ UNCHANGED <<taken, tree, saved>>

NextV2File(w, f) == work[w].kind = "v2" /\ SealedFile(w, f)
NextV3File(w, f) == work[w].kind = "v3" /\ SealedFile(w, f)

\* A plain file holds conversations or is an error.
NextPlainFile(w, f) ==
    /\ work[w].kind = "plain"
    /\ work[w].pc = "next" /\ work[w].convs = {} /\ f \in work[w].files
    /\ IF Parses(f)
       THEN /\ work' = [work EXCEPT ![w].files = @ \ {f}, ![w].convs = Cached[f]]
            /\ UNCHANGED report
       ELSE /\ work' = [work EXCEPT ![w].files = @ \ {f}]
            /\ Count(w, {"errors", "unread"})
    /\ UNCHANGED <<taken, tree, dumped, saved>>

Done(w) ==
    /\ work[w].pc = "next" /\ work[w].convs = {} /\ work[w].files = {}
    /\ work' = [work EXCEPT ![w] = Idle]
    /\ UNCHANGED <<taken, tree, dumped, report, saved>>

Crash(w) ==
    /\ work[w].pc # "idle"
    /\ work' = [work EXCEPT ![w] = Idle]
    /\ report' = [report EXCEPT ![w] = NoCounts]
    /\ UNCHANGED <<taken, tree, dumped, saved>>

Write(w) ==
    \/ LookAbsent(w) \/ LookSame(w) \/ LookOther(w)
    \/ Rotate(w) \/ Create(w) \/ Fill(w) \/ Rename(w) \/ Fail(w)

Run(w) ==
    \/ \E c \in Convs, k \in Copies : Post(w, c, k) \/ NextConv(w, c, k)
    \/ \E c \in Convs : Repost(w, c) \/ FetchFails(w, c)
    \/ \E cs \in SUBSET Convs : StartScrape(w, cs)
    \/ \E kind \in {"plain", "v2", "v3"} : StartIngest(w, kind)
    \/ KeyRefused(w) \/ Done(w)
    \/ \E f \in CacheFiles : NextV2File(w, f) \/ NextV3File(w, f) \/ NextPlainFile(w, f)

Next == \E w \in Writers : Write(w) \/ Run(w) \/ Crash(w)

Spec == Init /\ [][Next]_vars

-----------------------------------------------------------------------------
(* Properties *)

\* The file of a copy among the replaced ones went to another saved copy of its
\* conversation, one that says it was made at the same time.
Supplanted(c, k) ==
    \E l \in Copies : /\ l # k /\ l.at = k.at /\ <<c, l>> \in saved
                      /\ history[c][k.at] = l

\* A copy its writer was told is saved is the current one or among the replaced
\* ones, whatever failed or died since, unless a saved copy of the same time took
\* its file there (write_web_conversation).
NothingLost ==
    \A s \in saved : \/ current[s[1]] = s[2] \/ history[s[1]][s[2].at] = s[2]
                     \/ Supplanted(s[1], s[2])

\* Without the exception: "the previous file is rotated into" the history, says
\* the head of archive/web/mod.rs.
SavedStays ==
    \A s \in saved : current[s[1]] = s[2] \/ history[s[1]][s[2].at] = s[2]

\* The current copy is never a file cut short: the temporary file is whole
\* when it takes the name (write_web_conversation).
CurrentWhole == \A c \in Convs : current[c] # Torn

\* The counts of a finished run add up: every file tried and every conversation
\* met is accounted for once (IngestReport, ScrapeReport).
ReportAddsUp ==
    \A w \in Writers : work[w].pc = "next" /\ work[w].convs = {} =>
        LET r == report[w]
        IN  /\ r["attempted"] = r["decrypted"] + r["failed_parse"] + r["failed_decrypt"]
            /\ r["parsed"] + r["unread"] + r["failed_parse"] + r["failed_decrypt"]
                 = r["written"] + r["unchanged"] + r["errors"]

\* A copy whose payload is the stored one leaves the tree as it is: "Idempotent",
\* says the description of the cache readers, and `unchanged` counts the
\* conversations that already matched.
Idempotent ==
    [][\A w \in Writers : Rotate(w) =>
          current[work[w].conv].payload # work[w].copy.payload]_vars

-----------------------------------------------------------------------------
(* What the proofs need: no two writers at one conversation at a time, as when *)
(* there is one writer, and an invariant of the steps under that condition.    *)

Apart == \A v, w \in Writers : v # w /\ work[v].conv # None =>
             work[v].conv # work[w].conv

Writing == {"look", "rotate", "create", "fill", "rename"}

\* A file of the tree other than the temporary one was saved, the replaced ones
\* under their own stamps.
AllSaved ==
    \A c \in Convs :
        /\ current[c] \in Copies => <<c, current[c]>> \in saved
        /\ \A t \in Stamps : history[c][t] # None => <<c, history[c][t]>> \in saved
FiledByStamp ==
    \A c \in Convs, t \in Stamps : history[c][t] # None => history[c][t].at = t

InHand ==
    \A w \in Writers :
        IF work[w].pc \in Writing
        THEN work[w].conv \in Convs /\ work[w].copy \in Copies
        ELSE work[w].conv = None

\* Whoever writes the new copy has made room for it.
RoomMade ==
    \A w \in Writers : work[w].pc \in {"create", "fill", "rename"} =>
        current[work[w].conv] = None
Prepared ==
    \A w \in Writers : work[w].pc = "rename" => tmp[work[w].conv] = work[w].copy

\* The counts add up at every step, but for the conversation in hand.
CountsAddUp ==
    \A w \in Writers : work[w].pc # "idle" =>
        LET r == report[w]
        IN  /\ r["attempted"] = r["decrypted"] + r["failed_parse"] + r["failed_decrypt"]
            /\ r["parsed"] + r["unread"] + r["failed_parse"] + r["failed_decrypt"]
                 = r["written"] + r["unchanged"] + r["errors"]
                   + (IF work[w].pc \in Writing THEN 1 ELSE 0)

Inv == /\ TypeOK /\ AllSaved /\ FiledByStamp /\ InHand /\ RoomMade /\ Prepared
       /\ CurrentWhole /\ NothingLost /\ CountsAddUp

=============================================================================
