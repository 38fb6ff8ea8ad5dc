------------------------------ MODULE ScanFiles ------------------------------
(***************************************************************************)
(* Scan on two sets of files: "own" ones, which are written, replaced and  *)
(* removed while no scan dies, and of which no two hold the same message   *)
(* or tool call; and "shared" ones, which may hold each other's messages   *)
(* (forks of a session) and only grow, while scans die.                    *)
(***************************************************************************)
EXTENDS Scan

CONSTANTS
    OwnFiles,       \* for each file, the contents it may have in the first set
    SharedFiles     \* for each file, the contents it may have in the second

ASSUME PartsAssumption == \A f \in Files : Contents[f] = OwnFiles[f] \cup SharedFiles[f]
ASSUME OwnMessagesAssumption ==
    \A f, g \in Files : f # g =>
        \A c \in OwnFiles[f], d \in OwnFiles[g] :
            \A i \in DOMAIN c, j \in DOMAIN d : c[i].msg = d[j].msg => c[i].msg = NoId
\* Nor do two of them hold the same tool call, nor one of them a call twice: the
\* records of one message repeat it, but only the last of them is a turn.
ASSUME OwnToolsAssumption ==
    \A f, g \in Files : \A c \in OwnFiles[f], d \in OwnFiles[g] :
        \A t \in ParsedTurns(c), v \in ParsedTurns(d) :
            \A i \in DOMAIN t.tools, j \in DOMAIN v.tools :
                t.tools[i] = v.tools[j] => f = g /\ (c = d => t = v /\ i = j)

VARIABLE part       \* which of the two the files are

FilesOf == [own |-> OwnFiles, shared |-> SharedFiles]

Behave ==
    /\ UNCHANGED part
    /\ \A f \in Files : fs'[f] # None => fs'[f].content \in FilesOf[part][f]
    /\ part = "own" => crashes' = 0
    /\ part = "shared" => \A f \in Files : fs[f] # None /\ fs'[f] # fs[f] =>
            fs'[f] # None /\ Extends(fs[f].content, fs'[f].content)

Step == Next /\ Behave

TwoInit == Init /\ part \in {"own", "shared"}
TwoSpec == /\ TwoInit
           /\ [][Step]_<<vars, part>>
           /\ \A p \in Scanners : WF_vars(ScanStep(p))

-----------------------------------------------------------------------------
(* Properties *)

\* Of its own files, a scan stores every turn once, and nothing else.
OwnTurnsExact == part = "own" => TurnsExact

\* The tools of a stored turn add up to its cost, and no tool is left behind,
\* when no file shares a message with another one.
OwnToolCosts == part = "own" => ToolCostsAddUp

\* Rows that no later scan removes exist only while a scan is at their file,
\* unless one died there.
OwnRowsMarked == part = "own" => NoOrphanRows

\* A stored session has the totals of its turns, a window that covers them and
\* the title its transcript gave it.
SessionsTrue == SessionsMatchTurns /\ WindowCoversTurns /\ TitleKept

=============================================================================
