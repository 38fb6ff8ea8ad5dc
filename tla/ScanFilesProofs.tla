--------------------------- MODULE ScanFilesProofs ---------------------------
(***************************************************************************)
(* Proofs about Scan, for any set of files, transcripts, scanners and      *)
(* openers, and any number of edits and crashes; and about ScanFiles, for  *)
(* one scanner: first the own files and then the shared ones, with any     *)
(* number of processes that open the database meanwhile; last the          *)
(* sessions, which need one process at a time.                             *)
(***************************************************************************)
EXTENDS ScanFiles, TLAPS, WellFoundedInduction, FiniteSetTheorems

-----------------------------------------------------------------------------
(* What parsing returns. *)

\* The turns of a content a file may have are turns of that file.
LEMMA ParsedTurnsType ==
    ASSUME NEW f \in Files, NEW c \in Contents[f] \cup {<<>>}
    PROVE  /\ ParsedTurns(c) \subseteq TurnsOf(f)
           /\ \A t \in ParsedTurns(c) : t \in Line
<1>1. CASE c \in Contents[f]
  <2>1. c \in Seq(Line)
    BY <1>1, ContentsAssumption
  <2>2. \A i \in DOMAIN c : c[i] \in Line
    BY <2>1
  <2>3. Kept(c) \subseteq DOMAIN c
    BY DEF Kept
  <2> QED
    BY <1>1, <2>2, <2>3 DEF ParsedTurns, TurnsOf
<1>2. CASE c = <<>>
  <2>1. DOMAIN c = {}
    BY <1>2
  <2> QED
    BY <2>1 DEF ParsedTurns, Kept
<1> QED
  BY <1>1, <1>2

\* The cost of each tool event is a natural number.
LEMMA TurnEventsType ==
    ASSUME NEW t \in Line
    PROVE  /\ TurnEvents(t) \subseteq EventItem
           /\ { t.tools[i] : i \in DOMAIN t.tools } \subseteq ToolIds
<1>1. t.tools \in Seq(ToolIds) /\ t.cost \in Nat /\ t.session \in Sessions
  BY DEF Line
<1>2. ASSUME NEW i \in DOMAIN t.tools
      PROVE  t.tools[i] \in ToolIds /\ Share(t, i) \in Nat
  <2>1. Len(t.tools) \in Nat /\ Len(t.tools) > 0
    BY <1>1, <1>2
  <2>2. ASSUME NEW a \in Nat, NEW n \in Nat, n > 0
        PROVE  a \div n \in Nat /\ a % n \in Nat
    BY <2>2
  <2>3. t.cost \div Len(t.tools) \in Nat /\ t.cost % Len(t.tools) \in Nat
    BY <1>1, <2>1, <2>2
  <2> QED
    BY <1>1, <1>2, <2>3 DEF Share
<1> QED
  BY <1>1, <1>2 DEF TurnEvents, EventItem

\* The batches a parsed file is written in have the types of their phases.
LEMMA BatchTypes ==
    ASSUME NEW f \in Files, NEW c \in Contents[f] \cup {<<>>}
    PROVE  /\ Metas(c) \subseteq Sessions
           /\ ParsedTurns(c) \subseteq TurnsOf(f)
           /\ ToolsOf(c) \subseteq ToolIds
           /\ EventsOf(c) \subseteq EventItem
<1>1. Metas(c) \subseteq Sessions
  BY DEF Metas
<1>2. \A t \in ParsedTurns(c) : t \in Line
  BY ParsedTurnsType
<1>3. \A t \in ParsedTurns(c) : /\ TurnEvents(t) \subseteq EventItem
                                /\ { t.tools[i] : i \in DOMAIN t.tools } \subseteq ToolIds
  BY <1>2, TurnEventsType
<1> QED
  BY <1>1, <1>3, ParsedTurnsType DEF ToolsOf, EventsOf

LEMMA SpanType ==
    ASSUME NEW f \in Files, NEW c \in Contents[f] \cup {<<>>}, NEW s
    PROVE  Span(c, s) \subseteq Nat
<1>1. CASE c \in Contents[f]
  <2>1. c \in Seq(Line)
    BY <1>1, ContentsAssumption
  <2>2. \A i \in DOMAIN c : c[i] \in Line
    BY <2>1
  <2>3. \A i \in DOMAIN c : c[i].ts \in Nat
    BY <2>2 DEF Line
  <2> QED
    BY <2>3 DEF Span, MetaLines
<1>2. CASE c = <<>>
  BY <1>2 DEF Span, MetaLines
<1> QED
  BY <1>1, <1>2

LEMMA RowsType ==
    ASSUME NEW f \in Files, NEW t \in TurnsOf(f)
    PROVE  <<f, t>> \in Rows
BY DEF Rows

LEMMA RowsOfType ==
    ASSUME turns \in [Rows -> Nat]
    PROVE  \A s \in Sessions : RowsOf(s) \in [Rows -> Nat]
BY DEF RowsOf

-----------------------------------------------------------------------------
(* Type correctness. *)

\* A step that replaces the local state of one process by a well-formed one.
LEMMA LocalStep ==
    ASSUME scan \in [Procs -> Local], \A q \in Procs : LocalOK(scan[q]),
           NEW p \in Procs, NEW l \in Local, LocalOK(l),
           scan' = [scan EXCEPT ![p] = l]
    PROVE  /\ scan' \in [Procs -> Local]
           /\ \A q \in Procs : LocalOK(scan'[q])
OBVIOUS

LEMMA IdleOK == Idle \in Local /\ LocalOK(Idle)
BY DEF Idle, Local, LocalOK, Stages, Filing, Deleting

\* So is that of the next turn of the file loop.
LEMMA NextOK ==
    ASSUME NEW L \in Local
    PROVE  NextOf(L) \in Local /\ LocalOK(NextOf(L))
<1>1. L.todo \in SUBSET Files /\ L.dirty \in BOOLEAN
  <2>1. L.todo \in SUBSET Files
    BY DEF Local
  <2>2. L.dirty \in BOOLEAN
    BY DEF Local
  <2> QED
    BY <2>1, <2>2
<1>2. NextOf(L) \in Local
  <2>1. CASE L.dirty = TRUE
    BY <1>1, <2>1 DEF NextOf, Local, Stages
  <2>2. CASE L.dirty = FALSE
    BY <1>1, <2>2 DEF NextOf, Local, Stages
  <2> QED
    BY <1>1, <2>1, <2>2
<1>3. LocalOK(NextOf(L))
  BY DEF NextOf, LocalOK, Filing, Deleting
<1> QED
  BY <1>2, <1>3

LEMMA TypeInit == Init => TypeOK
<1> SUFFICES ASSUME Init PROVE TypeOK
  OBVIOUS
<1>1. ScansOK
  BY IdleOK, BoundsAssumption DEF Init, ScansOK
<1>2. FilesOK /\ DbOK
  BY BoundsAssumption DEF Init, FilesOK, DbOK
<1> QED
  BY <1>1, <1>2 DEF TypeOK

\* The local state after each step of a process is well formed.
LEMMA LocalNext ==
    ASSUME TypeOK, NEW p \in Procs, ScanStep(p) \/ Crash(p)
    PROVE  ScansOK'
<1>1. /\ scan \in [Procs -> Local]
      /\ \A q \in Procs : LocalOK(scan[q])
      /\ crashes \in 0..MaxCrashes
  BY DEF TypeOK, ScansOK
<1>2. scan[p] \in Local /\ LocalOK(scan[p])
  BY <1>1
<1>3. SUFFICES /\ \E l \in Local : LocalOK(l) /\ scan' = [scan EXCEPT ![p] = l]
               /\ crashes' \in 0..MaxCrashes
  BY <1>1, LocalStep DEF ScansOK
<1> DEFINE L == scan[p]
<1>4. CASE OpenDb(p)
  <2> DEFINE l == [Idle EXCEPT !.pc = "opened"]
  <2>1. l \in Local /\ LocalOK(l)
    BY <1>4, <1>2 DEF OpenDb, Idle, At, Goto, Consume, Local, LocalOK, Stages, Filing, Deleting
  <2>2. scan' = [scan EXCEPT ![p] = l] /\ crashes' = crashes
    BY <1>4, <1>1 DEF OpenDb, Goto, Consume
  <2> QED
    BY <1>1, <2>1, <2>2
<1>5. CASE PruneOnOpen(p)
  <2> DEFINE l == [L EXCEPT !.pc = IF p \in Scanners THEN "discover" ELSE "idle"]
  <2>1. l \in Local /\ LocalOK(l)
    BY <1>5, <1>2 DEF PruneOnOpen, At, Goto, Consume, Local, LocalOK, Stages, Filing, Deleting
  <2>2. scan' = [scan EXCEPT ![p] = l] /\ crashes' = crashes
    BY <1>5, <1>1 DEF PruneOnOpen, Goto, Consume
  <2> QED
    BY <1>1, <2>1, <2>2
<1>6. CASE Discover(p)
  <2> DEFINE l == [L EXCEPT !.pc = "list", !.todo = {f \in Files : fs[f] # None}]
  <2>1. l \in Local /\ LocalOK(l)
    BY <1>6, <1>2 DEF Discover, At, Goto, Consume, Local, LocalOK, Stages, Filing, Deleting
  <2>2. scan' = [scan EXCEPT ![p] = l] /\ crashes' = crashes
    BY <1>6, <1>1 DEF Discover, Goto, Consume
  <2> QED
    BY <1>1, <2>1, <2>2
<1>7. CASE ListProcessed(p)
  <2> DEFINE l == [L EXCEPT !.pc = "sweep", !.stale = {f \in Files : processed[f] # None} \ L.todo]
  <2>1. l \in Local /\ LocalOK(l)
    BY <1>7, <1>2 DEF ListProcessed, At, Goto, Consume, Local, LocalOK, Stages, Filing, Deleting
  <2>2. scan' = [scan EXCEPT ![p] = l] /\ crashes' = crashes
    BY <1>7, <1>1 DEF ListProcessed, Goto, Consume
  <2> QED
    BY <1>1, <2>1, <2>2
<1>8. CASE SweepNext(p)
  <2>1. PICK f \in L.stale : scan' = [scan EXCEPT ![p].pc = "delTurns", ![p].file = f]
    BY <1>8 DEF SweepNext, Goto, Consume
  <2> DEFINE l == [L EXCEPT !.pc = "delTurns", !.file = f]
  <2>2. l \in Local /\ LocalOK(l)
    BY <1>8, <1>2, <2>1 DEF SweepNext, At, Goto, Consume, Local, LocalOK, Stages, Filing, Deleting
  <2>3. scan' = [scan EXCEPT ![p] = l] /\ crashes' = crashes
    BY <1>8, <1>1, <2>1 DEF SweepNext, Goto, Consume
  <2> QED
    BY <1>1, <2>2, <2>3
<1>9. CASE SweepDone(p)
  <2> DEFINE l == [L EXCEPT !.pc = "next"]
  <2>1. l \in Local /\ LocalOK(l)
    BY <1>9, <1>2 DEF SweepDone, At, Goto, Consume, Local, LocalOK, Stages, Filing, Deleting
  <2>2. scan' = [scan EXCEPT ![p] = l] /\ crashes' = crashes
    BY <1>9, <1>1 DEF SweepDone, Goto, Consume
  <2> QED
    BY <1>1, <2>1, <2>2
<1>10. CASE DeleteTurns(p)
  <2> DEFINE l == [L EXCEPT !.pc = "delInvocations"]
  <2>1. l \in Local /\ LocalOK(l)
    BY <1>10, <1>2 DEF DeleteTurns, At, Goto, Consume, Local, LocalOK, Stages, Filing, Deleting
  <2>2. scan' = [scan EXCEPT ![p] = l] /\ crashes' = crashes
    BY <1>10, <1>1 DEF DeleteTurns, Goto, Consume
  <2> QED
    BY <1>1, <2>1, <2>2
<1>11. CASE DeleteInvocations(p)
  <2> DEFINE l == [L EXCEPT !.pc = "delEvents"]
  <2>1. l \in Local /\ LocalOK(l)
    BY <1>11, <1>2 DEF DeleteInvocations, At, Goto, Consume, Local, LocalOK, Stages, Filing, Deleting
  <2>2. scan' = [scan EXCEPT ![p] = l] /\ crashes' = crashes
    BY <1>11, <1>1 DEF DeleteInvocations, Goto, Consume
  <2> QED
    BY <1>1, <2>1, <2>2
<1>12. CASE DeleteEvents(p)
  <2> DEFINE l1 == [L EXCEPT !.pc = "forget"]
             l2 == [L EXCEPT !.pc = "parse", !.dirty = TRUE]
  <2>1. CASE L.stale # {}
    <3>1. l1 \in Local /\ LocalOK(l1)
      BY <1>12, <1>2, <2>1 DEF DeleteEvents, At, Goto, Consume, Local, LocalOK, Stages, Filing, Deleting
    <3>2. scan' = [scan EXCEPT ![p] = l1] /\ crashes' = crashes
      BY <1>12, <1>1, <2>1 DEF DeleteEvents, Goto
    <3> QED
      BY <1>1, <3>1, <3>2
  <2>2. CASE L.stale = {}
    <3>1. l2 \in Local /\ LocalOK(l2)
      BY <1>12, <1>2, <2>2 DEF DeleteEvents, At, Goto, Consume, Local, LocalOK, Stages, Filing, Deleting
    <3>2. scan' = [scan EXCEPT ![p] = l2] /\ crashes' = crashes
      BY <1>12, <1>1, <2>2 DEF DeleteEvents
    <3> QED
      BY <1>1, <3>1, <3>2
  <2> QED
    BY <2>1, <2>2
<1>13. CASE DeleteProcessed(p)
  <2> DEFINE l == [L EXCEPT !.pc = "sweep", !.dirty = TRUE, !.file = None, !.stale = @ \ {L.file}]
  <2>1. l \in Local /\ LocalOK(l)
    BY <1>13, <1>2 DEF DeleteProcessed, At, Goto, Consume, Local, LocalOK, Stages, Filing, Deleting
  <2>2. scan' = [scan EXCEPT ![p] = l] /\ crashes' = crashes
    BY <1>13, <1>1 DEF DeleteProcessed, Goto, Consume
  <2> QED
    BY <1>1, <2>1, <2>2
<1>14. CASE SkipVanished(p)
  <2>1. PICK f \in L.todo : scan' = [scan EXCEPT ![p].todo = @ \ {f}]
    BY <1>14 DEF SkipVanished, Goto, Consume
  <2> DEFINE l == [L EXCEPT !.todo = @ \ {f}]
  <2>2. l \in Local /\ LocalOK(l)
    BY <1>14, <1>2, <2>1 DEF SkipVanished, At, Goto, Consume, Local, LocalOK, Stages, Filing, Deleting
  <2>3. scan' = [scan EXCEPT ![p] = l] /\ crashes' = crashes
    BY <1>14, <1>1, <2>1 DEF SkipVanished, Goto, Consume
  <2> QED
    BY <1>1, <2>2, <2>3
<1>15. CASE StatFile(p)
  <2>1. PICK f \in L.todo : /\ fs[f] # None
                            /\ scan' = [scan EXCEPT ![p].pc = "lookup", ![p].todo = @ \ {f},
                                                    ![p].file = f, ![p].mtime = fs[f].mtime]
    BY <1>15 DEF StatFile, Goto, Consume
  <2> DEFINE l == [L EXCEPT !.pc = "lookup", !.todo = @ \ {f}, !.file = f, !.mtime = fs[f].mtime]
  <2>2. l \in Local /\ LocalOK(l)
    <3>1. f \in Files /\ fs[f].mtime \in Nat
      BY <1>2, <2>1 DEF TypeOK, FilesOK, Local
    <3>2. l \in Local
      BY <1>2, <3>1 DEF Local, Stages
    <3>3. l.pc = "lookup" /\ l.file = f /\ l.mtime = fs[f].mtime
      BY <1>2 DEF Local
    <3> QED
      BY <3>1, <3>2, <3>3 DEF LocalOK, Filing, Deleting
  <2>3. scan' = [scan EXCEPT ![p] = l] /\ crashes' = crashes
    BY <1>15, <1>1, <2>1 DEF StatFile, Goto, Consume
  <2> QED
    BY <1>1, <2>2, <2>3
<1>16. CASE SkipUnchanged(p)
  <2> DEFINE l == NextOf(L)
  <2>1. l \in Local /\ LocalOK(l)
    BY <1>2, NextOK
  <2>2. scan' = [scan EXCEPT ![p] = l] /\ crashes' = crashes
    BY <1>16, <1>1 DEF SkipUnchanged, Goto, Consume
  <2> QED
    BY <1>1, <2>1, <2>2
<1>17. CASE TakeNew(p)
  <2> DEFINE l == [L EXCEPT !.pc = "parse"]
  <2>1. l \in Local /\ LocalOK(l)
    BY <1>17, <1>2 DEF TakeNew, At, Goto, Consume, Local, LocalOK, Stages, Filing, Deleting
  <2>2. scan' = [scan EXCEPT ![p] = l] /\ crashes' = crashes
    BY <1>17, <1>1 DEF TakeNew, Goto, Consume
  <2> QED
    BY <1>1, <2>1, <2>2
<1>18. CASE TakeUpdated(p)
  <2> DEFINE l == [L EXCEPT !.pc = "delTurns"]
  <2>1. l \in Local /\ LocalOK(l)
    BY <1>18, <1>2 DEF TakeUpdated, At, Goto, Consume, Local, LocalOK, Stages, Filing, Deleting
  <2>2. scan' = [scan EXCEPT ![p] = l] /\ crashes' = crashes
    BY <1>18, <1>1 DEF TakeUpdated, Goto, Consume
  <2> QED
    BY <1>1, <2>1, <2>2
<1>19. CASE ParseFile(p)
  <2> DEFINE c == IF fs[L.file] = None THEN <<>> ELSE fs[L.file].content
             l == [L EXCEPT !.pc = IF Metas(c) = {} THEN "mark" ELSE "upsert",
                            !.content = c, !.pend = Metas(c)]
  <2>1. L.file \in Files /\ L.mtime \in Nat
    BY <1>2, <1>19 DEF ParseFile, At, LocalOK, Filing
  <2>2. c \in Contents[L.file] \cup {<<>>} /\ c \in AllContents \cup {<<>>}
    BY <2>1 DEF TypeOK, FilesOK, AllContents
  <2>3. Metas(c) \subseteq Sessions
    BY DEF Metas
  <2>4. l \in Local /\ LocalOK(l)
    <3> HIDE DEF c
    <3> QED
      BY <1>2, <1>19, <2>1, <2>2, <2>3 DEF ParseFile, At, Goto, Local, LocalOK, Stages, Filing, Deleting
  <2>5. scan' = [scan EXCEPT ![p] = l] /\ crashes' = crashes
    BY <1>1, <1>19 DEF ParseFile
  <2> QED
    BY <1>1, <2>4, <2>5
<1>20. CASE UpsertSession(p)
  <2>1. PICK x \in L.pend : scan' = [scan EXCEPT ![p].pend = @ \ {x}]
    BY <1>20 DEF UpsertSession, Goto, Consume
  <2> DEFINE l == [L EXCEPT !.pend = @ \ {x}]
  <2>2. l \in Local /\ LocalOK(l)
    BY <1>20, <1>2, <2>1 DEF UpsertSession, At, Goto, Consume, Local, LocalOK, Stages, Filing, Deleting
  <2>3. scan' = [scan EXCEPT ![p] = l] /\ crashes' = crashes
    BY <1>20, <1>1, <2>1 DEF UpsertSession, Goto, Consume
  <2> QED
    BY <1>1, <2>2, <2>3
<1>21. CASE InsertTurn(p)
  <2>1. PICK x \in L.pend : scan' = [scan EXCEPT ![p].pend = @ \ {x}]
    BY <1>21 DEF InsertTurn, Goto, Consume
  <2> DEFINE l == [L EXCEPT !.pend = @ \ {x}]
  <2>2. l \in Local /\ LocalOK(l)
    BY <1>21, <1>2, <2>1 DEF InsertTurn, At, Goto, Consume, Local, LocalOK, Stages, Filing, Deleting
  <2>3. scan' = [scan EXCEPT ![p] = l] /\ crashes' = crashes
    BY <1>21, <1>1, <2>1 DEF InsertTurn, Goto, Consume
  <2> QED
    BY <1>1, <2>2, <2>3
<1>22. CASE InsertInvocation(p)
  <2>1. PICK x \in L.pend : scan' = [scan EXCEPT ![p].pend = @ \ {x}]
    BY <1>22 DEF InsertInvocation, Goto, Consume
  <2> DEFINE l == [L EXCEPT !.pend = @ \ {x}]
  <2>2. l \in Local /\ LocalOK(l)
    BY <1>22, <1>2, <2>1 DEF InsertInvocation, At, Goto, Consume, Local, LocalOK, Stages, Filing, Deleting
  <2>3. scan' = [scan EXCEPT ![p] = l] /\ crashes' = crashes
    BY <1>22, <1>1, <2>1 DEF InsertInvocation, Goto, Consume
  <2> QED
    BY <1>1, <2>2, <2>3
<1>23. CASE SyncTitle(p)
  <2>1. PICK x \in L.pend : scan' = [scan EXCEPT ![p].pend = @ \ {x}]
    BY <1>23 DEF SyncTitle, Goto, Consume
  <2> DEFINE l == [L EXCEPT !.pend = @ \ {x}]
  <2>2. l \in Local /\ LocalOK(l)
    BY <1>23, <1>2, <2>1 DEF SyncTitle, At, Goto, Consume, Local, LocalOK, Stages, Filing, Deleting
  <2>3. scan' = [scan EXCEPT ![p] = l] /\ crashes' = crashes
    BY <1>23, <1>1, <2>1 DEF SyncTitle, Goto, Consume
  <2> QED
    BY <1>1, <2>2, <2>3
<1>24. CASE InsertEvent(p)
  <2>1. PICK x \in L.pend : scan' = [scan EXCEPT ![p].pend = @ \ {x}]
    BY <1>24 DEF InsertEvent, Goto, Consume
  <2> DEFINE l == [L EXCEPT !.pend = @ \ {x}]
  <2>2. l \in Local /\ LocalOK(l)
    BY <1>24, <1>2, <2>1 DEF InsertEvent, At, Goto, Consume, Local, LocalOK, Stages, Filing, Deleting
  <2>3. scan' = [scan EXCEPT ![p] = l] /\ crashes' = crashes
    BY <1>24, <1>1, <2>1 DEF InsertEvent, Goto, Consume
  <2> QED
    BY <1>1, <2>2, <2>3
<1>25. CASE PhaseDone(p)
  <2> DEFINE c == L.content
  <2>1. L.file \in Files /\ L.mtime \in Nat /\ c \in Contents[L.file] \cup {<<>>}
    BY <1>2, <1>25 DEF PhaseDone, At, LocalOK, Filing
  <2>2. /\ Metas(c) \subseteq Sessions
        /\ ParsedTurns(c) \subseteq TurnsOf(L.file)
        /\ ToolsOf(c) \subseteq ToolIds
        /\ EventsOf(c) \subseteq EventItem
    BY <2>1, BatchTypes
  <2>3. \E l \in Local : LocalOK(l) /\ scan' = [scan EXCEPT ![p] = l]
    <3>1. CASE At(p, "upsert")
      <4> DEFINE l == [L EXCEPT !.pc = "insert", !.pend = ParsedTurns(c)]
      <4>1. l \in Local /\ LocalOK(l)
        BY <1>2, <2>1, <2>2, <3>1 DEF At, Goto, Local, LocalOK, Stages, Filing, Deleting
      <4>2. scan' = [scan EXCEPT ![p] = l]
        BY <1>1, <1>25, <3>1 DEF PhaseDone, At
      <4> QED
        BY <4>1, <4>2
    <3>2. CASE At(p, "insert")
      <4> DEFINE l == [L EXCEPT !.pc = "invoke", !.pend = ToolsOf(c)]
      <4>1. l \in Local /\ LocalOK(l)
        BY <1>2, <2>1, <2>2, <3>2 DEF At, Goto, Local, LocalOK, Stages, Filing, Deleting
      <4>2. scan' = [scan EXCEPT ![p] = l]
        BY <1>1, <1>25, <3>2 DEF PhaseDone, At
      <4> QED
        BY <4>1, <4>2
    <3>3. CASE At(p, "invoke")
      <4> DEFINE l == [L EXCEPT !.pc = "title", !.pend = Metas(c)]
      <4>1. l \in Local /\ LocalOK(l)
        BY <1>2, <2>1, <2>2, <3>3 DEF At, Goto, Local, LocalOK, Stages, Filing, Deleting
      <4>2. scan' = [scan EXCEPT ![p] = l]
        BY <1>1, <1>25, <3>3 DEF PhaseDone, At
      <4> QED
        BY <4>1, <4>2
    <3>4. CASE At(p, "title")
      <4> DEFINE l == [L EXCEPT !.pc = "event", !.pend = EventsOf(c)]
      <4>1. l \in Local /\ LocalOK(l)
        BY <1>2, <2>1, <2>2, <3>4 DEF At, Goto, Local, LocalOK, Stages, Filing, Deleting
      <4>2. scan' = [scan EXCEPT ![p] = l]
        BY <1>1, <1>25, <3>4 DEF PhaseDone, At
      <4> QED
        BY <4>1, <4>2
    <3>5. CASE At(p, "event")
      <4> DEFINE l == [L EXCEPT !.pc = "mark", !.dirty = TRUE]
      <4>1. l \in Local /\ LocalOK(l)
        BY <1>2, <2>1, <2>2, <3>5 DEF At, Goto, Local, LocalOK, Stages, Filing, Deleting
      <4>2. scan' = [scan EXCEPT ![p] = l]
        BY <1>1, <1>25, <3>5 DEF PhaseDone, At
      <4> QED
        BY <4>1, <4>2
    <3> QED
      BY <1>25, <3>1, <3>2, <3>3, <3>4, <3>5 DEF PhaseDone
  <2> QED
    BY <1>1, <1>25, <2>3 DEF PhaseDone
<1>26. CASE MarkProcessed(p)
  <2> DEFINE l == NextOf(L)
  <2>1. l \in Local /\ LocalOK(l)
    BY <1>2, NextOK
  <2>2. scan' = [scan EXCEPT ![p] = l] /\ crashes' = crashes
    BY <1>26, <1>1 DEF MarkProcessed, Goto, Consume
  <2> QED
    BY <1>1, <2>1, <2>2
<1>27. CASE FinishUnchanged(p)
  <2> DEFINE l == Idle
  <2>1. l \in Local /\ LocalOK(l)
    BY <1>27, <1>2 DEF FinishUnchanged, Idle, At, Goto, Consume, Local, LocalOK, Stages, Filing, Deleting
  <2>2. scan' = [scan EXCEPT ![p] = l] /\ crashes' = crashes
    BY <1>27, <1>1 DEF FinishUnchanged, Goto, Consume
  <2> QED
    BY <1>1, <2>1, <2>2
<1>28. CASE RecomputeTotals(p)
  <2> DEFINE l == [L EXCEPT !.pc = "drop"]
  <2>1. l \in Local /\ LocalOK(l)
    BY <1>28, <1>2 DEF RecomputeTotals, At, Goto, Consume, Local, LocalOK, Stages, Filing, Deleting
  <2>2. scan' = [scan EXCEPT ![p] = l] /\ crashes' = crashes
    BY <1>28, <1>1 DEF RecomputeTotals, Goto, Consume
  <2> QED
    BY <1>1, <2>1, <2>2
<1>29. CASE DropEmptySessions(p)
  <2> DEFINE l == Idle
  <2>1. l \in Local /\ LocalOK(l)
    BY <1>29, <1>2 DEF DropEmptySessions, Idle, At, Goto, Consume, Local, LocalOK, Stages, Filing, Deleting
  <2>2. scan' = [scan EXCEPT ![p] = l] /\ crashes' = crashes
    BY <1>29, <1>1 DEF DropEmptySessions, Goto, Consume
  <2> QED
    BY <1>1, <2>1, <2>2
<1>30. CASE Crash(p)
  <2> DEFINE l == [Idle EXCEPT !.pc = "dead"]
  <2>1. l \in Local /\ LocalOK(l)
    BY DEF Idle, At, Goto, Consume, Local, LocalOK, Stages, Filing, Deleting
  <2>2. scan' = [scan EXCEPT ![p] = l] /\ crashes' \in 0..MaxCrashes
    BY <1>30, <1>1, BoundsAssumption DEF Crash
  <2> QED
    BY <2>1, <2>2
<1> QED
  BY <1>4, <1>5, <1>6, <1>7, <1>8, <1>9, <1>10, <1>11, <1>12, <1>13, <1>14, <1>15, <1>16, <1>17, <1>18, <1>19, <1>20, <1>21, <1>22, <1>23, <1>24, <1>25, <1>26, <1>27, <1>28, <1>29, <1>30 DEF ScanStep

\* The tables keep their types.
LEMMA DbNext ==
    ASSUME TypeOK, NEW p \in Procs, ScanStep(p)
    PROVE  DbOK'
<1>1. DbOK
  BY DEF TypeOK
<1>2. scan[p] \in Local /\ LocalOK(scan[p])
  BY DEF TypeOK, ScansOK
<1> DEFINE L == scan[p]
<1>3. CASE OpenDb(p) \/ RecomputeTotals(p)
  <2>1. sessions' = RecomputedTotals /\ UNCHANGED <<turns, processed, invocations, toolEvents>>
    BY <1>3 DEF OpenDb, RecomputeTotals
  <2>2. sessions' \in [Sessions -> SessionRow \cup {None}]
    <3>1. SUFFICES ASSUME NEW s \in Sessions, sessions[s] # None
                   PROVE  [sessions[s] EXCEPT !.totals = RowsOf(s)] \in SessionRow
      BY <1>1, <2>1 DEF RecomputedTotals, DbOK
    <3>2. sessions[s] \in SessionRow /\ RowsOf(s) \in [Rows -> Nat]
      BY <1>1, <3>1, RowsOfType DEF DbOK
    <3> QED
      BY <3>2 DEF SessionRow
  <2> QED
    BY <1>1, <2>1, <2>2 DEF DbOK
<1>4. CASE PruneOnOpen(p) \/ DropEmptySessions(p)
  BY <1>1, <1>4 DEF PruneOnOpen, DropEmptySessions, PrunedSessions, DbOK
<1>5. CASE DeleteTurns(p)
  BY <1>1, <1>5 DEF DeleteTurns, DbOK
<1>6. CASE DeleteInvocations(p)
  BY <1>1, <1>6 DEF DeleteInvocations, DbOK
<1>7. CASE DeleteEvents(p)
  BY <1>1, <1>7 DEF DeleteEvents, DbOK
<1>8. CASE DeleteProcessed(p)
  BY <1>1, <1>8 DEF DeleteProcessed, DbOK
<1>9. CASE UpsertSession(p)
  <2>1. PICK s \in L.pend :
          sessions' = [sessions EXCEPT ![s] =
                [totals |-> FileTotals(L.file, L.content, s),
                 span   |-> Span(L.content, s),
                 titled |-> sessions[s] # None /\ sessions[s].titled]]
    BY <1>9 DEF UpsertSession
  <2>2. L.file \in Files /\ L.content \in Contents[L.file] \cup {<<>>} /\ s \in Sessions
    BY <1>2, <1>9 DEF UpsertSession, At, LocalOK, Filing
  <2>3. FileTotals(L.file, L.content, s) \in [Rows -> Nat]
    BY DEF FileTotals
  <2>4. Span(L.content, s) \in SUBSET Nat
    BY <2>2, SpanType
  <2>5. (sessions[s] # None /\ sessions[s].titled) \in BOOLEAN
    OBVIOUS
  <2>6. [totals |-> FileTotals(L.file, L.content, s), span |-> Span(L.content, s),
         titled |-> sessions[s] # None /\ sessions[s].titled] \in SessionRow
    <3> HIDE DEF L
    <3> QED
      BY <2>3, <2>4, <2>5, Zenon DEF SessionRow
  <2>7. sessions' \in [Sessions -> SessionRow \cup {None}]
    BY <1>1, <2>1, <2>2, <2>6 DEF DbOK
  <2> QED
    BY <1>1, <1>9, <2>7 DEF UpsertSession, DbOK
<1>10. CASE InsertTurn(p)
  <2>1. PICK t \in L.pend :
          turns' = IF Collides(t) THEN turns
                   ELSE [turns EXCEPT ![<<L.file, t>>] = @ + 1]
    BY <1>10 DEF InsertTurn
  <2>2. L.file \in Files /\ t \in TurnsOf(L.file)
    BY <1>2, <1>10 DEF InsertTurn, At, LocalOK, Filing
  <2>3. <<L.file, t>> \in Rows
    BY <2>2, RowsType
  <2>4. turns' \in [Rows -> Nat]
    BY <1>1, <2>1, <2>3 DEF DbOK
  <2> QED
    BY <1>1, <1>10, <2>4 DEF InsertTurn, DbOK
<1>11. CASE InsertInvocation(p)
  <2>1. L.file \in Files
    BY <1>2, <1>11 DEF InsertInvocation, At, LocalOK, Filing
  <2> QED
    BY <1>1, <1>11, <2>1 DEF InsertInvocation, DbOK
<1>12. CASE SyncTitle(p)
  <2>1. PICK s \in L.pend :
          sessions' = IF sessions[s] = None THEN sessions
                      ELSE [sessions EXCEPT ![s] =
                              [totals |-> @.totals, span |-> @.span,
                               titled |-> s \in Titled(L.content)]]
    BY <1>12 DEF SyncTitle
  <2>2. s \in Sessions /\ sessions[s] \in SessionRow \cup {None}
    BY <1>1, <1>2, <1>12 DEF SyncTitle, At, LocalOK, DbOK
  <2>3. ASSUME sessions[s] # None
        PROVE  [totals |-> sessions[s].totals, span |-> sessions[s].span,
                titled |-> s \in Titled(L.content)] \in SessionRow
    <3>1. sessions[s].totals \in [Rows -> Nat] /\ sessions[s].span \in SUBSET Nat
      BY <2>2, <2>3 DEF SessionRow
    <3>2. (s \in Titled(L.content)) \in BOOLEAN
      OBVIOUS
    <3> HIDE DEF L
    <3> QED
      BY <3>1, <3>2, Zenon DEF SessionRow
  <2>4. sessions' \in [Sessions -> SessionRow \cup {None}]
    BY <1>1, <2>1, <2>2, <2>3 DEF DbOK
  <2> QED
    BY <1>1, <1>12, <2>4 DEF SyncTitle, DbOK
<1>13. CASE InsertEvent(p)
  <2>1. L.file \in Files /\ L.pend \subseteq EventItem
    BY <1>2, <1>13 DEF InsertEvent, At, LocalOK, Filing
  <2>2. PICK e \in L.pend :
          toolEvents' = IF toolEvents[e.tool] # None THEN toolEvents
                        ELSE [toolEvents EXCEPT ![e.tool] =
                                [src |-> L.file, session |-> e.session, cost |-> e.cost]]
    BY <1>13 DEF InsertEvent
  <2>3. [src |-> L.file, session |-> e.session, cost |-> e.cost] \in EventRow
    BY <2>1, <2>2 DEF EventItem, EventRow
  <2>4. toolEvents' \in [ToolIds -> EventRow \cup {None}]
    BY <1>1, <2>1, <2>2, <2>3 DEF DbOK
  <2> QED
    BY <1>1, <1>13, <2>4 DEF InsertEvent, DbOK
<1>14. CASE MarkProcessed(p)
  <2>1. L.mtime \in Nat
    BY <1>2, <1>14 DEF MarkProcessed, At, LocalOK, Filing
  <2> QED
    BY <1>1, <1>14, <2>1 DEF MarkProcessed, DbOK
<1>15. CASE UNCHANGED db
  BY <1>1, <1>15 DEF db, DbOK
<1>16. \/ OpenDb(p) \/ RecomputeTotals(p) \/ PruneOnOpen(p) \/ DropEmptySessions(p)
       \/ DeleteTurns(p) \/ DeleteInvocations(p) \/ DeleteEvents(p) \/ DeleteProcessed(p)
       \/ UpsertSession(p) \/ InsertTurn(p) \/ InsertInvocation(p) \/ SyncTitle(p)
       \/ InsertEvent(p) \/ MarkProcessed(p) \/ UNCHANGED db
  BY DEF ScanStep, Discover, ListProcessed, SweepNext, SweepDone, SkipVanished, StatFile, SkipUnchanged, TakeNew, TakeUpdated, ParseFile, PhaseDone, FinishUnchanged
<1> QED
  BY <1>3, <1>4, <1>5, <1>6, <1>7, <1>8, <1>9, <1>10, <1>11, <1>12, <1>13, <1>14, <1>15, <1>16

\* Only the agents change the files.
LEMMA FilesNext ==
    ASSUME TypeOK, NEW f \in Files, WriteFile(f) \/ RemoveFile(f)
    PROVE  FilesOK'
<1>1. edits + 1 \in 0..MaxEdits /\ edits + 1 \in Nat
  BY BoundsAssumption DEF WriteFile, RemoveFile, TypeOK, FilesOK
<1>2. CASE WriteFile(f)
  <2>1. PICK c \in Contents[f] : fs' = [fs EXCEPT ![f] = [content |-> c, mtime |-> edits + 1]]
    BY <1>2 DEF WriteFile
  <2>2. c \in AllContents
    BY DEF AllContents
  <2> QED
    BY <1>1, <1>2, <2>1, <2>2 DEF WriteFile, TypeOK, FilesOK
<1>3. CASE RemoveFile(f)
  BY <1>1, <1>3 DEF RemoveFile, TypeOK, FilesOK
<1> QED
  BY <1>2, <1>3

\* A process leaves the files alone.
LEMMA ScanLeavesFiles ==
    ASSUME NEW p \in Procs, ScanStep(p) \/ Crash(p)
    PROVE  UNCHANGED <<fs, edits>>
BY DEF Crash, ScanStep, OpenDb, PruneOnOpen, Discover, ListProcessed, SweepNext, SweepDone, DeleteTurns, DeleteInvocations, DeleteEvents, DeleteProcessed, SkipVanished, StatFile, SkipUnchanged, TakeNew, TakeUpdated, ParseFile, UpsertSession, InsertTurn, InsertInvocation, SyncTitle, InsertEvent, PhaseDone, MarkProcessed, FinishUnchanged, RecomputeTotals, DropEmptySessions

LEMMA TypeNext == TypeOK /\ [Next]_vars => TypeOK'
<1> SUFFICES ASSUME TypeOK, [Next]_vars PROVE TypeOK'
  OBVIOUS
<1>1. ASSUME NEW f \in Files, WriteFile(f) \/ RemoveFile(f) PROVE TypeOK'
  <2>1. UNCHANGED <<db, scan, crashes>>
    BY <1>1 DEF WriteFile, RemoveFile
  <2> QED
    BY <1>1, <2>1, FilesNext DEF TypeOK, DbOK, ScansOK, db
<1>2. ASSUME NEW p \in Procs, ScanStep(p) PROVE TypeOK'
  <2>1. FilesOK'
    BY <1>2, ScanLeavesFiles DEF TypeOK, FilesOK
  <2> QED
    BY <1>2, <2>1, DbNext, LocalNext DEF TypeOK
<1>3. ASSUME NEW p \in Procs, Crash(p) PROVE TypeOK'
  <2>1. FilesOK'
    BY <1>3, ScanLeavesFiles DEF TypeOK, FilesOK
  <2>2. DbOK'
    BY <1>3 DEF Crash, db, TypeOK, DbOK
  <2> QED
    BY <1>3, <2>1, <2>2, LocalNext DEF TypeOK
<1>4. CASE UNCHANGED vars
  BY <1>4 DEF vars, db, TypeOK, FilesOK, DbOK, ScansOK
<1> QED
  BY <1>1, <1>2, <1>3, <1>4 DEF Next

\* Every variable always has its type: in particular a process that works on a
\* file always has one, and the batch it writes is of the kind of its stage.
THEOREM TypeCorrect == Spec => []TypeOK
BY TypeInit, TypeNext, PTL DEF Spec

-----------------------------------------------------------------------------
(* Session totals. *)

(***************************************************************************)
(* The totals of a session may be stale only while some process still owes *)
(* a recomputation: it has written turns or session rows and has not come  *)
(* to the end of its scan, or it stopped before it.                        *)
(***************************************************************************)
Writing == {"dead", "delInvocations", "delEvents", "forget", "upsert", "insert",
            "invoke", "title", "event"}
Looping == {"sweep", "delTurns", "next", "lookup", "parse", "mark"}

Owes(l) == \/ l.pc \in Writing
           \/ l.dirty /\ l.pc \in Looping

Exact == \A s \in Sessions : sessions[s] # None => sessions[s].totals = RowsOf(s)

TotalsInv == Exact \/ \E p \in Procs : Owes(scan[p])

LEMMA TotalsInit == Init => TotalsInv
BY DEF Init, TotalsInv, Exact

\* After RecomputedTotals every row is exact, and pruning keeps exact rows exact.
LEMMA RecomputeIsExact ==
    ASSUME TypeOK, sessions' = RecomputedTotals, UNCHANGED turns
    PROVE  Exact'
<1> SUFFICES ASSUME NEW s \in Sessions, sessions'[s] # None
             PROVE  sessions'[s].totals = RowsOf(s)'
  BY DEF Exact
<1>1. RowsOf(s)' = RowsOf(s)
  BY DEF RowsOf
<1>2. sessions[s] \in SessionRow /\ sessions'[s] = [sessions[s] EXCEPT !.totals = RowsOf(s)]
  BY DEF RecomputedTotals, TypeOK, DbOK
<1> QED
  BY <1>1, <1>2 DEF SessionRow

LEMMA PruneKeepsExact ==
    ASSUME Exact, sessions' = PrunedSessions, UNCHANGED turns
    PROVE  Exact'
BY DEF Exact, PrunedSessions, RowsOf

\* A step that changes neither turns nor sessions, after which the process that
\* took it owes at least what it owed.
LEMMA SilentStep ==
    ASSUME TypeOK, TotalsInv, NEW p \in Procs, NEW l, scan' = [scan EXCEPT ![p] = l],
           Owes(scan[p]) => Owes(l), Exact => Exact'
    PROVE  TotalsInv'
<1>1. scan \in [Procs -> Local]
  BY DEF TypeOK, ScansOK
<1>2. CASE Exact
  BY <1>2 DEF TotalsInv
<1>3. ASSUME NEW q \in Procs, Owes(scan[q]) PROVE Owes(scan'[q])
  BY <1>1, <1>3
<1> QED
  BY <1>2, <1>3 DEF TotalsInv

\* A step after which the process that took it owes a recomputation.
LEMMA OwingStep ==
    ASSUME TypeOK, NEW p \in Procs, scan'[p].pc \in Writing
    PROVE  TotalsInv'
BY DEF TotalsInv, Owes

LEMMA TotalsNext == TypeOK /\ TotalsInv /\ [Next]_vars => TotalsInv'
<1> SUFFICES ASSUME TypeOK, TotalsInv, [Next]_vars PROVE TotalsInv'
  OBVIOUS
<1>1. /\ scan \in [Procs -> Local]
      /\ \A q \in Procs : scan[q] \in Local /\ LocalOK(scan[q])
  BY DEF TypeOK, ScansOK
<1>2. UNCHANGED <<turns, sessions>> => (Exact => Exact')
  BY DEF Exact, RowsOf
<1>3. ASSUME NEW f \in Files, WriteFile(f) \/ RemoveFile(f) PROVE TotalsInv'
  BY <1>2, <1>3 DEF WriteFile, RemoveFile, db, TotalsInv
<1>4. CASE UNCHANGED vars
  BY <1>2, <1>4 DEF vars, db, TotalsInv
<1>5. ASSUME NEW p \in Procs, Crash(p) PROVE TotalsInv'
  <2>1. scan'[p].pc = "dead"
    BY <1>1, <1>5 DEF Crash, Idle
  <2> QED
    BY <2>1, OwingStep DEF Writing
<1>6. ASSUME NEW p \in Procs, ScanStep(p) PROVE TotalsInv'
  <2> DEFINE L == scan[p]
  <2>1. L \in Local
    BY <1>1
  <2>2. CASE OpenDb(p) \/ RecomputeTotals(p)
    BY <2>2, RecomputeIsExact DEF OpenDb, RecomputeTotals, TotalsInv
  <2>3. CASE PruneOnOpen(p)
    <3>1. scan' = [scan EXCEPT ![p] = [L EXCEPT !.pc = IF p \in Scanners THEN "discover"
                                                       ELSE "idle"]]
      BY <1>1, <2>3 DEF PruneOnOpen, Goto
    <3>2. ~Owes(L)
      BY <2>3 DEF PruneOnOpen, At, Owes, Writing, Looping
    <3>3. Exact => Exact'
      BY <2>3, PruneKeepsExact DEF PruneOnOpen
    <3> QED
      BY <3>1, <3>2, <3>3, SilentStep
  <2>4. CASE DropEmptySessions(p)
    <3>1. scan' = [scan EXCEPT ![p] = Idle]
      BY <2>4 DEF DropEmptySessions
    <3>2. ~Owes(L)
      BY <2>4 DEF DropEmptySessions, At, Owes, Writing, Looping
    <3>3. Exact => Exact'
      BY <2>4, PruneKeepsExact DEF DropEmptySessions
    <3> QED
      BY <3>1, <3>2, <3>3, SilentStep
  <2>5. CASE DeleteTurns(p)
    <3>1. scan'[p].pc \in Writing
      BY <1>1, <2>5 DEF DeleteTurns, Goto, Writing, Local
    <3> QED
      BY <3>1, OwingStep
  <2>6. CASE DeleteInvocations(p)
    <3>1. scan'[p].pc \in Writing
      BY <1>1, <2>6 DEF DeleteInvocations, Goto, Writing, Local
    <3> QED
      BY <3>1, OwingStep
  <2>7. CASE UpsertSession(p) \/ InsertTurn(p) \/ InsertInvocation(p) \/ SyncTitle(p) \/ InsertEvent(p)
    <3>1. \E x \in L.pend : scan' = [scan EXCEPT ![p].pend = @ \ {x}]
      BY <2>7 DEF UpsertSession, InsertTurn, InsertInvocation, SyncTitle, InsertEvent, Consume
    <3>2. L.pc \in Writing
      BY <2>7 DEF UpsertSession, InsertTurn, InsertInvocation, SyncTitle, InsertEvent, At, Writing
    <3>3. scan'[p].pc = L.pc
      BY <1>1, <3>1 DEF Local
    <3> QED
      BY <3>2, <3>3, OwingStep
  <2>8. CASE DeleteEvents(p)
    <3>1. Owes(scan'[p])
      <4>1. CASE L.stale # {}
        BY <1>1, <2>8, <4>1 DEF DeleteEvents, Goto, Owes, Writing, Local
      <4>2. CASE L.stale = {}
        BY <1>1, <2>8, <4>2 DEF DeleteEvents, Owes, Looping, Local
      <4> QED
        BY <4>1, <4>2
    <3> QED
      BY <3>1 DEF TotalsInv
  <2>9. CASE DeleteProcessed(p)
    <3>1. Owes(scan'[p])
      BY <1>1, <2>9 DEF DeleteProcessed, Owes, Looping, Local
    <3> QED
      BY <3>1 DEF TotalsInv
  <2>10. CASE PhaseDone(p)
    <3>1. Owes(scan'[p])
      BY <1>1, <2>10 DEF PhaseDone, At, Owes, Writing, Looping, Local
    <3> QED
      BY <3>1 DEF TotalsInv
  <2>11. CASE SkipUnchanged(p) \/ MarkProcessed(p)
    <3>1. scan' = [scan EXCEPT ![p] = NextOf(L)]
      BY <2>11 DEF SkipUnchanged, MarkProcessed
    <3>2. Owes(L) => Owes(NextOf(L))
      BY <2>11 DEF SkipUnchanged, MarkProcessed, At, Owes, Writing, Looping, NextOf
    <3>3. Exact => Exact'
      BY <1>2, <2>11 DEF SkipUnchanged, MarkProcessed, db
    <3> QED
      BY <3>1, <3>2, <3>3, SilentStep
  <2>12. CASE FinishUnchanged(p)
    <3>1. scan' = [scan EXCEPT ![p] = Idle]
      BY <2>12 DEF FinishUnchanged
    <3>2. ~Owes(L)
      BY <2>12 DEF FinishUnchanged, At, Owes, Writing
    <3>3. Exact => Exact'
      BY <1>2, <2>12 DEF FinishUnchanged, db
    <3> QED
      BY <3>1, <3>2, <3>3, SilentStep
  <2>13. CASE \/ Discover(p) \/ ListProcessed(p) \/ SweepNext(p) \/ SweepDone(p)
              \/ SkipVanished(p) \/ StatFile(p) \/ TakeNew(p) \/ TakeUpdated(p) \/ ParseFile(p)
    <3>1. Exact => Exact'
      BY <1>2, <2>13 DEF Discover, ListProcessed, SweepNext, SweepDone, SkipVanished, StatFile,
                         TakeNew, TakeUpdated, ParseFile, db
    <3>2. ASSUME NEW q \in Procs, q # p PROVE scan'[q] = scan[q]
      BY <1>1, <2>13, <3>2 DEF Discover, ListProcessed, SweepNext, SweepDone, SkipVanished,
                         StatFile, TakeNew, TakeUpdated, ParseFile, Goto
    <3>3. /\ scan'[p].dirty = L.dirty
          /\ L.pc \notin Writing
          /\ L.pc \in Looping => scan'[p].pc \in Looping \cup Writing
      <4>1. CASE Discover(p)
        BY <1>1, <4>1 DEF Discover, Goto, At, Local, Looping, Writing
      <4>2. CASE ListProcessed(p)
        BY <1>1, <4>2 DEF ListProcessed, Goto, At, Local, Looping, Writing
      <4>3. CASE SweepNext(p)
        BY <1>1, <4>3 DEF SweepNext, Goto, At, Local, Looping, Writing
      <4>4. CASE SweepDone(p)
        BY <1>1, <4>4 DEF SweepDone, Goto, At, Local, Looping, Writing
      <4>5. CASE SkipVanished(p)
        BY <1>1, <4>5 DEF SkipVanished, Goto, At, Local, Looping, Writing
      <4>6. CASE StatFile(p)
        BY <1>1, <4>6 DEF StatFile, Goto, At, Local, Looping, Writing
      <4>7. CASE TakeNew(p)
        BY <1>1, <4>7 DEF TakeNew, Goto, At, Local, Looping, Writing
      <4>8. CASE TakeUpdated(p)
        BY <1>1, <4>8 DEF TakeUpdated, Goto, At, Local, Looping, Writing
      <4>9. CASE ParseFile(p)
        BY <1>1, <4>9 DEF ParseFile, Goto, At, Local, Looping, Writing
      <4> QED
        BY <2>13, <4>1, <4>2, <4>3, <4>4, <4>5, <4>6, <4>7, <4>8, <4>9
    <3>4. \A q \in Procs : Owes(scan[q]) => Owes(scan'[q])
      BY <3>2, <3>3 DEF Owes
    <3> QED
      BY <3>1, <3>4 DEF TotalsInv
  <2> QED
    BY <1>6, <2>2, <2>3, <2>4, <2>5, <2>6, <2>7, <2>8, <2>9, <2>10, <2>11, <2>12, <2>13
       DEF ScanStep
<1> QED
  BY <1>3, <1>4, <1>5, <1>6 DEF Next

\* With any number of scanners and openers, interrupted or not: whenever no
\* process is inside a scan, the totals of every session are those of its turns.
THEOREM TotalsAlwaysExact == Spec => []TotalsExact
<1>1. TypeOK /\ TotalsInv => TotalsExact
  BY DEF TotalsInv, TotalsExact, Exact, Quiet, At, Owes, Writing, Looping
<1> QED
  BY <1>1, TypeInit, TypeNext, TotalsInit, TotalsNext, PTL DEF Spec

-----------------------------------------------------------------------------
(* The inductive invariant: what the rows of each file are, file by file,  *)
(* and of the file a scan is at, stage by stage.                           *)

Emptied == {"delInvocations", "delEvents", "forget", "parse", "upsert"}
Stored  == {"invoke", "title", "event", "mark"}
Working == Emptied \cup {"insert"} \cup Stored

RowsAre(f, S) == \A t \in TurnsOf(f) : turns[<<f, t>>] = IF t \in S THEN 1 ELSE 0

WorkedOn(f) == \E p \in Procs : scan[p].pc \in Working /\ scan[p].file = f

\* The rows of a file that no scan is at: none without a mark, and those of the
\* file if the mark is its mtime.
Settled(f) ==
    /\ processed[f] = None => RowsAre(f, {})
    /\ (fs[f] # None /\ processed[f] = fs[f].mtime) => RowsAre(f, ParsedTurns(fs[f].content))

\* The rows of the file a scan is at.
RowsInHand(l) ==
    /\ l.pc \in Emptied => RowsAre(l.file, {})
    /\ l.pc = "insert" => /\ l.pend \subseteq ParsedTurns(l.content)
                          /\ RowsAre(l.file, ParsedTurns(l.content) \ l.pend)
    /\ l.pc \in Stored => RowsAre(l.file, ParsedTurns(l.content))

\* Its content is the one the file had at the mtime to mark it with, unless the
\* file was changed since.
ContentInHand(l) ==
    /\ l.pc \in Filing \/ (l.pc \in Deleting /\ l.stale = {}) => l.mtime =< edits
    /\ l.pc \in {"upsert", "insert"} \cup Stored =>
          /\ l.content \in OwnFiles[l.file] \cup {<<>>}
          /\ (fs[l.file] # None /\ fs[l.file].mtime = l.mtime) => fs[l.file].content = l.content

\* Mtimes and marks are of the past.
PastTimes ==
    /\ \A f \in Files : fs[f] # None => fs[f].mtime =< edits /\ fs[f].content \in OwnFiles[f]
    /\ \A f \in Files : processed[f] # None => processed[f] =< edits

\* Rows are turns of contents the file may have.
OwnTurn(f, t) == \E c \in OwnFiles[f] : t \in ParsedTurns(c)
RowsOwn == \A f \in Files : \A t \in TurnsOf(f) : turns[<<f, t>>] > 0 => OwnTurn(f, t)

OpenersOpen == \A p \in Procs \ Scanners : scan[p].pc \in {"idle", "opened"}

OwnInv == /\ crashes = 0
          /\ PastTimes
          /\ RowsOwn
          /\ OpenersOpen
          /\ \A p \in Procs : RowsInHand(scan[p]) /\ ContentInHand(scan[p])
          /\ \A f \in Files : WorkedOn(f) \/ Settled(f)

-----------------------------------------------------------------------------
(* Facts about contents. *)

\* A message id is kept once.
LEMMA KeptOnce ==
    ASSUME NEW c, NEW t \in ParsedTurns(c), NEW u \in ParsedTurns(c),
           \A i, j \in DOMAIN c : i < j \/ i = j \/ j < i,
           t.msg = u.msg, t.msg # NoId
    PROVE  t = u
<1>1. PICK i \in Kept(c) : t = c[i]
  BY DEF ParsedTurns
<1>2. PICK j \in Kept(c) : u = c[j]
  BY DEF ParsedTurns
<1>3. i \in DOMAIN c /\ j \in DOMAIN c /\ c[i].kind = "assistant" /\ c[j].kind = "assistant"
  BY DEF Kept
<1>4. ~(j > i) /\ ~(i > j)
  BY <1>1, <1>2, <1>3 DEF Kept
<1> QED
  BY <1>1, <1>2, <1>3, <1>4

LEMMA OwnContents == \A f \in Files : OwnFiles[f] \subseteq Contents[f]
BY PartsAssumption

LEMMA OrderedDomain ==
    ASSUME NEW f \in Files, NEW c \in Contents[f]
    PROVE  \A i, j \in DOMAIN c : i < j \/ i = j \/ j < i
<1>1. c \in Seq(Line)
  BY ContentsAssumption
<1>2. DOMAIN c \subseteq Int
  BY <1>1
<1> QED
  BY <1>2

\* A content without user and assistant lines has no turns.
LEMMA NoMetasNoTurns ==
    ASSUME NEW f \in Files, NEW c \in Contents[f] \cup {<<>>}, Metas(c) = {}
    PROVE  ParsedTurns(c) = {}
<1> SUFFICES ASSUME NEW i \in Kept(c) PROVE FALSE
  BY DEF ParsedTurns
<1>1. i \in DOMAIN c /\ c[i].kind = "assistant"
  BY DEF Kept
<1>2. c \in Seq(Line)
  <2>1. c # <<>>
    BY <1>1
  <2> QED
    BY <2>1, ContentsAssumption
<1>3. c[i] \in Line
  BY <1>1, <1>2
<1>4. c[i].session \in Sessions /\ c[i].kind # "title"
  BY <1>1, <1>3 DEF Line
<1>5. i \in MetaLines(c, c[i].session)
  BY <1>1, <1>4 DEF MetaLines
<1> QED
  BY <1>4, <1>5 DEF Metas

\* Turns of two own files do not share a message.
LEMMA OwnApart ==
    ASSUME NEW f \in Files, NEW g \in Files, f # g, NEW t, NEW u,
           OwnTurn(f, t), OwnTurn(g, u), t.msg = u.msg
    PROVE  t.msg = NoId
<1>1. PICK c \in OwnFiles[f] : \E i \in DOMAIN c : t = c[i]
  BY DEF OwnTurn, ParsedTurns, Kept
<1>2. PICK d \in OwnFiles[g] : \E j \in DOMAIN d : u = d[j]
  BY DEF OwnTurn, ParsedTurns, Kept
<1> QED
  BY <1>1, <1>2, OwnMessagesAssumption

-----------------------------------------------------------------------------
(* Two shapes of a step. *)

\* A step of one process that leaves the rows and the marks alone.
LEMMA SameRowsStep ==
    ASSUME TypeOK, OwnInv, NEW p \in Procs, UNCHANGED <<fs, edits, crashes, turns, processed>>,
           \A q \in Procs : q # p => scan'[q] = scan[q],
           RowsInHand(scan[p])', ContentInHand(scan[p])',
           scan[p].pc \in Working => scan'[p].pc \in Working /\ scan'[p].file = scan[p].file,
           p \notin Scanners => scan'[p].pc \in {"idle", "opened"}
    PROVE  OwnInv'
<1>1. \A f \in Files : WorkedOn(f) => WorkedOn(f)'
  BY DEF WorkedOn
<1>2. \A f \in Files : Settled(f) => Settled(f)'
  BY DEF Settled, RowsAre
<1>3. \A q \in Procs : q # p => RowsInHand(scan[q])' /\ ContentInHand(scan[q])'
  BY DEF OwnInv, RowsInHand, ContentInHand, RowsAre
<1>4. PastTimes' /\ RowsOwn'
  BY DEF OwnInv, PastTimes, RowsOwn
<1>5. OpenersOpen'
  BY DEF OwnInv, OpenersOpen
<1> QED
  BY <1>1, <1>2, <1>3, <1>4, <1>5 DEF OwnInv

\* A step of the scanner that writes rows or the mark of the file it is at.
LEMMA FileStep ==
    ASSUME TypeOK, OwnInv, \A q, r \in Scanners : q = r,
           NEW p \in Scanners, NEW f \in Files, UNCHANGED <<fs, edits, crashes>>,
           \A q \in Procs : q # p => scan'[q] = scan[q],
           \A g \in Files : g # f =>
               /\ processed'[g] = processed[g]
               /\ \A t \in TurnsOf(g) : turns'[<<g, t>>] = turns[<<g, t>>],
           scan[p].pc \in Working => scan[p].file = f,
           RowsInHand(scan[p])', ContentInHand(scan[p])',
           processed'[f] # None => processed'[f] =< edits,
           \A t \in TurnsOf(f) : turns'[<<f, t>>] > 0 => OwnTurn(f, t),
           Settled(f)' \/ (scan'[p].pc \in Working /\ scan'[p].file = f)
    PROVE  OwnInv'
<1>0. p \in Procs
  BY DEF Procs
<1>1. \A q \in Procs : q # p => q \in Procs \ Scanners
  OBVIOUS
<1>2. \A q \in Procs : q # p => /\ RowsInHand(scan[q])' /\ ContentInHand(scan[q])'
                                /\ scan[q].pc \notin Working
                                /\ scan'[q].pc \in {"idle", "opened"}
  BY <1>1 DEF OwnInv, OpenersOpen, RowsInHand, ContentInHand, Filing, Deleting, Working, Emptied, Stored
<1>3. ASSUME NEW g \in Files, g # f PROVE Settled(g)'
  <2>1. ~WorkedOn(g)
    BY <1>0, <1>2, <1>3 DEF WorkedOn
  <2>2. Settled(g)
    BY <2>1 DEF OwnInv
  <2> QED
    BY <1>3, <2>2 DEF Settled, RowsAre
<1>4. WorkedOn(f)' \/ Settled(f)'
  BY <1>0 DEF WorkedOn
<1>5. PastTimes'
  BY DEF OwnInv, PastTimes
<1>6. RowsOwn'
  BY DEF OwnInv, RowsOwn, OwnTurn
<1>7. OpenersOpen'
  BY <1>2 DEF OpenersOpen
<1> QED
  BY <1>2, <1>3, <1>4, <1>5, <1>6, <1>7 DEF OwnInv

-----------------------------------------------------------------------------
(* Every step of a process. *)

\* Outside the file loop, and up to the first write of the loop.
LEMMA IdleStep ==
    ASSUME TypeOK, OwnInv, NEW p \in Procs,
           \/ OpenDb(p) \/ PruneOnOpen(p) \/ Discover(p) \/ ListProcessed(p)
           \/ SweepNext(p) \/ SweepDone(p) \/ SkipVanished(p) \/ StatFile(p)
           \/ SkipUnchanged(p) \/ TakeUpdated(p)
           \/ FinishUnchanged(p) \/ RecomputeTotals(p) \/ DropEmptySessions(p)
    PROVE  OwnInv'
<1> USE DEF Filing, Deleting, Working, Emptied, Stored
<1>1. /\ scan \in [Procs -> Local] /\ scan[p] \in Local
      /\ RowsInHand(scan[p]) /\ ContentInHand(scan[p]) /\ LocalOK(scan[p])
  BY DEF TypeOK, ScansOK, OwnInv
<1>2. p \notin Scanners => scan[p].pc \in {"idle", "opened"}
  BY DEF OwnInv, OpenersOpen
<1>3. UNCHANGED <<fs, edits, crashes, turns, processed>>
  BY DEF OpenDb, PruneOnOpen, Discover, ListProcessed, SweepNext, SweepDone, SkipVanished,
     StatFile, SkipUnchanged, TakeUpdated, FinishUnchanged, RecomputeTotals,
     DropEmptySessions, db
<1>4. \A q \in Procs : q # p => scan'[q] = scan[q]
  BY <1>1 DEF OpenDb, PruneOnOpen, Discover, ListProcessed, SweepNext, SweepDone, SkipVanished,
     StatFile, SkipUnchanged, TakeUpdated, FinishUnchanged, RecomputeTotals,
     DropEmptySessions, Goto
<1>5. /\ scan[p].pc \notin Working /\ scan'[p].pc \notin Working
      /\ p \notin Scanners => scan'[p].pc \in {"idle", "opened"}
      /\ \/ scan'[p].pc \notin Filing \cup Deleting
         \/ scan'[p].pc = "delTurns" /\ scan'[p].stale # {}
         \/ scan'[p].pc \in {"lookup", "delTurns"} /\ scan'[p].mtime =< edits
  <2>1. CASE OpenDb(p)
    BY <1>1, <2>1 DEF OpenDb, At, Idle
  <2>2. CASE PruneOnOpen(p)
    BY <1>1, <2>2 DEF PruneOnOpen, At, Goto, Local
  <2>3. CASE Discover(p) \/ ListProcessed(p)
    BY <1>1, <1>2, <2>3 DEF Discover, ListProcessed, At, Local
  <2>4. CASE SweepNext(p)
    <3>1. PICK f \in scan[p].stale :
              scan' = [scan EXCEPT ![p] = [scan[p] EXCEPT !.pc = "delTurns", !.file = f]]
      BY <2>4 DEF SweepNext
    <3>2. scan'[p].pc = "delTurns" /\ scan'[p].stale = scan[p].stale
      BY <1>1, <3>1 DEF Local
    <3> QED
      BY <1>2, <2>4, <3>1, <3>2 DEF SweepNext, At
  <2>5. CASE SweepDone(p) \/ RecomputeTotals(p)
    BY <1>1, <1>2, <2>5 DEF SweepDone, RecomputeTotals, At, Goto, Local
  <2>6. CASE SkipVanished(p)
    BY <1>1, <1>2, <2>6 DEF SkipVanished, At, Local
  <2>7. CASE StatFile(p)
    <3>1. PICK f \in scan[p].todo :
              fs[f] # None /\ scan' = [scan EXCEPT ![p] = [scan[p] EXCEPT
                  !.pc = "lookup", !.todo = @ \ {f}, !.file = f, !.mtime = fs[f].mtime]]
      BY <2>7 DEF StatFile
    <3>2. f \in Files /\ fs[f].mtime =< edits
      BY <1>1, <3>1 DEF Local, OwnInv, PastTimes
    <3>3. scan'[p].pc = "lookup" /\ scan'[p].mtime = fs[f].mtime
      BY <1>1, <3>1 DEF Local
    <3> QED
      BY <1>2, <2>7, <3>2, <3>3 DEF StatFile, At
  <2>8. CASE SkipUnchanged(p)
    BY <1>1, <1>2, <2>8 DEF SkipUnchanged, At, NextOf
  <2>9. CASE TakeUpdated(p)
    <3>1. scan'[p].pc = "delTurns" /\ scan'[p].mtime = scan[p].mtime /\ scan[p].pc = "lookup"
      BY <1>1, <2>9 DEF TakeUpdated, At, Goto, Local
    <3> QED
      BY <1>1, <1>2, <3>1 DEF ContentInHand
  <2>10. CASE FinishUnchanged(p) \/ DropEmptySessions(p)
    BY <1>1, <1>2, <2>10 DEF FinishUnchanged, DropEmptySessions, At, Idle
  <2> QED
    BY <2>1, <2>2, <2>3, <2>4, <2>5, <2>6, <2>7, <2>8, <2>9, <2>10
<1>6. RowsInHand(scan[p])'
  BY <1>5 DEF RowsInHand
<1>7. ContentInHand(scan[p])'
  BY <1>3, <1>5 DEF ContentInHand
<1> QED
  BY <1>3, <1>4, <1>5, <1>6, <1>7, SameRowsStep

\* Inside the file loop, without a change of rows or marks.
LEMMA LoopStep ==
    ASSUME TypeOK, OwnInv, \A q, r \in Scanners : q = r, NEW p \in Procs,
           \/ DeleteInvocations(p) \/ DeleteEvents(p) \/ TakeNew(p) \/ ParseFile(p)
           \/ UpsertSession(p) \/ InsertInvocation(p) \/ SyncTitle(p) \/ InsertEvent(p)
           \/ PhaseDone(p)
    PROVE  OwnInv'
<1> USE DEF Filing, Deleting, Working, Emptied, Stored
<1>1. /\ scan \in [Procs -> Local] /\ scan[p] \in Local
      /\ RowsInHand(scan[p]) /\ ContentInHand(scan[p]) /\ LocalOK(scan[p])
  BY DEF TypeOK, ScansOK, OwnInv
<1>2. UNCHANGED <<fs, edits, crashes, turns, processed>>
  BY DEF DeleteInvocations, DeleteEvents, TakeNew, ParseFile, UpsertSession, InsertInvocation,
     SyncTitle, InsertEvent, PhaseDone, db
<1>3. \A q \in Procs : q # p => scan'[q] = scan[q]
  BY <1>1 DEF DeleteInvocations, DeleteEvents, TakeNew, ParseFile, UpsertSession, InsertInvocation,
     SyncTitle, InsertEvent, PhaseDone, Goto, Consume
<1>4. p \in Scanners
  BY DEF OwnInv, OpenersOpen, At, DeleteInvocations, DeleteEvents, TakeNew, ParseFile,
     UpsertSession, InsertInvocation, SyncTitle, InsertEvent, PhaseDone
<1>5. \A f : \A S : RowsAre(f, S) => RowsAre(f, S)'
  BY <1>2 DEF RowsAre
<1>6. SUFFICES /\ RowsInHand(scan[p])' /\ ContentInHand(scan[p])'
               /\ scan[p].pc \in Working =>
                      scan'[p].pc \in Working /\ scan'[p].file = scan[p].file
  BY <1>2, <1>3, <1>4, SameRowsStep
<1>7. CASE DeleteInvocations(p)
  <2>1. /\ scan[p].pc = "delInvocations" /\ scan'[p] = [scan[p] EXCEPT !.pc = "delEvents"]
    BY <1>1, <1>7 DEF DeleteInvocations, At, Goto
  <2> QED
    BY <1>1, <1>2, <2>1 DEF RowsInHand, ContentInHand, RowsAre, Local
<1>8. CASE DeleteEvents(p)
  <2>1. /\ scan[p].pc = "delEvents"
        /\ \/ scan[p].stale # {} /\ scan'[p] = [scan[p] EXCEPT !.pc = "forget"]
           \/ scan[p].stale = {} /\ scan'[p] = [scan[p] EXCEPT !.pc = "parse", !.dirty = TRUE]
    BY <1>1, <1>8 DEF DeleteEvents, At, Goto
  <2> QED
    BY <1>1, <1>2, <2>1 DEF RowsInHand, ContentInHand, RowsAre, Local
<1>9. CASE TakeNew(p)
  <2>1. /\ scan[p].pc = "lookup" /\ scan'[p] = [scan[p] EXCEPT !.pc = "parse"]
        /\ processed[scan[p].file] = None /\ scan[p].file \in Files
    BY <1>1, <1>9 DEF TakeNew, At, Goto, LocalOK
  <2>2. \A q \in Procs : scan[q].pc \in Working => q = p
    BY <1>4 DEF OwnInv, OpenersOpen
  <2>3. ~WorkedOn(scan[p].file)
    BY <2>1, <2>2 DEF WorkedOn
  <2>4. RowsAre(scan[p].file, {})
    BY <2>1, <2>3 DEF OwnInv, Settled
  <2> QED
    BY <1>1, <1>2, <2>1, <2>4 DEF RowsInHand, ContentInHand, RowsAre, Local
<1>10. CASE ParseFile(p)
  <2> DEFINE f == scan[p].file
             c == IF fs[f] = None THEN <<>> ELSE fs[f].content
  <2>1. /\ scan[p].pc = "parse" /\ f \in Files /\ RowsAre(f, {}) /\ scan[p].mtime =< edits
        /\ scan'[p] = [scan[p] EXCEPT !.pc = IF Metas(c) = {} THEN "mark" ELSE "upsert",
                                      !.content = c, !.pend = Metas(c)]
    BY <1>1, <1>10 DEF ParseFile, At, LocalOK, RowsInHand, ContentInHand
  <2>2. c \in OwnFiles[f] \cup {<<>>} /\ (fs[f] # None => c = fs[f].content)
    BY <2>1 DEF OwnInv, PastTimes
  <2>3. Metas(c) = {} => ParsedTurns(c) = {}
    BY <2>1, <2>2, OwnContents, NoMetasNoTurns
  <2> HIDE DEF c
  <2>4. /\ scan'[p].pc = IF Metas(c) = {} THEN "mark" ELSE "upsert"
        /\ scan'[p].content = c /\ scan'[p].file = f /\ scan'[p].mtime = scan[p].mtime
    BY <1>1, <2>1 DEF Local
  <2>5. RowsInHand(scan[p])'
    BY <1>5, <2>1, <2>3, <2>4 DEF RowsInHand
  <2>6. ContentInHand(scan[p])'
    BY <1>2, <2>1, <2>2, <2>4 DEF ContentInHand
  <2> QED
    BY <2>1, <2>4, <2>5, <2>6
<1>11. CASE UpsertSession(p) \/ InsertInvocation(p) \/ SyncTitle(p) \/ InsertEvent(p)
  <2>1. PICK x : scan' = [scan EXCEPT ![p] = [scan[p] EXCEPT !.pend = @ \ {x}]]
    BY <1>11 DEF UpsertSession, InsertInvocation, SyncTitle, InsertEvent, Consume
  <2>2. /\ scan'[p].pc = scan[p].pc /\ scan'[p].file = scan[p].file
        /\ scan'[p].content = scan[p].content /\ scan'[p].mtime = scan[p].mtime
        /\ scan'[p].stale = scan[p].stale /\ scan[p].pc # "insert"
    BY <1>1, <1>11, <2>1 DEF UpsertSession, InsertInvocation, SyncTitle, InsertEvent, At, Local
  <2>3. RowsInHand(scan[p])'
    BY <1>1, <1>5, <2>2 DEF RowsInHand
  <2>4. ContentInHand(scan[p])'
    BY <1>1, <1>2, <2>2 DEF ContentInHand
  <2> QED
    BY <2>2, <2>3, <2>4
<1>12. CASE PhaseDone(p)
  <2>1. /\ scan[p].pend = {}
        /\ scan'[p].file = scan[p].file /\ scan'[p].content = scan[p].content
        /\ scan'[p].mtime = scan[p].mtime
        /\ \/ /\ scan[p].pc = "upsert" /\ scan'[p].pc = "insert"
              /\ scan'[p].pend = ParsedTurns(scan[p].content)
           \/ /\ scan[p].pc \in {"insert", "invoke", "title", "event"}
              /\ scan'[p].pc \in Stored
    BY <1>1, <1>12 DEF PhaseDone, At, Local
  <2>2. RowsInHand(scan[p])'
    <3>1. CASE scan[p].pc = "upsert"
      <4>1. ParsedTurns(scan[p].content) \ ParsedTurns(scan[p].content) = {}
        OBVIOUS
      <4> QED
        BY <1>1, <1>5, <2>1, <3>1, <4>1 DEF RowsInHand
    <3>2. CASE scan[p].pc = "insert"
      <4>1. ParsedTurns(scan[p].content) \ {} = ParsedTurns(scan[p].content)
        OBVIOUS
      <4> QED
        BY <1>1, <1>5, <2>1, <3>2, <4>1 DEF RowsInHand
    <3>3. CASE scan[p].pc \in {"invoke", "title", "event"}
      BY <1>1, <1>5, <2>1, <3>3 DEF RowsInHand
    <3> QED
      BY <2>1, <3>1, <3>2, <3>3
  <2>3. ContentInHand(scan[p])'
    BY <1>1, <1>2, <2>1 DEF ContentInHand
  <2> QED
    BY <2>1, <2>2, <2>3
<1> QED
  BY <1>7, <1>8, <1>9, <1>10, <1>11, <1>12
\* The writes of rows and marks.
LEMMA WriteStep ==
    ASSUME TypeOK, OwnInv, \A q, r \in Scanners : q = r, NEW p \in Procs,
           DeleteTurns(p) \/ InsertTurn(p) \/ DeleteProcessed(p) \/ MarkProcessed(p)
    PROVE  OwnInv'
<1> USE DEF Filing, Deleting, Working, Emptied, Stored
<1>1. /\ scan \in [Procs -> Local] /\ scan[p] \in Local /\ turns \in [Rows -> Nat]
      /\ RowsInHand(scan[p]) /\ ContentInHand(scan[p]) /\ LocalOK(scan[p])
  BY DEF TypeOK, ScansOK, DbOK, OwnInv
<1>2. UNCHANGED <<fs, edits, crashes>>
  BY DEF DeleteTurns, InsertTurn, DeleteProcessed, MarkProcessed
<1>3. \A q \in Procs : q # p => scan'[q] = scan[q]
  BY <1>1 DEF DeleteTurns, InsertTurn, DeleteProcessed, MarkProcessed, Goto, Consume
<1>4. p \in Scanners
  BY DEF OwnInv, OpenersOpen, At, DeleteTurns, InsertTurn, DeleteProcessed, MarkProcessed
<1>5. PICK f \in Files : f = scan[p].file
  BY <1>1 DEF LocalOK, At, DeleteTurns, InsertTurn, DeleteProcessed, MarkProcessed
<1>6. \A g \in Files : \A t \in TurnsOf(g) : <<g, t>> \in Rows
  BY RowsType
<1>7. processed \in [Files -> Nat \cup {None}] /\ (processed[f] # None => processed[f] =< edits)
  BY <1>5 DEF TypeOK, DbOK, OwnInv, PastTimes
<1>8. CASE DeleteTurns(p)
  <2>1. /\ scan[p].pc = "delTurns" /\ scan'[p] = [scan[p] EXCEPT !.pc = "delInvocations"]
        /\ processed' = processed
        /\ turns' = [k \in Rows |-> IF k[1] = f THEN 0 ELSE turns[k]]
    BY <1>5, <1>1, <1>8 DEF DeleteTurns, At, Goto
  <2>2. /\ \A t \in TurnsOf(f) : turns'[<<f, t>>] = 0
        /\ \A g \in Files : g # f => \A t \in TurnsOf(g) : turns'[<<g, t>>] = turns[<<g, t>>]
    BY <1>5, <1>6, <2>1
  <2>3. /\ scan'[p].pc = "delInvocations" /\ scan'[p].file = f
        /\ scan'[p].mtime = scan[p].mtime /\ scan'[p].stale = scan[p].stale
    BY <1>5, <1>1, <2>1 DEF Local
  <2>4. RowsInHand(scan[p])'
    BY <2>2, <2>3 DEF RowsInHand, RowsAre
  <2>5. ContentInHand(scan[p])'
    BY <1>1, <1>2, <2>1, <2>3 DEF ContentInHand
  <2>6. scan'[p].pc \in Working
    BY <2>3
  <2>7. \A t \in TurnsOf(f) : turns'[<<f, t>>] > 0 => OwnTurn(f, t)
    BY <2>2
  <2>8. \A g \in Files : g # f =>
            /\ processed'[g] = processed[g]
            /\ \A t \in TurnsOf(g) : turns'[<<g, t>>] = turns[<<g, t>>]
    BY <2>1, <2>2
  <2>9. processed'[f] # None => processed'[f] =< edits
    BY <1>7, <2>1
  <2> QED
    BY <1>2, <1>3, <1>4, <1>5, <2>3, <2>4, <2>5, <2>6, <2>7, <2>8, <2>9, FileStep
<1>9. CASE InsertTurn(p)
  <2> DEFINE c == scan[p].content
             T == ParsedTurns(c)
  <2>1. PICK t \in scan[p].pend :
            /\ scan[p].pc = "insert" /\ processed' = processed
            /\ turns' = IF Collides(t) THEN turns ELSE [turns EXCEPT ![<<f, t>>] = @ + 1]
            /\ scan' = [scan EXCEPT ![p] = [scan[p] EXCEPT !.pend = @ \ {t}]]
    BY <1>5, <1>1, <1>9 DEF InsertTurn, At, Consume
  <2>2. /\ scan[p].pend \subseteq T /\ RowsAre(f, T \ scan[p].pend)
        /\ t \in TurnsOf(f)
    BY <1>5, <1>1, <2>1 DEF RowsInHand, LocalOK
  <2>3. c \in OwnFiles[f]
    <3>1. c # <<>>
      BY <2>2 DEF ParsedTurns, Kept
    <3> QED
      BY <1>5, <1>1, <2>1, <3>1 DEF ContentInHand
  <2>4. T \subseteq TurnsOf(f)
    BY <1>5, <2>3, OwnContents, ParsedTurnsType
  <2>5. ~Collides(t)
    <3> SUFFICES ASSUME t.msg # NoId, NEW k \in Rows, k[2].msg = t.msg, turns[k] > 0
                 PROVE  FALSE
      BY DEF Collides
    <3>1. PICK g \in Files : k \in {g} \X TurnsOf(g)
      BY DEF Rows
    <3>2. PICK u \in TurnsOf(g) : k = <<g, u>>
      BY <3>1
    <3>3. u.msg = t.msg /\ turns[<<g, u>>] > 0
      BY <3>2
    <3>4. CASE g = f
      <4>1. u \in T /\ u # t
        BY <2>1, <2>2, <3>2, <3>3, <3>4 DEF RowsAre
      <4> QED
        BY <1>5, <2>2, <2>3, <3>3, <4>1, KeptOnce, OrderedDomain, OwnContents
    <3>5. CASE g # f
      <4>1. OwnTurn(g, u)
        BY <3>2, <3>3 DEF OwnInv, RowsOwn
      <4>2. OwnTurn(f, t)
        BY <2>2, <2>3 DEF OwnTurn
      <4> QED
        BY <1>5, <3>3, <3>5, <4>1, <4>2, OwnApart
    <3> QED
      BY <3>4, <3>5
  <2>6. turns' = [turns EXCEPT ![<<f, t>>] = @ + 1]
    BY <2>1, <2>5
  <2>7. turns[<<f, t>>] = 0
    BY <2>1, <2>2 DEF RowsAre
  <2>8. \A u \in TurnsOf(f) : turns'[<<f, u>>] = IF u = t THEN 1 ELSE turns[<<f, u>>]
    BY <1>1, <1>5, <1>6, <2>2, <2>6, <2>7
  <2>9. \A g \in Files : g # f => \A u \in TurnsOf(g) : turns'[<<g, u>>] = turns[<<g, u>>]
    BY <1>1, <1>6, <2>6
  <2>10. /\ scan'[p].pc = "insert" /\ scan'[p].file = f /\ scan'[p].content = c
         /\ scan'[p].mtime = scan[p].mtime /\ scan'[p].pend = scan[p].pend \ {t}
    BY <1>5, <1>1, <2>1 DEF Local
  <2>11. \A u \in TurnsOf(f) :
             turns'[<<f, u>>] = IF u \in T \ (scan[p].pend \ {t}) THEN 1 ELSE 0
    BY <2>1, <2>2, <2>8 DEF RowsAre
  <2> HIDE DEF T
  <2>12. RowsInHand(scan[p])'
    BY <2>2, <2>10, <2>11 DEF RowsInHand, RowsAre, T
  <2>13. ContentInHand(scan[p])'
    BY <1>5, <1>1, <1>2, <2>1, <2>10 DEF ContentInHand
  <2>14. \A u \in TurnsOf(f) : turns'[<<f, u>>] > 0 => OwnTurn(f, u)
    BY <2>3, <2>11 DEF OwnTurn, T
  <2> QED
    BY <1>2, <1>3, <1>4, <1>5, <1>7, <2>1, <2>9, <2>10, <2>12, <2>13, <2>14, FileStep
<1>10. CASE DeleteProcessed(p)
  <2>1. /\ scan[p].pc = "forget" /\ turns' = turns
        /\ processed' = [processed EXCEPT ![f] = None]
        /\ scan' = [scan EXCEPT ![p] = [scan[p] EXCEPT !.pc = "sweep", !.dirty = TRUE,
                                           !.file = None, !.stale = @ \ {f}]]
    BY <1>5, <1>10 DEF DeleteProcessed, At
  <2>2. scan'[p].pc = "sweep"
    BY <1>1, <2>1 DEF Local
  <2>3. RowsAre(f, {})
    BY <1>5, <1>1, <2>1 DEF RowsInHand
  <2>4. Settled(f)'
    <3>1. processed'[f] = None
      BY <1>5, <1>7, <2>1
    <3>2. fs[f] # None => fs[f].mtime # None
      BY <1>5, NoneAssumption DEF TypeOK, FilesOK
    <3> QED
      BY <1>2, <2>1, <2>3, <3>1, <3>2 DEF Settled, RowsAre
  <2>5. RowsInHand(scan[p])' /\ ContentInHand(scan[p])'
    BY <2>2 DEF RowsInHand, ContentInHand
  <2>6. \A u \in TurnsOf(f) : turns'[<<f, u>>] > 0 => OwnTurn(f, u)
    BY <1>5, <2>1 DEF OwnInv, RowsOwn
  <2>7. /\ processed'[f] = None
        /\ \A g \in Files : g # f => processed'[g] = processed[g]
    BY <1>5, <1>7, <2>1
  <2> QED
    BY <1>2, <1>3, <1>4, <1>5, <2>1, <2>4, <2>5, <2>6, <2>7, FileStep
<1>11. CASE MarkProcessed(p)
  <2> DEFINE m == scan[p].mtime
  <2>1. /\ scan[p].pc = "mark" /\ turns' = turns
        /\ processed' = [processed EXCEPT ![f] = m]
        /\ scan' = [scan EXCEPT ![p] = NextOf(scan[p])]
    BY <1>5, <1>11 DEF MarkProcessed, At
  <2>2. scan'[p].pc = "next"
    BY <1>1, <2>1 DEF NextOf
  <2>3. m \in Nat /\ m =< edits /\ RowsAre(f, ParsedTurns(scan[p].content))
    BY <1>5, <1>1, <2>1 DEF LocalOK, RowsInHand, ContentInHand
  <2>4. (fs[f] # None /\ fs[f].mtime = m) => fs[f].content = scan[p].content
    BY <1>5, <1>1, <2>1 DEF ContentInHand
  <2>5. processed'[f] = m /\ \A g \in Files : g # f => processed'[g] = processed[g]
    BY <1>5, <1>7, <2>1
  <2>6. Settled(f)'
    BY <1>2, <2>1, <2>3, <2>4, <2>5, NoneAssumption DEF Settled, RowsAre
  <2>7. RowsInHand(scan[p])' /\ ContentInHand(scan[p])'
    BY <2>2 DEF RowsInHand, ContentInHand
  <2>8. \A u \in TurnsOf(f) : turns'[<<f, u>>] > 0 => OwnTurn(f, u)
    BY <1>5, <2>1 DEF OwnInv, RowsOwn
  <2> QED
    BY <1>2, <1>3, <1>4, <1>5, <2>1, <2>3, <2>5, <2>6, <2>7, <2>8, FileStep
<1> QED
  BY <1>8, <1>9, <1>10, <1>11

\* A change of a file makes its mtime one that no mark and no scan has yet.
LEMMA EditStep ==
    ASSUME TypeOK, OwnInv, NEW f \in Files, WriteFile(f) \/ RemoveFile(f),
           \A g \in Files : fs'[g] # None => fs'[g].content \in OwnFiles[g]
    PROVE  OwnInv'
<1>1. /\ fs \in [Files -> [content : AllContents, mtime : Nat] \cup {None}]
      /\ edits \in Nat /\ processed \in [Files -> Nat \cup {None}]
      /\ \A q \in Procs : scan[q] \in Local /\ LocalOK(scan[q])
  BY BoundsAssumption DEF TypeOK, FilesOK, DbOK, ScansOK
<1>2. UNCHANGED <<turns, processed, scan, crashes>> /\ edits' = edits + 1
  BY DEF WriteFile, RemoveFile, db
<1>3. \A g \in Files : \/ fs'[g] = fs[g]
                       \/ fs'[g] = None
                       \/ fs'[g].mtime = edits + 1
  BY <1>1 DEF WriteFile, RemoveFile
<1>4. PastTimes'
  BY <1>1, <1>2, <1>3 DEF OwnInv, PastTimes
<1>5. ASSUME NEW q \in Procs PROVE RowsInHand(scan[q])' /\ ContentInHand(scan[q])'
  <2>1. RowsInHand(scan[q]) /\ ContentInHand(scan[q])
    BY DEF OwnInv
  <2>2. scan[q].pc \in Filing \/ (scan[q].pc \in Deleting /\ scan[q].stale = {}) =>
            scan[q].mtime \in Nat /\ scan[q].mtime =< edits
    BY <1>1, <2>1 DEF LocalOK, ContentInHand
  <2>3. scan[q].pc \in Filing => scan[q].file \in Files
    BY <1>1 DEF LocalOK
  <2> QED
    BY <1>1, <1>2, <1>3, <2>1, <2>2, <2>3
    DEF RowsInHand, ContentInHand, RowsAre, Filing, Stored
<1>6. ASSUME NEW g \in Files PROVE (WorkedOn(g) \/ Settled(g))'
  <2>1. processed[g] # None => processed[g] \in Nat /\ processed[g] =< edits
    BY <1>1 DEF OwnInv, PastTimes
  <2>2. WorkedOn(g) => WorkedOn(g)'
    BY <1>2 DEF WorkedOn
  <2>3. Settled(g) => Settled(g)'
    BY <1>1, <1>2, <1>3, <2>1, NoneAssumption DEF Settled, RowsAre
  <2> QED
    BY <2>2, <2>3 DEF OwnInv
<1> QED
  BY <1>2, <1>4, <1>5, <1>6 DEF OwnInv, RowsOwn, OpenersOpen

-----------------------------------------------------------------------------
(* The theorems. *)

OneInv == TypeOK /\ part \in {"own", "shared"} /\ (part = "own" => OwnInv)

LEMMA OneInit == TwoInit => OneInv
<1> SUFFICES ASSUME TwoInit PROVE OneInv
  OBVIOUS
<1>1. Init
  BY DEF TwoInit
<1>2. OwnInv
  BY <1>1 DEF Init, OwnInv, PastTimes, RowsOwn, OpenersOpen, RowsInHand, ContentInHand, Settled,
     RowsAre, Rows, Idle, Emptied, Stored, Filing, Deleting, Procs
<1> QED
  BY <1>1, <1>2, TypeInit DEF OneInv, TwoInit

LEMMA OneNext ==
    ASSUME \A q, r \in Scanners : q = r
    PROVE  OneInv /\ [Step]_<<vars, part>> => OneInv'
<1> SUFFICES ASSUME OneInv, [Step]_<<vars, part>> PROVE OneInv'
  OBVIOUS
<1>1. TypeOK /\ [Next]_vars /\ part' = part
  BY DEF OneInv, Step, Behave
<1>2. TypeOK'
  BY <1>1, TypeNext
<1>3. SUFFICES ASSUME part = "own" PROVE OwnInv'
  BY <1>1, <1>2 DEF OneInv
<1>4. OwnInv
  BY <1>3 DEF OneInv
<1>5. CASE Step
  <2>1. /\ crashes' = 0
        /\ \A g \in Files : fs'[g] # None => fs'[g].content \in OwnFiles[g]
    BY <1>3, <1>5 DEF Step, Behave, FilesOf
  <2>2. ASSUME NEW f \in Files, WriteFile(f) \/ RemoveFile(f) PROVE OwnInv'
    BY <1>1, <1>4, <2>1, <2>2, EditStep
  <2>3. ASSUME NEW p \in Procs, Crash(p) PROVE FALSE
    BY <1>4, <2>1, <2>3 DEF OwnInv, Crash
  <2>4. ASSUME NEW p \in Procs, ScanStep(p) PROVE OwnInv'
    BY <1>1, <1>4, <2>4, IdleStep, LoopStep, WriteStep DEF ScanStep
  <2> QED
    BY <1>5, <2>2, <2>3, <2>4 DEF Step, Next
<1>6. CASE UNCHANGED <<vars, part>>
  <2>1. UNCHANGED <<fs, edits, turns, processed, scan, crashes>>
    BY <1>6 DEF vars, db
  <2> QED
    BY <1>4, <2>1 DEF OwnInv, PastTimes, RowsOwn, OpenersOpen, RowsInHand, ContentInHand,
       WorkedOn, Settled, RowsAre
<1> QED
  BY <1>5, <1>6

LEMMA OneInvariant ==
    ASSUME \A q, r \in Scanners : q = r
    PROVE  TwoSpec => []OneInv
<1>1. TwoInit => OneInv
  BY OneInit
<1>2. OneInv /\ [Step]_<<vars, part>> => OneInv'
  BY OneNext
<1> QED
  BY <1>1, <1>2, PTL DEF TwoSpec

\* One scanner stores every turn of its own files exactly once and nothing else,
\* however the files are written, replaced and removed while it reads them and
\* whichever other processes open the database meanwhile.
THEOREM OneScannerExact ==
    ASSUME \A q, r \in Scanners : q = r
    PROVE  TwoSpec => []OwnTurnsExact
<1>1. OneInv => OwnTurnsExact
  <2> SUFFICES ASSUME OwnInv, TypeOK, Quiet, Current,
                      NEW k \in Rows
               PROVE  turns[k] = IF k[2] \in TurnsNow(k[1]) THEN 1 ELSE 0
    BY DEF OneInv, OwnTurnsExact, TurnsExact
  <2>1. PICK f \in Files : k \in {f} \X TurnsOf(f)
    BY DEF Rows
  <2>2. PICK t \in TurnsOf(f) : k = <<f, t>>
    BY <2>1
  <2>3. ~WorkedOn(f)
    BY DEF WorkedOn, Quiet, At, Working, Emptied, Stored
  <2>4. Settled(f)
    BY <2>3 DEF OwnInv
  <2> QED
    BY <2>2, <2>4 DEF Settled, Current, TurnsNow, RowsAre
<1> QED
  BY <1>1, OneInvariant, PTL

\* Without a mark a file has no rows, unless the scanner is at it: nothing is
\* stored that the sweep of a later scan would not find.
THEOREM OneScannerMarks ==
    ASSUME \A q, r \in Scanners : q = r
    PROVE  TwoSpec => []OwnRowsMarked
<1>1. OneInv => OwnRowsMarked
  <2> SUFFICES ASSUME OwnInv, NEW f \in Files, processed[f] = None,
                      NEW k \in Rows, k[1] = f, turns[k] > 0
               PROVE  \E p \in Procs : scan[p].file = f
    BY DEF OneInv, OwnRowsMarked, NoOrphanRows
  <2>1. PICK g \in Files : k \in {g} \X TurnsOf(g)
    BY DEF Rows
  <2>2. PICK t \in TurnsOf(f) : k = <<f, t>>
    BY <2>1
  <2>3. ~Settled(f)
    BY <2>2 DEF Settled, RowsAre
  <2> QED
    BY <2>3 DEF OwnInv, WorkedOn
<1> QED
  BY <1>1, OneInvariant, PTL

-----------------------------------------------------------------------------
(* The tools of a turn share its cost. *)

\* Every set of numbers has a least one: what an induction rests on.
LEMMA LeastNumber ==
    ASSUME NEW S, S \subseteq Nat, S # {}
    PROVE  \E m \in S : \A n \in S : m <= n
<1> DEFINE R == OpToRel(<, Nat)
<1>1. IsWellFoundedOn(R, Nat)
  BY NatLessThanWellFounded
<1>2. PICK m \in S : \A n \in S : <<n, m>> \notin R
  BY <1>1, WFMin
<1>3. \A n \in S : ~(n < m)
  BY <1>2 DEF OpToRel
<1> QED  BY <1>3

Pick(s) == CHOOSE x \in s : TRUE
\* The function by which the costs of the events of X are added up.
Summing(sum, rows, X) ==
    sum = [s \in SUBSET X |-> IF s = {} THEN 0
                              ELSE rows[Pick(s)].cost + sum[s \ {Pick(s)}]]
CostSum(rows, X) == (CHOOSE sum : Summing(sum, rows, X))[X]

LEMMA PickIsMember == \A s : s # {} => Pick(s) \in s
BY DEF Pick

\* There is one: on the sets with m elements it follows from that on smaller ones.
LEMMA SummingExists ==
    ASSUME NEW X, IsFiniteSet(X), NEW rows
    PROVE  \E sum : Summing(sum, rows, X)
<1> DEFINE Small(m) == {s \in SUBSET X : Cardinality(s) <= m}
           Sums(sum, m) == sum = [s \in Small(m) |->
                                     IF s = {} THEN 0
                                     ELSE rows[Pick(s)].cost + sum[s \ {Pick(s)}]]
           Missed == {m \in Nat : ~ \E sum : Sums(sum, m)}
<1>1. \A s \in SUBSET X : IsFiniteSet(s) /\ Cardinality(s) \in Nat
                          /\ Cardinality(s) <= Cardinality(X)
  BY FS_Subset, FS_CardinalityType
<1>2. \A s \in SUBSET X : s # {} => /\ Pick(s) \in s /\ s \ {Pick(s)} \in SUBSET X
                                    /\ Cardinality(s \ {Pick(s)}) = Cardinality(s) - 1
  BY <1>1, PickIsMember, FS_RemoveElement
<1>3. Missed = {}
  <2> SUFFICES ASSUME Missed # {} PROVE FALSE
    OBVIOUS
  <2>1. PICK m \in Missed : \A k \in Missed : m <= k
    <3>1. Missed \subseteq Nat
      OBVIOUS
    <3> HIDE DEF Missed
    <3> QED
      BY <3>1, LeastNumber
  <2>2. CASE m = 0
    <3> DEFINE none == [s \in Small(0) |-> 0]
    <3>1. \A s \in Small(0) : s = {}
      <4>1. \A s \in Small(0) : IsFiniteSet(s) /\ Cardinality(s) = 0
        BY <1>1
      <4> QED
        BY <4>1, FS_EmptySet
    <3>2. Sums(none, 0)
      BY <3>1
    <3> QED
      BY <2>1, <2>2, <3>2
  <2>3. CASE m # 0
    <3>1. m \in Nat /\ m - 1 \in Nat /\ m - 1 \notin Missed
      <4>1. m \in Nat
        BY <2>1
      <4> HIDE DEF Missed
      <4> QED
        BY <2>1, <2>3, <4>1
    <3>2. PICK less : Sums(less, m - 1)
      BY <3>1
    <3> DEFINE sum == [s \in Small(m) |-> IF s = {} THEN 0
                                          ELSE rows[Pick(s)].cost + less[s \ {Pick(s)}]]
    <3>3. \A s \in Small(m) : s # {} => s \ {Pick(s)} \in Small(m - 1)
      BY <1>1, <1>2, <3>1
    <3>4. \A s \in Small(m - 1) : s \in Small(m) /\ sum[s] = less[s]
      <4>1. \A s \in Small(m - 1) : s \in Small(m)
        BY <1>1, <3>1
      <4>2. \A s \in Small(m - 1) :
                less[s] = IF s = {} THEN 0 ELSE rows[Pick(s)].cost + less[s \ {Pick(s)}]
        <5> HIDE DEF Small
        <5> QED
          BY <3>2
      <4> HIDE DEF Small
      <4> QED
        BY <4>1, <4>2
    <3>5. \A s \in Small(m) : s # {} => sum[s \ {Pick(s)}] = less[s \ {Pick(s)}]
      <4> HIDE DEF Small, sum
      <4> QED
        BY <3>3, <3>4
    <3>6. \A s \in Small(m) :
              (IF s = {} THEN 0 ELSE rows[Pick(s)].cost + less[s \ {Pick(s)}])
              = (IF s = {} THEN 0 ELSE rows[Pick(s)].cost + sum[s \ {Pick(s)}])
      <4> HIDE DEF Small, sum
      <4> QED
        BY <3>5
    <3>7. Sums(sum, m)
      <4> HIDE DEF Small
      <4> QED
        BY <3>6
    <3> QED
      BY <2>1, <3>7
  <2> QED
    BY <2>2, <2>3
<1>4. PICK sum : Sums(sum, Cardinality(X))
  <2>1. Cardinality(X) \in Nat
    BY FS_CardinalityType
  <2> QED
    BY <1>3, <2>1
<1>5. Small(Cardinality(X)) = SUBSET X
  BY <1>1
<1>6. Summing(sum, rows, X)
  <2> HIDE DEF Small
  <2> QED
    BY <1>4, <1>5 DEF Summing
<1> QED
  BY <1>6

\* Events of the same cost, but for one that has more, add up to the multiple of
\* it and that remainder.
LEMMA CostsOf ==
    ASSUME NEW X, IsFiniteSet(X), NEW rows, NEW part1 \in Nat, NEW rest \in Nat,
           NEW first \in X, rows[first].cost = part1 + rest,
           \A u \in X : u # first => rows[u].cost = part1
    PROVE  CostSum(rows, X) = part1 * Cardinality(X) + rest
<1> DEFINE sum == CHOOSE sum : Summing(sum, rows, X)
           Right(s) == sum[s] = part1 * Cardinality(s) + (IF first \in s THEN rest ELSE 0)
           Bad == {s \in SUBSET X : ~Right(s)}
           Counts == {Cardinality(s) : s \in Bad}
<1>1. Summing(sum, rows, X)
  BY SummingExists
<1>2. CostSum(rows, X) = sum[X]
  BY DEF CostSum
<1> HIDE DEF sum
<1>3. \A s \in SUBSET X : /\ IsFiniteSet(s) /\ Cardinality(s) \in Nat
                          /\ sum[s] = IF s = {} THEN 0
                                      ELSE rows[Pick(s)].cost + sum[s \ {Pick(s)}]
  <2>1. \A s \in SUBSET X : IsFiniteSet(s) /\ Cardinality(s) \in Nat
    BY FS_Subset, FS_CardinalityType
  <2> QED
    BY <1>1, <2>1, Zenon DEF Summing
<1>4. Bad = {}
  <2> SUFFICES ASSUME Bad # {} PROVE FALSE
    OBVIOUS
  <2>1. PICK s \in Bad : \A t \in Bad : Cardinality(s) <= Cardinality(t)
    <3>1. Counts \subseteq Nat /\ Counts # {}
      BY <1>3
    <3>2. PICK m \in Counts : \A n \in Counts : m <= n
      <4> HIDE DEF Counts
      <4> QED
        BY <3>1, LeastNumber
    <3> HIDE DEF Bad
    <3> QED
      BY <3>2
  <2>2. s \in SUBSET X /\ ~Right(s)
    BY <2>1
  <2>3. s # {}
    <3> SUFFICES ASSUME s = {} PROVE FALSE
      OBVIOUS
    <3>1. sum[s] = 0 /\ Cardinality(s) = 0 /\ first \notin s
      BY <1>3, <2>2, FS_EmptySet
    <3>2. part1 * 0 = 0
      OBVIOUS
    <3> QED
      BY <2>2, <3>1, <3>2
  <2> DEFINE p == Pick(s)
             t == s \ {p}
  <2>4. p \in s /\ sum[s] = rows[p].cost + sum[t]
    BY <1>3, <2>2, <2>3, PickIsMember
  <2> HIDE DEF p
  <2>5. t \in SUBSET X /\ Cardinality(t) = Cardinality(s) - 1
    BY <1>3, <2>2, <2>4, FS_RemoveElement
  <2>6. Cardinality(s) \in Nat /\ Cardinality(t) \in Nat /\ Cardinality(t) < Cardinality(s)
    <3>1. Cardinality(s) \in Nat /\ Cardinality(t) \in Nat
      BY <1>3, <2>2, <2>5
    <3> HIDE DEF t
    <3> QED
      BY <2>5, <3>1
  <2>7. Right(t)
    <3>1. Cardinality(t) < Cardinality(s)
      BY <2>6
    <3>2. t \notin Bad
      <4> HIDE DEF Bad, t
      <4> QED
        BY <2>1, <2>6
    <3> QED
      BY <2>5, <3>2
  <2>8. part1 * Cardinality(s) = part1 * Cardinality(t) + part1
    <3>1. ASSUME NEW n \in Int PROVE part1 * n = part1 * (n - 1) + part1
      OBVIOUS
    <3>2. part1 * Cardinality(s) = part1 * (Cardinality(s) - 1) + part1
      BY <2>6, <3>1
    <3> HIDE DEF t
    <3> QED
      BY <2>5, <3>2
  <2>9. part1 * Cardinality(t) \in Int /\ part1 * Cardinality(s) \in Int
    <3>1. ASSUME NEW n \in Nat PROVE part1 * n \in Int
      OBVIOUS
    <3> HIDE DEF t
    <3> QED
      BY <2>6, <3>1
  <2>10. rows[p].cost = part1 + (IF p = first THEN rest ELSE 0)
    BY <2>2, <2>4
  <2>11. first \in s <=> first = p \/ first \in t
    BY <2>4
  <2>12. first \in t => first # p
    OBVIOUS
  <2>13. sum[s] = part1 * Cardinality(s) + (IF first \in s THEN rest ELSE 0)
    <3> HIDE DEF t
    <3> QED
      BY <2>4, <2>7, <2>8, <2>9, <2>10, <2>11, <2>12
  <2> QED
    BY <2>2, <2>13
<1>5. Right(X)
  BY <1>4
<1> QED
  BY <1>2, <1>5

\* The events of a turn that names no tool twice add up to its cost.
LEMMA SharesAddUp ==
    ASSUME NEW t \in Line, t.tools # <<>>,
           \A i, j \in DOMAIN t.tools : t.tools[i] = t.tools[j] => i = j,
           NEW rows, \A i \in DOMAIN t.tools : rows[t.tools[i]].cost = Share(t, i),
           NEW X, X = { u \in ToolIds : \E i \in DOMAIN t.tools : t.tools[i] = u }
    PROVE  CostSum(rows, X) = t.cost
<1> DEFINE n == Len(t.tools)
           first == t.tools[1]
<1>1. /\ t.tools \in Seq(ToolIds) /\ t.cost \in Nat
      /\ n \in Nat /\ n > 0 /\ DOMAIN t.tools = 1..n /\ 1 \in DOMAIN t.tools
  BY DEF Line
<1>2. IsFiniteSet(1..n) /\ Cardinality(1..n) = n
  BY <1>1, FS_Interval
<1>3. IsFiniteSet(X) /\ Cardinality(X) = n
  <2>1. t.tools \in [1..n -> X]
    BY <1>1
  <2>2. t.tools \in Bijection(1..n, X)
    BY <1>1, <2>1 DEF Bijection, Injection, Surjection, IsInjective
  <2> QED
    BY <1>2, <2>2, FS_Bijection DEF ExistsBijection
<1>4. /\ t.cost \div n \in Nat /\ t.cost % n \in Nat
      /\ t.cost = (t.cost \div n) * n + (t.cost % n)
  <2>1. ASSUME NEW a \in Nat, NEW m \in Nat, m > 0
        PROVE  a \div m \in Nat /\ a % m \in Nat /\ a = (a \div m) * m + (a % m)
    BY <2>1
  <2> QED
    BY <1>1, <2>1
<1> DEFINE quot == t.cost \div n
           rem == t.cost % n
<1>5. /\ first \in X /\ rows[first].cost = quot + rem
      /\ \A u \in X : u # first => rows[u].cost = quot
  <2>1. rows[first].cost = quot + rem
    BY <1>1 DEF Share
  <2>2. ASSUME NEW i \in DOMAIN t.tools, t.tools[i] # first PROVE rows[t.tools[i]].cost = quot
    <3>1. i # 1
      BY <2>2
    <3>2. quot + 0 = quot
      BY <1>4
    <3> QED
      BY <3>1, <3>2 DEF Share
  <2> QED
    BY <1>1, <2>1, <2>2
<1>6. quot \in Nat /\ rem \in Nat /\ t.cost = quot * n + rem
  BY <1>4
<1> HIDE DEF n, first, quot, rem
<1>7. CostSum(rows, X) = quot * Cardinality(X) + rem
  BY <1>3, <1>5, <1>6, CostsOf
<1> QED
  BY <1>3, <1>6, <1>7

-----------------------------------------------------------------------------
(* The tool events of each file, beside its rows: those of the same turns. *)

EventsAre(f, S) ==
    /\ \A u \in ToolIds :
          (toolEvents[u] # None /\ toolEvents[u].src = f) => \E e \in S : e.tool = u
    /\ \A e \in S : toolEvents[e.tool] = [src |-> f, session |-> e.session, cost |-> e.cost]

\* The events of a file that no scan is at: those of the turns it has rows of.
Paired(f) ==
    \E c \in OwnFiles[f] \cup {<<>>} :
        RowsAre(f, ParsedTurns(c)) /\ EventsAre(f, EventsOf(c))

Cleared == {"forget", "parse", "upsert", "insert", "invoke", "title"}

\* The events of the file a scan is at.
EventsInHand(l) ==
    /\ l.pc \in Cleared => EventsAre(l.file, {})
    /\ l.pc = "event" => /\ l.pend \subseteq EventsOf(l.content)
                         /\ EventsAre(l.file, EventsOf(l.content) \ l.pend)
    /\ l.pc = "mark"  => EventsAre(l.file, EventsOf(l.content))

\* Events are tools of contents their file may have.
OwnTool(f, u) == \E c \in OwnFiles[f] : \E e \in EventsOf(c) : e.tool = u
EventsOwn == \A u \in ToolIds : toolEvents[u] # None => OwnTool(toolEvents[u].src, u)

EventsInv == /\ EventsOwn
             /\ \A p \in Procs : EventsInHand(scan[p])
             /\ \A f \in Files : WorkedOn(f) \/ Paired(f)

\* A row is of a file and one of its turns.
LEMMA RowParts == \A k \in Rows : \E f \in Files : \E t \in TurnsOf(f) : k = <<f, t>>
BY DEF Rows

\* A tool of the own files belongs to one event of one content's turns.
LEMMA OwnToolsApart ==
    ASSUME NEW f \in Files, NEW g \in Files, NEW c \in OwnFiles[f], NEW d \in OwnFiles[g],
           NEW e \in EventsOf(c), NEW h \in EventsOf(d), e.tool = h.tool
    PROVE  f = g /\ (c = d => e = h)
<1>1. PICK t \in ParsedTurns(c) : e \in TurnEvents(t)
  BY DEF EventsOf
<1>2. PICK i \in DOMAIN t.tools :
          e = [tool |-> t.tools[i], session |-> t.session, cost |-> Share(t, i)]
  BY <1>1 DEF TurnEvents
<1>3. PICK v \in ParsedTurns(d) : h \in TurnEvents(v)
  BY DEF EventsOf
<1>4. PICK j \in DOMAIN v.tools :
          h = [tool |-> v.tools[j], session |-> v.session, cost |-> Share(v, j)]
  BY <1>3 DEF TurnEvents
<1>5. t.tools[i] = v.tools[j]
  BY <1>2, <1>4
<1>6. f = g /\ (c = d => t = v /\ i = j)
  BY <1>5, OwnToolsAssumption
<1> QED
  BY <1>2, <1>4, <1>6

LEMMA NothingParsed == ParsedTurns(<<>>) = {} /\ EventsOf(<<>>) = {}
BY DEF ParsedTurns, Kept, EventsOf

\* A file without rows has no events.
LEMMA PairedEmpty ==
    ASSUME NEW f \in Files, Paired(f), RowsAre(f, {})
    PROVE  EventsAre(f, {})
<1>1. PICK c \in OwnFiles[f] \cup {<<>>} :
          RowsAre(f, ParsedTurns(c)) /\ EventsAre(f, EventsOf(c))
  BY DEF Paired
<1>2. ParsedTurns(c) \subseteq TurnsOf(f)
  BY OwnContents, ParsedTurnsType
<1>3. ParsedTurns(c) = {}
  <2> SUFFICES ASSUME NEW t \in ParsedTurns(c) PROVE FALSE
    OBVIOUS
  <2>1. turns[<<f, t>>] = 1 /\ turns[<<f, t>>] = 0
    BY <1>1, <1>2 DEF RowsAre
  <2> QED
    BY <2>1
<1>4. EventsOf(c) = {}
  BY <1>3 DEF EventsOf
<1> QED
  BY <1>1, <1>4

LEMMA EventsInit == Init => EventsInv
<1> SUFFICES ASSUME Init PROVE EventsInv
  OBVIOUS
<1>1. \A f \in Files : RowsAre(f, {}) /\ EventsAre(f, {})
  BY DEF Init, RowsAre, EventsAre, Rows
<1>2. \A f \in Files : Paired(f)
  BY <1>1, NothingParsed DEF Paired
<1>3. \A p \in Procs : scan[p].pc = "idle"
  BY DEF Init, Idle
<1>4. EventsOwn
  BY DEF Init, EventsOwn
<1> QED
  BY <1>2, <1>3, <1>4 DEF EventsInv, EventsInHand, Cleared

\* A step of one process that leaves rows and events alone.
LEMMA SameEventsStep ==
    ASSUME EventsInv, NEW p \in Procs, UNCHANGED <<turns, toolEvents>>,
           \A q \in Procs : q # p => scan'[q] = scan[q],
           EventsInHand(scan[p])',
           scan[p].pc \in Working =>
               \/ scan'[p].pc \in Working /\ scan'[p].file = scan[p].file
               \/ Paired(scan[p].file)
    PROVE  EventsInv'
<1>1. EventsOwn'
  BY DEF EventsInv, EventsOwn
<1>2. \A q \in Procs : q # p => EventsInHand(scan[q])'
  BY DEF EventsInv, EventsInHand, EventsAre
<1>3. \A f : Paired(f) => Paired(f)'
  BY DEF Paired, RowsAre, EventsAre
<1>4. \A f \in Files : WorkedOn(f) => WorkedOn(f)' \/ Paired(f)
  BY DEF WorkedOn
<1> QED
  BY <1>1, <1>2, <1>3, <1>4 DEF EventsInv

\* A step of the scanner that writes rows or events of the file it is at.
LEMMA OneFileStep ==
    ASSUME TypeOK, OwnInv, EventsInv, \A q, r \in Scanners : q = r,
           NEW p \in Scanners, NEW f \in Files,
           \A q \in Procs : q # p => scan'[q] = scan[q],
           \A g \in Files : g # f =>
               \A t \in TurnsOf(g) : turns'[<<g, t>>] = turns[<<g, t>>],
           \A u \in ToolIds :
               \/ toolEvents'[u] = toolEvents[u]
               \/ /\ toolEvents[u] # None => toolEvents[u].src = f
                  /\ toolEvents'[u] # None => /\ toolEvents[u] = None
                                              /\ toolEvents'[u].src = f
                                              /\ OwnTool(f, u),
           scan[p].pc \in Working => scan[p].file = f,
           scan'[p].pc \in Working, scan'[p].file = f,
           EventsInHand(scan[p])'
    PROVE  EventsInv'
<1>0. p \in Procs
  BY DEF Procs
<1>1. EventsOwn'
  <2> SUFFICES ASSUME NEW u \in ToolIds, toolEvents'[u] # None
               PROVE  OwnTool(toolEvents'[u].src, u)
    BY DEF EventsOwn, OwnTool
  <2> QED
    BY DEF EventsInv, EventsOwn
<1>2. \A q \in Procs : q # p => /\ scan'[q].pc \in {"idle", "opened"}
                                /\ scan[q].pc = scan'[q].pc
  <2>1. \A q \in Procs : q # p => q \in Procs \ Scanners
    OBVIOUS
  <2> QED
    BY <2>1 DEF OwnInv, OpenersOpen
<1>3. \A q \in Procs : q # p => EventsInHand(scan[q])'
  BY <1>2 DEF EventsInHand, Cleared
<1>4. ASSUME NEW g \in Files, g # f PROVE Paired(g)'
  <2>1. ~WorkedOn(g)
    BY <1>0, <1>2, <1>4 DEF WorkedOn, Working, Emptied, Stored
  <2>2. PICK c \in OwnFiles[g] \cup {<<>>} :
            RowsAre(g, ParsedTurns(c)) /\ EventsAre(g, EventsOf(c))
    BY <2>1 DEF EventsInv, Paired
  <2>3. RowsAre(g, ParsedTurns(c))'
    BY <1>4, <2>2 DEF RowsAre
  <2>4. \A e \in EventsOf(c) : e.tool \in ToolIds
    BY OwnContents, BatchTypes DEF EventItem
  <2>5. ASSUME NEW e \in EventsOf(c)
        PROVE  toolEvents'[e.tool] = [src |-> g, session |-> e.session, cost |-> e.cost]
    <3>1. /\ toolEvents[e.tool] = [src |-> g, session |-> e.session, cost |-> e.cost]
          /\ e.tool \in ToolIds
      BY <2>2, <2>4 DEF EventsAre
    <3>2. toolEvents[e.tool] \in EventRow \cup {None} /\ e \in EventItem
      BY <3>1, OwnContents, BatchTypes DEF TypeOK, DbOK
    <3>3. toolEvents[e.tool] # None
      BY <3>1, <3>2, EventAssumption DEF EventRow, EventItem
    <3>4. toolEvents[e.tool].src = g
      BY <3>1
    <3> QED
      BY <1>4, <3>1, <3>3, <3>4
  <2>6. ASSUME NEW u \in ToolIds, toolEvents'[u] # None, toolEvents'[u].src = g
        PROVE  \E e \in EventsOf(c) : e.tool = u
    <3>1. toolEvents'[u] = toolEvents[u]
      BY <1>4, <2>6
    <3> QED
      BY <2>2, <2>6, <3>1 DEF EventsAre
  <2>7. EventsAre(g, EventsOf(c))'
    BY <2>5, <2>6 DEF EventsAre
  <2> QED
    BY <2>3, <2>7 DEF Paired
<1>5. WorkedOn(f)'
  BY <1>0 DEF WorkedOn
<1> QED
  BY <1>0, <1>1, <1>3, <1>4, <1>5 DEF EventsInv

\* Outside the file loop, and up to the first write of the loop.
LEMMA EventsIdleStep ==
    ASSUME TypeOK, OwnInv, EventsInv, NEW p \in Procs,
           \/ OpenDb(p) \/ PruneOnOpen(p) \/ Discover(p) \/ ListProcessed(p)
           \/ SweepNext(p) \/ SweepDone(p) \/ SkipVanished(p) \/ StatFile(p)
           \/ SkipUnchanged(p) \/ TakeUpdated(p)
           \/ FinishUnchanged(p) \/ RecomputeTotals(p) \/ DropEmptySessions(p)
    PROVE  EventsInv'
<1>1. scan \in [Procs -> Local] /\ scan[p] \in Local
  BY DEF TypeOK, ScansOK
<1>2. UNCHANGED <<turns, toolEvents>>
  BY DEF OpenDb, PruneOnOpen, Discover, ListProcessed, SweepNext, SweepDone, SkipVanished,
     StatFile, SkipUnchanged, TakeUpdated, FinishUnchanged, RecomputeTotals,
     DropEmptySessions, db
<1>3. \A q \in Procs : q # p => scan'[q] = scan[q]
  BY <1>1 DEF OpenDb, PruneOnOpen, Discover, ListProcessed, SweepNext, SweepDone, SkipVanished,
     StatFile, SkipUnchanged, TakeUpdated, FinishUnchanged, RecomputeTotals,
     DropEmptySessions, Goto
<1>4. scan[p].pc \notin Working
  BY DEF OpenDb, PruneOnOpen, Discover, ListProcessed, SweepNext, SweepDone, SkipVanished,
     StatFile, SkipUnchanged, TakeUpdated, FinishUnchanged, RecomputeTotals,
     DropEmptySessions, At, Working, Emptied, Stored
<1>5. scan'[p].pc \in {"opened", "idle", "discover", "list", "sweep", "delTurns", "next",
                       "lookup", "drop"}
  <2>1. CASE OpenDb(p) \/ FinishUnchanged(p) \/ DropEmptySessions(p) \/ SkipUnchanged(p)
    BY <1>1, <2>1 DEF OpenDb, FinishUnchanged, DropEmptySessions, SkipUnchanged, NextOf, Idle
  <2>2. CASE PruneOnOpen(p) \/ SweepDone(p) \/ TakeUpdated(p) \/ RecomputeTotals(p)
    BY <1>1, <2>2 DEF PruneOnOpen, SweepDone, TakeUpdated, RecomputeTotals, Goto, Local
  <2>3. CASE Discover(p) \/ ListProcessed(p)
    BY <1>1, <2>3 DEF Discover, ListProcessed, Local
  <2>4. CASE SweepNext(p) \/ StatFile(p)
    BY <1>1, <2>4 DEF SweepNext, StatFile, Local
  <2>5. CASE SkipVanished(p)
    BY <1>1, <2>5 DEF SkipVanished, At, Local
  <2> QED
    BY <2>1, <2>2, <2>3, <2>4, <2>5
<1>6. EventsInHand(scan[p])'
  BY <1>5 DEF EventsInHand, Cleared
<1> QED
  BY <1>2, <1>3, <1>4, <1>6, SameEventsStep

\* Inside the file loop, without a write of rows or events.
LEMMA EventsLoopStep ==
    ASSUME TypeOK, OwnInv, EventsInv, \A q, r \in Scanners : q = r, NEW p \in Procs,
           \/ DeleteInvocations(p) \/ TakeNew(p) \/ ParseFile(p) \/ UpsertSession(p)
           \/ InsertInvocation(p) \/ SyncTitle(p) \/ PhaseDone(p)
           \/ DeleteProcessed(p) \/ MarkProcessed(p)
    PROVE  EventsInv'
<1> USE DEF Working, Emptied, Stored, Cleared
<1>1. /\ scan \in [Procs -> Local] /\ scan[p] \in Local
      /\ RowsInHand(scan[p]) /\ ContentInHand(scan[p]) /\ LocalOK(scan[p])
      /\ EventsInHand(scan[p])
  BY DEF TypeOK, ScansOK, OwnInv, EventsInv
<1>2. UNCHANGED <<turns, toolEvents>>
  BY DEF DeleteInvocations, TakeNew, ParseFile, UpsertSession, InsertInvocation,
     SyncTitle, PhaseDone, DeleteProcessed, MarkProcessed, db
<1>3. \A q \in Procs : q # p => scan'[q] = scan[q]
  BY <1>1 DEF DeleteInvocations, TakeNew, ParseFile, UpsertSession, InsertInvocation,
     SyncTitle, PhaseDone, DeleteProcessed, MarkProcessed, Goto, Consume
<1>4. p \in Scanners
  BY DEF OwnInv, OpenersOpen, At, DeleteInvocations, TakeNew, ParseFile, UpsertSession,
     InsertInvocation, SyncTitle, PhaseDone, DeleteProcessed, MarkProcessed
<1>5. \A f : \A S : EventsAre(f, S) => EventsAre(f, S)'
  BY <1>2 DEF EventsAre
<1>6. PICK f \in Files : f = scan[p].file
  BY <1>1 DEF LocalOK, Filing, Deleting, At, DeleteInvocations, TakeNew, ParseFile,
     UpsertSession, InsertInvocation, SyncTitle, PhaseDone, DeleteProcessed, MarkProcessed
<1>7. SUFFICES /\ EventsInHand(scan[p])'
               /\ scan[p].pc \in Working =>
                      \/ scan'[p].pc \in Working /\ scan'[p].file = scan[p].file
                      \/ Paired(scan[p].file)
  BY <1>2, <1>3, SameEventsStep
<1>8. CASE DeleteInvocations(p)
  <2>1. scan'[p].pc = "delEvents" /\ scan'[p].file = scan[p].file
    BY <1>1, <1>8 DEF DeleteInvocations, Goto, Local
  <2> QED
    BY <2>1 DEF EventsInHand
<1>9. CASE TakeNew(p)
  <2>1. /\ scan[p].pc = "lookup" /\ processed[f] = None
        /\ scan'[p].pc = "parse" /\ scan'[p].file = f
    BY <1>1, <1>6, <1>9 DEF TakeNew, At, Goto, Local
  <2>2. ~WorkedOn(f)
    <3>1. \A q \in Procs : q # p => scan[q].pc \in {"idle", "opened"}
      BY <1>4 DEF OwnInv, OpenersOpen
    <3> QED
      BY <2>1, <3>1 DEF WorkedOn
  <2>3. RowsAre(f, {}) /\ Paired(f)
    BY <2>1, <2>2 DEF OwnInv, EventsInv, Settled
  <2>4. EventsAre(f, {})
    BY <2>3, PairedEmpty
  <2> QED
    BY <1>5, <2>1, <2>4 DEF EventsInHand
<1>10. CASE ParseFile(p)
  <2> DEFINE c == IF fs[f] = None THEN <<>> ELSE fs[f].content
  <2>1. /\ scan[p].pc = "parse" /\ scan'[p].file = f /\ scan'[p].content = c
        /\ scan'[p].pc = IF Metas(c) = {} THEN "mark" ELSE "upsert"
    BY <1>1, <1>6, <1>10 DEF ParseFile, At, Local
  <2>2. EventsAre(f, {})
    BY <1>1, <1>6, <2>1 DEF EventsInHand
  <2>3. c \in Contents[f] \cup {<<>>}
    BY DEF TypeOK, FilesOK
  <2>4. Metas(c) = {} => EventsOf(c) = {}
    BY <2>3, NoMetasNoTurns DEF EventsOf
  <2> HIDE DEF c
  <2>5. EventsInHand(scan[p])'
    BY <1>5, <2>1, <2>2, <2>4 DEF EventsInHand
  <2> QED
    BY <1>6, <2>1, <2>5
<1>11. CASE UpsertSession(p) \/ InsertInvocation(p) \/ SyncTitle(p)
  <2>1. PICK x : scan' = [scan EXCEPT ![p] = [scan[p] EXCEPT !.pend = @ \ {x}]]
    BY <1>11 DEF UpsertSession, InsertInvocation, SyncTitle, Consume
  <2>2. /\ scan'[p].pc = scan[p].pc /\ scan'[p].file = scan[p].file
        /\ scan[p].pc \in {"upsert", "invoke", "title"}
    BY <1>1, <1>11, <2>1 DEF UpsertSession, InsertInvocation, SyncTitle, At, Local
  <2>3. EventsInHand(scan[p])'
    BY <1>1, <1>5, <2>2 DEF EventsInHand
  <2> QED
    BY <2>2, <2>3
<1>12. CASE PhaseDone(p)
  <2> DEFINE c == scan[p].content
  <2>1. /\ scan[p].pend = {}
        /\ scan'[p].file = scan[p].file /\ scan'[p].content = c
        /\ \/ /\ scan[p].pc \in {"upsert", "insert", "invoke"}
              /\ scan'[p].pc \in {"insert", "invoke", "title"}
           \/ /\ scan[p].pc = "title" /\ scan'[p].pc = "event"
              /\ scan'[p].pend = EventsOf(c)
           \/ scan[p].pc = "event" /\ scan'[p].pc = "mark"
    BY <1>1, <1>12 DEF PhaseDone, At, Local
  <2>2. EventsOf(c) \ EventsOf(c) = {} /\ EventsOf(c) \ {} = EventsOf(c)
    OBVIOUS
  <2> HIDE DEF c
  <2>3. CASE scan[p].pc \in {"upsert", "insert", "invoke"}
    BY <1>1, <1>5, <2>1, <2>3 DEF EventsInHand
  <2>4. CASE scan[p].pc = "title"
    <3>1. EventsAre(f, {})'
      BY <1>1, <1>5, <1>6, <2>4 DEF EventsInHand
    <3> QED
      BY <1>6, <2>1, <2>2, <2>4, <3>1 DEF EventsInHand
  <2>5. CASE scan[p].pc = "event"
    <3>1. PICK E : E = EventsOf(scan[p].content)
      OBVIOUS
    <3>2. EventsAre(f, E)
      BY <1>1, <1>6, <2>1, <2>2, <2>5, <3>1 DEF EventsInHand, c
    <3>3. EventsAre(f, E)'
      BY <1>5, <3>2
    <3>4. scan'[p].pc = "mark" /\ scan'[p].file = f /\ EventsOf(scan'[p].content) = E
      BY <1>6, <2>1, <2>5, <3>1 DEF c
    <3>5. EventsInHand(scan[p])'
      BY <3>3, <3>4 DEF EventsInHand, EventsAre
    <3> QED
      BY <1>6, <3>4, <3>5
  <2> QED
    BY <2>1, <2>3, <2>4, <2>5
<1>13. CASE DeleteProcessed(p)
  <2>1. scan[p].pc = "forget" /\ scan'[p].pc = "sweep"
    BY <1>1, <1>13 DEF DeleteProcessed, At, Local
  <2>2. RowsAre(f, {}) /\ EventsAre(f, {})
    BY <1>1, <1>6, <2>1 DEF RowsInHand, EventsInHand
  <2>3. Paired(f)
    BY <2>2, NothingParsed DEF Paired
  <2> QED
    BY <1>6, <2>1, <2>3 DEF EventsInHand
<1>14. CASE MarkProcessed(p)
  <2>1. scan[p].pc = "mark" /\ scan'[p].pc = "next"
    BY <1>1, <1>14 DEF MarkProcessed, At, NextOf
  <2>2. /\ RowsAre(f, ParsedTurns(scan[p].content)) /\ EventsAre(f, EventsOf(scan[p].content))
        /\ scan[p].content \in OwnFiles[f] \cup {<<>>}
    BY <1>1, <1>6, <2>1 DEF RowsInHand, EventsInHand, ContentInHand
  <2>3. Paired(f)
    BY <2>2 DEF Paired
  <2> QED
    BY <1>6, <2>1, <2>3 DEF EventsInHand
<1> QED
  BY <1>8, <1>9, <1>10, <1>11, <1>12, <1>13, <1>14

\* The writes of rows and events.
LEMMA EventsWriteStep ==
    ASSUME TypeOK, OwnInv, EventsInv, \A q, r \in Scanners : q = r, NEW p \in Procs,
           DeleteTurns(p) \/ InsertTurn(p) \/ DeleteEvents(p) \/ InsertEvent(p)
    PROVE  EventsInv'
<1> USE DEF Working, Emptied, Stored, Cleared
<1>1. /\ scan \in [Procs -> Local] /\ scan[p] \in Local
      /\ turns \in [Rows -> Nat] /\ toolEvents \in [ToolIds -> EventRow \cup {None}]
      /\ ContentInHand(scan[p]) /\ LocalOK(scan[p]) /\ EventsInHand(scan[p])
  BY DEF TypeOK, ScansOK, DbOK, OwnInv, EventsInv
<1>2. \A q \in Procs : q # p => scan'[q] = scan[q]
  BY <1>1 DEF DeleteTurns, InsertTurn, DeleteEvents, InsertEvent, Goto, Consume
<1>3. p \in Scanners
  BY DEF OwnInv, OpenersOpen, At, DeleteTurns, InsertTurn, DeleteEvents, InsertEvent
<1>4. PICK f \in Files : f = scan[p].file
  BY <1>1 DEF LocalOK, Filing, Deleting, At, DeleteTurns, InsertTurn, DeleteEvents, InsertEvent
<1>5. \A g \in Files : \A t \in TurnsOf(g) : <<g, t>> \in Rows
  BY RowsType
<1>6. \A S : (toolEvents' = toolEvents /\ EventsAre(f, S)) => EventsAre(f, S)'
  BY DEF EventsAre
<1>7. CASE DeleteTurns(p)
  <2>1. /\ scan[p].pc = "delTurns" /\ scan'[p].pc = "delInvocations" /\ scan'[p].file = f
        /\ toolEvents' = toolEvents
        /\ turns' = [k \in Rows |-> IF k[1] = f THEN 0 ELSE turns[k]]
    BY <1>1, <1>4, <1>7 DEF DeleteTurns, At, Goto, Local
  <2>2. \A g \in Files : g # f => \A t \in TurnsOf(g) : turns'[<<g, t>>] = turns[<<g, t>>]
    BY <1>5, <2>1
  <2>3. EventsInHand(scan[p])'
    BY <2>1 DEF EventsInHand
  <2> QED
    BY <1>2, <1>3, <1>4, <2>1, <2>2, <2>3, OneFileStep
<1>8. CASE InsertTurn(p)
  <2>1. PICK t \in scan[p].pend :
            /\ scan[p].pc = "insert" /\ toolEvents' = toolEvents
            /\ turns' = IF Collides(t) THEN turns ELSE [turns EXCEPT ![<<f, t>>] = @ + 1]
            /\ scan' = [scan EXCEPT ![p] = [scan[p] EXCEPT !.pend = @ \ {t}]]
    BY <1>1, <1>4, <1>8 DEF InsertTurn, At, Consume
  <2>2. \A g \in Files : g # f => \A u \in TurnsOf(g) : turns'[<<g, u>>] = turns[<<g, u>>]
    BY <1>1, <1>5, <2>1
  <2>3. scan'[p].pc = "insert" /\ scan'[p].file = f
    BY <1>1, <1>4, <2>1 DEF Local
  <2>4. EventsAre(f, {})'
    BY <1>1, <1>4, <1>6, <2>1 DEF EventsInHand
  <2>5. EventsInHand(scan[p])'
    BY <2>3, <2>4 DEF EventsInHand
  <2> QED
    BY <1>2, <1>3, <1>4, <2>1, <2>2, <2>3, <2>5, OneFileStep
<1>9. CASE DeleteEvents(p)
  <2>1. /\ scan[p].pc = "delEvents" /\ turns' = turns
        /\ scan'[p].pc \in {"forget", "parse"} /\ scan'[p].file = f
        /\ toolEvents' = [u \in ToolIds |->
                            IF toolEvents[u] # None /\ toolEvents[u].src = f
                            THEN None ELSE toolEvents[u]]
    BY <1>1, <1>4, <1>9 DEF DeleteEvents, At, Goto, Local
  <2>2. \A u \in ToolIds : \/ toolEvents'[u] = toolEvents[u]
                           \/ /\ toolEvents[u] # None => toolEvents[u].src = f
                              /\ toolEvents'[u] = None
    BY <2>1
  <2>3. EventsAre(f, {})'
    BY <2>1 DEF EventsAre
  <2>4. EventsInHand(scan[p])'
    BY <2>1, <2>3 DEF EventsInHand
  <2> QED
    BY <1>2, <1>3, <1>4, <2>1, <2>2, <2>4, OneFileStep
<1>10. CASE InsertEvent(p)
  <2> DEFINE c == scan[p].content
             E == EventsOf(c)
             Row(e) == [src |-> f, session |-> e.session, cost |-> e.cost]
  <2>1. PICK e \in scan[p].pend :
            /\ scan[p].pc = "event" /\ turns' = turns
            /\ toolEvents' = IF toolEvents[e.tool] # None THEN toolEvents
                             ELSE [toolEvents EXCEPT ![e.tool] = Row(e)]
            /\ scan' = [scan EXCEPT ![p] = [scan[p] EXCEPT !.pend = @ \ {e}]]
    BY <1>1, <1>4, <1>10 DEF InsertEvent, At, Consume
  <2>2. scan[p].pend \subseteq E /\ EventsAre(f, E \ scan[p].pend) /\ e \in E
    BY <1>1, <1>4, <2>1 DEF EventsInHand
  <2>3. c \in OwnFiles[f]
    <3>1. c # <<>>
      BY <2>2, NothingParsed
    <3> QED
      BY <1>1, <1>4, <2>1, <3>1 DEF ContentInHand
  <2>4. E \subseteq EventItem
    BY <1>4, <2>3, OwnContents, BatchTypes
  <2>5. \A d \in E : d.tool \in ToolIds /\ (d.tool = e.tool => d = e)
    BY <2>2, <2>3, <2>4, OwnToolsApart DEF EventItem
  <2>6. toolEvents[e.tool] = None
    <3> SUFFICES ASSUME toolEvents[e.tool] # None PROVE FALSE
      OBVIOUS
    <3>1. e.tool \in ToolIds
      BY <2>2, <2>5
    <3> DEFINE g == toolEvents[e.tool].src
    <3>2. g \in Files
      BY <1>1, <3>1 DEF EventRow
    <3>3. PICK d \in OwnFiles[g] : \E h \in EventsOf(d) : h.tool = e.tool
      BY <3>1 DEF EventsInv, EventsOwn, OwnTool
    <3> HIDE DEF g
    <3>4. g = f
      BY <2>2, <2>3, <3>2, <3>3, OwnToolsApart
    <3>5. \E h \in E \ scan[p].pend : h.tool = e.tool
      BY <2>2, <3>1, <3>4 DEF EventsAre, g
    <3> QED
      BY <2>1, <2>5, <3>5
  <2>7. toolEvents' = [toolEvents EXCEPT ![e.tool] = Row(e)]
    BY <2>1, <2>6
  <2>8. /\ toolEvents'[e.tool] = Row(e)
        /\ \A u \in ToolIds : u # e.tool => toolEvents'[u] = toolEvents[u]
    BY <1>1, <2>2, <2>5, <2>7
  <2>9. Row(e).src = f
    OBVIOUS
  <2>10. /\ scan'[p].pc = "event" /\ scan'[p].file = f /\ scan'[p].content = c
         /\ scan'[p].pend = scan[p].pend \ {e}
    BY <1>1, <1>4, <2>1 DEF Local
  <2>11. \A u \in ToolIds : (toolEvents'[u] # None /\ toolEvents'[u].src = f) =>
             \E d \in E \ (scan[p].pend \ {e}) : d.tool = u
    <3> SUFFICES ASSUME NEW u \in ToolIds, toolEvents'[u] # None, toolEvents'[u].src = f
                 PROVE  \E d \in E \ (scan[p].pend \ {e}) : d.tool = u
      OBVIOUS
    <3>1. CASE u = e.tool
      BY <2>2, <3>1
    <3>2. CASE u # e.tool
      BY <2>2, <2>8, <3>2 DEF EventsAre
    <3> QED
      BY <3>1, <3>2
  <2>12. \A d \in E \ (scan[p].pend \ {e}) : toolEvents'[d.tool] = Row(d)
    <3> SUFFICES ASSUME NEW d \in E \ (scan[p].pend \ {e})
                 PROVE  toolEvents'[d.tool] = Row(d)
      OBVIOUS
    <3>1. CASE d = e
      BY <2>8, <3>1
    <3>2. CASE d # e
      <4>1. d \in E \ scan[p].pend /\ d.tool # e.tool /\ d.tool \in ToolIds
        BY <2>5, <3>2
      <4> QED
        BY <2>2, <2>8, <4>1 DEF EventsAre
    <3> QED
      BY <3>1, <3>2
  <2>13. EventsInHand(scan[p])'
    BY <2>2, <2>10, <2>11, <2>12 DEF EventsInHand, EventsAre, Row
  <2>14. OwnTool(f, e.tool)
    BY <2>2, <2>3 DEF OwnTool
  <2>15. \A u \in ToolIds :
               \/ toolEvents'[u] = toolEvents[u]
               \/ /\ toolEvents[u] # None => toolEvents[u].src = f
                  /\ toolEvents'[u] # None => /\ toolEvents[u] = None
                                              /\ toolEvents'[u].src = f
                                              /\ OwnTool(f, u)
    BY <2>6, <2>8, <2>9, <2>14
  <2> QED
    BY <1>2, <1>3, <1>4, <2>1, <2>10, <2>13, <2>15, OneFileStep
<1> QED
  BY <1>7, <1>8, <1>9, <1>10

OwnEvents == part = "own" => EventsInv

LEMMA EventsNext ==
    ASSUME \A q, r \in Scanners : q = r
    PROVE  OneInv /\ OwnEvents /\ [Step]_<<vars, part>> => OwnEvents'
<1> SUFFICES ASSUME OneInv, OwnEvents, [Step]_<<vars, part>>, part = "own" PROVE EventsInv'
  BY DEF OwnEvents, Step, Behave
<1>1. TypeOK /\ OwnInv /\ EventsInv
  BY DEF OneInv, OwnEvents
<1>2. CASE UNCHANGED <<turns, toolEvents, scan>>
  BY <1>1, <1>2 DEF EventsInv, EventsOwn, EventsInHand, EventsAre, WorkedOn, Paired, RowsAre,
     OwnTool
<1>3. ASSUME NEW p \in Procs, ScanStep(p) PROVE EventsInv'
  BY <1>1, <1>3, EventsIdleStep, EventsLoopStep, EventsWriteStep DEF ScanStep
<1>4. ASSUME NEW f \in Files, WriteFile(f) \/ RemoveFile(f) PROVE EventsInv'
  BY <1>2, <1>4 DEF WriteFile, RemoveFile, db
<1>5. ASSUME NEW p \in Procs, Crash(p), Step PROVE FALSE
  BY <1>1, <1>5 DEF OwnInv, Crash, Step, Behave
<1> QED
  BY <1>2, <1>3, <1>4, <1>5 DEF Step, Next, vars, db

\* Of its own files, what one scanner stores of the tools is what it stores of the
\* turns: the events of a stored turn add up to its cost to the last unit, and no
\* event is left of a turn that is gone.
THEOREM OneScannerCosts ==
    ASSUME \A q, r \in Scanners : q = r
    PROVE  TwoSpec => []OwnToolCosts
<1>1. OneInv /\ OwnEvents => OwnToolCosts
  <2> SUFFICES ASSUME TypeOK, EventsInv, Quiet
               PROVE  ToolCostsAddUp
    BY DEF OneInv, OwnEvents, OwnToolCosts, ToolCostsAddUp
  <2>1. ASSUME NEW f \in Files PROVE Paired(f)
    <3>1. ~WorkedOn(f)
      BY DEF WorkedOn, Quiet, At, Working, Emptied, Stored
    <3> QED
      BY <3>1 DEF EventsInv
  <2>2. ASSUME NEW k \in Rows, turns[k] > 0, k[2].tools # <<>>,
               NEW used, used = { u \in ToolIds : \E i \in DOMAIN k[2].tools : k[2].tools[i] = u }
        PROVE  /\ \A u \in used : toolEvents[u] # None
               /\ MapThenSumSet(LAMBDA u : toolEvents[u].cost, used) = k[2].cost
    <3>1. PICK f \in Files : \E t \in TurnsOf(f) : k = <<f, t>>
      BY RowParts
    <3>2. PICK t \in TurnsOf(f) : k = <<f, t>>
      BY <3>1
    <3>3. PICK c \in OwnFiles[f] \cup {<<>>} :
              RowsAre(f, ParsedTurns(c)) /\ EventsAre(f, EventsOf(c))
      BY <2>1 DEF Paired
    <3>4. t \in ParsedTurns(c)
      BY <2>2, <3>2, <3>3 DEF RowsAre
    <3>5. t \in Line /\ c \in OwnFiles[f]
      BY <3>4, OwnContents, ParsedTurnsType, NothingParsed
    <3>6. ASSUME NEW i \in DOMAIN t.tools
          PROVE  /\ toolEvents[t.tools[i]] # None
                 /\ toolEvents[t.tools[i]].cost = Share(t, i)
      <4> DEFINE e == [tool |-> t.tools[i], session |-> t.session, cost |-> Share(t, i)]
      <4>1. e \in TurnEvents(t) /\ e \in EventsOf(c)
        BY <3>4 DEF TurnEvents, EventsOf
      <4>2. e \in EventItem
        BY <3>5, <4>1, TurnEventsType
      <4>3. toolEvents[e.tool] = [src |-> f, session |-> e.session, cost |-> e.cost]
        BY <3>3, <4>1 DEF EventsAre
      <4>4. toolEvents[e.tool] \in EventRow
        BY <4>2, <4>3 DEF EventRow, EventItem
      <4> QED
        BY <4>3, <4>4, EventAssumption
    <3>7. \A i, j \in DOMAIN t.tools : t.tools[i] = t.tools[j] => i = j
      BY <3>4, <3>5, OwnToolsAssumption
    <3>8. CostSum(toolEvents, used) = t.cost
      BY <2>2, <3>2, <3>5, <3>6, <3>7, SharesAddUp
    <3>9. MapThenSumSet(LAMBDA u : toolEvents[u].cost, used) = CostSum(toolEvents, used)
      BY DEF MapThenSumSet, MapThenFoldSet, CostSum, Summing, Pick
    <3> QED
      BY <2>2, <3>2, <3>6, <3>8, <3>9
  <2>3. ASSUME NEW u \in ToolIds, toolEvents[u] # None
        PROVE  \E k \in Rows : /\ turns[k] > 0
                               /\ k[1] = toolEvents[u].src
                               /\ \E i \in DOMAIN k[2].tools : k[2].tools[i] = u
    <3>1. PICK f \in Files : f = toolEvents[u].src
      BY <2>3 DEF TypeOK, DbOK, EventRow
    <3>2. PICK c \in OwnFiles[f] \cup {<<>>} :
              RowsAre(f, ParsedTurns(c)) /\ EventsAre(f, EventsOf(c))
      BY <2>1 DEF Paired
    <3>3. PICK e \in EventsOf(c) : e.tool = u
      BY <2>3, <3>1, <3>2 DEF EventsAre
    <3>4. PICK t \in ParsedTurns(c) : e \in TurnEvents(t)
      BY DEF EventsOf
    <3>5. \E i \in DOMAIN t.tools : t.tools[i] = u
      BY <3>3, <3>4 DEF TurnEvents
    <3>6. t \in TurnsOf(f) /\ <<f, t>> \in Rows
      BY <3>4, OwnContents, ParsedTurnsType, RowsType
    <3>7. turns[<<f, t>>] > 0
      BY <3>2, <3>4, <3>6 DEF RowsAre
    <3> QED
      BY <3>1, <3>5, <3>6, <3>7
  <2> QED
    BY <2>2, <2>3 DEF ToolCostsAddUp
<1>2. TwoInit => OneInv /\ OwnEvents
  BY OneInit, EventsInit DEF TwoInit, OwnEvents
<1>3. OneInv /\ OwnEvents /\ [Step]_<<vars, part>> => (OneInv /\ OwnEvents)'
  BY OneNext, EventsNext
<1> QED
  BY <1>1, <1>2, <1>3, PTL DEF TwoSpec

-----------------------------------------------------------------------------
(* Both sets of files, with one scanner: marks and mtimes.  Beside them,   *)
(* for the files that only grow: what scans leave of a message when they   *)
(* die half-way, and two files have it.                                    *)

LinesIn(c)  == { c[i] : i \in DOMAIN c }
LinesNow(f) == IF fs[f] = None THEN {} ELSE LinesIn(fs[f].content)
Messages(c) == { c[i].msg : i \in { j \in DOMAIN c : c[j].kind = "assistant" } } \ {NoId}

RowsWithin(f, S) == \A t \in TurnsOf(f) : turns[<<f, t>>] > 0 => t \in S
HasMessage(m)    == \E k \in Rows : k[2].msg = m /\ turns[k] > 0

\* The stages of a file whose mark was found to be another mtime.
Taken(l) == \/ l.pc \in Filing \ {"lookup"}
            \/ l.pc \in Deleting /\ l.stale = {}

\* The mtime in hand is after the mark of the file and not after its change.
TimesInHand(l) ==
    /\ l.pc = "lookup" \/ Taken(l) =>
          /\ l.mtime =< edits
          /\ fs[l.file] # None => l.mtime =< fs[l.file].mtime
          /\ processed[l.file] # None => processed[l.file] =< l.mtime
    /\ Taken(l) => processed[l.file] # l.mtime

\* The content in hand is the one of that mtime; a file that only grows still has
\* its lines.
LinesInHand(l) ==
    l.pc \in {"upsert", "insert"} \cup Stored =>
        /\ (fs[l.file] # None /\ fs[l.file].mtime = l.mtime) => fs[l.file].content = l.content
        /\ part = "shared" => LinesIn(l.content) \subseteq LinesNow(l.file)

\* A file that only grows is never stale.  Its messages are stored once its turns
\* are inserted, by this scan or from another file.
MessagesInHand(l) ==
    /\ l.stale = {}
    /\ l.pc = "list" => \A f \in Files : processed[f] # None => f \in l.todo
    /\ l.pc = "lookup" \/ Taken(l) => fs[l.file] # None
    /\ l.pc = "insert" =>
          /\ l.pend \subseteq ParsedTurns(l.content)
          /\ \A m \in Messages(l.content) : HasMessage(m) \/ \E t \in l.pend : t.msg = m
    /\ l.pc \in Stored => \A m \in Messages(l.content) : HasMessage(m)

\* A mark is not newer than its file.
MarkedBefore ==
    \A f \in Files :
        /\ fs[f] # None => fs[f].mtime =< edits
        /\ processed[f] # None => processed[f] =< edits
        /\ (fs[f] # None /\ processed[f] # None) => processed[f] =< fs[f].mtime

\* What is stored of a file are lines it has.
GrownRows == \A f \in Files : RowsWithin(f, LinesNow(f))

\* A message that is not stored is in a file that a scan will take.
Awaited(m) == \E g \in Files : /\ fs[g] # None /\ processed[g] # fs[g].mtime
                               /\ m \in Messages(fs[g].content)

MessagesKept ==
    \A f \in Files :
        /\ fs[f] = None => processed[f] = None
        /\ fs[f] # None => \A m \in Messages(fs[f].content) : HasMessage(m) \/ Awaited(m)

SharedInv == GrownRows /\ MessagesKept /\ \A p \in Procs : MessagesInHand(scan[p])

GrowthInv == /\ OpenersOpen /\ MarkedBefore
             /\ \A p \in Procs : TimesInHand(scan[p]) /\ LinesInHand(scan[p])
             /\ part = "shared" => SharedInv

\* No message has two rows.
StoredOnce ==
    \A j, k \in Rows : (j[2].msg = k[2].msg /\ j[2].msg # NoId /\ turns[j] > 0 /\ turns[k] > 0)
        => j = k /\ turns[j] = 1

-----------------------------------------------------------------------------
(* Facts about messages. *)

\* A bounded set of numbers that is not empty has a greatest element.
LEMMA GreatestNumber ==
    ASSUME NEW n \in Nat, NEW S, S \subseteq 0..n, S # {}
    PROVE  \E g \in S : \A i \in S : i =< g
<1> DEFINE Gaps == { n - i : i \in S }
<1>1. Gaps \subseteq Nat /\ Gaps # {}
  <2>1. \A i \in S : n - i \in Nat
    OBVIOUS
  <2> QED
    BY <2>1
<1> HIDE DEF Gaps
<1>2. PICK h \in Gaps : \A k \in Gaps : h <= k
  BY <1>1, LeastNumber
<1>3. PICK g \in S : h = n - g
  BY <1>2 DEF Gaps
<1>4. \A i \in S : n - i \in Gaps
  BY DEF Gaps
<1>5. \A i \in S : n - g =< n - i
  BY <1>2, <1>3, <1>4
<1> QED
  BY <1>5

\* A parsed turn is an assistant line; every message has a parsed turn, its last line.
LEMMA ParsedMessages ==
    ASSUME NEW f \in Files, NEW c \in Contents[f] \cup {<<>>}
    PROVE  /\ \A t \in ParsedTurns(c) : /\ t \in LinesIn(c)
                                        /\ t.msg # NoId => t.msg \in Messages(c)
           /\ \A m \in Messages(c) : \E t \in ParsedTurns(c) : t.msg = m
<1>1. ASSUME NEW t \in ParsedTurns(c)
      PROVE  t \in LinesIn(c) /\ (t.msg # NoId => t.msg \in Messages(c))
  <2>1. PICK i \in DOMAIN c : t = c[i] /\ c[i].kind = "assistant"
    BY DEF ParsedTurns, Kept
  <2> QED
    BY <2>1 DEF LinesIn, Messages
<1>2. ASSUME NEW m \in Messages(c) PROVE \E t \in ParsedTurns(c) : t.msg = m
  <2> DEFINE S == { i \in DOMAIN c : c[i].kind = "assistant" /\ c[i].msg = m }
  <2>1. S # {} /\ c \in Contents[f]
    BY DEF Messages
  <2>2. c \in Seq(Line)
    BY <2>1, ContentsAssumption
  <2>3. Len(c) \in Nat /\ DOMAIN c = 1..Len(c)
    BY <2>2
  <2>4. S \subseteq 0..Len(c)
    BY <2>3
  <2> HIDE DEF S
  <2>5. PICK i \in S : \A j \in S : j =< i
    BY <2>1, <2>3, <2>4, GreatestNumber
  <2>6. i \in Kept(c)
    BY <2>3, <2>5 DEF Kept, S
  <2> QED
    BY <2>5, <2>6 DEF ParsedTurns, S
<1> QED
  BY <1>1, <1>2

\* A content without sessions has no messages.
LEMMA NoMetasNoMessages ==
    ASSUME NEW f \in Files, NEW c \in Contents[f] \cup {<<>>}, Metas(c) = {}
    PROVE  Messages(c) = {}
BY ParsedMessages, NoMetasNoTurns

\* More lines, more messages.
LEMMA LinesHaveMessages ==
    ASSUME NEW c, NEW d, LinesIn(c) \subseteq LinesIn(d)
    PROVE  Messages(c) \subseteq Messages(d)
<1> SUFFICES ASSUME NEW i \in DOMAIN c, c[i].kind = "assistant", c[i].msg # NoId
             PROVE  c[i].msg \in Messages(d)
  BY DEF Messages
<1>1. PICK j \in DOMAIN d : c[i] = d[j]
  BY DEF LinesIn
<1> QED
  BY <1>1 DEF Messages

-----------------------------------------------------------------------------
(* The steps. *)

LEMMA GrowthInit == Init => GrowthInv /\ StoredOnce
<1> SUFFICES ASSUME Init PROVE GrowthInv /\ StoredOnce
  OBVIOUS
<1>1. \A f \in Files : fs[f] = None /\ processed[f] = None
  BY DEF Init
<1>2. \A k \in Rows : turns[k] = 0
  BY DEF Init
<1>3. \A p \in Procs : scan[p].pc = "idle" /\ scan[p].stale = {}
  BY DEF Init, Idle
<1>4. \A p \in Procs : /\ TimesInHand(scan[p]) /\ LinesInHand(scan[p]) /\ MessagesInHand(scan[p])
  BY <1>3 DEF TimesInHand, LinesInHand, MessagesInHand, Taken, Filing, Deleting, Stored
<1>5. OpenersOpen /\ MarkedBefore /\ GrownRows /\ MessagesKept /\ StoredOnce
  BY <1>1, <1>2, <1>3, RowsType
  DEF OpenersOpen, MarkedBefore, GrownRows, MessagesKept, RowsWithin, StoredOnce
<1> QED
  BY <1>4, <1>5 DEF GrowthInv, SharedInv

\* No message gets a second row, whoever inserts it: the unique index.
LEMMA StoredOnceNext == TypeOK /\ StoredOnce /\ [Next]_vars => StoredOnce'
<1> SUFFICES ASSUME TypeOK, StoredOnce, [Next]_vars PROVE StoredOnce'
  OBVIOUS
<1>1. turns \in [Rows -> Nat] /\ \A p \in Procs : LocalOK(scan[p])
  BY DEF TypeOK, DbOK, ScansOK
<1>2. ASSUME \A k \in Rows : turns'[k] = turns[k] \/ turns'[k] = 0 PROVE StoredOnce'
  BY <1>2 DEF StoredOnce
<1>3. ASSUME NEW p \in Procs, InsertTurn(p) PROVE StoredOnce'
  <2>1. PICK t \in scan[p].pend :
            /\ scan[p].pc = "insert"
            /\ turns' = IF Collides(t) THEN turns ELSE [turns EXCEPT ![<<scan[p].file, t>>] = @ + 1]
    BY <1>3 DEF InsertTurn, At
  <2> DEFINE r == <<scan[p].file, t>>
  <2>2. r \in Rows /\ r[2] = t
    BY <1>1, <2>1, RowsType DEF LocalOK, Filing
  <2>3. CASE Collides(t)
    BY <1>2, <2>1, <2>3
  <2>4. CASE ~Collides(t) /\ t.msg # NoId
    <3>1. \A k \in Rows : k[2].msg = t.msg => turns[k] = 0
      BY <1>1, <2>4 DEF Collides
    <3>2. \A k \in Rows : turns'[k] = IF k = r THEN turns[k] + 1 ELSE turns[k]
      BY <1>1, <2>1, <2>2, <2>4
    <3> HIDE DEF r
    <3> QED
      BY <2>2, <3>1, <3>2 DEF StoredOnce
  <2>5. CASE t.msg = NoId
    <3>1. \A k \in Rows : k[2].msg # NoId => turns'[k] = turns[k]
      BY <1>1, <2>1, <2>2, <2>5
    <3> QED
      BY <3>1 DEF StoredOnce
  <2> QED
    BY <2>3, <2>4, <2>5
<1>4. ASSUME NEW p \in Procs, DeleteTurns(p) PROVE StoredOnce'
  <2>1. \A k \in Rows : turns'[k] = turns[k] \/ turns'[k] = 0
    BY <1>4 DEF DeleteTurns
  <2> QED
    BY <1>2, <2>1
<1>5. CASE turns' = turns
  BY <1>5 DEF StoredOnce
<1>6. ASSUME NEW p \in Procs, ScanStep(p) \/ Crash(p)
      PROVE  InsertTurn(p) \/ DeleteTurns(p) \/ turns' = turns
  BY <1>6 DEF ScanStep, Crash, db, OpenDb, PruneOnOpen, Discover, ListProcessed, SweepNext, SweepDone,
     DeleteInvocations, DeleteEvents, DeleteProcessed, SkipVanished, StatFile, SkipUnchanged,
     TakeNew, TakeUpdated, ParseFile, UpsertSession, InsertInvocation, SyncTitle, InsertEvent,
     PhaseDone, MarkProcessed, FinishUnchanged, RecomputeTotals, DropEmptySessions
<1>7. ASSUME NEW f \in Files, WriteFile(f) \/ RemoveFile(f) PROVE turns' = turns
  BY <1>7 DEF WriteFile, RemoveFile, db
<1> QED
  BY <1>3, <1>4, <1>5, <1>6, <1>7 DEF Next, vars, db

\* A step of one process that leaves the files, the rows and the marks alone.
LEMMA GrowthQuiet ==
    ASSUME GrowthInv, NEW p \in Procs, UNCHANGED <<fs, edits, turns, processed, part>>,
           \A q \in Procs : q # p => scan'[q] = scan[q],
           p \notin Scanners => scan'[p].pc \in {"idle", "opened"},
           TimesInHand(scan[p])', LinesInHand(scan[p])',
           part = "shared" => MessagesInHand(scan[p])'
    PROVE  GrowthInv'
<1>1. ASSUME NEW q \in Procs PROVE TimesInHand(scan[q])' /\ LinesInHand(scan[q])'
  <2>1. CASE q # p
    BY <2>1 DEF GrowthInv, TimesInHand, LinesInHand, Taken, LinesNow
  <2> QED
    BY <2>1
<1>2. ASSUME part = "shared", NEW q \in Procs PROVE MessagesInHand(scan[q])'
  <2>1. CASE q # p
    BY <1>2, <2>1 DEF GrowthInv, SharedInv, MessagesInHand, Taken, HasMessage
  <2> QED
    BY <1>2, <2>1
<1>3. OpenersOpen' /\ MarkedBefore'
  BY DEF GrowthInv, OpenersOpen, MarkedBefore
<1>4. part = "shared" => GrownRows' /\ MessagesKept'
  BY DEF GrowthInv, SharedInv, GrownRows, RowsWithin, LinesNow, MessagesKept, HasMessage, Awaited
<1> QED
  BY <1>1, <1>2, <1>3, <1>4 DEF GrowthInv, SharedInv

\* Outside the file loop.
LEMMA GrowthIdle ==
    ASSUME TypeOK, GrowthInv, NEW p \in Procs, part' = part,
           \/ OpenDb(p) \/ PruneOnOpen(p) \/ Discover(p) \/ ListProcessed(p)
           \/ SweepNext(p) \/ SweepDone(p) \/ SkipVanished(p) \/ SkipUnchanged(p)
           \/ FinishUnchanged(p) \/ RecomputeTotals(p) \/ DropEmptySessions(p) \/ Crash(p)
    PROVE  GrowthInv'
<1> DEFINE L == scan[p]
           N == scan'[p]
<1> USE DEF Filing, Deleting, Stored
<1>1. /\ scan \in [Procs -> Local] /\ L \in Local
      /\ p \notin Scanners => L.pc \in {"idle", "opened"}
      /\ part = "shared" => /\ MessagesInHand(L)
                            /\ \A f \in Files : fs[f] = None => processed[f] = None
  BY DEF TypeOK, ScansOK, GrowthInv, OpenersOpen, SharedInv, MessagesKept
<1>2. UNCHANGED <<fs, edits, turns, processed, part>>
  BY DEF OpenDb, PruneOnOpen, Discover, ListProcessed, SweepNext, SweepDone, SkipVanished,
     SkipUnchanged, FinishUnchanged, RecomputeTotals, DropEmptySessions, Crash, db
<1>3. \A q \in Procs : q # p => scan'[q] = scan[q]
  BY <1>1 DEF OpenDb, PruneOnOpen, Discover, ListProcessed, SweepNext, SweepDone, SkipVanished,
     SkipUnchanged, FinishUnchanged, RecomputeTotals, DropEmptySessions, Crash, Goto
<1>4. /\ p \notin Scanners => N.pc \in {"idle", "opened"}
      /\ N.pc \notin Filing /\ (N.pc \in Deleting => N.stale # {})
      /\ part = "shared" => /\ N.stale = {}
                            /\ N.pc = "list" => \A f \in Files : processed[f] # None => f \in N.todo
  <2>1. CASE OpenDb(p) \/ FinishUnchanged(p) \/ DropEmptySessions(p) \/ Crash(p) \/ SkipUnchanged(p)
    BY <1>1, <2>1
    DEF OpenDb, FinishUnchanged, DropEmptySessions, Crash, SkipUnchanged, Idle, NextOf, At
  <2>2. CASE PruneOnOpen(p) \/ SweepDone(p) \/ RecomputeTotals(p)
    BY <1>1, <2>2 DEF PruneOnOpen, SweepDone, RecomputeTotals, At, Goto, Local, MessagesInHand
  <2>3. CASE Discover(p)
    <3>1. N.pc = "list" /\ N.stale = L.stale /\ N.todo = {f \in Files : fs[f] # None}
          /\ L.pc = "discover"
      BY <1>1, <2>3 DEF Discover, At, Local
    <3> QED
      BY <1>1, <3>1 DEF MessagesInHand
  <2>4. CASE ListProcessed(p)
    <3>1. N.pc = "sweep" /\ N.stale = {f \in Files : processed[f] # None} \ L.todo
          /\ L.pc = "list"
      BY <1>1, <2>4 DEF ListProcessed, At, Local
    <3> QED
      BY <1>1, <3>1 DEF MessagesInHand
  <2>5. CASE SkipVanished(p)
    <3>1. N.pc = "next" /\ N.stale = L.stale /\ L.pc = "next"
      BY <1>1, <2>5 DEF SkipVanished, At, Local
    <3> QED
      BY <1>1, <3>1 DEF MessagesInHand
  <2>6. CASE SweepNext(p)
    <3>1. PICK f \in L.stale :
              scan' = [scan EXCEPT ![p] = [L EXCEPT !.pc = "delTurns", !.file = f]]
      BY <2>6 DEF SweepNext
    <3>2. N.pc = "delTurns" /\ N.stale = L.stale /\ L.pc = "sweep"
      BY <1>1, <2>6, <3>1 DEF SweepNext, At, Local
    <3> QED
      BY <1>1, <3>1, <3>2 DEF MessagesInHand
  <2> QED
    BY <2>1, <2>2, <2>3, <2>4, <2>5, <2>6
<1>5. TimesInHand(scan[p])' /\ LinesInHand(scan[p])'
  BY <1>4 DEF TimesInHand, LinesInHand, Taken
<1>6. part = "shared" => MessagesInHand(scan[p])'
  BY <1>2, <1>4 DEF MessagesInHand, Taken
<1> QED
  BY <1>2, <1>3, <1>4, <1>5, <1>6, GrowthQuiet

\* Inside the file loop, without a change of rows or marks.
LEMMA GrowthLoop ==
    ASSUME TypeOK, GrowthInv, NEW p \in Procs, part' = part,
           \/ StatFile(p) \/ TakeNew(p) \/ TakeUpdated(p) \/ DeleteInvocations(p) \/ DeleteEvents(p)
           \/ ParseFile(p) \/ PhaseDone(p) \/ UpsertSession(p) \/ InsertInvocation(p)
           \/ SyncTitle(p) \/ InsertEvent(p)
    PROVE  GrowthInv'
<1> DEFINE L == scan[p]
           N == scan'[p]
<1> USE DEF Filing, Deleting, Stored
<1>1. /\ scan \in [Procs -> Local] /\ L \in Local /\ LocalOK(L)
      /\ TimesInHand(L) /\ LinesInHand(L)
      /\ part = "shared" => MessagesInHand(L)
  BY DEF TypeOK, ScansOK, GrowthInv, SharedInv
<1>2. UNCHANGED <<fs, edits, turns, processed, part>>
  BY DEF StatFile, TakeNew, TakeUpdated, DeleteInvocations, DeleteEvents, ParseFile, PhaseDone,
     UpsertSession, InsertInvocation, SyncTitle, InsertEvent, db
<1>3. \A q \in Procs : q # p => scan'[q] = scan[q]
  BY <1>1 DEF StatFile, TakeNew, TakeUpdated, DeleteInvocations, DeleteEvents, ParseFile, PhaseDone,
     UpsertSession, InsertInvocation, SyncTitle, InsertEvent, Goto, Consume
<1>4. p \in Scanners
  BY DEF GrowthInv, OpenersOpen, At, StatFile, TakeNew, TakeUpdated, DeleteInvocations, DeleteEvents,
     ParseFile, PhaseDone, UpsertSession, InsertInvocation, SyncTitle, InsertEvent
<1>5. SUFFICES /\ TimesInHand(scan[p])' /\ LinesInHand(scan[p])'
               /\ part = "shared" => MessagesInHand(scan[p])'
  BY <1>2, <1>3, <1>4, GrowthQuiet
<1>6. CASE StatFile(p)
  <2>1. PICK f \in L.todo : fs[f] # None /\ scan' = [scan EXCEPT ![p] = [L EXCEPT
                  !.pc = "lookup", !.todo = @ \ {f}, !.file = f, !.mtime = fs[f].mtime]]
    BY <1>6 DEF StatFile
  <2>2. N.pc = "lookup" /\ N.file = f /\ N.mtime = fs[f].mtime /\ f \in Files /\ N.stale = L.stale
    BY <1>1, <2>1 DEF Local
  <2>3. fs[f].mtime \in Nat
    BY <2>1, <2>2 DEF TypeOK, FilesOK
  <2>4. TimesInHand(scan[p])' /\ LinesInHand(scan[p])'
    BY <1>2, <2>1, <2>2, <2>3 DEF GrowthInv, MarkedBefore, TimesInHand, LinesInHand, Taken
  <2>5. part = "shared" => MessagesInHand(scan[p])'
    BY <1>1, <1>2, <2>1, <2>2 DEF MessagesInHand, Taken
  <2> QED
    BY <2>4, <2>5
<1>7. CASE TakeNew(p) \/ TakeUpdated(p)
  <2>1. /\ L.pc = "lookup" /\ N.pc \in {"parse", "delTurns"} /\ processed[L.file] # L.mtime
        /\ N.file = L.file /\ N.mtime = L.mtime /\ N.stale = L.stale
    <3>1. L.mtime \in Nat
      BY <1>1, <1>7 DEF TakeNew, TakeUpdated, At, LocalOK
    <3> QED
      BY <1>1, <1>7, <3>1, NoneAssumption DEF TakeNew, TakeUpdated, At, Goto, Local
  <2> QED
    BY <1>1, <1>2, <2>1 DEF TimesInHand, LinesInHand, MessagesInHand, Taken
<1>8. CASE DeleteInvocations(p) \/ DeleteEvents(p)
  <2>1. /\ L.pc \in Deleting /\ N.file = L.file /\ N.mtime = L.mtime /\ N.stale = L.stale
        /\ \/ N.pc \in Deleting
           \/ N.pc = "parse" /\ L.stale = {}
    BY <1>1, <1>8 DEF DeleteInvocations, DeleteEvents, At, Goto, Local
  <2> QED
    BY <1>1, <1>2, <2>1 DEF TimesInHand, LinesInHand, MessagesInHand, Taken
<1>9. CASE ParseFile(p)
  <2> DEFINE f == L.file
             c == IF fs[f] = None THEN <<>> ELSE fs[f].content
  <2>1. /\ L.pc = "parse" /\ f \in Files
        /\ scan' = [scan EXCEPT ![p] = [L EXCEPT
              !.pc = IF Metas(c) = {} THEN "mark" ELSE "upsert", !.content = c, !.pend = Metas(c)]]
    BY <1>1, <1>9 DEF ParseFile, At, LocalOK
  <2>2. fs[f] # None => c = fs[f].content
    OBVIOUS
  <2>3. LinesIn(c) = LinesNow(f)
    BY DEF LinesIn, LinesNow
  <2>4. c \in Contents[f] \cup {<<>>}
    BY <2>1 DEF TypeOK, FilesOK
  <2>5. Metas(c) = {} => Messages(c) = {}
    BY <2>1, <2>4, NoMetasNoMessages
  <2> HIDE DEF c
  <2>6. /\ N.pc = IF Metas(c) = {} THEN "mark" ELSE "upsert"
        /\ N.content = c /\ N.file = f /\ N.mtime = L.mtime /\ N.stale = L.stale
    BY <1>1, <2>1 DEF Local
  <2>7. TimesInHand(scan[p])'
    BY <1>1, <1>2, <2>1, <2>6 DEF TimesInHand, Taken
  <2>8. LinesInHand(scan[p])'
    BY <1>2, <2>2, <2>3, <2>6 DEF LinesInHand, LinesNow
  <2>9. part = "shared" => MessagesInHand(scan[p])'
    BY <1>1, <1>2, <2>1, <2>5, <2>6 DEF MessagesInHand, Taken
  <2> QED
    BY <2>7, <2>8, <2>9
<1>10. CASE PhaseDone(p)
  <2>1. /\ N.file = L.file /\ N.mtime = L.mtime /\ N.content = L.content /\ N.stale = L.stale
        /\ \/ L.pc = "upsert" /\ N.pc = "insert" /\ N.pend = ParsedTurns(L.content)
           \/ L.pc = "insert" /\ N.pc = "invoke" /\ L.pend = {}
           \/ L.pc \in {"invoke", "title", "event"} /\ N.pc \in Stored
    BY <1>1, <1>10 DEF PhaseDone, At, Local
  <2>2. TimesInHand(scan[p])'
    BY <1>1, <1>2, <2>1 DEF TimesInHand, Taken
  <2>3. LinesInHand(scan[p])'
    BY <1>1, <1>2, <2>1 DEF LinesInHand, LinesNow
  <2>4. \A m \in Messages(L.content) : \E t \in ParsedTurns(L.content) : t.msg = m
    <3>1. L.file \in Files /\ L.content \in Contents[L.file] \cup {<<>>}
      BY <1>1, <2>1 DEF LocalOK
    <3> QED
      BY <3>1, ParsedMessages
  <2>5. part = "shared" => MessagesInHand(scan[p])'
    BY <1>1, <1>2, <2>1, <2>4 DEF MessagesInHand, Taken, HasMessage
  <2> QED
    BY <2>2, <2>3, <2>5
<1>11. CASE UpsertSession(p) \/ InsertInvocation(p) \/ SyncTitle(p) \/ InsertEvent(p)
  <2>1. PICK x : scan' = [scan EXCEPT ![p] = [L EXCEPT !.pend = @ \ {x}]]
    BY <1>11 DEF UpsertSession, InsertInvocation, SyncTitle, InsertEvent, Consume
  <2>2. /\ N.file = L.file /\ N.mtime = L.mtime /\ N.content = L.content /\ N.stale = L.stale
        /\ N.pc = L.pc /\ L.pc \in {"upsert", "invoke", "title", "event"}
    BY <1>1, <1>11, <2>1 DEF UpsertSession, InsertInvocation, SyncTitle, InsertEvent, At, Local
  <2>3. TimesInHand(scan[p])'
    BY <1>1, <1>2, <2>2 DEF TimesInHand, Taken
  <2>4. LinesInHand(scan[p])'
    BY <1>1, <1>2, <2>2 DEF LinesInHand, LinesNow
  <2>5. part = "shared" => MessagesInHand(scan[p])'
    BY <1>1, <1>2, <2>2 DEF MessagesInHand, Taken, HasMessage
  <2> QED
    BY <2>3, <2>4, <2>5
<1> QED
  BY <1>6, <1>7, <1>8, <1>9, <1>10, <1>11

\* The writes of rows and marks.
LEMMA GrowthWrite ==
    ASSUME TypeOK, GrowthInv, \A q, r \in Scanners : q = r, NEW p \in Procs, part' = part,
           DeleteTurns(p) \/ InsertTurn(p) \/ DeleteProcessed(p) \/ MarkProcessed(p)
    PROVE  GrowthInv'
<1> DEFINE L == scan[p]
           N == scan'[p]
           f == L.file
<1> USE DEF Filing, Deleting, Stored
<1>1. /\ scan \in [Procs -> Local] /\ L \in Local /\ LocalOK(L)
      /\ TimesInHand(L) /\ LinesInHand(L)
      /\ part = "shared" => MessagesInHand(L) /\ SharedInv
      /\ turns \in [Rows -> Nat] /\ processed \in [Files -> Nat \cup {None}]
  BY DEF TypeOK, ScansOK, DbOK, GrowthInv, SharedInv
<1>2. UNCHANGED <<fs, edits, part>> /\ f \in Files
  BY <1>1 DEF DeleteTurns, InsertTurn, DeleteProcessed, MarkProcessed, At, LocalOK
<1>3. \A q \in Procs : q # p => scan'[q] = scan[q]
  BY <1>1 DEF DeleteTurns, InsertTurn, DeleteProcessed, MarkProcessed, Goto, Consume
<1>4. p \in Scanners /\ \A q \in Procs : q # p => scan[q].pc \in {"idle", "opened"}
  BY DEF GrowthInv, OpenersOpen, At, DeleteTurns, InsertTurn, DeleteProcessed, MarkProcessed
<1>5. ASSUME NEW q \in Procs, q # p
      PROVE  /\ TimesInHand(scan[q])' /\ LinesInHand(scan[q])'
             /\ part = "shared" => MessagesInHand(scan[q])'
  <2>1. part = "shared" => scan[q].stale = {}
    BY DEF GrowthInv, SharedInv, MessagesInHand
  <2> QED
    BY <1>2, <1>3, <1>4, <1>5, <2>1 DEF TimesInHand, LinesInHand, MessagesInHand, Taken
<1>6. OpenersOpen'
  BY <1>3, <1>4 DEF GrowthInv, OpenersOpen
<1>7. SUFFICES /\ MarkedBefore' /\ TimesInHand(scan[p])' /\ LinesInHand(scan[p])'
               /\ part = "shared" => GrownRows' /\ MessagesKept' /\ MessagesInHand(scan[p])'
  BY <1>2, <1>5, <1>6 DEF GrowthInv, SharedInv
<1>8. fs[f] # None => fs[f].mtime \in Nat
  BY <1>2 DEF TypeOK, FilesOK
<1>9. CASE DeleteTurns(p)
  <2>1. /\ L.pc = "delTurns" /\ N.pc = "delInvocations" /\ N.file = f
        /\ N.mtime = L.mtime /\ N.stale = L.stale
        /\ turns' = [k \in Rows |-> IF k[1] = f THEN 0 ELSE turns[k]]
        /\ processed' = processed
    BY <1>1, <1>9 DEF DeleteTurns, At, Goto, Local
  <2>2. MarkedBefore' /\ TimesInHand(scan[p])' /\ LinesInHand(scan[p])'
    BY <1>1, <1>2, <2>1 DEF GrowthInv, MarkedBefore, TimesInHand, LinesInHand, Taken
  <2>3. ASSUME part = "shared" PROVE GrownRows' /\ MessagesKept' /\ MessagesInHand(scan[p])'
    <3>1. \A g \in Files : \A t \in TurnsOf(g) : turns'[<<g, t>>] > 0 => turns[<<g, t>>] > 0
      BY <2>1, RowsType
    <3>2. GrownRows'
      BY <1>1, <1>2, <2>3, <3>1 DEF SharedInv, GrownRows, RowsWithin, LinesNow
    <3>3. fs[f] # None /\ processed[f] # fs[f].mtime
      <4>1. Taken(L) /\ fs[f] # None /\ L.mtime \in Nat
        BY <1>1, <2>1, <2>3 DEF MessagesInHand, Taken, LocalOK
      <4> QED
        BY <1>1, <1>8, <4>1, NoneAssumption DEF TimesInHand
    <3>4. \A m : Awaited(m) => Awaited(m)'
      BY <1>2, <2>1 DEF Awaited
    <3>5. ASSUME NEW m, HasMessage(m), m # NoId PROVE HasMessage(m)' \/ Awaited(m)'
      <4>1. PICK k \in Rows : k[2].msg = m /\ turns[k] > 0
        BY <3>5 DEF HasMessage
      <4>2. CASE k[1] # f
        BY <2>1, <4>1, <4>2 DEF HasMessage
      <4>3. CASE k[1] = f
        <5>1. PICK t \in TurnsOf(f) : k = <<f, t>>
          BY <4>3, RowParts
        <5>2. t \in LinesNow(f) /\ t.kind = "assistant"
          BY <1>1, <1>2, <2>3, <4>1, <5>1 DEF SharedInv, GrownRows, RowsWithin,
             TurnsOf, ParsedTurns, Kept
        <5>3. m \in Messages(fs[f].content)
          BY <3>3, <3>5, <4>1, <5>1, <5>2 DEF LinesNow, LinesIn, Messages
        <5> QED
          BY <1>2, <2>1, <3>3, <5>3 DEF Awaited
      <4> QED
        BY <4>2, <4>3
    <3>6. MessagesKept'
      <4>1. \A g \in Files : fs[g] = None => processed[g] = None
        BY <1>1, <2>3 DEF SharedInv, MessagesKept
      <4>2. ASSUME NEW g \in Files, fs[g] # None, NEW m \in Messages(fs[g].content)
            PROVE  HasMessage(m)' \/ Awaited(m)'
        <5>1. m # NoId
          BY DEF Messages
        <5>2. HasMessage(m) \/ Awaited(m)
          BY <1>1, <2>3, <4>2 DEF SharedInv, MessagesKept
        <5> QED
          BY <3>4, <3>5, <5>1, <5>2
      <4> QED
        BY <1>2, <2>1, <4>1, <4>2 DEF MessagesKept
    <3>7. MessagesInHand(scan[p])'
      BY <1>1, <1>2, <2>1, <2>3 DEF MessagesInHand, Taken
    <3> QED
      BY <3>2, <3>6, <3>7
  <2> QED
    BY <2>2, <2>3
<1>10. CASE InsertTurn(p)
  <2> DEFINE c == L.content
  <2>1. PICK t \in L.pend :
            /\ L.pc = "insert" /\ processed' = processed
            /\ turns' = IF Collides(t) THEN turns ELSE [turns EXCEPT ![<<f, t>>] = @ + 1]
            /\ scan' = [scan EXCEPT ![p] = [L EXCEPT !.pend = @ \ {t}]]
    BY <1>10 DEF InsertTurn, At, Consume
  <2>2. /\ N.pc = "insert" /\ N.file = f /\ N.content = c /\ N.mtime = L.mtime
        /\ N.pend = L.pend \ {t} /\ N.stale = L.stale
    BY <1>1, <2>1 DEF Local
  <2>3. MarkedBefore' /\ TimesInHand(scan[p])' /\ LinesInHand(scan[p])'
    BY <1>1, <1>2, <2>1, <2>2 DEF GrowthInv, MarkedBefore, TimesInHand, LinesInHand, LinesNow, Taken
  <2>4. ASSUME part = "shared" PROVE GrownRows' /\ MessagesKept' /\ MessagesInHand(scan[p])'
    <3>1. t \in TurnsOf(f) /\ <<f, t>> \in Rows /\ c \in Contents[f] \cup {<<>>}
      BY <1>1, <1>2, <2>1, RowsType DEF LocalOK
    <3>2. t \in ParsedTurns(c)
      BY <1>1, <2>1, <2>4 DEF MessagesInHand
    <3>3. t \in LinesNow(f)
      <4>1. t \in LinesIn(c)
        BY <1>2, <3>1, <3>2, ParsedMessages
      <4> QED
        BY <1>1, <2>1, <2>4, <4>1 DEF LinesInHand
    <3>4. \A k \in Rows : turns[k] > 0 => turns'[k] > 0
      BY <1>1, <2>1, <3>1
    <3>5. \A m : HasMessage(m) => HasMessage(m)'
      BY <3>4 DEF HasMessage
    <3>6. t.msg # NoId => HasMessage(t.msg)'
      <4>1. CASE t.msg # NoId /\ Collides(t)
        BY <3>5, <4>1 DEF Collides, HasMessage
      <4>2. CASE ~Collides(t)
        <5>1. turns'[<<f, t>>] > 0
          BY <1>1, <2>1, <3>1, <4>2
        <5> QED
          BY <3>1, <5>1 DEF HasMessage
      <4> QED
        BY <4>1, <4>2
    <3>7. GrownRows'
      <4> SUFFICES ASSUME NEW g \in Files, NEW u \in TurnsOf(g), turns'[<<g, u>>] > 0
                   PROVE  u \in LinesNow(g)
        BY <1>2 DEF GrownRows, RowsWithin, LinesNow
      <4>1. CASE g = f /\ u = t
        BY <3>3, <4>1
      <4>2. CASE ~(g = f /\ u = t)
        <5>1. turns'[<<g, u>>] = turns[<<g, u>>]
          <6>1. <<g, u>> # <<f, t>> /\ <<g, u>> \in Rows
            BY <4>2, RowsType
          <6> QED
            BY <1>1, <2>1, <6>1
        <5> QED
          BY <1>1, <2>4, <5>1 DEF SharedInv, GrownRows, RowsWithin
      <4> QED
        BY <4>1, <4>2
    <3>8. MessagesKept'
      BY <1>1, <1>2, <2>1, <2>4, <3>5 DEF SharedInv, MessagesKept, Awaited
    <3>9. MessagesInHand(scan[p])'
      <4>1. \A m \in Messages(c) : HasMessage(m)' \/ \E u \in N.pend : u.msg = m
        <5> SUFFICES ASSUME NEW m \in Messages(c), ~(\E u \in N.pend : u.msg = m)
                     PROVE  HasMessage(m)'
          OBVIOUS
        <5>1. HasMessage(m) \/ t.msg = m
          BY <1>1, <2>1, <2>2, <2>4 DEF MessagesInHand
        <5>2. m # NoId
          BY DEF Messages
        <5> QED
          BY <3>5, <3>6, <5>1, <5>2
      <4> QED
        BY <1>1, <1>2, <2>1, <2>2, <2>4, <4>1 DEF MessagesInHand, Taken
    <3> QED
      BY <3>7, <3>8, <3>9
  <2> QED
    BY <2>3, <2>4
<1>11. CASE DeleteProcessed(p)
  <2>1. /\ turns' = turns /\ processed' = [processed EXCEPT ![f] = None]
        /\ N.pc = "sweep" /\ L.pc = "forget" /\ N.stale = L.stale \ {f}
    BY <1>1, <1>11 DEF DeleteProcessed, At, Local
  <2>2. \A g \in Files : processed'[g] = IF g = f THEN None ELSE processed[g]
    BY <1>1, <2>1
  <2>3. MarkedBefore' /\ TimesInHand(scan[p])' /\ LinesInHand(scan[p])'
    BY <1>2, <2>1, <2>2 DEF GrowthInv, MarkedBefore, TimesInHand, LinesInHand, Taken
  <2>4. ASSUME part = "shared" PROVE GrownRows' /\ MessagesKept' /\ MessagesInHand(scan[p])'
    <3>1. GrownRows'
      BY <1>1, <1>2, <2>1, <2>4 DEF SharedInv, GrownRows, RowsWithin, LinesNow
    <3>2. \A m : (HasMessage(m) => HasMessage(m)') /\ (Awaited(m) => Awaited(m)')
      BY <1>2, <1>8, <2>1, <2>2, NoneAssumption DEF HasMessage, Awaited
    <3>3. MessagesKept'
      BY <1>1, <1>2, <2>2, <2>4, <3>2 DEF SharedInv, MessagesKept
    <3>4. MessagesInHand(scan[p])'
      BY <1>1, <2>1, <2>4 DEF MessagesInHand, Taken
    <3> QED
      BY <3>1, <3>3, <3>4
  <2> QED
    BY <2>3, <2>4
<1>12. CASE MarkProcessed(p)
  <2>1. /\ L.pc = "mark" /\ turns' = turns /\ processed' = [processed EXCEPT ![f] = L.mtime]
        /\ N.pc = "next" /\ N.stale = {}
    BY <1>1, <1>12 DEF MarkProcessed, At, NextOf
  <2>2. /\ L.mtime =< edits /\ (fs[f] # None => L.mtime =< fs[f].mtime)
        /\ (fs[f] # None /\ fs[f].mtime = L.mtime) => fs[f].content = L.content
    BY <1>1, <2>1 DEF TimesInHand, LinesInHand, Taken
  <2>3. \A g \in Files : processed'[g] = IF g = f THEN L.mtime ELSE processed[g]
    BY <1>1, <1>2, <2>1
  <2>4. MarkedBefore' /\ TimesInHand(scan[p])' /\ LinesInHand(scan[p])'
    BY <1>2, <2>1, <2>2, <2>3 DEF GrowthInv, MarkedBefore, TimesInHand, LinesInHand, Taken
  <2>5. ASSUME part = "shared" PROVE GrownRows' /\ MessagesKept' /\ MessagesInHand(scan[p])'
    <3>1. GrownRows'
      BY <1>1, <1>2, <2>1, <2>5 DEF SharedInv, GrownRows, RowsWithin, LinesNow
    <3>2. fs[f] # None /\ \A m \in Messages(L.content) : HasMessage(m)
      BY <1>1, <2>1, <2>5 DEF MessagesInHand, Taken
    <3>3. \A m : HasMessage(m) => HasMessage(m)'
      BY <2>1 DEF HasMessage
    <3>4. ASSUME NEW m, Awaited(m) PROVE HasMessage(m)' \/ Awaited(m)'
      <4>1. PICK g \in Files : fs[g] # None /\ processed[g] # fs[g].mtime
                               /\ m \in Messages(fs[g].content)
        BY <3>4 DEF Awaited
      <4>2. CASE g = f /\ fs[f].mtime = L.mtime
        BY <2>2, <3>2, <3>3, <4>1, <4>2
      <4>3. CASE ~(g = f /\ fs[f].mtime = L.mtime)
        BY <1>2, <2>3, <4>1, <4>3 DEF Awaited
      <4> QED
        BY <4>2, <4>3
    <3>5. MessagesKept'
      BY <1>1, <1>2, <2>3, <2>5, <3>2, <3>3, <3>4 DEF SharedInv, MessagesKept
    <3>6. MessagesInHand(scan[p])'
      BY <2>1 DEF MessagesInHand, Taken
    <3> QED
      BY <3>1, <3>5, <3>6
  <2> QED
    BY <2>4, <2>5
<1> QED
  BY <1>9, <1>10, <1>11, <1>12

\* A change of a file makes its mtime later than every mark and every mtime in
\* hand; a file that only grows keeps its lines.
LEMMA GrowthChange ==
    ASSUME TypeOK, GrowthInv, NEW f \in Files, WriteFile(f) \/ RemoveFile(f), part' = part,
           part = "shared" => \A g \in Files : fs[g] # None /\ fs'[g] # fs[g] =>
                fs'[g] # None /\ Extends(fs[g].content, fs'[g].content)
    PROVE  GrowthInv'
<1>1. /\ fs \in [Files -> [content : AllContents, mtime : Nat] \cup {None}]
      /\ edits \in Nat /\ processed \in [Files -> Nat \cup {None}]
      /\ \A q \in Procs : LocalOK(scan[q])
  BY BoundsAssumption DEF TypeOK, FilesOK, DbOK, ScansOK
<1>2. UNCHANGED <<turns, processed, sessions, scan, part>> /\ edits' = edits + 1
  BY DEF WriteFile, RemoveFile, db
<1>3. \A g \in Files : \/ fs'[g] = fs[g]
                       \/ fs'[g] = None
                       \/ fs'[g].mtime = edits + 1
  BY <1>1 DEF WriteFile, RemoveFile
<1>4. ASSUME part = "shared", NEW g \in Files PROVE LinesNow(g) \subseteq LinesNow(g)'
  <2>1. CASE fs[g] = None \/ fs'[g] = fs[g]
    BY <2>1 DEF LinesNow
  <2>2. CASE fs[g] # None /\ fs'[g] # fs[g]
    <3>1. fs'[g] # None /\ Extends(fs[g].content, fs'[g].content)
      BY <1>4, <2>2
    <3>2. fs[g].content \in Contents[g] /\ fs'[g].content \in Contents[g]
      <4>1. FilesOK'
        BY FilesNext
      <4> QED
        BY <2>2, <3>1, <4>1 DEF TypeOK, FilesOK
    <3>3. DOMAIN fs[g].content \subseteq DOMAIN fs'[g].content
      BY <3>1, <3>2, ContentsAssumption DEF Extends
    <3>4. LinesIn(fs[g].content) \subseteq LinesIn(fs'[g].content)
      BY <3>1, <3>3 DEF Extends, LinesIn
    <3> QED
      BY <2>2, <3>1, <3>4 DEF LinesNow
  <2> QED
    BY <2>1, <2>2
<1>5. \A g \in Files : processed[g] # None => processed[g] \in Nat /\ processed[g] =< edits
  BY <1>1 DEF GrowthInv, MarkedBefore
<1>6. MarkedBefore' /\ OpenersOpen'
  BY <1>1, <1>2, <1>3, <1>5 DEF GrowthInv, MarkedBefore, OpenersOpen
<1>7. ASSUME NEW q \in Procs PROVE TimesInHand(scan[q])' /\ LinesInHand(scan[q])'
  <2>1. TimesInHand(scan[q]) /\ LinesInHand(scan[q]) /\ LocalOK(scan[q])
    BY <1>1 DEF GrowthInv
  <2>2. (scan[q].pc = "lookup" \/ Taken(scan[q])) =>
            /\ scan[q].mtime \in Nat /\ scan[q].mtime =< edits /\ scan[q].file \in Files
    BY <2>1 DEF TimesInHand, LocalOK, Taken, Filing
  <2>3. TimesInHand(scan[q])'
    BY <1>1, <1>2, <1>3, <2>1, <2>2 DEF TimesInHand, Taken
  <2>4. LinesInHand(scan[q])'
    <3> SUFFICES ASSUME scan[q].pc \in {"upsert", "insert"} \cup Stored
                 PROVE  LinesInHand(scan[q])'
      BY <1>2 DEF LinesInHand
    <3>1. scan[q].mtime \in Nat /\ scan[q].mtime =< edits /\ scan[q].file \in Files
      BY <2>2 DEF Taken, Filing, Stored
    <3> QED
      BY <1>1, <1>2, <1>3, <1>4, <2>1, <3>1 DEF LinesInHand
  <2> QED
    BY <2>3, <2>4
<1>8. ASSUME part = "shared" PROVE SharedInv'
  <2>1. SharedInv /\ \A g \in Files : fs[g] # None =>
            fs'[g] # None /\ LinesIn(fs[g].content) \subseteq LinesIn(fs'[g].content)
    BY <1>4, <1>8 DEF GrowthInv, LinesNow
  <2>2. \A g \in Files : fs[g] # None =>
            fs'[g] # None /\ Messages(fs[g].content) \subseteq Messages(fs'[g].content)
    BY <2>1, LinesHaveMessages
  <2>3. \A g \in Files : fs'[g] # fs[g] => processed[g] # fs'[g].mtime
    BY <1>1, <1>3, <1>5, <2>2, NoneAssumption
  <2>4. GrownRows'
    BY <1>2, <1>4, <1>8, <2>1 DEF SharedInv, GrownRows, RowsWithin
  <2>5. \A m : (HasMessage(m) => HasMessage(m)') /\ (Awaited(m) => Awaited(m)')
    BY <1>2, <2>2, <2>3 DEF HasMessage, Awaited
  <2>6. MessagesKept'
    <3>1. \A g \in Files : fs'[g] = None => processed[g] = None
      BY <2>1 DEF SharedInv, MessagesKept
    <3>2. ASSUME NEW g \in Files, fs'[g] # None, NEW m \in Messages(fs'[g].content)
          PROVE  HasMessage(m)' \/ Awaited(m)'
      <4>1. CASE fs'[g] = fs[g]
        BY <2>1, <2>5, <3>2, <4>1 DEF SharedInv, MessagesKept
      <4>2. CASE fs'[g] # fs[g]
        BY <1>2, <2>3, <3>2, <4>2 DEF Awaited
      <4> QED
        BY <4>1, <4>2
    <3> QED
      BY <1>2, <3>1, <3>2 DEF MessagesKept
  <2>7. ASSUME NEW q \in Procs PROVE MessagesInHand(scan[q])'
    <3>1. MessagesInHand(scan[q]) /\ LocalOK(scan[q])
      BY <1>1, <2>1 DEF SharedInv
    <3>2. (scan[q].pc = "lookup" \/ Taken(scan[q])) => scan[q].file \in Files
      BY <3>1 DEF LocalOK, Taken, Filing, Deleting
    <3> QED
      BY <1>2, <2>2, <3>1, <3>2 DEF MessagesInHand, Taken, HasMessage
  <2> QED
    BY <2>4, <2>6, <2>7 DEF SharedInv
<1> QED
  BY <1>2, <1>6, <1>7, <1>8 DEF GrowthInv

LEMMA GrowthNext ==
    ASSUME \A q, r \in Scanners : q = r
    PROVE  OneInv /\ GrowthInv /\ [Step]_<<vars, part>> => GrowthInv'
<1> SUFFICES ASSUME OneInv, GrowthInv, [Step]_<<vars, part>> PROVE GrowthInv'
  OBVIOUS
<1>1. TypeOK /\ part' = part
  BY DEF OneInv, Step, Behave
<1>2. CASE Step
  <2>1. part = "shared" => \A g \in Files : fs[g] # None /\ fs'[g] # fs[g] =>
            fs'[g] # None /\ Extends(fs[g].content, fs'[g].content)
    BY <1>2 DEF Step, Behave
  <2>2. ASSUME NEW f \in Files, WriteFile(f) \/ RemoveFile(f) PROVE GrowthInv'
    BY <1>1, <2>1, <2>2, GrowthChange
  <2>3. ASSUME NEW p \in Procs, ScanStep(p) \/ Crash(p) PROVE GrowthInv'
    BY <1>1, <2>3, GrowthIdle, GrowthLoop, GrowthWrite DEF ScanStep
  <2> QED
    BY <1>2, <2>2, <2>3 DEF Step, Next
<1>3. CASE UNCHANGED <<vars, part>>
  <2>1. UNCHANGED <<fs, edits, turns, processed, scan, part>>
    BY <1>3 DEF vars, db
  <2>2. OpenersOpen' /\ MarkedBefore'
    BY <2>1 DEF GrowthInv, OpenersOpen, MarkedBefore
  <2>3. ASSUME NEW q \in Procs PROVE TimesInHand(scan[q])' /\ LinesInHand(scan[q])'
    BY <2>1 DEF GrowthInv, TimesInHand, LinesInHand, LinesNow, Taken
  <2>4. ASSUME part = "shared", NEW q \in Procs PROVE MessagesInHand(scan[q])'
    BY <2>1, <2>4 DEF GrowthInv, SharedInv, MessagesInHand, HasMessage, Taken
  <2>5. part = "shared" => GrownRows' /\ MessagesKept'
    BY <2>1 DEF GrowthInv, SharedInv, GrownRows, RowsWithin, LinesNow, MessagesKept, HasMessage,
       Awaited
  <2> QED
    BY <2>1, <2>2, <2>3, <2>4, <2>5 DEF GrowthInv, SharedInv
<1> QED
  BY <1>2, <1>3

\* One scanner that may die anywhere, and any number of processes that open the
\* database: when nothing runs and every file is marked with its mtime, each
\* message of a file has exactly one row, also if two files hold it.
THEOREM OneScannerMessages ==
    ASSUME \A q, r \in Scanners : q = r
    PROVE  TwoSpec => []MessagesOnce
<1>1. OneInv /\ GrowthInv /\ StoredOnce => MessagesOnce
  <2> SUFFICES ASSUME OneInv, GrowthInv, StoredOnce, Quiet, Current,
                      NEW f \in Files, NEW t \in TurnsNow(f), t.msg # NoId
               PROVE  \E k \in Rows : /\ k[2].msg = t.msg /\ turns[k] = 1
                                      /\ \A j \in Rows : j[2].msg = t.msg /\ turns[j] > 0 => j = k
    BY DEF MessagesOnce
  <2>1. TypeOK /\ part \in {"own", "shared"} /\ (part = "own" => OwnInv)
    BY DEF OneInv
  <2>2. fs[f] # None /\ t \in ParsedTurns(fs[f].content) /\ fs[f].content \in Contents[f]
    BY <2>1 DEF TurnsNow, TypeOK, FilesOK
  <2>3. HasMessage(t.msg)
    <3>1. CASE part = "own"
      <4>1. Settled(f)
        BY <2>1, <3>1 DEF OwnInv, WorkedOn, Quiet, At, Working, Emptied, Stored
      <4>2. RowsAre(f, ParsedTurns(fs[f].content))
        BY <2>2, <4>1 DEF Settled, Current
      <4>3. t \in TurnsOf(f)
        BY <2>2, ParsedTurnsType
      <4>4. turns[<<f, t>>] = 1 /\ <<f, t>> \in Rows
        BY <2>2, <4>2, <4>3, RowsType DEF RowsAre
      <4> QED
        BY <4>4 DEF HasMessage
    <3>2. CASE part = "shared"
      <4>1. t.msg \in Messages(fs[f].content)
        BY <2>2, ParsedMessages
      <4>2. ~Awaited(t.msg)
        BY DEF Awaited, Current
      <4> QED
        BY <2>2, <3>2, <4>1, <4>2 DEF GrowthInv, SharedInv, MessagesKept
    <3> QED
      BY <2>1, <3>1, <3>2
  <2>4. PICK k \in Rows : k[2].msg = t.msg /\ turns[k] > 0
    BY <2>3 DEF HasMessage
  <2> QED
    BY <2>4 DEF StoredOnce
<1>2. TwoInit => OneInv /\ GrowthInv /\ StoredOnce
  BY OneInit, GrowthInit DEF TwoInit
<1>3. OneInv /\ GrowthInv /\ StoredOnce /\ [Step]_<<vars, part>>
          => (OneInv /\ GrowthInv /\ StoredOnce)'
  <2>1. OneInv /\ [Step]_<<vars, part>> => TypeOK /\ [Next]_vars
    BY DEF OneInv, Step
  <2> QED
    BY <2>1, OneNext, GrowthNext, StoredOnceNext
<1> QED
  BY <1>1, <1>2, <1>3, PTL DEF TwoSpec

-----------------------------------------------------------------------------
(* Sessions: with one process at a time and each session in a file of its  *)
(* own.  The invariant says what the row of a session is at each stage.    *)

\* No two files have a line of the same session.
SessionsApart ==
    \A f, g \in Files : f # g =>
        \A c \in Contents[f], d \in Contents[g] :
            \A i \in DOMAIN c, j \in DOMAIN d : c[i].session # d[j].session

Windowed(c, s) == sessions[s] # None /\ sessions[s].span = Span(c, s)
TitledBy(c, s) == sessions[s] # None => (sessions[s].titled <=> s \in Titled(c))

\* The sessions written so far have the window and, later, the title of the content.
SessionsInHand(l) ==
    /\ l.pc = "upsert" =>
          /\ l.pend \subseteq Metas(l.content)
          /\ RowsWithin(l.file, LinesIn(l.content))
          /\ \A s \in Metas(l.content) \ l.pend : Windowed(l.content, s)
    /\ l.pc = "insert" =>
          /\ l.pend \subseteq ParsedTurns(l.content)
          /\ \A s \in Metas(l.content) : Windowed(l.content, s)
    /\ l.pc = "title" =>
          /\ l.pend \subseteq Metas(l.content)
          /\ \A s \in Metas(l.content) \ l.pend : TitledBy(l.content, s)
    /\ l.pc \in {"event", "mark"} => \A s \in Metas(l.content) : TitledBy(l.content, s)

\* The session of a stored turn is there, and its window has the turn.
Covered ==
    \A f \in Files : \A t \in TurnsOf(f) : turns[<<f, t>>] > 0 =>
        sessions[t.session] # None /\ t.ts \in sessions[t.session].span

TitlesKept ==
    \A f \in Files : (fs[f] # None /\ processed[f] = fs[f].mtime) =>
        \A s \in Metas(fs[f].content) : TitledBy(fs[f].content, s)

SessionsInv == Covered /\ TitlesKept /\ \A p \in Procs : SessionsInHand(scan[p])

\* A session without turns is listed only while some process owes its removal.
Listed == \A s \in Sessions : sessions[s] # None => HasTurns(s)
ListedInv == Listed \/ \E p \in Procs : Owes(scan[p]) \/ scan[p].pc \in {"opened", "drop"}

-----------------------------------------------------------------------------
(* Facts about lines and sessions. *)

\* A stored turn is an assistant line of a content its file may have.
LEMMA TurnIsLine ==
    ASSUME NEW f \in Files, NEW t \in TurnsOf(f)
    PROVE  \E c \in Contents[f] : \E i \in DOMAIN c : t = c[i] /\ c[i].kind = "assistant"
BY DEF TurnsOf, ParsedTurns, Kept

LEMMA TurnType ==
    ASSUME NEW f \in Files, NEW t \in TurnsOf(f)
    PROVE  t.session \in Sessions /\ t.ts \in Nat
<1>1. PICK c \in Contents[f] : \E i \in DOMAIN c : t = c[i]
  BY TurnIsLine
<1>2. c \in Seq(Line)
  BY <1>1, ContentsAssumption
<1>3. t \in Line
  BY <1>1, <1>2
<1> QED
  BY <1>3 DEF Line

LEMMA LineType ==
    ASSUME NEW f \in Files, NEW c \in Contents[f] \cup {<<>>}, NEW i \in DOMAIN c
    PROVE  c \in Contents[f] /\ c[i] \in Line
<1>1. c \in Contents[f]
  OBVIOUS
<1>2. c \in Seq(Line)
  BY <1>1, ContentsAssumption
<1> QED
  BY <1>1, <1>2

\* An assistant line counts for its session and lies in the session's window.
LEMMA AssistantLine ==
    ASSUME NEW f \in Files, NEW c \in Contents[f] \cup {<<>>}, NEW i \in DOMAIN c,
           c[i].kind = "assistant"
    PROVE  c[i].session \in Metas(c) /\ c[i].ts \in Span(c, c[i].session)
<1>1. c[i].session \in Sessions
  BY LineType DEF Line
<1>2. i \in MetaLines(c, c[i].session)
  BY DEF MetaLines
<1> QED
  BY <1>1, <1>2 DEF Metas, Span

\* Every parsed turn is such a line.
LEMMA ParsedLine ==
    ASSUME NEW f \in Files, NEW c \in Contents[f] \cup {<<>>}, NEW t \in ParsedTurns(c)
    PROVE  t \in LinesIn(c) /\ t.session \in Metas(c) /\ t.ts \in Span(c, t.session)
<1>1. PICK i \in DOMAIN c : t = c[i] /\ c[i].kind = "assistant"
  BY DEF ParsedTurns, Kept
<1> QED
  BY <1>1, AssistantLine DEF LinesIn

\* A session of a content of one file has no turns, and no lines, in another one.
LEMMA OneFile ==
    ASSUME SessionsApart, NEW f \in Files, NEW c \in Contents[f] \cup {<<>>},
           NEW s \in Metas(c), NEW g \in Files
    PROVE  /\ \A t \in TurnsOf(g) : t.session = s => g = f
           /\ \A d \in Contents[g] \cup {<<>>} : s \in Metas(d) \/ s \in Titled(d) => g = f
<1>1. PICK i \in DOMAIN c : c[i].session = s
  BY DEF Metas, MetaLines
<1>2. c \in Contents[f]
  BY <1>1
<1>3. ASSUME NEW d \in Contents[g], NEW j \in DOMAIN d, d[j].session = s PROVE g = f
  BY <1>1, <1>2, <1>3 DEF SessionsApart
<1>4. ASSUME NEW t \in TurnsOf(g), t.session = s PROVE g = f
  BY <1>3, <1>4, TurnIsLine
<1>5. ASSUME NEW d \in Contents[g] \cup {<<>>}, s \in Metas(d) \/ s \in Titled(d) PROVE g = f
  <2>1. PICK j \in DOMAIN d : d[j].session = s
    BY <1>5 DEF Metas, MetaLines, Titled
  <2> QED
    BY <1>3, <2>1
<1> QED
  BY <1>4, <1>5

-----------------------------------------------------------------------------
(* The steps. *)

LEMMA SessionsInit == Init => SessionsInv /\ ListedInv
<1> SUFFICES ASSUME Init PROVE SessionsInv /\ ListedInv
  OBVIOUS
<1>1. \A f \in Files : fs[f] = None /\ \A t \in TurnsOf(f) : turns[<<f, t>>] = 0
  BY RowsType DEF Init
<1>2. \A p \in Procs : SessionsInHand(scan[p])
  BY DEF Init, Idle, SessionsInHand
<1>3. Covered /\ TitlesKept /\ Listed
  BY <1>1 DEF Init, Covered, TitlesKept, Listed
<1> QED
  BY <1>2, <1>3 DEF SessionsInv, ListedInv

\* Opening the database and the end of a scan.
LEMMA RefreshStep ==
    ASSUME TypeOK, SessionsInv, \A q, r \in Procs : q = r, NEW p \in Procs,
           OpenDb(p) \/ RecomputeTotals(p) \/ PruneOnOpen(p) \/ DropEmptySessions(p)
    PROVE  SessionsInv'
<1>1. /\ UNCHANGED <<fs, edits, turns, processed>>
      /\ sessions' = RecomputedTotals \/ sessions' = PrunedSessions
  BY DEF OpenDb, RecomputeTotals, PruneOnOpen, DropEmptySessions
<1>2. scan \in [Procs -> Local] /\ sessions \in [Sessions -> SessionRow \cup {None}]
  BY DEF TypeOK, ScansOK, DbOK
<1>3. scan'[p].pc \in {"opened", "drop", "idle", "discover"}
  BY <1>2 DEF OpenDb, RecomputeTotals, PruneOnOpen, DropEmptySessions, Goto, Idle, Local
<1>4. \A q \in Procs : SessionsInHand(scan[q])'
  BY <1>3 DEF SessionsInHand
<1>5. \A s \in Sessions : \/ sessions'[s] = None
                          \/ /\ sessions[s] # None /\ sessions'[s] # None
                             /\ sessions'[s].span = sessions[s].span
                             /\ sessions'[s].titled = sessions[s].titled
  BY <1>1, <1>2 DEF RecomputedTotals, PrunedSessions, SessionRow
<1>6. \A s \in Sessions : sessions[s] # None /\ sessions'[s] = None => ~HasTurns(s)
  <2>1. CASE sessions' = RecomputedTotals
    <3> SUFFICES ASSUME NEW s \in Sessions, sessions[s] # None PROVE sessions'[s] # None
      BY <2>1
    <3>1. sessions[s] \in SessionRow /\ turns \in [Rows -> Nat]
      BY <1>2 DEF TypeOK, DbOK
    <3>2. sessions'[s] = [sessions[s] EXCEPT !.totals = RowsOf(s)]
      BY <2>1 DEF RecomputedTotals
    <3>3. sessions'[s] \in SessionRow
      BY <3>1, <3>2, RowsOfType DEF SessionRow
    <3> QED
      BY <3>3, RowAssumption
  <2>2. CASE sessions' = PrunedSessions
    BY <2>2 DEF PrunedSessions
  <2> QED
    BY <1>1, <2>1, <2>2
<1>7. Covered'
  <2> SUFFICES ASSUME NEW f \in Files, NEW t \in TurnsOf(f), turns[<<f, t>>] > 0
               PROVE  sessions'[t.session] # None /\ t.ts \in sessions'[t.session].span
    BY <1>1 DEF Covered
  <2>1. sessions[t.session] # None /\ t.ts \in sessions[t.session].span
    BY DEF SessionsInv, Covered
  <2>2. t.session \in Sessions
    BY TurnType
  <2>3. HasTurns(t.session)
    BY RowsType DEF HasTurns
  <2> QED
    BY <1>5, <1>6, <2>1, <2>2, <2>3
<1>8. TitlesKept'
  <2>1. \A c : \A s \in Metas(c) : s \in Sessions
    BY DEF Metas
  <2> QED
    BY <1>1, <1>5, <2>1 DEF SessionsInv, TitlesKept, TitledBy
<1> QED
  BY <1>4, <1>7, <1>8 DEF SessionsInv

\* The steps of a scan that write no turns, sessions or marks.
LEMMA ReadStep ==
    ASSUME OneInv, GrowthInv, SessionsInv, \A q, r \in Procs : q = r, NEW p \in Procs,
           \/ Discover(p) \/ ListProcessed(p) \/ SweepNext(p) \/ SweepDone(p)
           \/ SkipVanished(p) \/ StatFile(p) \/ SkipUnchanged(p) \/ TakeNew(p) \/ TakeUpdated(p)
           \/ ParseFile(p) \/ PhaseDone(p) \/ FinishUnchanged(p) \/ Crash(p)
           \/ DeleteInvocations(p) \/ DeleteEvents(p) \/ InsertInvocation(p) \/ InsertEvent(p)
    PROVE  SessionsInv'
<1> DEFINE L == scan[p]
           N == scan'[p]
<1>1. /\ TypeOK /\ scan \in [Procs -> Local] /\ L \in Local /\ LocalOK(L) /\ SessionsInHand(L)
      /\ part \in {"own", "shared"} /\ (part = "own" => OwnInv)
  BY DEF OneInv, TypeOK, ScansOK, SessionsInv
<1>2. UNCHANGED <<fs, turns, processed, sessions>>
  BY DEF Discover, ListProcessed, SweepNext, SweepDone, SkipVanished, StatFile, SkipUnchanged,
     TakeNew, TakeUpdated, ParseFile, PhaseDone, FinishUnchanged, Crash, DeleteInvocations,
     DeleteEvents, InsertInvocation, InsertEvent, db
<1>3. Covered' /\ TitlesKept'
  BY <1>2 DEF SessionsInv, Covered, TitlesKept, TitledBy
<1>4. SUFFICES SessionsInHand(scan[p])'
  BY <1>3 DEF SessionsInv
<1>5. CASE \/ Discover(p) \/ ListProcessed(p) \/ SweepDone(p) \/ SkipVanished(p)
           \/ FinishUnchanged(p) \/ Crash(p) \/ SkipUnchanged(p) \/ SweepNext(p) \/ StatFile(p)
           \/ TakeNew(p) \/ TakeUpdated(p) \/ DeleteInvocations(p) \/ DeleteEvents(p)
  <2>1. N.pc \notin {"upsert", "insert", "title", "event", "mark"}
    <3>1. CASE Discover(p) \/ ListProcessed(p) \/ SweepDone(p) \/ SkipVanished(p)
      BY <1>1, <3>1 DEF Discover, ListProcessed, SweepDone, SkipVanished, At, Goto, Local
    <3>2. CASE FinishUnchanged(p) \/ Crash(p) \/ SkipUnchanged(p)
      BY <1>1, <3>2 DEF FinishUnchanged, Crash, SkipUnchanged, Idle, NextOf
    <3>3. CASE SweepNext(p) \/ StatFile(p)
      <4>1. CASE SweepNext(p)
        <5>1. PICK f \in L.stale : scan' = [scan EXCEPT ![p] = [L EXCEPT !.pc = "delTurns", !.file = f]]
          BY <4>1 DEF SweepNext
        <5> QED
          BY <1>1, <5>1 DEF Local
      <4>2. CASE StatFile(p)
        <5>1. PICK f \in L.todo :
                  scan' = [scan EXCEPT ![p] = [L EXCEPT !.pc = "lookup", !.todo = @ \ {f},
                                                        !.file = f, !.mtime = fs[f].mtime]]
          BY <4>2 DEF StatFile
        <5> QED
          BY <1>1, <5>1 DEF Local
      <4> QED
        BY <3>3, <4>1, <4>2
    <3>4. CASE TakeNew(p) \/ TakeUpdated(p) \/ DeleteInvocations(p) \/ DeleteEvents(p)
      BY <1>1, <3>4 DEF TakeNew, TakeUpdated, DeleteInvocations, DeleteEvents, Goto, Local
    <3> QED
      BY <1>5, <3>1, <3>2, <3>3, <3>4
  <2> QED
    BY <2>1 DEF SessionsInHand
<1>6. CASE ParseFile(p)
  <2> DEFINE f == L.file
             c == IF fs[f] = None THEN <<>> ELSE fs[f].content
  <2>1. /\ L.pc = "parse" /\ f \in Files
        /\ scan' = [scan EXCEPT ![p] = [L EXCEPT
              !.pc = IF Metas(c) = {} THEN "mark" ELSE "upsert", !.content = c, !.pend = Metas(c)]]
    BY <1>1, <1>6 DEF ParseFile, At, LocalOK, Filing
  <2>2. LinesIn(c) = LinesNow(f)
    BY DEF LinesIn, LinesNow
  <2>3. RowsWithin(f, LinesIn(c))
    <3>1. CASE part = "own"
      <4>1. RowsAre(f, {})
        BY <1>1, <2>1, <3>1 DEF OwnInv, RowsInHand, Emptied
      <4> QED
        BY <4>1 DEF RowsAre, RowsWithin
    <3>2. CASE part = "shared"
      BY <2>1, <2>2, <3>2 DEF GrowthInv, SharedInv, GrownRows
    <3> QED
      BY <1>1, <3>1, <3>2
  <2> HIDE DEF c
  <2>4. /\ N.pc = IF Metas(c) = {} THEN "mark" ELSE "upsert"
        /\ N.content = c /\ N.pend = Metas(c) /\ N.file = f
    BY <1>1, <2>1 DEF Local
  <2> QED
    BY <1>2, <2>3, <2>4 DEF SessionsInHand, RowsWithin
<1>7. CASE PhaseDone(p)
  <2>1. /\ N.file = L.file /\ N.content = L.content /\ L.pend = {}
        /\ \/ L.pc = "upsert" /\ N.pc = "insert" /\ N.pend = ParsedTurns(L.content)
           \/ L.pc = "insert" /\ N.pc = "invoke"
           \/ L.pc = "invoke" /\ N.pc = "title" /\ N.pend = Metas(L.content)
           \/ L.pc = "title" /\ N.pc = "event"
           \/ L.pc = "event" /\ N.pc = "mark"
    BY <1>1, <1>7 DEF PhaseDone, At, Local
  <2> QED
    BY <1>1, <1>2, <2>1 DEF SessionsInHand, RowsWithin, Windowed, TitledBy
<1>8. CASE InsertInvocation(p) \/ InsertEvent(p)
  <2>1. PICK x : scan' = [scan EXCEPT ![p] = [L EXCEPT !.pend = @ \ {x}]]
    BY <1>8 DEF InsertInvocation, InsertEvent, Consume
  <2>2. N.content = L.content /\ N.pc = L.pc /\ L.pc \in {"invoke", "event"}
    BY <1>1, <1>8, <2>1 DEF InsertInvocation, InsertEvent, At, Local
  <2> QED
    BY <1>1, <1>2, <2>2 DEF SessionsInHand, TitledBy
<1> QED
  BY <1>5, <1>6, <1>7, <1>8

\* The deletion of rows and of a mark, and the mark at the end of a file.
LEMMA MarkStep ==
    ASSUME OneInv, GrowthInv, SessionsInv, \A q, r \in Procs : q = r, NEW p \in Procs,
           DeleteTurns(p) \/ DeleteProcessed(p) \/ MarkProcessed(p)
    PROVE  SessionsInv'
<1> DEFINE L == scan[p]
           f == L.file
<1>1. /\ TypeOK /\ scan \in [Procs -> Local] /\ L \in Local /\ LocalOK(L)
      /\ SessionsInHand(L) /\ LinesInHand(L)
      /\ turns \in [Rows -> Nat] /\ processed \in [Files -> Nat \cup {None}]
  BY DEF OneInv, TypeOK, ScansOK, DbOK, SessionsInv, GrowthInv
<1>2. UNCHANGED <<fs, sessions>> /\ f \in Files
  BY <1>1 DEF DeleteTurns, DeleteProcessed, MarkProcessed, At, LocalOK, Filing, Deleting
<1>3. scan'[p].pc \in {"delInvocations", "sweep", "next"}
  BY <1>1 DEF DeleteTurns, DeleteProcessed, MarkProcessed, Goto, NextOf, Local
<1>4. \A q \in Procs : SessionsInHand(scan[q])'
  BY <1>3 DEF SessionsInHand
<1>5. \A g \in Files : \A t \in TurnsOf(g) : turns'[<<g, t>>] > 0 => turns[<<g, t>>] > 0
  BY <1>1, RowsType DEF DeleteTurns, DeleteProcessed, MarkProcessed
<1>6. Covered'
  BY <1>2, <1>5 DEF SessionsInv, Covered
<1>7. TitlesKept'
  <2>1. CASE DeleteTurns(p)
    BY <1>2, <2>1 DEF DeleteTurns, SessionsInv, TitlesKept, TitledBy
  <2>2. CASE DeleteProcessed(p)
    <3>1. \A g \in Files : processed'[g] = processed[g] \/ processed'[g] = None
      BY <1>1, <2>2 DEF DeleteProcessed
    <3>2. \A g \in Files : fs[g] # None => fs[g].mtime # None
      BY <1>1, NoneAssumption DEF TypeOK, FilesOK
    <3> QED
      BY <1>2, <3>1, <3>2 DEF SessionsInv, TitlesKept, TitledBy
  <2>3. CASE MarkProcessed(p)
    <3>1. \A g \in Files : processed'[g] = IF g = f THEN L.mtime ELSE processed[g]
      BY <1>1, <1>2, <2>3 DEF MarkProcessed
    <3>2. /\ (fs[f] # None /\ fs[f].mtime = L.mtime) => fs[f].content = L.content
          /\ \A s \in Metas(L.content) : TitledBy(L.content, s)
      BY <1>1, <2>3 DEF MarkProcessed, At, LinesInHand, SessionsInHand, Stored
    <3> QED
      BY <1>2, <3>1, <3>2 DEF SessionsInv, TitlesKept, TitledBy
  <2> QED
    BY <2>1, <2>2, <2>3
<1> QED
  BY <1>4, <1>6, <1>7 DEF SessionsInv

\* A turn is inserted when its session has the window of the content in hand.
LEMMA InsertStep ==
    ASSUME OneInv, SessionsInv, \A q, r \in Procs : q = r, NEW p \in Procs, InsertTurn(p)
    PROVE  SessionsInv'
<1> DEFINE L == scan[p]
           N == scan'[p]
           f == L.file
           c == L.content
<1>1. /\ scan \in [Procs -> Local] /\ L \in Local /\ LocalOK(L) /\ SessionsInHand(L)
      /\ turns \in [Rows -> Nat]
  BY DEF OneInv, TypeOK, ScansOK, DbOK, SessionsInv
<1>2. PICK t \in L.pend :
          /\ L.pc = "insert"
          /\ turns' = IF Collides(t) THEN turns ELSE [turns EXCEPT ![<<f, t>>] = @ + 1]
          /\ scan' = [scan EXCEPT ![p] = [L EXCEPT !.pend = @ \ {t}]]
  BY DEF InsertTurn, At, Consume
<1>3. UNCHANGED <<fs, processed, sessions>> /\ f \in Files /\ c \in Contents[f] \cup {<<>>}
  BY <1>1, <1>2 DEF InsertTurn, LocalOK, Filing
<1>4. N.pc = "insert" /\ N.content = c /\ N.pend = L.pend \ {t}
  BY <1>1, <1>2 DEF Local
<1>5. /\ t \in ParsedTurns(c) /\ L.pend \subseteq ParsedTurns(c)
      /\ \A s \in Metas(c) : Windowed(c, s)
  BY <1>1, <1>2 DEF SessionsInHand
<1>6. t.session \in Metas(c) /\ t.ts \in Span(c, t.session)
  BY <1>3, <1>5, ParsedLine
<1>7. Covered'
  <2> SUFFICES ASSUME NEW g \in Files, NEW u \in TurnsOf(g), turns'[<<g, u>>] > 0
               PROVE  sessions[u.session] # None /\ u.ts \in sessions[u.session].span
    BY <1>3 DEF Covered
  <2>1. CASE g = f /\ u = t
    BY <1>5, <1>6, <2>1 DEF Windowed
  <2>2. CASE ~(g = f /\ u = t)
    <3>1. <<g, u>> \in Rows /\ <<g, u>> # <<f, t>>
      BY <2>2, RowsType
    <3>2. turns[<<g, u>>] > 0
      BY <1>1, <1>2, <3>1
    <3> QED
      BY <3>2 DEF SessionsInv, Covered
  <2> QED
    BY <2>1, <2>2
<1>8. TitlesKept'
  BY <1>3 DEF SessionsInv, TitlesKept, TitledBy
<1>9. \A q \in Procs : SessionsInHand(scan[q])'
  BY <1>3, <1>4, <1>5 DEF SessionsInHand, Windowed
<1> QED
  BY <1>7, <1>8, <1>9 DEF SessionsInv

\* The writes of session rows change sessions of the content in hand only, whose
\* file is not yet marked.
LEMMA SessionStep ==
    ASSUME TypeOK, GrowthInv, SessionsInv, SessionsApart, \A q, r \in Procs : q = r,
           NEW p \in Procs, UpsertSession(p) \/ SyncTitle(p)
    PROVE  SessionsInv'
<1> DEFINE L == scan[p]
           N == scan'[p]
           f == L.file
           c == L.content
<1> USE DEF Filing, Deleting, Stored
<1>1. /\ scan \in [Procs -> Local] /\ L \in Local /\ LocalOK(L)
      /\ TimesInHand(L) /\ SessionsInHand(L)
      /\ sessions \in [Sessions -> SessionRow \cup {None}]
      /\ processed \in [Files -> Nat \cup {None}]
  BY DEF TypeOK, ScansOK, DbOK, SessionsInv, GrowthInv
<1>2. PICK s \in L.pend :
          /\ scan' = [scan EXCEPT ![p] = [L EXCEPT !.pend = @ \ {s}]]
          /\ \/ /\ L.pc = "upsert"
                /\ sessions' = [sessions EXCEPT ![s] =
                      [totals |-> FileTotals(f, c, s), span |-> Span(c, s),
                       titled |-> sessions[s] # None /\ sessions[s].titled]]
             \/ /\ L.pc = "title"
                /\ sessions' = IF sessions[s] = None THEN sessions
                               ELSE [sessions EXCEPT ![s] =
                                       [totals |-> @.totals, span |-> @.span,
                                        titled |-> s \in Titled(c)]]
  BY DEF UpsertSession, SyncTitle, At, Consume
<1>3. UNCHANGED <<fs, processed, turns>> /\ f \in Files
      /\ c \in Contents[f] \cup {<<>>}
  BY <1>1, <1>2 DEF UpsertSession, SyncTitle, LocalOK
<1>4. /\ N.pc = L.pc /\ N.file = f /\ N.content = c
      /\ N.pend = L.pend \ {s}
  BY <1>1, <1>2 DEF Local
<1>5. s \in Metas(c) /\ s \in Sessions /\ L.pend \subseteq Metas(c)
  BY <1>1, <1>2 DEF SessionsInHand, Metas
<1>6. \A r \in Sessions : r # s => sessions'[r] = sessions[r]
  BY <1>1, <1>2
<1>7. /\ L.pc = "upsert" => sessions'[s] # None /\ sessions'[s].span = Span(c, s)
      /\ L.pc = "title" => \/ sessions'[s] = None /\ sessions[s] = None
                           \/ /\ sessions[s] # None /\ sessions'[s] # None
                              /\ sessions'[s].span = sessions[s].span
                              /\ sessions'[s].titled <=> s \in Titled(c)
  <2>1. CASE L.pc = "upsert"
    <3>1. sessions'[s] = [totals |-> FileTotals(f, c, s), span |-> Span(c, s),
                          titled |-> sessions[s] # None /\ sessions[s].titled]
      BY <1>1, <1>2, <1>5, <2>1
    <3>2. FileTotals(f, c, s) \in [Rows -> Nat] /\ Span(c, s) \in SUBSET Nat
      BY <1>3, SpanType DEF FileTotals
    <3>3. (sessions[s] # None /\ sessions[s].titled) \in BOOLEAN
      OBVIOUS
    <3>4. [totals |-> FileTotals(f, c, s), span |-> Span(c, s),
           titled |-> sessions[s] # None /\ sessions[s].titled] \in SessionRow
      <4> HIDE DEF L
      <4> QED
        BY <3>2, <3>3, Zenon DEF SessionRow
    <3> QED
      BY <2>1, <3>1, <3>4, RowAssumption
  <2>2. CASE L.pc = "title" /\ sessions[s] = None
    BY <1>2, <2>2
  <2>3. CASE L.pc = "title" /\ sessions[s] # None
    <3>1. sessions'[s] = [totals |-> sessions[s].totals, span |-> sessions[s].span,
                          titled |-> s \in Titled(c)]
      BY <1>1, <1>2, <1>5, <2>3
    <3>2. sessions[s] \in SessionRow
      BY <1>1, <1>5, <2>3
    <3>3. sessions[s].totals \in [Rows -> Nat] /\ sessions[s].span \in SUBSET Nat
      BY <3>2 DEF SessionRow
    <3>4. (s \in Titled(c)) \in BOOLEAN
      OBVIOUS
    <3>5. [totals |-> sessions[s].totals, span |-> sessions[s].span,
           titled |-> s \in Titled(c)] \in SessionRow
      <4> HIDE DEF L
      <4> QED
        BY <3>3, <3>4, Zenon DEF SessionRow
    <3>6. sessions'[s] # None
      BY <3>1, <3>5, RowAssumption
    <3>7. /\ sessions'[s].span = sessions[s].span
          /\ sessions'[s].titled <=> s \in Titled(c)
      <4>1. CASE s \in Titled(c)
        <5>1. sessions'[s] = [totals |-> sessions[s].totals, span |-> sessions[s].span,
                              titled |-> TRUE]
          BY <3>1, <4>1, Zenon
        <5> QED
          BY <4>1, <5>1
      <4>2. CASE s \notin Titled(c)
        <5>1. sessions'[s] = [totals |-> sessions[s].totals, span |-> sessions[s].span,
                              titled |-> FALSE]
          <6>1. (s \in Titled(c)) = FALSE
            BY <4>2
          <6> HIDE DEF L
          <6> QED
            BY <3>1, <6>1, Zenon
        <5> QED
          BY <4>2, <5>1
      <4> QED
        BY <4>1, <4>2
    <3> QED
      BY <2>3, <3>6, <3>7
  <2> QED
    BY <2>1, <2>2, <2>3
<1>8. Covered'
  <2> SUFFICES ASSUME NEW g \in Files, NEW u \in TurnsOf(g), turns[<<g, u>>] > 0
               PROVE  sessions'[u.session] # None /\ u.ts \in sessions'[u.session].span
    BY <1>3 DEF Covered
  <2>1. /\ sessions[u.session] # None /\ u.ts \in sessions[u.session].span
        /\ u.session \in Sessions
    BY TurnType DEF SessionsInv, Covered
  <2>2. CASE u.session # s
    BY <1>6, <2>1, <2>2
  <2>3. CASE u.session = s /\ L.pc = "title"
    BY <1>7, <2>1, <2>3
  <2>4. CASE u.session = s /\ L.pc = "upsert"
    <3>1. g = f
      BY <1>3, <1>5, <2>4, OneFile
    <3>2. u \in LinesIn(c)
      BY <1>1, <2>4, <3>1 DEF SessionsInHand, RowsWithin
    <3>3. PICK i \in DOMAIN c : u = c[i]
      BY <3>2 DEF LinesIn
    <3>4. c[i].kind = "assistant"
      BY <3>3, TurnIsLine
    <3>5. u.ts \in Span(c, s)
      BY <1>3, <2>4, <3>3, <3>4, AssistantLine
    <3> QED
      BY <1>7, <2>4, <3>5
  <2> QED
    BY <1>2, <2>2, <2>3, <2>4
<1>9. TitlesKept'
  <2> SUFFICES ASSUME NEW g \in Files, fs[g] # None, processed[g] = fs[g].mtime,
                      NEW r \in Metas(fs[g].content), sessions'[r] # None
               PROVE  sessions'[r].titled <=> r \in Titled(fs[g].content)
    BY <1>3 DEF TitlesKept, TitledBy
  <2>1. r \in Sessions /\ fs[g].content \in Contents[g]
    BY DEF Metas, TypeOK, FilesOK
  <2>2. g # f
    <3> SUFFICES ASSUME g = f PROVE FALSE
      OBVIOUS
    <3>1. /\ processed[f] # L.mtime /\ L.mtime =< fs[f].mtime
          /\ processed[f] # None => processed[f] =< L.mtime
      BY <1>1, <1>2 DEF TimesInHand, Taken
    <3>2. fs[f].mtime \in Nat /\ L.mtime \in Nat
      BY <1>1, <1>2, <1>3 DEF TypeOK, FilesOK, LocalOK
    <3> QED
      BY <3>1, <3>2, NoneAssumption
  <2>3. r # s
    BY <1>3, <1>5, <2>1, <2>2, OneFile
  <2> QED
    BY <1>6, <2>1, <2>3 DEF SessionsInv, TitlesKept, TitledBy
<1>10. SessionsInHand(scan[p])'
  <2>1. CASE L.pc = "upsert"
    <3>1. \A r \in Metas(c) \ N.pend : Windowed(c, r)'
      <4> SUFFICES ASSUME NEW r \in Metas(c) \ N.pend PROVE Windowed(c, r)'
        OBVIOUS
      <4>1. r \in Sessions
        BY DEF Metas
      <4>2. CASE r = s
        BY <1>4, <1>7, <2>1, <4>2 DEF Windowed
      <4>3. CASE r # s
        BY <1>1, <1>4, <1>6, <2>1, <4>1, <4>3 DEF SessionsInHand, Windowed
      <4> QED
        BY <4>2, <4>3
    <3>2. RowsWithin(f, LinesIn(c))'
      BY <1>1, <1>3, <1>4, <2>1 DEF SessionsInHand, RowsWithin
    <3> QED
      BY <1>4, <1>5, <2>1, <3>1, <3>2 DEF SessionsInHand
  <2>2. CASE L.pc = "title"
    <3>1. \A r \in Metas(c) \ N.pend : TitledBy(c, r)'
      <4> SUFFICES ASSUME NEW r \in Metas(c) \ N.pend PROVE TitledBy(c, r)'
        OBVIOUS
      <4>1. r \in Sessions
        BY DEF Metas
      <4>2. CASE r = s
        BY <1>4, <1>7, <2>2, <4>2 DEF TitledBy
      <4>3. CASE r # s
        BY <1>1, <1>4, <1>6, <2>2, <4>1, <4>3 DEF SessionsInHand, TitledBy
      <4> QED
        BY <4>2, <4>3
    <3> QED
      BY <1>4, <1>5, <2>2, <3>1 DEF SessionsInHand
  <2> QED
    BY <1>2, <2>1, <2>2
<1> QED
  BY <1>8, <1>9, <1>10 DEF SessionsInv

\* A change of a file makes its mtime later than its mark.
LEMMA ChangeStep ==
    ASSUME TypeOK, GrowthInv, SessionsInv, NEW f \in Files, WriteFile(f) \/ RemoveFile(f)
    PROVE  SessionsInv'
<1>1. /\ fs \in [Files -> [content : AllContents, mtime : Nat] \cup {None}]
      /\ edits \in Nat /\ processed \in [Files -> Nat \cup {None}]
  BY BoundsAssumption DEF TypeOK, FilesOK, DbOK
<1>2. UNCHANGED <<turns, processed, sessions, scan>>
  BY DEF WriteFile, RemoveFile, db
<1>3. \A g \in Files : fs'[g] = fs[g] \/ fs'[g] = None \/ fs'[g].mtime = edits + 1
  BY <1>1 DEF WriteFile, RemoveFile
<1>4. \A g \in Files : processed[g] # None => processed[g] \in Nat /\ processed[g] =< edits
  BY <1>1 DEF GrowthInv, MarkedBefore
<1>5. TitlesKept'
  BY <1>1, <1>2, <1>3, <1>4, NoneAssumption DEF SessionsInv, TitlesKept, TitledBy
<1>6. Covered' /\ \A q \in Procs : SessionsInHand(scan[q])'
  BY <1>2 DEF SessionsInv, Covered, SessionsInHand, RowsWithin, Windowed, TitledBy
<1> QED
  BY <1>5, <1>6 DEF SessionsInv

\* A session without turns is listed only while a process owes its removal.
LEMMA ListedNext == TypeOK /\ ListedInv /\ [Next]_vars => ListedInv'
<1> SUFFICES ASSUME TypeOK, ListedInv, [Next]_vars PROVE ListedInv'
  OBVIOUS
<1> DEFINE Due(l) == Owes(l) \/ l.pc \in {"opened", "drop"}
<1>1. /\ scan \in [Procs -> Local]
      /\ \A q \in Procs : scan[q] \in Local
  BY DEF TypeOK, ScansOK
<1>2. UNCHANGED <<turns, sessions>> => (Listed => Listed')
  BY DEF Listed, HasTurns
<1>3. ASSUME NEW f \in Files, WriteFile(f) \/ RemoveFile(f) PROVE ListedInv'
  BY <1>2, <1>3 DEF WriteFile, RemoveFile, db, ListedInv
<1>4. CASE UNCHANGED vars
  BY <1>2, <1>4 DEF vars, db, ListedInv
<1>5. ASSUME NEW p \in Procs, Due(scan'[p]) PROVE ListedInv'
  BY <1>5 DEF ListedInv
<1>6. ASSUME NEW p \in Procs, Listed => Listed', \A q \in Procs : q # p => scan'[q] = scan[q],
             Due(scan[p]) => Due(scan'[p])
      PROVE  ListedInv'
  <2>1. \A q \in Procs : Due(scan[q]) => Due(scan'[q])
    BY <1>6
  <2> QED
    BY <1>6, <2>1 DEF ListedInv
<1>7. ASSUME NEW p \in Procs, Crash(p) PROVE ListedInv'
  <2>1. scan'[p].pc = "dead"
    BY <1>1, <1>7 DEF Crash, Idle
  <2> QED
    BY <1>5, <2>1 DEF Owes, Writing
<1>8. ASSUME NEW p \in Procs, ScanStep(p) PROVE ListedInv'
  <2> DEFINE L == scan[p]
  <2>1. L \in Local
    BY <1>1
  <2>2. CASE PruneOnOpen(p) \/ DropEmptySessions(p)
    <3>1. sessions' = PrunedSessions /\ turns' = turns
      BY <2>2 DEF PruneOnOpen, DropEmptySessions
    <3>2. Listed'
      BY <3>1 DEF Listed, PrunedSessions, HasTurns
    <3> QED
      BY <3>2 DEF ListedInv
  <2>3. CASE OpenDb(p) \/ RecomputeTotals(p)
    <3>1. scan'[p].pc \in {"opened", "drop"}
      BY <1>1, <2>1, <2>3 DEF OpenDb, RecomputeTotals, Goto, Idle, Local
    <3> QED
      BY <1>5, <3>1
  <2>4. CASE DeleteTurns(p) \/ DeleteInvocations(p)
    <3>1. scan'[p].pc \in Writing
      BY <1>1, <2>4 DEF DeleteTurns, DeleteInvocations, Goto, Writing, Local
    <3> QED
      BY <1>5, <3>1 DEF Owes
  <2>5. CASE UpsertSession(p) \/ InsertTurn(p) \/ InsertInvocation(p) \/ SyncTitle(p) \/ InsertEvent(p)
    <3>1. \E x \in L.pend : scan' = [scan EXCEPT ![p].pend = @ \ {x}]
      BY <2>5 DEF UpsertSession, InsertTurn, InsertInvocation, SyncTitle, InsertEvent, Consume
    <3>2. L.pc \in Writing
      BY <2>5 DEF UpsertSession, InsertTurn, InsertInvocation, SyncTitle, InsertEvent, At, Writing
    <3>3. scan'[p].pc = L.pc
      BY <1>1, <3>1 DEF Local
    <3> QED
      BY <1>5, <3>2, <3>3 DEF Owes
  <2>6. CASE DeleteEvents(p) \/ DeleteProcessed(p)
    <3>1. CASE DeleteEvents(p) /\ L.stale # {}
      <4>1. scan'[p].pc = "forget"
        BY <1>1, <3>1 DEF DeleteEvents, Goto, Local
      <4> QED
        BY <1>5, <4>1 DEF Owes, Writing
    <3>2. CASE DeleteProcessed(p) \/ (DeleteEvents(p) /\ L.stale = {})
      <4>1. scan'[p].pc \in {"sweep", "parse"} /\ scan'[p].dirty = TRUE
        BY <1>1, <3>2 DEF DeleteEvents, DeleteProcessed, Local
      <4> QED
        BY <1>5, <4>1 DEF Owes, Looping
    <3> QED
      BY <2>6, <3>1, <3>2
  <2>7. CASE PhaseDone(p)
    <3>1. Owes(scan'[p])
      BY <1>1, <2>7 DEF PhaseDone, At, Owes, Writing, Looping, Local
    <3> QED
      BY <1>5, <3>1
  <2>8. CASE \/ SkipUnchanged(p) \/ MarkProcessed(p) \/ FinishUnchanged(p)
             \/ Discover(p) \/ ListProcessed(p) \/ SweepNext(p) \/ SweepDone(p)
             \/ SkipVanished(p) \/ StatFile(p) \/ TakeNew(p) \/ TakeUpdated(p) \/ ParseFile(p)
    <3>1. Listed => Listed'
      BY <1>2, <2>8 DEF SkipUnchanged, MarkProcessed, FinishUnchanged, Discover, ListProcessed,
         SweepNext, SweepDone, SkipVanished, StatFile, TakeNew, TakeUpdated, ParseFile, db
    <3>2. \A q \in Procs : q # p => scan'[q] = scan[q]
      BY <1>1, <2>8 DEF SkipUnchanged, MarkProcessed, FinishUnchanged, Discover, ListProcessed,
         SweepNext, SweepDone, SkipVanished, StatFile, TakeNew, TakeUpdated, ParseFile, Goto
    <3>3. Due(L) => Due(scan'[p])
      <4>1. CASE SkipUnchanged(p) \/ MarkProcessed(p)
        BY <1>1, <4>1 DEF SkipUnchanged, MarkProcessed, At, Owes, Writing, Looping, NextOf
      <4>2. CASE FinishUnchanged(p)
        BY <1>1, <4>2 DEF FinishUnchanged, At, Owes, Writing
      <4>3. CASE \/ Discover(p) \/ ListProcessed(p) \/ SweepNext(p) \/ SweepDone(p)
                 \/ SkipVanished(p) \/ StatFile(p) \/ TakeNew(p) \/ TakeUpdated(p)
                 \/ ParseFile(p)
        <5>1. /\ scan'[p].dirty = L.dirty
              /\ L.pc \notin Writing \cup {"opened", "drop"}
              /\ L.pc \in Looping => scan'[p].pc \in Looping \cup Writing
          <6>1. CASE Discover(p)
            BY <1>1, <6>1 DEF Discover, Goto, At, Local, Looping, Writing
          <6>2. CASE ListProcessed(p)
            BY <1>1, <6>2 DEF ListProcessed, Goto, At, Local, Looping, Writing
          <6>3. CASE SweepNext(p)
            BY <1>1, <6>3 DEF SweepNext, Goto, At, Local, Looping, Writing
          <6>4. CASE SweepDone(p)
            BY <1>1, <6>4 DEF SweepDone, Goto, At, Local, Looping, Writing
          <6>5. CASE SkipVanished(p)
            BY <1>1, <6>5 DEF SkipVanished, Goto, At, Local, Looping, Writing
          <6>6. CASE StatFile(p)
            BY <1>1, <6>6 DEF StatFile, Goto, At, Local, Looping, Writing
          <6>7. CASE TakeNew(p)
            BY <1>1, <6>7 DEF TakeNew, Goto, At, Local, Looping, Writing
          <6>8. CASE TakeUpdated(p)
            BY <1>1, <6>8 DEF TakeUpdated, Goto, At, Local, Looping, Writing
          <6>9. CASE ParseFile(p)
            BY <1>1, <6>9 DEF ParseFile, Goto, At, Local, Looping, Writing
          <6> QED
            BY <4>3, <6>1, <6>2, <6>3, <6>4, <6>5, <6>6, <6>7, <6>8, <6>9
        <5> QED
          BY <5>1 DEF Owes
      <4> QED
        BY <2>8, <4>1, <4>2, <4>3
    <3> QED
      BY <1>6, <3>1, <3>2, <3>3
  <2> QED
    BY <1>8, <2>2, <2>3, <2>4, <2>5, <2>6, <2>7, <2>8 DEF ScanStep
<1> QED
  BY <1>3, <1>4, <1>7, <1>8 DEF Next

LEMMA SessionsNext ==
    ASSUME \A q, r \in Procs : q = r, SessionsApart
    PROVE  OneInv /\ GrowthInv /\ SessionsInv /\ [Step]_<<vars, part>> => SessionsInv'
<1> SUFFICES ASSUME OneInv, GrowthInv, SessionsInv, [Step]_<<vars, part>> PROVE SessionsInv'
  OBVIOUS
<1>1. TypeOK
  BY DEF OneInv
<1>2. ASSUME NEW f \in Files, WriteFile(f) \/ RemoveFile(f) PROVE SessionsInv'
  BY <1>1, <1>2, ChangeStep
<1>3. ASSUME NEW p \in Procs, ScanStep(p) \/ Crash(p) PROVE SessionsInv'
  BY <1>1, <1>3, RefreshStep, ReadStep, MarkStep, InsertStep, SessionStep DEF ScanStep
<1>4. CASE UNCHANGED <<vars, part>>
  <2>1. UNCHANGED <<fs, turns, processed, sessions, scan>>
    BY <1>4 DEF vars, db
  <2> QED
    BY <2>1 DEF SessionsInv, Covered, TitlesKept, TitledBy, SessionsInHand, RowsWithin, Windowed
<1> QED
  BY <1>2, <1>3, <1>4 DEF Step, Next

\* With one process at a time, whether its scans die or not, and each session in
\* a file of its own: a session is listed exactly if it has turns, its window has
\* them all, and it is titled exactly if its transcript has a title.
THEOREM SessionsStayTrue ==
    ASSUME \A q, r \in Procs : q = r, SessionsApart
    PROVE  TwoSpec => []SessionsTrue
<1>1. OneInv /\ GrowthInv /\ SessionsInv /\ ListedInv => SessionsTrue
  <2> SUFFICES ASSUME OneInv, GrowthInv, SessionsInv, ListedInv, Quiet PROVE SessionsTrue
    BY DEF SessionsTrue, SessionsMatchTurns, WindowCoversTurns, TitleKept
  <2>1. TypeOK /\ part \in {"own", "shared"} /\ (part = "own" => OwnInv)
    BY DEF OneInv
  <2>2. \A k \in Rows : \E f \in Files : \E t \in TurnsOf(f) : k = <<f, t>>
    BY DEF Rows
  <2>3. Listed
    BY DEF ListedInv, Quiet, At, Owes, Writing, Looping
  <2>4. \A k \in Rows : turns[k] > 0 =>
            sessions[k[2].session] # None /\ k[2].ts \in sessions[k[2].session].span
    BY <2>2 DEF SessionsInv, Covered
  <2>5. SessionsMatchTurns
    BY <2>3, <2>4 DEF SessionsMatchTurns, Listed, HasTurns
  <2>6. WindowCoversTurns
    <3> SUFFICES ASSUME NEW s \in Sessions, sessions[s] # None,
                        NEW k \in Rows, k[2].session = s, turns[k] > 0
                 PROVE  \E lo, hi \in sessions[s].span : lo =< k[2].ts /\ k[2].ts =< hi
      BY DEF WindowCoversTurns
    <3>1. PICK f \in Files : \E t \in TurnsOf(f) : k = <<f, t>>
      BY <2>2
    <3>2. PICK t \in TurnsOf(f) : k = <<f, t>>
      BY <3>1
    <3>3. t.ts \in Nat
      BY TurnType
    <3>4. k[2].ts \in sessions[s].span
      BY <2>4
    <3> QED
      BY <3>2, <3>3, <3>4
  <2>7. TitleKept
    <3> SUFFICES ASSUME Current, NEW s \in Sessions, sessions[s] # None
                 PROVE  sessions[s].titled <=>
                            \E f \in Files : fs[f] # None /\ s \in Titled(fs[f].content)
      BY DEF TitleKept
    <3>1. PICK k \in Rows : k[2].session = s /\ turns[k] > 0
      BY <2>3 DEF Listed, HasTurns
    <3>2. PICK f \in Files : \E t \in TurnsOf(f) : k = <<f, t>>
      BY <2>2
    <3>3. PICK t \in TurnsOf(f) : k = <<f, t>>
      BY <3>2
    <3>4. t.session = s /\ turns[<<f, t>>] > 0
      BY <3>1, <3>3
    <3>5. processed[f] = IF fs[f] = None THEN None ELSE fs[f].mtime
      BY DEF Current
    <3>6. t \in LinesNow(f)
      <4>1. CASE part = "shared"
        BY <3>4, <4>1 DEF GrowthInv, SharedInv, GrownRows, RowsWithin
      <4>2. CASE part = "own"
        <5>1. Settled(f)
          BY <2>1, <4>2 DEF OwnInv, WorkedOn, Quiet, At, Working, Emptied, Stored
        <5>2. fs[f] # None /\ t \in ParsedTurns(fs[f].content)
          BY <3>4, <3>5, <5>1 DEF Settled, RowsAre
        <5> QED
          BY <5>2 DEF LinesNow, LinesIn, ParsedTurns, Kept
      <4> QED
        BY <2>1, <4>1, <4>2
    <3>7. fs[f] # None /\ fs[f].content \in Contents[f]
      BY <2>1, <3>6 DEF LinesNow, TypeOK, FilesOK
    <3>8. s \in Metas(fs[f].content)
      <4>1. PICK i \in DOMAIN fs[f].content : t = fs[f].content[i]
        BY <3>6, <3>7 DEF LinesNow, LinesIn
      <4>2. t.kind = "assistant"
        BY TurnIsLine
      <4> QED
        BY <3>4, <3>7, <4>1, <4>2, AssistantLine
    <3>9. sessions[s].titled <=> s \in Titled(fs[f].content)
      BY <3>5, <3>7, <3>8 DEF SessionsInv, TitlesKept, TitledBy
    <3>10. \A g \in Files : (fs[g] # None /\ s \in Titled(fs[g].content)) => g = f
      <4> SUFFICES ASSUME NEW g \in Files, fs[g] # None, s \in Titled(fs[g].content)
                   PROVE  g = f
        OBVIOUS
      <4>1. fs[g].content \in Contents[g]
        BY <2>1 DEF TypeOK, FilesOK
      <4> QED
        BY <3>7, <3>8, <4>1, OneFile
    <3> QED
      BY <3>7, <3>9, <3>10
  <2> QED
    BY <2>5, <2>6, <2>7 DEF SessionsTrue
<1>2. TwoInit => OneInv /\ GrowthInv /\ SessionsInv /\ ListedInv
  BY OneInit, GrowthInit, SessionsInit DEF TwoInit
<1>3. OneInv /\ GrowthInv /\ SessionsInv /\ ListedInv /\ [Step]_<<vars, part>>
          => (OneInv /\ GrowthInv /\ SessionsInv /\ ListedInv)'
  <2>1. \A q, r \in Scanners : q = r
    BY DEF Procs
  <2>2. OneInv /\ [Step]_<<vars, part>> => TypeOK /\ [Next]_vars
    BY DEF OneInv, Step
  <2> QED
    BY <2>1, <2>2, OneNext, GrowthNext, SessionsNext, ListedNext
<1> QED
  BY <1>1, <1>2, <1>3, PTL DEF TwoSpec
=============================================================================
