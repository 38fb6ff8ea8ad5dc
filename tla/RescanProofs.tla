---------------------------- MODULE RescanProofs ----------------------------
(***************************************************************************)
(* Proofs about Rescan: its type invariant, and that a rescan keeps the     *)
(* history it owes until a client hangs up or a swap is broken off.         *)
(***************************************************************************)
EXTENDS Rescan, TLAPS

USE DEF names, ghosts, counts, vars

(* The parts of the inductive invariant. *)

\* A rescan that works holds the lock.
Exclusive == \A q \in Requests : run[q].pc \notin {"idle", "wait"} => dbLock = q

\* The two names never refer to one database, and nobody but the rescan has the
\* temporary one open.
TempPrivate == temp # None => temp # live /\ \A w \in Writers : conn[w] # temp

InTemp(r) == temp # None /\ content[temp][r] # "absent"

\* A merge works on the two named databases, and has copied what is owed of the
\* tables it has passed.
MergeSound ==
    \A q \in Requests : At(q, "merge") =>
        /\ run[q].db = temp
        /\ run[q].att = live
        /\ \A r \in owed : Overlooks(q, r) => InTemp(r)

\* What is owed is in the temporary database before the live one is removed.
SwapReady ==
    \A q \in Requests : run[q].pc \in {"unlink", "rename"} => \A r \in owed : InTemp(r)

\* What is owed is not for the scan to read again.
OwedLive == owed \cap FromFiles = {}

Rest == Exclusive /\ TempPrivate /\ MergeSound /\ SwapReady /\ OwedKept /\ OwedLive

Unbroken == ~torn /\ disconnects = 0

RescanInv == TypeOK /\ (Unbroken => Rest)

-----------------------------------------------------------------------------
(* Types *)

Local == [pc : Stages, db : Inodes \cup {None}, att : Inodes \cup {None}, merged : 0..5]

\* The states of a request that no step computes: none is left half typed.
LEMMA EndedType == Ended \in Local /\ [Ended EXCEPT !.pc = "unlink"] \in Local
<1>1. Ended \in Local
    BY DEF Ended, Local, Stages
<1>2. [Ended EXCEPT !.pc = "unlink"] = [pc |-> "unlink", db |-> None, att |-> None, merged |-> 0]
    BY DEF Ended
<1> QED BY <1>1, <1>2 DEF Local, Stages

\* Moving a request to another stage keeps the types of its record, and a merge
\* has its databases open if it had them.
LEMMA GotoType ==
    ASSUME TypeOK, NEW q \in Requests, NEW s \in Stages, s # "merge", Goto(q, s)
    PROVE  /\ run' \in [Requests -> Local]
           /\ \A p \in Requests : run'[p].pc = "merge" => {run'[p].db, run'[p].att} \subseteq Inodes
BY DEF TypeOK, Goto, Local, Stages, At

\* A request that ends keeps the types, too.
LEMMA FinishType ==
    ASSUME TypeOK, NEW q \in Requests, Finish(q)
    PROVE  /\ run' \in [Requests -> Local]
           /\ \A p \in Requests : run'[p].pc = "merge" => {run'[p].db, run'[p].att} \subseteq Inodes
           /\ dbLock' \in Requests \cup {None}
BY EndedType DEF TypeOK, Finish, Local, Stages, At, Ended

\* Opening a name yields an inode and leaves well-typed databases.
LEMMA OpenType ==
    ASSUME TypeOK, NEW name \in {live, temp}, NEW i \in Inodes, content' = Emptied(name, i)
    PROVE  content' \in [Inodes -> [Rows -> {"absent", "whole", "cut"}]]
BY DEF TypeOK, Emptied, Empty

\* So does the scan, which fills the database it opens with rows of files.
LEMMA ScanType ==
    ASSUME TypeOK, NEW i \in Inodes, NEW found \in SUBSET FromFiles,
           content' = [Emptied(temp, i) EXCEPT ![i] =
                         [r \in Rows |-> IF r \in found THEN "whole" ELSE @[r]]]
    PROVE  content' \in [Inodes -> [Rows -> {"absent", "whole", "cut"}]]
<1>1. Emptied(temp, i) \in [Inodes -> [Rows -> {"absent", "whole", "cut"}]]
    BY DEF TypeOK, Emptied, Empty
<1> QED BY <1>1

\* The initial state has the types.
LEMMA TypeInit == Init => TypeOK
<1> SUFFICES ASSUME Init PROVE TypeOK
    OBVIOUS
<1>1. run \in [Requests -> Local]
    BY EndedType DEF Init
<1>2. \A q \in Requests : ~At(q, "merge")
    BY DEF Init, At, Ended
<1>3. content \in [Inodes -> [Rows -> {"absent", "whole", "cut"}]]
    BY DEF Init, Empty
<1>4. torn \in BOOLEAN
    BY DEF Init
<1>5. /\ live = None /\ temp = None /\ dbLock = None
      /\ conn = [w \in Writers |-> None]
      /\ committed = {} /\ owed = {}
      /\ asked = 0 /\ crashes = 0 /\ disconnects = 0
    BY DEF Init
<1> QED BY <1>1, <1>2, <1>3, <1>4, <1>5, RescanBounds DEF TypeOK, Local

\* Every step keeps the types.
LEMMA TypeNext == TypeOK /\ [Next]_vars => TypeOK'
<1> SUFFICES ASSUME TypeOK, [Next]_vars PROVE TypeOK'
    OBVIOUS
<1> USE RescanBounds
<1>1. ASSUME NEW w \in Writers, OpenLiveDb(w) PROVE TypeOK'
    <2>1. PICK i \in Inodes : Opens(live, i) /\ content' = Emptied(live, i) /\ live' = i
                              /\ conn' = [conn EXCEPT ![w] = i]
        BY <1>1 DEF OpenLiveDb
    <2>2. content' \in [Inodes -> [Rows -> {"absent", "whole", "cut"}]]
        BY <2>1, OpenType
    <2> QED BY <1>1, <2>1, <2>2 DEF OpenLiveDb, TypeOK, At
<1>2. ASSUME NEW w \in Writers, NEW r \in Rows, Insert(w, r) PROVE TypeOK'
    BY <1>2 DEF Insert, TypeOK, At
<1>3. ASSUME NEW w \in Writers, Close(w) PROVE TypeOK'
    BY <1>3 DEF Close, TypeOK, At
<1>4. ASSUME NEW q \in Requests, Ask(q) PROVE TypeOK'
    <2>1. Goto(q, "wait") /\ "wait" \in Stages
        BY <1>4 DEF Ask, Stages
    <2> QED BY <1>4, <2>1, GotoType DEF Ask, TypeOK, At, Local
<1>5. ASSUME NEW q \in Requests, Acquire(q) PROVE TypeOK'
    <2>1. Goto(q, "clean") /\ "clean" \in Stages
        BY <1>5 DEF Acquire, Stages
    <2> QED BY <1>5, <2>1, GotoType DEF Acquire, TypeOK, At, Local
<1>6. ASSUME NEW q \in Requests, Fail(q) PROVE TypeOK'
    BY <1>6, FinishType DEF Fail, TypeOK, At, Local
<1>7. ASSUME NEW q \in Requests, CleanTemp(q) PROVE TypeOK'
    <2>1. Goto(q, "scan") /\ "scan" \in Stages
        BY <1>7 DEF CleanTemp, Stages
    <2> QED BY <1>7, <2>1, GotoType DEF CleanTemp, TypeOK, At, Local
<1>8. ASSUME NEW q \in Requests, ScanTemp(q) PROVE TypeOK'
    <2>1. PICK i \in Inodes, found \in SUBSET FromFiles :
             /\ content' = [Emptied(temp, i) EXCEPT ![i] =
                               [r \in Rows |-> IF r \in found THEN "whole" ELSE @[r]]]
             /\ temp' = i
        BY <1>8 DEF ScanTemp
    <2>2. content' \in [Inodes -> [Rows -> {"absent", "whole", "cut"}]]
        BY <2>1, ScanType
    <2>3. Goto(q, "look") /\ "look" \in Stages
        BY <1>8 DEF ScanTemp, Stages
    <2> QED BY <1>8, <2>1, <2>2, <2>3, GotoType DEF ScanTemp, TypeOK, At, Local
<1>9. ASSUME NEW q \in Requests, LookForFiles(q) PROVE TypeOK'
    <2>1. CASE Finish(q)
        BY <1>9, <2>1, FinishType DEF LookForFiles, TypeOK, At, Local
    <2>2. ASSUME NEW s \in {"unlink", "migrate"}, Goto(q, s), UNCHANGED dbLock PROVE TypeOK'
        <3>1. s \in Stages /\ s # "merge"
            BY DEF Stages
        <3> QED BY <1>9, <2>2, <3>1, GotoType DEF LookForFiles, TypeOK, At, Local
    <2> QED BY <1>9, <2>1, <2>2 DEF LookForFiles
<1>10. ASSUME NEW q \in Requests, MigrateLive(q) PROVE TypeOK'
    <2>1. PICK i \in Inodes : content' = Emptied(live, i) /\ live' = i
        BY <1>10 DEF MigrateLive
    <2>2. content' \in [Inodes -> [Rows -> {"absent", "whole", "cut"}]]
        BY <2>1, OpenType
    <2>3. Goto(q, "attach") /\ "attach" \in Stages
        BY <1>10 DEF MigrateLive, Stages
    <2> QED BY <1>10, <2>1, <2>2, <2>3, GotoType DEF MigrateLive, TypeOK, At, Local
<1>11. ASSUME NEW q \in Requests, AttachLive(q) PROVE TypeOK'
    <2>1. PICK i \in Inodes :
             /\ content' = Emptied(temp, i)
             /\ temp' = i
             /\ run' = [run EXCEPT ![q] =
                    IF live = None THEN [Ended EXCEPT !.pc = "unlink"]
                    ELSE [pc |-> "merge", db |-> i, att |-> live, merged |-> 0]]
        BY <1>11 DEF AttachLive
    <2>2. content' \in [Inodes -> [Rows -> {"absent", "whole", "cut"}]]
        BY <2>1, OpenType
    <2>3. ASSUME live # None
          PROVE [pc |-> "merge", db |-> i, att |-> live, merged |-> 0] \in Local
        BY <2>3 DEF Local, Stages, TypeOK
    <2>4. run' \in [Requests -> Local]
        BY <2>1, <2>3, EndedType DEF TypeOK, Local
    <2>5. \A p \in Requests : run'[p].pc = "merge" => {run'[p].db, run'[p].att} \subseteq Inodes
        BY <2>1 DEF TypeOK, Ended, At
    <2> QED BY <1>11, <2>1, <2>2, <2>4, <2>5 DEF AttachLive, TypeOK, At, Local
<1>12. ASSUME NEW q \in Requests, MergeNext(q) PROVE TypeOK'
    <2> DEFINE table == MergeOrder[run[q].merged + 1]
    <2>1. {run[q].db, run[q].att} \subseteq Inodes
        BY <1>12 DEF MergeNext, TypeOK
    <2>2. Merged(q, table) \in [Rows -> {"absent", "whole", "cut"}]
        BY <2>1 DEF Merged, Copied, TypeOK
    <2>3. content' \in [Inodes -> [Rows -> {"absent", "whole", "cut"}]]
        BY <1>12, <2>2 DEF MergeNext, TypeOK
    <2>4. run' \in [Requests -> Local]
        BY <1>12 DEF MergeNext, TypeOK, Local
    <2>5. \A p \in Requests : run'[p].pc = "merge" => {run'[p].db, run'[p].att} \subseteq Inodes
        BY <1>12 DEF MergeNext, TypeOK, At
    <2> QED BY <1>12, <2>3, <2>4, <2>5 DEF MergeNext, TypeOK, At, Local
<1>13. ASSUME NEW q \in Requests, Detach(q) PROVE TypeOK'
    <2>1. run' \in [Requests -> Local]
        BY <1>13, EndedType DEF Detach, TypeOK, Local
    <2>2. \A p \in Requests : run'[p].pc = "merge" => {run'[p].db, run'[p].att} \subseteq Inodes
        BY <1>13 DEF Detach, TypeOK, At, Ended
    <2> QED BY <1>13, <2>1, <2>2 DEF Detach, TypeOK, At, Local
<1>14. ASSUME NEW q \in Requests, UnlinkLive(q) PROVE TypeOK'
    <2>1. Goto(q, "rename") /\ "rename" \in Stages
        BY <1>14 DEF UnlinkLive, Stages
    <2> QED BY <1>14, <2>1, GotoType DEF UnlinkLive, TypeOK, At, Local
<1>15. ASSUME NEW q \in Requests, RenameTemp(q) PROVE TypeOK'
    BY <1>15, FinishType DEF RenameTemp, TypeOK, At, Local
<1>16. ASSUME NEW q \in Requests, Disconnect(q) PROVE TypeOK'
    <2>1. CASE Goto(q, "idle") /\ UNCHANGED dbLock
        <3>1. "idle" \in Stages
            BY DEF Stages
        <3> QED BY <1>16, <2>1, <3>1, GotoType DEF Disconnect, TypeOK, At, Local
    <2>2. CASE dbLock' = None /\ UNCHANGED run
        BY <1>16, <2>2 DEF Disconnect, TypeOK, At
    <2> QED BY <1>16, <2>1, <2>2 DEF Disconnect
<1>17. CASE Crash
    <2>1. run' \in [Requests -> Local]
        BY <1>17, EndedType DEF Crash
    <2>2. \A q \in Requests : run'[q].pc # "merge"
        BY <1>17 DEF Crash, Ended
    <2> QED BY <1>17, <2>1, <2>2 DEF Crash, TypeOK, At, Local
<1>18. CASE UNCHANGED vars
    BY <1>18 DEF TypeOK, At
<1>19. ASSUME NEW q \in Requests, BreakOff(q) PROVE TypeOK'
    BY <1>19, FinishType DEF BreakOff, TypeOK, At, Local
<1> QED BY <1>1, <1>2, <1>3, <1>4, <1>5, <1>6, <1>7, <1>8, <1>9, <1>10, <1>11, <1>12, <1>13,
          <1>14, <1>15, <1>16, <1>17, <1>18, <1>19 DEF Next, Step

\* Every reachable state of the rescan has the types of TypeOK, for any requests,
\* writers, rows, failures, crashes and clients that hang up.
THEOREM RescanTypes == Spec => []TypeOK
BY TypeInit, TypeNext, PTL DEF Spec

-----------------------------------------------------------------------------
(* What a rescan owes *)

\* A rescan that works is the only one.
LEMMA OnlyOne ==
    ASSUME Exclusive, NEW q \in Requests, run[q].pc \notin {"idle", "wait"},
           NEW p \in Requests, p # q
    PROVE  run[p].pc \in {"idle", "wait"}
BY RescanNone DEF Exclusive

\* Opening a name leaves every database alone that something refers to.
LEMMA OpenKeeps ==
    ASSUME TypeOK, NEW name \in {live, temp}, NEW i \in Inodes,
           Opens(name, i), content' = Emptied(name, i), NEW j \in Inodes, ~Free(j)
    PROVE  content'[j] = content[j]
BY DEF Opens, Emptied, TypeOK

\* The named databases are not free.
LEMMA NamesNotFree == ~Free(live) /\ ~Free(temp)
BY DEF Free

\* Opening a name yields the inode it names or one that nothing refers to.
LEMMA OpensWhat ==
    ASSUME NEW name, NEW i, Opens(name, i), name # i
    PROVE  name = None /\ Free(i)
BY DEF Opens

LEMMA RestInit == Init => Rest
BY RescanNone DEF Init, Rest, Exclusive, TempPrivate, MergeSound, SwapReady, OwedKept, OwedLive,
               Ended, At

\* What broke stays broken.
LEMMA StaysBroken == TypeOK /\ [Next]_vars /\ Unbroken' => Unbroken
<1> SUFFICES ASSUME TypeOK, [Next]_vars PROVE Unbroken' => Unbroken
    OBVIOUS
<1>1. ASSUME UNCHANGED <<disconnects, torn>> PROVE Unbroken' => Unbroken
    BY <1>1 DEF Unbroken
<1>2. ASSUME NEW w \in Writers, OpenLiveDb(w) \/ Close(w) \/ \E r \in Rows : Insert(w, r)
      PROVE  UNCHANGED <<disconnects, torn>>
    BY <1>2 DEF OpenLiveDb, Close, Insert
<1>3. ASSUME NEW q \in Requests, Ask(q) \/ Step(q) \/ Fail(q)
      PROVE  UNCHANGED <<disconnects, torn>> \/ ~Unbroken'
    BY <1>3 DEF Ask, Fail, Step, Acquire, CleanTemp, ScanTemp, LookForFiles, MigrateLive,
                AttachLive, MergeNext, Detach, UnlinkLive, RenameTemp, BreakOff, Unbroken
<1>4. ASSUME NEW q \in Requests, Disconnect(q) PROVE Unbroken' => Unbroken
    BY <1>4 DEF Disconnect, Unbroken, TypeOK
<1>5. ASSUME Crash PROVE Unbroken' => Unbroken
    <2>1. disconnects' = disconnects
        BY <1>5 DEF Crash
    <2>2. torn => torn'
        BY <1>5, Zenon DEF Crash
    <2> QED BY <2>1, <2>2, Zenon DEF Unbroken
<1> QED BY <1>1, <1>2, <1>3, <1>4, <1>5 DEF Next

\* Every step that leaves the rescan unbroken keeps the invariant.
LEMMA RestNext ==
    ASSUME RescanInv, [Next]_vars, Unbroken'
    PROVE  Rest'
<1> USE RescanNone
<1> TypeOK /\ Rest /\ TypeOK'
    BY TypeNext, StaysBroken DEF RescanInv
<1>1. ASSUME NEW w \in Writers, OpenLiveDb(w) PROVE Rest'
    <2>1. PICK i \in Inodes : Opens(live, i) /\ content' = Emptied(live, i) /\ live' = i
                              /\ conn' = [conn EXCEPT ![w] = i]
        BY <1>1 DEF OpenLiveDb
    <2>2. live # None => content'[live] = content[live] /\ live' = live
        BY <2>1, OpenKeeps, NamesNotFree, OpensWhat DEF TypeOK
    <2>3. temp # None => content'[temp] = content[temp] /\ i # temp
        BY <2>1, OpenKeeps, NamesNotFree, OpensWhat DEF TypeOK, Rest, TempPrivate
    <2>4. UNCHANGED <<temp, dbLock, run, ghosts>>
        BY <1>1 DEF OpenLiveDb
    <2>5. \A r \in owed : InTemp(r) => InTemp(r)'
        BY <2>3, <2>4 DEF InTemp
    <2>6. Exclusive'
        BY <2>4 DEF Rest, Exclusive
    <2>7. TempPrivate'
        BY <2>1, <2>3, <2>4 DEF Rest, TempPrivate, TypeOK
    <2>8. MergeSound'
        BY <2>2, <2>4, <2>5 DEF Rest, MergeSound, At, Overlooks, TypeOK
    <2>9. SwapReady'
        BY <2>4, <2>5 DEF Rest, SwapReady
    <2>10. OwedKept'
        BY <2>2, <2>4 DEF Rest, OwedKept, Swapping, InLive, At
    <2> QED BY <2>4, <2>6, <2>7, <2>8, <2>9, <2>10 DEF Rest, OwedLive
<1>2. ASSUME NEW w \in Writers, NEW r \in Rows, Insert(w, r) PROVE Rest'
    <2>1. content' = [content EXCEPT ![conn[w]][r] = "whole"] /\ UNCHANGED <<names, dbLock, run, conn>>
        BY <1>2 DEF Insert
    <2>2. \A i \in Inodes, x \in Rows : content[i][x] # "absent" => content'[i][x] # "absent"
        BY <2>1 DEF TypeOK
    <2>3. \A x \in Rows : (InTemp(x) => InTemp(x)') /\ (InLive(x) => InLive(x)')
        BY <2>1, <2>2 DEF InTemp, InLive, TypeOK
    <2>4. Exclusive'
        BY <2>1 DEF Rest, Exclusive
    <2>5. TempPrivate'
        BY <2>1 DEF Rest, TempPrivate
    <2>6. owed \subseteq Rows
        BY DEF TypeOK
    <2>7. CASE owed' = owed
        BY <2>1, <2>3, <2>4, <2>5, <2>6, <2>7
        DEF Rest, MergeSound, SwapReady, OwedKept, OwedLive, Overlooks, Swapping, At
    <2>8. CASE /\ owed' = owed \cup {r}
               /\ conn[w] = live
               /\ r \notin FromFiles
               /\ \A q \in Requests : ~Overlooks(q, r)
        <3>1. InLive(r)'
            BY <1>2, <2>1, <2>8 DEF Insert, InLive, TypeOK
        <3>2. MergeSound'
            BY <2>1, <2>3, <2>6, <2>8 DEF Rest, MergeSound, Overlooks, At
        <3>3. SwapReady'
            BY <2>1, <2>3, <2>6, <2>8 DEF Rest, SwapReady, Overlooks
        <3>4. OwedKept'
            BY <2>1, <2>3, <2>6, <2>8, <3>1 DEF Rest, OwedKept, Swapping, At
        <3> QED BY <2>4, <2>5, <2>8, <3>2, <3>3, <3>4 DEF Rest, OwedLive
    <2> QED BY <1>2, <2>7, <2>8 DEF Insert
<1>3. ASSUME NEW w \in Writers, Close(w) PROVE Rest'
    BY <1>3 DEF Close, Rest, Exclusive, TempPrivate, MergeSound, SwapReady, OwedKept, OwedLive,
                InTemp, InLive, Overlooks, Swapping, At, TypeOK
<1>4. ASSUME NEW q \in Requests, Ask(q) PROVE Rest'
    BY <1>4 DEF Ask, Goto, Rest, Exclusive, TempPrivate, MergeSound, SwapReady, OwedKept, OwedLive,
                InTemp, InLive, Overlooks, Swapping, At, TypeOK
<1>5. ASSUME NEW q \in Requests, Acquire(q) PROVE Rest'
    BY <1>5 DEF Acquire, Goto, Rest, Exclusive, TempPrivate, MergeSound, SwapReady, OwedKept, OwedLive,
                InTemp, InLive, Overlooks, Swapping, At, TypeOK
<1>6. ASSUME NEW q \in Requests, Fail(q) PROVE Rest'
    <2>1. \A p \in Requests : run'[p].pc \in {"idle", "wait"}
        BY <1>6, OnlyOne DEF Fail, MayFail, Finish, Rest, TypeOK, Ended
    <2>2. \A p \in Requests : ~At(p, "rename")
        BY <1>6, OnlyOne DEF Fail, MayFail, Rest, At
    <2> QED BY <1>6, <2>1, <2>2 DEF Fail, Rest, Exclusive, TempPrivate, MergeSound, SwapReady,
                OwedKept, OwedLive, InLive, Swapping, At
<1>7. ASSUME NEW q \in Requests, CleanTemp(q) PROVE Rest'
    <2>1. \A p \in Requests : run'[p].pc \notin {"merge", "unlink", "rename"}
        BY <1>7, OnlyOne DEF CleanTemp, Goto, Rest, TypeOK, At
    <2>2. \A p \in Requests : ~At(p, "rename")
        BY <1>7, OnlyOne DEF CleanTemp, Rest, At
    <2> QED BY <1>7, <2>1, <2>2 DEF CleanTemp, Goto, Rest, Exclusive, TempPrivate, MergeSound,
                SwapReady, OwedKept, OwedLive, InLive, Swapping, At, TypeOK
<1>8. ASSUME NEW q \in Requests, ScanTemp(q) PROVE Rest'
    <2>1. PICK i \in Inodes, found \in SUBSET FromFiles :
             /\ Opens(temp, i)
             /\ content' = [Emptied(temp, i) EXCEPT ![i] =
                               [r \in Rows |-> IF r \in found THEN "whole" ELSE @[r]]]
             /\ temp' = i
        BY <1>8 DEF ScanTemp
    <2>2. live # None => content'[live] = content[live]
        BY <2>1, OpensWhat DEF Emptied, Free, Rest, TempPrivate, TypeOK
    <2>3. \A p \in Requests : run'[p].pc \notin {"merge", "unlink", "rename"}
        BY <1>8, OnlyOne DEF ScanTemp, Goto, Rest, TypeOK, At
    <2>4. \A p \in Requests : ~At(p, "rename")
        BY <1>8, OnlyOne DEF ScanTemp, Rest, At
    <2>5. i # live /\ \A w \in Writers : conn[w] # i
        BY <2>1, OpensWhat DEF Free, Rest, TempPrivate, TypeOK
    <2>6. TempPrivate'
        BY <1>8, <2>1, <2>5 DEF ScanTemp, TempPrivate
    <2>7. Exclusive' /\ MergeSound' /\ SwapReady'
        BY <1>8, <2>3 DEF ScanTemp, Goto, Rest, Exclusive, MergeSound, SwapReady, At, TypeOK
    <2>8. OwedKept'
        BY <1>8, <2>2, <2>4 DEF ScanTemp, Rest, OwedKept, InLive, Swapping, At
    <2> QED BY <1>8, <2>6, <2>7, <2>8 DEF ScanTemp, Rest, OwedLive
<1>9. ASSUME NEW q \in Requests, LookForFiles(q) PROVE Rest'
    <2>1. \A p \in Requests : ~At(p, "rename")
        BY <1>9, OnlyOne DEF LookForFiles, Rest, At
    <2>2. CASE live = None /\ Goto(q, "unlink") /\ UNCHANGED dbLock
        <3>1. owed = {}
            BY <2>1, <2>2 DEF Rest, OwedKept, InLive, Swapping
        <3> QED BY <1>9, <2>1, <2>2, <3>1 DEF LookForFiles, Goto, Rest, Exclusive, TempPrivate,
                    MergeSound, SwapReady, OwedKept, OwedLive, At, TypeOK
    <2>3. CASE Finish(q) \/ (Goto(q, "migrate") /\ UNCHANGED dbLock)
        <3>1. \A p \in Requests : run'[p].pc \notin {"merge", "unlink", "rename"}
            BY <1>9, <2>3, OnlyOne DEF LookForFiles, Finish, Goto, Rest, TypeOK, At, Ended
        <3>2. Exclusive'
            BY <1>9, <2>3, OnlyOne DEF LookForFiles, Finish, Goto, Rest, Exclusive, TypeOK, At, Ended
        <3> QED BY <1>9, <2>1, <3>1, <3>2 DEF LookForFiles, Rest, TempPrivate,
                    MergeSound, SwapReady, OwedKept, OwedLive, InLive, Swapping, At
    <2> QED BY <1>9, <2>2, <2>3 DEF LookForFiles
<1>10. ASSUME NEW q \in Requests, MigrateLive(q) PROVE Rest'
    <2>1. PICK i \in Inodes : Opens(live, i) /\ content' = Emptied(live, i) /\ live' = i
        BY <1>10 DEF MigrateLive
    <2>2. live # None => content'[live] = content[live] /\ live' = live
        BY <2>1, OpenKeeps, NamesNotFree, OpensWhat DEF TypeOK
    <2>3. temp # None => i # temp
        BY <2>1, OpensWhat DEF Free, Rest, TempPrivate, TypeOK
    <2>4. \A p \in Requests : run'[p].pc \notin {"merge", "unlink", "rename"}
        BY <1>10, OnlyOne DEF MigrateLive, Goto, Rest, TypeOK, At
    <2>5. \A p \in Requests : ~At(p, "rename")
        BY <1>10, OnlyOne DEF MigrateLive, Rest, At
    <2>6. TempPrivate'
        BY <1>10, <2>1, <2>3 DEF MigrateLive, Rest, TempPrivate
    <2>7. Exclusive' /\ MergeSound' /\ SwapReady'
        BY <1>10, <2>4 DEF MigrateLive, Goto, Rest, Exclusive, MergeSound, SwapReady, At, TypeOK
    <2>8. OwedKept'
        BY <1>10, <2>2, <2>5 DEF MigrateLive, Rest, OwedKept, InLive, Swapping, At
    <2> QED BY <1>10, <2>6, <2>7, <2>8 DEF MigrateLive, Rest, OwedLive
<1>11. ASSUME NEW q \in Requests, AttachLive(q) PROVE Rest'
    <2>1. PICK i \in Inodes :
             /\ Opens(temp, i)
             /\ content' = Emptied(temp, i)
             /\ temp' = i
             /\ run' = [run EXCEPT ![q] =
                    IF live = None THEN [Ended EXCEPT !.pc = "unlink"]
                    ELSE [pc |-> "merge", db |-> i, att |-> live, merged |-> 0]]
        BY <1>11 DEF AttachLive
    <2>2. live # None => content'[live] = content[live]
        BY <2>1, OpenKeeps, NamesNotFree DEF TypeOK
    <2>3. \A p \in Requests : ~At(p, "rename")
        BY <1>11, OnlyOne DEF AttachLive, Rest, At
    <2>4. i # live /\ \A w \in Writers : conn[w] # i
        BY <2>1, OpensWhat DEF Free, Rest, TempPrivate, TypeOK
    <2>5. TempPrivate'
        BY <1>11, <2>1, <2>4 DEF AttachLive, TempPrivate
    <2>6. Exclusive'
        BY <1>11, <2>1 DEF AttachLive, Rest, Exclusive, At, TypeOK
    <2>7. \A p \in Requests : run'[p].pc # "rename"
        BY <1>11, <2>1, <2>3 DEF Ended, At, TypeOK
    <2>8. OwedKept'
        BY <1>11, <2>2, <2>3 DEF AttachLive, Rest, OwedKept, InLive, Swapping, At
    <2>9. live = None => owed = {}
        BY <2>3 DEF Rest, OwedKept, InLive, Swapping
    <2>10. \A p \in Requests : p # q => run'[p].pc \notin {"merge", "unlink", "rename"}
        BY <1>11, <2>1, OnlyOne DEF AttachLive, Rest, TypeOK, At
    <2>11. CASE live = None
        <3>1. run'[q].pc = "unlink"
            BY <2>1, <2>11 DEF Ended, TypeOK
        <3> QED BY <1>11, <2>5, <2>6, <2>8, <2>9, <2>10, <2>11, <3>1
                DEF AttachLive, Rest, MergeSound, SwapReady, OwedLive, At
    <2>12. CASE live # None
        <3>1. run'[q] = [pc |-> "merge", db |-> i, att |-> live, merged |-> 0]
            BY <2>1, <2>12 DEF TypeOK
        <3>2. MergeSound'
            BY <1>11, <2>1, <2>10, <3>1 DEF AttachLive, MergeSound, Overlooks, At
        <3>3. SwapReady'
            BY <2>10, <3>1 DEF SwapReady
        <3> QED BY <1>11, <2>5, <2>6, <2>8, <3>2, <3>3 DEF AttachLive, Rest, OwedLive
    <2> QED BY <2>11, <2>12
<1>12. ASSUME NEW q \in Requests, MergeNext(q) PROVE Rest'
    <2> DEFINE n == run[q].merged + 1
               table == MergeOrder[n]
    <2>1. run[q].db = temp /\ run[q].att = live /\ temp \in Inodes /\ live \in Inodes /\ temp # live
        BY <1>12 DEF MergeNext, Rest, MergeSound, TempPrivate, TypeOK, At
    <2>2. content' = [content EXCEPT ![temp] = Merged(q, table)]
        BY <1>12, <2>1 DEF MergeNext
    <2>3. content'[live] = content[live]
        BY <2>1, <2>2 DEF TypeOK
    <2>4. content'[temp] = Merged(q, table)
        BY <2>1, <2>2 DEF TypeOK
    <2>5. \A p \in Requests : ~At(p, "rename")
        BY <1>12, OnlyOne DEF MergeNext, Rest, At
    <2>6. \A r \in Rows : InTemp(r) => InTemp(r)'
        BY <1>12, <2>1, <2>4 DEF MergeNext, InTemp, Merged, TypeOK
    <2>7. \A r \in owed : InLive(r) /\ r \notin FromFiles
        BY <2>5 DEF Rest, OwedKept, OwedLive, Swapping
    <2>8. \A r \in owed : TableOf[r] = table => InTemp(r)'
        BY <1>12, <2>1, <2>4, <2>7 DEF MergeNext, InTemp, InLive, Merged, Copied, TypeOK
    <2>9. Exclusive' /\ TempPrivate'
        BY <1>12 DEF MergeNext, Rest, Exclusive, TempPrivate, At, TypeOK
    <2>10. \A p \in Requests : run'[p].pc = run[p].pc /\ run'[p].db = run[p].db
                               /\ run'[p].att = run[p].att
        BY <1>12 DEF MergeNext, TypeOK
    <2>11. SwapReady'
        BY <1>12, <2>10, OnlyOne DEF MergeNext, Rest, SwapReady, At
    <2>12. OwedKept'
        BY <1>12, <2>3, <2>5, <2>10 DEF MergeNext, Rest, OwedKept, InLive, Swapping, At
    <2>13. MergeSound'
        <3>1. SUFFICES ASSUME NEW p \in Requests, run'[p].pc = "merge"
                       PROVE /\ run'[p].db = temp' /\ run'[p].att = live'
                             /\ \A r \in owed' : Overlooks(p, r)' => InTemp(r)'
            BY DEF MergeSound, At
        <3>2. p = q
            BY <1>12, <2>10, <3>1, OnlyOne DEF MergeNext, Rest, At
        <3>3. run'[q].merged = n /\ UNCHANGED <<temp, live, owed>>
            BY <1>12 DEF MergeNext, TypeOK
        <3>4. ASSUME NEW r \in owed, Overlooks(q, r)' PROVE InTemp(r)'
            <4>1. PICK k \in 1..n : MergeOrder[k] = TableOf[r]
                BY <3>1, <3>2, <3>3, <3>4 DEF Overlooks
            <4>2. CASE k = n
                BY <2>8, <4>1, <4>2
            <4>3. CASE k # n
                <5>1. k \in 1..run[q].merged
                    BY <1>12, <4>3 DEF MergeNext, TypeOK
                <5>2. Overlooks(q, r)
                    BY <1>12, <4>1, <5>1 DEF MergeNext, Overlooks, At
                <5> QED BY <1>12, <2>6, <5>2 DEF MergeNext, Rest, MergeSound, TypeOK
            <4> QED BY <4>2, <4>3
        <3> QED BY <2>1, <2>10, <3>2, <3>3, <3>4
    <2> QED BY <1>12, <2>9, <2>11, <2>12, <2>13 DEF MergeNext, Rest, OwedLive
<1>13. ASSUME NEW q \in Requests, Detach(q) PROVE Rest'
    <2>1. \A r \in owed : Overlooks(q, r)
        BY <1>13, RescanRows DEF Detach, Overlooks, At, Tables, TypeOK
    <2>2. \A r \in owed : InTemp(r)
        BY <1>13, <2>1 DEF Detach, Rest, MergeSound
    <2>3. \A p \in Requests : ~At(p, "rename")
        BY <1>13, OnlyOne DEF Detach, Rest, At
    <2>4. \A p \in Requests : p # q => run'[p] = run[p] /\ run[p].pc \in {"idle", "wait"}
        BY <1>13, OnlyOne DEF Detach, Rest, At, TypeOK
    <2>5. run'[q].pc = "unlink"
        BY <1>13 DEF Detach, Ended, TypeOK
    <2>6. Exclusive' /\ TempPrivate'
        BY <1>13, <2>4, <2>5 DEF Detach, Rest, Exclusive, TempPrivate, At
    <2> QED BY <1>13, <2>2, <2>3, <2>4, <2>5, <2>6 DEF Detach, Rest, MergeSound, SwapReady,
            OwedKept, OwedLive, InTemp, InLive, Swapping, At
<1>14. ASSUME NEW q \in Requests, UnlinkLive(q) PROVE Rest'
    <2>1. \A p \in Requests : p # q => run'[p] = run[p] /\ run[p].pc \in {"idle", "wait"}
        BY <1>14, OnlyOne DEF UnlinkLive, Goto, Rest, At, TypeOK
    <2>2. run'[q].pc = "rename"
        BY <1>14 DEF UnlinkLive, Goto, TypeOK
    <2>3. Exclusive' /\ TempPrivate'
        BY <1>14, <2>1, <2>2 DEF UnlinkLive, Rest, Exclusive, TempPrivate, At
    <2>4. MergeSound'
        BY <1>14, <2>1, <2>2 DEF UnlinkLive, MergeSound, At
    <2>5. SwapReady'
        BY <1>14, <2>1, <2>2 DEF UnlinkLive, Rest, SwapReady, InTemp, At
    <2>6. OwedKept'
        BY <2>2 DEF OwedKept, Swapping, At
    <2> QED BY <1>14, <2>3, <2>4, <2>5, <2>6 DEF UnlinkLive, Rest, OwedLive
<1>15. ASSUME NEW q \in Requests, RenameTemp(q) PROVE Rest'
    <2>1. \A r \in owed : InTemp(r)
        BY <1>15 DEF RenameTemp, Rest, SwapReady, At
    <2>2. \A p \in Requests : run'[p].pc \in {"idle", "wait"}
        BY <1>15, OnlyOne DEF RenameTemp, Finish, Rest, TypeOK, Ended, At
    <2>3. \A r \in owed : InLive(r)'
        BY <1>15, <2>1 DEF RenameTemp, InTemp, InLive
    <2> QED BY <1>15, <2>2, <2>3 DEF RenameTemp, Rest, Exclusive, TempPrivate, MergeSound,
            SwapReady, OwedKept, OwedLive, At
<1>16. ASSUME NEW q \in Requests, Disconnect(q) PROVE Rest'
    BY <1>16 DEF Disconnect, TypeOK, Unbroken
<1>17. CASE Crash
    <2>0. ~Swapping
        BY <1>17 DEF Crash, Unbroken
    <2>1. \A q \in Requests : run'[q].pc = "idle"
        BY <1>17 DEF Crash, Ended
    <2> QED BY <1>17, <2>0, <2>1 DEF Crash, Rest, Exclusive, TempPrivate, MergeSound, SwapReady,
            OwedKept, OwedLive, InLive, Swapping, At
<1>18. CASE UNCHANGED vars
    BY <1>18 DEF Rest, Exclusive, TempPrivate, MergeSound, SwapReady, OwedKept, OwedLive, InTemp, InLive,
                 Overlooks, Swapping, At
<1>19. ASSUME NEW q \in Requests, BreakOff(q) PROVE Rest'
    BY <1>19 DEF BreakOff, Unbroken
<1> QED BY <1>1, <1>2, <1>3, <1>4, <1>5, <1>6, <1>7, <1>8, <1>9, <1>10, <1>11, <1>12, <1>13,
          <1>14, <1>15, <1>16, <1>17, <1>18, <1>19 DEF Next, Step

\* A rescan keeps every history row it owes until a client hangs up or a swap is broken
\* off, by an error or a crash, with the live database removed: whatever number of
\* rescans, writers and rows, and wherever else a rescan fails or the server dies.
THEOREM RescanKeepsHistory == Spec => []OwedKeptUnbroken
<1>1. Init => RescanInv
    BY TypeInit, RestInit DEF RescanInv
<1>2. RescanInv /\ [Next]_vars => RescanInv'
    BY TypeNext, RestNext DEF RescanInv
<1>3. RescanInv => OwedKeptUnbroken
    BY DEF RescanInv, Rest, Unbroken, OwedKeptUnbroken
<1> QED BY <1>1, <1>2, <1>3, PTL DEF Spec

=============================================================================
