-------------------------- MODULE StatuslineProofs --------------------------
(* Theorems about Statusline. *)
EXTENDS Statusline, TLAPS, FiniteSetTheorems

USE DEF At

(***************************************************************************)
(* Type correctness                                                        *)
(***************************************************************************)

\* A process that ends leaves a correct local state.
LEMMA IdleType == Idle \in Local /\ LocalOK(Idle)
  BY BoundsAssumption, NoneAssumption DEF Idle, Local, LocalOK, Stages, Inodes

\* Goto changes the stage alone.
LEMMA GotoType ==
    ASSUME TypeOK, NEW p \in Pids, NEW stage \in Stages, Goto(p, stage),
           LocalOK([run[p] EXCEPT !.pc = stage])
    PROVE  run' \in [Pids -> Local] /\ \A q \in Pids : LocalOK(run'[q])
  <1>1. run[p] \in Local
    BY DEF TypeOK
  <1>2. [run[p] EXCEPT !.pc = stage] \in Local
    BY <1>1 DEF Local
  <1> QED
    BY <1>2 DEF TypeOK, Goto

\* One local state changes.
LEMMA LocalStep ==
    ASSUME TypeOK, NEW p \in Pids, NEW l \in Local, LocalOK(l), run' = [run EXCEPT ![p] = l]
    PROVE  run' \in [Pids -> Local] /\ \A q \in Pids : LocalOK(run'[q])
  BY DEF TypeOK

\* A lock file is created without its PID.
LEMMA NewLock == \A p \in Pids : [owner |-> p, written |-> FALSE] \in [owner : Pids, written : BOOLEAN]
  BY Zenon

\* The initial state has the types.
LEMMA TypeInit == Init => TypeOK
  <1> SUFFICES ASSUME Init PROVE TypeOK
    OBVIOUS
  <1>1. run \in [Pids -> Local] /\ \A p \in Pids : LocalOK(run[p])
    BY IdleType DEF Init
  <1>2. 0 \in 0..MaxVersion /\ 0 \in 0..MaxClock /\ 0 \in 0..MaxKills
    BY BoundsAssumption
  <1> QED
    BY <1>1, <1>2 DEF Init, TypeOK, Blank

\* Every step of a run keeps the types.
LEMMA StepType ==
    ASSUME TypeOK, NEW p \in Pids, Step(p)
    PROVE  TypeOK'
  <1> USE DEF TypeOK
  <1>0. run[p] \in Local /\ LocalOK(run[p]) /\ Idle \in Local /\ LocalOK(Idle)
    BY IdleType
  <1>1. CASE ServeCached(p)
    BY <1>1, <1>0, LocalStep DEF ServeCached, Exit, world, files
  <1>2. CASE MissCache(p)
    <2>1. LocalOK([run[p] EXCEPT !.pc = "try"])
      BY <1>0, <1>2 DEF MissCache, Local, LocalOK
    <2> QED
      BY <1>2, <2>1, GotoType DEF MissCache, Stages, world, files
  <1>3. CASE TryCreate(p)
    <2>1. LocalOK([run[p] EXCEPT !.pc = "sign"]) /\ LocalOK([run[p] EXCEPT !.pc = "read"])
      BY <1>0, <1>3 DEF TryCreate, Local, LocalOK
    <2>2. run' \in [Pids -> Local] /\ \A q \in Pids : LocalOK(run'[q])
      BY <1>3, <2>1, GotoType DEF TryCreate, Stages
    <2>3. lock' = lock \/ lock' = [owner |-> p, written |-> FALSE]
      BY <1>3 DEF TryCreate
    <2> QED
      BY <1>3, <2>2, <2>3, NewLock DEF TryCreate, world, files
  <1>4. CASE WritePid(p)
    <2>1. LocalOK([run[p] EXCEPT !.pc = "compute"])
      BY <1>0, <1>4 DEF WritePid, Local, LocalOK
    <2>2. run' \in [Pids -> Local] /\ \A q \in Pids : LocalOK(run'[q])
      BY <1>4, <2>1, GotoType DEF WritePid, Stages
    <2>3. lock' \in [owner : Pids, written : BOOLEAN] \cup {None}
      BY <1>4 DEF WritePid
    <2> QED
      BY <1>4, <2>2, <2>3 DEF WritePid, world, files
  <1>5. CASE ReadLockPid(p)
    <2> DEFINE l == [run[p] EXCEPT !.pc = IF LockPid = None THEN "steal" ELSE "alive",
                                   !.saw = LockPid]
    <2>1. LockPid \in Pids \cup {None}
      BY DEF LockPid
    <2>2. l \in Local /\ LocalOK(l)
      BY <1>0, <1>5, <2>1 DEF ReadLockPid, Local, LocalOK, Stages
    <2>3. run' = [run EXCEPT ![p] = l]
      BY <1>5 DEF ReadLockPid
    <2>4. run' \in [Pids -> Local] /\ \A q \in Pids : LocalOK(run'[q])
      BY <2>2, <2>3, LocalStep
    <2> QED
      BY <1>5, <2>4 DEF ReadLockPid, world, files
  <1>6. CASE CheckAlive(p)
    <2>1. LocalOK([run[p] EXCEPT !.pc = "wait"]) /\ LocalOK([run[p] EXCEPT !.pc = "steal"])
      BY <1>0, <1>6 DEF CheckAlive, Local, LocalOK
    <2>2. Goto(p, "wait") \/ Goto(p, "steal")
      BY <1>6 DEF CheckAlive
    <2>3. run' \in [Pids -> Local] /\ \A q \in Pids : LocalOK(run'[q])
      BY <2>1, <2>2, GotoType DEF Stages
    <2> QED
      BY <1>6, <2>3 DEF CheckAlive, world, files
  <1>7. CASE RemoveStale(p)
    <2>1. LocalOK([run[p] EXCEPT !.pc = "retake"])
      BY <1>0, <1>7 DEF RemoveStale, Local, LocalOK
    <2> QED
      BY <1>7, <2>1, GotoType DEF RemoveStale, Stages, world, files
  <1>8. CASE RetakeLock(p)
    <2>1. LocalOK([run[p] EXCEPT !.pc = "sign"]) /\ LocalOK([run[p] EXCEPT !.pc = "wait"])
      BY <1>0, <1>8 DEF RetakeLock, Local, LocalOK
    <2>2. run' \in [Pids -> Local] /\ \A q \in Pids : LocalOK(run'[q])
      BY <1>8, <2>1, GotoType DEF RetakeLock, Stages
    <2>3. lock' = lock \/ lock' = [owner |-> p, written |-> FALSE]
      BY <1>8 DEF RetakeLock
    <2> QED
      BY <1>8, <2>2, <2>3, NewLock DEF RetakeLock, world, files
  <1>9. CASE Sleep(p)
    <2> DEFINE l == [run[p] EXCEPT !.pc = "try", !.saw = None, !.tries = @ + 1]
    <2>1. l \in Local /\ LocalOK(l)
      BY <1>0, <1>9, BoundsAssumption DEF Sleep, Local, LocalOK, Stages
    <2>2. run' = [run EXCEPT ![p] = l]
      BY <1>9 DEF Sleep
    <2>3. run' \in [Pids -> Local] /\ \A q \in Pids : LocalOK(run'[q])
      BY <2>1, <2>2, LocalStep
    <2> QED
      BY <1>9, <2>3 DEF Sleep, world, files
  <1>10. CASE GiveUp(p)
    BY <1>10, <1>0, LocalStep DEF GiveUp, Exit, world, files
  <1>11. CASE Compute(p)
    <2> DEFINE n == [session |-> run[p].session,
                     version |-> transcripts[run[p].session].version, asOf |-> clock]
               l == [run[p] EXCEPT !.pc = "create", !.line = n]
    <2>1. n \in Line
      BY <1>0, <1>11 DEF Compute, LocalOK, Line
    <2>2. l \in Local /\ LocalOK(l)
      BY <1>0, <1>11, <2>1 DEF Compute, Local, LocalOK, Stages
    <2>3. run' = [run EXCEPT ![p] = l]
      BY <1>11 DEF Compute
    <2>4. run' \in [Pids -> Local] /\ \A q \in Pids : LocalOK(run'[q])
      BY <2>2, <2>3, LocalStep
    <2> QED
      BY <1>11, <2>4 DEF Compute, world, files
  <1>12. CASE ComputeFails(p)
    BY <1>12, <1>0, LocalStep DEF ComputeFails, Exit, world, files
  <1>13. CASE CreateTmp(p)
    <2>1. PICK i \in Inodes : /\ tmp' = i
                              /\ blob' = [blob EXCEPT ![i] = Blank]
                              /\ run' = [run EXCEPT ![p] = [run[p] EXCEPT
                                           !.pc = "keys", !.at = clock, !.fd = i]]
      BY <1>13 DEF CreateTmp
    <2> DEFINE l == [run[p] EXCEPT !.pc = "keys", !.at = clock, !.fd = i]
    <2>2. l \in Local /\ LocalOK(l)
      BY <1>0, <1>13 DEF CreateTmp, Local, LocalOK, Stages
    <2>3. run' \in [Pids -> Local] /\ \A q \in Pids : LocalOK(run'[q])
      BY <2>1, <2>2, LocalStep
    <2> QED
      BY <1>13, <2>1, <2>3 DEF CreateTmp, world, Blank
  <1>14. CASE WriteKeys(p)
    <2>1. LocalOK([run[p] EXCEPT !.pc = "output"])
      BY <1>0, <1>14 DEF WriteKeys, Local, LocalOK
    <2>2. run' \in [Pids -> Local] /\ \A q \in Pids : LocalOK(run'[q])
      BY <1>14, <2>1, GotoType DEF WriteKeys, Stages
    <2>3. EntryKeys(p) \in Keys
      BY <1>0, <1>14 DEF WriteKeys, LocalOK, EntryKeys, Keys
    <2> QED
      BY <1>14, <2>2, <2>3 DEF WriteKeys, world
  <1>15. CASE WriteOutput(p)
    <2> DEFINE l == [run[p] EXCEPT !.pc = "rename", !.fd = None]
    <2>1. None \notin Inodes
      BY PidsAssumption, FS_CardinalityType, NoneAssumption DEF Inodes
    <2>2. l \in Local /\ LocalOK(l)
      BY <1>0, <1>15, <2>1 DEF WriteOutput, Local, LocalOK, Stages
    <2>3. run' = [run EXCEPT ![p] = l]
      BY <1>15 DEF WriteOutput
    <2>4. run' \in [Pids -> Local] /\ \A q \in Pids : LocalOK(run'[q])
      BY <2>2, <2>3, LocalStep
    <2>5. run[p].line \in Line
      BY <1>0, <1>15 DEF WriteOutput, LocalOK
    <2> QED
      BY <1>15, <2>4, <2>5 DEF WriteOutput, world
  <1>16. CASE Rename(p)
    <2> DEFINE l == [Idle EXCEPT !.pc = "release", !.session = run[p].session,
                                 !.mtime = run[p].mtime]
    <2>1. None \notin Inodes
      BY PidsAssumption, FS_CardinalityType, NoneAssumption DEF Inodes
    <2>2. l \in Local /\ LocalOK(l)
      BY <1>0, <1>16, <2>1 DEF Rename, Idle, Local, LocalOK, Stages
    <2>3. run' = [run EXCEPT ![p] = l]
      BY <1>16 DEF Rename
    <2>4. run' \in [Pids -> Local] /\ \A q \in Pids : LocalOK(run'[q])
      BY <2>2, <2>3, LocalStep
    <2> QED
      BY <1>16, <2>4 DEF Rename, world
  <1>17. CASE Release(p)
    BY <1>17, <1>0, LocalStep DEF Release, Exit, world, files
  <1> QED
    BY <1>1, <1>2, <1>3, <1>4, <1>5, <1>6, <1>7, <1>8, <1>9, <1>10, <1>11, <1>12, <1>13,
       <1>14, <1>15, <1>16, <1>17 DEF Step

\* Every step of the system keeps the types.
LEMMA TypeNext == TypeOK /\ [Next]_vars => TypeOK'
  <1> SUFFICES ASSUME TypeOK, [Next]_vars PROVE TypeOK'
    OBVIOUS
  <1> USE DEF TypeOK
  <1>1. CASE Tick
    BY <1>1, BoundsAssumption DEF Tick, files
  <1>2. ASSUME NEW s \in Sessions, WriteTranscript(s) PROVE TypeOK'
    <2>1. transcripts[s].version + 1 \in 0..MaxVersion
      BY <1>2, BoundsAssumption DEF WriteTranscript
    <2> QED
      BY <1>2, <2>1 DEF WriteTranscript, files
  <1>3. ASSUME NEW p \in Pids, Step(p) PROVE TypeOK'
    BY <1>3, StepType
  <1>4. ASSUME NEW p \in Pids, Kill(p) PROVE TypeOK'
    <2>1. kills + 1 \in 0..MaxKills
      BY <1>4, BoundsAssumption DEF Kill
    <2> QED
      BY <1>4, <2>1, IdleType, LocalStep DEF Kill, Exit, world, files
  <1>5. ASSUME NEW p \in Pids, NEW s \in Sessions, Start(p, s) PROVE TypeOK'
    <2> DEFINE l == [Idle EXCEPT !.pc = "look", !.session = s, !.mtime = transcripts[s].mtime]
    <2>1. None \notin Inodes
      BY PidsAssumption, FS_CardinalityType, NoneAssumption DEF Inodes
    <2>2. transcripts[s].mtime \in 0..MaxClock /\ 0 \in 0..MaxTries
      BY BoundsAssumption
    <2>4. l \in Local
      BY <2>2 DEF Idle, Local, Stages
    <2>5. LocalOK(l)
      BY <2>1, <2>2 DEF Idle, LocalOK
    <2>3. run' = [run EXCEPT ![p] = l]
      BY <1>5 DEF Start
    <2> QED
      BY <1>5, <2>3, <2>4, <2>5, LocalStep DEF Start, world, files
  <1>6. CASE UNCHANGED vars
    BY <1>6 DEF vars, world, files
  <1> QED
    BY <1>1, <1>2, <1>3, <1>4, <1>5, <1>6 DEF Next

\* The statusline keeps TypeOK whatever processes run, steal locks and die.
THEOREM StatuslineTypes == Spec => []TypeOK
  BY TypeInit, TypeNext, PTL DEF Spec

(***************************************************************************)
(* One process at a time                                                   *)
(***************************************************************************)

\* No two processes run.
Alone == \A p, q \in Pids : (~At(p, "idle") /\ ~At(q, "idle")) => p = q

Complete(i) == /\ Parses(blob[i])
               /\ blob[i].keys.session = blob[i].output.session

\* The file being written is the temporary one, and it is whole when renamed.
Writing(p) ==
    /\ At(p, "create") => run[p].line.session = run[p].session
    /\ At(p, "keys") => /\ run[p].fd = tmp
                        /\ run[p].line.session = run[p].session
    /\ At(p, "output") => /\ run[p].fd = tmp
                          /\ blob[tmp].keys # None
                          /\ blob[tmp].keys.session = run[p].line.session
    /\ At(p, "rename") => tmp # None /\ Complete(tmp)

SerialInv == /\ TypeOK
             /\ Alone
             /\ cache # None => cache # tmp /\ Complete(cache)
             /\ \A p \in Pids : Writing(p)

\* The initial state is quiet.
LEMMA SerialInit == Init => SerialInv
  <1> SUFFICES ASSUME Init PROVE SerialInv
    OBVIOUS
  <1>1. TypeOK
    BY TypeInit
  <1>2. \A p \in Pids : At(p, "idle")
    BY DEF Init, Idle
  <1> QED
    BY <1>1, <1>2 DEF Init, SerialInv, Alone, Writing

\* A process that starts is alone, if at most one may run.
LEMMA StartsAlone ==
    ASSUME MaxRunning = 1, NEW p \in Pids, NEW s \in Sessions, Start(p, s)
    PROVE  \A q \in Pids : At(q, "idle")
  <1>1. IsFiniteSet(Running)
    BY PidsAssumption, FS_Subset DEF Running
  <1>2. Cardinality(Running) \in Nat /\ Cardinality(Running) < 1
    BY <1>1, FS_CardinalityType DEF Start
  <1>3. Running = {}
    BY <1>1, <1>2, FS_EmptySet
  <1> QED
    BY <1>3 DEF Running

\* While a process runs alone, the others are idle and stay so.
LEMMA OthersIdle ==
    ASSUME TypeOK, Alone, NEW p \in Pids, Step(p)
    PROVE  /\ ~At(p, "idle")
           /\ \A q \in Pids : q # p => At(q, "idle") /\ run'[q] = run[q] /\ shown'[q] = shown[q]
           /\ Alone'
  <1>1. ~At(p, "idle")
    BY DEF Step, ServeCached, MissCache, TryCreate, WritePid, ReadLockPid, CheckAlive,
       RemoveStale, RetakeLock, Sleep, GiveUp, Compute, ComputeFails, CreateTmp,
       WriteKeys, WriteOutput, Rename, Release
  <1>2. \A q \in Pids : q # p => run'[q] = run[q] /\ shown'[q] = shown[q]
    BY DEF Step, ServeCached, MissCache, TryCreate, WritePid, ReadLockPid, CheckAlive,
       RemoveStale, RetakeLock, Sleep, GiveUp, Compute, ComputeFails, CreateTmp,
       WriteKeys, WriteOutput, Rename, Release, Goto, Exit, TypeOK
  <1> QED
    BY <1>1, <1>2 DEF Alone

\* A step of a process that runs alone keeps the cache whole.
LEMMA SerialStep ==
    ASSUME SerialInv, TypeOK', NEW p \in Pids, Step(p)
    PROVE  SerialInv'
  <1>1. \A q \in Pids : q # p => At(q, "idle") /\ run'[q] = run[q]
    BY OthersIdle DEF SerialInv
  <1>2. Alone'
    BY OthersIdle DEF SerialInv
  <1>3. \A q \in Pids : q # p => Writing(q)'
    BY <1>1 DEF Writing
  <1>4. SUFFICES Writing(p)' /\ (cache' # None => cache' # tmp' /\ Complete(cache)')
    BY <1>2, <1>3 DEF SerialInv
  <1>5. run[p] \in Local /\ LocalOK(run[p])
    BY DEF SerialInv, TypeOK
  <1>6. CASE Compute(p)
    BY <1>6, <1>5 DEF Compute, SerialInv, TypeOK, Writing, Complete, files, Local
  <1>7. CASE CreateTmp(p)
    <2>1. PICK i \in Inodes : /\ IF tmp # None THEN i = tmp ELSE IsFree(i)
                              /\ tmp' = i
                              /\ blob' = [blob EXCEPT ![i] = Blank]
                              /\ run' = [run EXCEPT ![p] = [run[p] EXCEPT
                                           !.pc = "keys", !.at = clock, !.fd = i]]
      BY <1>7 DEF CreateTmp
    <2>2. cache' = cache /\ (cache # None => cache # i)
      BY <1>7, <2>1 DEF CreateTmp, IsFree, FreeInodes, SerialInv
    <2>3. Writing(p)'
      BY <1>7, <1>5, <2>1 DEF CreateTmp, SerialInv, TypeOK, Writing, Local
    <2>4. cache # None => Complete(cache)'
      BY <2>1, <2>2 DEF SerialInv, TypeOK, Complete
    <2> QED
      BY <2>1, <2>2, <2>3, <2>4
  <1>8. CASE WriteKeys(p)
    <2>1. run[p].fd = tmp /\ tmp \in Inodes /\ run[p].line.session = run[p].session
      BY <1>8, <1>5 DEF WriteKeys, SerialInv, Writing, LocalOK
    <2>2. /\ blob' = [blob EXCEPT ![tmp] = [blob[tmp] EXCEPT !.keys = EntryKeys(p)]]
          /\ run' = [run EXCEPT ![p] = [run[p] EXCEPT !.pc = "output"]]
          /\ tmp' = tmp /\ cache' = cache
      BY <1>8, <2>1 DEF WriteKeys, Goto
    <2>3. EntryKeys(p) \in Keys /\ EntryKeys(p).session = run[p].session
      BY <1>8, <1>5 DEF WriteKeys, LocalOK, EntryKeys, Keys, SerialInv, TypeOK
    <2>4. EntryKeys(p) # None
      BY <2>3, NoneAssumption
    <2> QED
      BY <1>5, <2>1, <2>2, <2>3, <2>4 DEF SerialInv, TypeOK, Writing, Complete, Local, Parses
  <1>9. CASE WriteOutput(p)
    <2>1. /\ run[p].fd = tmp /\ tmp \in Inodes
          /\ blob[tmp].keys # None
          /\ blob[tmp].keys.session = run[p].line.session
      BY <1>9, <1>5 DEF WriteOutput, SerialInv, Writing, LocalOK
    <2>2. /\ blob' = [blob EXCEPT ![tmp] = [blob[tmp] EXCEPT !.output = run[p].line]]
          /\ run' = [run EXCEPT ![p] = [run[p] EXCEPT !.pc = "rename", !.fd = None]]
          /\ tmp' = tmp /\ cache' = cache
      BY <1>9, <2>1 DEF WriteOutput
    <2>3. run[p].line \in Line /\ run[p].line # None /\ tmp # None
      BY <1>9, <1>5, <2>1, NoneAssumption, PidsAssumption, FS_CardinalityType
      DEF WriteOutput, LocalOK, Inodes
    <2>4. Writing(p)' /\ Complete(tmp)'
      BY <1>5, <2>1, <2>2, <2>3 DEF SerialInv, TypeOK, Writing, Complete, Local, Parses
    <2> QED
      BY <2>1, <2>2, <2>4 DEF SerialInv, TypeOK, Complete, Parses
  <1>10. CASE Rename(p)
    BY <1>10, <1>5 DEF Rename, SerialInv, TypeOK, Writing, Complete, Local, Idle
  <1>11. CASE ServeCached(p) \/ GiveUp(p) \/ ComputeFails(p) \/ Release(p)
    BY <1>11 DEF ServeCached, GiveUp, ComputeFails, Release, Exit, files, SerialInv, TypeOK,
       Writing, Complete, Idle
  <1>12. CASE MissCache(p) \/ TryCreate(p) \/ WritePid(p) \/ ReadLockPid(p) \/ CheckAlive(p)
              \/ RemoveStale(p) \/ RetakeLock(p) \/ Sleep(p)
    BY <1>12, <1>5 DEF MissCache, TryCreate, WritePid, ReadLockPid, CheckAlive, RemoveStale,
       RetakeLock, Sleep, Goto, files, SerialInv, TypeOK, Writing, Complete, Local
  <1> QED
    BY <1>6, <1>7, <1>8, <1>9, <1>10, <1>11, <1>12 DEF Step

\* Every step keeps it, if at most one process may run.
LEMMA SerialNext == ASSUME MaxRunning = 1 PROVE SerialInv /\ TypeOK' /\ [Next]_vars => SerialInv'
  <1> SUFFICES ASSUME SerialInv, TypeOK', [Next]_vars PROVE SerialInv'
    OBVIOUS
  <1>1. CASE Tick
    BY <1>1 DEF Tick, files, SerialInv, Alone, Writing, Complete, Parses
  <1>2. ASSUME NEW s \in Sessions, WriteTranscript(s) PROVE SerialInv'
    BY <1>2 DEF WriteTranscript, files, SerialInv, Alone, Writing, Complete, Parses
  <1>3. ASSUME NEW p \in Pids, Step(p) PROVE SerialInv'
    BY <1>3, SerialStep
  <1>4. ASSUME NEW p \in Pids, Kill(p) PROVE SerialInv'
    BY <1>4 DEF Kill, Exit, Idle, files, SerialInv, TypeOK, Alone, Writing, Complete, Parses
  <1>5. ASSUME NEW p \in Pids, NEW s \in Sessions, Start(p, s) PROVE SerialInv'
    <2>1. \A q \in Pids : At(q, "idle")
      BY <1>5, StartsAlone
    <2>2. \A q \in Pids : run'[q].pc = (IF q = p THEN "look" ELSE "idle")
      BY <1>5, <2>1 DEF Start, SerialInv, TypeOK, Idle
    <2> QED
      BY <1>5, <2>2 DEF Start, files, SerialInv, Alone, Writing, Complete, Parses
  <1>6. CASE UNCHANGED vars
    BY <1>6 DEF vars, files, SerialInv, Alone, Writing, Complete, Parses
  <1> QED
    BY <1>1, <1>2, <1>3, <1>4, <1>5, <1>6 DEF Next

\* As long as the agent starts one statusline at a time, statusline.json is whole
\* at every moment, however often a process is killed while it writes.
THEOREM SerialCacheWhole == ASSUME MaxRunning = 1 PROVE Spec => []CacheWhole
  <1>1. SerialInv => CacheWhole
    BY DEF SerialInv, Complete, CacheWhole
  <1> QED
    BY <1>1, SerialInit, SerialNext, TypeInit, TypeNext, PTL DEF Spec

(***************************************************************************)
(* One process at a time, whose PID no lock file holds                     *)
(***************************************************************************)

\* Taken stages before the lock.
Acquiring == {"look", "try", "read", "alive", "steal", "retake"}

\* A lock a lone process finds is one that was left behind: its PID, if it is in
\* the file, is that of a dead process, so that the lock is stolen at once.
Unopposed(p) ==
    /\ run[p].pc \in Acquiring => LockPid # p
    /\ At(p, "alive") => run[p].saw # p
    /\ At(p, "retake") => lock = None
    /\ ~At(p, "wait")
    /\ shown[p] # "stub"

SoloInv == Alone /\ \A p \in Pids : Unopposed(p)

LEMMA SoloInit == Init => SoloInv
  BY NoneAssumption DEF Init, Idle, SoloInv, Alone, Unopposed, Acquiring, LockPid

\* The lone process finds the lock free or its owner dead.
LEMMA SoloStep ==
    ASSUME TypeOK, SoloInv, NEW p \in Pids, Step(p)
    PROVE  SoloInv'
  <1>1. /\ Alone'
        /\ \A q \in Pids : q # p => At(q, "idle") /\ run'[q] = run[q] /\ shown'[q] = shown[q]
    BY OthersIdle DEF SoloInv
  <1>2. \A q \in Pids : q # p => Unopposed(q)'
    BY <1>1 DEF SoloInv, Unopposed, Acquiring
  <1>3. run[p] \in Local /\ LocalOK(run[p]) /\ Unopposed(p)
    BY DEF TypeOK, SoloInv
  <1>4. None \notin Pids
    BY NoneAssumption
  <1>5. SUFFICES Unopposed(p)'
    BY <1>1, <1>2 DEF SoloInv
  <1> USE DEF Unopposed, Acquiring
  <1>6. CASE ServeCached(p) \/ ComputeFails(p) \/ Release(p)
    BY <1>3, <1>6 DEF ServeCached, ComputeFails, Release, Exit, Idle, TypeOK
  <1>7. CASE MissCache(p)
    BY <1>3, <1>7 DEF MissCache, Goto, LockPid, TypeOK, Local
  <1>8. CASE TryCreate(p)
    BY <1>3, <1>8 DEF TryCreate, Goto, LockPid, TypeOK, Local
  <1>9. CASE WritePid(p) \/ Compute(p) \/ CreateTmp(p) \/ WriteKeys(p) \/ WriteOutput(p) \/ Rename(p)
    <2>1. run'[p].pc \in {"compute", "create", "keys", "output", "rename", "release"}
      <3>1. CASE WritePid(p) \/ WriteKeys(p)
        BY <1>3, <3>1 DEF WritePid, WriteKeys, Goto, TypeOK, Local
      <3>2. CASE Compute(p) \/ WriteOutput(p)
        BY <1>3, <3>2 DEF Compute, WriteOutput, TypeOK, Local
      <3>3. CASE CreateTmp(p)
        BY <1>3, <3>3 DEF CreateTmp, TypeOK, Local
      <3>4. CASE Rename(p)
        BY <1>3, <3>4 DEF Rename, Idle, TypeOK
      <3> QED
        BY <1>9, <3>1, <3>2, <3>3, <3>4
    <2>2. shown' = shown
      BY <1>9 DEF WritePid, Compute, CreateTmp, WriteKeys, WriteOutput, Rename
    <2> QED
      BY <1>3, <2>1, <2>2
  <1>10. CASE ReadLockPid(p)
    <2>1. run' = [run EXCEPT ![p] = [run[p] EXCEPT !.pc = IF LockPid = None THEN "steal" ELSE "alive",
                                                   !.saw = LockPid]]
      BY <1>10 DEF ReadLockPid
    <2>2. /\ run'[p].pc = IF LockPid = None THEN "steal" ELSE "alive"
          /\ run'[p].saw = LockPid
      BY <1>3, <2>1 DEF TypeOK, Local
    <2>3. LockPid # p /\ UNCHANGED <<lock, shown>>
      BY <1>3, <1>10 DEF ReadLockPid
    <2> QED
      BY <1>3, <2>2, <2>3 DEF LockPid
  <1>11. CASE CheckAlive(p)
    <2>1. run[p].saw # p /\ run[p].saw \in Pids
      BY <1>3, <1>11 DEF CheckAlive, LocalOK
    <2>2. ~PidAlive(p)
      BY <1>1, <2>1 DEF PidAlive, Running
    <2> QED
      BY <1>3, <1>11, <2>2 DEF CheckAlive, Goto, LockPid, TypeOK, Local
  <1>12. CASE RemoveStale(p)
    BY <1>3, <1>4, <1>12 DEF RemoveStale, Goto, LockPid, TypeOK, Local
  <1>13. CASE RetakeLock(p)
    BY <1>3, <1>13 DEF RetakeLock, Goto, TypeOK, Local
  <1>14. CASE Sleep(p) \/ GiveUp(p)
    BY <1>3, <1>14 DEF Sleep, GiveUp
  <1> QED
    BY <1>6, <1>7, <1>8, <1>9, <1>10, <1>11, <1>12, <1>13, <1>14 DEF Step

\* A process that starts does not have the PID of the lock file.
LEMMA SoloNext ==
    ASSUME MaxRunning = 1, PidReuse = FALSE
    PROVE  TypeOK /\ SoloInv /\ [Next]_vars => SoloInv'
  <1> SUFFICES ASSUME TypeOK, SoloInv, [Next]_vars PROVE SoloInv'
    OBVIOUS
  <1> USE DEF Unopposed, Acquiring
  <1>1. ASSUME NEW p \in Pids, Step(p) PROVE SoloInv'
    BY <1>1, SoloStep
  <1>2. ASSUME NEW p \in Pids, Kill(p) PROVE SoloInv'
    <2>1. run' = [run EXCEPT ![p] = Idle] /\ shown' = [shown EXCEPT ![p] = None] /\ lock' = lock
      BY <1>2 DEF Kill, Exit
    <2>2. None # "stub" /\ Idle.pc = "idle"
      BY NoneAssumption DEF Idle
    <2> QED
      BY <2>1, <2>2 DEF SoloInv, Alone, TypeOK, LockPid
  <1>3. ASSUME NEW p \in Pids, NEW s \in Sessions, Start(p, s) PROVE SoloInv'
    <2>1. \A q \in Pids : At(q, "idle")
      BY <1>3, StartsAlone
    <2>2. \A q \in Pids : run'[q].pc = (IF q = p THEN "look" ELSE "idle")
      BY <1>3, <2>1 DEF Start, TypeOK, Idle
    <2>3. LockPid # p /\ lock' = lock
      BY <1>3 DEF Start
    <2>4. \A q \in Pids : shown'[q] # "stub"
      BY <1>3, NoneAssumption DEF Start, SoloInv, TypeOK
    <2> QED
      BY <2>2, <2>3, <2>4 DEF SoloInv, Alone, LockPid
  <1>4. CASE Tick \/ (\E s \in Sessions : WriteTranscript(s)) \/ UNCHANGED vars
    BY <1>4 DEF Tick, WriteTranscript, vars, SoloInv, Alone, LockPid
  <1> QED
    BY <1>1, <1>2, <1>3, <1>4 DEF Next

\* As long as the agent starts one statusline at a time, none of them prints the
\* stub: the lock file of a killed one is recognised as stale and taken over,
\* unless the PID in it belongs to a process again.
THEOREM SoloNeverStub ==
    ASSUME MaxRunning = 1, PidReuse = FALSE
    PROVE  Spec => []StubOnlyWhenBusy
  <1>1. SoloInv => StubOnlyWhenBusy
    BY DEF SoloInv, Unopposed, StubOnlyWhenBusy
  <1> QED
    BY <1>1, SoloInit, SoloNext, TypeInit, TypeNext, PTL DEF Spec

-----------------------------------------------------------------------------
(* The line and the transcript *)

\* A line was computed no later than now, and from the transcript as it is, if
\* the transcript was last written before that second.
UpToDate(o) == /\ o.asOf =< clock
               /\ transcripts[o.session].mtime < o.asOf =>
                      o.version = transcripts[o.session].version

\* The mtime beside a line was read before the line was computed.
InOrder(m, o) == m =< o.asOf /\ UpToDate(o)

Dated(i) == InOrder(blob[i].keys.mtime, blob[i].output)

OnTime(p) ==
    /\ ~At(p, "idle") => run[p].mtime =< clock
    /\ run[p].pc \in {"create", "keys", "output"} => InOrder(run[p].mtime, run[p].line)
    /\ At(p, "output") => blob[run[p].fd].keys.mtime =< run[p].line.asOf
    /\ At(p, "rename") => Dated(tmp)

CurrentInv == /\ \A s \in Sessions : transcripts[s].mtime =< clock
              /\ cache # None => Dated(cache)
              /\ \A p \in Pids : OnTime(p)

LEMMA CurrentInit == Init => CurrentInv
  BY DEF Init, Idle, CurrentInv, OnTime

\* Entries that are not written to keep what they are.
LEMMA SameEntry ==
    ASSUME NEW i \in Inodes, Dated(i), blob'[i] = blob[i], UNCHANGED world
    PROVE  Dated(i)'
  BY DEF Dated, InOrder, UpToDate, world

\* A lone process stores its line beside the mtime it read first.
LEMMA CurrentStep ==
    ASSUME SerialInv, TypeOK', CurrentInv, NEW p \in Pids, Step(p)
    PROVE  CurrentInv'
  <1>1. \A q \in Pids : q # p => At(q, "idle") /\ run'[q] = run[q]
    BY OthersIdle DEF SerialInv
  <1>2. UNCHANGED world
    BY DEF Step, ServeCached, MissCache, TryCreate, WritePid, ReadLockPid, CheckAlive,
       RemoveStale, RetakeLock, Sleep, GiveUp, Compute, ComputeFails, CreateTmp,
       WriteKeys, WriteOutput, Rename, Release
  <1>3. run[p] \in Local /\ LocalOK(run[p]) /\ OnTime(p) /\ Writing(p)
    BY DEF SerialInv, TypeOK, CurrentInv
  <1>4. clock \in Nat /\ \A s \in Sessions : transcripts[s].mtime \in Nat /\ transcripts[s].mtime =< clock
    BY BoundsAssumption DEF SerialInv, TypeOK, CurrentInv
  <1>5. \A q \in Pids : q # p => OnTime(q)'
    BY <1>1 DEF OnTime
  <1>6. SUFFICES OnTime(p)' /\ (cache' # None => Dated(cache)')
    BY <1>2, <1>4, <1>5 DEF CurrentInv, world
  <1>7. cache # None => Dated(cache) /\ cache \in Inodes /\ cache # tmp
    BY DEF CurrentInv, SerialInv, TypeOK
  <1>8. run \in [Pids -> Local] /\ blob \in [Inodes -> [keys : Keys \cup {None}, output : Line \cup {None}]]
    BY DEF SerialInv, TypeOK
  <1>9. CASE Compute(p)
    <2> DEFINE o == [session |-> run[p].session, version |-> transcripts[run[p].session].version,
                     asOf |-> clock]
    <2>1. run'[p].pc = "create" /\ run'[p].mtime = run[p].mtime /\ run'[p].line = o
      BY <1>3, <1>8, <1>9 DEF Compute, Local
    <2>2. UpToDate(o) /\ run[p].mtime =< clock
      BY <1>3, <1>4, <1>9 DEF Compute, UpToDate, OnTime
    <2>3. InOrder(run[p].mtime, o)
      BY <2>2 DEF InOrder
    <2>4. OnTime(p)'
      BY <1>2, <2>1, <2>2, <2>3 DEF OnTime, InOrder, UpToDate, world
    <2>5. files' = files
      BY <1>9 DEF Compute
    <2> QED
      BY <1>2, <1>7, <2>4, <2>5, SameEntry DEF files
  <1>10. CASE CreateTmp(p)
    <2>1. PICK i \in Inodes : /\ IF tmp # None THEN i = tmp ELSE IsFree(i)
                              /\ blob' = [blob EXCEPT ![i] = Blank]
                              /\ run' = [run EXCEPT ![p] = [run[p] EXCEPT
                                           !.pc = "keys", !.at = clock, !.fd = i]]
      BY <1>10 DEF CreateTmp
    <2>2. cache' = cache /\ (cache # None => cache # i)
      BY <1>7, <1>10, <2>1 DEF CreateTmp, IsFree, FreeInodes
    <2>3. run'[p].pc = "keys" /\ run'[p].mtime = run[p].mtime /\ run'[p].line = run[p].line
      BY <1>3, <1>8, <2>1 DEF Local
    <2>4. OnTime(p)'
      BY <1>2, <1>3, <1>10, <2>3 DEF CreateTmp, OnTime, InOrder, UpToDate, world
    <2>5. cache # None => Dated(cache)'
      BY <1>2, <1>7, <1>8, <2>1, <2>2, SameEntry
    <2> QED
      BY <2>2, <2>4, <2>5
  <1>11. CASE WriteKeys(p)
    <2>1. run[p].fd = tmp /\ tmp \in Inodes
      BY <1>3, <1>11 DEF WriteKeys, Writing, LocalOK
    <2>2. /\ blob' = [blob EXCEPT ![tmp] = [blob[tmp] EXCEPT !.keys = EntryKeys(p)]]
          /\ run' = [run EXCEPT ![p] = [run[p] EXCEPT !.pc = "output"]]
          /\ cache' = cache
      BY <1>11, <2>1 DEF WriteKeys, Goto
    <2>3. /\ run'[p].pc = "output" /\ run'[p].mtime = run[p].mtime
          /\ run'[p].line = run[p].line /\ run'[p].fd = tmp
      BY <1>3, <1>8, <2>1, <2>2 DEF Local
    <2>4. blob'[tmp].keys.mtime = run[p].mtime
      BY <1>8, <2>1, <2>2 DEF EntryKeys
    <2>5. OnTime(p)'
      BY <1>2, <1>3, <1>11, <2>3, <2>4 DEF WriteKeys, OnTime, InOrder, UpToDate, world
    <2>6. cache # None => Dated(cache)'
      BY <1>2, <1>7, <1>8, <2>2, SameEntry
    <2> QED
      BY <2>2, <2>5, <2>6
  <1>12. CASE WriteOutput(p)
    <2>1. run[p].fd = tmp /\ tmp \in Inodes
      BY <1>3, <1>12 DEF WriteOutput, Writing, LocalOK
    <2>2. /\ blob' = [blob EXCEPT ![tmp] = [blob[tmp] EXCEPT !.output = run[p].line]]
          /\ run' = [run EXCEPT ![p] = [run[p] EXCEPT !.pc = "rename", !.fd = None]]
          /\ cache' = cache /\ tmp' = tmp
      BY <1>12, <2>1 DEF WriteOutput
    <2>3. run'[p].pc = "rename" /\ run'[p].mtime = run[p].mtime
      BY <1>3, <1>8, <2>2 DEF Local
    <2>4. blob'[tmp].keys = blob[tmp].keys /\ blob'[tmp].output = run[p].line
      BY <1>8, <2>1, <2>2
    <2>5. Dated(tmp)'
      BY <1>2, <1>3, <1>12, <2>1, <2>2, <2>4 DEF WriteOutput, OnTime, Dated, InOrder, UpToDate, world
    <2>6. OnTime(p)'
      BY <1>2, <1>3, <1>12, <2>3, <2>5 DEF WriteOutput, OnTime, world
    <2>7. cache # None => Dated(cache)'
      BY <1>2, <1>7, <1>8, <2>2, SameEntry
    <2> QED
      BY <2>2, <2>6, <2>7
  <1>13. CASE Rename(p)
    <2>1. tmp # None /\ tmp \in Inodes /\ Dated(tmp)
      BY <1>3, <1>13 DEF Rename, SerialInv, TypeOK, Writing, OnTime
    <2>2. cache' = tmp /\ blob' = blob
      BY <1>13, <2>1 DEF Rename
    <2>3. Dated(cache)'
      BY <1>2, <2>1, <2>2, SameEntry
    <2>4. run'[p].pc = "release" /\ run'[p].mtime = run[p].mtime
      BY <1>8, <1>13 DEF Rename, Idle
    <2>5. OnTime(p)'
      BY <1>2, <1>3, <1>13, <2>4 DEF Rename, OnTime, world
    <2> QED
      BY <2>3, <2>5
  <1>14. CASE ServeCached(p) \/ GiveUp(p) \/ ComputeFails(p) \/ Release(p)
    <2>1. files' = files /\ run'[p] = Idle
      BY <1>8, <1>14 DEF ServeCached, GiveUp, ComputeFails, Release, Exit
    <2>2. OnTime(p)'
      BY <2>1 DEF OnTime, Idle
    <2> QED
      BY <1>2, <1>7, <2>1, <2>2, SameEntry DEF files
  <1>15. CASE MissCache(p) \/ TryCreate(p) \/ WritePid(p) \/ ReadLockPid(p) \/ CheckAlive(p)
              \/ RemoveStale(p) \/ RetakeLock(p) \/ Sleep(p)
    <2>1. /\ files' = files /\ run'[p].mtime = run[p].mtime /\ ~At(p, "idle")
          /\ run'[p].pc \notin {"create", "keys", "output", "rename"}
      BY <1>3, <1>8, <1>15 DEF MissCache, TryCreate, WritePid, ReadLockPid, CheckAlive, RemoveStale,
         RetakeLock, Sleep, Goto, Local
    <2>2. OnTime(p)'
      BY <1>2, <1>3, <2>1 DEF OnTime, world
    <2> QED
      BY <1>2, <1>7, <2>1, <2>2, SameEntry DEF files
  <1> QED
    BY <1>9, <1>10, <1>11, <1>12, <1>13, <1>14, <1>15 DEF Step

\* Neither time nor a later write makes a line claim more than it should.
LEMMA UpToDateKept ==
    ASSUME TypeOK, \A s \in Sessions : transcripts[s].mtime =< clock,
           Tick \/ \E s \in Sessions : WriteTranscript(s),
           NEW o \in Line, UpToDate(o)
    PROVE  UpToDate(o)'
  <1>1. clock \in Nat /\ o.asOf \in Nat /\ o.session \in Sessions
    BY BoundsAssumption DEF TypeOK, Line
  <1>2. CASE Tick
    BY <1>1, <1>2 DEF Tick, UpToDate
  <1>3. ASSUME NEW s \in Sessions, WriteTranscript(s) PROVE UpToDate(o)'
    <2>1. clock' = clock
      BY <1>3 DEF WriteTranscript
    <2>2. CASE o.session = s
      <3>1. transcripts'[s].mtime = clock
        BY <1>3 DEF WriteTranscript, TypeOK
      <3> QED
        BY <1>1, <2>1, <2>2, <3>1 DEF UpToDate
    <2>3. CASE o.session # s
      BY <1>1, <1>3, <2>1, <2>3 DEF WriteTranscript, TypeOK, UpToDate
    <2> QED
      BY <2>2, <2>3
  <1> QED
    BY <1>2, <1>3

LEMMA CurrentNext ==
    ASSUME MaxRunning = 1
    PROVE  SerialInv /\ TypeOK' /\ CurrentInv /\ [Next]_vars => CurrentInv'
  <1> SUFFICES ASSUME SerialInv, TypeOK', CurrentInv, [Next]_vars PROVE CurrentInv'
    OBVIOUS
  <1>1. ASSUME NEW p \in Pids, Step(p) PROVE CurrentInv'
    BY <1>1, CurrentStep
  <1>2. TypeOK /\ CurrentInv /\ \A q \in Pids : run[q] \in Local /\ LocalOK(run[q]) /\ OnTime(q)
    BY DEF SerialInv, TypeOK, CurrentInv
  <1>3. cache # None => cache \in Inodes /\ Dated(cache)
    BY DEF SerialInv, TypeOK, CurrentInv
  <1>4. ASSUME NEW p \in Pids, Kill(p) PROVE CurrentInv'
    <2>1. /\ UNCHANGED <<world, files>> /\ run'[p].pc = "idle"
          /\ \A q \in Pids : q # p => run'[q] = run[q]
      BY <1>2, <1>4 DEF Kill, Exit, Idle, TypeOK
    <2>2. \A q \in Pids : OnTime(q)'
      BY <1>2, <2>1 DEF OnTime, InOrder, UpToDate, Dated, world, files
    <2> QED
      BY <1>2, <1>3, <2>1, <2>2, SameEntry DEF CurrentInv, world, files
  <1>5. ASSUME NEW p \in Pids, NEW s \in Sessions, Start(p, s) PROVE CurrentInv'
    <2>1. \A q \in Pids : At(q, "idle")
      BY <1>5, StartsAlone
    <2>2. /\ run'[p].pc = "look" /\ run'[p].mtime = transcripts[s].mtime
          /\ \A q \in Pids : q # p => run'[q] = run[q]
      BY <1>2, <1>5 DEF Start, Idle, TypeOK
    <2>3. UNCHANGED <<world, files>>
      BY <1>5 DEF Start
    <2>4. \A q \in Pids : OnTime(q)'
      BY <1>2, <2>1, <2>2, <2>3 DEF OnTime, CurrentInv, world
    <2> QED
      BY <1>2, <1>3, <2>3, <2>4, SameEntry DEF CurrentInv, world, files
  <1>6. CASE Tick \/ \E s \in Sessions : WriteTranscript(s)
    <2>1. UNCHANGED <<files, run>>
      BY <1>6 DEF Tick, WriteTranscript
    <2>2. \A o \in Line : UpToDate(o) => UpToDate(o)'
      BY <1>2, <1>6, UpToDateKept DEF CurrentInv
    <2>3. clock \in Nat /\ clock' \in Nat /\ clock =< clock'
      BY <1>2, <1>6, BoundsAssumption DEF Tick, WriteTranscript, TypeOK
    <2>4. (\A s \in Sessions : transcripts[s].mtime =< clock)'
      <3>1. \A s \in Sessions : transcripts[s].mtime \in Nat /\ transcripts[s].mtime =< clock
        BY <1>2, BoundsAssumption DEF TypeOK, CurrentInv
      <3>2. \A s \in Sessions : transcripts'[s] = transcripts[s] \/ transcripts'[s].mtime = clock
        BY <1>2, <1>6 DEF Tick, WriteTranscript, TypeOK
      <3> QED
        BY <2>3, <3>1, <3>2
    <2>5. cache' # None => Dated(cache)'
      <3>1. cache # None => blob[cache].output \in Line
        BY DEF SerialInv, Complete, Parses, TypeOK
      <3> QED
        BY <1>3, <2>1, <2>2, <3>1 DEF Dated, InOrder, files
    <2>6. ASSUME NEW q \in Pids PROVE OnTime(q)'
      <3>1. run[q].pc \in {"create", "keys", "output"} => run[q].line \in Line
        BY <1>2 DEF LocalOK
      <3>2. At(q, "rename") => blob[tmp].output \in Line
        BY DEF SerialInv, Writing, Complete, Parses, TypeOK
      <3>3. ~At(q, "idle") => run[q].mtime \in Nat
        BY <1>2, BoundsAssumption DEF LocalOK
      <3>4. At(q, "rename") => Dated(tmp)'
        BY <1>2, <2>1, <2>2, <3>2 DEF OnTime, Dated, InOrder, files
      <3>5. run[q].pc \in {"create", "keys", "output"} => InOrder(run[q].mtime, run[q].line)'
        BY <1>2, <2>1, <2>2, <3>1 DEF OnTime, InOrder
      <3> QED
        BY <1>2, <2>1, <2>3, <3>3, <3>4, <3>5 DEF OnTime, files
    <2> QED
      BY <2>4, <2>5, <2>6 DEF CurrentInv
  <1>7. CASE UNCHANGED vars
    <2>1. \A q \in Pids : OnTime(q)'
      BY <1>2, <1>7 DEF vars, world, files, OnTime, InOrder, UpToDate, Dated
    <2> QED
      BY <1>2, <1>3, <1>7, <2>1, SameEntry DEF vars, world, files, CurrentInv
  <1> QED
    BY <1>1, <1>4, <1>5, <1>6, <1>7 DEF Next

\* As long as the agent starts one statusline at a time, a line that is served
\* from the cache tells what the transcript tells now, unless it was computed in
\* the very second the transcript was written.
THEOREM SoloLineCurrent == ASSUME MaxRunning = 1 PROVE Spec => []LineCurrent
  <1>1. SerialInv /\ CurrentInv => LineCurrent
    <2> SUFFICES ASSUME SerialInv, CurrentInv, NEW s \in Sessions, Cached(s),
                        blob[cache].keys.mtime # blob[cache].output.asOf
                 PROVE  blob[cache].output.version = transcripts[s].version
      BY DEF LineCurrent
    <2>1. cache # None /\ Dated(cache) /\ Complete(cache) /\ Fresh(blob[cache].keys, s)
      BY DEF Cached, SerialInv, CurrentInv
    <2>2. blob[cache].output.session = s /\ transcripts[s].mtime = blob[cache].keys.mtime
      BY <2>1 DEF Complete, Fresh
    <2>3. blob[cache].keys.mtime \in Nat /\ blob[cache].output.asOf \in Nat
      BY <2>1 DEF Complete, Parses, SerialInv, TypeOK, Keys, Line
    <2> QED
      BY <2>1, <2>2, <2>3 DEF Dated, InOrder, UpToDate
  <1> QED
    BY <1>1, SerialInit, SerialNext, CurrentInit, CurrentNext, TypeInit, TypeNext, PTL DEF Spec

(***************************************************************************)
(* Any number of processes                                                 *)
(***************************************************************************)

\* While nobody was killed, a lock file means that some process is on its way
\* to remove it (not always the file it created).
HeldInv == (lock # None /\ kills = 0) => \E p \in Pids : run[p].pc \in Holding

\* Steps inside the lock and steps outside it.
LEMMA HeldStep ==
    ASSUME TypeOK, HeldInv, NEW p \in Pids, Step(p)
    PROVE  HeldInv'
  <1> USE DEF HeldInv, Holding, TypeOK
  <1>1. CASE ComputeFails(p) \/ Release(p) \/ RemoveStale(p)
    BY <1>1 DEF ComputeFails, Release, RemoveStale
  <1>2. CASE TryCreate(p) \/ RetakeLock(p)
    <2>1. CASE lock = None
      <3>1. run' = [run EXCEPT ![p].pc = "sign"]
        BY <1>2, <2>1 DEF TryCreate, RetakeLock, Goto
      <3> QED
        BY <3>1 DEF Local
    <2>2. CASE lock # None
      <3>1. lock' = lock /\ kills' = kills /\ \E stage \in {"read", "wait"} : Goto(p, stage)
        BY <1>2, <2>2 DEF TryCreate, RetakeLock
      <3>2. \A q \in Pids : run[q].pc \in Holding => run'[q] = run[q]
        BY <1>2, <2>2, <3>1 DEF TryCreate, RetakeLock, Goto
      <3> QED
        BY <3>1, <3>2
    <2> QED
      BY <2>1, <2>2
  <1>3. CASE WritePid(p)
    BY <1>3 DEF WritePid, Goto, Local
  <1>4. CASE Compute(p) \/ WriteKeys(p)
    BY <1>4 DEF Compute, WriteKeys, Goto, Local
  <1>5. CASE CreateTmp(p) \/ WriteOutput(p)
    BY <1>5 DEF CreateTmp, WriteOutput, Local
  <1>6. CASE Rename(p)
    BY <1>6 DEF Rename, Idle
  <1>7. CASE ServeCached(p) \/ MissCache(p) \/ ReadLockPid(p) \/ CheckAlive(p) \/ Sleep(p)
             \/ GiveUp(p)
    <2>1. run[p].pc \notin Holding /\ lock' = lock /\ kills' = kills
      BY <1>7 DEF ServeCached, MissCache, ReadLockPid, CheckAlive, Sleep, GiveUp
    <2>2. \A q \in Pids : q # p => run'[q] = run[q]
      BY <1>7 DEF ServeCached, MissCache, ReadLockPid, CheckAlive, Sleep, GiveUp, Goto, Exit
    <2> QED
      BY <2>1, <2>2
  <1> QED
    BY <1>1, <1>2, <1>3, <1>4, <1>5, <1>6, <1>7 DEF Step

\* Starting, dying, time and the agent.
LEMMA HeldNext == TypeOK /\ HeldInv /\ [Next]_vars => HeldInv'
  <1> SUFFICES ASSUME TypeOK, HeldInv, [Next]_vars PROVE HeldInv'
    OBVIOUS
  <1>1. ASSUME NEW p \in Pids, Step(p) PROVE HeldInv'
    BY <1>1, HeldStep
  <1>2. ASSUME NEW p \in Pids, Kill(p) PROVE HeldInv'
    BY <1>2 DEF Kill, HeldInv, TypeOK
  <1>3. ASSUME NEW p \in Pids, NEW s \in Sessions, Start(p, s) PROVE HeldInv'
    <2>1. \A q \in Pids : run[q].pc \in Holding => run'[q] = run[q]
      BY <1>3 DEF Start, TypeOK, Holding
    <2> QED
      BY <1>3, <2>1 DEF Start, HeldInv
  <1>4. CASE Tick \/ (\E s \in Sessions : WriteTranscript(s)) \/ UNCHANGED vars
    BY <1>4 DEF Tick, WriteTranscript, vars, HeldInv
  <1> QED
    BY <1>1, <1>2, <1>3, <1>4 DEF Next

\* However many processes steal each other's lock, no lock file is left behind
\* unless one was killed.
THEOREM LockAlwaysReleased == Spec => []LockReleased
  <1>1. Init => HeldInv
    BY DEF Init, HeldInv
  <1>2. HeldInv => LockReleased
    BY DEF HeldInv, LockReleased, Running, Holding
  <1> QED
    BY <1>1, <1>2, TypeInit, TypeNext, HeldNext, PTL DEF Spec

=============================================================================
