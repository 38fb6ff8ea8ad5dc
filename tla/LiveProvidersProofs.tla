------------------------- MODULE LiveProvidersProofs -------------------------
(***************************************************************************)
(* Proofs about the cached polls: the invariant that ties the lock, the     *)
(* cache and the webhooks together, and that the live providers use the     *)
(* polls as they are meant to be used.                                      *)
(***************************************************************************)
EXTENDS LiveProviders, TLAPS

Levels == {TRUE, FALSE, None}
PollRecords ==
    [pc : {"idle", "look", "wait", "fetch", "notify", "store", "answered"},
     got : Versions \cup {Unavailable}, floor : Versions \cup {Unavailable}]

\* What the cache holds; what was never polled is unavailable.
Cached == IF pollCache = None THEN Unavailable ELSE pollCache.data

\* Who polls holds the lock.
Locked == \A c \in Callers : poll[c].pc \in {"fetch", "notify", "store"} => pollLock = c

\* The cache holds the newest answer there was, and nothing of the future.
CacheNewest == newest = Cached /\ newest <= world

\* Who holds an answer of the service holds one that nothing known is newer than.
AnswerCurrent ==
    \A c \in Callers :
        /\ poll[c].pc = "notify" => poll[c].got \in newest..world
        /\ poll[c].pc = "store" => poll[c].got = Unavailable \/ poll[c].got \in newest..world

FloorsKnown ==
    \A c \in Callers : poll[c].floor <= newest

\* The webhooks have looked at nothing newer than what is now being polled.
HookCurrent ==
    /\ hook # None => hook = Alarming(observed)
    /\ told # None => told = hook
    /\ observed <= world
    /\ \A c \in Callers : poll[c].pc = "notify" => observed <= poll[c].got

LockInv == Locked /\ PollsApart
DataInv == CacheNewest /\ AnswerCurrent /\ FloorsKnown /\ AnswersAdvance
PollInv == PollTypeOK /\ LockInv /\ DataInv /\ HookCurrent

-----------------------------------------------------------------------------
(* Types *)

\* A change of the stage keeps the type of the local states.
LEMMA GotoType ==
    ASSUME poll \in [Callers -> PollRecords], NEW c \in Callers,
           NEW stage \in {"idle", "look", "wait", "fetch", "notify", "store", "answered"},
           NEW v \in Versions \cup {Unavailable}
    PROVE  /\ [poll EXCEPT ![c].pc = stage] \in [Callers -> PollRecords]
           /\ [poll EXCEPT ![c].pc = stage, ![c].got = v] \in [Callers -> PollRecords]
<1>1. poll[c] \in PollRecords
  OBVIOUS
<1>2. [poll[c] EXCEPT !.pc = stage] \in PollRecords
  BY <1>1 DEF PollRecords
<1>3. [poll[c] EXCEPT !.pc = stage, !.got = v] \in PollRecords
  BY <1>1 DEF PollRecords
<1>4. [poll EXCEPT ![c].pc = stage] = [poll EXCEPT ![c] = [poll[c] EXCEPT !.pc = stage]]
  BY Zenon
<1>5. [poll EXCEPT ![c].pc = stage, ![c].got = v]
        = [poll EXCEPT ![c] = [poll[c] EXCEPT !.pc = stage, !.got = v]]
  OBVIOUS
<1> QED BY <1>2, <1>3, <1>4, <1>5

LEMMA AnsweredType ==
    ASSUME poll \in [Callers -> PollRecords], newest \in Versions \cup {Unavailable},
           NEW c \in Callers, NEW data \in Versions \cup {Unavailable}, Answered(c, data)
    PROVE  poll' \in [Callers -> PollRecords] /\ newest' \in Versions \cup {Unavailable}
<1>1. poll' \in [Callers -> PollRecords]
  BY GotoType DEF Answered
<1>2. newest' \in {newest, data}
  BY SMT DEF Answered, Larger
<1> QED BY <1>1, <1>2

\* The types of what the cache and the lock hold, without the webhooks.
StateTypes ==
    /\ clock \in 0..MaxClock
    /\ world \in Versions
    /\ pollCache \in [at : 0..MaxClock, data : Versions \cup {Unavailable}] \cup {None}
    /\ pollLock \in Callers \cup {None}
    /\ poll \in [Callers -> PollRecords]
    /\ {observed, newest} \subseteq Versions \cup {Unavailable}

LEMMA TypesSplit == PollTypeOK <=> StateTypes /\ {hook, told} \subseteq Levels
BY Zenon DEF PollTypeOK, StateTypes, PollRecords, Levels

LEMMA StateTypesStep ==
    ASSUME StateTypes, [PollNext]_pollVars
    PROVE  StateTypes'
<1> USE PollBounds DEF StateTypes, Versions, Unavailable
<1>1. CASE Tick
  BY <1>1, SMT DEF Tick, webhook
<1>2. CASE Change
  BY <1>2, SMT DEF Change, webhook
<1>3. ASSUME NEW c \in Callers, StartPoll(c)
      PROVE  StateTypes'
  <2>1. [pc |-> "look", got |-> Unavailable, floor |-> newest] \in PollRecords
    BY SMT DEF PollRecords
  <2>2. poll' \in [Callers -> PollRecords]
    BY <1>3, <2>1, Zenon DEF StartPoll
  <2> QED BY <1>3, <2>2, SMT DEF StartPoll, environment, webhook
<1>4. ASSUME NEW c \in Callers, PollHit(c)
      PROVE  StateTypes'
  <2>1. pollCache.data \in Versions \cup {Unavailable}
    BY <1>4, SMT DEF PollHit, Fresh
  <2>2. poll' \in [Callers -> PollRecords] /\ newest' \in Versions \cup {Unavailable}
    BY <1>4, <2>1, AnsweredType DEF PollHit
  <2> QED BY <1>4, <2>2, SMT DEF PollHit, environment, webhook
<1>5. ASSUME NEW c \in Callers, PollMiss(c)
      PROVE  StateTypes'
  <2>1. poll' \in [Callers -> PollRecords]
    BY <1>5, GotoType DEF PollMiss, PollGoto
  <2> QED BY <1>5, <2>1, SMT DEF PollMiss, environment, webhook
<1>6. ASSUME NEW c \in Callers, LockAndLook(c)
      PROVE  StateTypes'
  <2>1. CASE Fresh /\ Answered(c, pollCache.data) /\ UNCHANGED pollLock
    <3>1. pollCache.data \in Versions \cup {Unavailable}
      BY <2>1, SMT DEF Fresh
    <3>2. poll' \in [Callers -> PollRecords] /\ newest' \in Versions \cup {Unavailable}
      BY <2>1, <3>1, AnsweredType
    <3> QED BY <1>6, <2>1, <3>2, SMT DEF LockAndLook, environment, webhook
  <2>2. CASE ~Fresh /\ PollGoto(c, "fetch") /\ pollLock' = c /\ UNCHANGED newest
    <3>1. poll' \in [Callers -> PollRecords]
      BY <2>2, GotoType DEF PollGoto
    <3> QED BY <1>6, <2>2, <3>1, SMT DEF LockAndLook, environment, webhook
  <2> QED BY <1>6, <2>1, <2>2 DEF LockAndLook
<1>7. ASSUME NEW c \in Callers, Fetch(c)
      PROVE  StateTypes'
  <2>1. PICK stage \in {"notify", "store"}, v \in {world, Unavailable} :
           poll' = [poll EXCEPT ![c].pc = stage, ![c].got = v]
    BY <1>7, Zenon DEF Fetch
  <2>2. poll' \in [Callers -> PollRecords]
    BY <2>1, GotoType
  <2> QED BY <1>7, <2>2, SMT DEF Fetch, environment, webhook
<1>8. ASSUME NEW c \in Callers, Notify(c)
      PROVE  StateTypes'
  <2>1. poll' \in [Callers -> PollRecords]
    BY <1>8, GotoType DEF Notify, PollGoto
  <2>2. observed' \in Versions \cup {Unavailable}
    BY <1>8, SMT DEF Notify, Larger, PollRecords
  <2> QED BY <1>8, <2>1, <2>2, SMT DEF Notify, environment
<1>9. ASSUME NEW c \in Callers, Store(c)
      PROVE  StateTypes'
  <2> DEFINE data == IF poll[c].got = Unavailable /\ pollCache # None
                     THEN pollCache.data ELSE poll[c].got
  <2>1. data \in Versions \cup {Unavailable}
    BY SMT DEF PollRecords
  <2>2. /\ Answered(c, data)
        /\ pollCache' = [at |-> clock, data |-> data]
        /\ pollLock' = None
        /\ UNCHANGED <<environment, webhook>>
    BY <1>9, Zenon DEF Store
  <2> HIDE DEF data
  <2>3. poll' \in [Callers -> PollRecords] /\ newest' \in Versions \cup {Unavailable}
    BY <2>1, <2>2, AnsweredType
  <2> QED BY <2>1, <2>2, <2>3, SMT DEF environment, webhook
<1>10. ASSUME NEW c \in Callers, Return(c) \/ Abandon(c)
       PROVE  StateTypes'
  <2>1. Resting \in PollRecords
    BY SMT DEF Resting, PollRecords
  <2>2. poll' \in [Callers -> PollRecords]
    BY <1>10, <2>1, Zenon DEF Return, Abandon, Dropped
  <2> QED BY <1>10, <2>2, SMT DEF Return, Abandon, Dropped, environment, webhook
<1>11. CASE UNCHANGED pollVars
  BY <1>11, Zenon DEF pollVars, environment, webhook
<1> QED
  BY <1>1, <1>2, <1>3, <1>4, <1>5, <1>6, <1>7, <1>8, <1>9, <1>10, <1>11 DEF PollNext, PollStep

-----------------------------------------------------------------------------
(* The lock *)

\* A pollCache that is there is a record.
LEMMA CacheRecord ==
    ASSUME StateTypes, pollCache # None
    PROVE  pollCache.at \in Nat /\ pollCache.at <= MaxClock
           /\ pollCache.data \in Versions \cup {Unavailable}
BY PollBounds, SMT DEF StateTypes

LEMMA LockStep ==
    ASSUME StateTypes, LockInv, [PollNext]_pollVars
    PROVE  LockInv'
<1> USE DEF LockInv, Locked, PollsApart, PollAt
<1>0. clock \in Nat /\ Interval \in Nat /\ poll \in [Callers -> PollRecords] /\ None \notin Callers
  BY PollBounds, PollNone, SMT DEF StateTypes
<1>1. CASE Tick
  <2>1. pollCache # None => pollCache.at \in Nat
    BY CacheRecord
  <2>2. ~Fresh => ~Fresh'
    BY <1>0, <1>1, <2>1, SMT DEF Tick, Fresh
  <2> QED BY <1>1, <2>2, Zenon DEF Tick
<1>2. CASE Change
  BY <1>2, SMT DEF Change, Fresh
<1>3. ASSUME NEW c \in Callers, StartPoll(c) \/ PollHit(c) \/ PollMiss(c) \/ Return(c)
      PROVE  LockInv'
  <2>1. UNCHANGED <<clock, pollCache, pollLock>>
    BY <1>3, Zenon DEF StartPoll, PollHit, PollMiss, Return, environment
  <2>2. poll'[c].pc \in {"idle", "look", "wait", "answered"}
    BY <1>0, <1>3, SMT DEF StartPoll, PollHit, PollMiss, Return, Answered, PollGoto, Resting, PollRecords
  <2>3. \A d \in Callers \ {c} : poll'[d] = poll[d]
    BY <1>0, <1>3, SMT DEF StartPoll, PollHit, PollMiss, Return, Answered, PollGoto, Resting
  <2> QED BY <2>1, <2>2, <2>3, SMT DEF Fresh
<1>4. ASSUME NEW c \in Callers, LockAndLook(c)
      PROVE  LockInv'
  <2>1. \A d \in Callers \ {c} : poll'[d] = poll[d]
    BY <1>0, <1>4, SMT DEF LockAndLook, Answered, PollGoto
  <2>2. \A d \in Callers : poll[d].pc \notin {"fetch", "notify", "store"}
    BY <1>0, <1>4, SMT DEF LockAndLook
  <2>3. Fresh' = Fresh
    BY <1>4, Zenon DEF LockAndLook, Fresh, environment
  <2>4. poll'[c].pc = "answered" \/ (poll'[c].pc = "fetch" /\ pollLock' = c /\ ~Fresh)
    BY <1>0, <1>4, SMT DEF LockAndLook, Answered, PollGoto, PollRecords
  <2> QED BY <2>1, <2>2, <2>3, <2>4, Zenon
<1>5. ASSUME NEW c \in Callers, Fetch(c) \/ Notify(c)
      PROVE  LockInv'
  <2>1. UNCHANGED <<clock, pollCache, pollLock>>
    BY <1>5, Zenon DEF Fetch, Notify, environment
  <2>2. \A d \in Callers \ {c} : poll'[d] = poll[d]
    BY <1>0, <1>5, SMT DEF Fetch, Notify, PollGoto
  <2>3. poll'[c].pc \in {"notify", "store"} /\ pollLock = c
    BY <1>0, <1>5, SMT DEF Fetch, Notify, PollGoto, PollRecords
  <2> QED BY <2>1, <2>2, <2>3, SMT DEF Fresh
<1>6. ASSUME NEW c \in Callers, Store(c)
      PROVE  LockInv'
  <2>1. \A d \in Callers \ {c} : poll'[d] = poll[d]
    BY <1>0, <1>6, SMT DEF Store, Answered
  <2>2. poll'[c].pc = "answered"
    BY <1>0, <1>6, SMT DEF Store, Answered
  <2>3. pollLock = c
    BY <1>6, Zenon DEF Store
  <2> QED BY <2>1, <2>2, <2>3, SMT
<1>7. ASSUME NEW c \in Callers, Abandon(c)
      PROVE  LockInv'
  <2>1. \A d \in Callers \ {c} : poll'[d] = poll[d]
    BY <1>0, <1>7, SMT DEF Abandon, Dropped
  <2>2. poll'[c].pc = "idle"
    BY <1>0, <1>7, SMT DEF Abandon, Dropped, Resting
  <2>3. \A d \in Callers \ {c} : pollLock = d => pollLock' = d
    BY <1>7, Zenon DEF Abandon, Dropped
  <2>4. UNCHANGED <<clock, pollCache>>
    BY <1>7, Zenon DEF Abandon, environment
  <2> QED BY <2>1, <2>2, <2>3, <2>4, SMT DEF Fresh
<1>8. CASE UNCHANGED pollVars
  BY <1>8, Zenon DEF pollVars, environment, Fresh
<1> QED
  BY <1>1, <1>2, <1>3, <1>4, <1>5, <1>6, <1>7, <1>8 DEF PollNext, PollStep

-----------------------------------------------------------------------------
(* The data *)

LEMMA DataStep ==
    ASSUME StateTypes, LockInv, DataInv, [PollNext]_pollVars
    PROVE  DataInv'
<1> USE DEF DataInv, CacheNewest, AnswerCurrent, FloorsKnown, AnswersAdvance, PollAt, Cached
<1>0. /\ world \in Nat /\ newest \in Nat /\ poll \in [Callers -> PollRecords]
      /\ \A c \in Callers : poll[c].got \in Nat /\ poll[c].floor \in Nat
      /\ pollCache # None => pollCache.data \in Nat
  BY PollBounds, SMT DEF StateTypes, PollRecords, Versions, Unavailable
<1>1. CASE Tick
  BY <1>1, SMT DEF Tick
<1>2. CASE Change
  BY <1>0, <1>2, SMT DEF Change
<1>3. ASSUME NEW c \in Callers, StartPoll(c) \/ PollMiss(c) \/ Return(c) \/ Abandon(c)
      PROVE  DataInv'
  <2>1. UNCHANGED <<world, pollCache, newest>>
    BY <1>3, Zenon DEF StartPoll, PollMiss, Return, Abandon, environment
  <2>2. /\ poll'[c].pc \in {"idle", "look", "wait"}
        /\ poll'[c].floor <= newest
    BY <1>0, <1>3, SMT DEF StartPoll, PollMiss, Return, Abandon, Dropped, PollGoto, Resting, Unavailable, PollRecords
  <2>3. \A d \in Callers \ {c} : poll'[d] = poll[d]
    BY <1>0, <1>3, SMT DEF StartPoll, PollMiss, Return, Abandon, Dropped, PollGoto
  <2> QED BY <2>1, <2>2, <2>3, SMT
<1>4. ASSUME NEW c \in Callers, PollHit(c) \/ LockAndLook(c)
      PROVE  DataInv'
  <2>1. UNCHANGED <<world, pollCache>> /\ \A d \in Callers \ {c} : poll'[d] = poll[d]
    BY <1>0, <1>4, SMT DEF PollHit, LockAndLook, Answered, PollGoto, environment
  <2>2. newest' = newest
    BY <1>0, <1>4, SMT DEF PollHit, LockAndLook, Answered, Larger, Fresh
  <2>3. poll'[c].floor = poll[c].floor
    BY <1>0, <1>4, SMT DEF PollHit, LockAndLook, Answered, PollGoto, PollRecords
  <2>4. poll'[c].pc = "fetch" \/ (poll'[c].pc = "answered" /\ poll'[c].got = newest)
    BY <1>0, <1>4, SMT DEF PollHit, LockAndLook, Answered, PollGoto, Fresh, PollRecords
  <2> QED BY <1>0, <2>1, <2>2, <2>3, <2>4, SMT
<1>5. ASSUME NEW c \in Callers, Fetch(c)
      PROVE  DataInv'
  <2>1. UNCHANGED <<world, pollCache, newest>>
    BY <1>5, Zenon DEF Fetch, environment
  <2>2. PICK stage \in {"notify", "store"}, v \in {world, Unavailable} :
           (stage = "notify" => v = world) /\ poll' = [poll EXCEPT ![c].pc = stage, ![c].got = v]
    BY <1>5, Zenon DEF Fetch
  <2>3. /\ \A d \in Callers \ {c} : poll'[d] = poll[d]
        /\ poll'[c].floor = poll[c].floor /\ poll'[c].pc = stage /\ poll'[c].got = v
    BY <1>0, <2>2, SMT DEF PollRecords
  <2> QED BY <1>0, <2>1, <2>2, <2>3, SMT
<1>6. ASSUME NEW c \in Callers, Notify(c)
      PROVE  DataInv'
  <2>1. UNCHANGED <<world, pollCache, newest>>
    BY <1>6, Zenon DEF Notify, environment
  <2>2. /\ \A d \in Callers \ {c} : poll'[d] = poll[d]
        /\ poll[c].pc = "notify" /\ poll'[c].pc = "store"
        /\ poll'[c].floor = poll[c].floor /\ poll'[c].got = poll[c].got
    BY <1>0, <1>6, SMT DEF Notify, PollGoto, PollRecords
  <2> QED BY <1>0, <2>1, <2>2, SMT
<1>7. ASSUME NEW c \in Callers, Store(c)
      PROVE  DataInv'
  <2> DEFINE data == IF poll[c].got = Unavailable /\ pollCache # None
                     THEN pollCache.data ELSE poll[c].got
  <2>1. /\ Answered(c, data)
        /\ pollCache' = [at |-> clock, data |-> data]
        /\ world' = world
        /\ poll[c].pc = "store" /\ pollLock = c
    BY <1>7, Zenon DEF Store, environment, LockInv, Locked, PollAt
  <2>2. data \in newest..world
    BY <1>0, <2>1, SMT DEF Unavailable
  <2> HIDE DEF data
  <2>3. newest' = data
    BY <1>0, <2>1, <2>2, SMT DEF Answered, Larger
  <2>4. pollCache' # None /\ pollCache'.data = data
    BY <1>0, <2>1, <2>2, PollNone, SMT DEF StateTypes
  <2>5. /\ \A d \in Callers \ {c} : poll'[d] = poll[d]
        /\ poll'[c].pc = "answered" /\ poll'[c].got = data /\ poll'[c].floor = poll[c].floor
    BY <1>0, <2>1, SMT DEF Answered, PollRecords
  <2>6. \A d \in Callers \ {c} : poll[d].pc \notin {"notify", "store"}
    BY <2>1, Zenon DEF LockInv, Locked
  <2> QED BY <1>0, <2>1, <2>2, <2>3, <2>4, <2>5, <2>6, SMT
<1>8. CASE UNCHANGED pollVars
  BY <1>8, SMT DEF pollVars, environment
<1> QED
  BY <1>1, <1>2, <1>3, <1>4, <1>5, <1>6, <1>7, <1>8 DEF PollNext, PollStep

-----------------------------------------------------------------------------
(* The webhooks *)

LevelTypes == {hook, told} \subseteq Levels

LEMMA HookStep ==
    ASSUME StateTypes, LockInv, DataInv, LevelTypes, HookCurrent, [PollNext]_pollVars
    PROVE  LevelTypes' /\ HookCurrent'
<1>0. /\ world \in Nat /\ observed \in Nat /\ poll \in [Callers -> PollRecords]
      /\ \A c \in Callers : poll[c].got \in Nat
  BY PollBounds, SMT DEF StateTypes, PollRecords, Versions, Unavailable
<1>1. ASSUME UNCHANGED webhook, world' \in Nat, world <= world',
             \A c \in Callers : poll'[c].pc = "notify" =>
                poll'[c].got = world' \/ (poll[c].pc = "notify" /\ poll'[c].got = poll[c].got)
      PROVE  LevelTypes' /\ HookCurrent'
  <2>1. UNCHANGED <<hook, told, observed>>
    BY <1>1, Zenon DEF webhook
  <2>2. LevelTypes'
    BY <2>1, Zenon DEF LevelTypes, Levels
  <2>3. (hook # None => hook = Alarming(observed))' /\ (told # None => told = hook)'
    BY <2>1, Zenon DEF HookCurrent, Alarming
  <2>4. (observed <= world)'
    BY <1>0, <1>1, <2>1, SMT DEF HookCurrent
  <2>5. \A c \in Callers : poll'[c].pc = "notify" => observed' <= poll'[c].got
    BY <1>0, <1>1, <2>1, <2>4, SMT DEF HookCurrent
  <2> QED BY <2>2, <2>3, <2>4, <2>5, Zenon DEF HookCurrent
<1>2. CASE Tick
  BY <1>0, <1>1, <1>2, SMT DEF Tick
<1>3. CASE Change
  BY <1>0, <1>1, <1>3, SMT DEF Change
<1>4. ASSUME NEW c \in Callers,
             \/ StartPoll(c) \/ PollHit(c) \/ PollMiss(c) \/ LockAndLook(c)
             \/ Store(c) \/ Return(c) \/ Abandon(c)
      PROVE  LevelTypes' /\ HookCurrent'
  <2>1. UNCHANGED <<world, webhook>>
    BY <1>4, Zenon DEF StartPoll, PollHit, PollMiss, LockAndLook, Store, Return, Abandon, environment
  <2>2. \A d \in Callers \ {c} : poll'[d] = poll[d]
    BY <1>0, <1>4, SMT DEF StartPoll, PollHit, PollMiss, LockAndLook, Store, Return, Abandon,
       Dropped, Answered, PollGoto
  <2>3. poll'[c].pc # "notify"
    BY <1>0, <1>4, SMT DEF StartPoll, PollHit, PollMiss, LockAndLook, Store, Return, Abandon,
       Dropped, Answered, PollGoto, Resting, PollRecords
  <2> QED BY <1>0, <1>1, <2>1, <2>2, <2>3, SMT
<1>5. ASSUME NEW c \in Callers, Fetch(c)
      PROVE  LevelTypes' /\ HookCurrent'
  <2>1. UNCHANGED <<world, webhook>>
    BY <1>5, Zenon DEF Fetch, environment
  <2>2. PICK stage \in {"notify", "store"}, v \in {world, Unavailable} :
           (stage = "notify" => v = world) /\ poll' = [poll EXCEPT ![c].pc = stage, ![c].got = v]
    BY <1>5, Zenon DEF Fetch
  <2>3. /\ \A d \in Callers \ {c} : poll'[d] = poll[d]
        /\ poll'[c].pc = stage /\ poll'[c].got = v
    BY <1>0, <2>2, SMT DEF PollRecords
  <2> QED BY <1>0, <1>1, <2>1, <2>2, <2>3, SMT
<1>6. ASSUME NEW c \in Callers, Notify(c)
      PROVE  LevelTypes' /\ HookCurrent'
  <2>1. /\ poll[c].pc = "notify" /\ world' = world
        /\ hook' = Alarming(poll[c].got)
        /\ told' = IF hook \in {None, hook'} THEN told ELSE hook'
        /\ observed' = Larger(observed, poll[c].got)
        /\ PollGoto(c, "store")
    BY <1>6, Zenon DEF Notify, PollAt, environment
  <2>2. observed' = poll[c].got
    BY <1>0, <2>1, SMT DEF Larger, HookCurrent
  <2>3. hook' = Alarming(observed')
    BY <2>1, <2>2, Zenon
  <2>4. hook' \in {TRUE, FALSE}
    BY <2>1, Zenon DEF Alarming
  <2>5. LevelTypes'
    BY <2>1, <2>4, Zenon DEF LevelTypes, Levels
  <2>6. (told # None => told = hook)'
    <3>1. CASE hook = None
      <4>1. told = None
        BY <3>1, Zenon DEF HookCurrent
      <4> QED BY <2>1, <3>1, <4>1, Zenon
    <3>2. CASE hook = hook' /\ hook # None
      BY <2>1, <3>2, Zenon DEF HookCurrent
    <3>3. CASE hook \notin {None, hook'}
      BY <2>1, <3>3, Zenon
    <3> QED BY <3>1, <3>2, <3>3, Zenon
  <2>7. (observed <= world)'
    <3>1. poll[c].got \in newest..world
      BY <2>1, Zenon DEF DataInv, AnswerCurrent
    <3>2. newest \in Nat
      BY PollBounds, SMT DEF StateTypes, Versions, Unavailable
    <3> QED BY <1>0, <2>1, <2>2, <3>1, <3>2, SMT DEF Alarming
  <2>8. \A d \in Callers : poll'[d].pc = "notify" => observed' <= poll'[d].got
    <3>1. poll'[c].pc = "store" /\ \A d \in Callers \ {c} : poll'[d] = poll[d]
      BY <1>0, <2>1, SMT DEF PollGoto, PollRecords
    <3>2. \A d \in Callers \ {c} : poll[d].pc # "notify"
      BY <2>1, Zenon DEF LockInv, Locked
    <3> QED BY <3>1, <3>2, SMT
  <2>9. (hook # None => hook = Alarming(observed))'
    BY <2>3, Zenon DEF Alarming
  <2> QED BY <2>5, <2>6, <2>7, <2>8, <2>9, Zenon DEF HookCurrent
<1>7. CASE UNCHANGED pollVars
  BY <1>0, <1>1, <1>7, SMT DEF pollVars, environment
<1> QED
  BY <1>2, <1>3, <1>4, <1>5, <1>6, <1>7 DEF PollNext, PollStep

-----------------------------------------------------------------------------
(* Theorems *)

LEMMA PollInitInv == PollInit => PollInv
<1> SUFFICES ASSUME PollInit PROVE PollInv
  OBVIOUS
<1>1. StateTypes
  <2>1. Resting \in PollRecords
    BY SMT DEF Resting, PollRecords
  <2>2. poll \in [Callers -> PollRecords]
    BY <2>1, Zenon DEF PollInit
  <2> QED BY <2>2, PollBounds, SMT DEF PollInit, StateTypes, Versions, Unavailable
<1>2. LevelTypes
  BY Zenon DEF PollInit, LevelTypes, Levels
<1>3. LockInv
  BY SMT DEF PollInit, LockInv, Locked, PollsApart, PollAt, Resting
<1>4. DataInv
  BY SMT DEF PollInit, DataInv, CacheNewest, Cached, AnswerCurrent, FloorsKnown, AnswersAdvance,
     PollAt, Resting, Unavailable
<1>5. HookCurrent
  BY SMT DEF PollInit, HookCurrent, Resting, Unavailable
<1> QED BY <1>1, <1>2, <1>3, <1>4, <1>5, TypesSplit, Zenon DEF PollInv, LevelTypes

LEMMA PollStepInv == PollInv /\ [PollNext]_pollVars => PollInv'
<1> SUFFICES ASSUME PollInv, [PollNext]_pollVars PROVE PollInv'
  OBVIOUS
<1>1. StateTypes /\ LevelTypes /\ LockInv /\ DataInv /\ HookCurrent
  BY TypesSplit, Zenon DEF PollInv, LevelTypes
<1>2. StateTypes'
  BY <1>1, StateTypesStep
<1>3. LockInv' /\ DataInv' /\ LevelTypes' /\ HookCurrent'
  BY <1>1, LockStep, DataStep, HookStep
<1>4. PollTypeOK'
  BY <1>2, <1>3, Zenon DEF PollTypeOK, StateTypes, PollRecords, LevelTypes, Levels
<1> QED BY <1>3, <1>4, Zenon DEF PollInv

\* Every step is one of the polls, or leaves them.
LEMMA NextPolls == [Next]_vars => [PollNext]_pollVars
<1> SUFFICES ASSUME [Next]_vars PROVE [PollNext]_pollVars
  OBVIOUS
<1> USE LiveTasks DEF PollNext, PollStep
<1>1. ASSUME NEW t \in Tasks, Step(t) PROVE [PollNext]_pollVars
  BY <1>1, Zenon DEF Step, LookFresh, ServeStale, NothingCached, TryLock, TakeLock, LookAgainLive,
     AskUsage, ShowUsage, SkipUsage, BuildClaude, BuildCodex, StoreLive
<1>2. ASSUME NEW c \in Callers, PollStep(c) PROVE [PollNext]_pollVars
  BY <1>2, Zenon
<1>3. ASSUME NEW q \in Requests, HangUp(q) PROVE [PollNext]_pollVars
  BY <1>3, Zenon DEF HangUp, Abandon, Tasks
<1>4. ASSUME NEW q \in Requests, NEW kind \in Kinds[q], Ask(q, kind) PROVE [PollNext]_pollVars
  BY <1>4, Zenon DEF Ask
<1>5. ASSUME NEW t \in Tasks, FailBuild(t) PROVE [PollNext]_pollVars
  BY <1>5, Zenon DEF FailBuild
<1>6. CASE UNCHANGED vars
  BY <1>6, Zenon DEF vars
<1> QED BY <1>1, <1>2, <1>3, <1>4, <1>5, <1>6, Zenon DEF Next, Work

\* The live providers, however their requests, tasks and hang-ups interleave, use
\* the polls as module Polls has them: one call at a time for each caller, every
\* answer taken or the call dropped with its lock.
THEOREM LiveProvidersPoll == Spec => PollSpec
<1>1. Init => PollInit
  BY DEF Init
<1> QED BY <1>1, NextPolls, PTL DEF Spec, PollSpec

THEOREM PollsInvariant == PollSpec => []PollInv
BY PollInitInv, PollStepInv, PTL DEF PollSpec

\* The service is polled only when nothing was stored within the interval, for any
\* number of requests, background tasks, failures and hang-ups.
THEOREM LivePollsApart == Spec => []PollsApart
<1>1. PollInv => PollsApart
  BY DEF PollInv, LockInv
<1> QED BY <1>1, PollsInvariant, LiveProvidersPoll, PTL

\* No caller is answered with older data than someone was before its call began.
THEOREM LiveAnswersAdvance == Spec => []AnswersAdvance
<1>1. PollInv => AnswersAdvance
  BY DEF PollInv, DataInv
<1> QED BY <1>1, PollsInvariant, LiveProvidersPoll, PTL

\* The last webhook sent says the level of the newest data a webhook has looked at.
THEOREM LiveLastWebhookTrue == Spec => []LastWebhookTrue
<1>1. PollInv => LastWebhookTrue
  <2> SUFFICES ASSUME PollInv, told # None PROVE told = Alarming(observed)
    BY DEF LastWebhookTrue
  <2> QED BY Zenon DEF PollInv, HookCurrent
<1> QED BY <1>1, PollsInvariant, LiveProvidersPoll, PTL

-----------------------------------------------------------------------------
(* What the requests show *)

Stages == {"new", "look", "any", "lock", "wait", "again", "build", "usage",
           "codex", "store", "done"}
Answers == Versions \cup {Unavailable}
Snapshots == UNION { [S -> Answers] : S \in SUBSET Providers }

\* A task is a record of these fields.
IsTask(r) ==
    /\ r = [pc |-> r.pc, force |-> r.force, scope |-> r.scope, waited |-> r.waited,
            got |-> r.got, floor |-> r.floor, renewed |-> r.renewed]
    /\ r.pc \in Stages /\ r.scope \in Scopes
    /\ r.got \in Snapshots /\ r.floor \in [Providers -> Answers]

TaskShapes == task = [t \in Tasks |-> task[t]] /\ \A t \in Tasks : IsTask(task[t])

Shapes ==
    /\ TaskShapes
    /\ live # None => live.at \in 0..MaxClock /\ live.snaps \in [Providers -> Answers]
    /\ shown \in [Providers -> Answers]
    /\ liveLock \in Tasks \cup {None}
    /\ drops \in 0..MaxDrops

\* Nobody is shown what is not there yet, and Claude's data is that of the polls.
ShownKnown ==
    /\ \A p \in Providers : shown[p] <= world
    /\ shown["claude"] <= newest

\* The cache has nothing that is older than what was shown.
CacheNew ==
    live # None =>
        /\ live.snaps["claude"] <= newest
        /\ \A p \in Providers : /\ live.snaps[p] <= world
                                /\ live.snaps[p] = Unavailable \/ live.snaps[p] >= shown[p]

AnswersKnown == \A c \in Callers : PollAt(c, "answered") => poll[c].got <= newest

\* Who fetches for the cache has the lock; the windows alone are fetched without.
Fetches(t) ==
    \/ task[t].pc \in {"again", "codex", "store"}
    \/ task[t].pc \in {"build", "usage"} /\ task[t].scope # "usage"

\* What a task has to show: which providers, and how new.
GotExpected(t) ==
    /\ task[t].pc \notin {"codex", "store", "done"} => DOMAIN task[t].got = {}
    /\ task[t].pc = "codex" =>
          "codex" \in Built(t) /\ DOMAIN task[t].got = Built(t) \ {"codex"}
    /\ task[t].pc = "store" => DOMAIN task[t].got = Built(t)

GotNew(t) ==
    task[t].pc \in {"codex", "store"} =>
        \A p \in DOMAIN task[t].got :
            /\ task[t].got[p] <= world
            /\ p = "claude" => task[t].got[p] <= newest
            /\ \/ task[t].got[p] = Unavailable
               \/ /\ task[t].got[p] >= shown[p]
                  /\ live # None => task[t].got[p] >= live.snaps[p]

\* The poll it waits for began after all that was shown.
UsageNew(t) ==
    task[t].pc = "usage" =>
        /\ poll[t].floor >= task[t].floor["claude"]
        /\ task[t].scope # "usage" =>
              /\ poll[t].floor >= shown["claude"]
              /\ live # None => poll[t].floor >= live.snaps["claude"]

\* What a task has shown is as new as what it had to be.
DoneNew(t) ==
    task[t].pc = "done" =>
        \A p \in DOMAIN task[t].got :
            task[t].got[p] = Unavailable \/ task[t].got[p] >= task[t].floor[p]

\* A forced refresh of everything finds the cache empty until another task has
\* fetched everything anew.
Forced(t) == task[t].force /\ task[t].scope = "all"
ForcedPassesOver(t) ==
    Forced(t) =>
        /\ task[t].pc \notin {"new", "done"} /\ live # None => task[t].renewed
        /\ task[t].pc = "done" /\ DOMAIN task[t].got # {} => task[t].renewed

TaskInv(t) ==
    /\ Fetches(t) => liveLock = t
    /\ task[t].pc \notin {"new", "build", "usage", "done"} => task[t].scope # "usage"
    /\ \A p \in Providers : task[t].floor[p] <= shown[p]
    /\ GotExpected(t) /\ GotNew(t) /\ UsageNew(t) /\ DoneNew(t) /\ ForcedPassesOver(t)

SharedInv == ShownKnown /\ CacheNew /\ AnswersKnown
LiveInv == Shapes /\ SharedInv /\ \A t \in Tasks : TaskInv(t)

\* All versions are numbers.
NumbersOK ==
    /\ world \in Nat /\ newest \in Nat
    /\ \A p \in Providers : shown[p] \in Nat /\ (live # None => live.snaps[p] \in Nat)
    /\ \A t \in Tasks :
          /\ poll[t].floor \in Nat /\ poll[t].got \in Nat
          /\ DOMAIN task[t].got \subseteq Providers
          /\ \A p \in DOMAIN task[t].got : task[t].got[p] \in Nat
          /\ \A p \in Providers : task[t].floor[p] \in Nat

LEMMA AnswersNat == Answers \subseteq Nat
BY PollBounds DEF Answers, Versions, Unavailable

LEMMA SnapshotType ==
    ASSUME NEW g \in Snapshots
    PROVE  /\ DOMAIN g \subseteq Providers
           /\ \A p \in DOMAIN g : g[p] \in Answers
BY DEF Snapshots

LEMMA Numbers == PollTypeOK /\ Shapes => NumbersOK
<1> SUFFICES ASSUME PollTypeOK, Shapes PROVE NumbersOK
  OBVIOUS
<1>1. StateTypes
  BY TypesSplit
<1>2. world \in Nat /\ newest \in Nat
  BY <1>1, AnswersNat, PollBounds DEF StateTypes, Answers, Versions
<1>3. \A t \in Tasks : poll[t].floor \in Nat /\ poll[t].got \in Nat
  BY <1>1, AnswersNat, LiveTasks DEF StateTypes, PollRecords, Answers
<1>4. ASSUME NEW p \in Providers PROVE shown[p] \in Nat /\ (live # None => live.snaps[p] \in Nat)
  BY AnswersNat DEF Shapes
<1>5. ASSUME NEW t \in Tasks
      PROVE  /\ DOMAIN task[t].got \subseteq Providers
             /\ \A p \in DOMAIN task[t].got : task[t].got[p] \in Nat
             /\ \A p \in Providers : task[t].floor[p] \in Nat
  <2>1. task[t].got \in Snapshots /\ task[t].floor \in [Providers -> Answers]
    BY DEF Shapes, TaskShapes, IsTask
  <2> QED
    BY <2>1, AnswersNat, SnapshotType
<1> QED
  BY <1>2, <1>3, <1>4, <1>5 DEF NumbersOK

LEMMA NumbersAfter == (PollTypeOK /\ Shapes => NumbersOK)'
BY Numbers, PTL

\* A step of the polls: what is known grows, and each call keeps its start.
LEMMA PollGrows ==
    ASSUME PollInv, AnswersKnown, [PollNext]_pollVars
    PROVE  world' >= world /\ newest' >= newest /\ AnswersKnown'
<1> USE DEF AnswersKnown, PollAt
<1>1. StateTypes /\ DataInv /\ poll \in [Callers -> PollRecords]
  BY TypesSplit DEF PollInv, StateTypes
<1>0. /\ world \in Nat /\ newest \in Nat
      /\ \A c \in Callers : poll[c].got \in Nat
      /\ pollCache # None => pollCache.data \in Nat
  BY <1>1, PollBounds, SMT DEF StateTypes, PollRecords, Versions, Unavailable
<1>2. CASE Tick \/ Change
  BY <1>0, <1>2, SMT DEF Tick, Change
<1>3. ASSUME NEW c \in Callers, StartPoll(c) \/ PollMiss(c) \/ Return(c) \/ Abandon(c) \/ Fetch(c) \/ Notify(c)
      PROVE  world' >= world /\ newest' >= newest /\ AnswersKnown'
  <2>1. UNCHANGED <<world, newest>>
    BY <1>3, Zenon DEF StartPoll, PollMiss, Return, Abandon, Fetch, Notify, environment
  <2>2. \A d \in Callers \ {c} : poll'[d] = poll[d]
    BY <1>1, <1>3, SMT DEF StartPoll, PollMiss, Return, Abandon, Dropped, PollGoto, Fetch, Notify
  <2>3. poll'[c].pc # "answered"
    BY <1>1, <1>3, SMT DEF StartPoll, PollMiss, Return, Abandon, Dropped, PollGoto, Resting,
       Fetch, Notify, PollRecords
  <2> QED BY <1>0, <2>1, <2>2, <2>3, SMT
<1>4. ASSUME NEW c \in Callers, NEW data \in Nat, Answered(c, data), world' = world
      PROVE  world' >= world /\ newest' >= newest /\ AnswersKnown'
  <2>1. newest' >= newest /\ newest' >= data /\ newest' \in Nat
    BY <1>0, <1>4, SMT DEF Answered, Larger
  <2>2. /\ poll'[c].got = data
        /\ \A d \in Callers \ {c} : poll'[d] = poll[d]
    BY <1>1, <1>4, SMT DEF Answered, PollRecords
  <2> QED BY <1>0, <1>4, <2>1, <2>2, SMT
<1>5. ASSUME NEW c \in Callers, PollHit(c)
      PROVE  world' >= world /\ newest' >= newest /\ AnswersKnown'
  BY <1>0, <1>4, <1>5 DEF PollHit, Fresh, environment
<1>6. ASSUME NEW c \in Callers, LockAndLook(c)
      PROVE  world' >= world /\ newest' >= newest /\ AnswersKnown'
  <2>1. CASE Fresh /\ Answered(c, pollCache.data)
    BY <1>0, <1>4, <1>6, <2>1 DEF LockAndLook, Fresh, environment
  <2>2. CASE PollGoto(c, "fetch") /\ UNCHANGED newest
    <3>1. poll'[c].pc # "answered" /\ \A d \in Callers \ {c} : poll'[d] = poll[d]
      BY <1>1, <2>2, SMT DEF PollGoto, PollRecords
    <3> QED BY <1>0, <1>6, <2>2, <3>1, SMT DEF LockAndLook, environment
  <2> QED BY <1>6, <2>1, <2>2 DEF LockAndLook
<1>7. ASSUME NEW c \in Callers, Store(c)
      PROVE  world' >= world /\ newest' >= newest /\ AnswersKnown'
  <2> DEFINE data == IF poll[c].got = Unavailable /\ pollCache # None
                     THEN pollCache.data ELSE poll[c].got
  <2>1. data \in Nat
    BY <1>0
  <2>2. Answered(c, data) /\ world' = world
    BY <1>7, Zenon DEF Store, environment
  <2> HIDE DEF data
  <2>3. PICK d \in Nat : Answered(c, d)
    BY <2>1, <2>2
  <2> QED BY <1>4, <2>2, <2>3
<1>8. CASE UNCHANGED pollVars
  BY <1>0, <1>8, SMT DEF pollVars, environment
<1> QED
  BY <1>2, <1>3, <1>5, <1>6, <1>7, <1>8, Zenon DEF PollNext, PollStep

LEMMA PollFloors ==
    ASSUME PollInv, NEW c \in Callers
    PROVE  /\ PollStep(c) => \A d \in Callers : poll'[d].floor = poll[d].floor
           /\ StartPoll(c) => poll'[c].floor = newest
           /\ (StartPoll(c) \/ Return(c) \/ Dropped(c)) =>
                 \A d \in Callers \ {c} : poll'[d] = poll[d]
<1>1. poll \in [Callers -> PollRecords]
  BY TypesSplit DEF PollInv, StateTypes
<1>2. (StartPoll(c) \/ Return(c) \/ Dropped(c)) => \A d \in Callers \ {c} : poll'[d] = poll[d]
  BY <1>1, SMT DEF StartPoll, Return, Dropped
<1>3. StartPoll(c) => poll'[c].floor = newest
  BY <1>1, SMT DEF StartPoll
<1>4. ASSUME PollStep(c) PROVE \A d \in Callers : poll'[d].floor = poll[d].floor
  <2>1. CASE PollHit(c) \/ PollMiss(c) \/ LockAndLook(c)
    BY <1>1, <2>1, SMT DEF PollHit, PollMiss, LockAndLook, Answered, PollGoto, PollRecords
  <2>2. CASE Notify(c)
    BY <1>1, <2>2, SMT DEF Notify, PollGoto, PollRecords
  <2>3. CASE Fetch(c)
    BY <1>1, <2>3, SMT DEF Fetch, PollRecords
  <2>4. CASE Store(c)
    BY <1>1, <2>4, SMT DEF Store, Answered, PollRecords
  <2> QED BY <1>4, <2>1, <2>2, <2>3, <2>4, Zenon DEF PollStep
<1> QED BY <1>2, <1>3, <1>4

-----------------------------------------------------------------------------
\* The tasks that do not move keep what they have: only who holds the lock writes
\* the cache, and what others show is in the cache.
LEMMA OthersKeep ==
    ASSUME NumbersOK, NumbersOK', SharedInv, NEW s \in Tasks, TaskInv(s),
           world' >= world, newest' >= newest, poll'[s].floor = poll[s].floor,
           task'[s].pc = task[s].pc, task'[s].force = task[s].force,
           task'[s].scope = task[s].scope, task'[s].got = task[s].got,
           task'[s].floor = task[s].floor, task[s].renewed => task'[s].renewed,
           \A p \in Providers : shown'[p] >= shown[p],
           live' # None => live # None \/ task'[s].renewed,
           liveLock = s =>
               /\ liveLock' = s
               /\ live' # None => live # None /\ live'.snaps = live.snaps
               /\ \A p \in Providers :
                     shown'[p] = shown[p] \/ (live # None /\ shown'[p] = live.snaps[p])
    PROVE  TaskInv(s)'
<1> USE DEF TaskInv, NumbersOK
<1>1. (Fetches(s) => liveLock = s)'
  BY DEF Fetches
<1>2. (task[s].pc \notin {"new", "build", "usage", "done"} => task[s].scope # "usage")'
  OBVIOUS
<1>3. (\A p \in Providers : task[s].floor[p] <= shown[p])'
  <2> SUFFICES ASSUME NEW p \in Providers PROVE task[s].floor[p] <= shown'[p]
    OBVIOUS
  <2>1. task[s].floor[p] \in Nat /\ shown[p] \in Nat /\ shown'[p] \in Nat
    OBVIOUS
  <2> QED BY <2>1
<1>4. GotExpected(s)'
  BY DEF GotExpected, Built
<1>5. GotNew(s)'
  <2> SUFFICES ASSUME task[s].pc \in {"codex", "store"}, NEW p \in DOMAIN task[s].got
               PROVE  /\ task[s].got[p] <= world'
                      /\ p = "claude" => task[s].got[p] <= newest'
                      /\ \/ task[s].got[p] = Unavailable
                         \/ /\ task[s].got[p] >= shown'[p]
                            /\ live' # None => task[s].got[p] >= live'.snaps[p]
    BY DEF GotNew
  <2>1. /\ p \in Providers /\ task[s].got[p] \in Nat /\ shown[p] \in Nat /\ shown'[p] \in Nat
        /\ world \in Nat /\ newest \in Nat /\ world' \in Nat /\ newest' \in Nat
    OBVIOUS
  <2>2. liveLock = s
    BY DEF Fetches
  <2>3. /\ task[s].got[p] <= world
        /\ p = "claude" => task[s].got[p] <= newest
        /\ \/ task[s].got[p] = Unavailable
           \/ /\ task[s].got[p] >= shown[p]
              /\ live # None => task[s].got[p] >= live.snaps[p]
    BY DEF GotNew
  <2> QED BY <2>1, <2>2, <2>3
<1>6. UsageNew(s)'
  <2> SUFFICES ASSUME task[s].pc = "usage"
               PROVE  /\ poll[s].floor >= task[s].floor["claude"]
                      /\ task[s].scope # "usage" =>
                            /\ poll[s].floor >= shown'["claude"]
                            /\ live' # None => poll[s].floor >= live'.snaps["claude"]
    BY DEF UsageNew
  <2>1. task[s].scope # "usage" => liveLock = s
    BY DEF Fetches
  <2> QED BY <2>1 DEF UsageNew, Providers
<1>7. DoneNew(s)'
  BY DEF DoneNew
<1>8. ForcedPassesOver(s)'
  BY DEF ForcedPassesOver, Forced
<1> QED BY <1>1, <1>2, <1>3, <1>4, <1>5, <1>6, <1>7, <1>8

-----------------------------------------------------------------------------
(* What a step does to the task that moves *)

LEMMA TaskMoves ==
    ASSUME TaskShapes, NEW t \in Tasks, NEW r, IsTask(r), task' = [task EXCEPT ![t] = r]
    PROVE  TaskShapes' /\ task'[t] = r /\ \A s \in Tasks \ {t} : task'[s] = task[s]
<1>1. \A s \in Tasks : task'[s] = IF s = t THEN r ELSE task[s]
  BY Zenon DEF TaskShapes
<1>2. task' = [s \in Tasks |-> task'[s]]
  <2>1. DOMAIN task' = Tasks
    BY Zenon DEF TaskShapes
  <2>2. task' = [s \in DOMAIN task' |-> task'[s]]
    BY Zenon
  <2> QED BY <2>1, <2>2, Zenon
<1> QED BY <1>1, <1>2, Zenon DEF TaskShapes

\* The same step but for its stage and what it has to show.
SameBut(t) ==
    /\ task'[t].force = task[t].force /\ task'[t].scope = task[t].scope
    /\ task'[t].floor = task[t].floor /\ task'[t].renewed = task[t].renewed
    /\ \A s \in Tasks \ {t} : task'[s] = task[s]

LEMMA TaskGoes ==
    ASSUME TaskShapes, NEW t \in Tasks, NEW stage \in Stages, Goto(t, stage)
    PROVE  /\ TaskShapes' /\ SameBut(t)
           /\ task'[t].pc = stage /\ task'[t].got = task[t].got
           /\ task'[t].waited = task[t].waited
<1> DEFINE r == [task[t] EXCEPT !.pc = stage]
<1>1. IsTask(task[t])
  BY DEF TaskShapes
<1>2. /\ IsTask(r) /\ r.pc = stage /\ r.got = task[t].got /\ r.waited = task[t].waited
      /\ r.force = task[t].force /\ r.scope = task[t].scope
      /\ r.floor = task[t].floor /\ r.renewed = task[t].renewed
  BY <1>1 DEF IsTask
<1>3. task' = [task EXCEPT ![t] = r]
  BY Zenon DEF Goto
<1> HIDE DEF r
<1>4. TaskShapes' /\ task'[t] = r /\ \A s \in Tasks \ {t} : task'[s] = task[s]
  BY <1>2, <1>3, TaskMoves
<1> QED BY <1>2, <1>4 DEF SameBut

LEMMA TaskGets ==
    ASSUME TaskShapes, NEW t \in Tasks, NEW stage \in Stages, NEW snaps \in Snapshots,
           task' = [task EXCEPT ![t].pc = stage, ![t].got = snaps]
    PROVE  /\ TaskShapes' /\ SameBut(t)
           /\ task'[t].pc = stage /\ task'[t].got = snaps
<1> DEFINE l == [task[t] EXCEPT !.pc = stage]
           r == [l EXCEPT !.got = snaps]
<1>1. IsTask(task[t]) /\ task = [s \in Tasks |-> task[s]]
  BY DEF TaskShapes
<1>2. /\ IsTask(l) /\ l.pc = stage
      /\ l.force = task[t].force /\ l.scope = task[t].scope
      /\ l.floor = task[t].floor /\ l.renewed = task[t].renewed
  BY <1>1 DEF IsTask
<1>3. task' = [task EXCEPT ![t] = r]
  BY <1>1
<1> HIDE DEF l
<1>4. /\ IsTask(r) /\ r.pc = l.pc /\ r.got = snaps /\ r.force = l.force
      /\ r.scope = l.scope /\ r.floor = l.floor /\ r.renewed = l.renewed
  BY <1>2 DEF IsTask
<1> HIDE DEF r
<1>5. TaskShapes' /\ task'[t] = r /\ \A s \in Tasks \ {t} : task'[s] = task[s]
  BY <1>3, <1>4, TaskMoves
<1> QED BY <1>2, <1>4, <1>5 DEF SameBut

\* What is shown from the cache: nothing else, and nothing older.
LEMMA CacheShown ==
    ASSUME NumbersOK, NEW snaps, live # None, DOMAIN snaps \subseteq Providers,
           \A p \in DOMAIN snaps : snaps[p] = live.snaps[p], shown' = ShownWith(snaps)
    PROVE  \A p \in Providers :
              /\ shown'[p] >= shown[p]
              /\ shown'[p] = shown[p] \/ shown'[p] = live.snaps[p]
BY DEF NumbersOK, ShownWith, Larger

LEMMA ShownType ==
    ASSUME shown \in [Providers -> Answers], NEW snaps \in Snapshots, shown' = ShownWith(snaps)
    PROVE  shown' \in [Providers -> Answers]
BY SnapshotType DEF ShownWith, Larger

\* A step of the tasks in T that leaves the cache, or empties it.
LEMMA QuietStep ==
    ASSUME LiveInv, PollInv, PollInv', Shapes', [PollNext]_pollVars,
           NEW T \in SUBSET Tasks, \A t \in T : TaskInv(t)',
           \A s \in Tasks \ T : /\ task'[s] = task[s] /\ poll'[s].floor = poll[s].floor
                                /\ liveLock = s => liveLock' = s,
           live' # None => live # None /\ live'.snaps = live.snaps,
           \A p \in Providers :
              /\ shown'[p] >= shown[p]
              /\ shown'[p] = shown[p] \/ (live # None /\ shown'[p] = live.snaps[p])
    PROVE  LiveInv'
<1>1. NumbersOK /\ NumbersOK'
  BY Numbers, NumbersAfter DEF LiveInv, PollInv
<1>2. world' >= world /\ newest' >= newest /\ AnswersKnown'
  BY PollGrows DEF LiveInv, SharedInv
<1>3. SharedInv'
  <2> USE DEF LiveInv, SharedInv, NumbersOK
  <2>1. ShownKnown'
    BY <1>1, <1>2 DEF ShownKnown, CacheNew, Providers
  <2>2. CacheNew'
    BY <1>1, <1>2 DEF CacheNew, Providers
  <2> QED BY <1>2, <2>1, <2>2
<1>4. ASSUME NEW s \in Tasks \ T PROVE TaskInv(s)'
  BY <1>1, <1>2, <1>4, OthersKeep DEF LiveInv
<1> QED BY <1>3, <1>4 DEF LiveInv

\* The task that moves, and the lock: it takes it when it is free, or gives it back.
Moves(t) ==
    /\ LiveInv /\ PollInv /\ PollInv' /\ [PollNext]_pollVars
    /\ liveLock' \in {liveLock, None, t}
    /\ liveLock' = t => liveLock \in {None, t}
    /\ liveLock' = None => liveLock \in {None, t}
    /\ \A s \in Tasks \ {t} : poll'[s].floor = poll[s].floor
    /\ drops' \in 0..MaxDrops

LEMMA MovesKeep ==
    ASSUME NEW t \in Tasks, Moves(t), TaskShapes', SameBut(t), TaskInv(t)',
           live' # None => live' = live, live' = None \/ live # None, shown' \in [Providers -> Answers],
           \A p \in Providers :
              /\ shown'[p] >= shown[p]
              /\ shown'[p] = shown[p] \/ (live # None /\ shown'[p] = live.snaps[p])
    PROVE  LiveInv'
<1>1. Shapes'
  BY DEF Moves, LiveInv, Shapes
<1>2. ASSUME NEW s \in Tasks \ {t}
      PROVE  /\ task'[s] = task[s] /\ poll'[s].floor = poll[s].floor
             /\ liveLock = s => liveLock' = s
  BY PollNone, LiveTasks DEF Moves, SameBut
<1>3. PICK T \in SUBSET Tasks : T = {t}
  OBVIOUS
<1>4. \A u \in T : TaskInv(u)'
  BY <1>3
<1> QED BY <1>1, <1>2, <1>3, <1>4, QuietStep DEF Moves

\* ... while nobody is shown anything.
LEMMA UnseenKeeps ==
    ASSUME NEW t \in Tasks, Moves(t), TaskShapes', SameBut(t), TaskInv(t)',
           UNCHANGED <<live, shown>>
    PROVE  LiveInv'
<1>1. NumbersOK /\ shown \in [Providers -> Answers]
  BY Numbers DEF Moves, LiveInv, PollInv, Shapes
<1>2. \A p \in Providers : shown'[p] >= shown[p] /\ shown'[p] = shown[p]
  BY <1>1 DEF NumbersOK
<1> QED BY <1>1, <1>2, MovesKeep

\* ... while it shows what is in the cache.
LEMMA CachedKeeps ==
    ASSUME NEW t \in Tasks, Moves(t), TaskShapes', SameBut(t), live # None,
           TaskInv(t), task[t].pc \notin {"new", "done"}, task'[t].pc = "done",
           task'[t].got = Filtered(t), Filtered(t) \in Snapshots,
           shown' = ShownWith(Filtered(t)), live' = live
    PROVE  LiveInv'
<1>1. NumbersOK /\ shown \in [Providers -> Answers]
  BY Numbers DEF Moves, LiveInv, PollInv, Shapes
<1>2. /\ DOMAIN Filtered(t) \subseteq Providers
      /\ \A p \in DOMAIN Filtered(t) : Filtered(t)[p] = live.snaps[p]
  BY SnapshotType DEF Filtered
<1>3. \A p \in Providers : /\ shown'[p] >= shown[p]
                           /\ shown'[p] = shown[p] \/ shown'[p] = live.snaps[p]
  BY <1>1, <1>2, CacheShown
<1>4. shown' \in [Providers -> Answers]
  BY <1>1, ShownType
<1>5. TaskInv(t)'
  <2>1. (Fetches(t) => liveLock = t)'
    BY DEF Fetches
  <2>2. (\A p \in Providers : task[t].floor[p] <= shown[p])'
    <3> SUFFICES ASSUME NEW p \in Providers PROVE task[t].floor[p] <= shown'[p]
      BY DEF SameBut
    <3>1. task[t].floor[p] \in Nat /\ shown[p] \in Nat /\ shown'[p] \in Nat
      BY <1>1, <1>4, AnswersNat DEF NumbersOK
    <3>2. task[t].floor[p] <= shown[p]
      BY DEF TaskInv
    <3> QED BY <1>3, <3>1, <3>2
  <2>3. GotExpected(t)' /\ GotNew(t)' /\ UsageNew(t)'
    BY DEF GotExpected, GotNew, UsageNew
  <2>4. DoneNew(t)'
    <3> SUFFICES ASSUME NEW p \in DOMAIN Filtered(t)
                 PROVE  live.snaps[p] = Unavailable \/ live.snaps[p] >= task[t].floor[p]
      BY <1>2 DEF DoneNew, SameBut
    <3>1. p \in Providers /\ task[t].floor[p] \in Nat /\ shown[p] \in Nat /\ live.snaps[p] \in Nat
      BY <1>1, <1>2 DEF NumbersOK
    <3>2. task[t].floor[p] <= shown[p]
      BY <3>1 DEF TaskInv
    <3>3. live.snaps[p] = Unavailable \/ live.snaps[p] >= shown[p]
      BY <3>1 DEF Moves, LiveInv, SharedInv, CacheNew
    <3> QED BY <3>1, <3>2, <3>3
  <2>5. ForcedPassesOver(t)'
    BY DEF TaskInv, ForcedPassesOver, Forced, SameBut
  <2> QED BY <2>1, <2>2, <2>3, <2>4, <2>5 DEF TaskInv
<1> QED BY <1>3, <1>4, <1>5, MovesKeep

LEMMA FilteredType ==
    ASSUME NEW t \in Tasks, Shapes, live # None
    PROVE  Filtered(t) \in Snapshots
<1>1. live.snaps \in [Providers -> Answers]
  BY DEF Shapes
<1>2. Built(t) \cap DOMAIN live.snaps \in SUBSET Providers
  BY <1>1
<1>3. Filtered(t) \in [Built(t) \cap DOMAIN live.snaps -> Answers]
  BY <1>1 DEF Filtered
<1> QED BY <1>2, <1>3 DEF Snapshots

-----------------------------------------------------------------------------
(* The steps of a task *)

\* What every step of a task starts from.
Stable == LiveInv /\ PollInv /\ PollInv' /\ [PollNext]_pollVars

LEMMA StableFacts ==
    ASSUME Stable
    PROVE  /\ TaskShapes /\ Shapes /\ NumbersOK
           /\ liveLock \in Tasks \cup {None} /\ None \notin Tasks
           /\ drops \in 0..MaxDrops /\ shown \in [Providers -> Answers]
           /\ \A t \in Tasks : TaskInv(t) /\ t \in Callers
BY Numbers, PollNone, LiveTasks DEF Stable, LiveInv, PollInv, Shapes

LEMMA LookFreshKeeps ==
    ASSUME Stable, NEW t \in Tasks, LookFresh(t)
    PROVE  LiveInv'
<1> USE StableFacts
<1>1. Moves(t) /\ task[t].pc = "look" /\ UNCHANGED live
  BY DEF Stable, Moves, LookFresh, At, pollVars
<1>2. CASE LiveFresh /\ Show(t, Filtered(t))
  <2>1. Filtered(t) \in Snapshots /\ live # None
    BY <1>2, FilteredType DEF LiveFresh
  <2>2. TaskShapes' /\ SameBut(t) /\ task'[t].pc = "done" /\ task'[t].got = Filtered(t)
    BY <1>2, <2>1, TaskGets DEF Show, Stages
  <2> QED BY <1>1, <1>2, <2>1, <2>2, CachedKeeps DEF Show
<1>3. CASE ~LiveFresh /\ Goto(t, "any") /\ UNCHANGED shown
  <2>1. TaskShapes' /\ SameBut(t) /\ task'[t].pc = "any" /\ task'[t].got = task[t].got
    BY <1>3, TaskGoes DEF Stages
  <2>2. TaskInv(t)'
    BY <1>1, <1>3, <2>1 DEF TaskInv, Fetches, GotExpected, GotNew, UsageNew, DoneNew,
       ForcedPassesOver, Forced, SameBut
  <2> QED BY <1>1, <1>3, <2>1, <2>2, UnseenKeeps
<1> QED BY <1>2, <1>3 DEF LookFresh

LEMMA NothingCachedKeeps ==
    ASSUME Stable, NEW t \in Tasks, NothingCached(t)
    PROVE  LiveInv'
<1> USE StableFacts
<1>1. Moves(t) /\ task[t].pc = "any" /\ UNCHANGED <<live, shown>>
  BY DEF Stable, Moves, NothingCached, At, pollVars
<1>2. TaskShapes' /\ SameBut(t) /\ task'[t].pc = "lock" /\ task'[t].got = task[t].got
  BY TaskGoes DEF NothingCached, Stages
<1>3. TaskInv(t)'
  BY <1>1, <1>2 DEF TaskInv, Fetches, GotExpected, GotNew, UsageNew, DoneNew,
     ForcedPassesOver, Forced, SameBut
<1> QED BY <1>1, <1>2, <1>3, UnseenKeeps

LEMMA TakeLockKeeps ==
    ASSUME Stable, NEW t \in Tasks, TakeLock(t)
    PROVE  LiveInv'
<1> USE StableFacts
<1>1. Moves(t) /\ task[t].pc = "wait" /\ UNCHANGED <<live, shown>> /\ liveLock' = t
  BY DEF Stable, Moves, TakeLock, At, pollVars
<1>2. TaskShapes' /\ SameBut(t) /\ task'[t].pc = "again" /\ task'[t].got = task[t].got
  BY TaskGoes DEF TakeLock, Stages
<1>3. TaskInv(t)'
  BY <1>1, <1>2 DEF TaskInv, Fetches, GotExpected, GotNew, UsageNew, DoneNew,
     ForcedPassesOver, Forced, SameBut
<1> QED BY <1>1, <1>2, <1>3, UnseenKeeps

LEMMA LookAgainKeeps ==
    ASSUME Stable, NEW t \in Tasks, LookAgainLive(t)
    PROVE  LiveInv'
<1> USE StableFacts
<1>1. /\ task[t].pc = "again" /\ UNCHANGED <<live, drops, pollVars>> /\ liveLock = t
      /\ task[t].scope # "usage"
  BY DEF LookAgainLive, At, TaskInv, Fetches
<1>2. CASE CacheServes(t) /\ liveLock' = None /\ Show(t, Filtered(t))
  <2>1. Filtered(t) \in Snapshots /\ live # None
    BY <1>2, FilteredType DEF LiveFresh, CacheServes
  <2>2. TaskShapes' /\ SameBut(t) /\ task'[t].pc = "done" /\ task'[t].got = Filtered(t)
    BY <1>2, <2>1, TaskGets DEF Show, Stages
  <2>3. Moves(t)
    BY <1>1, <1>2 DEF Stable, Moves, pollVars
  <2> QED BY <1>1, <1>2, <2>1, <2>2, <2>3, CachedKeeps DEF Show
<1>3. CASE Goto(t, "build") /\ UNCHANGED <<liveLock, shown>>
  <2>1. TaskShapes' /\ SameBut(t) /\ task'[t].pc = "build" /\ task'[t].got = task[t].got
    BY <1>3, TaskGoes DEF Stages
  <2>2. Moves(t)
    BY <1>1, <1>3 DEF Stable, Moves, pollVars
  <2>3. TaskInv(t)'
    BY <1>1, <1>3, <2>1 DEF TaskInv, Fetches, GotExpected, GotNew, UsageNew, DoneNew,
       ForcedPassesOver, Forced, SameBut
  <2> QED BY <1>1, <1>3, <2>1, <2>2, <2>3, UnseenKeeps
<1> QED BY <1>2, <1>3 DEF LookAgainLive

LEMMA TryLockKeeps ==
    ASSUME Stable, NEW t \in Tasks, TryLock(t)
    PROVE  LiveInv'
<1> USE StableFacts
<1>1. PICK locked \in TryOutcomes(t) :
         /\ liveLock' = IF locked THEN t ELSE liveLock
         /\ task' = [task EXCEPT ![t].pc = IF locked THEN "again" ELSE "wait",
                                 ![t].waited = ~locked]
  BY DEF TryLock
<1>2. locked => liveLock = None
  BY DEF TryOutcomes
<1>3. /\ task[t].pc = "lock" /\ UNCHANGED <<live, shown, pollVars>>
      /\ Moves(t)
  BY <1>1, <1>2 DEF TryLock, At, Stable, Moves, pollVars
<1> DEFINE stage == IF locked THEN "again" ELSE "wait"
           l == [task[t] EXCEPT !.pc = stage]
           r == [l EXCEPT !.waited = ~locked]
<1>4. /\ IsTask(l) /\ l.pc = stage /\ l.got = task[t].got
      /\ l.force = task[t].force /\ l.scope = task[t].scope
      /\ l.floor = task[t].floor /\ l.renewed = task[t].renewed
  BY DEF TaskShapes, IsTask, Stages
<1>5. task' = [task EXCEPT ![t] = r]
  BY <1>1 DEF TaskShapes
<1> HIDE DEF l
<1>6. /\ IsTask(r) /\ r.pc = l.pc /\ r.got = l.got /\ r.force = l.force
      /\ r.scope = l.scope /\ r.floor = l.floor /\ r.renewed = l.renewed
  BY <1>4 DEF IsTask
<1> HIDE DEF r
<1>7. TaskShapes' /\ task'[t] = r /\ \A s \in Tasks \ {t} : task'[s] = task[s]
  BY <1>5, <1>6, TaskMoves
<1>8. SameBut(t) /\ task'[t].pc = stage /\ task'[t].got = task[t].got
  BY <1>4, <1>6, <1>7 DEF SameBut
<1>9. stage \in {"again", "wait"} /\ (stage = "again" => liveLock' = t)
  BY <1>1
<1> HIDE DEF stage
<1>10. TaskInv(t)'
  BY <1>3, <1>8, <1>9 DEF TaskInv, Fetches, GotExpected, GotNew, UsageNew, DoneNew,
     ForcedPassesOver, Forced, SameBut
<1> QED BY <1>3, <1>7, <1>8, <1>10, UnseenKeeps

\* The floor of a poll that is asked for is what was known when it was.
LEMMA AskUsageKeeps ==
    ASSUME Stable, NEW t \in Tasks, AskUsage(t)
    PROVE  LiveInv'
<1> USE StableFacts
<1>1. /\ task[t].pc = "build" /\ UNCHANGED <<live, liveLock, shown, drops>>
      /\ poll'[t].floor = newest /\ \A s \in Tasks \ {t} : poll'[s] = poll[s]
  BY PollFloors DEF AskUsage, At, Stable
<1>2. Moves(t)
  BY <1>1 DEF Stable, Moves
<1>3. TaskShapes' /\ SameBut(t) /\ task'[t].pc = "usage" /\ task'[t].got = task[t].got
  BY TaskGoes DEF AskUsage, Stages
<1>4. UsageNew(t)'
  <2>1. shown["claude"] <= newest /\ (live # None => live.snaps["claude"] <= newest)
    BY DEF Stable, LiveInv, SharedInv, ShownKnown, CacheNew
  <2>2. task[t].floor["claude"] <= shown["claude"]
    BY DEF TaskInv, Providers
  <2>3. /\ newest \in Nat /\ shown["claude"] \in Nat /\ task[t].floor["claude"] \in Nat
        /\ live # None => live.snaps["claude"] \in Nat
    BY DEF NumbersOK, Providers
  <2> QED BY <1>1, <1>3, <2>1, <2>2, <2>3 DEF UsageNew, SameBut
<1>5. TaskInv(t)'
  BY <1>1, <1>3, <1>4 DEF TaskInv, Fetches, GotExpected, GotNew, DoneNew,
     ForcedPassesOver, Forced, SameBut
<1> QED BY <1>1, <1>2, <1>3, <1>5, UnseenKeeps

\* An answer of the polls: not older than its call, not newer than what is known.
LEMMA AnswerOf ==
    ASSUME Stable, NEW t \in Tasks, Return(t)
    PROVE  /\ poll[t].got \in Answers /\ poll[t].got >= poll[t].floor
           /\ poll[t].got <= newest /\ poll[t].got <= world
           /\ \A s \in Tasks \ {t} : poll'[s] = poll[s]
<1> USE StableFacts
<1>1. poll[t].got \in Answers
  BY TypesSplit DEF Stable, PollInv, StateTypes, PollRecords, Answers
<1>2. poll[t].got >= poll[t].floor
  BY DEF Stable, PollInv, DataInv, AnswersAdvance, Return
<1>3. poll[t].got <= newest
  BY DEF Stable, LiveInv, SharedInv, AnswersKnown, Return
<1>4. newest <= world
  BY DEF Stable, PollInv, DataInv, CacheNewest
<1>5. poll[t].got \in Nat /\ newest \in Nat /\ world \in Nat
  BY DEF NumbersOK
<1>6. \A s \in Tasks \ {t} : poll'[s] = poll[s]
  BY PollFloors DEF Stable
<1>7. poll[t].got <= world
  BY <1>3, <1>4, <1>5
<1> QED BY <1>1, <1>2, <1>3, <1>6, <1>7

LEMMA ShowUsageKeeps ==
    ASSUME Stable, NEW t \in Tasks, ShowUsage(t)
    PROVE  LiveInv'
<1> USE StableFacts
<1> DEFINE snaps == [p \in {"claude"} |-> poll[t].got]
<1>1. /\ task[t].pc = "usage" /\ task[t].scope = "usage" /\ Return(t)
      /\ UNCHANGED <<live, liveLock, shown, drops>>
  BY DEF ShowUsage, At
<1>2. snaps \in Snapshots
  <2>1. {"claude"} \in SUBSET Providers /\ snaps \in [{"claude"} -> Answers]
    BY <1>1, AnswerOf DEF Providers
  <2> QED BY <2>1, Zenon DEF Snapshots
<1>3. TaskShapes' /\ SameBut(t) /\ task'[t].pc = "done" /\ task'[t].got = snaps
  BY <1>2, TaskGets DEF ShowUsage, Stages
<1>4. Moves(t)
  BY <1>1, AnswerOf DEF Stable, Moves
<1>5. DoneNew(t)'
  <2>1. poll[t].floor >= task[t].floor["claude"]
    BY <1>1 DEF TaskInv, UsageNew
  <2>2. poll[t].got >= poll[t].floor
    BY <1>1, AnswerOf
  <2>3. /\ poll[t].got \in Nat /\ poll[t].floor \in Nat /\ task[t].floor["claude"] \in Nat
    BY DEF NumbersOK, Providers
  <2> QED BY <1>3, <2>1, <2>2, <2>3 DEF DoneNew, SameBut
<1>6. TaskInv(t)'
  BY <1>1, <1>3, <1>5 DEF TaskInv, Fetches, GotExpected, GotNew, UsageNew,
     ForcedPassesOver, Forced, SameBut
<1> QED BY <1>1, <1>3, <1>4, <1>6, UnseenKeeps

LEMMA SkipUsageKeeps ==
    ASSUME Stable, NEW t \in Tasks, SkipUsage(t)
    PROVE  LiveInv'
<1> USE StableFacts
<1>1. /\ task[t].pc = "build" /\ Built(t) = {"codex"}
      /\ UNCHANGED <<live, liveLock, shown, drops>> /\ Moves(t)
  BY DEF SkipUsage, At, Stable, Moves, pollVars
<1>2. task[t].scope = "codex"
  BY <1>1 DEF Built, Providers
<1>3. TaskShapes' /\ SameBut(t) /\ task'[t].pc = "codex" /\ task'[t].got = task[t].got
  BY TaskGoes DEF SkipUsage, Stages
<1>4. DOMAIN task[t].got = {}
  BY <1>1 DEF TaskInv, GotExpected
<1>5. TaskInv(t)'
  BY <1>1, <1>2, <1>3, <1>4 DEF TaskInv, Fetches, GotExpected, GotNew, UsageNew, DoneNew, Built,
     ForcedPassesOver, Forced, SameBut
<1> QED BY <1>1, <1>3, <1>5, UnseenKeeps

LEMMA BuildClaudeKeeps ==
    ASSUME Stable, NEW t \in Tasks, BuildClaude(t)
    PROVE  LiveInv'
<1> USE StableFacts
<1> DEFINE snaps == [p \in {"claude"} |-> poll[t].got]
           stage == IF "codex" \in Built(t) THEN "codex" ELSE "store"
<1>1. /\ task[t].pc = "usage" /\ task[t].scope \in {"claude", "all"} /\ Return(t)
      /\ UNCHANGED <<live, liveLock, shown, drops>>
  BY DEF BuildClaude, At, Built, TaskShapes, IsTask, Scopes, Providers
<1>2. snaps \in Snapshots
  <2>1. {"claude"} \in SUBSET Providers /\ snaps \in [{"claude"} -> Answers]
    BY <1>1, AnswerOf DEF Providers
  <2> QED BY <2>1, Zenon DEF Snapshots
<1>3. TaskShapes' /\ SameBut(t) /\ task'[t].pc = stage /\ task'[t].got = snaps
  BY <1>2, TaskGets DEF BuildClaude, Stages
<1>4. Moves(t)
  BY <1>1, AnswerOf DEF Stable, Moves
<1>5. GotExpected(t)'
  BY <1>1, <1>3 DEF GotExpected, Built, SameBut, Providers
<1>6. GotNew(t)'
  <2>1. /\ poll[t].floor >= shown["claude"]
        /\ live # None => poll[t].floor >= live.snaps["claude"]
    BY <1>1 DEF TaskInv, UsageNew
  <2>2. poll[t].got >= poll[t].floor /\ poll[t].got <= newest /\ poll[t].got <= world
    BY <1>1, AnswerOf
  <2>3. /\ poll[t].got \in Nat /\ poll[t].floor \in Nat /\ shown["claude"] \in Nat
        /\ live # None => live.snaps["claude"] \in Nat
    BY DEF NumbersOK, Providers
  <2>4. newest' = newest /\ world' = world
    BY <1>1 DEF Return, environment
  <2> QED BY <1>1, <1>3, <2>1, <2>2, <2>3, <2>4 DEF GotNew
<1>7. TaskInv(t)'
  BY <1>1, <1>3, <1>5, <1>6 DEF TaskInv, Fetches, UsageNew, DoneNew,
     ForcedPassesOver, Forced, SameBut
<1> QED BY <1>1, <1>3, <1>4, <1>7, UnseenKeeps

LEMMA BuildCodexKeeps ==
    ASSUME Stable, NEW t \in Tasks, BuildCodex(t)
    PROVE  LiveInv'
<1> USE StableFacts
<1>1. PICK v \in {world, Unavailable} :
         task' = [task EXCEPT ![t].pc = "store",
                              ![t].got = [p \in Built(t) |->
                                             IF p = "codex" THEN v ELSE task[t].got[p]]]
  BY DEF BuildCodex
<1> DEFINE snaps == [p \in Built(t) |-> IF p = "codex" THEN v ELSE task[t].got[p]]
<1>2. /\ task[t].pc = "codex" /\ UNCHANGED <<live, liveLock, shown, drops, pollVars>>
      /\ Moves(t)
  BY DEF BuildCodex, At, Stable, Moves, pollVars
<1>3. /\ "codex" \in Built(t) /\ DOMAIN task[t].got = Built(t) \ {"codex"}
      /\ task[t].scope # "usage"
  BY <1>2 DEF TaskInv, GotExpected
<1>4. Built(t) \subseteq Providers
  BY <1>3 DEF Built, Providers
<1>5. snaps \in Snapshots
  <2>1. task[t].got \in Snapshots
    BY DEF TaskShapes, IsTask
  <2>2. \A p \in DOMAIN task[t].got : task[t].got[p] \in Answers
    BY <2>1, SnapshotType
  <2>3. v \in Answers
    BY TypesSplit DEF Stable, PollInv, StateTypes, Answers
  <2>4. snaps \in [Built(t) -> Answers]
    BY <1>3, <2>2, <2>3
  <2> HIDE DEF snaps
  <2> QED BY <1>4, <2>4, Zenon DEF Snapshots
<1>6. TaskShapes' /\ SameBut(t) /\ task'[t].pc = "store" /\ task'[t].got = snaps
  BY <1>1, <1>5, TaskGets DEF Stages
<1>7. GotExpected(t)'
  BY <1>6 DEF GotExpected, Built, SameBut
<1>8. GotNew(t)'
  <2>1. /\ world' = world /\ newest' = newest
    BY <1>2 DEF pollVars, environment
  <2>2. shown["codex"] <= world /\ (live # None => live.snaps["codex"] <= world)
    BY DEF Stable, LiveInv, SharedInv, ShownKnown, CacheNew, Providers
  <2>3. /\ world \in Nat /\ shown["codex"] \in Nat
        /\ live # None => live.snaps["codex"] \in Nat
    BY DEF NumbersOK, Providers
  <2>4. GotNew(t)
    BY DEF TaskInv
  <2>5. ASSUME NEW p \in Built(t)
        PROVE  /\ snaps[p] <= world
               /\ p = "claude" => snaps[p] <= newest
               /\ \/ snaps[p] = Unavailable
                  \/ /\ snaps[p] >= shown[p]
                     /\ live # None => snaps[p] >= live.snaps[p]
    <3>1. CASE p = "codex"
      BY <2>2, <2>3, <3>1 DEF Unavailable
    <3>2. CASE p # "codex"
      BY <1>2, <1>3, <2>4, <3>2 DEF GotNew
    <3> QED BY <3>1, <3>2
  <2> HIDE DEF snaps
  <2>6. DOMAIN snaps = Built(t)
    BY DEF snaps
  <2> QED BY <1>2, <1>6, <2>1, <2>5, <2>6 DEF GotNew
<1>9. TaskInv(t)'
  BY <1>2, <1>3, <1>6, <1>7, <1>8 DEF TaskInv, Fetches, UsageNew, DoneNew,
     ForcedPassesOver, Forced, SameBut
<1> QED BY <1>2, <1>6, <1>9, UnseenKeeps

LEMMA NothingType == Nothing \in Snapshots /\ DOMAIN Nothing = {}
<1>1. {} \in SUBSET Providers /\ Nothing \in [{} -> Answers]
  BY DEF Nothing
<1> QED BY <1>1, Zenon DEF Snapshots

LEMMA FreshTask == IsTask(Fresh0) /\ Fresh0.got = Nothing /\ Fresh0.force = FALSE
<1>1. Unavailable \in Answers
  BY DEF Answers
<1>2. [p \in Providers |-> Unavailable] \in [Providers -> Answers]
  BY <1>1
<1> QED BY <1>2, NothingType DEF Fresh0, IsTask, Stages, Scopes

\* A task that fails or hangs up shows nothing and gives its lock back.
LEMMA EndsKeep ==
    ASSUME Stable, NEW t \in Tasks,
           task' = [task EXCEPT ![t].pc = "done", ![t].got = Nothing], Released(t),
           \A s \in Tasks \ {t} : poll'[s].floor = poll[s].floor,
           drops' \in 0..MaxDrops, UNCHANGED <<live, shown>>
    PROVE  LiveInv'
<1> USE StableFacts
<1>1. TaskShapes' /\ SameBut(t) /\ task'[t].pc = "done" /\ task'[t].got = Nothing
  BY NothingType, TaskGets DEF Stages
<1>2. Moves(t)
  BY DEF Stable, Moves, Released
<1>3. TaskInv(t)'
  BY <1>1, NothingType DEF TaskInv, Fetches, GotExpected, GotNew, UsageNew, DoneNew,
     ForcedPassesOver, Forced, SameBut
<1> QED BY <1>1, <1>2, <1>3, UnseenKeeps

LEMMA FailBuildKeeps ==
    ASSUME Stable, NEW t \in Tasks, FailBuild(t)
    PROVE  LiveInv'
BY StableFacts, EndsKeep DEF FailBuild, pollVars

LEMMA HangUpKeeps ==
    ASSUME Stable, NEW q \in Requests, HangUp(q)
    PROVE  LiveInv'
<1> USE StableFacts
<1>1. q \in Tasks
  BY DEF Tasks
<1>2. \A s \in Tasks \ {q} : poll'[s] = poll[s]
  BY <1>1, PollFloors DEF HangUp, Stable
<1>3. drops' \in 0..MaxDrops
  BY LiveBounds DEF HangUp
<1> QED BY <1>1, <1>2, <1>3, EndsKeep DEF HangUp

-----------------------------------------------------------------------------
\* A request begins with what was shown so far, and may empty the cache.
LEMMA AskKeeps ==
    ASSUME Stable, NEW q \in Requests, NEW kind \in Kinds[q], Ask(q, kind)
    PROVE  LiveInv'
<1> USE StableFacts
<1>1. q \in Tasks /\ kind.scope \in Scopes
  BY LiveKinds DEF Tasks
<1>2. /\ task[q].pc = "new" /\ UNCHANGED <<liveLock, shown, drops, pollVars>>
      /\ live' = IF kind.force /\ kind.scope = "all" THEN None ELSE live
      /\ Moves(q)
  BY DEF Ask, At, Stable, Moves, pollVars
<1> DEFINE l1 == [task[q] EXCEPT !.pc = FirstStage(kind)]
           l2 == [l1 EXCEPT !.force = kind.force]
           l3 == [l2 EXCEPT !.scope = kind.scope]
           l4 == [l3 EXCEPT !.floor = shown]
           r  == [l4 EXCEPT !.renewed = FALSE]
<1>3. task' = [task EXCEPT ![q] = r]
  BY <1>1 DEF Ask, TaskShapes
<1>4. FirstStage(kind) \in Stages
  BY DEF FirstStage, Stages
<1>5. IsTask(l1) /\ l1.pc = FirstStage(kind) /\ l1.got = task[q].got
  BY <1>1, <1>4 DEF TaskShapes, IsTask
<1> HIDE DEF l1
<1>6. IsTask(l2) /\ l2.pc = l1.pc /\ l2.got = l1.got /\ l2.force = kind.force
  BY <1>5 DEF IsTask
<1> HIDE DEF l2
<1>7. /\ IsTask(l3) /\ l3.pc = l2.pc /\ l3.got = l2.got /\ l3.force = l2.force
      /\ l3.scope = kind.scope
  BY <1>1, <1>6 DEF IsTask
<1> HIDE DEF l3
<1>8. /\ IsTask(l4) /\ l4.pc = l3.pc /\ l4.got = l3.got /\ l4.force = l3.force
      /\ l4.scope = l3.scope /\ l4.floor = shown
  BY <1>7 DEF IsTask
<1> HIDE DEF l4
<1>9. /\ IsTask(r) /\ r.pc = l4.pc /\ r.got = l4.got /\ r.force = l4.force
      /\ r.scope = l4.scope /\ r.floor = l4.floor
  <2>1. PICK no : no = FALSE
    OBVIOUS
  <2>2. r = [l4 EXCEPT !.renewed = no]
    BY <2>1
  <2> HIDE DEF r
  <2> QED BY <1>8, <2>2 DEF IsTask
<1> HIDE DEF r
<1>10. /\ TaskShapes' /\ \A s \in Tasks \ {q} : task'[s] = task[s]
       /\ task'[q].pc = FirstStage(kind) /\ task'[q].got = task[q].got
       /\ task'[q].force = kind.force /\ task'[q].scope = kind.scope /\ task'[q].floor = shown
  BY <1>1, <1>3, <1>5, <1>6, <1>7, <1>8, <1>9, TaskMoves
<1>11. /\ task'[q].pc \in {"build", "lock", "look"}
       /\ task'[q].pc = "build" <=> kind.scope = "usage"
  BY <1>10 DEF FirstStage
<1>12. TaskInv(q)'
  <2>1. (\A p \in Providers : task[q].floor[p] <= shown[p])'
    BY <1>2, <1>10 DEF NumbersOK
  <2>2. DOMAIN task[q].got = {}
    BY <1>1, <1>2 DEF TaskInv, GotExpected
  <2>3. (Fetches(q) => liveLock = q)'
    BY <1>10, <1>11 DEF Fetches
  <2>4. (task[q].pc \notin {"new", "build", "usage", "done"} => task[q].scope # "usage")'
    BY <1>10, <1>11
  <2>5. (GotExpected(q) /\ GotNew(q) /\ UsageNew(q) /\ DoneNew(q))'
    BY <1>10, <1>11, <2>2 DEF GotExpected, GotNew, UsageNew, DoneNew
  <2>6. ForcedPassesOver(q)'
    BY <1>2, <1>10, <1>11 DEF ForcedPassesOver, Forced
  <2> QED BY <2>1, <2>3, <2>4, <2>5, <2>6 DEF TaskInv
<1>13. Shapes'
  BY <1>2, <1>10 DEF Shapes, pollVars, environment
<1>14. PICK T \in SUBSET Tasks : T = {q}
  BY <1>1
<1>15. \A s \in Tasks \ T : task'[s] = task[s] /\ poll'[s].floor = poll[s].floor /\ liveLock' = liveLock
  BY <1>2, <1>10, <1>14 DEF pollVars
<1>16. \A p \in Providers : shown'[p] >= shown[p] /\ shown'[p] = shown[p]
  BY <1>2 DEF NumbersOK
<1>17. \A u \in T : TaskInv(u)'
  BY <1>12, <1>14
<1>18. live' # None => live # None /\ live' = live
  BY <1>2
<1> QED BY <1>13, <1>15, <1>16, <1>17, <1>18, QuietStep DEF Stable

\* The task it may spawn begins with what was shown so far, too.
LEMMA ServeStaleKeeps ==
    ASSUME Stable, NEW q \in Tasks, ServeStale(q)
    PROVE  LiveInv'
<1> USE StableFacts
<1> DEFINE snaps == Filtered(q)
           spawned == [Fresh0 EXCEPT !.pc = "wait", !.scope = task[q].scope, !.floor = shown]
           served == [task[q] EXCEPT !.pc = "done", !.got = snaps]
<1>1. PICK spawns \in TryOutcomes(q) :
         task' = [t \in Tasks |->
                     IF t = q THEN served
                     ELSE IF spawns /\ t = TaskOf[q] THEN spawned ELSE task[t]]
  BY DEF ServeStale
<1>2. /\ task[q].pc = "any" /\ live # None /\ shown' = ShownWith(snaps)
      /\ UNCHANGED <<live, liveLock, drops, pollVars>>
  BY DEF ServeStale, At
<1>3. snaps \in Snapshots
  BY <1>2, FilteredType
<1>4. /\ IsTask(served) /\ served.pc = "done" /\ served.got = snaps
      /\ served.force = task[q].force /\ served.scope = task[q].scope
      /\ served.floor = task[q].floor /\ served.renewed = task[q].renewed
  <2> DEFINE l == [task[q] EXCEPT !.pc = "done"]
             r == [l EXCEPT !.got = snaps]
  <2>1. r = served
    OBVIOUS
  <2>2. /\ IsTask(l) /\ l.pc = "done"
        /\ l.force = task[q].force /\ l.scope = task[q].scope
        /\ l.floor = task[q].floor /\ l.renewed = task[q].renewed
    BY DEF TaskShapes, IsTask, Stages
  <2> HIDE DEF l, snaps
  <2>3. /\ IsTask(r) /\ r.pc = l.pc /\ r.got = snaps /\ r.force = l.force
        /\ r.scope = l.scope /\ r.floor = l.floor /\ r.renewed = l.renewed
    BY <1>3, <2>2 DEF IsTask
  <2> HIDE DEF r
  <2> QED BY <2>1, <2>2, <2>3
<1>5. /\ IsTask(spawned) /\ spawned.pc = "wait" /\ spawned.got = Nothing
      /\ spawned.force = FALSE /\ spawned.scope = task[q].scope /\ spawned.floor = shown
  <2> DEFINE l1 == [Fresh0 EXCEPT !.pc = "wait"]
             l2 == [l1 EXCEPT !.scope = task[q].scope]
             l3 == [l2 EXCEPT !.floor = shown]
  <2>1. spawned = l3
    OBVIOUS
  <2>2. task[q].scope \in Scopes
    BY DEF TaskShapes, IsTask
  <2>3. IsTask(Fresh0) /\ Fresh0.got = Nothing /\ Fresh0.force = FALSE
    BY FreshTask
  <2>4. IsTask(l1) /\ l1.pc = "wait" /\ l1.got = Nothing /\ l1.force = Fresh0.force
    BY <2>3 DEF IsTask, Stages
  <2> HIDE DEF l1
  <2>5. /\ IsTask(l2) /\ l2.pc = "wait" /\ l2.got = Nothing /\ l2.force = l1.force
        /\ l2.scope = task[q].scope
    BY <2>2, <2>4 DEF IsTask
  <2> HIDE DEF l2
  <2>6. /\ IsTask(l3) /\ l3.pc = "wait" /\ l3.got = Nothing /\ l3.force = l2.force
        /\ l3.scope = l2.scope /\ l3.floor = shown
    BY <2>5 DEF IsTask
  <2> HIDE DEF l3, spawned
  <2> QED BY <2>1, <2>3, <2>4, <2>5, <2>6
<1> HIDE DEF snaps, served, spawned
<1>6. TaskShapes'
  <2>1. \A t \in Tasks : task'[t] \in {served, spawned, task[t]}
    BY <1>1
  <2>2. task' = [t \in Tasks |-> task'[t]]
    BY <1>1
  <2> QED BY <1>4, <1>5, <2>1, <2>2, Zenon DEF TaskShapes
<1>7. \A p \in Providers : /\ shown'[p] >= shown[p]
                           /\ shown'[p] = shown[p] \/ shown'[p] = live.snaps[p]
  <2>1. DOMAIN snaps \subseteq Providers /\ \A p \in DOMAIN snaps : snaps[p] = live.snaps[p]
    BY <1>3, SnapshotType DEF snaps, Filtered
  <2> QED BY <1>2, <2>1, CacheShown
<1>8. shown' \in [Providers -> Answers]
  BY <1>2, <1>3, ShownType
<1>9. Shapes'
  BY <1>2, <1>6, <1>8 DEF Shapes, pollVars, environment
<1>10. NumbersOK' /\ \A p \in Providers : shown[p] \in Nat /\ shown'[p] \in Nat /\ live.snaps[p] \in Nat
  <2>1. NumbersOK'
    BY <1>9, NumbersAfter DEF Stable, PollInv
  <2> QED BY <1>2, <2>1 DEF NumbersOK
<1>11. TaskInv(q)'
  <2>1. task'[q] = served
    BY <1>1
  <2>2. (\A p \in Providers : task[q].floor[p] <= shown[p])'
    <3> SUFFICES ASSUME NEW p \in Providers PROVE task[q].floor[p] <= shown'[p]
      BY <1>4, <2>1
    <3>1. task[q].floor[p] <= shown[p] /\ task[q].floor[p] \in Nat
      BY DEF TaskInv, NumbersOK
    <3> QED BY <1>7, <1>10, <3>1
  <2>3. DoneNew(q)'
    <3>1. DOMAIN snaps \subseteq Providers /\ \A p \in DOMAIN snaps : snaps[p] = live.snaps[p]
      BY <1>3, SnapshotType DEF snaps, Filtered
    <3> SUFFICES ASSUME NEW p \in DOMAIN snaps
                 PROVE  live.snaps[p] = Unavailable \/ live.snaps[p] >= task[q].floor[p]
      BY <1>4, <2>1, <3>1 DEF DoneNew
    <3>2. task[q].floor[p] <= shown[p] /\ task[q].floor[p] \in Nat /\ p \in Providers
      BY <3>1 DEF TaskInv, NumbersOK
    <3>3. live.snaps[p] = Unavailable \/ live.snaps[p] >= shown[p]
      BY <1>2, <3>2 DEF Stable, LiveInv, SharedInv, CacheNew
    <3> QED BY <1>10, <3>2, <3>3
  <2>4. ForcedPassesOver(q)'
    BY <1>2, <1>4, <2>1 DEF TaskInv, ForcedPassesOver, Forced
  <2>5. (Fetches(q) => liveLock = q)'
    BY <1>4, <2>1 DEF Fetches
  <2>6. (GotExpected(q) /\ GotNew(q) /\ UsageNew(q))'
    BY <1>4, <2>1 DEF GotExpected, GotNew, UsageNew
  <2> QED BY <1>4, <2>1, <2>2, <2>3, <2>4, <2>5, <2>6 DEF TaskInv
<1>12. ASSUME spawns PROVE TaskOf[q] \in Tasks \ {q} => TaskInv(TaskOf[q])'
  <2> DEFINE b == TaskOf[q]
  <2> SUFFICES ASSUME b \in Tasks \ {q} PROVE TaskInv(b)'
    OBVIOUS
  <2>1. task'[b] = spawned
    BY <1>1, <1>12
  <2>2. PICK t \in Tasks : t = b
    OBVIOUS
  <2>3. TaskInv(t)'
    <3>1. task[q].scope # "usage"
      BY <1>2 DEF TaskInv
    <3>2. (\A p \in Providers : task[t].floor[p] <= shown[p])'
      BY <1>5, <1>7, <1>10, <2>1, <2>2
    <3>3. (Fetches(t) => liveLock = t)'
      BY <1>5, <2>1, <2>2 DEF Fetches
    <3>4. (GotExpected(t) /\ GotNew(t) /\ UsageNew(t) /\ DoneNew(t))'
      BY <1>5, <2>1, <2>2, NothingType DEF GotExpected, GotNew, UsageNew, DoneNew
    <3>5. ForcedPassesOver(t)'
      BY <1>5, <2>1, <2>2 DEF ForcedPassesOver, Forced
    <3> QED BY <1>5, <2>1, <2>2, <3>1, <3>2, <3>3, <3>4, <3>5 DEF TaskInv
  <2> QED BY <2>2, <2>3
<1>13. PICK T \in SUBSET Tasks : T = {q} \cup {t \in Tasks : spawns /\ t = TaskOf[q]}
  OBVIOUS
<1>14. \A u \in T : TaskInv(u)'
  BY <1>11, <1>12, <1>13
<1>15. \A s \in Tasks \ T : /\ task'[s] = task[s] /\ poll'[s].floor = poll[s].floor
                            /\ liveLock' = liveLock
  BY <1>1, <1>2, <1>13 DEF pollVars
<1> QED BY <1>2, <1>7, <1>9, <1>14, <1>15, QuietStep DEF Stable

-----------------------------------------------------------------------------
\* The holder of the lock stores: nobody else fetches, and a full answer renews
\* the cache for everyone.
LEMMA StoreLiveKeeps ==
    ASSUME Stable, NEW t \in Tasks, StoreLive(t)
    PROVE  LiveInv'
<1> USE StableFacts
<1> DEFINE got == task[t].got
           full == DOMAIN got = Providers
<1>1. /\ task[t].pc = "store" /\ liveLock = t /\ liveLock' = None
      /\ live' = Updated(t) /\ UNCHANGED <<drops, pollVars>>
      /\ shown' = IF t \in Requests THEN ShownWith(got) ELSE shown
  BY DEF StoreLive, At, TaskInv, Fetches
<1>2. DOMAIN got = Built(t) /\ DOMAIN got \subseteq Providers /\ \A p \in DOMAIN got : got[p] \in Answers
  <2>1. got \in Snapshots
    BY DEF TaskShapes, IsTask
  <2> QED BY <1>1, <2>1, SnapshotType DEF TaskInv, GotExpected
<1>3. ASSUME NEW p \in DOMAIN got
      PROVE  /\ got[p] <= world /\ (p = "claude" => got[p] <= newest)
             /\ got[p] = Unavailable \/ got[p] >= shown[p]
  BY <1>1, <1>3 DEF TaskInv, GotNew
<1>4. /\ TaskShapes'
      /\ \A s \in Tasks :
            /\ task'[s].pc = IF s = t THEN "done" ELSE task[s].pc
            /\ task'[s].force = task[s].force /\ task'[s].scope = task[s].scope
            /\ task'[s].got = task[s].got /\ task'[s].floor = task[s].floor
            /\ task[s].renewed \/ full => task'[s].renewed
  <2> DEFINE stage(s) == IF s = t THEN "done" ELSE task[s].pc
             l(s) == [task[s] EXCEPT !.pc = stage(s)]
             r(s) == [l(s) EXCEPT !.renewed = l(s).renewed \/ full]
  <2>1. ASSUME NEW s \in Tasks
        PROVE  /\ IsTask(r(s)) /\ r(s).pc = stage(s)
               /\ r(s).force = task[s].force /\ r(s).scope = task[s].scope
               /\ r(s).got = task[s].got /\ r(s).floor = task[s].floor
               /\ r(s).renewed = (task[s].renewed \/ full)
    <3>1. stage(s) \in Stages /\ IsTask(task[s])
      BY DEF TaskShapes, IsTask, Stages
    <3> HIDE DEF stage, got, full
    <3>2. PICK k : k = l(s)
      OBVIOUS
    <3>3. /\ IsTask(k) /\ k.pc = stage(s)
          /\ k.force = task[s].force /\ k.scope = task[s].scope
          /\ k.got = task[s].got /\ k.floor = task[s].floor /\ k.renewed = task[s].renewed
      BY <3>1, <3>2 DEF IsTask
    <3>4. PICK b : b = (k.renewed \/ full)
      OBVIOUS
    <3>5. r(s) = [k EXCEPT !.renewed = b]
      BY <3>2, <3>4
    <3>6. PICK m : m = [k EXCEPT !.renewed = b]
      OBVIOUS
    <3>7. /\ IsTask(m) /\ m.pc = k.pc /\ m.force = k.force /\ m.scope = k.scope
          /\ m.got = k.got /\ m.floor = k.floor /\ m.renewed = b
      BY <3>3, <3>6 DEF IsTask
    <3>8. m = r(s)
      BY <3>5, <3>6
    <3> HIDE DEF r
    <3> QED BY <3>3, <3>4, <3>7, <3>8
  <2>2. task' = [s \in Tasks |-> r(s)]
    BY DEF StoreLive
  <2> HIDE DEF r
  <2>3. \A s \in Tasks : task'[s] = r(s)
    BY <2>2
  <2>4. task' = [s \in Tasks |-> task'[s]]
    BY <2>2
  <2> QED BY <2>1, <2>3, <2>4 DEF TaskShapes
<1>5. world' = world /\ newest' = newest /\ \A s \in Tasks : poll'[s].floor = poll[s].floor
  BY <1>1 DEF pollVars, environment
<1>6. ASSUME NEW p \in Providers
      PROVE  /\ shown'[p] >= shown[p] /\ shown'[p] \in Answers
             /\ \/ shown'[p] = shown[p]
                \/ p \in DOMAIN got /\ shown'[p] = got[p]
  <2>1. shown[p] \in Answers /\ shown[p] \in Nat
    BY AnswersNat DEF Stable, LiveInv, Shapes
  <2>2. CASE t \in Requests /\ p \in DOMAIN got
    <3>1. shown'[p] = Larger(shown[p], got[p])
      BY <1>1, <2>2 DEF ShownWith
    <3>2. got[p] \in Answers /\ got[p] \in Nat
      BY <1>2, <2>2, AnswersNat
    <3> HIDE DEF got
    <3> QED BY <2>1, <2>2, <3>1, <3>2 DEF Larger
  <2>3. CASE ~(t \in Requests /\ p \in DOMAIN got)
    <3>1. shown'[p] = shown[p]
      BY <1>1, <2>3 DEF ShownWith
    <3> QED BY <2>1, <3>1
  <2> QED BY <2>2, <2>3
<1>7. shown' \in [Providers -> Answers]
  <2>1. shown' = [p \in Providers |-> shown'[p]]
    BY <1>1 DEF ShownWith
  <2> QED BY <1>6, <2>1
<1>8. ShownKnown'
  <2>1. shown["claude"] <= newest /\ \A p \in Providers : shown[p] <= world
    BY DEF Stable, LiveInv, SharedInv, ShownKnown
  <2> QED BY <1>3, <1>5, <1>6, <2>1 DEF ShownKnown, Providers
<1>9. ASSUME live' # None
      PROVE  /\ live'.at = clock /\ live'.snaps \in [Providers -> Answers]
             /\ full \/ live # None
             /\ \A p \in Providers :
                   live'.snaps[p] = IF p \in DOMAIN got THEN got[p] ELSE live.snaps[p]
  <2>1. CASE full
    <3>1. live' = [at |-> clock, snaps |-> got]
      BY <1>1, <2>1 DEF Updated
    <3>2. got \in [Providers -> Answers]
      <4>1. got \in Snapshots
        BY DEF TaskShapes, IsTask
      <4>2. PICK S \in SUBSET Providers : got \in [S -> Answers]
        BY <4>1, Zenon DEF Snapshots
      <4> QED BY <2>1, <4>2
    <3> QED BY <2>1, <3>1, <3>2
  <2>2. CASE ~full
    <3>1. live # None
      BY <1>1, <1>9, <2>2 DEF Updated
    <3>2. live' = [at |-> clock,
                   snaps |-> [p \in Providers |-> IF p \in DOMAIN got THEN got[p] ELSE live.snaps[p]]]
      BY <1>1, <2>2, <3>1 DEF Updated
    <3>3. live.snaps \in [Providers -> Answers]
      BY <3>1 DEF Shapes
    <3> QED BY <1>2, <3>1, <3>2, <3>3
  <2> QED BY <2>1, <2>2
<1>10. Shapes'
  <2>1. clock \in 0..MaxClock
    BY DEF Stable, PollInv, PollTypeOK
  <2>2. live' # None => live'.at \in 0..MaxClock /\ live'.snaps \in [Providers -> Answers]
    BY <1>9, <2>1
  <2> QED BY <1>1, <1>4, <1>7, <2>2 DEF Shapes
<1>11. NumbersOK'
  BY <1>10, NumbersAfter DEF Stable, PollInv
<1>12. CacheNew'
  <2> SUFFICES ASSUME live' # None
               PROVE  /\ live'.snaps["claude"] <= newest
                      /\ \A p \in Providers :
                            /\ live'.snaps[p] <= world
                            /\ live'.snaps[p] = Unavailable \/ live'.snaps[p] >= shown'[p]
    BY <1>5 DEF CacheNew
  <2>1. ASSUME NEW p \in Providers
        PROVE  /\ live'.snaps[p] <= world /\ (p = "claude" => live'.snaps[p] <= newest)
               /\ live'.snaps[p] = Unavailable \/ live'.snaps[p] >= shown'[p]
    <3>1. CASE p \in DOMAIN got
      <4>1. live'.snaps[p] = got[p] /\ got[p] \in Nat
        BY <1>2, <1>9, <3>1, AnswersNat
      <4>2. /\ got[p] <= world /\ (p = "claude" => got[p] <= newest)
            /\ got[p] = Unavailable \/ got[p] >= shown[p]
        BY <1>3, <3>1
      <4>3. shown'[p] = shown[p] \/ shown'[p] = got[p]
        BY <1>6
      <4> QED BY <4>1, <4>2, <4>3
    <3>2. CASE p \notin DOMAIN got
      <4>1. live # None /\ live'.snaps[p] = live.snaps[p]
        BY <1>9, <3>2
      <4>2. shown'[p] = shown[p]
        BY <1>6, <3>2
      <4> QED BY <4>1, <4>2 DEF Stable, LiveInv, SharedInv, CacheNew
    <3> QED BY <3>1, <3>2
  <2> QED BY <2>1 DEF Providers
<1>13. TaskInv(t)'
  <2>1. (\A p \in Providers : task[t].floor[p] <= shown[p])'
    <3> SUFFICES ASSUME NEW p \in Providers PROVE task[t].floor[p] <= shown'[p]
      BY <1>4
    <3>1. task[t].floor[p] <= shown[p]
      BY DEF TaskInv
    <3>2. task[t].floor[p] \in Nat /\ shown[p] \in Nat /\ shown'[p] \in Nat
      BY <1>11 DEF NumbersOK
    <3> QED BY <1>6, <3>1, <3>2
  <2>2. DoneNew(t)'
    <3> SUFFICES ASSUME NEW p \in DOMAIN got
                 PROVE  got[p] = Unavailable \/ got[p] >= task[t].floor[p]
      BY <1>4 DEF DoneNew
    <3>1. task[t].floor[p] <= shown[p] /\ p \in Providers
      BY <1>2 DEF TaskInv
    <3>2. task[t].floor[p] \in Nat /\ shown[p] \in Nat /\ got[p] \in Nat
      BY <1>2, <3>1, AnswersNat DEF NumbersOK
    <3> QED BY <1>3, <3>1, <3>2
  <2>3. Forced(t) => full
    BY <1>2 DEF Forced, Built
  <2>4. ForcedPassesOver(t)'
    BY <1>4, <2>3 DEF ForcedPassesOver, Forced
  <2>5. (Fetches(t) => liveLock = t)' /\ (GotExpected(t) /\ GotNew(t) /\ UsageNew(t))'
    BY <1>4 DEF Fetches, GotExpected, GotNew, UsageNew
  <2> QED BY <1>4, <2>1, <2>2, <2>4, <2>5 DEF TaskInv
<1>14. ASSUME NEW s \in Tasks \ {t} PROVE TaskInv(s)'
  <2>1. liveLock # s
    BY <1>1
  <2>2. live' # None => live # None \/ task'[s].renewed
    BY <1>4, <1>9
  <2>3. world' >= world /\ newest' >= newest
    BY <1>5 DEF NumbersOK
  <2>4. TaskInv(s) /\ SharedInv
    BY DEF Stable, LiveInv
  <2> HIDE DEF got, full
  <2> QED BY <1>4, <1>5, <1>6, <1>11, <2>1, <2>2, <2>3, <2>4, OthersKeep
<1>15. AnswersKnown'
  BY PollGrows DEF Stable, LiveInv, SharedInv
<1> QED BY <1>8, <1>10, <1>12, <1>13, <1>14, <1>15 DEF LiveInv, SharedInv

-----------------------------------------------------------------------------
\* A step of the polls, or of the clock and the services.
LEMMA PollStepKeeps ==
    ASSUME Stable, UNCHANGED liveVars, \A s \in Tasks : poll'[s].floor = poll[s].floor
    PROVE  LiveInv'
<1> USE StableFacts
<1>1. Shapes'
  BY DEF liveVars, Shapes, TaskShapes
<1>2. \A p \in Providers : shown'[p] >= shown[p] /\ shown'[p] = shown[p]
  BY DEF liveVars, NumbersOK
<1>3. PICK T \in SUBSET Tasks : T = {}
  OBVIOUS
<1> QED BY <1>1, <1>2, <1>3, QuietStep DEF Stable, liveVars

LEMMA LiveInit == Init => LiveInv
<1> SUFFICES ASSUME Init PROVE LiveInv
  OBVIOUS
<1>1. task = [t \in Tasks |-> Fresh0] /\ \A t \in Tasks : task[t] = Fresh0
  BY DEF Init
<1>2. Shapes
  <2>1. Unavailable \in Answers
    BY DEF Answers
  <2>2. TaskShapes
    BY <1>1, FreshTask DEF TaskShapes
  <2> QED BY <2>1, <2>2, LiveBounds DEF Init, Shapes
<1>3. SharedInv
  BY DEF Init, PollInit, SharedInv, ShownKnown, CacheNew, AnswersKnown, PollAt, Resting, Providers,
     Unavailable
<1>4. ASSUME NEW t \in Tasks PROVE TaskInv(t)
  <2>1. /\ task[t].pc = "new" /\ task[t].scope = "all" /\ task[t].got = Nothing
        /\ task[t].force = FALSE
        /\ \A p \in Providers : task[t].floor[p] = Unavailable /\ shown[p] = Unavailable
    BY <1>1 DEF Fresh0, Init
  <2> QED BY <2>1, NothingType DEF TaskInv, Fetches, GotExpected, GotNew, UsageNew, DoneNew,
       ForcedPassesOver, Forced, Unavailable
<1> QED BY <1>2, <1>3, <1>4 DEF LiveInv

LEMMA LiveNext == LiveInv /\ PollInv /\ PollInv' /\ [Next]_vars => LiveInv'
<1> SUFFICES ASSUME LiveInv, PollInv, PollInv', [Next]_vars PROVE LiveInv'
  OBVIOUS
<1>1. Stable
  BY NextPolls DEF Stable
<1>2. ASSUME NEW t \in Tasks, Step(t) PROVE LiveInv'
  BY <1>1, <1>2, LookFreshKeeps, ServeStaleKeeps, NothingCachedKeeps, TryLockKeeps, TakeLockKeeps,
     LookAgainKeeps, AskUsageKeeps, ShowUsageKeeps, SkipUsageKeeps, BuildClaudeKeeps,
     BuildCodexKeeps, StoreLiveKeeps DEF Step
<1>3. ASSUME NEW c \in Callers, PollStep(c), UNCHANGED liveVars PROVE LiveInv'
  BY <1>1, <1>3, PollFloors, PollStepKeeps, LiveTasks
<1>4. ASSUME NEW q \in Requests, HangUp(q) PROVE LiveInv'
  BY <1>1, <1>4, HangUpKeeps
<1>5. ASSUME NEW q \in Requests, NEW kind \in Kinds[q], Ask(q, kind) PROVE LiveInv'
  BY <1>1, <1>5, AskKeeps
<1>6. ASSUME NEW t \in Tasks, FailBuild(t) PROVE LiveInv'
  BY <1>1, <1>6, FailBuildKeeps
<1>7. CASE (Tick \/ Change) /\ UNCHANGED liveVars
  BY <1>1, <1>7, PollStepKeeps DEF Tick, Change
<1>8. CASE UNCHANGED vars
  BY <1>1, <1>8, PollStepKeeps DEF vars, pollVars
<1> QED BY <1>2, <1>3, <1>4, <1>5, <1>6, <1>7, <1>8 DEF Next, Work

LEMMA LiveInvariant == Spec => []LiveInv
BY LiveInit, LiveNext, LiveProvidersPoll, PollsInvariant, PTL DEF Spec

\* What a request shows is as new as what was shown before it was made, and a
\* forced refresh shows nothing that was cached when it was made, for any requests,
\* tasks, failures and hang-ups (fetch_live_provider_response, cache.rs).
THEOREM LiveAnswersNew == Spec => []AnswersNew
<1>1. LiveInv => NoStepBack
  BY DEF LiveInv, TaskInv, DoneNew, NoStepBack, At, Tasks
<1>2. LiveInv => ForcedIsNew
  BY DEF LiveInv, TaskInv, ForcedPassesOver, Forced, ForcedIsNew, At, Tasks
<1>3. LiveInv => AnswersNew
  BY <1>1, <1>2 DEF AnswersNew
<1> QED BY <1>3, LiveInvariant, PTL

=============================================================================
