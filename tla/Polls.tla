-------------------------------- MODULE Polls --------------------------------
(***************************************************************************)
(* The cached polls of the server (src/src/server/api.rs): look at the      *)
(* cache, take the refresh lock, look again, poll the upstream service,     *)
(* notify the webhook of a transition, store what was found or else the     *)
(* last good answer.  refresh_usage_windows_with is the one modelled; the   *)
(* Claude admin, OpenAI, agent status and community polls have its shape.   *)
(* The data is the version of the service that a poll has seen.             *)
(***************************************************************************)
EXTENDS Integers

CONSTANTS
    Callers,        \* handlers and tasks that ask for the polled data
    None,
    Interval,       \* refresh interval, in ticks
    MaxClock,       \* bound: ticks
    MaxVersion      \* bound: versions of the service

ASSUME PollBounds == {Interval, MaxClock, MaxVersion} \subseteq Nat \ {0}
ASSUME PollNone == None \notin Callers \cup BOOLEAN \cup [at : Nat, data : Nat]

VARIABLES
    clock,
    world,          \* the version of the service
    pollCache,      \* None, or the time of the last store and the data stored
    pollLock,       \* the caller that holds the refresh lock, or None
    poll,           \* local state of each caller
    hook,           \* WebhookState: the last level observed, or None
    told,           \* the level the last webhook sent says (history variable)
    observed,       \* the newest version a webhook has looked at (history variable)
    newest          \* the newest version any caller was answered with (history variable)

environment == <<clock, world>>
webhook == <<hook, told, observed>>
pollVars == <<environment, pollCache, pollLock, poll, webhook, newest>>

Unavailable == 0
Versions == 1..MaxVersion

\* Every second version of the service is one to be alarmed at.
Alarming(v) == v % 2 = 0

Resting == [pc |-> "idle", got |-> Unavailable, floor |-> Unavailable]
Larger(a, b) == IF a < b THEN b ELSE a

PollInit ==
    /\ clock = 0 /\ world = 1
    /\ pollCache = None /\ pollLock = None
    /\ poll = [c \in Callers |-> Resting]
    /\ hook = None /\ told = None /\ observed = Unavailable
    /\ newest = Unavailable

Tick ==
    /\ clock < MaxClock
    /\ clock' = clock + 1
    /\ UNCHANGED <<world, pollCache, pollLock, poll, webhook, newest>>

\* The service changes, and its data with it.
Change ==
    /\ world < MaxVersion
    /\ world' = world + 1
    /\ UNCHANGED <<clock, pollCache, pollLock, poll, webhook, newest>>

-----------------------------------------------------------------------------

PollAt(c, stage) == poll[c].pc = stage
PollGoto(c, stage) == poll' = [poll EXCEPT ![c].pc = stage]

Fresh == pollCache # None /\ clock - pollCache.at < Interval

Answered(c, data) ==
    /\ poll' = [poll EXCEPT ![c].pc = "answered", ![c].got = data]
    /\ newest' = Larger(newest, data)

StartPoll(c) ==
    /\ PollAt(c, "idle")
    /\ poll' = [poll EXCEPT ![c] = [pc |-> "look", got |-> Unavailable, floor |-> newest]]
    /\ UNCHANGED <<environment, pollCache, pollLock, webhook, newest>>

PollHit(c) ==
    /\ PollAt(c, "look")
    /\ Fresh
    /\ Answered(c, pollCache.data)
    /\ UNCHANGED <<environment, pollCache, pollLock, webhook>>

PollMiss(c) ==
    /\ PollAt(c, "look")
    /\ ~Fresh
    /\ PollGoto(c, "wait")
    /\ UNCHANGED <<environment, pollCache, pollLock, webhook, newest>>

\* Mutated form: the service is polled without the lock and without a second look.
PollAtOnce(c) ==
    /\ PollAt(c, "wait")
    /\ PollGoto(c, "fetch")
    /\ UNCHANGED <<environment, pollCache, pollLock, webhook, newest>>

\* The cache may have been refreshed while the caller waited for the lock.
LockAndLook(c) ==
    /\ PollAt(c, "wait")
    /\ pollLock = None
    /\ \/ Fresh /\ Answered(c, pollCache.data) /\ UNCHANGED pollLock
       \/ ~Fresh /\ PollGoto(c, "fetch") /\ pollLock' = c /\ UNCHANGED newest
    /\ UNCHANGED <<environment, pollCache, webhook>>

\* The service answers with its version of this moment, the fallback source does
\* (which no webhook looks at), or nobody.
Fetch(c) ==
    /\ PollAt(c, "fetch")
    /\ \E stage \in {"notify", "store"}, v \in {world, Unavailable} :
          /\ stage = "notify" => v = world
          /\ poll' = [poll EXCEPT ![c].pc = stage, ![c].got = v]
    /\ UNCHANGED <<environment, pollCache, pollLock, webhook, newest>>

\* A webhook is sent (a task posts it) when the level differs from the last one
\* observed; the first observation is taken as given.
Notify(c) ==
    /\ PollAt(c, "notify")
    /\ hook' = Alarming(poll[c].got)
    /\ told' = IF hook \in {None, hook'} THEN told ELSE hook'
    /\ observed' = Larger(observed, poll[c].got)
    /\ PollGoto(c, "store")
    /\ UNCHANGED <<environment, pollCache, pollLock, newest>>

\* Mutated form: a failed poll replaces the last good answer.
StoreAnything(c) ==
    /\ PollAt(c, "store")
    /\ pollCache' = [at |-> clock, data |-> poll[c].got]
    /\ Answered(c, poll[c].got)
    /\ pollLock' = None
    /\ UNCHANGED <<environment, webhook>>

\* A failed poll stores the last answer once more, if there is one.
Store(c) ==
    /\ PollAt(c, "store")
    /\ LET data == IF poll[c].got = Unavailable /\ pollCache # None
                   THEN pollCache.data ELSE poll[c].got
       IN  pollCache' = [at |-> clock, data |-> data] /\ Answered(c, data)
    /\ pollLock' = None
    /\ UNCHANGED <<environment, webhook>>

\* The caller uses its answer.
Return(c) ==
    /\ PollAt(c, "answered")
    /\ poll' = [poll EXCEPT ![c] = Resting]
    /\ UNCHANGED <<environment, pollCache, pollLock, webhook, newest>>

\* The future of a caller that waits is dropped, its lock with it.
Dropped(c) ==
    /\ poll' = [poll EXCEPT ![c] = Resting]
    /\ pollLock' = IF pollLock = c THEN None ELSE pollLock

PollStep(c) ==
    \/ PollHit(c) \/ PollMiss(c) \/ LockAndLook(c)
    \/ Fetch(c) \/ Notify(c) \/ Store(c)

Abandon(c) ==
    /\ Dropped(c)
    /\ UNCHANGED <<environment, pollCache, webhook, newest>>

\* The polls by themselves; module LiveProviders is shown to keep to this.
PollNext ==
    \/ Tick \/ Change
    \/ \E c \in Callers : StartPoll(c) \/ PollStep(c) \/ Return(c) \/ Abandon(c)

PollSpec == PollInit /\ [][PollNext]_pollVars

-----------------------------------------------------------------------------
(* Properties *)

PollTypeOK ==
    /\ clock \in 0..MaxClock
    /\ world \in Versions
    /\ pollCache \in [at : 0..MaxClock, data : Versions \cup {Unavailable}] \cup {None}
    /\ pollLock \in Callers \cup {None}
    /\ poll \in [Callers ->
           [pc : {"idle", "look", "wait", "fetch", "notify", "store", "answered"},
            got : Versions \cup {Unavailable}, floor : Versions \cup {Unavailable}]]
    /\ {hook, told} \subseteq {TRUE, FALSE, None}
    /\ {observed, newest} \subseteq Versions \cup {Unavailable}

\* However many callers meet at an expired cache, the service is polled once an
\* interval: a caller polls only if nothing was stored within the interval.
PollsApart == \A c \in Callers : PollAt(c, "fetch") => ~Fresh

\* Nobody is answered with older data than someone was before the call began.
AnswersAdvance == \A c \in Callers : PollAt(c, "answered") => poll[c].got >= poll[c].floor

\* However many polls overlap, the last webhook sent says the level of the newest
\* data a webhook has looked at: no transition is missed, repeated or reverted.
LastWebhookTrue == told # None => told = Alarming(observed)

=============================================================================
