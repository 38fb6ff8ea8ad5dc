------------------------------- MODULE Health -------------------------------
(* What the server tells about the health of the providers: the official      *)
(* status pages, Claude's asked for with the ETag of the last answer, and the *)
(* signal of a crowd; the webhook of an official outage, and the one of a     *)
(* crowd that reports an outage the official page does not.  Both polls have  *)
(* a cache with a lifetime and a lock; they share the cache of the status.    *)
EXTENDS Naturals

CONSTANTS
    Pollers,    \* tasks that ask for the status
    Askers,     \* tasks that ask for the crowd's signal
    Lifetime,   \* refresh_interval, in ticks
    MaxClock,   \* bound on the ticks
    MaxVersion, \* bound on the changes of a page
    Polled,     \* the sets of providers a configuration may poll
    Outlooks,   \* levels a page may show
    Reports     \* what a service may answer: a status, and reports in the last hour

VARIABLES
    clock, enabled, backend,
    page,     \* per provider: version and level of its official page
    cache,    \* the status last stored: its time, the levels, the ETag
    lock, poll,
    signal,   \* the signal last stored
    sigLock, ask,
    degraded, \* per provider: whether webhooks last saw it degraded
    spiking,  \* per provider: whether webhooks last saw a leading spike
    known,    \* per provider: the level as of the last stored poll (history)
    seen,     \* per provider: the level the alerts last looked at (history)
    told,     \* per provider: the last alert (history)
    early     \* per provider: the level known when a spike was last told (history)

world == <<clock, enabled, backend, page>>
status == <<cache, lock, poll>>
crowd == <<signal, sigLock, ask>>
hooks == <<degraded, spiking>>
history == <<known, seen, told, early>>
vars == <<world, status, crowd, hooks, history>>

Providers == {"claude", "openai"}
Levels == {"fine", "minor", "major"}

\* What an instance must satisfy.
HealthBounds == {Lifetime, MaxClock, MaxVersion} \subseteq Nat \ {0}
                /\ Outlooks \subseteq Levels /\ Polled \subseteq SUBSET Providers

Worthy(level) == level = "major"

NoStatus == [at |-> 0, stored |-> FALSE, claude |-> "absent", openai |-> "absent", etag |-> 0]
NoSignal == [at |-> 0, stored |-> FALSE, enabled |-> FALSE,
             level |-> [p \in Providers |-> "unknown"]]
Resting == [pc |-> "idle", claude |-> "absent", openai |-> "absent", etag |-> 0, same |-> FALSE]
Quiet == [pc |-> "idle", level |-> [p \in Providers |-> "unknown"],
          major |-> [p \in Providers |-> FALSE], official |-> [p \in Providers |-> "absent"]]

Init ==
    /\ clock = 0
    /\ enabled \in Polled /\ backend \in {"statusgator", "other"}
    /\ page = [p \in Providers |-> [version |-> 1, level |-> "fine"]]
    /\ cache = NoStatus /\ lock = {} /\ poll = [c \in Pollers |-> Resting]
    /\ signal = NoSignal /\ sigLock = {} /\ ask = [c \in Askers |-> Quiet]
    /\ degraded = [p \in Providers |-> "unset"] /\ spiking = [p \in Providers |-> "unset"]
    /\ known = [p \in Providers |-> "absent"] /\ seen = [p \in Providers |-> "absent"]
    /\ told = [p \in Providers |-> "nothing"] /\ early = [p \in Providers |-> "absent"]

Tick ==
    /\ clock < MaxClock /\ clock' = clock + 1
    /\ UNCHANGED <<enabled, backend, page, status, crowd, hooks, history>>

Change(p, level) ==
    /\ page[p].version < MaxVersion /\ level # page[p].level
    /\ page' = [page EXCEPT ![p] = [version |-> @.version + 1, level |-> level]]
    /\ UNCHANGED <<clock, enabled, backend, status, crowd, hooks, history>>

---------------------------------------------------------------------------
(* The official status *)

At(c, stage) == poll[c].pc = stage
StatusFresh == cache.stored /\ clock - cache.at < Lifetime
Ended(c) == poll' = [poll EXCEPT ![c] = Resting]

StartStatus(c) ==
    /\ At(c, "idle")
    /\ IF StatusFresh THEN UNCHANGED poll ELSE poll' = [poll EXCEPT ![c].pc = "wait"]
    /\ UNCHANGED <<world, cache, lock, crowd, hooks, history>>

\* Under the lock the cache is looked at again, and its ETag read.
LockStatus(c) ==
    /\ At(c, "wait") /\ lock = {}
    /\ IF StatusFresh THEN Ended(c) /\ UNCHANGED lock
       ELSE /\ poll' = [poll EXCEPT ![c].pc = "claude", ![c].etag = cache.etag]
            /\ lock' = {c}
    /\ UNCHANGED <<world, cache, crowd, hooks, history>>

\* A page that still has the version of the ETag is answered with no body,
\* which the poll cannot tell from a failure.
FetchClaude(c) ==
    /\ At(c, "claude")
    /\ \E answers \in BOOLEAN :
        LET asked == "claude" \in enabled /\ answers
            same == asked /\ poll[c].etag = page["claude"].version
        IN poll' = [poll EXCEPT ![c].pc = "openai", ![c].same = same,
                                ![c].claude = IF asked /\ ~same THEN page["claude"].level
                                              ELSE "absent",
                                ![c].etag = IF asked THEN page["claude"].version ELSE @]
    /\ UNCHANGED <<world, cache, lock, crowd, hooks, history>>

\* Anything at all makes the answer a fresh one.
FetchOpenAI(c) ==
    /\ At(c, "openai")
    /\ \E answers \in BOOLEAN :
        LET level == IF "openai" \in enabled /\ answers THEN page["openai"].level ELSE "absent"
        IN poll' = [poll EXCEPT ![c].openai = level,
                                ![c].pc = IF {poll[c].claude, level} = {"absent"} THEN "keep"
                                          ELSE "notify"]
    /\ UNCHANGED <<world, cache, lock, crowd, hooks, history>>

Found(c, p) == IF p = "claude" THEN poll[c].claude ELSE poll[c].openai

\* An alert is sent when the provider crosses the line, the first observation
\* is taken as given.
NotifyStatus(c) ==
    /\ At(c, "notify")
    /\ LET bad(p) == IF Worthy(Found(c, p)) THEN "yes" ELSE "no"
           looked == {p \in Providers : Found(c, p) # "absent"}
       IN /\ degraded' = [p \in Providers |-> IF p \in looked THEN bad(p) ELSE degraded[p]]
          /\ seen' = [p \in Providers |-> IF p \in looked THEN Found(c, p) ELSE seen[p]]
          /\ told' = [p \in Providers |->
                IF p \notin looked \/ degraded[p] \in {"unset", bad(p)} THEN told[p]
                ELSE IF bad(p) = "yes" THEN "degraded" ELSE "restored"]
    /\ poll' = [poll EXCEPT ![c].pc = "store"]
    /\ UNCHANGED <<world, cache, lock, crowd, spiking, known, early>>

StoreStatus(c) ==
    /\ At(c, "store")
    /\ cache' = [at |-> clock, stored |-> TRUE, claude |-> poll[c].claude,
                 openai |-> poll[c].openai, etag |-> poll[c].etag]
    /\ known' = [p \in Providers |->
                    IF p = "claude" /\ poll[c].same THEN known[p] ELSE Found(c, p)]
    /\ Ended(c) /\ lock' = {}
    /\ UNCHANGED <<world, crowd, hooks, seen, told, early>>

\* Mutated form: a poll that found nothing new empties the cache.
KeepNothing(c) ==
    /\ At(c, "keep")
    /\ cache' = [NoStatus EXCEPT !.at = clock, !.stored = TRUE, !.etag = poll[c].etag]
    /\ Ended(c) /\ lock' = {}
    /\ UNCHANGED <<world, crowd, hooks, history>>

\* What was stored is stored once more, with its own ETag.
KeepStatus(c) ==
    /\ At(c, "keep")
    /\ cache' = [cache EXCEPT !.at = clock, !.stored = TRUE]
    /\ Ended(c) /\ lock' = {}
    /\ UNCHANGED <<world, crowd, hooks, history>>

\* The client of a request hangs up: its future is dropped, its lock with it.
DropStatus(c) ==
    /\ ~At(c, "idle")
    /\ Ended(c) /\ lock' = lock \ {c}
    /\ UNCHANGED <<world, cache, crowd, hooks, history>>

---------------------------------------------------------------------------
(* The crowd's signal *)

AskAt(c, stage) == ask[c].pc = stage
SignalFresh == signal.stored /\ clock - signal.at < Lifetime
AskEnded(c) == ask' = [ask EXCEPT ![c] = Quiet]

\* The status a service reports, or else how its reports compare with its
\* baseline: three times as many are a spike.
LevelOf(reported, reports) ==
    CASE reported = "up" -> "normal"
      [] reported = "degraded" -> "elevated"
      [] reported = "down" -> "spike"
      [] OTHER -> CASE reports > 6 -> "spike" [] reports \in 4 .. 6 -> "elevated"
                    [] reports \in 1 .. 3 -> "normal" [] OTHER -> "unknown"

\* With a baseline of two; no reports also stands for a service that fails.
Signals == {LevelOf(report.says, report.count) : report \in Reports}

StartSignal(c) ==
    /\ AskAt(c, "idle")
    /\ IF SignalFresh THEN UNCHANGED ask ELSE ask' = [ask EXCEPT ![c].pc = "wait"]
    /\ UNCHANGED <<world, status, signal, sigLock, hooks, history>>

LockSignal(c) ==
    /\ AskAt(c, "wait") /\ sigLock = {}
    /\ IF SignalFresh THEN AskEnded(c) /\ UNCHANGED sigLock
       ELSE ask' = [ask EXCEPT ![c].pc = "fetch"] /\ sigLock' = {c}
    /\ UNCHANGED <<world, status, signal, hooks, history>>

FetchSignal(c) ==
    /\ AskAt(c, "fetch")
    /\ \E level \in (IF backend = "statusgator" THEN [Providers -> Signals]
                      ELSE {Quiet.level}) :
        ask' = [ask EXCEPT ![c].pc = "official", ![c].level = level]
    /\ UNCHANGED <<world, status, signal, sigLock, hooks, history>>

\* What the cache of the status does not show counts as no outage.
ReadOfficial(c) ==
    /\ AskAt(c, "official")
    /\ ask' = [ask EXCEPT ![c].pc = "spike", ![c].official = known,
                          ![c].major = [p \in Providers |->
                              Worthy(IF p = "claude" THEN cache.claude ELSE cache.openai)]]
    /\ UNCHANGED <<world, status, signal, sigLock, hooks, history>>

NotifySpike(c) ==
    /\ AskAt(c, "spike")
    /\ LET leads(p) == IF ask[c].level[p] = "spike" /\ ~ask[c].major[p] THEN "yes" ELSE "no"
       IN /\ spiking' = [p \in Providers |-> leads(p)]
          /\ early' = [p \in Providers |->
                IF leads(p) = "yes" /\ spiking[p] = "no" THEN ask[c].official[p] ELSE early[p]]
    /\ ask' = [ask EXCEPT ![c].pc = "store"]
    /\ UNCHANGED <<world, status, signal, sigLock, degraded, known, seen, told>>

StoreSignal(c) ==
    /\ AskAt(c, "store")
    /\ LET found == [at |-> clock, stored |-> TRUE, enabled |-> backend = "statusgator",
                     level |-> ask[c].level]
       IN signal' = IF found.enabled \/ ~signal.stored THEN found
                    ELSE [signal EXCEPT !.at = clock]
    /\ AskEnded(c) /\ sigLock' = {}
    /\ UNCHANGED <<world, status, hooks, history>>

DropSignal(c) ==
    /\ ~AskAt(c, "idle")
    /\ AskEnded(c) /\ sigLock' = sigLock \ {c}
    /\ UNCHANGED <<world, status, signal, hooks, history>>

Next ==
    \/ Tick
    \/ \E p \in enabled, level \in Outlooks : Change(p, level)
    \/ \E c \in Pollers :
        \/ StartStatus(c) \/ LockStatus(c) \/ FetchClaude(c) \/ FetchOpenAI(c)
        \/ NotifyStatus(c) \/ StoreStatus(c) \/ KeepStatus(c) \/ DropStatus(c)
    \/ \E c \in Askers :
        \/ StartSignal(c) \/ LockSignal(c) \/ FetchSignal(c) \/ ReadOfficial(c)
        \/ NotifySpike(c) \/ StoreSignal(c) \/ DropSignal(c)

Spec == Init /\ [][Next]_vars

---------------------------------------------------------------------------
(* Properties *)

TypeOK ==
    /\ clock \in 0 .. MaxClock
    /\ \A holders \in {lock, sigLock} : \A a, b \in holders : a = b
    /\ {cache.claude, cache.openai} \subseteq Levels \cup {"absent"}
    /\ \A p \in Providers :
        /\ degraded[p] \in {"unset", "yes", "no"} /\ spiking[p] \in {"unset", "yes", "no"}
        /\ told[p] \in {"nothing", "degraded", "restored"}

\* However polls overlap, fail and are dropped, the last alert about a provider
\* says what the page said when an alert last looked at it.
AlertsTrue ==
    \A p \in Providers :
        /\ told[p] = "degraded" => Worthy(seen[p])
        /\ told[p] = "restored" => ~Worthy(seen[p])

\* With Claude's page the only one asked, an answer without a body leaves the
\* status in the cache: as long as the page has the ETag the cache has, the
\* cache shows what the page says.
StatusKept ==
    enabled = {"claude"} /\ cache.etag = page["claude"].version
        => cache.claude = page["claude"].level

\* A spike of the crowd is told only while the official status, as last known,
\* is below major.
SpikeLeads == \A p \in Providers : ~Worthy(early[p])

HealthTrue == AlertsTrue /\ StatusKept /\ (enabled # Providers => SpikeLeads)

---------------------------------------------------------------------------
(* An invariant of the steps, for the proof of HealthTrue *)

Shows == Levels \cup {"absent"}
Polls == [pc : {"idle", "wait", "claude", "openai", "keep", "notify", "store"},
          claude : Shows, openai : Shows, etag : Nat, same : BOOLEAN]
Asks == [pc : {"idle", "wait", "fetch", "official", "spike", "store"},
         level : [Providers -> {"normal", "elevated", "spike", "unknown"}],
         major : [Providers -> BOOLEAN], official : [Providers -> Shows]]
Types ==
    /\ clock \in 0 .. MaxClock /\ enabled \in SUBSET Providers
    /\ page \in [Providers -> [version : Nat, level : Levels]]
    /\ cache \in [at : Nat, stored : BOOLEAN, claude : Shows, openai : Shows, etag : Nat]
    /\ lock \in SUBSET Pollers /\ poll \in [Pollers -> Polls]
    /\ sigLock \in SUBSET Askers /\ ask \in [Askers -> Asks]
    /\ degraded \in [Providers -> {"unset", "yes", "no"}]
    /\ spiking \in [Providers -> {"unset", "yes", "no"}]
    /\ known \in [Providers -> Shows] /\ seen \in [Providers -> Shows]
    /\ told \in [Providers -> {"nothing", "degraded", "restored"}]
    /\ early \in [Providers -> Shows]

\* Whoever polls has the lock, alone.
Locked ==
    /\ \A c \in Pollers : poll[c].pc \in {"claude", "openai", "keep", "notify", "store"}
                              => lock = {c}
    /\ lock = {} \/ \E c \in Pollers : lock = {c}
    /\ \A c \in Askers : ask[c].pc \in {"fetch", "official", "spike", "store"}
                              => sigLock = {c}
    /\ sigLock = {} \/ \E c \in Askers : sigLock = {c}

\* The last alert agrees with what webhooks remember, and that with the page they
\* last looked at.
Remembered ==
    \A p \in Providers :
        /\ degraded[p] = "yes" => Worthy(seen[p])
        /\ degraded[p] = "no" => ~Worthy(seen[p])
        /\ told[p] = "degraded" => degraded[p] = "yes"
        /\ told[p] = "restored" => degraded[p] = "no"

\* What a poll has fetched: an ETag goes with the level of its version, and only
\* a provider that is polled is heard of.
Fetched ==
    \A c \in Pollers :
        /\ poll[c].etag <= page["claude"].version
        /\ poll[c].pc = "claude" => poll[c].etag = cache.etag
        /\ poll[c].pc \in {"openai", "keep", "notify", "store"} =>
             /\ poll[c].claude # "absent" /\ poll[c].etag = page["claude"].version =>
                  poll[c].claude = page["claude"].level
             /\ poll[c].same => poll[c].claude = "absent" /\ "claude" \in enabled
        /\ poll[c].pc \in {"keep", "notify", "store"} =>
             /\ poll[c].openai # "absent" => "openai" \in enabled
             /\ poll[c].pc # "keep" => {poll[c].claude, poll[c].openai} # {"absent"}
TagSeen == cache.etag <= page["claude"].version

\* With one provider polled, what is known of the pages is what the cache shows; a
\* poll of the crowd took both from there.
KnownCached ==
    enabled # Providers =>
        /\ known["claude"] = cache.claude /\ known["openai"] = cache.openai
        /\ \A c \in Askers : ask[c].pc = "spike" =>
             \A p \in Providers : ~ask[c].major[p] => ~Worthy(ask[c].official[p])

Inv == /\ Types /\ Locked /\ Remembered /\ Fetched /\ TagSeen /\ KnownCached
       /\ StatusKept /\ (enabled # Providers => SpikeLeads)

=============================================================================
