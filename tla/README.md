# Heimdall (claude-usage-tracker): TLA+ models, checks and proofs

This directory holds a formal model of Heimdall wherever processes, tasks,
files, clocks and failures meet, and of the computations whose results must agree with
one another: the scans and the database they fill, the rescan that replaces it,
the polls and their caches, the logins, the archive, the installers and scheduled
jobs, prices and their syncs, billing blocks, and the reports. TLC checks each
model on small instances; for instances of any size TLAPS proves the central properties
of the scan, the statusline, the rescan, the live polls, the archive, the web captures
and imports, the logins, the status polls, the usage cache, the reports, the prices, the
syncs, the billing blocks and the waste report. Paths such as `scanner/mod.rs:161` are under
`src/src/` of the repository.

## 1. Inventory

Heimdall is one Rust crate with several entry points (the command line with its
dashboard server, the hook, the MCP server) around one SQLite file, plus native
apps and a browser extension that talk to the server.

| Component | State it keeps | Operations | Interacts with | Module |
|---|---|---|---|---|
| Incremental scanner (`scanner/mod.rs`) | a to-do list while it runs | discover, sweep, per file look up / delete / parse / insert / mark, totals | database, transcripts | `Scan` |
| File watcher (`scanner/watcher.rs`) | a channel, a thread, a handle | debounce, callback, stop | scanner, the server's pages | `Watch` |
| Other providers (`scanner/providers/*`) | Cursor's sidecar | log -> rows | scanner | `Sources` |
| Database (`scanner/db.rs`) | turns, sessions, tools, marks, events, histories, prices, runs | statements, recomputation, merge, queries | every process opens it by name | `Scan`, `Rescan`, `Ledger`, `Prices`, `Quota`, `Monitor` |
| Hook (`hook/*`) | rows of `live_events` | one insert per tool call | database | `Rescan` |
| Server (`server/*`) | caches, locks, `db_lock`, webhook state | handlers, background loops, rescan | database, services | `Rescan`, `Polls`, `Usage`, `Health` |
| Live providers (`live_providers/*`) | response cache | load, forced refresh, merge; the Codex poll; quota snapshots | polls, logins, database | `LiveProviders`, `Codex`, `Quota` |
| Webhooks (`webhooks.rs`) | last levels | transitions | under the polls | `Polls`, `Health` |
| Agent and community status | a cache each | poll, ETag, filter | webhooks | `Health` |
| Statusline (`statusline/*`) | cache, temporary and lock file | one process per prompt | its own concurrent runs | `Statusline` |
| OAuth credentials (`oauth/*`) | keychain, credential files | read, refresh, write back | usage polls, Claude Code | `Tokens` |
| Chat archive (`archive/*`) | objects, manifests; web copies; imports | snapshot, prune, verify, restore; capture; import | server, extension, scrapers | `Archive`, `Captures`, `Imports` |
| Scheduler (`scheduler/*`) | crontab lines, launchd lists | install, uninstall, status | scanner | `Jobs` |
| Installers (`*/install.rs`, `install_json.rs`) | other programs' settings | install, uninstall | Claude, MCP clients | `Installers` |
| Blocks and quota analytics (`analytics/*`) | none | blocks, projections, suggestions, forecast | server, statusline, commands | `Blocks` |
| Pricing (`pricing*.rs`, `litellm.rs`) | catalogue rows, runs | lookup, cost, sync, repricing | scanner | `Prices`, `Official` |
| Reconciliation (`usage_monitor.rs`, `openai.rs`, `claude_admin.rs`) | runs and factors; caches | captures, polls | server | `Monitor`, `Official`, `Usage` |
| Reports (dashboard, commands, MCP tools, export) | none | queries, one after the other | database under scans | `Ledger` |
| Waste detectors (`optimizer/*`) | none | five detectors, a grade | database, settings | `Waste` |
| Classifier, web UI, apps, extension | their own | heuristics, presentation, clients | server | not modelled |

What is hard in it, and what correctness means:

* **Scans.** No statement of a scan is in a transaction, any number of processes
  may scan, and every process that opens the database rewrites `sessions`. At
  rest the tables must be a function of the transcripts, after whatever
  crashes, and scans must come to rest.
* **Rescan.** The database is replaced under processes that write to it, in two
  file-system steps. History it owes is never lost, every request ends.
* **Shared files.** Statusline runs, archive commands, captures and imports are
  processes that die between two file-system calls. No reader finds a torn file,
  locks of the dead are taken over, what was reported as saved is there.
* **Caches.** Handlers and background tasks read, await and write back. One poll
  an interval, no step back to older data, no failure over a good answer, no lock
  left behind, alerts that agree with what was observed.
* **Logins.** A refresh token may work once, and several processes hold it. As long as
  nothing was cut off, a store holds one the service takes.
* **Other people's files.** settings.json, mcp.json and the crontab are edited in
  place. What is the user's stays, what is ours is there once.
* **Sums and cuts.** The same turns are grouped, priced, cut into blocks and
  filtered by day in many places. The places must agree.

`PROJECT.json` lists the hazards line by line with the properties that cover them.

## 2. Modules

```
Scan <- MCScan, ScanFiles;  MCScan, ScanFiles <- MCScanFiles
ScanFiles <- ScanFilesProofs
Statusline <- MCStatusline, StatuslineProofs
Rescan <- MCRescan, RescanProofs
Polls <- LiveProviders <- MCLiveProviders, LiveProvidersProofs
Archive <- MCArchive, ArchiveProofs;  Archive implements Vault
Host   <- MCHost, HostProofs      Host   instantiates Captures, Imports, Watch, Installers, Jobs, Monitor
Shared <- MCShared, SharedProofs  Shared instantiates Tokens, Codex, Usage, Health, Quota
Rows   <- MCRows, RowsTerms;  RowsTerms <- RowsProofs
                                Rows   instantiates Ledger, Blocks, Sources, Prices, Official, Waste
```

`M <- N` reads "N extends M". MC modules hold the data of the instances, proof
modules the theorems. A definition introduced as "Mutated form" is a broken
variant of the one after it, kept to show that a property notices; no
specification uses it.

`Host`, `Shared` and `Rows` check several components in one run each. The components
of one such module share no state in the code either, so nothing is gained by
interleaving them: `part` says which one a behaviour is about, it never
changes, and the others' variables stay at one value. The variables `v1`, `v2`, ... are
the parts' variables in the order in which each part declares them. Each property
names its part, and each conjoins the part's type invariant. The three keep
every size a constant, so that what is proved of a part is proved of the composed
specification; `MCHost`, `MCShared` and `MCRows` give the constants their small values.

### The scan and its readers

**Scan.** State: `turns` (a count per file and record, so that a duplicate
shows), `sessions`, `invocations`, `toolEvents`, `processed`; the file system `fs`
with mtimes; one program counter and to-do list per process. One action is one
SQL statement or file-system call, in the order of `scan()`. Openers are
processes that only run `init_db`. `Crash` stops a scanner between any two statements.
The pure part, from the lines of a transcript to turns, session spans, titles and
the division of a cost over tools, is a set of operators.

**ScanFiles.** What the tables at rest owe to the files: the exact turns, sessions and
tool costs of a file whose records no other file has, the marks of stored rows, and
what remains of them for files that share messages.

**Sources.** The same scan loop over the logs of Codex, Pi, Amp, OpenCode,
Cursor or Copilot, with the parser of each as a loop over its records
(`CodexCount`, ...), logs that grow side by side in the middle of a scan, crashes, sessions that
move to Codex's archive, a new database, and Cursor's sidecar with a freshness test of its own.
An id is a pair of the file that made it and a number, or of 0 and a number where the id is the same
in every file: the `line-N` of Codex and the messages of OpenCode. `hidden` remembers the turns that
the unique index dropped because a row of another file had their id (scanner/db.rs:466).

**Watch.** Notifications are tokens in a channel; the thread waits, drains a
window, calls back; the callback scans and may fail; `Drop` disconnects and `Join` waits.

**Ledger.** `turns`, `cost` and stored session totals while scans insert and
delete file by file and a repricing goes turn by turn; a report (dashboard,
today, stats, weekly, provider page, MCP summary, heatmap, export) is a list of
sections, each one statement that reads the state of its moment. Days are
cut in UTC or in the client's time zone, with the parameters bound by position as the code does it.

**Blocks.** The turns cut into blocks with gaps, and from them the projections, the rolling
hour, quotas, suggestions, envelope and forecast, in rounded integer
arithmetic; and the views of the block table, the endpoint, the live snapshot
and the statusline, with the session length each of them settles on.

**Prices, Official.** `Prices` has the lookup of a scan (`LookupPricing`: overrides, exact name,
longest prefix, family, LiteLLM) and that of a sync (`LookupCatalog`: its catalogue only, any prefix
that fits, a list of models per family), the tiered cost, a sync of the price pages (`Diff`,
`RepriceTurn`, ...) with failures, crashes and scans in between. `Official` has the other
sources of a sync: each is read in turn, its run and its records are inserted
statement by statement, and the summary counts.

**Waste.** Five detectors in sequence over tool events that scans add to, and the grade.

### The files

**Statusline.** The lock (its creator and whether the PID is in it), the inodes
that `tmp` and `cache` name, what is in each, a program counter per PID, the
clock in seconds, the transcripts' versions. One action is one file-system call.

**Rescan.** The inodes that the database and its temporary name stand for, the
rows in each, the lock, each request's stage, each writer's open connection. One action
is one step of the handler; `Fail` at each `?` of api.rs:606-611 and of
`preserve_runtime_history`, `BreakOff` where the swap itself fails after it has removed the live
database (api.rs:2116-2117); `Disconnect` drops the handler's
future and the lock, while the blocking task goes on; `Crash` ends the server. `owed`
is a history variable: the committed rows that reached the live database before a rescan had passed their table;
`torn` says that a swap was broken off or fell to a crash.

**Archive, Vault.** `Archive` has the object store, the staging and final
directories of each snapshot with their two files, the flock, and processes that
snapshot, prune and restore one call at a time and die anywhere. `Vault` is what this is for: a
shelf on which snapshots appear whole and newer than the rest, stay as they are, and leave whole.
`V == INSTANCE Vault WITH shelf <- ...` maps the archive to it: on the shelf
stands what a restore would write now, that is, the entries of a readable
manifest whose objects are there. `ShelfKept` is the refinement.

**Captures, Imports.** The current copy, the history and the temporary file of each
web conversation under requests and runs that write many, among them the
reader of the ChatGPT cache with its counts. A copy carries the time its maker gives it, and
two may carry the same. And the import folder, whose watcher
receives events, waits, opens the ZIP (whole, or not yet), copies it by its path, parses what it has open
and writes, each call of which may fail (`IoFails`).

**Installers, Jobs.** A command that reads another program's JSON, copies it,
empties it and writes it, dying between any two; and a command that installs or removes
one job or two in the crontab or at launchd, each step of which may fail: a listing that fails
reads as an empty crontab, a death may cut the text that `crontab -` reads (`WriteCut`), and a job that
launchd would not unload loses its list all the same (`BootoutFails`). The crontab is a
sequence of lines, so that a block's end is found the way the code finds it.

### Services and caches

**Polls, LiveProviders.** `Polls` is the shape of `refresh_usage_windows_with`
(server/api.rs:641-715): look, lock and look again, fetch, notify, store the answer
or the last good one. `LiveProviders` extends it with the response cache and
`load_snapshots_with_fetcher`: stale reads that spawn tasks, forced refreshes, the
merge of an answer for one provider, failures and dropped requests. The data is
the *version* of the service that a fetch has seen.

**Usage.** The two caches behind the Claude usage, the windows and the admin
analytics, each under its own lock, filled by background loops and requests, and the
source a snapshot names.

**Health.** The official poll with its ETag, the crowd's poll, the caches and locks of both,
and the alerts that either may send.

**Tokens, Codex.** Processes that read a login from the keychain or a file, refresh
it, and write it back, with answers and writes lost; and one poll of Codex
over app-server, OAuth and terminal client, whose app-server uses the same login.

**Quota.** Background tasks that count, estimate a cap and store a row unless
a recent one says the same; the usage-limits files, which a scan reads and stores one
by one; the smoothing of the caps.

**Monitor.** Overlapping captures that insert a run and its factors, and the
dashboard's choice of the newest run that succeeded.

## 3. What the runs show

| Run | Instance | Shows |
|---|---|---|
| `scan_files` | 1 scanner, 2 files of 2-3 contents, 4 edits; "own" files are rewritten and removed while no scan dies, "shared" ones only grow while up to 2 scans die | the tables at rest are a function of the files; the next scan repairs what a dead one left; scans converge |
| `scan_concurrent` | 2 scanners, 1 opener, 2 edits (a removal included), 1 crash | totals are exact when all are done |
| `statusline_alone` | 1 run at a time, 2 sessions, 1 kill | whole cache, current lines, dead locks taken over |
| `statusline_overlap` | 2 runs at a time, PIDs reused, 1 kill | the lock is always released, every run ends |
| `rescan_swap` | 2 request slots, 2 requests, 1 writer, an event row and a quota row, 1 crash, 1 hang-up | owed history is kept unless a swap is broken off or a client hangs up, every request ends |
| `live_providers` | 3 requests with a background task each, 3 versions, 1 hang-up | one poll an interval, monotone answers, true forced refreshes and webhooks, nobody stuck |
| `archive` | 2 processes, 2 files, 2 contents, 2 snapshots, 1 edit, crashes anywhere | `VerifyClean`, `RestoredTrue`; `Archive` implements `Vault`, and a finished prune leaves no garbage |
| `host` | web: 2 conversations, 2 payloads, 2 times, 3 captures, 3 cache files; exports: 3 ZIPs, 3 events, 3 imports; watch: 3 changes; hooks: 2 builds, 4 commands; jobs: 2 builds, 3 commands, a line of the user's; monitor: 2 captures, 3 runs | the six properties of what surrounds the database |
| `shared` | claude: 2 processes, 4 tokens; codex: 2 polls, 2 app-servers; usage: a request beside the loops; status: one poller and one asker, both or one provider; quota: 2 tasks, 1 sweep | the four properties of what several tasks write |
| `rows` | ledger: 4 turns in 2 files, 2 zones; blocks: up to 4 turns, times 0 to 8; sources: 3 paths, one of them in the archive, 6 kinds, 3 records; prices: 3 runs, 2 turns; official: 4 runs; waste: 3 events | the seven properties of stored and computed rows |
| `history_tz` | the ledger of `rows` | **violation** of `HistoryAddsUp` |
| `jobs_others` | the jobs of `host`, with listings and writes that succeed | **violation** of `OthersStay` |

The properties of the composed runs:

* `IntakeKept`: a copy reported as saved is current or in the history, unless a saved copy of
  the same time has taken its file; the current
  copy is never torn, the counts of a cache import add up, a listed import has each
  of its conversations or a warning for it. `DownloadsImported`, `WatcherServes`: liveness, below.
* `InstallsSafe`: one entry each; a torn file has a copy; the user's own server is
  not replaced. `JobsSound`: one entry a job, whole unless a death cut it; what launchd has loaded is
  listed unless launchd would not unload it; a job whose last install ended well runs that build
  and no other, in the crontab as at launchd.
* `SnapshotOwn`: the factors shown are those of one command, in order.
* `LoginsKept`: a live refresh token is stored whenever nothing was cut off and no one is
  between answer and write; a Codex answer agrees with its trace.
* `GoodUsageStays`, `HealthTrue`, `QuotaTrue`: once a caller was answered with the usage of the
  login, nobody is answered without usage again, from either cache, after failures, waits, hang-ups and
  at start-up; alerts told are the transitions seen; the history follows readings and
  a smoothed cap lies between those it is made of.
* `LedgerAddsUp`: the sections of one answer account for the same turns once. It
  excuses answers read while something was written and turns without session row.
* `BlocksSound`: blocks partition the turns, rows tile the time, one block is
  active, and all views, the statusline after a pause included, show the same.
* `SourcesStored`: marked logs are stored as they mean, but for turns that the unique index hides,
  and those are only Codex usage outside a turn and OpenCode messages; the files it excuses
  are listed in the module. `RepricedWhole`: a sync that found a change leaves each turn it met with the
  price its own catalogue gives it. `FailureKeepsPrices`, `SyncReported`, `WasteTrue`: see the modules.

The bounds are chosen for the situations, not for size. Two scanners and one
opener suffice for each pair of statements to meet; two edits a file let it be seen
old, new and changed between its stat and its read; two crashes let a repair be
interrupted; two processes suffice to steal each other's lock or token, and a third
token lets the loser's stale one be refused. Two snapshots and a prune that keeps one
let an object be shared, orphaned and stored anew. Three versions let an alarm
go on and off; one tick with a lifetime of one lets every entry expire once. Four
installer commands are install, reinstall by another build, removal and one
more, three job commands the first three of these. Three captures with two times let a later copy take the time
of an earlier one. Three paths of logs let two sessions of Codex grow, repeat each other's `line-N` and one of them move
to the archive. Two priced turns let a sync die between them. Times up to eight with sessions of three and four leave room for a turn at the
very end of a block and for a pause. Three runs of a price page are good, failed, good.

Where a bound uses requests, commands or runs up the system stops, so these runs do not look for deadlocks;
the liveness properties and `NobodyStuck` do instead.

Every passing property has a mutant in `PROJECT.json`, a plausible bug in one
definition which the property catches in the same run.

### Findings

Each is a run that TLC must find violated.

1. `history_tz`. `get_provider_daily_cost_history_since_tz` puts the expression
   for a day, which holds a bound parameter when the client is not in UTC, into SELECT and
   into WHERE, and binds the values in the order provider, offset, offset, start
   (scanner/db.rs:3281). The provider ends up as an offset and the offset as
   a provider: outside UTC a provider's daily history is empty beside a total that is not.
   tz.rs:30 says which value the caller must bind there.
2. `jobs_others`. `remove_heimdall_entries_for_job` (scheduler/cron.rs:190)
   skips from a job's tag to the next blank line, so entries that follow the
   block directly are removed with it: a line the user appended, or the other job's
   block. cron.rs:211 promises that unrelated entries stay byte for byte.

### Known divergences

Statements of the repository that the model refutes as well. Most are definitions of
the modules named here; a configuration with the one named as INVARIANT (or PROPERTY)
shows it.

* `Scan!LastRecordWins` (one file, one crash): a scan dies after it stored the
  first record of a streamed message and before the mark; the next takes the
  file for new, deletes nothing, and `INSERT OR IGNORE` keeps the old record for good.
  SPEC.md:66 promises the last one.
* `Scan!SessionsMatchTurns` with an opener: another process's `init_db` deletes the session
  that a scan has just upserted and not yet given a turn; no later scan of the unchanged file
  restores it.
* `Statusline!CacheWhole` with two runs at a time: the lock file exists before its PID is
  in it; a second run takes it for stale, and both write the one temporary file,
  which cache.rs:56 says is there so that readers never see a partial entry.
* `Rescan!OwedKept` with a hang-up: the lock belongs to the handler's future, the rescan
  outlives it in `spawn_blocking`; two rescans then share one temporary file
  (api.rs:599). Without one, a crash between removal and rename loses the history, and so does
  a plain error there: `replace_sqlite_files` removes the live database and only then its sidecars and
  renames (api.rs:2116-2117), and a failure of either leaves no database. The comment at 604 says
  "Atomic rescan".
* `Captures!SavedStays`: `captured_at` is the client's, and the history has one file per
  time; a rotation onto a taken time overwrites a copy that was reported as saved
  (archive/web/mod.rs:99-100; the head of the file says that the previous file is rotated into
  the history).
* `Sources!NothingHidden`: usage that Codex writes outside of a turn is called `line-N` in every file
  (codex.rs:278-280), and OpenCode's messages go by their bare id although
  opencode.rs:19 promises `{session_id}:{message_id}`; with ids unique per provider and
  `INSERT OR IGNORE`, the second session's turn is dropped, and no later scan of the unchanged
  file brings it back.
* `Prices!BestAlways`: a sync that finds a change reprices every turn from its catalogue
  alone. That lookup (pricing.rs:363-446) passes over the user's overrides, takes any prefix that fits
  in the order of a hash map, and knows no LiteLLM, while regressions/pricing-fallback-claude.md:33-34
  lets an override win "against everything below it" and line 71 wants the longer prefix.
* `Usage!AnyStays`: at start-up a poll that has met a failure of the admin analytics may store it
  after a request was shown their data.
* `Rescan!SnapshotsWhole`: `merge_live_db` copies six columns of `rate_window_history`; the
  others get defaults, so Codex snapshots become Claude's (scanner/db.rs:4424).
* `Health!SpikeLeads` with both providers polled and two ticks: an answer with one
  provider replaces the cache of both, and a spike of the other is told although its page
  is at major (api.rs:1528-1537; 2261 says it fires only below).
* `Sources!FreshMeansStored`: Cursor's sidecar is saved before the rows are, so after a crash
  it calls a workspace fresh that the database does not have (cursor.rs:185).
* `Tokens!OthersKept`: the file is read after the refresh and written by truncation, so a process that
  reads it while another writes takes it for empty and drops the other sections
  (oauth/credentials.rs:667 "Preserves any other top-level keys").
* `Usage!AdminHasData`: the admin analytics are named as the source when their poll failed (claude.rs:120).
* `Archive!ListedShown`: the two names of a snapshot are promoted one by one, and list shows
  one that died between them (archive/mod.rs:118).
* `Captures!CurrentWhole` and `NothingLost` with two writers at one conversation: both use its one
  temporary file, so one renames what the other has just emptied and is told that it is saved
  (archive/web/mod.rs:104 "Atomic write: tmp → rename"). The server runs requests of the
  companion side by side, and beside commands, without a lock.
* `Tokens!GrantKept` with `Rotates = FALSE` and two processes: one reads the file that the other has
  emptied, takes it for an empty object and stores a login without refresh token.
* `Captures!Idempotent`: a copy whose payload is the stored one may still rotate it
  (macos_cache.rs:33).
* `Waste!RereadsAreReads`: the detector counts every tool event of kind `file`, edits too
  (optimizer/reread.rs:3).

Where the repository promises nothing, the models follow the code: an `original.zip` may be a
copy of a file that was itself cut short, for `fs::copy` of such a file succeeds
(imports/storage.rs:47-51); `metadata.json` is written in place, and one that is torn makes
`list_imports` fail for all of them (imports/mod.rs:121); an export nested in a directory is taken for
OpenAI's by detect.rs:46 and then refused by its parser (imports/openai.rs:83). A job that launchd does not unload loses
its list, and a later uninstall finds no list and does nothing (launchd.rs:200-217); a death between
the start of `crontab -` and the end of its input leaves a crontab cut short (cron.rs:110-117); and any
failure of `crontab -l` reads as an empty crontab, which is then written back (cron.rs:95-99). Further: two scanners may store a turn without a
message id twice, and a stale listing may remove a file another scanner has just stored; a message
shared by two files can split its tool rows after a crash, and is lost with
the file that owns it; an answer for one live provider renews the time of the whole cache entry
(cache.rs:43); a forced refresh of one provider that had to wait returns whatever is cached (mod.rs:202).

### Fairness

`Scan`: weak fairness of each scanner's next statement, and scans keep being
started (watcher, background poll, next command). `Statusline`: each running process
goes on, and the attempts for the lock are bounded by its timeout. `Rescan`: each request
that holds or can get the lock goes on. `Imports`: the watcher's loop goes on. `Watch`: its
thread goes on, and so does whoever has dropped the handle and waits. Nothing is assumed of
agents, writers, browsers, clocks, crashes or hang-ups. `LiveProviders` states progress as
an invariant: while a request is unfinished some task can go on. A request is
made once and its steps only go forward, so with tasks that are scheduled this is
enough for each to end.

## 4. What is proved

All for arbitrary constants under the named assumptions of the modules (the bounds are
naturals, `None` is none of the values, processes of different kinds are different).

* **ScanFilesProofs**, of the scan itself: `TypeCorrect`; `TotalsAlwaysExact`: whatever scanners, openers and crashes do,
  session totals are exact when nothing runs. The invariant (`TotalsInv`) says that a session row
  may be stale only while a process that has touched the tables still owes its
  recomputation; a dead scanner owes it until its own next start, which recomputes on opening.
* **StatuslineProofs.** `StatuslineTypes`. `SerialCacheWhole`: with one run at a time the cache
  file is whole, however many runs are killed; the invariant (`SerialInv`) follows the
  temporary file from creation to rename and says that nobody else has it open.
  `LockAlwaysReleased`: with nothing running and nothing killed there is no lock file, for any
  number of runs that overlap and steal; the invariant (`HeldInv`) says that the creator
  of a lock file is at a stage from which it will release it.
* **RescanProofs.** `RescanTypes`. `RescanKeepsHistory`: until a client hangs up or a swap is
  broken off, by an error or a crash, once the live database is removed, owed history is kept, wherever else a
  rescan fails. The invariant (`RescanInv`) adds that a working rescan
  holds the lock (`Exclusive`), nobody else has the temporary file open (`TempPrivate`), a merge
  has copied all owed rows of the tables it passed (`MergeSound`), and by the swap all of them
  (`SwapReady`); and that what a merge passes over, the rows of a source that the transcripts restore, is not owed
  (`OwedLive`).
* **ScanFilesProofs**, of what the tables owe the files: for files that share no message, one scanner that is not killed, and any number
  of openers and edits. `OneScannerExact`: when nothing runs and every file is marked with its mtime, the
  table holds each turn of the files once and nothing else. `OneScannerMarks`: a file without a mark
  has rows only while the scanner is at it. The invariant (`OwnInv`) follows one file through
  look-up, deletion, insertion and mark, beside the files that may change under it.
  `OneScannerMessages`: the scanner may also die at any statement, and two files may hold the same
  message, but files only grow; then each message of the files has one row at rest. The invariant
  (`GrowthInv`) is that a message of a file which no row holds is still owed: the file's mark is
  not its mtime, or the scan is at the file and has yet to insert it. That no message has two
  rows (`StoredOnce`) is proved for any processes.
  `OneScannerCosts`: at rest, each tool call of a stored turn has its event, the events of a turn
  add up to its cost to the last unit, and no event is left of a turn that is not stored. The invariant (`EventsInv`) says that the events of each file are those of the same turns as its rows at every
  statement; it asks that no tool call is in two own files or twice in one (`OwnToolsAssumption`). That the shares of
  a divided cost add up, the remainder going to the first call, is proved by counting (`CostsOf`,
  `SharesAddUp`).
  `SessionsStayTrue`: a session is listed exactly if it has turns, its window holds them, and its
  title is that of the transcript. It asks for one process at a time, since an opener that prunes
  between the two statements of a scan deletes the row just written, and for each session in one file
  (`SessionsApart`), since of two files with the same session the later overwrites the window.
* **LiveProvidersProofs.** `LiveProvidersPoll`: the live providers implement the polls (each step
  is a step of `PollNext` or leaves the polls alone), so what is proved of the polls holds for
  them. `LivePollsApart`, `LiveAnswersAdvance`, `LiveLastWebhookTrue`, from the invariant
  `PollInv`: the poller holds the lock, the cache holds the newest answer ever given, an answer
  in hand is no older than that, and the webhook has looked at nothing newer.
  `LiveAnswersNew`: what a request shows is no older than what was shown before it was made, and a
  forced refresh of all providers answers with something fetched since; the invariant adds, for each
  task, what its snapshots must be by its stage.
* **ArchiveProofs.** `ArchiveTypes`; `VerifyAlwaysClean`: whatever snapshots, prunes and restores do
  and wherever they die, every object a listed snapshot names is stored. `RestoresTrue`: a finished
  restore has written what its snapshot held. `ArchiveKeepsShelf`: the refinement of `Vault`, that is,
  each step puts one whole, newer snapshot on the shelf, removes one or leaves the shelf as it is.
  The invariant says that only the holder of the flock works, that what it has copied is in the store,
  that a sweep spares every object a listed manifest names, and that a staging directory becomes
  final only with its manifest.
* **HostProofs.** `IntakeHolds`: for any number of writers and conversations, `IntakeKept` holds as
  long as no two writers are at the same conversation at once (`WritersApart`); `OneWriterKeeps`: with
  one writer it holds without a condition. The condition is needed: the temporary file of a
  conversation has one name, and with two writers at one conversation TLC finds a torn current copy and a
  copy that was reported as saved and is nowhere. The code takes no lock; the run `host` has
  one writer. The invariants
  (`Captures!Inv`, `Imports!Inv`) say where the previous copy is at each stage of a write, that
  every file of the history is a saved copy under its own time, so that only a saved copy of the same
  time can take its place, that counts add up to the attempts made, and that of the import under way each
  conversation is written, warned about or still to write, whatever call has failed.
  `SnapshotsStayOwn`: for any number of commands and readers of the monitor, the factors on show
  are those of one command's output, in order. `InstallsStaySafe` and `JobsStaySound`: for any number
  of commands, the settings files keep one entry each and what is the user's own, and a job whose last
  install ended well runs that build and no other; what launchd has loaded has its list, except a job it would
  not unload, and the crontab has one entry a job, except one whose command a death cut off. In the crontab
  the invariant (`Jobs!Inv`) says that a tag is never parted from its command: what the removal of one
  job, a fold over lines, takes of another it takes whole (that it may take what follows directly is
  finding 2). What these folds and filters do for input of any length is proved with the least
  number principle: a fact of a recursive function that fails somewhere fails at a least place
  (`LeastNumber`, `Iteration`, `KeptAlong`, `KeptByIteration`).
* **SharedProofs.** `LoginsStayKept`: for any number of processes, `LoginsKept` holds provided that the
  service takes each refresh token once (`Rotates`). If old tokens keep working, two processes
  can both refresh, one may read the file that the other has just emptied, and it then writes a
  login without a refresh token: TLC finds that trace with `Rotates = FALSE`. `AlertsStayTrue`:
  the alerts told are the transitions that the polls saw. `GoodUsageIsKept`: once the usage of the
  login was shown to anyone, no caller is answered without usage, from whichever cache, after any failures,
  waits and hang-ups; `Usage!Inv` says that what was shown of the login is in the cache, and is there only where
  the login may be used. The other invariants (`Tokens!Inv`, `Codex!Inv`,
  `Health!Inv`) say who may hold the live token at which stage, what the file of each login may
  be, and what the holder of each poll lock has in hand. `QuotaStaysTrue`: for any tasks, scans, files and
  histories, the quota history follows what was observed and the smoothed caps are sound. The invariant
  (`Quota!Inv`) is about the steps: a task inserts a row about the window it looked at, and each cap in the
  table comes from at least a turn, with a confidence the estimator can give. Any history whose rows are
  like that smooths well (`EmaBetween`, `Rounded`): the mean lies between the least and the greatest
  cap. For a shift it takes more, since the dashboard rounds to whole tokens: the new cap
  is weighed by at most 300, each older row by 48 or more, so a smoothed cap trails the new one by a token
  if that is of 26 tokens or more (`ShiftTrails`). The theorem therefore asks that a turn counts 26 tokens, which
  is less than any prompt; with a cap of a few tokens the smoothed value can be rounded onto the new one.
* **RowsProofs**, in the terms of `RowsTerms`. `ReportsAddUp`: for any files, turns, prices, zones and queries, a report read while
  nothing is written accounts for the same turns in each of its sections, whatever scans, crashes and
  repricings came before. That is two arguments. One is over the steps (`Ledger!Inv`): while nothing is
  written, each section that a report has read is what its statement would give now, and once the report
  has opened the database the sessions store the totals of their turns. The
  other is arithmetic: the sum over a set of turns is that of its classes under any key (`SumByClass`,
  from `SumRemoves` and the induction over finite sets `SetInduction`), so grouping by day, provider,
  model or session loses and doubles nothing. `TurnsRepriced` and
  `FailuresKeepPrices`: for any table of prices, pages and turns, a sync that found a change leaves
  every turn that it met when it began to reprice with its version and the price its own catalogue gives
  the turn's name (which need not be the best one: see `BestAlways`), a turn that no sync has priced
  has the price that fits its name best, and no failed page takes a price away. The
  invariant (`Prices!Inv`) says, for a sync at each stage, which turns are repriced and that the
  catalogue in hand is the newest stored one; that a turn never gets cheaper by one more token is
  arithmetic on rounded division. `SyncsReportTrue`: for any sources, pages and number of syncs, a finished sync has
  counted what it stored. The invariant (`Official!Inv`) balances the books at each statement: what is
  counted is what was inserted, plus what waits in the list in hand; and whatever a page says, a run that
  is called a success has records. `WasteStaysTrue`: scans fall between the five detectors and yet the report
  blames nothing that was in use before it began, as what was read then only grows (`Waste!Inv`).
  `LogsStayStored`: for any paths, providers and logs of any length, several sessions growing side by
  side, when every log of the other providers is
  marked at its mtime, the table holds exactly the rows the logs mean, excused files aside, less the turns
  that the unique index hides, and those are only Codex usage outside a turn and OpenCode messages; each log is
  parsed as its format means. The invariant (`Sources!Inv`): a mark is a time that was, so a
  file that was written to since it was looked at cannot pass for read (`Times`). A file that no scan is at has its
  rows if it has the mark of its time, and none without a mark (`AtRest`). The file a scan is at has its old rows
  deleted, its turns read and stored, in this order (`UnderWay`). A sidecar is saved only for what is about to be
  stored (`SidecarKept`). No two logs hold records of one origin (`Apart`), and the rows of a file have ids of
  its own log or, until they are swept, of a log that moved away (`RowsFrom`); so an id that names its file meets no
  row of another, and only the others can be hidden (`HiddenKept`). A Codex session only moves up in the order
  of the scan, into an archive that does not change (`Still`), so the sweep takes the rows of the old path before
  the new one is read. What a parser has read after n lines
  is proved by the least number principle (`UpTo`): for Codex, that each turn has the last
  count that fell to it (`CodexUsage`).
  `BlocksAreTurns`: if no session length is shorter than an hour (`LongEnough`; a shorter session may end before
  its first turn), the blocks are the turns for any turns, limits and lengths, and every view, the statusline after
  a pause included, follows from them. The argument follows the cut turn by turn (`CutOf`): each block
  holds the turns between its opener and its end, so turns and tokens add up over the blocks.
* **StatuslineProofs** also has `SoloNeverStub` and `SoloLineCurrent`: with one run at a time (for the first,
  with PIDs that are not reused) no run prints the stub, for it recognises the lock of a killed one as
  stale, and a cached line that would be served was computed from the transcript as it is.

What the composed modules ask of their parts' sizes (`CapturesAssumption`, `TokensAssumption`,
`HealthBounds`, `QuotaAssumption`, `LedgerAssumption`, `SourcesAssumption`, `PricesAssumption`, `OfficialAssumption`, ...) is an operator of
the part, assumed by name in `Host`, `Shared` and `Rows` (`Instances`); TLC evaluates it in each run.

Only model-checked:

* liveness and `NobodyStuck`, which are about fairness or `ENABLED`.

`OwnTurnsExact`, `OwnRowsMarked`, `OwnToolCosts`, `MessagesOnce` and `SessionsTrue` are checked, and proved, with one scanner.

## 5. What is not modelled, and the plan

Left out for good: text formats, rendering, HTTP and subprocess clients, argument parsing,
presentation. SQLite is taken to execute one statement atomically; a database and its `-wal`
and `-shm` files are one inode. The classifier and one-shot detector are heuristics over words
without a stated property. The apps and the extension are clients in other languages; their
effects on the server are actions of `Captures` and requests of `LiveProviders`.

Left for later:

1. The cost threshold of the webhooks across midnight; the OpenAI poll, which repeats `Polls`.
2. Migrations of old schemas; pairs of rows in `Rescan` (a usage run and its factors).
3. The text index of the archive and the companion's token; currency conversion.
4. Billing blocks of sessions shorter than an hour: neither the run nor `BlocksAreTurns` has them.
