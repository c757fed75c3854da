# DBAgent-Java: TLA+ models, model checking and proofs

This directory specifies the parts of DBAgent (`src/src/main`, a Spring Boot
monitor for Oracle and other databases, with its browser pages) in which the
order of steps decides whether the program is right. On the server: caches
shared by requests, queries shared by viewers, watermarks, pools that are evicted
while they are used, re-encryption at start, and statements without a
transaction. In the browser: answers that come late, polling chains that are
stopped and started in the middle of a request, selections that outlive the
list they were made in, and KILLs that are confirmed about one thing and sent
about another. SQL text, JSON and layout are left out.

Contents: [the system](#the-system) · [modules](#modules-and-how-they-correspond-to-the-code) ·
[runs](#runs-and-bounds) · [fairness](#fairness) · [deviations](#deviations-of-the-code-from-its-own-comments) ·
[proofs](#proofs) · [what is not modelled](#what-is-not-modelled) · [plan](#plan)

Java paths are relative to `src/src/main/java/com/dbagent/`, pages and scripts to
`src/src/main/resources/static/`.

## The system

| Component | State it keeps | Operations | Talks to | What is hard |
|---|---|---|---|---|
| Lock monitor (`monitor/LockRealtimeService`) | per database: cached snapshot, in-flight future, ten-minute trend, minute summary | `realtime`, `query` and its callback, `killTmHolders`, `record`, `flushFinishedMinutes` | pools, monitoring store, target database | viewers share one query; KILL against a query in flight; callback inside `computeIfAbsent`; SIDs are reused; a minute ends during a query |
| Instance sampler (`monitor/InstanceMetricSamplerService`) | `ashWatermark` per database, clock offsets, known SQL texts | `sampleAll`, `sampleNowAsync`, `backfill`, `recordIfPresent` | pools, metric history, perf store | failed scans, restarts of either side, back-fill beside the periodic sample |
| Connection pools (`oracle/OracleConnectionPoolManager`, `rdb/RdbConnectionPoolManager`) | `pools`, `failedPools`, `poolLocks` by key | `getConnection`, `evictPoolsForDbId` | everyone who queries a target; `DbConfigAdminController` | double-checked creation against eviction; cooldown |
| Configuration store (`oracle/DatabaseConfigService`, `security/CredentialCipher`, `security/MasterKeyProvider`) | `db_instances`, the import flag, the key file | `init` (import, re-encryption), `createInstance`, `updateInstance`, `deleteInstance` | H2, key file, every reader of the list | crash between any two steps of a start; key rotation, loss, roll-back |
| Accounts (`auth/AuthService`, `auth/UserController`) | `users`, `sessions` | `login`, `sessionForToken`, `changePassword`, `createUser`, `updateUser`, `deleteUser`, clean-up, `init` | H2 | several statements per call and no transaction; expiry |
| Current Session (`app.js` 1700–2990) | list with ticks, refresh chain, two ASH charts with their chain | refresh, toggle, range, KILL, sort | `/sessions`, `/ash` endpoints | late answers, timers of older generations, a toggle put off by 100 ms |
| Instance dashboard (`nd-dashboard.js`, `nd-lock.js`, `nd-aas.js`, `nd-top.js`, `nd-checks.js`) | generation, two loops, last lock answer, kill panel, chart with its selected window, lists, drawer, cards of the checks | `reset`, `run`, `refreshNow`, hooks, kill, drag and click in the chart | `/api/dashboard` | loops that die or go on, SIDs that return, selections remade each minute |
| Monitor panels (`app.js` 1400–1700, 3740–4190) | tablespaces, TM lock tree with its loop, overview of the instance with widgets and label | fetch, toggle, tick and KILL, incident KILL | monitoring endpoints | widgets painted for another database, a time limit that ends with the headers, KILLs about rows of one database sent to another, a loop that survives errors |
| Performance analysis (`perf-analysis.js`) | range, chart, events below it | search, drag, reset of another database | `/perf` endpoints | two requests and one overlay |
| RDB session views (`rdb-session-views.js`) | tabs, list with ticks, lock tree, dialog | reload, tick, confirm, KILL | `/rdb` endpoints | cycles of waits; loads below an open dialog |
| AI pages (`app.js` 4840–6170) | per page one request; bind fields; plan, analysis and follow-up context; tables of the writer; lines of an answer | run, fold, capture, check, analyse, ask again, hand over, add a table | assistant endpoints | text, plan and context that come from different answers; key and button |
| Console page (`app.js` 1–960, `account-mgmt.html`, `fleet-overview.html`) | remembered rights, menus, instance tree, first selection | login, check, configuration, logout, edit of an account | auth and configuration endpoints | rights remembered, told and changed in any order |
| SQL statistics, checks, stores, scheduling, query services, assistant back-end | see `PROJECT.json` | collectors, purges, reads | | see [what is not modelled](#what-is-not-modelled) |

What makes each of the modelled components right:

* Lock monitor: one query per database at a time; an answer is no older than
  the cache window or one query; every viewer is answered; a KILL hits only a
  user session that was asked for and that the re-query of that call still
  found, and is never without a trace; a stored minute is finished, was
  measured, and reaches the store.
* Sampler: no second between two watermarks is left out; a minute is averaged
  from all of its samples or none.
* Pools: one live pool per key; no closed pool stays in the map; no lock is
  held for ever.
* Configuration store: a password never changes its meaning, whatever crashes,
  rotations and edits do; what can be read ends under the active key, so that
  the old key can be dropped.
* Accounts: a finished deletion revokes; the administrator stays; a session is
  deleted by time only once it is refused.
* Every page: what stands under the name of a database is of that database; what
  is ticked was ticked by the user and is still listed; a KILL goes where, and
  to whom, the user was shown; each polling chain exists once while it should and
  not otherwise; spinners, rounds and loops end or go on.
* Console: nothing before the server has said who it is; only granted
  instances; no right is given by what an earlier account left behind.

`PROJECT.json` lists every component with its status, and forty hazards with
their lines and the properties that watch them. Further hazards that no property
watches: LockRealtimeService:108 (second query after an expired entry) and 455
(crash between KILL and audit row); InstanceMetricSamplerService:139, 349, 351,
398 and 506 (extra sample, ids after a restart, double counting, two scans with
one watermark, the cache of SQL texts); OracleConnectionPoolManager:97 and 108
(a failure recorded after eviction, keys that share a prefix);
RdbConnectionPoolManager:73 (an exhausted pool starts the cooldown);
DatabaseConfigService:446 and CredentialCipher:105 (a row that cannot be read);
MasterKeyProvider:207; AuthService:144 and 298; CheckCollector:164 and 347;
PerfStoreService:195 (cutoff in UTC against wall-clock minutes).

## Modules and how they correspond to the code

Each module is parameterised by CONSTANTS with named assumptions. An `MC*`
module only adds the values TLC needs. Operators whose comment begins with
"Mutant" are broken variants of the definition after them; no specification uses
them. They exist to show that a property notices such a change.

### Server

**LockRealtime** (`LockRealtimeService.realtime`, `inFlightFor`, `query`,
`killTmHolders`). `cache` and `inFlight` are the two maps at the key of the
database; a future is named by the viewer who submitted it. `binOwner` is the
thread inside `computeIfAbsent`'s mapping function: the other threads wait for
it, as `ConcurrentHashMap` makes them. `Realtime` reads the cache;
`JoinInFlight`, `Submit`, `Install` are the outcomes of `computeIfAbsent`;
`BeginQuery`, `ReadHolders`, `QueryFails`, `PutCache`, `Complete`,
`RemoveInFlight` are the task and its callback. With `FastTask` a task may be
complete before `whenComplete` is called (`InstallLate`): the `remove` then runs
in the submitting thread inside `computeIfAbsent`. Java 8 either finds nothing
to remove, and installs a finished future afterwards, or spins on the
reservation node. `KillCall` … `KillFinally` are `killTmHolders`: the list of the request, the
re-query, one KILL and one audit row per session with one retry, and the
`finally` that invalidates the cache. Sessions of the target database live
their own life (`SessionStep`), and a SID may be given to another session.
`announced` is a history variable.

**LockMinute** (`record`, `flushFinishedMinutes`, `saveSummary`, `MERGE` into
`mon_lock_sample`; its time is `clock`). One of the maxima stands for all. Because LockRealtime shows
that at most one query runs, there is one `query`. `record` files it under the
minute in which it began. `seen` and `lost` are history variables.

**AshSampler** (`sampleAll`, `sampleOne`, `sampleAsh`, `collectPerf`,
`recordIfPresent`, `sampleNowAsync`, `backfill`). A sample of
`v$active_session_history` is the second it was taken in. `mark` is
`ashWatermark.get(id)`, a `sample_id`; sample ids begin again when the instance
restarts (`base`). A periodic sample reads the watermark and the last id, scans
the categories, scans the perf rows, moves the watermark and records; each
step may fail as in the code, and takes as long as it likes: the latest id and the user names are read without a
time limit (469–477), and the SQL texts take up to thirty times three seconds. The back-fill computes its range, scans, checks
which minutes have a value, records, and does the same for the perf rows.
`promised` (history) collects the seconds between successive watermarks (`Promise`),
less those whose write failed, that a restart cut off, or that the deviations name.

**ConnectionPool** (`getConnection`, `checkCooldown`, `createPool`,
`evictPoolsForDbId`, `updateDbConfig`). A thread resolves a revision of the
entry and then goes through the cooldown, the two look-ups, the lock, the
creation and the borrowing, one step per access to a shared map. An
administrator commits a new revision, which may keep or change the pool key,
and evicts key by key: close, remove, then the failures, then the locks. The
RDB manager is the same program but for the test of an exhausted pool.

**ConfigStore** (`DatabaseConfigService.init`, `CredentialCipher`,
`MasterKeyProvider.init`, the create/update/delete calls). A stored value is
blank, legacy (clear or Base64), damaged, or encrypted under a key id *and* a
key value; `Readable` is `decrypt`. A start loads or creates the key file,
imports `databases.json` once, scans every row, and becomes ready when
`listAllInstances` could read every password. `Crash` may happen between any
two steps. The operator rotates, drops or loses keys and rolls back to a
version that stores clear passwords; that version imports `databases.json` first, when no
import is flagged as done (`RollBackImport`), since its rows can be edited only after its own start.
`entered` (history) is what the owner of the password typed.

**AuthSessions** (`AuthService`, `UserController`). A call is a chain of
single-statement steps with nothing between them but `request[r]`. A token is
named by the call that created it. `made` tells successive accounts of one name
apart, for the properties.

Each of these modules states what it takes from another: LockMinute relies on
`AtMostOneQuery` of LockRealtime; LockRealtime and AshSampler take "no
connection" as one of the outcomes that ConnectionPool shows; ConnectionPool takes
from ConfigStore that an update is committed before eviction.

### Browser

JavaScript runs a handler to its first `await` without interruption, so the part
of a handler before an `await` is one action and each part after one is another,
with everything it closed over in a record. Generation and sequence numbers are
only ever compared with the newest one, so that a record carries a flag ("newest",
"latest") instead of the number; records that are alike are kept as one.

Parts of one page that share the chosen database and the open menu, but never read
each other's state, are not multiplied with each other: `watched`, fixed in the
initial state, names the part whose requests a behaviour follows. The page's own
actions (choosing a database, changing the menu, hiding the tab) are the same in
every part.

**LatestRequest** is the abstract specification of the guard
`dbagentLatestRequest` (`app.js` 85–99) and of what a panel that uses it promises: an
answer is painted once per question and is about the subject the page has now.

**SessionMonitor** (`app.js`, the Current Session menu). The list with ticks,
sorting, KILL, the refresh chain with its generation and the toggle that
`switchTab` puts off by 100 ms; the two ASH charts with their own chain, the
long-range notice and the range buttons. `ListKeepsPromise` is the refinement
`INSTANCE LatestRequest WITH subject <- currentDbId, asked <- …, shown <-
sessionRows, painted <- sessionPainted`; `sessionPainted` is a history variable that
makes painting the same thing twice a step. With `SortsWhileWaiting = FALSE` the user does
not sort a list that has no rows yet; see the deviations.

**NdDashboard** (`nd-dashboard.js`, `nd-lock.js`). The engine: `Reset`, `RefreshNow`
(one per generation), the timers, range runs, pause and resume hooks. The lock card:
`LockEvent`, `RefreshPanel`, `ExecKill`. `approved` is a history variable: whom the
operator saw ticked or ticked.

**NdTop** EXTENDS it with the chart and its selected window (`nd-aas.js`) and the lists and
drawer that follow the selection (`nd-top.js`). The answer of the chart is the minute it
starts with and the place of its busiest window; how that window is computed is abstracted.
In this part the engine is over-approximated: slow tasks may run at any time while the view is
shown. **NdChecks** EXTENDS NdTop with the card of the periodic checks (`nd-checks.js`),
its filter, and the detail of a check in the drawer.

**MonitorPanels** (`app.js`), in five parts. `tablespace`: the list with its overlay. `tmlock`: the loop of the lock
tree, its timers and what stop and start leave of them (`TimersCleared`: of an id that has fired `clearTimeout`
clears nothing). `lockkill`: its rows, ticks (carried over by SID and SERIAL#, `TickedAgain`) and KILLs; `tmOf` is
the database the rows are of, a KILL is sent `to` the one chosen at the click. `v2`: the rounds of the overview. A
request of a widget waits for its headers (`WidgetAborted` is the eight seconds of `iv2Fetch`, which end there), then
reads its body, for which there is no limit (`HeadersArrived`, `BodyRead`, `BodyFailed`); `painted` says whose answer
each widget shows, and nothing compares it with the chosen database. `incident`: the gate's answers and the button
they offer. Rounds end with their first rejection (`open`), while the other requests go on. History variables:
`tmApproved` (boxes by database and session), `tmAstray` and `alarmAstray` (another database was chosen, or answered
late, with rows or the alarm on the screen); they guard no action.
**PerfAnalysis** (`perf-analysis.js`) EXTENDS
it: `pfRange` stands for times, filters and source. **ConsolePage** EXTENDS both and composes
them with the page around: login, check of the session, configuration, menus, the first
selection, passing through the fleet page, and the editor of an account's restrictions.

**RdbViews** (`rdb-session-views.js`): tabs shown and hidden, reloads, ticks, the tree of lock
waits (the set of branches from the roots down, for every wait relation of the sessions), the confirmation dialog and
the KILL.

**AiPages** (`app.js`): who may ask and what is shown after; the bind fields (`DrawFields`: folded fields are not
drawn again, so that `fields` keeps those of the text before; typing, folding, the capture of values and its late
answer); the current SQL: `Request` is what is put into the body (text, plan, whether it is a follow-up question) and
below which plan it was asked for, `history` the plans the context `tunnerCurrentAnswerHistory` is about;
hand-over from a popup; the writer's tables; and the reader of answer lines (boxes of code, gaps between
paragraphs). `strayed` (a plan and a text came one without the other) and `contextAstray` (an answer whose place was
replaced entered the context) are history variables.

## Runs and bounds

`tlc -config <run>.cfg <module>` in this directory. Every run finishes in seconds to a little over three
minutes on two cores. A property is a conjunction of named parts; the parts are defined,
with a comment each, just above it.

| Run | Module | Shows |
|---|---|---|
| `lock_cache` | MCLockRealtime | `FreshEnough`, `AtMostOneQuery`, `RequestsAnswered` for two viewers with late callbacks |
| `lock_kill` | MCLockRealtime | `Inductive` (with the types), `KilledGoneAfterGrace`, `KillLeavesTrace`, `KillsOnlyWhatWasAsked` for a viewer, an operator, and a SID used by a user session and a background session in turn |
| `lock_minute` | MCLockMinute | `ShownWasMeasured` (rows of finished minutes, counts that were found, an ordered trend), `FirstRowIsMaximum`, `MinuteIsStored` |
| `ash_sampler` | MCAshSampler | `WatermarkIsHonest` (no second skipped), `BackfillWholeMinutes` |
| `pool_edits` | MCConnectionPool | `MapKnowsLivePools` (one pool per key, no closed pool cached), `CallsReturn` |
| `config_store` | MCConfigStore | `SecretsKept`, `Healed`, `RotationLosesNothing` |
| `auth_sessions` | MCAuthSessions | `FinishedDeletionRevokes`, `RootAdminStays`, `CleanupSparesHonoured` |
| `session_monitor` | MCSessionMonitor | `PageOfCurrentDatabase`, `OneChainEach`, the refinement `ListKeepsPromise`, `WaitingEnds` |
| `nd_dashboard` | MCNdDashboard | `CardsOfDatabase` (locks, kill panel, checks), `LoopsAsWanted`, `FollowSelection` (chart, lists, drawer), `PollingGoesOn` |
| `rdb_views` | MCRdbViews | `PageIsCoherent`, `TreeIsWhole`, `KillsWhatWasConfirmed`, `ReloadEnds` |
| `ai_pages` | MCAiPages | `AnalysisOfItsPlan`, `ShownIsWhatIs`, `SpinnersEnd` |
| `console` | MCConsole | `PanelsOfTheirDatabase`, `KillsWhomTheUserChose`, `PageOfAccount`, `RightsKept`, `PageGoesOn` |

Bounds, and why they are enough to show the interesting cases:

* `lock_cache`: cache window 1, longest query 2, clock up to 3. A snapshot can
  expire while a second query runs, and a viewer can come in every phase of
  another viewer's query. Two viewers are the submitter and one who joins; a
  third behaves as the second. `lock_kill` has one viewer, enough to have a query
  in flight during the KILL and to ask again after the grace (instant 3), and one
  operator; the theorems cover any number of each.
* `lock_minute`: three minutes of two ticks, counts 0..2, a query may take one
  tick, so that it can straddle a minute; `HistoryMax` bounds the points of the
  trend inside one window.
* `ash_sampler`: two whole minutes of two seconds and the beginning of a third,
  one interval of two seconds, an instance that may restart at second 2 and an
  application that may restart at any time. A sample by id, one after a failed
  one, one after a gap and one after a restart all occur, and a sample may last from the
  first second to the last. The VIEW leaves out the
  perf rows, on which none of the checked properties depends.
* `pool_edits`: two threads (the creator and the one who waits or comes late),
  one update to the same or to another key, three pool and three lock objects,
  reused only once nothing refers to them.
* `config_store`: two instances (one with a damaged and one with a clear additional
  account), two key ids, three key values, four starts, two edits: import,
  crash, rotation, second scan, old key dropped, roll-back before or after the import.
* `auth_sessions`: five calls, the length of the shortest story in which an account
  is made, used, deleted, and made again; a TTL of one tick. Symmetric calls.
* The pages: two databases, to go to and fro between (A, B and A again is the case the
  guards were written for). Requests on their way that no longer matter are bounded
  (`MaxSuperseded = 3`, `MaxOlder = 1`, `MaxLoads = 2`, `MaxAsked`, `MaxRounds`,
  `MaxPerf = 2`), those that matter are not: a superseded answer can meet the newest one in
  both orders, and a second superseded one behaves as the first.
* `nd_dashboard`: two holders that exist in both databases, two minutes, two places of a window
  (so that one window can be reached from two minutes), three severities, one of them the failed check.
* `rdb_views`: three sessions and twelve shapes of lock waits: a pair, a chain, a fork, joins, an
  unknown holder, a cycle alone, blocked from outside, blocking another, and beside a chain.
* `ai_pages`: two texts, of which one has more bind variables than are shown at once
  (`CollapseAt = 1`); two requests of an analysis on their way (`MaxAsked = 2`), one below the plan and a
  question, or one whose place is gone beside a new one; three lines of an answer, which reach a box that is
  opened and closed and one that is left open; tables of the same name with two owners. 176,862 states.
* `console`: two Oracle instances and one of another engine, listed with that one between them; an
  administrator, an account without one Oracle instance and one without any but with the fleet page; two
  accounts to edit, with an id that is not in the list; one save at a time. The menus of the fixed
  list behave as instances do and are left out (`MenuConst = {}`, one menu of the navigation
  only). Serial numbers 1 and 2 of one SID. Of the lock tree two requests of the loop and two others
  (`MaxAsked = 2`, opening the menu makes two at once), two timers (`MaxTimers`), two rounds on their way
  (`MaxRounds`: the round that rejected and the next, or one of each database), and one press of a kill button.
  119,635 states.

Deadlock is checked in `lock_kill`, `pool_edits` and all runs of pages. It is not checked in
`lock_cache` (the spin of `InstallLate` is a real hang), and not in the runs whose clock, starts
or calls are bounded and which therefore stop.

## Fairness

Safety needs none. `LockRealtime!FairSpec`: a request thread and a task
that can take a step do so; both are threads of unbounded pools
(`newCachedThreadPool`) whose waits end by query timeouts. Neither the clock nor
sessions, operators or new requests are fair. `RequestsAnswered` excepts a
thread that spins in the map. `LockMinute!MinuteFairSpec`: time passes, a query ends,
and `@Scheduled(fixedDelay)` runs the flush again and again.
`ConnectionPool!FairSpec`: weak fairness of the steps inside `getConnection`
and `evictPoolsForDbId`; the locks are unfair `ReentrantLock`s and weak
fairness suffices, because a thread that obtains a lock either leaves a pool in
the map or is refused by a cooldown that others meet before the lock.

Pages: a pending timer fires, a put-off hook runs, and a request is answered or fails, because
browser and server both have a timeout; not so the requests of the lock tree and of the overview. Which request of several is answered next is not
assumed; where a set of requests is named (`Answered`, `FastEnds`), it is the set one property
needs. The requests of the
overview have a time limit of their own (`Service`, per database) until their headers arrive; that a body ever ends
is not assumed, and `RoundsEnd` says that nothing else keeps a database barred. No answer to the loop of the lock
tree is assumed either: `LoopGoesOn` names the request that hangs. `WidgetsSettle` has as its premise that the widget
is answered for that database again and again.
`SF(Clock(d))`: the clock of a database is asked for again and again, each time the menu is
opened, and is read in the end. Nothing is assumed of the user; the liveness properties have
"the menu stays open and the refresh on" as a premise, and `PollingGoesOn` excepts a user who
for ever chooses ranges or periods, each of which starts the timer anew.

## Deviations of the code from its own comments

Those with a property name can be seen by adding it as an INVARIANT (PROPERTY if it begins with a
box) to the configuration named.

* `NextQuerySeesKill` (`lock_kill.cfg`): `cache.remove` after a KILL
  (LockRealtimeService:494, "the next query shows the state after the KILL") is
  undone by the `cache.put` at 130 of a query that was in flight. What does
  hold is `KilledGoneAfterGrace`.
* `StoredIsMinuteMax` (`lock_minute.cfg`): a query recorded after its minute
  was flushed opens a new summary, whose MERGE replaces the stored maximum
  (LockRealtimeService:320-335). What does hold is `FirstRowIsMaximum`.
* `BackfillInventsNothing` (`ash_sampler.cfg` without its VIEW): with an empty ASH the back-fill takes
  the whole hour and writes zeros (InstanceMetricSamplerService:547-551 against
  529-530).
* `NoPoolLeaks` (`pool_edits.cfg`): eviction removes the lock object of a key while a pool
  is created under it; another thread takes a new lock, and one of two pools is
  overwritten without being closed (OracleConnectionPoolManager:120, 82).
* `BadRowDoesNotStopStartup` (`config_store.cfg`): one row that cannot be decrypted
  makes `listAllInstances` throw in an ApplicationReadyEvent listener
  (DatabaseConfigService:442-450 against 123-124).
* `PoolIsOfStoredEntry` (`pool_edits.cfg`): a call that resolved the old entry puts
  its pool into the map after the eviction (OracleConnectionPoolManager:82 against
  DbConfigAdminController:74-78).
* `NoPerfSecondSkipped` (`ash_sampler.cfg` without its VIEW): the perf scan may fail and
  the watermark advances all the same (InstanceMetricSamplerService:398-403 against 75).
  For the categories the same comment fails when the write fails, because the
  watermark is moved before it; `NoSecondSkipped` leaves those seconds out.
* `BackfillDoesNotOverlap` (`ash_sampler.cfg` without its VIEW, as a PROPERTY): a periodic sample may save rows of
  a minute between the back-fill reading which minutes have rows and saving its
  own (613-621 against 609).
* `UnreadableIsReported` (`config_store.cfg`): after a lost key file is generated
  anew with the same key id, the start finds nothing to re-encrypt and reports
  nothing (CredentialCipher:105-117 against DatabaseConfigService:301-302).
* The watermark after a restart (InstanceMetricSamplerService:349-403 against 75): an extra sample that began
  after the instance restarted may put a small id of the new incarnation into the map while the periodic
  sample still counts from a larger id of the old one; the seconds between are counted by neither. `Promise`
  leaves them out.
* Samples by time (InstanceMetricSamplerService:349–366 against 75): a first sample, or the first after a gap, scans
  the last interval. When the other thread has moved the watermark meanwhile and the scan comes later than an
  interval after it, the seconds between are counted by neither, although the watermark advances over them
  (`Promise`, last conjunct). `latestAshSampleId` and `resolveUsernames` (469–477) have no time limit that would
  exclude it.
* A late callback (LockRealtimeService:134): a task that is complete before
  `whenComplete` leaves its future in the map for good. `FreshEnough` and
  `KilledGoneAfterGrace` except this state (`LeftBehind`), `RequestsAnswered` the spin.
* "One query per window" (LockRealtimeService:41-42): a viewer that read the expired
  entry just before a query ended starts another one (106-113).
* The cooldown (OracleConnectionPoolManager:140-148): a thread that read an expired
  failure removes whatever is there by then, a fresh failure included.

Of the pages:

* Current Session: `lastActiveSessions` is not reset by `resetSessionMonitor` (`app.js` 2121–2138), so a
  click on the header of the duration column lists the sessions of the database before under the new
  one (`ShowsCurrentDatabase` with `SortsWhileWaiting = TRUE`).
* Instance dashboard: the browser's Back button reopens it without the hook 50 ms after a menu
  click (`app.js` 925–929 against the comment at `nd-dashboard.js` 322): no timer is left
  (`SomebodyAsksAgain` with `ReturnsByHash = TRUE`). A late answer to a KILL closes whichever kill panel is
  open by then. The refresh button does not reload the lists of a window the user chose, although
  `nd-top.js` 57 says so; a window without a selection in between is not drawn again (37); a
  user's selection is kept as places, which name another window a minute later.
* RDB views: a late detail answer overwrites the body of an open confirmation while its KILL button stays
  (`rdb-session-views.js` 567–569, `KillButtonIsExplained`); sessions that wait for each other in a
  cycle beside a chain are not drawn (`NobodyMissing`, comment at 317); a failed load leaves its
  selection killable although nothing is listed.
* AI pages, what `SentTogether` excepts. Editing locks the analysis because the text "no longer corresponds" to the
  check (comment at `app.js` 5018), but the answer of a check under way unlocks it again with the plan of the former
  text, and a hand-over without a plan leaves the plan of the one before: the analysis then sends one statement's text
  with another's plan (`strayed`). A follow-up question after an edit is sent with the new text and no plan. The
  answer of an analysis or of a question whose place was replaced still begins or continues the context
  (`contextAstray`), although that was dropped "when analysed anew" (5113). Values are sent as they are at the click, changed since the
  check or not; captured values join those of whatever text is in the box by then.
* The account lists and the error search have no guard against late answers; the writer's button is enabled while
  it generates.
* Overview: no widget compares the database it was asked for with the chosen one (`app.js` 3770–4051), so a late
  answer of A replaces B's figures, sessions and alarm until B is answered next (`WidgetsSettle` is what holds), and
  the incident button is shown for B on A's count. The comment at 3743–3748 means the eight seconds to keep one request that hangs
  from barring its database ("이중 방어로 8초"), but the timer is cleared when the headers arrive: a body that stalls in
  `res.json()` bars it for good (`RoundsEnd` excepts this, and nothing else). The label over the sessions keeps the
  former name until the first answer.
* TM locks: the tree has no guard, so rows and ticks of A stay under B until B answers, ticks pass to a session of
  B with the same SID and SERIAL#, and KILL goes to B (`currentDbId` at the click, 1644): `KillsWhereTicked` without
  `tmAstray` fails. The same holds of the incident button, pressed after a change of the database. Stop and start in
  the middle of a request leaves two loops; a request that hangs stops its loop.
* Performance analysis: a failed search leaves the events of an older one under the old heading; an instance
  left while its clock is read and chosen again stays empty (the premise of `AnalysisArrives` leaves it out).
* Console: hidden menus can be opened by their hash; a click within 100 ms of the page's own selection is
  overridden; a stale list of accounts that is edited overwrites what was changed meanwhile (`RestrictionsKept`
  is relative to the list the edit began with).

## Proofs

`tlapm <module>` in this directory. All theorems are of the form `Spec => …`, with the module's specification, for every value of
the constants that satisfies the named assumptions of the module. Eight modules hold the proofs;
some of them are about two or three components that meet in no state (LockProofs, PagesProofs,
DatabaseProofs) or extend one another (NdProofs, ConsoleProofs). So that two components can stand in one
module, ConnectionPool calls its parts `PoolInit`, `PoolNext`, `PoolSpec`, `poolVars`, `Nil`.

**LockProofs**, LockRealtime. `Inductive` is `TypeOK /\ OneSlot /\ KillScope`. `AtMostOneQuery`
alone is not inductive: `OneSlot` says that a running task is the one being
submitted (its submitter is in the mapping function) or the one in the map, that
a submitter is in the mapping function, and that while there is one the map is
empty. `KillScope` says that a KILL works on its own request, and on user
sessions its re-query found. `InductiveInvariant` proves it by one lemma per
action. From it follow `TypeCorrect`, `OneQueryAtATime` (whether or not
`FastTask`), and `KillsInScope` (an action property). `KillIsTraced` shows that
`KillLeavesTrace` is inductive relative to `Inductive`: with the types of the
requests and `KillScope` every step keeps it. `AnswersAreFresh` needs `Clocked` (a task that runs
or has its callback to run is no older than `QueryTicks`, and its snapshot was taken in its life)
and that `LeftBehind`, once true, stays; `KilledAreGone` needs `Announced` (who was announced as killed is
killed) and `AllHonest` (no snapshot lists a session whose KILL was announced before its query began). Assumptions: the
types of the constants only.

LockMinute. The three parts of `ShownWasMeasured` are inductive together with `SummaryOfPast` (the summary in
memory is of no later minute than the clock or the running query, and of a count recorded for its minute),
`NothingForgotten` (what was recorded for a minute is in memory, unless a row of it was saved or lost) and
`TrendOfPast` (the trend ends no later than the running query began, so that appending keeps it ordered, and
dropping from the front does too: `TrendInWindow`, which rests on the least index that stays). Theorems
`MeasuredOnly` and `MaximumComesFirst`: the first row of a minute is its maximum, whatever is saved or fails,
because nothing was forgotten before. Assumption besides the types: `Nothing` is no summary.

**AuthSessionsProofs.** `Inv` is `TypeOK /\ CallHasUser /\ RootAdminStays /\
FinishedDeletionRevokes`. `CallHasUser` says that a call between two of its
statements remembers the name of an account; without it the steps that write to
`users[request[r].user]` say nothing about the administrator. The other two are
inductive given it. Theorems `AuthInvariant`, `RootAdminIsKept`,
`DeletionRevokes`, `CleanupSpares` (an action property). Assumptions: "admin" is
a name, the bounds are natural numbers, `None` is neither a name nor an account.

**DatabaseProofs**, ConfigStore. `StoreInv` is `TypeOK /\ KeysReady /\ StartOrder /\
SecretsKept /\ HealedSoFar`. `KeysReady`: a start that is past its key, and a
written key file, have a usable key, so that re-encryption yields what can be
read back. `StartOrder`: the import runs only before the first completed start,
and the scan visits rows that exist. `HealedSoFar` generalises `Healed` to the middle of a
scan: the rows it has left behind are under the active key or were reported.
Theorems `StoreInvariant`, `SecretsAreKept`, `ScanHeals`.

`RotationKeeps` is the action property `RotationLosesNothing`, for any number of keys, starts and crashes. It
rests on `StoreInv` and on `RotationInv`: the key a start encrypts with is in the key file, under the same id and with
the same material, for as long as that start runs, and a file that is not written has no keys (`KeysInFile`); until an
import is complete the rows are those of `databases.json`, and one with a damaged value is stored as it is there, so
that an import repeated after a crash overwrites nothing readable by something that is not (`RowsOfFile`).
`HealedSoFar` is what makes `DropOldKeys` harmless: no row was reported, so every row is under the key that
stays. The proof attempt showed two things about the model. An earlier form let the previous version edit a
row of a half-done import, which it cannot: it would make the import itself first. And
`FileAssumption` has to say what the comment in `migrateFromJsonFile` says of the file (287-291): it holds clear
text or B64(...), or something broken, and nothing that was encrypted under a key.

ConnectionPool. `PoolInv` is `PoolTypeOK /\ Handed /\ OneKeyPerPool /\ Locked /\ Untouched /\
NoClosedPoolCached`. `Handed`: a pool about to be put is live, under no key, and one thread's. `Locked`: from
the look-up of the lock to the put a thread has one, and inside it holds it. `Untouched`: before the first edit
there is one key, one lock, and a live pool is in the map or in hands; it is what makes `OnePoolPerKey`
inductive. Theorem `MapIsTrue`, for any number of callers, administrators, keys and edits.

**AshSamplerProofs.** `Inv` is `TypeOK /\ SampleInv /\ FillInv /\ Unregistered`. `NoSecondSkipped`
alone says nothing of the moment the watermark moves; `SampleInv` adds what makes that moment
harmless: `Dated` (a sample under way began in this incarnation or before it, and knows no id the instance has not
reached), `Scanned` (the category scan found all ids of its window, or all seconds of the interval before it). There is
no bound on how long a sample takes; what that costs is said by `Promise`, see the deviations. `FillInv` follows the range of the back-fill: whole
minutes after the oldest sample, or minutes before the instance. Theorems `NoSecondIsSkipped`
(`WatermarkIsHonest`) and `MinutesAreWhole`. The cases `Promise` leaves out were found by the proof.

**SessionMonitorProofs.** `Inv` is `ListInv /\ ChartInv /\ RestTyped`. `ListInv` adds to the property that one
request at most is the newest, that rows, once listed, are those of the chosen database and of
`lastActiveSessions`, and that ticks are among them; `ChartInv` does the same for the two charts and the Top SQL.
`AskStep` shows that a step that asks is `List!Ask` or a stutter. Theorems `PageIsOfDatabase` and
`ListImplementsGuard` (the refinement of LatestRequest), both under `SortsWhileWaiting = FALSE`: without it the
deviation named above is real. `OneChain` is `OneChainEach`, without that premise. Its invariant `Chains` counts what drives
a chain: of the newest generation there is one request or one timer, never both, and exactly one of them while the
refresh is on (for the charts: while a database is chosen); a timer that is pending is of the newest generation.

**PagesProofs**, AiPages. `Inv` is `Types /\ OnScreen /\ FieldsOfQuery /\ PlanIsOfText /\ ContextIsOfPlan`. In
`OnScreen` the strengthening is `AttachedToItsPlan`: a request that still has its place on the screen was asked for
below the plan above that place, and an analysis is about it. `PlanIsOfText` and `ContextIsOfPlan` say the same of what
will be sent: the plan remembered is of the text, the context is of the analysis shown, unless one came without the
other. `SentNow`, the step `SentTogether` allows, follows from them for `Analyze` and `FollowUp`; no other step makes
requests. Theorem `AnalysisIsOfItsPlan`, for any texts, binds and number of requests.

`PagesShowWhatIs` is `ShownIsWhatIs`, with `Rest`, one conjunct per page: a button that starts a call is enabled
only while none of its calls is on its way; the chips of the writer are the tables sent, with one of each name;
of an answer being read, a gap or a newline stands between two texts (`Drawn`), for which "after a block" has to
mean that the last thing drawn was no text. `KeptExists` and `OthersKept` are about the list of tables without
those of one name.

RdbViews. `RdbInv` adds `ButtonOfConfirmation` (a KILL button is that of a confirmation and kills whom it was opened
for), `Selection` and `Tabs` to the parts of `PageIsCoherent`. Theorems `KillsTheConfirmed` and `PageStaysCoherent`. `TreeMissesNobody`
is `TreeIsWhole`: from `TreeOfWaits` (the rows are those of some relation of waits) it follows
that no branch is longer than there are sessions, plus the repetition that ends it (`DistinctIsShort`), so
that the bound in `LockRows` cuts nothing off; and that a session above which somebody outside every circle
waits is reached (`NobodyIsMissing`). For this `LockRows` states the rows as the set of branches from
the roots down, and not as a recursion.

**NdProofs.** NdDashboard, NdTop and NdChecks as composed in `ChecksSpec`; `DashboardInv` is `CardInv /\
TopInv /\ ChecksInv`. `EngineOfDatabase`: while the view is shown the engine's database is the page's, which every
guard of an answer compares with. `ListsAsked` and `DrawerAsked`: what was asked for last, the
selected window and every request that would still be painted agree; `TopQuiet` and `ChecksAsked` say the same of
the parts a behaviour does not follow and of the open detail. Theorems `CardsAreOfDatabase`,
`SelectionIsFollowed`, and `LoopsRunAsWanted` (`LoopsAsWanted`: a stopped loop stays stopped, and while the view is shown somebody will
ask again). The last one has the premise `~ReturnsByHash`: with it the deviation named above is real. Assumptions:
there is a minute, and `None` is no window and no severity.

**ConsoleProofs.** ConsolePage with MonitorPanels and PerfAnalysis, which it extends; the page and its panels share the
chosen database and the menu, so one invariant is needed: `ConsoleInv` is `PanelInv /\ PerfInv /\ PageInv /\
AccountInv`.

* `PanelInv`, for the panels. `TablespacesOfChosen` says nothing while the overlay is shown; `TsInv` says that then
  the request in flight is of the chosen database, and that an answer that would be painted (`latest`) is of
  the database in flight. `RoundsInv`: `inFlight` is exactly the set of databases with an open round, and no
  two open rounds are of one database; from this `OneRoundPerDatabase` follows by counting
  (`RoundsCounted`). `RowsOfChosen`: unless the list went astray, its rows are of the chosen database, and every tick was
  given there; `LabelInv`: unless the alarm did, it is the chosen database's that offers the button. From these
  `KillsWhereTicked` and `IncidentHitsAlarm` follow at the click.
* `PerfInv`: events that will still be drawn were asked for under the present heading, a search on its way is
  the newest, and before anything was searched only clocks have been asked for (`AsksInv`, `NothingSearched`).
* `PageInv`: when the check has passed, what the page was told is what the server said last (`Behind`); when
  the tree is built it offers exactly what is accessible with these rights, and an empty tree leads where `First`
  says (`Offered`); and what an empty tree or button explains is so (`SaysWhatIs`). A part that is followed
  alone has a page that offers all (`OtherInv`).
* `AccountInv`: the boxes without a tick are those meant to be hidden, of the rows that are there; as long as the list of
  instances has not come, what is meant of instances is what the edit began with (`EditInv`).

Every action is proved to keep the part it works on, and the other parts are shown to be left alone. Theorems
`PanelsAreTrue`, `KillsAreChosen`, `PageIsOfAccount`, `RightsAreKept` (two action properties: the way to the fleet
page, what is saved). Assumptions: `Listed` is a sequence of all instances without repetition, menus
are no instances, the names of the page's states ("index", "fleet", "asked", "hidden", "empty") are none of the
other engines' instances, and `None` is no instance, account, profile or time range.

Only model-checked: liveness, which the prover does not do (`RequestsAnswered`, `MinuteIsStored`, `CallsReturn`,
`WaitingEnds`, `PollingGoesOn`, `ReloadEnds`, `SpinnersEnd`, `PageGoesOn`). Every invariant and every action
property of the runs is the statement of a theorem.

## What is not modelled

Status and reason of every part are in `PROJECT.json`. In short: the collectors of SQL
statistics and checks, the nightly purges and the two threads of the scheduler (see the plan);
SQL and JSON of the query services and of the other engines' monitors; the back-end of the assistant and
tuning (stateless); packaging scripts, vendored code, `target/`. Inside the modelled
components of the server: the wording of answers, the counters of waits beside the holders, group and
instance order, SQL text capture, tablespace alerts, the key in the environment variable. Of the
pages: drawing (axes, colours, layout, tooltips), copying to the clipboard, export to files, the
range buttons of the overview's metric history, the options of filters, pages opened in windows of their own, the drag popup and the breakdown of the ASH
chart, the polling loop of the fleet page. `fetchDashboard` and the incident list of the legacy dashboard (`app.js`
3098–3485, 4215–4257) and the history of top statements (4588–4806) can no longer be reached.

## Plan

1. *Done*: LockRealtime, LockMinute, AshSampler, ConnectionPool, ConfigStore, AuthSessions; the pages with
   LatestRequest, SessionMonitor, NdDashboard, NdTop, NdChecks, MonitorPanels, PerfAnalysis, ConsolePage,
   RdbViews and AiPages; their runs, and the proofs above.
2. **Collectors**: SqlStatDeltaCollector and CheckCollector on the two threads of
   SchedulingConfig: deltas against totals that are reset or forgotten, the interval of the job check,
   ERROR rows for every item that failed.
3. **Retention and time ranges**: the chunked purges with their cutoffs, and AshRange, which decides
   between store and instance.
4. **SqlRunner**: statement classes, auto-commit and row limit of SqlQueryService.
5. **Registry**, an abstract specification of a keyed pool registry that ConnectionPool refines as long as
   nobody edits, and its composition with ConfigStore.
6. Proofs of what the next modules add, and of the safety part of **Registry**'s refinement.
