# WiFiMeter: models, checks and proofs

WiFiMeter measures how much each Wi-Fi network of a machine transfers, keeps
the records in SQLite, warns at quotas, and shows the records in a desktop
application. This directory models the parts of it in which a byte, a gap, an
alert, an edit or a setting could be lost, repeated or attributed to the wrong place
although every function does what its tests expect.

    renderer (page)  --  shell (Rust)  --  host (Node)  --  wifimeter-backend (C++)  --  SQLite
      backend-client.js     host.rs       main.cjs,         service.cpp, store.cpp,
      app.js                dialogs.rs    backend.cjs       usage_accumulator.cpp, ...

The host starts one backend process and talks to it in JSON Lines over pipes.
The backend has a single loop (`server.cpp`): it handles a request, or runs a
sampling round that is due, then writes the response or the events. The page
sends requests through the shell and the host and receives the events. The host
also owns what does not need the collector: windows and their preferences, the
start at login, updates, limits on programs, icons, files. It reaches the windows
only by calls to the shell, which reports them back; both cross process
boundaries, so orders, answers and reports overtake each other.

## Inventory

| Part | State it keeps | What makes it hard | What makes it correct |
|---|---|---|---|
| Usage accumulator (`core/usage_accumulator.cpp`) | a baseline per interface | roaming, counter resets, incomplete reports, a clock set back | no byte twice, none on a network that did not carry it |
| Collecting service (`ipc/service.cpp`) | `paused_`, `pendingUsage_`, `usageRevision_`, live state | a transaction fails after the baselines have moved on; requests between the failure and the retry | every byte read is stored, pending, or given up for a named reason |
| Network quotas (`core/quota.cpp`, `network_repository.cpp`, `evaluateQuotas`) | settings and one ledger per network | batches over midnight, changed periods, crash between mark and alert | the ledger is what the records say; one alert per threshold |
| Total quota (`total_quota.cpp`, `quota_service.cpp`) | settings, a ledger per period key | ledgers created from records in the transaction that adds to them; backups | the same, for every period, old ones too |
| Coverage gaps (`usage_repository.cpp`) | rows with or without an end | merging, rows left open by a failure or a crash, restored rows | no time both measured and missing, none neither |
| Request loop (`server.cpp`) | pending events | events behind or before the answer of the request that caused them | the page can tell them apart |
| Page data client (`backend-client.js`) | a copy of the records of a range | snapshots and events cross; queries replace each other; clearing | the copy equals the records |
| Host supervision (`main.cjs`, `backend.cjs`) | flags, timers, pending requests, last acknowledged settings | five asynchronous functions around one process that may die at any await | pause state restored, import isolated, installer alone |
| Application capture (`app_capture_cache.cpp`, `windows_app_traffic.cpp`, `app_usage_accumulator.cpp`, `collectApplications`) | counters per process in the helper, the last snapshot and queued acknowledgements in the session, baselines and one waiting report in the service | exits, late packets, snapshots and acknowledgements that pass each other, a helper that dies | each byte stored once, rows of exited processes retired |
| Legacy import (`legacy_import.cpp`, `legacy.cjs`) | imported sources and mappings | the old collector may write its files while they are read | what is imported was there at one moment and is archived |
| Backup archive (`backup_archive.cpp`) | none | validation before replacement | a restore is all or nothing |
| Proxy attribution (`proxy_attribution.cpp`, `proxy_service.cpp`) | observations per day | two observers that never see the same instant | estimates never exceed what was measured |
| Update service (`updates.cjs`) | preferences, the selected asset, verified downloads, the status shown | files replaced between check, download and install; a release published again | only a verified file is offered and installed |
| Update hand-over (`update-handoff.cjs`, `update-bridge.cjs`) | a helper that outlives the host | late readiness, timeouts, exits of either process | nothing starts after a hand-over reported as failed |
| Exit (`native-adapter.cjs`, `main.cjs`, `bridge.js`) | pending calls, a consent to leave | answers after a timeout, exits repeated and cancelled | no edit dropped unasked |
| Settings forms (`form-autosave.js`, `autosave.js`) | drafts and saves in flight | saves overlap edits; a failure in the middle of follow-ups | the last edit is saved, the promised pruning happens, no other |
| Dialogs and flows of the page (`app.js`) | one dialog, one pair of callbacks | several flows ask in the same dialog | every question is answered, an update finds nothing unsaved |
| Time range of the page (`app.js`, `backend-client.js`) | selected, automatic and minute ranges | queries and navigation overtake each other, midnight | the rows belong to the range shown, the user's choice stands |
| Rows of the page (`history.js`, `proxy.js`, ...) | rows of days, minutes, estimates | an estimate that overlaps what is measured; ranges cut at minutes | no byte shown twice or lost |
| Windows (`window-controls.cjs`, `mini/renderer.js`, `native-adapter.cjs`, `host.rs`) | preferences, mini window, visibility, closing | answers pass events; the shell samples every 100 ms | page and host end with what is |
| Login start (`windows-autostart.cjs`) | registry values of two names and approvals | each registry call may fail | renaming changes nothing for the user |
| Limiting programs (`app-control.cjs`, `desktop-actions.js`) | policies, a file of records, a list | a helper that answers late or never | what is limited can be found and freed |
| Icons (`app-icons.js`, `app-icons.cjs`, `linux-icons.cjs`) | queues, subscribers, caches; a search of themes | rows that vanish while they wait; circular themes, limits | no avatar waits for nothing, no theme is forgotten |
| File actions (`files.cjs`) | a temporary file | failing steps, power loss | old or new document, never half of one |
| Tray, menus; charts, translations; packaging; download limiter; platform sampling | mostly the operating system's | | |

`PROJECT.json` lists each with its status, and under `hazards` every place where
this code can go wrong in a way a test would hardly reach.

## Modules

| Module | Models | Used by |
|---|---|---|
| `UsageAccumulator` | `UsageAccumulator::accumulate` as a pure step on partial functions | `UsageCollector` |
| `UsageCollector` | the service's rounds and the requests that touch them, with the environment: traffic, roaming, resets, clock | `MCUsageCollector`, `UsageCollectorProofs` |
| `UsageCollectorProofs` | proofs: types and safety of the collector, and that it implements `UsageLedger` | |
| `UsageLedger` | abstract specification: a ledger that grows by whole rounds | `UsageCollector` (refinement) |
| `QuotaPeriods` | days, months, period keys, thresholds | the two quota modules |
| `NetworkQuota` | one network's ledger, its alerts, and the requests that change it | `MCNetworkQuota`, `NetworkQuotaProofs` |
| `TotalQuota` | the total ledgers, their creation from records, alerts, backup and restore | `MCTotalQuota`, `TotalQuotaProofs` |
| `QuotaLemmas`, `NetworkQuotaProofs`, `TotalQuotaProofs` | proofs: sums over the days of a period; the ledgers and alerts | |
| `CoverageGaps` | the rows of `coverage_gaps` written by one interface's rounds, pauses and restores | `MCCoverageGaps`, `CollectionProofs` |
| `LiveSync` | the backend's answers and events and the page's copy of the records | `MCLiveSync`, `LiveSyncProofs` |
| `LiveSyncProofs` | proofs about the page's copy | |
| `CollectorSupervisor` | the flows of `main.cjs` around `BackendClient` and the process | `MCCollectorSupervisor`, `CollectionProofs` |
| `CollectionProofs` | proofs about the host's flows (imports, the installer, the settings kept) and about the gaps | |
| `UpdateService` | `createUpdateService`: preferences, check, download, cache, install | `MCDesktop` |
| `UpdateHandoff` | host, helper and window around one installer file | `MCDesktop` |
| `NativeAdapter` | calls to the shell and the exit | `MCDesktop` |
| `FormAutosave` | one settings form, retention and its pruning | `MCDesktop` |
| `PageDialogs` | the page's dialog, its forms and the flows that flush them | `MCDesktop` |
| `WindowControls` | window preferences, mini window and its page | `MCDesktop` |
| `MainWindow` | visibility, closing and painting of the main window | `MCDesktop` |
| `Autostart` | the registry entries of the login start | `MCDesktop` |
| `PageRange` | ranges and queries of the page | `MCDesktop` |
| `PageRows` | the application rows derived from what the page holds | `MCDesktop` |
| `AppControl` | limits on programs | `MCDesktop` |
| `AppIcons`, `LinuxIcons` | icons of the page and the host; search of themes | `MCDesktop` |
| `LegacyImport` | reading and archiving the old directory | `MCDesktop` |
| `FileActions` | saving and opening files | `MCDesktop` |
| `AppCapture` | usage by application from the capture helper to the stored rows | `MCDesktop` |
| `DesktopProofs` | proofs about updates, forms, dialogs, windows, exit, login start, limits, import and files | |
| `DesktopPageProofs` | proofs about what the page shows: rows, application usage, ranges, icons | |

Common conventions. A map or an optional value of the source is a partial
function or a set of at most one element. A storage transaction is one action;
its failure is a second action that spends a budget (`MaxFailures`). Variables
under *History* state properties only and guard nothing. Actions carry the name
of the function they model. An operator whose comment says *mutant* is a
plausible wrong version of the definition below it: it is used by no
specification and shows that the named property can fail.

### UsageAccumulator and UsageCollector

A round of `collectOnce` is one of: the retry of the pending batch fails
(`RetryFails`); it succeeds but `mapLegacyNetworks` fails (`MappingFails`); the
round is stored (`RoundStored`); the round is sampled but not stored and
becomes the pending batch (`RoundDeferred`). In all but the first the pending
batch is committed first. The report is chosen by the set of interfaces that
could be read: an interface that is not associated gives no sample, one that
failed makes the report incomplete.

`usage[i][n]` keeps apart what the source adds up per network, so that each
byte can be traced. `total`, `carried`, `astray`, `strayed`, `mark`,
`credited` and `lost` are the accounts the properties compare.

* `NoOvercount`: stored and pending bytes of a network never exceed what the
  interface carried there. The exception, `strayed`, is the code's: bytes of an
  interface that roamed away and back between two rounds look like progress.
* `Conservation`: every byte up to the last reading is stored, pending or given up
  (first sight, change of network, reset, clear, restore, crash), once.
* `StopsWithoutLoss`, `NoReadingPastPending`: action properties about shutdown
  and about the order of retry and reading.
* `ImplementsLedger`: the usage tables behave as `UsageLedger` says. The mapping:
  `stored` is `usage`, `waiting` the bytes of `pending`, `limit` what was carried
  plus `strayed`, `saved` the usages of the backups. A step of the ledger enters a
  round once, with or after the round that waits; only a clear, a restore or the
  end of the process gives the waiting round up. So a collector that charges a
  batch twice, or drops it on a retry, has no ledger step for it.
* `PendingIsSaved` (liveness): a pending batch is stored once storage stops
  failing, unless the user pauses or the process ends. Fairness is
  `WF(CollectOnce)`: `StdioServer::run` polls with a timeout until the next
  sample is due and calls `collectOnce` whenever it is due and collection is
  not paused, also while input keeps arriving. Nothing else is fair.

### NetworkQuota and TotalQuota

Time is a day; a month is `DaysPerMonth` days. A batch carries bytes for the day
it is stored and possibly an earlier one, as `minuteUsageOf` splits it. A round
is three actions: apply (one transaction), evaluate (mark and queue each due
threshold), emit. A crash may come between any two. `recorded` is what was ever
stored since the records were last cleared, which pruning does not touch.

* `LedgerWithinRecords`, `LedgerExact`, `TotalExact`: the ledgers equal what was
  recorded in their period. `LedgerExact` assumes that the clock is not set back
  over a day: `addToLedger` then rolls the ledger and forgets, which
  `LedgerWithinRecords` still covers. `TotalExact` has no such exception, because the
  total ledgers are kept per period key.
* `NoRepeatedWarning`, `AnnouncedOnce`, `MarkedIsAnnounced`: an alert is given once
  and a mark without its alert only exists if the process was killed in
  between. A network's ledger saved by a changed period has no marks
  (`service.cpp:860`), so a period switched there and back warns again;
  `NoRepeatedWarning` names that case although `contracts/README.md:65` does not.

### CoverageGaps

One interface, time in units. `measured` is the time stored deltas stand for.
A gap with a span merges into the row that ends where it begins; one without a
span is inserted open, as the source does; `closeOpenGaps` closes every open
row of the scope. `owed` is the time rounds took from a baseline, `noted` the
time spent in pauses that left a row.

* `GapsAreUnmeasured`: no row covers measured time. A row that a failed close or an
  empty span left open (`stale`) is the exception, see the findings.
* `NoTimeUnexplained`: what a round takes from a baseline is measured, pending or
  in a row.
* `PauseIsCovered`: a pause is covered while it lasts and afterwards, through kill
  and restart. `clearUsage` and a start with `--paused` write no row: those
  pauses are not in the property.

### LiveSync

The backend writes responses and events into one ordered `wire`; requests wait
in `inbox`. Events a request causes are written before or after its answer as
`handleLine` does. Records are the commits of rounds, each on a day; a range is
a set of days. The page's query holds the events that arrive until its answer;
a query that is replaced is ignored when it answers.

* `RecordsExact`, `AppsExact`: when nothing is under way the page's copy is the
  backend's records of its range. `RecordsExact` excepts a clear that failed half way
  (`service.cpp:1370`: records are gone, the answer is an error).
* `NeverTwice`: no commit is added to a copy that has it.

### CollectorSupervisor

A flow is an asynchronous function of `main.cjs` and `at[flow]` the await it
stands at; `reply[flow]` is what that await returned. An event (a line from the
process, its exit, a timer, a click) is handled only when no continuation is
left to run, which is how promises work; `Continuation` runs them. `calls` are
the requests in the pipe with their answers, in order. The flags
`migrationBusy`, `installingUpdate`, `startupSettled`, `quitting` and
`recoveryFlight` are functions of where the flows stand.

* `ImportIsolated`: an import of old data is executed by a paused collector.
* `SettingsKept`: at rest the collector runs and is paused exactly if the user
  left it so. The named exceptions are what the code does not cover: attempts
  used up, a failed migration, and `lost`, `missed`, `late` below.
* `InstallerAlone`: no collector exists between its exit and the installer's start.

`lost` is finding 4. `missed`: the process dies while an update waits for
`hello`; giving the update up schedules no recovery (`main.cjs:350-362`), so it waits
for the next page request. `late`: a pause request timed out and is executed
afterwards, or a recovery began before its answer; the last acknowledged state
is then not the collector's. Also left as the code has it: a process that dies
during startup sets `migrationStatus.error`, after which nothing recovers it until
the user resumes.

Abstractions: enabling application collection is an extra request a flow may or
may not make; `clearUsage` and `restore` count as a pause; login items, status
messages and window handling are left out; dialogs block their window
(`dialogs.rs`), so the page asks for nothing but snapshots while one is open;
exit may be asked for at any time.

### The desktop application: MCDesktop

The remaining modules share no variable with each other: what one needs of another
(backend, shell, page, user) is inside it as an external action. `MCDesktop`
instantiates them all and lets a behaviour pick one component, so one run checks
each of them completely and the sum, not the product, of their states. An invariant
of `MCDesktop` joins the properties of the modules that answer one question.

**UpdateService** (`DownloadsVerified`). A file stands for its digest; other programs
may replace files of the update directory between any two steps. What the page
shows as downloaded is in the set of verified downloads, and a file found changed
stops nothing and starts nothing until it is downloaded again. `DamagedFileKept`: a preference
file that could not be read is never overwritten (proved, not in a run).

**UpdateHandoff** (`HandoverHonoured`). The helper opens the installer, hashes it, says
READY, waits for GO and for both processes to exit. Only the verified file starts, and
nothing starts after a hand-over that was reported as failed before GO was written.
A timeout between writing GO and its callback also reports a failure although the
helper may act on GO; the property is about what comes before.

**NativeAdapter** (`ExitWasAgreed`). A call has 30 s; an answer that comes later is
dropped. The application leaves only when the page was clean or the user agreed in a
question that was not given up since. A quit cancelled while the collector is being
stopped lets a later close send its quit before that stop has ended.

**FormAutosave** (`FormKeepsItsWord`, first half). Fields with delays, one batch in
flight, retries. A form without unsaved edits shows what is stored; a confirmed
shortening is pruned in the end; records are pruned only to what was
confirmed (`PruneWasConfirmed`, proved). An edit to a longer retention, a refusal and a
discard drop the pending pruning: the promise ends there, as in the code.

**PageDialogs** (`FormKeepsItsWord`, second half). Of a form only what is unsaved is
kept; the flows (navigate, close the drawer, clear, restore, update) flush forms and
wait. `QuestionsAnswered`: a form that asks can be answered; `SavingAsksNobody` and
`PreparedIsSaved`: an update neither asks nor exits over unsaved changes;
`InertForUpdate`: the page takes no clicks only while the host is at an update. The
exceptions are behaviours of the code found by these properties:
  - two forms that ask at once share one dialog; the second replaces the callbacks of
    the first (`app.js:576-579`), and confirming any later dialog forgets the refusal
    (`app.js:754`). The first form then never ends its batch, and leaving the page, which
    flushes it, waits for ever (`overwritten`);
  - the host gives up after 30 s (`native-adapter.cjs:25`) while the page still saves:
    the page then declares itself prepared and stays inert until a status
    of a later update releases it (`late`).

**WindowControls**, **MainWindow** (`WindowsFollow`). Updates of preferences are queued and
saved before they take effect; an answer may pass the events or fall behind. When
nothing is on its way the mini window shows the host's preferences, and its rows
fit its range. The main page knows whether it can be seen, paints
new data when it can, and closing takes the action chosen last. The exceptions: a change
of visibility reported with a move is passed on as the move only
(`native-adapter.cjs:187-198`, `swallowed`), and a hide undone within one sample of
100 ms is reported to nobody. An answer about preferences has no revision in the main page, so
the property is about the mini window.

**Autostart** (`MoveKeepsLoginStart`). Each `reg.exe` call may fail. At rest and at
every failure the program starts at login exactly if it did. Registering overwrites the
entry without reading it again and removing is two calls: another program that writes
in between loses its change, which is left out of `expected`.

**PageRange** (`SelectionStands`). Continuations of promises run before the next event.
The rows belong to the range of the heading; the user's latest selection stands,
except that `store.reload` supersedes a selection still under way without a word;
a page grouped by minutes has the minutes.

**PageRows** (`RowsAddUp`). Estimates replace a proxy's rows by its clients'; the
totals of a day stay the same whatever part has arrived, and two ranges that meet at a
minute show together what the whole shows.

**AppControl** (`LimitedIsListed`). The helper may be killed, refused, or act after its
request timed out. A program known to be limited is in the list; one limited after the
timeout is known to nobody (`doubtful`).

**AppIcons**, **LinuxIcons** (`AvatarsServed`). No avatar waits for an icon that nobody
loads; the page allows four requests where the host would take eight, so the page's limit
is the one that bites. `ThemesSearched`: the search of themes reaches hicolor and
every inherited theme, whichever circles they form, while its limits last. When the
candidates run out before an inherited hicolor, hicolor counts as visited and the
fallback is skipped (`exhausted`), although the comment above it
(`linux-icons.cjs:217`) calls hicolor the final resort even at a limit. That comment
speaks of the limit of inherited themes, which the fallback does handle; so this is recorded
here and not as a finding.

**LegacyImport**, **FileActions** (`FilesWhole`). What is imported stood in the old
directory at one moment, with its archive, although files are read one at a time; a
file that is saved is whole before it takes the place of another, also when power is
lost, and a backup that is read is within the limit although it may grow.

**AppCapture** (`RowsAddUp`). Three parties: the helper with one row per process and a
row of late packets (`Packet`, `Snapshot`, `Acknowledge`), the session between them with the
last report and the queued acknowledgements, and the service with its baselines and the
report whose transaction failed (`CollectApplications`, the requests). `AppBytesOnce`: with
the history of this helper, every byte counted up to the last snapshot taken was stored or
given up (first snapshot, unknown network), and only once. It rests on the guard that an
acknowledgement smaller than a published value retires nothing (`Current`): without it, a
row whose larger value is on its way is folded, and its late bytes are stored twice.
`ExitedAreRetired`: when nothing is under way, no row of a process seen to exit is left.
A quirk seen on the way: what the helper reports as it starts has no time, so it is stored
again in every round until the first snapshot comes; it holds no rows, and only the network
of the baseline moves on.

## Runs

| Run | States | Shows |
|---|---|---|
| `collector` | 791 thousand | safety and the refinement: one interface, two networks, 2 bytes, two failures (so that a retry can fail), one crash, clock of 2 values |
| `collector_two_interfaces` | 190 thousand | two interfaces, two failures, with incomplete reports; types and liveness |
| `network_quota` | 578 thousand | 3 days in months of 2, all three periods, 2 bytes, cap at the second, one clock set back, 2 requests or crashes |
| `total_quota` | 670 thousand | a Wi-Fi and a wired network, three rules, backup and restore |
| `coverage` | 2.8 million | two networks, 3 instants, 2 rows written, one failure, 2 requests or crashes |
| `live_sync` | 1.4 million | 2 rounds on 2 days, 2 ranges, 3 requests |
| `supervisor` | 760 thousand | 3 crashes, 1 timeout, 3 operations, 2 recovery attempts |
| `desktop` | 1.5 million | the fifteen components of the desktop application and the capture by application, one per behaviour, bounds below |
| `clear_restarts`, `gap_over_measured`, `restores_later_commits`, `restores_last_settings` | | the four disagreements below, each violated |

Why the bounds are enough. Every constant named `Max...` only limits how often the
environment acts. The behaviours that matter need: two networks to roam between
and a third round to charge what was carried wrongly; a failure and its
retry, with one request between them; three days so that a batch straddles a day
and a month; two rows so that one can merge with the wrong one; two rounds and
three requests so that one query is replaced while a clear and an event are
under way; two operations that overlap, with a crash in each and one in the
recovery of another.

In `desktop`: two replaced files and three checks (found, changed, found again);
three exits (asked, given up, asked again); three edits of a form, two failed writes and
retentions 0, 1, 2 (so that a shortening follows a shortening and a failed one is
edited); two requests of the mini window that pass each other, with an event; three
queries of the page over two days, so that one is replaced while another is late; two
moves and one failure of the registry; two operations and two faults of the limits, on
two programs; three avatars of two programs with one load at a time and a page opened
again; three usages on two days of two minutes; three writes of the old collector and two
imports; three acts on the main window; two saves to one file with one change from
outside; two dialogs or flows beside three edits of three forms; three themes of every
inheritance, two candidates and three desktop files with limits of two, one and two; one
process with three packets (before a snapshot, before its acknowledgement, after it), one
failure and three acts of the user or the network around the capture. The limits
of `linux-icons.cjs` (16 themes, 4096 candidates, 4096 files) are constants, so that the
instance reaches them. For each property a mutant of the code that breaks it is
found within the same bounds. Deadlock is checked where the modelled system never
stops; `coverage`, `live_sync`, the supervisor's and the desktop's behaviours end at
their bounds or when the application exits.

## Disagreements found

1. `clear_restarts`: clearing usage leaves a network's notified thresholds marked
   (`usage_repository.cpp:480`); `contracts/README.md:65` says tracking starts again.
2. `gap_over_measured`: a counter event in a round of span 0 is stored as an open
   gap and closed later over measured time (`usage_repository.cpp:407`);
   `database.cpp:64` says the table holds intervals no data covers. The application
   scope guards against it (`service.cpp:480`).
3. `restores_later_commits`: application usage committed by a pause keeps the old
   `usageRevision`, and the page drops its event while a snapshot is under way.
4. `restores_last_settings`: a collector that dies while the import asks for its
   directory is restarted paused by the import's own `hello`, and collection stays
   paused although it had been running.

Found by reading only: `usage_accumulator.h:78` says the last of duplicate
interface rows counts, the code takes the first (`usage_accumulator.cpp:60`). The
page's `historyGrouping` is changed after an await without the version check that
navigation has (`app.js:795`). The mini window can end with another size than
its shape: a "moved" report of an older order of the host is taken for the user's move
(`window-controls.cjs:164`), with the size reported there.

## Proofs

The theorems hold for every value of the constants: any networks, interfaces, days, files,
retentions and any bounds. Each module of proofs states its inductive invariant first, was
checked with TLC on the run's instance before it was proved, and has one lemma for
each action or group of actions; the last steps are propositional temporal logic.
Assumptions are the named ones of the modules: bounds are natural numbers
(`BoundsAssumption`, `TtlAssumption`, `AttemptsAssumption`), calendars are not empty
(`CalendarAssumption`), thresholds are percentages and there are finitely many networks
(`RulesAssumption`, `WiredAssumption`), and values that stand for "none" are no proper values
(`NoNetworkAssumption`, `NamesAssumption`, `NothingAssumption`, `DocumentsAssumption`).
Retentions are numbers of days with 0 for keeping everything, and an invalid input is none
(`RetentionsAssumption`); the rows of the page are of finitely many days, applications and
proxies (`RowsAssumption`), and processes are finitely many (`CaptureAssumption`), because
their bytes are added up. TLC evaluates each of them on the instance of the run.

* `UsageCollectorProofs`. The inductive invariant is `IInv` in `UsageCollector`.
  `NoOvercount` alone is not inductive: a round charges bytes the tables do not hold yet, so
  `ChargeInv` says the property still holds after everything unread since the baseline is
  charged, with the astray bytes counted. `Conservation` needs `BaselineInv`: the distance
  between a counter and its baseline is what the interface carried since `mark` (or less, after
  a reset). `ArchiveInv` says the same of a backup, because a restore puts it back.
  `ShutdownLosesNothing` and `PendingStoredFirst` are action properties.
  `LedgerImplemented` is the refinement of `UsageLedger`: each action of the collector is shown
  to be a step of the ledger or to leave it alone; bytes are compared entry by entry, and the
  four kinds of round map to `Round`.
* `QuotaLemmas`, for both quotas: that the folds the models sum with have a value on every
  finite set, and that the sum of a table over the days of a period is monotonic, additive,
  and changes with one day by that day's change. The induction over finite sets this needs is
  done on sets of sizes (see below), so that no step rests on enumeration.
* `NetworkQuotaProofs`. `LedgerWithinRecords` needs `RInv`: a ledger belongs to the period of
  the rule, bytes that wait in a batch lie on days up to its own, and, unless the clock was set
  back, nothing is recorded after today or after the period of the ledger (`Chronological`);
  without the last, a ledger rolled forward could be too small for `LedgerExact`. The alerts
  need `AInv`: what was announced is marked in the ledger or belongs to an older
  period (`Marks`), and what is marked was announced or is in the outbox (`Announcing`).
* `TotalQuotaProofs`. The invariant says the same of the database and of the one a backup
  holds (`Counts`, `Once`, `Announcing` for both): a restore exchanges ledgers, records and
  what was announced together.
* `CollectionProofs`, first part: the host's flows. `IInv` relates the flows to the requests in the
  pipe: a request that is heard is the one its flow waits for (`Heard`, `Single`), answers come
  in order, flows that exclude each other do (`Apart`), and while an import may be executed
  the collector is paused and no request behind it will resume it (`Paused`).
  `SettingsRestored` states `SettingsKept`, which says something of the moment of rest only, so
  nearly all of its invariant is about what goes on before. `SettingsInv` holds while no
  pause request was given up or overtaken, no import began over a process that had died, and
  the host is not on its way out (`Regular`). `Obeys` is about the
  requests: each answer says what the process was then, and the last one what it is (`Chain`);
  who waits for a pause or a resumption and hears of success has a process that obeyed
  (`Acknowledged`); a request that restores asks for what its flow remembers (`Restores`).
  `Intent` is about the flows: what the host believes is true of the process, or an update will
  see to it, or a recovery is needed and something will begin it (`Health`, with `Blocked` for
  all that may hold it back and looks for it again when it ends); what the host believes is what
  the user wants except while an import or an update has set it aside or the page has obtained
  something new (`Base`); what a flow will restore is what the user wants (`Memory`), which
  no request of the page can change behind its back (`Alone`, `Read`).
* `CollectionProofs`, last part: the gaps (whose module names its formulas `GapsSpec`,
  `GapsTypeOK`, ..., so that they fit one module with the supervisor's). Time is compared unit by
  unit: `TimeInv` says that a unit is measured, waits in the pending batch, or is still running
  from the baseline, one of the three and then in no solid row; `PauseInv` that all open rows are
  stale while collection runs, and that a pause that was announced has an open row; `ArchiveInv`
  keeps this for the tables in a backup.
* `LiveSyncProofs`. `RecordsExact` speaks of the moment when all has arrived; its
  strengthening says for each record what the page is still to get. `CopyInv`: a stored record of
  the range is in the copy or in an event on its way, and the same of the answer to the
  latest query with the events behind it and those that are kept. That nothing is added twice needs
  the converse, `OnceInv`: an event on the wire is in no copy it will be added to, because an
  event newer than a snapshot is written after it and may only overtake answers. `TotalInv`
  follows the last event that carries the total. `VersionsInv` and `ClearInv` say that the latest query has one
  answer, and that between a clear and its answer's arrival nothing is recorded.
  Whatever `RestoredIs` says of the loop in `restorePendingEvents` is proved for sequences of any length.
* `DesktopProofs`, on `MCDesktop`, where each component has its instance: the hand-over of the
  installer (`HInv` in `UpdateHandoff`: a file the helper has open cannot be replaced, and GO is written once,
  by a host that has not given up), downloads and preferences (`UInv`, `PInv` in
  `UpdateService`), the confirmed pruning (`FInv` follows the confirmation through a
  task in the batch, an entry that failed and the follow-up), the exit (`ExitInv`: a confirmed exit
  was agreed to, and "quit" is only sent while the host stops), the renamed login start
  (`MoveInv`), the list of limited programs (`LimitsInv`: known limits are in the file, and
  in any list that has been asked for since), the import (`ImportInv`: the moment all files stood
  together is that of the first comparison, because a content that has been replaced does not
  come back, so a later comparison of it fails), and the files (`FilesInv`: what takes
  the place of the target is whole and on the disk).
  What a form shows (`KInv`) needs to know where each value of a form is: shown and stored,
  in the batch that waits, in the write that is under way, or refused; and where a promised
  pruning is (`PromiseInv`): still to be written with the retention, in the follow-up, or done.
  The batch that a failure puts back is what makes this more than one step long. `DialogsInv`
  follows who owns the page's one dialog (`Answerable`), the exception being those it was taken
  from. For the mini window, `WindowsInv` says of the last preferences on their way to the page
  that they are the host's (`LastIs`), and of an answer the page will still believe, because no
  event came after its question, that it is right (`KnownInv`). For the main window, `MainInv`
  says the same of the reports on their way to the host and of what the page is told
  (`SeenInv`, `ToldInv`), and that a closing obeys the choice in effect when it began, or the
  save it waits for (`ChoiceInv`).
* `DesktopPageProofs`, also on `MCDesktop`. Rows: the sums are those of `QuotaLemmas`
  (`Sums`), over the rows of the page instead of days. An estimate is taken from its proxy and
  given to its clients within what was measured, so the total stays (`Total` as a sum over a
  set that changes by disjoint parts, `SumUnion`); `ArrivingInv` says that usage has
  arrived as history or as an increment, not as both. Trying to prove `RangesAddUp` showed that
  it was stated too widely: two ranges that meet add up only if no day lies between the
  start and the end, which an instance of two days cannot tell; it says so now.
  Application usage: `CaptureInv` compares four stages of the same counters, the service's baselines,
  the snapshot that waits after a failure, the last snapshot, and the helper's rows, and says
  of each pair that the later goes on from the earlier (`Ahead`, `Carried`): its bytes are
  more by exactly what was counted between, where a row that was retired moved its bytes to the merged
  row. The stages are needed because each may be overtaken: an acknowledgement of the earlier
  retires a row that the later still holds (`Tracked`), and a restart of the helper
  starts all of them again (`StartsEmpty`).
  Ranges: `VersionsOf` orders queries and selections by their versions, `RangeOf` says that the
  latest of them keeps the page's range and the user's choice, `MinutesOf` that minutes are loaded,
  loading or failed. Icons: an avatar that waits is subscribed to a request that is queued or asked
  (`WaitingInv`, `PendingIconInv`); the search of themes covers the closure of inheritance
  (`CoveredInv`: whatever a searched theme inherits is searched or still to be), also when
  themes inherit in circles, and keeps a place for hicolor (`FallbackInv`).

Only model-checked: `TypeOK` of `MCDesktop` as a whole (its
parts for forms, dialogs, windows, rows, icons, updates and the hand-over are in the
invariants above); the four disagreements; and the liveness properties, which with
fairness and ENABLED are beyond this prover. Theorems of the library that take an operator as
parameter cannot be used with it either. Where a fact about a fold or a recursive function needs
induction, it is done with the least element of a set of naturals (`WFMin`,
`NatLessThanWellFounded`); no module declares a RECURSIVE operator.

## Not modelled, and the plan

In order of importance:

1. The gaps of the application scope (`service.cpp:463-507`), the limit of rows of the
   capture (`app_capture_cache.cpp:30`), its Linux helper, and the composition of
   `AppCapture` with `LiveSync`, whose application events stand for its commits.
2. Placement of the mini window (`window-controls.cjs:64-189`, `mini-geometry.cjs`):
   snapping, collapsing and reports of the shell. A draft showed that the place agrees
   with the host's idea only while no two orders are under way, so it needs a property that
   tells those apart.
3. Pure algorithms against a reference: `minuteUsageOf`, `normalizeWarnPercents`,
   restore validation, byte counts, version numbers; as recursive functions.
4. The backend's half of the import (`importCachedDays`, `importTotalQuota`,
   `mapLegacyNetworks`) and proxy attribution.
5. Proofs: the remaining parts of `MCDesktop`'s `TypeOK`.

Two hazards have no property: `collectOnce` samples again at once while
`mapLegacyNetworks` fails (`service.cpp:1673`), which is about the rate of rounds; and a
crash during startup counts as a failed migration (`main.cjs:243`), described above.

Left out for good: reading the operating system's counters and connections, real
time (rates, sampling intervals), the download limiter's packet timing, SQLite
itself, framing and menus of the shell, presentation and translations, and packaging.
