------------------------------ MODULE MCDesktop ------------------------------
(* The components beside the collector, checked together: those of the     *)
(* desktop application and the capture of traffic by application.  None of *)
(* these modules shares state with another one: what one needs of another  *)
(* (the backend, the shell, the page) is inside it, as an external action.  *)
(* Interleaving them would only multiply their states, so a behaviour picks *)
(* one component, and every other one stays in one initial state.           *)
EXTENDS Integers, FiniteSets, TLC

CONSTANTS
    Nothing, Unknown, Damaged, Nobody, NoCall, Bad,
    Files, Digests, Retentions, Units, MiniRanges, Apps, Avatars, Keys, Dates, Proxies, Clients,
    MaxReplaced, MaxChecks, MaxCalls, MaxEdits, MaxWriteFailures, MaxRequests, MaxEvents,
    MaxDay, MaxQueries, MaxMoves, MaxFailures, MaxOps, MaxFaults,
    PageLimit, HostLimit, MaxPages, LastTime, MaxUsage, MaxWrites, MaxImports, MaxActs, Saves, MaxChanges,
    MaxDialogs, Themes, hicolor, ScanLimit, MaxThemes, MaxCandidates, MoreCandidates, MaxSize,
    MaxDesktopFiles, Processes, Networks, MaxCaptured

VARIABLES
    component, \* the one that moves
    preferences, preferenceFailure, preferenceFile, selectedAsset, downloadedCandidates, snapshot,
    operation, updates, rejected, replaced, checks,
    parent, helper, stdin, processHost, gui, installer, started, gaveUp,
    nextId, calls, exitFlight, exitConfirmed, quitRequested, quitStarted, stopped, quitSent,
    flow, closeAction, dialog, answers, dirty, agreed,
    inputs, settings, stored, kept, pendingFields, errors, running, failure, followup,
    refused, confirmed, promised, edits, writeFailures,
    windowPreferences, saves, mini, miniSnapshot, miniFlight, miniRevision, miniSnapshotRevision,
    miniPage, messages, replies, requests,
    login, approved, sync, result, expected,
    today, ui, page, fine, active, rangeVersion, rangeRequest, pendingRangeQuery,
    minuteHistoryQuery, automaticRangeQuery, queries, tasks, navigation, filter, wanted, failed,
    failures,
    policy, late, file, records, op, listing, path, state, error, rules, rulesError, doubtful,
    ops, faults,
    shown, pending, image, decoding, entry, queue, subscribers, waiting, cache, host, told, pages,
    native, estimates, unseen, increments, minuteRecords, proxyRecords, events,
    disk, history, database, completed, run, archive, imported, writes, imports,
    window, previous, sampled, orders, reports, tellings, hostWindow, nativeHidden,
    documentHidden, frame, unpainted, closeChoice, closeSaves, closeFlight, behind, quitAsked,
    quitting, asked, obeyed, swallowed, acts,
    target, temporary, step, littered, opening, changes,
    unsaved, writing, refusedWrites, dialogShown, drawer, waits, choosing, preparingUpdate,
    updateExitPrepared, update, tooLate, typed, lostWrites, dialogs,
    desktop, inherits, size, holder, setting, stage, launcher, todo, visited, candidates,
    candidateLimit, exhausted, icon,
    wifi, process, capture, rows, report, fresh, requested, acknowledgements, appEnabled, paused,
    pendingAppUsage, known, counters, acknowledged, network, captured, storedBytes, givenUp, upto,
    captureFailures, captureActs

updatesVars == <<preferences, preferenceFailure, preferenceFile, selectedAsset,
                 downloadedCandidates, snapshot, operation, updates, rejected, replaced,
                 checks>>
handoffVars == <<parent, helper, stdin, processHost, gui, installer, started, gaveUp>>
exitVars == <<nextId, calls, exitFlight, exitConfirmed, quitRequested, quitStarted,
              stopped, quitSent, flow, closeAction, dialog, answers, dirty, agreed>>
formVars == <<inputs, settings, stored, kept, pendingFields, errors, running, failure,
              followup, refused, confirmed, promised, edits, writeFailures>>
windowsVars == <<windowPreferences, saves, mini, miniSnapshot, miniFlight, miniRevision,
                 miniSnapshotRevision, miniPage, messages, replies, requests>>
loginVars == <<login, approved, sync, result, expected>>
rangeVars == <<today, ui, page, fine, active, rangeVersion, rangeRequest,
               pendingRangeQuery, minuteHistoryQuery, automaticRangeQuery, queries, tasks,
               navigation, filter, wanted, failed, failures>>
limitsVars == <<policy, late, file, records, op, listing, path, state, error, rules,
                rulesError, doubtful, ops, faults>>
iconsVars == <<shown, pending, image, decoding, entry, queue, subscribers, waiting, cache,
               host, told, pages>>
rowsVars == <<native, estimates, unseen, increments, minuteRecords, proxyRecords, events>>
importVars == <<disk, history, database, completed, run, archive, imported, writes,
                imports>>
mainVars == <<window, previous, sampled, orders, reports, tellings, hostWindow, nativeHidden,
              documentHidden, frame, unpainted, closeChoice, closeSaves, closeFlight, behind,
              quitAsked, quitting, asked, obeyed, swallowed, acts>>
filesVars == <<target, temporary, step, littered, opening, changes>>
dialogVars == <<unsaved, writing, refusedWrites, dialogShown, drawer, waits, choosing,
                preparingUpdate, updateExitPrepared, update, tooLate, typed, lostWrites, dialogs>>
themeVars == <<desktop, inherits, size, holder, setting, stage, launcher, todo, visited,
               candidates, candidateLimit, exhausted, icon>>
captureVars == <<wifi, process, capture, rows, report, fresh, requested, acknowledgements,
                 appEnabled, paused, pendingAppUsage, known, counters, acknowledged, network,
                 captured, storedBytes, givenUp, upto, captureFailures, captureActs>>
desktopVars == <<component, updatesVars, handoffVars, exitVars, formVars, windowsVars, loginVars,
                 rangeVars, limitsVars, iconsVars, rowsVars, importVars, mainVars, filesVars,
                 dialogVars, themeVars, captureVars>>

Updates == INSTANCE UpdateService
Handoff == INSTANCE UpdateHandoff WITH host <- processHost, file <- installer
Exit == INSTANCE NativeAdapter WITH pending <- calls
Form == INSTANCE FormAutosave
    WITH shown <- inputs, failures <- writeFailures, MaxFailures <- MaxWriteFailures
Windows == INSTANCE WindowControls
    WITH preferences <- windowPreferences, queue <- saves, page <- miniPage, events <- messages
Login == INSTANCE Autostart WITH run <- login
Range == INSTANCE PageRange
Limits == INSTANCE AppControl
Icons == INSTANCE AppIcons
Rows == INSTANCE PageRows WITH MaxEvents <- MaxUsage
Import == INSTANCE LegacyImport
Main == INSTANCE MainWindow
    WITH told <- tellings, dirty <- unpainted, closeAction <- closeChoice, saves <- closeSaves,
         flight <- closeFlight, quitRequested <- quitAsked
Actions == INSTANCE FileActions
Dialogs == INSTANCE PageDialogs
    WITH pending <- unsaved, running <- writing, failed <- refusedWrites, dialog <- dialogShown,
         late <- tooLate, edits <- typed, failures <- lostWrites, acts <- dialogs,
         MaxActs <- MaxDialogs
Linux == INSTANCE LinuxIcons WITH entry <- launcher
Capture == INSTANCE AppCapture
    WITH helper <- capture, stored <- storedBytes, failures <- captureFailures, acts <- captureActs

\* The values that stand for "none" are none of the others.
ASSUME NamesAssumption ==
    /\ Unknown \notin Updates!Assets /\ Unknown \notin Updates!Preferences
    /\ Damaged \notin Updates!Preferences \cup {Unknown}

\* Retentions are numbers of days, keeping everything is one of them and an
\* invalid input none; no follow-up and no batch is none of those.
ASSUME RetentionsAssumption ==
    /\ Retentions \subseteq Nat /\ 0 \in Retentions /\ Bad \notin Retentions
    /\ Nothing \notin [value : Retentions, stage : {"prune", "reload"}]
    /\ Nothing \notin [batch : Form!Waiting, skip : BOOLEAN, step : Form!Steps]

\* "Nothing" is no registry value, no answer, no form, no operation, no page, no
\* preference, no window, no program and no theme, there is a range to show, and
\* hicolor is installed.
ASSUME NothingAssumption ==
    /\ Nothing \notin {"command", "old", "foreign", "on", "off"}
    /\ Nothing \notin BOOLEAN
    /\ Nothing \notin Dialogs!Forms
    /\ Nothing \notin Limits!Ops
    /\ Nothing \notin Windows!ShownPreferences \cup Windows!Pages /\ Nothing \notin Main!Windows
    /\ MiniRanges # {} /\ Nothing \notin Keys
    /\ hicolor \in Themes /\ Nothing \notin Themes

\* Versions of an old file are numbers; a missing or damaged file has none.  The
\* file of before and that of another program are those of no save.
ASSUME DocumentsAssumption ==
    /\ MaxWrites \in Nat /\ Nothing # Damaged /\ {Nothing, Damaged} \cap Import!Versions = {}
    /\ {"old", "foreign"} \cap Saves = {}

\* The page's rows are of finitely many days, applications and proxies; days are
\* numbers, and measured rows are of no proxy.
ASSUME RowsAssumption ==
    /\ IsFiniteSet(Dates) /\ IsFiniteSet(Apps) /\ IsFiniteSet(Clients) /\ IsFiniteSet(Proxies)
    /\ Dates \subseteq Int /\ LastTime \in Nat /\ MaxUsage \in Nat /\ Nothing \notin Proxies

\* Processes are finitely many and none of the merged rows; what is missing is no
\* row, no sample and no waiting snapshot.
ASSUME CaptureAssumption ==
    /\ IsFiniteSet(Processes) /\ Processes \cap Capture!Merged = {} /\ MaxCaptured \in Nat
    /\ Nothing \notin [bytes : Nat, active : BOOLEAN, published : Nat] \cup [bytes : Nat, active : BOOLEAN]
    /\ Nothing \notin Nat
    /\ Nothing \notin [report : Capture!Reports, wifi : Networks \cup {Nothing}, last : BOOLEAN]

\* Bounds are numbers, and there is a first day.
ASSUME BoundsAssumption ==
    /\ {MaxQueries, MaxMoves, MaxFailures, MaxEdits, MaxWriteFailures, MaxDialogs, MaxRequests, MaxActs}
          \subseteq Nat
    /\ {MaxDay, MaxPages, MaxThemes, MaxSize, MaxDesktopFiles} \subseteq Nat \ {0}
    /\ {MaxCandidates, MoreCandidates} \subseteq Nat

-----------------------------------------------------------------------------
\* Components that have a choice of initial states take it when they are picked.
Init ==
    /\ component \in {"updates", "handoff", "exit", "form", "windows", "login", "range", "limits",
                      "icons", "rows", "import", "main", "files", "dialogs", "themes", "capture"}
    /\ Updates!Init /\ (component = "updates" \/ preferenceFile = Unknown)
    /\ Handoff!Init /\ (component = "handoff" \/ installer = "verified")
    /\ Exit!Init
    /\ Form!Init /\ (component = "form" \/ stored = CHOOSE v \in Form!Values : TRUE)
    /\ Windows!Init
    /\ (component = "windows" \/ windowPreferences = CHOOSE p \in Windows!Preferences : TRUE)
    /\ Login!Init /\ (component = "login" \/ (\A name \in Login!Names : login[name] = Nothing /\ approved[name] = Nothing))
    /\ Range!Init /\ Limits!Init /\ Icons!Init /\ Rows!Init
    /\ Import!Init
    /\ (component = "import" \/ disk = [state |-> Nothing, bak |-> Nothing, settings |-> Nothing])
    /\ Main!Init /\ Actions!Init /\ Dialogs!Init
    /\ Linux!Init
    /\ (component = "themes" \/ (desktop = <<>>))
    /\ Capture!Init /\ (component = "capture" \/ wifi = Nothing)

Next ==
    /\ UNCHANGED component
    /\ IF component = "updates" THEN Updates!Next ELSE UNCHANGED updatesVars
    /\ IF component = "handoff" THEN Handoff!Next ELSE UNCHANGED handoffVars
    /\ IF component = "exit" THEN Exit!Next ELSE UNCHANGED exitVars
    /\ IF component = "form" THEN Form!Next ELSE UNCHANGED formVars
    /\ IF component = "windows" THEN Windows!Next ELSE UNCHANGED windowsVars
    /\ IF component = "login" THEN Login!Next ELSE UNCHANGED loginVars
    /\ IF component = "range" THEN Range!Next ELSE UNCHANGED rangeVars
    /\ IF component = "limits" THEN Limits!Next ELSE UNCHANGED limitsVars
    /\ IF component = "icons" THEN Icons!Next ELSE UNCHANGED iconsVars
    /\ IF component = "rows" THEN Rows!Next ELSE UNCHANGED rowsVars
    /\ IF component = "import" THEN Import!Next ELSE UNCHANGED importVars
    /\ IF component = "main" THEN Main!Next ELSE UNCHANGED mainVars
    /\ IF component = "files" THEN Actions!Next ELSE UNCHANGED filesVars
    /\ IF component = "dialogs" THEN Dialogs!Next ELSE UNCHANGED dialogVars
    /\ IF component = "themes" THEN Linux!Next ELSE UNCHANGED themeVars
    /\ IF component = "capture" THEN Capture!Next ELSE UNCHANGED captureVars

Spec == Init /\ [][Next]_desktopVars

-----------------------------------------------------------------------------
(* Properties: those of the modules, of the component that moves. *)

\* Type invariants of the modules.
TypeOK ==
    CASE component = "updates" -> Updates!TypeOK [] component = "handoff" -> Handoff!TypeOK
      [] component = "exit" -> Exit!TypeOK       [] component = "form" -> Form!TypeOK
      [] component = "windows" -> Windows!TypeOK [] component = "login" -> Login!TypeOK
      [] component = "range" -> Range!TypeOK     [] component = "limits" -> Limits!TypeOK
      [] component = "icons" -> Icons!TypeOK     [] component = "rows" -> Rows!TypeOK
      [] component = "import" -> Import!TypeOK   [] component = "main" -> Main!TypeOK
      [] component = "files" -> Actions!TypeOK   [] component = "dialogs" -> Dialogs!TypeOK
      [] component = "themes" -> Linux!TypeOK   [] component = "capture" -> Capture!TypeOK

\* An update shown as downloaded is one that can be installed, and an installer
\* once found changed is not prepared before it is downloaded again
\* (host/updates.cjs downloadSelected, installSelected).
DownloadsVerified ==
    component = "updates" => Updates!DownloadsVerified

\* Only the verified installer is started, only after both processes exited,
\* and none after a hand-over that was given up (host/update-handoff.cjs).
HandoverHonoured ==
    component = "handoff" => Handoff!HandoverHonoured

\* No unsaved edit is dropped by an exit nobody agreed to, whatever earlier
\* exits were interrupted (tauri/native-adapter.cjs, host/main.cjs).
ExitWasAgreed == component = "exit" => Exit!ExitWasAgreed

\* A form without unsaved edits shows what is stored, and the pruning that a
\* saved retention promised is done (renderer/ui/form-autosave.js).  A form
\* that asks in the page's one dialog gets its answer, and an update neither
\* exits over unsaved changes nor takes the page away for longer than it lasts
\* (renderer/app.js confirmModal, wifimeterPrepareUpdate).
FormKeepsItsWord ==
    /\ component = "form" => Form!ShownIsStored /\ Form!ShorteningIsPruned
    /\ component = "dialogs" =>
          /\ Dialogs!QuestionsAnswered /\ Dialogs!SavingAsksNobody
          /\ Dialogs!PreparedIsSaved /\ Dialogs!InertForUpdate

\* The mini window ends up with the host's preferences, and its rows are those
\* of the range it shows (host/window-controls.cjs, host/mini/renderer.js).  The
\* main page knows whether it can be seen and paints new data when it can, and
\* closing it takes the chosen action (host/window-controls.cjs onMainClose,
\* tauri/native-adapter.cjs, renderer/data/render-scheduler.js).
WindowsFollow ==
    /\ component = "windows" => Windows!MiniShowsPreferences /\ Windows!RowsFitSelection
    /\ component = "main" => Main!PageKnowsVisibility /\ Main!DataGetPainted /\ Main!ClosesAsChosen

\* Renaming the entry of the login start does not change whether the program
\* starts at login, at whichever call it stops (host/windows-autostart.cjs).
MoveKeepsLoginStart == component = "login" => Login!MoveKeepsLoginStart

\* Queries that overtake each other end with the range, and the grouping, the
\* user asked for last (renderer/app.js, data/backend-client.js queryRange).
SelectionStands ==
    component = "range" =>
        Range!ShownRangeIsLoaded /\ Range!SelectionStands /\ Range!MinutesWhenGrouped

\* A program known to be limited stays in the list in which limits are lifted
\* (host/app-control.cjs, renderer/data/desktop-actions.js).
LimitedIsListed == component = "limits" => Limits!LimitedIsListed

\* No avatar waits for an icon that nobody loads (renderer/ui/app-icons.js),
\* and no theme that may hold an icon is left out (tauri/linux-icons.cjs).
AvatarsServed ==
    /\ component = "icons" => Icons!AvatarsServed
    /\ component = "themes" => Linux!ThemesSearched

\* The rows of a range add up to its usage, however estimates of proxies and
\* parts of the range overlap (renderer/data/proxy.js, history.js).  The usage
\* of applications is stored once, however processes exit and packets come
\* late, and the rows of exited ones are retired (platform/app_capture_cache.cpp,
\* core/app_usage_accumulator.cpp).
RowsAddUp ==
    /\ component = "rows" => Rows!EstimatesKeepTotals /\ Rows!RangesAddUp
    /\ component = "capture" => Capture!AppBytesOnce /\ Capture!ExitedAreRetired

\* What is imported was in the old directory at one moment and is archived
\* (host/legacy.cjs); a file that is saved is whole before it replaces another
\* one, and a backup that is read is within the limit (host/files.cjs).
FilesWhole ==
    /\ component = "import" => Import!ImportedTogether
    /\ component = "files" => Actions!TargetIsWhole /\ Actions!BodyWithinLimit
=============================================================================
