------------------------------ MODULE PageRange ------------------------------
(***************************************************************************)
(* The time range the page shows (renderer/app.js) and the queries that    *)
(* load it (data/backend-client.js).  The user selects a range, the page   *)
(* follows the calendar by itself, and the fine groupings of the history   *)
(* and of the applications need the minute rows, which only some queries   *)
(* ask for.  Answers come in any order, late or not at all.                *)
(*                                                                         *)
(* A continuation of an answered promise runs before the next event, hence *)
(* the guard Settled on everything that comes from outside.                *)
(***************************************************************************)
EXTENDS Naturals

CONSTANTS MaxDay, MaxQueries, MaxMoves, MaxFailures \* bounds: days, queries sent,
              \* pages and groupings chosen, failures

VARIABLES
    today,
    ui,                 \* period, start and end of the range the page shows
    page, fine,         \* the page, and the pages grouped by the minute or hour
    active,             \* activeRange: what the loaded rows were asked with
    rangeVersion,       \* of the data client: queries sent
    rangeRequest,       \* of the page: selections made
    pendingRangeQuery,  \* the selection still loading, 0 for none
    minuteHistoryQuery, \* the latest query for minutes, 0 for none
    automaticRangeQuery, \* the selection the calendar made, 0 for none
    queries,            \* sent and not answered
    tasks,              \* callers of ensureMinuteHistory under way
    navigation, filter, \* navigationVersion, applicationFilterVersions
    wanted,             \* history: the user's latest selection still standing
    failed, failures    \* history: a query of the current range failed

queryVars == <<rangeVersion, queries>>
selectVars == <<rangeRequest, pendingRangeQuery, automaticRangeQuery>>
userVars == <<navigation, filter, page, fine>>
historyVars == <<wanted, failed, failures>>
vars == <<today, ui, active, minuteHistoryQuery, tasks, queryVars, selectVars, userVars, historyVars>>

Pages == {"overview", "history", "apps"}
Grouped == {"history", "apps"}
Days == 1..MaxDay
Versions == 0..(MaxQueries + MaxMoves)
Ranges == [period : {"today", "all", "custom"}, start : Days, end : Days]
Params == [range : Ranges, minutes : BOOLEAN]
Queries == [version : Versions, kind : {"select", "minutes", "reload"}, params : Params, request : Versions]
Tasks == [goal : {"page", "grouping", "select"}, to : Pages, version : Versions,
          at : {"loop", "range", "minutes", "ready", "failed"}, on : Versions]

\* Type invariant.
TypeOK ==
    /\ today \in Days /\ ui \in Ranges /\ page \in Pages /\ fine \subseteq Grouped
    /\ active \in Params /\ {rangeVersion, rangeRequest, pendingRangeQuery,
           minuteHistoryQuery, automaticRangeQuery, navigation, filter} \subseteq Versions
    /\ queries \subseteq Queries /\ tasks \subseteq Tasks
    /\ wanted \in Ranges /\ failed \in BOOLEAN /\ failures \in 0..MaxFailures

Rolling(period) == [period |-> period, start |-> IF period = "all" THEN 1 ELSE today, end |-> today]
historyRange(period, custom) == IF period = "custom" THEN custom ELSE Rolling(period)
getRange == historyRange(ui.period, ui)

Init ==
    /\ today = 1 /\ ui = Rolling("all") /\ active = [range |-> ui, minutes |-> FALSE]
    /\ page = "overview" /\ fine = {}
    /\ rangeVersion = 0 /\ rangeRequest = 0 /\ pendingRangeQuery = 0
    /\ minuteHistoryQuery = 0 /\ automaticRangeQuery = 0 /\ queries = {} /\ tasks = {}
    /\ navigation = 0 /\ filter = 0 /\ wanted = ui /\ failed = FALSE /\ failures = 0

Settled == \A t \in tasks : t.at \in {"range", "minutes"}

\* queryRange: a newer query makes every earlier one stale.
Send(kind, range, minutes, request) ==
    /\ rangeVersion < MaxQueries
    /\ rangeVersion' = rangeVersion + 1
    /\ queries' = queries \cup {[version |-> rangeVersion + 1, kind |-> kind, request |-> request,
                                 params |-> [range |-> range, minutes |-> minutes]]}

\* selectRange, up to the query.
StartSelect(period, custom) ==
    /\ rangeRequest' = rangeRequest + 1 /\ pendingRangeQuery' = rangeRequest + 1
    /\ Send("select", historyRange(period, custom), period = "custom" \/ page \in fine, rangeRequest + 1)

Select(period, custom) ==
    /\ Settled /\ custom.end <= today
    /\ StartSelect(period, custom)
    /\ wanted' = historyRange(period, custom)
    /\ UNCHANGED <<today, ui, active, minuteHistoryQuery, automaticRangeQuery, tasks, userVars, failed, failures>>

\* scheduleAutomaticRange on a paint of live data; the pause between retries
\* is left out.
MayFollow == pendingRangeQuery = 0 /\ automaticRangeQuery = 0
Follow ==
    /\ Settled /\ MayFollow
    /\ ui.period # "custom" /\ getRange # ui
    /\ StartSelect(ui.period, ui)
    /\ automaticRangeQuery' = rangeRequest + 1
    /\ UNCHANGED <<today, ui, active, minuteHistoryQuery, tasks, userVars, historyVars>>

Midnight ==
    /\ Settled /\ today < MaxDay /\ today' = today + 1
    /\ UNCHANGED <<ui, active, minuteHistoryQuery, tasks, queryVars, selectVars, userVars, historyVars>>

\* store.reload, after the collector was resumed, a prune, and for estimated
\* rows.  It asks for the range that was loaded last: a selection still
\* loading becomes stale and is given up.
Reload ==
    /\ Settled /\ Send("reload", active.range, active.minutes, rangeRequest)
    /\ wanted' = IF pendingRangeQuery = 0 THEN wanted ELSE ui
    /\ UNCHANGED <<today, ui, active, minuteHistoryQuery, tasks, selectVars, userVars, failed, failures>>

Task(goal, to, version) == [goal |-> goal, to |-> to, version |-> version, at |-> "loop", on |-> 0]

\* doNavigate.
Navigate(to) ==
    /\ Settled /\ navigation + filter < MaxMoves /\ navigation' = navigation + 1 /\ to # page
    /\ IF to \in fine THEN tasks' = tasks \cup {Task("page", to, navigation + 1)} /\ UNCHANGED page
                      ELSE page' = to /\ UNCHANGED tasks
    /\ UNCHANGED <<today, ui, active, minuteHistoryQuery, filter, fine, queryVars, selectVars, historyVars>>

\* The selects historyGrouping and appGrouping; only the latter has a version.
GroupFine ==
    /\ Settled /\ page \in Grouped \ fine /\ navigation + filter < MaxMoves /\ filter' = filter + 1
    /\ tasks' = tasks \cup {Task("grouping", page, filter + 1)}
    /\ UNCHANGED <<today, ui, active, minuteHistoryQuery, navigation, page, fine, queryVars, selectVars, historyVars>>
GroupByDay ==
    /\ Settled /\ page \in Grouped /\ navigation + filter < MaxMoves /\ filter' = filter + 1
    /\ fine' = fine \ {page}
    /\ UNCHANGED <<today, ui, active, minuteHistoryQuery, navigation, page, tasks, queryVars, selectVars, historyVars>>

-----------------------------------------------------------------------------
Move(t, at, on) == (tasks \ {t}) \cup {[t EXCEPT !.at = at, !.on = on]}

\* One turn of the loop of ensureMinuteHistory.
AwaitRange(t) ==
    /\ t.at = "loop" /\ pendingRangeQuery # 0
    /\ tasks' = Move(t, "range", pendingRangeQuery)
    /\ UNCHANGED <<today, ui, active, minuteHistoryQuery, queryVars, selectVars, userVars, historyVars>>
HaveMinutes(t) ==
    /\ t.at = "loop" /\ pendingRangeQuery = 0 /\ active.minutes
    /\ tasks' = Move(t, "ready", 0)
    /\ UNCHANGED <<today, ui, active, minuteHistoryQuery, queryVars, selectVars, userVars, historyVars>>
Joinable == \E q \in queries : q.version = minuteHistoryQuery /\ q.request = rangeRequest
JoinMinutes(t) ==
    /\ t.at = "loop" /\ pendingRangeQuery = 0 /\ ~active.minutes /\ Joinable
    /\ tasks' = Move(t, "minutes", minuteHistoryQuery)
    /\ UNCHANGED <<today, ui, active, minuteHistoryQuery, queryVars, selectVars, userVars, historyVars>>
AskMinutes(t) ==
    /\ t.at = "loop" /\ pendingRangeQuery = 0 /\ ~active.minutes /\ ~Joinable
    /\ Send("minutes", getRange, TRUE, rangeRequest)
    /\ minuteHistoryQuery' = rangeVersion + 1
    /\ tasks' = Move(t, "minutes", rangeVersion + 1)
    /\ UNCHANGED <<today, ui, active, selectVars, userVars, historyVars>>

\* What the caller does next: a page opened or a grouping chosen later wins,
\* except that the history's grouping keeps whatever loads last.
Current(t) ==
    \/ t.goal = "page" /\ t.version = navigation
    \/ t.goal = "grouping" /\ (t.to = "history" \/ (t.version = filter /\ page = "apps"))
Ends(t) == IF t.goal = "select" /\ automaticRangeQuery = t.version THEN 0 ELSE automaticRangeQuery
Finish(t) ==
    /\ t.at = "ready" /\ tasks' = tasks \ {t}
    /\ page' = IF t.goal = "page" /\ Current(t) THEN t.to ELSE page
    /\ fine' = IF t.goal = "grouping" /\ Current(t) THEN fine \cup {t.to} ELSE fine
    /\ automaticRangeQuery' = Ends(t)
    /\ UNCHANGED <<today, ui, active, minuteHistoryQuery, queryVars, rangeRequest, pendingRangeQuery,
                   navigation, filter, historyVars>>
Throw(t) ==
    /\ t.at = "failed" /\ tasks' = tasks \ {t}
    /\ automaticRangeQuery' = Ends(t)
    /\ UNCHANGED <<today, ui, active, minuteHistoryQuery, queryVars, rangeRequest, pendingRangeQuery,
                   userVars, historyVars>>

-----------------------------------------------------------------------------
\* The tasks that waited for the answered query run on.
Resumed(q, applied, ok) ==
    { IF t.at = "range" /\ q.kind = "select" /\ t.on = q.request
        THEN [t EXCEPT !.at = IF ~ok /\ q.request = rangeRequest THEN "failed" ELSE "loop"]
      ELSE IF t.at = "minutes" /\ t.on = q.version
        THEN [t EXCEPT !.at = IF q.request # rangeRequest THEN "loop"
                              ELSE IF ~ok THEN "failed" ELSE IF applied THEN "ready" ELSE "loop"]
      ELSE t : t \in tasks }
Clear(field, version) == IF field = version THEN 0 ELSE field

\* Mutant of Applies: an answer that was overtaken is shown.
AppliesAlways(q) == TRUE

\* queryRange applies the answer of the latest query only.
Applies(q) == q.version = rangeVersion

\* A query for minutes or a reload is answered; so is a selection that a later
\* query overtook: it is not applied, and selectRange gives up.
Answer(q) ==
    /\ Settled /\ q \in queries /\ queries' = queries \ {q}
    /\ q.kind # "select" \/ ~Applies(q)
    /\ active' = IF Applies(q) THEN q.params ELSE active
    /\ tasks' = Resumed(q, Applies(q), TRUE)
    /\ minuteHistoryQuery' = Clear(minuteHistoryQuery, q.version)
    /\ IF q.kind = "select"
         THEN /\ pendingRangeQuery' = Clear(pendingRangeQuery, q.request)
              /\ automaticRangeQuery' = Clear(automaticRangeQuery, q.request)
         ELSE UNCHANGED <<pendingRangeQuery, automaticRangeQuery>>
    /\ UNCHANGED <<today, ui, rangeVersion, rangeRequest, userVars, historyVars>>

\* selectRange after its query was applied; the minute rows are fetched now if
\* the page that is open by now groups by them.
Selected(q) ==
    /\ Settled /\ q \in queries /\ queries' = queries \ {q}
    /\ q.kind = "select" /\ Applies(q) /\ q.request = rangeRequest
    /\ active' = q.params /\ ui' = q.params.range /\ pendingRangeQuery' = 0
    /\ fine' = IF ui'.period = "custom" THEN fine \cup {"history"} ELSE fine
    /\ LET tail == page \in fine'
       IN  /\ tasks' = Resumed(q, TRUE, TRUE) \cup (IF tail THEN {Task("select", page, q.request)} ELSE {})
           /\ automaticRangeQuery' = IF tail THEN automaticRangeQuery
                                     ELSE Clear(automaticRangeQuery, q.request)
    /\ failed' = FALSE
    /\ UNCHANGED <<today, page, minuteHistoryQuery, rangeVersion, rangeRequest, navigation, filter, wanted, failures>>

\* The backend fails or the host gives the request up.
Fails(q) ==
    /\ Settled /\ q \in queries /\ queries' = queries \ {q}
    /\ failures < MaxFailures /\ failures' = failures + 1
    /\ tasks' = Resumed(q, FALSE, FALSE)
    /\ minuteHistoryQuery' = Clear(minuteHistoryQuery, q.version)
    /\ IF q.kind = "select"
         THEN /\ pendingRangeQuery' = Clear(pendingRangeQuery, q.request)
              /\ automaticRangeQuery' = Clear(automaticRangeQuery, q.request)
              /\ wanted' = IF q.request = rangeRequest THEN ui ELSE wanted
         ELSE UNCHANGED <<pendingRangeQuery, automaticRangeQuery, wanted>>
    /\ failed' = TRUE
    /\ UNCHANGED <<today, ui, active, rangeVersion, rangeRequest, userVars>>

Next ==
    \/ Midnight \/ Follow \/ Reload \/ GroupFine \/ GroupByDay
    \/ \E p \in {"today", "all"} : Select(p, ui)
    \/ \E d \in Days : Select("custom", [period |-> "custom", start |-> 1, end |-> d])
    \/ \E p \in Pages : Navigate(p)
    \/ \E t \in tasks : AwaitRange(t) \/ HaveMinutes(t) \/ JoinMinutes(t) \/ AskMinutes(t) \/ Finish(t) \/ Throw(t)
    \/ \E q \in queries : Answer(q) \/ Selected(q) \/ Fails(q)

Spec == Init /\ [][Next]_vars

-----------------------------------------------------------------------------
\* The rows on the page always belong to the range its heading names: the same
\* dates when they were chosen, some earlier day of the same period otherwise
\* (renderer/app.js getRange, rangeText; backend-client.js queryRange).
ShownRangeIsLoaded ==
    LET loaded == active.range
    IN  /\ loaded.period = ui.period
        /\ IF ui.period = "custom" THEN loaded = ui
           ELSE /\ loaded.end <= today
                /\ loaded.start = IF ui.period = "all" THEN 1 ELSE loaded.end

Idle == queries = {} /\ tasks = {}

\* The user's latest selection stands when everything settled, whatever the
\* calendar, a navigation or a grouping asked for meanwhile; only its own
\* failure or a reload of the page gives it up.
SelectionStands ==
    Idle => /\ ui.period = wanted.period
            /\ wanted.period = "custom" => ui = wanted

\* A page grouped by the minute has the minute rows once everything settled,
\* unless a query for the range it shows failed.
MinutesWhenGrouped == Idle /\ ~failed /\ page \in fine => active.minutes

==============================================================================
