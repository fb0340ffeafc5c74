--------------------------- MODULE WindowControls ---------------------------
(***************************************************************************)
(* The window preferences and the mini window                              *)
(* (apps/desktop/host/window-controls.cjs), with the page of the mini      *)
(* window (host/mini/renderer.js) and the bridge between them              *)
(* (tauri/bridge.js).  Updates are queued; each is saved before it takes   *)
(* effect.  Events reach the page in the order they were sent, but an      *)
(* answer travels on its own and may pass them or fall behind.  The list   *)
(* of applications a page asks for is the one sent as an event with it.    *)
(*                                                                         *)
(* Of the preferences only those the list depends on are kept.  Geometry   *)
(* and closing the main window (onMainClose) are left out.                 *)
(***************************************************************************)
EXTENDS Integers, Sequences

CONSTANTS
    MiniRanges, Nothing, \* time ranges of the list
    MaxRequests, MaxEvents \* bounds: updates, events on their way

VARIABLES
    preferences,        \* in memory and in window-preferences.json
    queue,              \* reads and updates waiting for the one being saved
    mini,               \* the window: "none", "loading", "loaded"
    miniSnapshot, miniFlight, miniRevision, miniSnapshotRevision,
    page, events, replies, \* the page of the window, and what is on its way to it
    requests

vars == <<preferences, queue, mini, miniSnapshot, miniFlight, miniRevision,
          miniSnapshotRevision, page, events, replies, requests>>
usageVars == <<miniSnapshot, miniFlight, miniRevision, miniSnapshotRevision>>
pageVars == <<page, events, replies>>

Preferences == [miniWindow : BOOLEAN, miniExpanded : BOOLEAN, miniRange : MiniRanges]
\* What the page of the mini window uses of them.
Shown(p) == [miniExpanded |-> p.miniExpanded, miniRange |-> p.miniRange]
ShownPreferences == [miniExpanded : BOOLEAN, miniRange : MiniRanges]
\* What the mini window may change (mini:close is one of them), and the settings.
Patches(from) ==
    IF from = "mini" THEN [miniWindow : {FALSE}] \cup [miniExpanded : BOOLEAN] \cup [miniRange : MiniRanges]
    ELSE [miniWindow : BOOLEAN]
\* bridge.js notes how many preference events it had seen when it asked.
Operation == [from : {"mini"}, patch : Patches("mini") \cup {<<>>}, revision : Nat]
             \cup [from : {"main"}, patch : Patches("main") \cup Patches("mini") \cup {<<>>}]
Rows == [range : MiniRanges, rows : MiniRanges \cup {Nothing}]
\* known: what the bridge was told of the preferences, and how often by events.
Pages == [preferences : ShownPreferences, known : ShownPreferences \cup {Nothing}, revision : Nat,
          result : Rows \cup {Nothing}]

\* Type invariant.
TypeOK ==
    /\ preferences \in Preferences
    /\ queue \in Seq(Operation)
    /\ mini \in {"none", "loading", "loaded"}
    /\ miniSnapshot \in MiniRanges \cup {Nothing}
    /\ miniFlight = Nothing \/ miniFlight \in [revision : Nat, range : MiniRanges]
    /\ miniRevision \in Nat /\ miniSnapshotRevision \in Nat \cup {-1}
    /\ page \in Pages \cup {Nothing}
    /\ events \in Seq(ShownPreferences \cup Rows)
    /\ replies \subseteq [revision : Nat, value : ShownPreferences]
    /\ requests \in 0..MaxRequests

Init ==
    /\ preferences \in Preferences
    /\ mini = IF preferences.miniWindow THEN "loading" ELSE "none"
    /\ queue = <<>>
    /\ miniSnapshot = Nothing /\ miniFlight = Nothing
    /\ miniRevision = 0 /\ miniSnapshotRevision = -1
    /\ page = Nothing /\ events = <<>> /\ replies = {}
    /\ requests = 0

-----------------------------------------------------------------------------
(* The list of applications. *)

Model(p, snapshot) == [range |-> p.miniRange, rows |-> snapshot]
Flight(p, revision) == [revision |-> revision, range |-> p.miniRange]

\* The end of applicationUsage: the page gets the list.
Publish(p, snapshot, window, sent) ==
    IF window = "loaded" /\ p.miniExpanded THEN Append(sent, Model(p, snapshot)) ELSE sent

\* applicationUsage, for preferences p: join the flight, start one, or publish
\* the snapshot.  online: the collector is neither offline nor starting.
ApplicationUsage(p, revision, snapshot, window, sent, refresh, online) ==
    IF window # "none" /\ p.miniExpanded /\ online /\ (refresh \/ snapshot = Nothing)
    THEN /\ miniFlight' = IF miniFlight = Nothing THEN Flight(p, revision) ELSE miniFlight
         /\ events' = sent
    ELSE UNCHANGED miniFlight /\ events' = Publish(p, snapshot, window, sent)

\* A snapshot of an older selection is dropped and the current one queried;
\* the failure of an older query is not reported.
FlightEnds(ok, online) ==
    /\ miniFlight # Nothing
    /\ LET current == miniFlight.revision = miniRevision
           snapshot == IF ok /\ current THEN miniFlight.range ELSE miniSnapshot
           revision == IF ok /\ current THEN miniRevision ELSE miniSnapshotRevision
           again == mini # "none" /\ preferences.miniExpanded /\ online /\ revision # miniRevision
       IN  /\ miniSnapshot' = snapshot /\ miniSnapshotRevision' = revision
           /\ IF ~ok /\ current THEN miniFlight' = Nothing /\ UNCHANGED events
              ELSE IF again THEN miniFlight' = Flight(preferences, miniRevision) /\ UNCHANGED events
              ELSE miniFlight' = Nothing /\ events' = Publish(preferences, snapshot, mini, events)
    /\ UNCHANGED <<preferences, queue, mini, miniRevision, page, replies, requests>>

\* publishLive: a sample (the snapshot is older than 5 s, or not), or the
\* collector's state; also mini:applications, which the page asks for.
PublishLive(stale, online) ==
    /\ mini = "loaded" /\ preferences.miniExpanded /\ Len(events) < MaxEvents
    /\ ApplicationUsage(preferences, miniRevision, miniSnapshot, mini, events, stale, online)
    /\ UNCHANGED <<preferences, queue, mini, miniSnapshot, miniRevision, miniSnapshotRevision,
                   page, replies, requests>>

-----------------------------------------------------------------------------
(* The window. *)

\* did-finish-load: what was sent before is for nobody.
Load ==
    /\ mini = "loading"
    /\ mini' = "loaded"
    /\ \E online \in BOOLEAN :
          ApplicationUsage(preferences, miniRevision, miniSnapshot, mini', Append(events, Shown(preferences)),
                           FALSE, online)
    /\ UNCHANGED <<preferences, queue, miniSnapshot, miniRevision,
                   miniSnapshotRevision, page, replies, requests>>

\* The bridge listens before the page reads the preferences.
PageStarts ==
    /\ mini # "none" /\ page = Nothing
    /\ page' = [preferences |-> [miniExpanded |-> FALSE, miniRange |-> CHOOSE range \in MiniRanges : TRUE],
                known |-> Nothing, revision |-> 0, result |-> Nothing]
    /\ queue' = Append(queue, [from |-> "mini", patch |-> <<>>, revision |-> 0])
    /\ UNCHANGED <<preferences, mini, usageVars, events, replies, requests>>

\* update() by the mini window's page or the main window's.
Request(from, patch) ==
    /\ requests < MaxRequests /\ (from = "mini" => page # Nothing)
    /\ requests' = requests + 1
    /\ queue' = Append(queue, IF from = "mini" THEN [from |-> from, patch |-> patch, revision |-> page.revision]
                              ELSE [from |-> from, patch |-> patch])
    /\ UNCHANGED <<preferences, mini, usageVars, pageVars>>

Patched(p, patch) == [field \in DOMAIN p |-> IF field \in DOMAIN patch THEN patch[field] ELSE p[field]]

\* The page that asked is gone: its reads and updates still happen, nobody is answered.
Orphaned(operations) == [i \in DOMAIN operations |-> [from |-> "main", patch |-> operations[i].patch]]

\* The first operation of the queue: saved, in effect, announced, answered.
Update ==
    /\ queue # <<>> /\ Head(queue).patch # <<>>
    /\ LET operation == Head(queue)
           next == Patched(preferences, operation.patch)
           changed == next.miniRange # preferences.miniRange
           window == IF ~next.miniWindow THEN "none" ELSE IF mini = "none" THEN "loading" ELSE mini
           snapshot == IF changed THEN Nothing ELSE miniSnapshot
           announced == IF window = "none" THEN <<>>
                        ELSE IF window = "loaded" THEN Append(events, Shown(next)) ELSE events
       IN  /\ preferences' = next /\ mini' = window
           /\ miniSnapshot' = snapshot
           /\ miniRevision' = miniRevision + (IF changed THEN 1 ELSE 0)
           /\ \E online \in BOOLEAN :
                 IF next.miniExpanded
                 THEN ApplicationUsage(next, miniRevision', snapshot, window, announced, TRUE, online)
                 ELSE events' = announced /\ UNCHANGED miniFlight
           /\ page' = IF window = "none" THEN Nothing ELSE page
           /\ replies' = IF window = "none" THEN {}
                         ELSE IF operation.from = "mini" /\ page # Nothing
                         THEN replies \cup {[revision |-> operation.revision, value |-> Shown(next)]}
                         ELSE replies
           /\ queue' = IF window = "none" THEN Orphaned(Tail(queue)) ELSE Tail(queue)
    /\ UNCHANGED <<miniSnapshotRevision, requests>>

\* It could not be saved: nothing changes, the caller gets the error.
UpdateFails ==
    /\ queue # <<>> /\ Head(queue).patch # <<>>
    /\ queue' = Tail(queue)
    /\ UNCHANGED <<preferences, mini, usageVars, pageVars, requests>>

\* read(): answered when the updates before it are done.
Read ==
    /\ queue # <<>> /\ Head(queue).patch = <<>>
    /\ queue' = Tail(queue)
    /\ replies' = IF Head(queue).from = "main" THEN replies
                  ELSE replies \cup {[revision |-> Head(queue).revision, value |-> Shown(preferences)]}
    /\ UNCHANGED <<preferences, mini, usageVars, page, events, requests>>

-----------------------------------------------------------------------------
(* The page of the mini window. *)

\* applyPreferences: another selection clears the list.
Applied(p, value) ==
    [p EXCEPT !.preferences = value,
              !.result = IF value.miniRange # p.preferences.miniRange THEN Nothing ELSE p.result]

\* renderApplications: a list of another selection is ignored.
Rendered(p, rows) == IF rows.range = p.preferences.miniRange THEN [p EXCEPT !.result = rows] ELSE p

\* An event arrives; nobody listens before the page has started.
Receive ==
    /\ events # <<>>
    /\ events' = Tail(events)
    /\ LET event == Head(events)
       IN  page' = IF page = Nothing THEN page
                   ELSE IF event \in Rows THEN Rendered(page, event)
                   ELSE [Applied(page, event) EXCEPT !.known = event, !.revision = @ + 1]
    /\ UNCHANGED <<preferences, queue, mini, usageVars, replies, requests>>

\* Mutant of Settle: an answer is taken for the newest.
SettleAlways(reply) == reply.value

\* An answer to a read or an update: if a preference event arrived since the
\* request, what that said is newer.
Settle(reply) == IF reply.revision = page.revision THEN reply.value ELSE page.known

Answer(reply) ==
    /\ reply \in replies
    /\ replies' = replies \ {reply}
    /\ page' = [Applied(page, Settle(reply)) EXCEPT !.known = Settle(reply)]
    /\ UNCHANGED <<preferences, queue, mini, usageVars, events, requests>>

Next ==
    \/ \E ok, online \in BOOLEAN : FlightEnds(ok, online)
    \/ \E stale, online \in BOOLEAN : PublishLive(stale, online)
    \/ Load \/ PageStarts
    \/ \E from \in {"mini", "main"} : \E patch \in Patches(from) : Request(from, patch)
    \/ Update \/ UpdateFails \/ Read
    \/ Receive \/ \E reply \in replies : Answer(reply)

Spec == Init /\ [][Next]_vars

-----------------------------------------------------------------------------
(* Properties. *)

\* When nothing is on its way, the page of the mini window shows the
\* preferences the host has, however events and answers overtook each other.
MiniShowsPreferences ==
    (page # Nothing /\ page.known # Nothing /\ queue = <<>> /\ events = <<>> /\ replies = {} /\ mini = "loaded")
        => page.preferences = Shown(preferences)

\* The rows the page lists are those of the time range it shows as selected.
RowsFitSelection ==
    (page # Nothing /\ page.result # Nothing)
        => page.result.rows \in {Nothing, page.preferences.miniRange}
=============================================================================
