------------------------------ MODULE LiveSync ------------------------------
(***************************************************************************)
(* How the page keeps its copy of the usage records equal to the database. *)
(* The backend answers one request at a time and pushes an event for what  *)
(* it commits; the page (renderer/data/backend-client.js) replaces its     *)
(* copy by the answer to a snapshot query, adds the events to it, and adds *)
(* again those that arrived during the query and are newer than the        *)
(* snapshot, by the revision that answers and events carry.                *)
(*                                                                         *)
(* Both travel on the one output stream of the backend.  The host forwards *)
(* an event while it reads the stream and an answer only after it has been *)
(* awaited, so an event may overtake the answers written before it; it     *)
(* never falls behind one.                                                 *)
(***************************************************************************)
EXTENDS Integers, FiniteSets, SequencesExt

CONSTANTS
    Days,
    Ranges,         \* the date ranges a user may choose
    MaxRounds, MaxRequests      \* bounds

ASSUME RangesAssumption == Ranges \subseteq SUBSET Days /\ Ranges # {}
ASSUME BoundsAssumption == MaxRounds \in Nat /\ MaxRequests \in Nat

VARIABLES
    \* The backend: the stored records, the application batch that could not be
    \* stored, usageRevision_
    running, revision, records, apps, deferred,
    \* Requests to the backend, and what it wrote that has not arrived
    inbox, wire,
    \* The page: its copy, the range it shows, whether it has subscribed, the
    \* number of the latest query, and the events of the query under way
    view, range, subscribed, loaded, version, query,
    \* History
    requests,
    past,           \* which of the events in Past have happened
    doubled         \* a record was added to a copy that already had it

backendVars == <<running, revision, records, apps, deferred>>
pageVars    == <<view, range, subscribed, loaded, version, query>>
vars == <<backendVars, inbox, wire, pageVars, requests, past, doubled>>

\* A request committed an application batch; records were cleared by a request
\* that then failed.
Past == {"late", "half"}

\* What one round stores: a network's bytes or an application's.
Record == [id : 1 .. MaxRounds, day : Days]

Event    == [type : {"usage", "appUsage"}, revision : 1 .. MaxRounds,
             record : Record, total : Nat]
NoQuery  == [version |-> 0, events |-> <<>>]
EmptyView == [records |-> {}, apps |-> {}, total |-> 0]

InRange(S, days) == {r \in S : r.day \in days}

Init ==
    /\ running = TRUE
    /\ revision = 0
    /\ records = {}
    /\ apps = {}
    /\ deferred = {}
    /\ inbox = <<>>
    /\ wire = <<>>
    /\ view = EmptyView
    /\ range \in Ranges
    /\ subscribed = FALSE
    /\ loaded = FALSE
    /\ version = 0
    /\ query = NoQuery
    /\ requests = 0
    /\ past = {}
    /\ doubled = FALSE

-----------------------------------------------------------------------------
(* The backend.                                                            *)

usageEvent(r) ==
    [type |-> "usage", revision |-> revision', record |-> r,
     total |-> Cardinality(records')]

\* Mutant of appEvents: the revision is read before it is incremented.
appEventsBehind(batch) ==
    SetToSeq({[type |-> "appUsage", revision |-> revision, record |-> r,
               total |-> 0] : r \in batch})

\* An application batch is announced with the revision at that moment.
appEvents(batch) ==
    SetToSeq({[type |-> "appUsage", revision |-> revision', record |-> r,
               total |-> 0] : r \in batch})

\* collectOnce: the networks are committed under a new revision; then the
\* applications, those of the deferred batch first, or nothing of them.
CollectOnce(day) ==
    LET r == [id |-> revision + 1, day |-> day]
    IN  /\ running
        /\ revision < MaxRounds
        /\ revision' = revision + 1
        /\ records' = records \cup {r}
        /\ \E batch \in IF deferred = {} THEN {{}, {r}} ELSE {deferred} :
              \/ /\ apps' = apps \cup batch
                 /\ deferred' = {}
                 /\ wire' = wire \o appEvents(batch) \o <<usageEvent(r)>>
              \/ /\ UNCHANGED apps
                 /\ deferred' = batch
                 /\ wire' = Append(wire, usageEvent(r))
        /\ UNCHANGED <<running, inbox, pageVars, requests, past, doubled>>

Answer(request) == [type |-> "answer", request |-> request]
Failure(request) == [type |-> "failure", request |-> request]

\* What the backend does with a request, and writes: the answer first, then the
\* events of what the request committed.
Snapshot(request) ==
    /\ \/ wire' = Append(wire,
                [type |-> "answer", request |-> request, revision |-> revision,
                 copy |-> [records |-> InRange(records, request.range),
                           apps    |-> InRange(apps, request.range),
                           total   |-> Cardinality(records)]])
       \/ wire' = Append(wire, Failure(request))
    /\ UNCHANGED <<backendVars, past>>

\* The applications are stored before the state changes, or nothing happens.
SetPaused(request) ==
    \/ /\ running' = ~request.paused
       /\ apps' = apps \cup deferred
       /\ deferred' = {}
       /\ past' = IF deferred = {} THEN past ELSE past \cup {"late"}
       /\ UNCHANGED <<revision, records>>
       /\ wire' = Append(wire, Answer(request)) \o appEvents(deferred)
    \/ /\ deferred # {}
       /\ wire' = Append(wire, Failure(request))
       /\ UNCHANGED <<backendVars, past>>

\* Clearing fails before anything is cleared, or after the records are gone: then
\* collection goes on and the page is told that it failed.
ClearUsage(request) ==
    \/ /\ records' = {}
       /\ apps' = {}
       /\ deferred' = {}
       /\ \/ /\ running' = FALSE
             /\ wire' = Append(wire, Answer(request))
             /\ UNCHANGED past
          \/ /\ UNCHANGED running
             /\ wire' = Append(wire, Failure(request))
             /\ past' = past \cup {"half"}
       /\ UNCHANGED revision
    \/ /\ wire' = Append(wire, Failure(request))
       /\ UNCHANGED <<backendVars, past>>

Handle ==
    /\ inbox # <<>>
    /\ LET request == Head(inbox)
       IN  CASE request.method = "snapshot"   -> Snapshot(request)
             [] request.method = "setPaused"  -> SetPaused(request)
             [] request.method = "clearUsage" -> ClearUsage(request)
    /\ inbox' = Tail(inbox)
    /\ UNCHANGED <<pageVars, requests, doubled>>

-----------------------------------------------------------------------------
(* The page: applying events to its copy.                                  *)

IsEvent(message) == message.type \in {"usage", "appUsage"}

\* Adding an event to a copy that shows days.  Its bytes are added to the row of
\* their day, whether they are in it already or not.
Applied(copy, event, days) ==
    CASE event.type = "usage" ->
            [copy EXCEPT !.records = @ \cup InRange({event.record}, days),
                         !.total = event.total]
      [] event.type = "appUsage" ->
            [copy EXCEPT !.apps = @ \cup InRange({event.record}, days)]

CountsTwice(copy, event) ==
    \/ event.type = "usage" /\ event.record \in copy.records
    \/ event.type = "appUsage" /\ event.record \in copy.apps

\* Mutants of Newer: events of the snapshot's own revision count as newer, and
\* all events are taken to be in the snapshot.
NewerOrSame(event, answer) == event.revision >= answer.revision
NeverNewer(event, answer)  == FALSE

\* The snapshot cannot contain the event.
Newer(event, answer) == event.revision > answer.revision

\* restorePendingEvents: the copy of the answer, after the events newer than it
\* among the first k that came while it was awaited.
Restored(answer, events) ==
    LET copy[k \in 0 .. Len(events)] ==
            IF k = 0 THEN answer.copy
            ELSE IF Newer(events[k], answer)
                 THEN Applied(copy[k - 1], events[k], answer.request.range)
                 ELSE copy[k - 1]
    IN  copy[Len(events)]

-----------------------------------------------------------------------------
(* The page: requests.                                                     *)

Send(request) ==
    /\ requests < MaxRequests
    /\ requests' = requests + 1
    /\ inbox' = Append(inbox, request)

\* queryRange, after start has subscribed: a new query replaces the one under
\* way, whose answer will be ignored.
QueryRange(days) ==
    /\ Send([method |-> "snapshot", version |-> version + 1, range |-> days])
    /\ version' = version + 1
    /\ query' = [version |-> version + 1, events |-> <<>>]
    /\ subscribed' = TRUE
    /\ range' = IF subscribed THEN range ELSE days
    /\ UNCHANGED <<backendVars, wire, view, loaded, past, doubled>>

\* The dialog that clears waits for the answer before anything else is sent but
\* queries.
Clearing ==
    \E k \in DOMAIN inbox : inbox[k].method = "clearUsage"
ClearAnswered == \A k \in DOMAIN wire :
    ~IsEvent(wire[k]) => wire[k].request.method # "clearUsage"

Request(request) ==
    /\ subscribed
    /\ ~Clearing /\ ClearAnswered
    /\ Send(request)
    /\ UNCHANGED <<backendVars, wire, pageVars, past, doubled>>

-----------------------------------------------------------------------------
(* The page: what arrives.                                                 *)

\* rememberEvent: a query under way keeps the events that come before its answer.
Remembered(pending, event) ==
    IF pending = NoQuery THEN pending ELSE [pending EXCEPT !.events = Append(@, event)]

\* The first event on the wire may overtake the answers before it.
EventArrives(k) ==
    LET event == wire[k]
    IN  /\ IsEvent(event)
        /\ \A j \in 1 .. (k - 1) : ~IsEvent(wire[j])
        /\ wire' = RemoveAt(wire, k)
        /\ IF subscribed
           THEN /\ view' = Applied(view, event, range)
                /\ query' = Remembered(query, event)
                /\ doubled' = (doubled \/ CountsTwice(view, event))
           ELSE UNCHANGED <<view, query, doubled>>
        /\ UNCHANGED <<backendVars, inbox, range, subscribed, loaded, version,
                       requests, past>>

\* The answer to the latest query: the copy is replaced, then brought forward.
SnapshotArrives(answer) ==
    /\ view' = Restored(answer, query.events)
    /\ doubled' = (doubled \/ \E k \in DOMAIN query.events :
                      Newer(query.events[k], answer) /\ CountsTwice(answer.copy, query.events[k]))
    /\ range' = answer.request.range
    /\ loaded' = TRUE
    /\ query' = NoQuery

CopyCleared ==
    /\ view' = EmptyView
    /\ UNCHANGED <<range, loaded, query, doubled>>

AnswerArrives ==
    /\ wire # <<>>
    /\ ~IsEvent(Head(wire))
    /\ LET answer  == Head(wire)
           request == answer.request
       IN  CASE answer.type = "answer" /\ request.method = "snapshot"
                    /\ request.version = version -> SnapshotArrives(answer)
             [] answer.type = "failure" /\ request.method = "snapshot"
                    /\ request.version = version ->
                        query' = NoQuery /\ UNCHANGED <<view, range, loaded, doubled>>
             [] answer.type = "answer" /\ request.method = "clearUsage" -> CopyCleared
             [] OTHER -> UNCHANGED <<view, range, loaded, query, doubled>>
    /\ wire' = Tail(wire)
    /\ UNCHANGED <<backendVars, inbox, subscribed, version, requests, past>>

Next ==
    \/ \E day \in Days : CollectOnce(day)
    \/ Handle
    \/ \E days \in Ranges : QueryRange(days)
    \/ \E p \in BOOLEAN : Request([method |-> "setPaused", paused |-> p])
    \/ Request([method |-> "clearUsage"])
    \/ \E k \in DOMAIN wire : EventArrives(k)
    \/ AnswerArrives

Spec == Init /\ [][Next]_vars

-----------------------------------------------------------------------------
Requests == [method : {"snapshot"}, version : 1 .. MaxRequests, range : Ranges]
            \cup [method : {"setPaused"}, paused : BOOLEAN]
            \cup [method : {"clearUsage"}]

TypeOK ==
    /\ running \in BOOLEAN
    /\ revision \in 0 .. MaxRounds
    /\ records \cup apps \cup deferred \subseteq Record
    /\ Cardinality(deferred) <= 1
    /\ \A k \in DOMAIN inbox : inbox[k] \in Requests
    /\ \A k \in DOMAIN wire :
          IF IsEvent(wire[k]) THEN wire[k] \in Event ELSE wire[k].request \in Requests
    /\ view.records \cup view.apps \subseteq Record /\ view.total \in Nat
    /\ range \in Ranges
    /\ subscribed \in BOOLEAN /\ loaded \in BOOLEAN /\ doubled \in BOOLEAN
    /\ version \in 0 .. MaxRequests
    /\ query.events \in Seq(Event)
    /\ past \subseteq Past

\* Nothing is under way, and the page has shown records before.
Settled == inbox = <<>> /\ wire = <<>> /\ query = NoQuery /\ loaded

(***************************************************************************)
(* Once everything sent has arrived, the page shows the stored records of  *)
(* its range and their total, whatever was committed, cleared or queried   *)
(* in between, and whichever queries were replaced or failed.  Only a      *)
(* clear that failed half way leaves it showing what is gone.              *)
(***************************************************************************)
RecordsExact ==
    Settled /\ "half" \notin past =>
        /\ view.records = InRange(records, range)
        /\ view.total = Cardinality(records)

\* The same of the application records, unless a request committed some.
AppsExact ==
    Settled /\ past = {} => view.apps = InRange(apps, range)

(***************************************************************************)
(* No bytes are added to a copy that holds them: not when a snapshot and   *)
(* the event of the same commit cross, not when an old query is replaced.  *)
(***************************************************************************)
NeverTwice == ~doubled

-----------------------------------------------------------------------------
\* backend-client.js: samples committed after the snapshot, while it is queried,
\* are restored.  The revision of an application batch that a request commits
\* does not tell it from the snapshot's own.
RestoresLaterCommits ==
    Settled /\ "half" \notin past => view.apps = InRange(apps, range)
=============================================================================
