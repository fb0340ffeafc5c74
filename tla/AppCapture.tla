----------------------------- MODULE AppCapture -----------------------------
(***************************************************************************)
(* Usage by application on Windows: the capture helper counts packets by   *)
(* process (platform/app_capture_cache.cpp), the session of the backend    *)
(* reads its snapshots (platform/win32/windows_app_traffic.cpp), and the   *)
(* service turns them into usage (core/app_usage_accumulator.cpp,          *)
(* collectApplications in ipc/service.cpp).  The counter of a process that *)
(* has exited is kept until a snapshot with its value was stored and       *)
(* acknowledged; packets that come later go to a row of their own.         *)
(*                                                                         *)
(* One interface, one direction and the processes of one application.  Of  *)
(* the pipe only the order of snapshots and acknowledgements matters: the  *)
(* helper takes what the session has queued at any time.  Gaps and live    *)
(* rates are left out, and so is the limit of rows; `running` stands for   *)
(* `partial`, too.                                                         *)
(***************************************************************************)
EXTENDS Integers, FiniteSetsExt

CONSTANTS
    Nothing,
    Processes, Networks,
    MaxCaptured, MaxFailures, MaxActs \* bounds: packets of a helper, failures, acts of the user

VARIABLES
    wifi, process,            \* the network of the interface, the state of each process
    helper, rows,             \* the helper, and the counters it keeps
    report, fresh,            \* the last snapshot, and whether it was not stored yet
    requested, acknowledgements, \* for the helper
    appEnabled, paused, pendingAppUsage, \* of the service
    known, counters, acknowledged, network, \* appAccumulator: known when it has a generation
    captured, stored, givenUp, upto, \* history of this helper: bytes it counted, that were
                              \* stored, or not attributed, and counted up to the last
                              \* snapshot the accumulator took
    failures, acts

systemVars == <<wifi, process>>
helperVars == <<helper, rows, captured>>
sessionVars == <<report, fresh, requested, acknowledgements>>
accumulatorVars == <<known, counters, acknowledged, network, stored, givenUp, upto>>
serviceVars == <<appEnabled, paused, pendingAppUsage>>
countVars == <<failures, acts>>
vars == <<systemVars, helperVars, sessionVars, accumulatorVars, serviceVars, countVars>>

Merged == {"retired", "unknown"} \* late packets of exited processes; packets of no known one
RowKeys == Processes \cup Merged
Row == [bytes : 0..MaxCaptured, active : BOOLEAN, published : 0..MaxCaptured]
Sample == [bytes : 0..MaxCaptured, active : BOOLEAN]
Reports == [state : {"disabled", "starting", "running", "permission", "unavailable"},
            samples : [RowKeys -> Sample \cup {Nothing}], sampled : BOOLEAN, upto : 0..MaxCaptured]

\* Type invariant.
TypeOK ==
    /\ wifi \in Networks \cup {Nothing} /\ process \in [Processes -> {"new", "running", "exited"}]
    /\ helper \in {"off", "starting", "running"} /\ rows \in [RowKeys -> Row \cup {Nothing}]
    /\ report \in Reports
    /\ acknowledgements \in [Processes -> 0..MaxCaptured \cup {Nothing}]
    /\ {fresh, requested, appEnabled, paused, known} \subseteq BOOLEAN
    /\ pendingAppUsage = Nothing
         \/ pendingAppUsage \in [report : Reports, wifi : Networks \cup {Nothing}, last : BOOLEAN]
    /\ counters \in [RowKeys -> 0..MaxCaptured] /\ acknowledged \subseteq Processes
    /\ network \in Networks \cup {Nothing}
    /\ {captured, stored, givenUp, upto} \subseteq 0..MaxCaptured
    /\ failures \in 0..MaxFailures /\ acts \in 0..MaxActs

NoRows == [k \in RowKeys |-> Nothing]
Report(state) == [state |-> state, samples |-> NoRows, sampled |-> FALSE, upto |-> 0]
NoAcknowledgements == [p \in Processes |-> Nothing]

Init ==
    /\ wifi \in Networks \cup {Nothing} /\ process = [p \in Processes |-> "new"]
    /\ helper = "off" /\ rows = NoRows
    /\ report = Report("disabled") /\ fresh = FALSE /\ requested = FALSE
    /\ acknowledgements = NoAcknowledgements
    /\ appEnabled = FALSE /\ paused = FALSE /\ pendingAppUsage = Nothing
    /\ known = FALSE /\ counters = [k \in RowKeys |-> 0] /\ acknowledged = {} /\ network = Nothing
    /\ captured = 0 /\ stored = 0 /\ givenUp = 0 /\ upto = 0
    /\ failures = 0 /\ acts = 0

-----------------------------------------------------------------------------
(* The machine. *)

\* What the listed keys have counted beyond the given values.
Beyond(list, values, keys) == MapThenSumSet(LAMBDA k : list[k].bytes - values[k], keys)

\* Each spends one of a bound.
Act == acts < MaxActs /\ acts' = acts + 1
Fault == failures < MaxFailures /\ failures' = failures + 1

Roam ==
    /\ Act /\ wifi' \in (Networks \cup {Nothing}) \ {wifi}
    /\ UNCHANGED <<process, helperVars, sessionVars, accumulatorVars, serviceVars, failures>>

Runs(p) ==
    /\ process[p] # "exited"
    /\ process' = [process EXCEPT ![p] = IF @ = "new" THEN "running" ELSE "exited"]
    /\ UNCHANGED <<wifi, helperVars, sessionVars, accumulatorVars, serviceVars, countVars>>

-----------------------------------------------------------------------------
(* The helper. *)

\* add: the row of the process while there is one; without one, a process that
\* has exited is only found among the identities remembered, if at all.
RowsFor(p) ==
    IF rows[p] # Nothing \/ process[p] = "running" THEN {p}
    ELSE {"unknown"} \cup (IF rows["retired"] # Nothing THEN {"retired"} ELSE {p})

Added(old, active, bytes) ==
    IF old = Nothing THEN [bytes |-> bytes, active |-> active, published |-> 0]
    ELSE [old EXCEPT !.bytes = @ + bytes]

\* A packet is traced, perhaps after its process has exited.
Packet(p) ==
    /\ helper = "running" /\ captured < MaxCaptured /\ process[p] # "new"
    /\ \E k \in RowsFor(p) :
          rows' = [rows EXCEPT ![k] = Added(@, k = p /\ process[p] = "running", 1)]
    /\ captured' = captured + 1
    /\ UNCHANGED <<systemVars, helper, sessionVars, accumulatorVars, serviceVars, countVars>>

\* What the session publishes; a snapshot that waits to be stored is the last no more.
Publish(r) ==
    /\ report' = r /\ fresh' = TRUE
    /\ pendingAppUsage' = IF pendingAppUsage = Nothing THEN Nothing
                          ELSE [pendingAppUsage EXCEPT !.last = FALSE]

\* read(), snapshot(): exits are noticed now.
Snapshot ==
    /\ helper = "running" /\ requested
    /\ rows' = [k \in RowKeys |->
                  IF rows[k] = Nothing THEN Nothing
                  ELSE [rows[k] EXCEPT !.published = rows[k].bytes,
                            !.active = @ /\ k \in Processes /\ process[k] = "running"]]
    /\ Publish([state |-> "running", sampled |-> TRUE, upto |-> captured,
                samples |-> [k \in RowKeys |->
                    IF rows[k] = Nothing THEN Nothing
                    ELSE [bytes |-> rows'[k].bytes, active |-> rows'[k].active]]])
    /\ requested' = FALSE
    /\ UNCHANGED <<systemVars, helper, captured, acknowledgements, accumulatorVars, appEnabled, paused,
                   countVars>>

\* An acknowledgement counts if no larger value was published since.
Current(row, bytes) == ~row.active /\ bytes <= row.bytes /\ bytes >= row.published

\* acknowledge: the rows of exited processes go, what came after the snapshot
\* goes on in the row of late packets.
Acknowledge ==
    /\ helper = "running" /\ acknowledgements # NoAcknowledgements
    /\ LET gone == {p \in Processes : /\ acknowledgements[p] # Nothing /\ rows[p] # Nothing
                                      /\ Current(rows[p], acknowledgements[p])}
           late == Beyond(rows, acknowledgements, gone)
       IN  rows' = [k \in RowKeys |-> IF k \in gone THEN Nothing
                                      ELSE IF k = "retired" /\ gone # {} THEN Added(rows[k], FALSE, late)
                                      ELSE rows[k]]
    /\ acknowledgements' = NoAcknowledgements
    /\ UNCHANGED <<systemVars, helper, captured, report, fresh, requested, accumulatorVars, serviceVars,
                   countVars>>

\* The helper starts to trace, is refused by the user or cannot start.
HelperStarts ==
    /\ helper = "starting"
    /\ \/ helper' = "running" /\ Publish(Report("running")) /\ UNCHANGED failures
       \/ /\ helper' = "off" /\ Fault
          /\ \E state \in {"permission", "unavailable"} : Publish(Report(state))
    /\ UNCHANGED <<systemVars, rows, captured, requested, acknowledgements, accumulatorVars, appEnabled,
                   paused, acts>>

\* A snapshot fails, or the helper dies or does not answer.
HelperFails ==
    /\ helper = "running" /\ Fault
    /\ Publish(Report("unavailable"))
    /\ requested' = FALSE
    /\ \/ requested /\ UNCHANGED <<helper, rows, acknowledgements>>
       \/ helper' = "off" /\ rows' = NoRows /\ acknowledgements' = NoAcknowledgements
    /\ UNCHANGED <<systemVars, captured, accumulatorVars, appEnabled, paused, acts>>

-----------------------------------------------------------------------------
(* The accumulator. *)

Cleared ==
    /\ known' = FALSE /\ counters' = [k \in RowKeys |-> 0] /\ acknowledged' = {} /\ network' = Nothing

\* accumulate: the growth of each counter belongs to the network if the
\* interface was on it at both ends; then acknowledged rows that have gone
\* are forgotten.  Of the first snapshot only the counters are taken.
Accumulate(item) ==
    LET samples == item.report.samples
        present == {k \in RowKeys : samples[k] # Nothing}
        grown == {k \in present : samples[k].bytes >= counters[k]}
        bytes == Beyond(samples, counters, grown)
        attributed == item.wifi # Nothing /\ network = item.wifi
        gone == acknowledged \ present
    IN  /\ counters' = [k \in RowKeys |-> IF k \in present THEN samples[k].bytes
                                          ELSE IF k \in gone /\ known THEN 0
                                          ELSE IF known THEN counters[k] ELSE 0]
        \* acknowledge: exited processes with the values now stored
        /\ acknowledged' = (IF known THEN acknowledged \cap present ELSE {})
                               \cup {p \in present \cap Processes : ~samples[p].active}
        /\ network' = item.wifi /\ known' = TRUE /\ upto' = item.report.upto
        /\ IF ~known THEN givenUp' = item.report.upto - stored /\ UNCHANGED stored
           ELSE IF attributed THEN stored' = stored + bytes /\ UNCHANGED givenUp
           ELSE givenUp' = givenUp + bytes /\ UNCHANGED stored

-----------------------------------------------------------------------------
(* The service. *)

\* The transaction of collectApplications, and what follows it.
Commit(item) ==
    /\ IF item.report.state = "running" THEN Accumulate(item)
       ELSE Cleared /\ UNCHANGED <<stored, givenUp, upto>>
    /\ pendingAppUsage' = Nothing

\* The session queues what was stored of exited processes.
QueueAcknowledgements(samples) ==
    acknowledgements' = [p \in Processes |->
        IF samples[p] = Nothing \/ samples[p].active THEN acknowledgements[p]
        ELSE IF acknowledgements[p] # Nothing /\ acknowledgements[p] > samples[p].bytes
        THEN acknowledgements[p] ELSE samples[p].bytes]

\* Nothing new was published since the last stored snapshot.  What the helper
\* reports as it starts has no time and never counts as old.
Stale(item) == item.report.sampled /\ known /\ ~fresh /\ pendingAppUsage = Nothing

\* A round reads the last snapshot and asks for the next, or retries the one
\* that could not be stored.
CollectApplications ==
    /\ ~paused /\ (appEnabled \/ pendingAppUsage # Nothing)
    /\ LET item == IF pendingAppUsage # Nothing THEN pendingAppUsage
                   ELSE [report |-> report, wifi |-> wifi, last |-> TRUE]
           refused == item.report.state = "permission"
       IN  /\ appEnabled' = (appEnabled /\ ~refused)
           /\ requested' = (helper # "off" /\ (pendingAppUsage = Nothing \/ requested))
           /\ \/ /\ Stale(item)
                 /\ UNCHANGED <<acknowledgements, fresh, pendingAppUsage, accumulatorVars, failures>>
              \/ /\ ~Stale(item) /\ Commit(item) /\ QueueAcknowledgements(item.report.samples)
                 /\ fresh' = (fresh /\ ~item.last) /\ UNCHANGED failures
              \/ /\ ~Stale(item) /\ Fault /\ pendingAppUsage' = item
                 /\ UNCHANGED <<acknowledgements, fresh, accumulatorVars>>
    /\ UNCHANGED <<systemVars, helperVars, report, paused, acts>>

\* stop() of the source, then start() if on, with the accumulator cleared.  The
\* new helper counts from zero.
Restart(on) ==
    /\ helper' = (IF on THEN "starting" ELSE "off") /\ rows' = NoRows
    /\ report' = Report(IF on THEN "starting" ELSE "disabled") /\ fresh' = FALSE /\ requested' = FALSE
    /\ acknowledgements' = NoAcknowledgements
    /\ captured' = 0 /\ stored' = 0 /\ givenUp' = 0 /\ upto' = 0
    /\ Cleared

\* setPaused and setAppCollection first store what waits: the new accounts
\* begin after it.  An item waiting while applications are off is that of the
\* refusal.
SetPaused(value) ==
    /\ Act /\ value # paused
    /\ paused' = value /\ pendingAppUsage' = Nothing
    /\ IF appEnabled THEN Restart(~value) ELSE UNCHANGED <<helperVars, sessionVars, accumulatorVars>>
    /\ UNCHANGED <<systemVars, appEnabled, failures>>

SetAppCollection(enabled) ==
    /\ Act
    /\ appEnabled' = enabled /\ pendingAppUsage' = Nothing
    /\ Restart(enabled /\ ~paused)
    /\ UNCHANGED <<systemVars, paused, failures>>

\* A failing flush refuses the request.
Refused ==
    /\ Act /\ pendingAppUsage # Nothing /\ Fault
    /\ UNCHANGED <<systemVars, helperVars, sessionVars, accumulatorVars, serviceVars>>

\* clearUsage and restore drop what waits.
ClearUsage ==
    /\ Act /\ pendingAppUsage' = Nothing /\ paused' = TRUE
    /\ Restart(FALSE)
    /\ UNCHANGED <<systemVars, appEnabled, failures>>

Next ==
    \/ Roam \/ Snapshot \/ Acknowledge \/ HelperStarts \/ HelperFails
    \/ \E p \in Processes : Runs(p) \/ Packet(p)
    \/ CollectApplications \/ Refused \/ ClearUsage
    \/ \E on \in BOOLEAN : SetPaused(on) \/ SetAppCollection(on)

Spec == Init /\ [][Next]_vars

-----------------------------------------------------------------------------
(* Properties. *)

\* Each byte the helper counted up to the last snapshot taken was stored or
\* given up, and once: however processes exit, packets come late, snapshots
\* and acknowledgements overtake each other and transactions fail.
AppBytesOnce == known => stored + givenUp = upto /\ upto <= captured

\* The counters of exited processes do not pile up: when the last snapshot is
\* stored and its acknowledgements delivered, none is left.
ExitedAreRetired ==
    helper = "running" /\ known /\ ~fresh /\ pendingAppUsage = Nothing
        /\ acknowledgements = NoAcknowledgements /\ captured = report.upto
      => \A p \in Processes : rows[p] # Nothing => rows[p].active
=============================================================================
