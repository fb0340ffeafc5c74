------------------------------- MODULE PageRows -------------------------------
(***************************************************************************)
(* The application rows the page derives from what it holds: selection by  *)
(* a range (renderer/data/history.js), grouping (history.js,               *)
(* minute-usage.js, application-view.js) and the estimate that replaces a  *)
(* proxy's own rows by its clients' (proxy.js).  Native usage arrives as   *)
(* increments, an estimate as the complete rows of one proxy and day, in   *)
(* events of their own (backend-client.js).                                *)
(*                                                                         *)
(* The page shows one network; keys are compared as the code does after    *)
(* folding case.  Two minutes make an hour.                                *)
(***************************************************************************)
EXTENDS Integers, FiniteSetsExt

CONSTANTS Dates, LastTime, Apps, Proxies, Clients, Nothing,
          MaxEvents \* bound: commits and estimates

VARIABLES
    native,    \* the backend's usage, for each date, minute and application
    estimates, \* the backend's estimates, for each date and proxy
    unseen,    \* estimates changed and not delivered to the page yet
    increments, \* usage committed and not delivered yet
    minuteRecords, proxyRecords, \* the page's rows
    events

vars == <<native, estimates, unseen, increments, minuteRecords, proxyRecords, events>>

Times == 0..LastTime
Bytes == [rx : 0..MaxEvents, tx : 0..MaxEvents]
Zero == [rx |-> 0, tx |-> 0]
Plus(a, b) == [rx |-> a.rx + b.rx, tx |-> a.tx + b.tx]
Minutes == Dates \X Times \X Apps
Groups == Dates \X Proxies

\* Type invariant.
TypeOK ==
    /\ native \in [Minutes -> Bytes] /\ minuteRecords \in [Minutes -> Bytes]
    /\ estimates \in [Groups -> [Clients -> Bytes]] /\ proxyRecords \in [Groups -> [Clients -> Bytes]]
    /\ unseen \subseteq Groups /\ increments \in [Minutes -> Bytes] /\ events \in 0..MaxEvents

Init ==
    /\ native = [m \in Minutes |-> Zero] /\ minuteRecords = native /\ increments = native
    /\ estimates = [g \in Groups |-> [c \in Clients |-> Zero]] /\ proxyRecords = estimates
    /\ unseen = {} /\ events = 0

\* external: the backend commits a sample; it estimates who used a proxy, then
\* or later, from what it saw of its connections.
Commit(m, bytes) ==
    /\ events < MaxEvents /\ events' = events + 1
    /\ native' = [native EXCEPT ![m] = Plus(@, bytes)]
    /\ increments' = [increments EXCEPT ![m] = Plus(@, bytes)]
    /\ UNCHANGED <<estimates, unseen, minuteRecords, proxyRecords>>
Estimate(g, c, bytes) ==
    /\ events < MaxEvents /\ events' = events + 1
    /\ estimates' = [estimates EXCEPT ![g] = [@ EXCEPT ![c] = bytes]]
    /\ unseen' = unseen \cup {g}
    /\ UNCHANGED <<native, increments, minuteRecords, proxyRecords>>

\* applyAppUsageEvent adds, applyProxyEstimatedUpdates replaces a group.
UsageArrives(m) ==
    /\ increments[m] # Zero /\ increments' = [increments EXCEPT ![m] = Zero]
    /\ minuteRecords' = [minuteRecords EXCEPT ![m] = Plus(@, increments[m])]
    /\ UNCHANGED <<native, estimates, unseen, proxyRecords, events>>
EstimateArrives(g) ==
    /\ g \in unseen /\ unseen' = unseen \ {g}
    /\ proxyRecords' = [proxyRecords EXCEPT ![g] = estimates[g]]
    /\ UNCHANGED <<native, estimates, increments, minuteRecords, events>>

Samples == {[rx |-> 1, tx |-> 0], [rx |-> 0, tx |-> 1]}
Next ==
    \/ \E m \in Minutes : UsageArrives(m) \/ (\E b \in Samples : Commit(m, b))
    \/ \E g \in Groups : EstimateArrives(g) \/ (\E c \in Clients, b \in Samples : Estimate(g, c, b))

Spec == Init /\ [][Next]_vars

-----------------------------------------------------------------------------
\* Rows: of the minutes, and of the days they add up to (a day has no time).
Row(date, time, app, estimated, bytes) ==
    [date |-> date, time |-> time, app |-> app, estimated |-> estimated, rx |-> bytes.rx, tx |-> bytes.tx]
Total(rows) == [rx |-> MapThenSumSet(LAMBDA r : r.rx, rows), tx |-> MapThenSumSet(LAMBDA r : r.tx, rows)]
MinuteRows == {Row(m[1], m[2], m[3], Nothing, minuteRecords[m]) : m \in {n \in Minutes : minuteRecords[n] # Zero}}
DayRows ==
    { Row(k[1], -1, k[2], Nothing, Total({r \in MinuteRows : r.date = k[1] /\ r.app = k[2]})) :
        k \in {<<r.date, r.app>> : r \in MinuteRows} }
EstimatedRows(g) == {Row(g[1], -1, c, g[2], proxyRecords[g][c]) : c \in {d \in Clients : proxyRecords[g][d] # Zero}}

\* Mutant of Covers: only one direction is compared.
CoversDownload(rows, measured) == Total(rows).rx = Total(measured).rx

\* validatedProxyGroups: groups that cover exactly the native bytes.
Covers(rows, measured) == Total(rows) = Total(measured)
validatedProxyGroups ==
    {g \in Groups : LET own == {r \in DayRows : r.date = g[1] /\ r.app = g[2]}
                    IN  own # {} /\ EstimatedRows(g) # {} /\ Covers(EstimatedRows(g), own)}
proxyUsageRecords ==
    {r \in DayRows : <<r.date, r.app>> \notin validatedProxyGroups}
        \cup UNION {EstimatedRows(g) : g \in validatedProxyGroups}

\* A range: dates and the first and last minute of its first and last date;
\* the first and last minute of a day do not bound it.
Between(start, from, end, to) == [start |-> start, from |-> from, end |-> end, to |-> to]
recordInRange(r, q) ==
    /\ q.start <= r.date /\ r.date <= q.end
    /\ r.date = q.start /\ q.from # 0 => r.time # -1 /\ r.time >= q.from
    /\ r.date = q.end /\ q.to # LastTime => r.time # -1 /\ r.time <= q.to

Bucket(r, grouping) ==
    CASE grouping = "minute"  -> <<r.date, r.time>>
      [] grouping = "hour"    -> <<r.date, r.time \div 2>>
      [] grouping = "day"     -> <<r.date>>
      [] grouping = "summary" -> <<>>
\* applicationRows, applicationSummary: the selected rows, one for each bucket,
\* application and source.
applicationRows(records, q, grouping) ==
    LET selected == {r \in records : recordInRange(r, q) /\ (grouping \in {"minute", "hour"} => r.time # -1)}
        Key(r) == <<Bucket(r, grouping), r.app, r.estimated>>
    IN  {[key |-> k, rx |-> Total({r \in selected : Key(r) = k}).rx,
                     tx |-> Total({r \in selected : Key(r) = k}).tx] : k \in {Key(r) : r \in selected}}

-----------------------------------------------------------------------------
\* Replacing proxies by their clients neither adds nor loses a byte of a day,
\* whatever part of the usage and of the estimates has arrived.
EstimatesKeepTotals ==
    \A d \in Dates : Total(applicationRows(proxyUsageRecords, Between(d, 0, d, LastTime), "day"))
                       = Total({r \in DayRows : r.date = d})

\* Two ranges that meet, of one date and of the next, show together what the range
\* over both shows, in every grouping: the minute between them is counted once.
Groupings == {"minute", "hour", "summary"}
RangesAddUp ==
    \A s, e \in Dates, from, to, split \in Times, grouping \in Groupings :
        s < e /\ (\A d \in Dates : ~(s < d /\ d < e)) /\ split < LastTime =>
            Total(applicationRows(MinuteRows, Between(s, from, e, to), grouping))
              = Plus(Total(applicationRows(MinuteRows, Between(s, from, s, LastTime), grouping)),
                     IF to <= split THEN Total(applicationRows(MinuteRows, Between(e, 0, e, to), grouping))
                     ELSE Plus(Total(applicationRows(MinuteRows, Between(e, 0, e, split), grouping)),
                               Total(applicationRows(MinuteRows, Between(e, split + 1, e, to), grouping))))

==============================================================================
