---------------------------- MODULE CoverageGaps ----------------------------
(***************************************************************************)
(* The coverage gaps of the network scope: the table that tells times      *)
(* without data from times without traffic.  One interface is followed.    *)
(* Its rounds come from the accumulator as in UsageCollector; here the     *)
(* bytes are left out, and the time a delta or an event stands for is kept *)
(* as a set of time units: unit t is the interval from t to t + 1.  The    *)
(* clock only moves forward.                                               *)
(***************************************************************************)
EXTENDS Integers, FiniteSets, SequencesExt

CONSTANTS
    Networks,
    NoNetwork,      \* not associated
    AnyNetwork,     \* the empty network key of a gap
    BaselineTtl,
    MaxTime, MaxRows, MaxFailures, MaxSteps     \* bounds

ASSUME NamesAssumption == {NoNetwork, AnyNetwork} \cap Networks = {}
ASSUME TtlAssumption == BaselineTtl \in Nat
ASSUME BoundsAssumption == MaxTime \in Nat

VARIABLES
    now,
    \* The backend process
    alive, paused,
    baseline,       \* at most one
    pending,        \* at most one batch
    \* The database and the exported backup (at most one)
    rows,           \* coverage_gaps in the order of their ids
    measured,       \* the time the stored deltas stand for
    archive,
    failures, steps,
    \* History
    owed,           \* time that rounds took from a baseline
    announced,      \* a pause is in effect that left its gap
    noted           \* the time spent in such pauses

processVars == <<alive, paused, baseline, pending>>
tableVars   == <<rows, measured>>
gapHistoryVars == <<owed, announced, noted>>
gapsVars == <<now, processVars, tableVars, archive, failures, steps, gapHistoryVars>>

Open == -1
Time == 0 .. MaxTime
Units(from, to) == from .. (to - 1)

Reasons == {"paused", "counterReset", "reattributed", "detached"}
Kinds   == {"delta", "baseline", "counterReset", "reattributed", "detached"}
Batch   == [kind : Kinds, network : Networks \cup {AnyNetwork},
            from : Time, to : Time]

\* A row of coverage_gaps.  stale is history: the row was left open by a write
\* that should have closed it.
Row == [network : Networks \cup {AnyNetwork}, reason : Reasons,
        start : Time, end : Time \cup {Open}, stale : BOOLEAN]

UnitsOf(row) == Units(row.start, IF row.end = Open THEN now ELSE row.end)

GapsInit ==
    /\ now = 0
    /\ alive = TRUE
    /\ paused \in BOOLEAN
    /\ baseline = {}
    /\ pending = {}
    /\ rows = <<>>
    /\ measured = {}
    /\ archive = {}
    /\ failures = 0
    /\ steps = 0
    /\ owed = {}
    /\ announced = FALSE
    /\ noted = {}

-----------------------------------------------------------------------------
Tick ==
    /\ now < MaxTime
    /\ now' = now + 1
    /\ noted' = IF announced /\ alive THEN noted \cup {now} ELSE noted
    /\ UNCHANGED <<processVars, tableVars, archive, failures, steps, owed,
                   announced>>

-----------------------------------------------------------------------------
(* UsageRepository: addGap and closeOpenGaps.                              *)

\* The latest row a gap that starts at from continues.
Continued(table, network, reason, from) ==
    {k \in DOMAIN table : /\ table[k].network = network
                          /\ table[k].reason = reason
                          /\ table[k].end = from}

\* A gap without duration is stored as one that has not ended.
addGap(table, network, reason, from, to) ==
    LET same == Continued(table, network, reason, from)
    IN  IF to > from /\ same # {}
        THEN [table EXCEPT ![Max(same)].end = to]
        ELSE Append(table, [network |-> network, reason |-> reason,
                            start |-> from,
                            end |-> IF to > from THEN to ELSE Open,
                            stale |-> reason # "paused" /\ to = from])

\* Mutants of closeOpenGaps: only the latest is closed, or all are dropped.
closeLatestGap(table) ==
    [k \in DOMAIN table |->
        IF k = Len(table) /\ table[k].end = Open
        THEN [table[k] EXCEPT !.end = now] ELSE table[k]]

dropOpenGaps(table) == SelectSeq(table, LAMBDA row : row.end # Open)

closeOpenGaps(table) ==
    [k \in DOMAIN table |->
        IF table[k].end = Open THEN [table[k] EXCEPT !.end = now] ELSE table[k]]

\* What closing does when the write fails: nothing, and nobody is told.
LeftOpen(table) ==
    [k \in DOMAIN table |->
        IF table[k].end = Open THEN [table[k] EXCEPT !.stale = TRUE] ELSE table[k]]

StorageFails == failures < MaxFailures /\ failures' = failures + 1

\* setPaused and onStart do not look at the result.
TryToClose ==
    \/ rows' = closeOpenGaps(rows) /\ UNCHANGED failures
    \/ rows' = LeftOpen(rows) /\ StorageFails

-----------------------------------------------------------------------------
(* One round.                                                              *)

Collecting == alive /\ ~paused

\* Store::applyUsage for the one interface: a delta is measured time, an event
\* other than a first baseline leaves a gap.
GapsWith(table, batch) ==
    IF batch.kind \in {"delta", "baseline"} THEN table
    ELSE addGap(table, batch.network, batch.kind, batch.from, batch.to)

MeasuredBy(batch) ==
    IF batch.kind = "delta" THEN Units(batch.from, batch.to) ELSE {}

Stored(tables, batch) ==
    [rows     |-> GapsWith(tables.rows, batch),
     measured |-> tables.measured \cup MeasuredBy(batch)]


Tables == [rows |-> rows, measured |-> measured]

\* At most one batch is stored at a time.
After(tables, batches) ==
    IF batches = {} THEN tables ELSE Stored(tables, CHOOSE b \in batches : TRUE)

Store(tables) == rows' = tables.rows /\ measured' = tables.measured

\* The interface is seen again on network n: reset or progress, or it moved.
Resighted(b, n) ==
    IF b.network = n
    THEN {[kind |-> k, network |-> n, from |-> b.seenAt, to |-> now] :
             k \in {"delta", "counterReset"}}
    ELSE {[kind |-> "reattributed", network |-> n, from |-> b.seenAt, to |-> now]}

\* A missing interface is detached at once by a complete report, and after
\* BaselineTtl by an incomplete one.
Expired(b, complete) == complete \/ now - b.seenAt > BaselineTtl

\* Mutant of Missed: an interface that left is forgotten without an event.
MissedSilently(complete) == {}

Missed(complete) ==
    {[kind |-> "detached", network |-> AnyNetwork, from |-> b.seenAt, to |-> now] :
        b \in {c \in baseline : Expired(c, complete)}}

\* A report finds the interface on a network, or NoNetwork: then it is not
\* associated (complete), or it could not be read or named (incomplete).
Reports == [network : Networks \cup {NoNetwork}, complete : BOOLEAN]

\* What the accumulator may make of a report, and the baseline it keeps.
Results(report) ==
    LET n    == report.network
        made == CASE n = NoNetwork -> Missed(report.complete)
                  [] n # NoNetwork /\ baseline = {} ->
                        {[kind |-> "baseline", network |-> n, from |-> now, to |-> now]}
                  [] OTHER -> UNION {Resighted(b, n) : b \in baseline}
    IN  IF made = {} THEN {{}} ELSE {{b} : b \in made}

\* Mutant of NextBaseline: the baseline of the old network stays.
NextBaselineBeside(report) ==
    IF report.network # NoNetwork
    THEN {b \in baseline : b.network # report.network}
             \cup {[network |-> report.network, seenAt |-> now]}
    ELSE {b \in baseline : ~Expired(b, report.complete)}

NextBaseline(report) ==
    IF report.network # NoNetwork
    THEN {[network |-> report.network, seenAt |-> now]}
    ELSE {b \in baseline : ~Expired(b, report.complete)}

\* The time since its reading goes with a baseline that the round replaces.
Sampled(report) ==
    /\ baseline' = NextBaseline(report)
    /\ owed' = owed \cup UNION {Units(b.seenAt, now) : b \in baseline \ baseline'}

RoundStored(report, batches) ==
    /\ Collecting
    /\ Sampled(report)
    /\ Store(After(After(Tables, pending), batches))
    /\ pending' = {}
    /\ UNCHANGED <<now, alive, paused, archive, failures, steps, announced,
                   noted>>

RoundDeferred(report, batches) ==
    /\ Collecting
    /\ batches # {}
    /\ StorageFails
    /\ Sampled(report)
    /\ Store(After(Tables, pending))
    /\ pending' = batches
    /\ UNCHANGED <<now, alive, paused, archive, steps, announced, noted>>

\* FlushPending, MappingFails and a shutdown store the pending batch.
FlushPending ==
    /\ alive
    /\ pending # {}
    /\ Store(After(Tables, pending))
    /\ pending' = {}
    /\ UNCHANGED <<now, alive, paused, baseline, archive, failures, steps,
                   gapHistoryVars>>

-----------------------------------------------------------------------------
(* Requests, crashes and restarts.                                         *)

Step == steps < MaxSteps /\ steps' = steps + 1

\* The time of a batch that is given up.
PendingTime == UNION {Units(b.from, b.to) : b \in pending}

PauseRow(table) == addGap(table, AnyNetwork, "paused", now, now)

Pause ==
    /\ alive /\ ~paused
    /\ paused' = TRUE
    /\ baseline' = {}
    /\ \/ rows' = PauseRow(rows) /\ announced' = TRUE /\ UNCHANGED failures
       \/ StorageFails /\ UNCHANGED <<rows, announced>>
    /\ UNCHANGED <<now, alive, pending, measured, archive, steps, owed, noted>>

Resume ==
    /\ alive /\ paused
    /\ paused' = FALSE
    /\ baseline' = {}
    /\ TryToClose
    /\ announced' = FALSE
    /\ UNCHANGED <<now, alive, pending, measured, archive, steps, owed, noted>>

\* Clearing deletes the gaps with the records and pauses without leaving one.
ClearUsage ==
    /\ alive
    /\ Step
    /\ rows' = <<>>
    /\ measured' = {}
    /\ pending' = {}
    /\ baseline' = {}
    /\ \/ paused' = TRUE /\ UNCHANGED failures
       \/ StorageFails /\ UNCHANGED paused
    /\ owed' = {}
    /\ announced' = FALSE
    /\ noted' = {}
    /\ UNCHANGED <<now, alive, archive>>

Backup ==
    /\ alive
    /\ Step
    /\ archive' = {[rows |-> rows, measured |-> measured,
                    owed |-> owed \ PendingTime, noted |-> noted]}
    /\ UNCHANGED <<now, processVars, tableVars, failures, gapHistoryVars>>

\* Restoring pauses, and commits the gap of that pause with the old records.
RestoreBackup ==
    /\ alive
    /\ Step
    /\ \E saved \in archive :
          /\ rows' = PauseRow(saved.rows)
          /\ measured' = saved.measured
          /\ owed' = saved.owed
          /\ noted' = saved.noted
    /\ paused' = TRUE
    /\ pending' = {}
    /\ baseline' = {}
    /\ announced' = TRUE
    /\ UNCHANGED <<now, alive, archive, failures>>

BackendKilled ==
    /\ alive
    /\ Step
    /\ alive' = FALSE
    /\ owed' = owed \ PendingTime
    /\ pending' = {}
    /\ baseline' = {}
    /\ announced' = FALSE
    /\ UNCHANGED <<now, paused, tableVars, archive, failures, noted>>

\* onStart closes what the last process left open; --paused leaves no gap.
Start ==
    /\ ~alive
    /\ alive' = TRUE
    /\ paused' \in BOOLEAN
    /\ TryToClose
    /\ UNCHANGED <<now, baseline, pending, measured, archive, steps,
                   gapHistoryVars>>

Events ==
    \/ Tick
    \/ \E report \in Reports : \E batches \in Results(report) :
          RoundStored(report, batches) \/ RoundDeferred(report, batches)
    \/ FlushPending
    \/ Pause
    \/ Resume
    \/ ClearUsage
    \/ Backup
    \/ RestoreBackup
    \/ BackendKilled
    \/ Start

GapsNext == Events /\ Len(rows') <= MaxRows

GapsSpec == GapsInit /\ [][GapsNext]_gapsVars

-----------------------------------------------------------------------------
GapsTypeOK ==
    /\ now \in Time
    /\ alive \in BOOLEAN /\ paused \in BOOLEAN
    /\ baseline \subseteq [network : Networks, seenAt : Time]
    /\ pending \subseteq Batch
    /\ Cardinality(baseline) <= 1 /\ Cardinality(pending) <= 1
    /\ rows \in Seq(Row)
    /\ measured \cup owed \cup noted \subseteq Time
    /\ Cardinality(archive) <= 1
    /\ announced \in BOOLEAN

GapTime(S) == UNION {UnitsOf(rows[k]) : k \in {j \in DOMAIN rows : rows[j].reason \in S}}

(***************************************************************************)
(* No time is both measured and missing: a gap that was written with its   *)
(* duration, or opened by a pause and closed by what follows it, never     *)
(* covers time a stored delta stands for, though gaps grow when the next   *)
(* one continues them, batches are stored late, and old gaps come back     *)
(* with a backup.  Gaps of no duration are the exception.                  *)
(***************************************************************************)
GapsAreUnmeasured ==
    \A k \in DOMAIN rows :
        ~rows[k].stale => UnitsOf(rows[k]) \cap measured = {}

(***************************************************************************)
(* Time a round takes away from a baseline is measured, waits in the       *)
(* pending batch or is in a gap: none of it looks like time without        *)
(* traffic.                                                                *)
(***************************************************************************)
NoTimeUnexplained ==
    owed \subseteq measured \cup PendingTime \cup GapTime(Reasons)

(***************************************************************************)
(* A pause the user asked for, or that a restore caused, is covered by     *)
(* gaps of that reason while it lasts, after it ended, and when the        *)
(* backend is killed and started again in the middle of it.                *)
(***************************************************************************)
PauseIsCovered == noted \subseteq GapTime({"paused"})

-----------------------------------------------------------------------------
\* storage/usage_repository.h and database.cpp: the table holds the intervals
\* in which no data was collected.  A gap without duration does not: it stays
\* open, over what is measured next, until a pause ends or the backend starts.
NoGapOverMeasured ==
    \A k \in DOMAIN rows :
        rows[k].reason # "paused" /\ failures = 0
            => UnitsOf(rows[k]) \cap measured = {}
=============================================================================
