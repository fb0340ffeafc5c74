----------------------------- MODULE TotalQuota -----------------------------
(***************************************************************************)
(* The quota of all Wi-Fi networks together (storage/total_quota.cpp and   *)
(* ipc/quota_service.cpp).  There is one ledger per period that was ever   *)
(* looked at: it is created from the stored days when it is first needed   *)
(* and counts every minute stored afterwards, in the transaction that      *)
(* stores the minute.                                                      *)
(***************************************************************************)
EXTENDS QuotaPeriods, SequencesExt

CONSTANTS
    Networks,
    Wired,          \* the networks that do not count
    Rules,          \* the settings a user may choose
    MaxBytes, MaxSteps, MaxSetBacks     \* bounds, as in NetworkQuota

ASSUME WiredAssumption == IsFiniteSet(Networks) /\ Wired \subseteq Networks
ASSUME RulesAssumption ==
    Rules \subseteq [cap : Nat, warn : SUBSET (1 .. 100), period : Periods,
                     notify : BOOLEAN]
ASSUME BoundsAssumption == MaxSteps \in Nat /\ MaxSetBacks \in Nat

VARIABLES
    today,
    usage,          \* daily_usage: bytes per network and day
    totals,         \* total_quota_ledgers: ledgers by period key
    rule,           \* total_quota_settings
    archive,        \* the exported backup: at most one
    phase, outbox, steps, setBacks,
    \* History, as in NetworkQuota
    recorded, announced, repeated, past

databaseVars == <<usage, totals, rule>>
vars == <<today, databaseVars, archive, phase, outbox, steps, setBacks,
          recorded, announced, repeated, past>>

LimitReached == 0   \* the alert of the limit, next to the percentages
Past   == {"pruned", "crashed"}
Ledger == [used : Nat, notified : SUBSET (1 .. 100), limit : BOOLEAN]
Minute == [network : Networks, day : Days]   \* one byte each
Table  == [Networks -> [Days -> Nat]]

NoRecords == [n \in Networks |-> [t \in Days |-> 0]]

\* What the Wi-Fi networks have in a period.
WifiBytes(table, key) ==
    MapThenSumSet(LAMBDA n : BytesIn(table[n], key), Networks \ Wired)

Init ==
    /\ today = 0
    /\ usage = NoRecords
    /\ totals = [key \in {} |-> 0]
    /\ rule \in Rules
    /\ archive = {}
    /\ phase = "idle"
    /\ outbox = {}
    /\ steps = 0
    /\ setBacks = 0
    /\ recorded = NoRecords
    /\ announced = {}
    /\ repeated = {}
    /\ past = {}

Idle == phase = "idle"

-----------------------------------------------------------------------------
NextDay ==
    /\ Idle
    /\ today < MaxDay
    /\ today' = today + 1
    /\ UNCHANGED <<databaseVars, archive, phase, outbox, steps, setBacks,
                   recorded, announced, repeated, past>>

SetClockBack(t) ==
    /\ Idle
    /\ t < today
    /\ setBacks < MaxSetBacks
    /\ today' = t
    /\ setBacks' = setBacks + 1
    /\ UNCHANGED <<databaseVars, archive, phase, outbox, steps, recorded,
                   announced, repeated, past>>

-----------------------------------------------------------------------------
(* The ledgers.                                                            *)

\* Mutant of KeysAt: a ledger too early.
NextKeys(day) == {periodKeyFor(p, day + 1) : p \in Periods}

KeysAt(day) == {periodKeyFor(p, day) : p \in Periods}

ensurePeriods(ledgers, table, day) ==
    [key \in DOMAIN ledgers \cup KeysAt(day) |->
        IF key \in DOMAIN ledgers THEN ledgers[key]
        ELSE [used |-> WifiBytes(table, key), notified |-> {}, limit |-> FALSE]]

\* TotalQuotaRepository::addUsage for one minute of a delta.
addUsage(ledgers, table, minute) ==
    LET ensured == ensurePeriods(ledgers, table, minute.day)
    IN  IF minute.network \in Wired THEN ensured
        ELSE [key \in DOMAIN ensured |->
                IF key \in KeysAt(minute.day)
                THEN [ensured[key] EXCEPT !.used = @ + 1]
                ELSE ensured[key]]

Added(table, minute) ==
    [table EXCEPT ![minute.network][minute.day] = @ + 1]

\* Mutant of StoreMinute: the tables come first.
StoreMinuteFirst(db, minute) ==
    [usage  |-> Added(db.usage, minute),
     totals |-> addUsage(db.totals, Added(db.usage, minute), minute)]

\* The loop of Store::applyUsage: each minute first goes to the ledgers, then
\* to the tables the ledgers are created from.
StoreMinute(db, minute) ==
    [usage  |-> Added(db.usage, minute),
     totals |-> addUsage(db.totals, db.usage, minute)]

\* The minutes of at most two deltas that span at most midnight.
Batches ==
    {batch \in SeqOf(Minute, 2) :
        /\ \A k \in DOMAIN batch : batch[k].day \in {today - 1, today}
        /\ Len(batch) = 2 /\ batch[1].network = batch[2].network
              => batch[1].day < batch[2].day}

Weight(table) ==
    MapThenSumSet(LAMBDA n : BytesIn(table[n], <<"all", 0>>), Networks)

RoundStored(batch) ==
    LET db == FoldLeft(StoreMinute, [usage |-> usage, totals |-> totals], batch)
    IN  /\ Idle
        /\ usage' = db.usage
        /\ totals' = db.totals
        /\ recorded' = FoldLeft(Added, recorded, batch)
        /\ Weight(recorded') <= MaxBytes
        /\ phase' = "applied"
        /\ UNCHANGED <<today, rule, archive, outbox, steps, setBacks, announced,
                       repeated, past>>

\* A snapshot request, a live event or the end of a round looks at the quota.
View ==
    /\ Idle
    /\ totals' = ensurePeriods(totals, usage, today)
    /\ UNCHANGED <<today, usage, rule, archive, phase, outbox, steps, setBacks,
                   recorded, announced, repeated, past>>

-----------------------------------------------------------------------------
(* evaluateTotalQuota and markNotified.                                    *)

\* What is reached and not marked yet: the limit flag is only looked at when
\* it is set.
Due(ledger) ==
    {w \in rule.warn : /\ reachedWarn(rule.cap, ledger.used, w)
                       /\ w \notin ledger.notified}
    \cup {l \in {LimitReached} : reachedLimit(rule.cap, ledger.used)
                                 /\ ~ledger.limit}

\* Mutants of Mark: new marks replace the old, and more is marked than saved.
MarkInstead(ledger, saved) ==
    [ledger EXCEPT !.notified = saved \ {LimitReached},
                   !.limit = LimitReached \in saved]

MarkDue(ledger, saved) ==
    [ledger EXCEPT !.notified = @ \cup (Due(ledger) \ {LimitReached})]

Mark(ledger, saved) ==
    [ledger EXCEPT !.notified = @ \cup (saved \ {LimitReached}),
                   !.limit = @ \/ LimitReached \in saved]

\* Each mark is a transaction of its own that may fail; only what was marked
\* is announced.
Evaluate ==
    LET key     == periodKeyFor(rule.period, today)
        ensured == ensurePeriods(totals, usage, today)
    IN  /\ phase = "applied"
        /\ \E saved \in SUBSET Due(ensured[key]) :
              /\ saved # {} => rule.notify
              /\ totals' = [ensured EXCEPT ![key] = Mark(@, saved)]
              /\ outbox' = {<<key, w>> : w \in saved}
        /\ phase' = "evaluated"
        /\ UNCHANGED <<today, usage, rule, archive, steps, setBacks, recorded,
                       announced, repeated, past>>

Emit ==
    /\ phase = "evaluated"
    /\ repeated' = repeated \cup (announced \cap outbox)
    /\ announced' = announced \cup outbox
    /\ outbox' = {}
    /\ phase' = "idle"
    /\ UNCHANGED <<today, databaseVars, archive, steps, setBacks, recorded, past>>

-----------------------------------------------------------------------------
(* Requests and failures.                                                  *)

Step == steps < MaxSteps /\ steps' = steps + 1

Unmarked(ledgers) ==
    [key \in DOMAIN ledgers |->
        [ledgers[key] EXCEPT !.notified = {}, !.limit = FALSE]]

\* updateTotalQuota: another limit forgets all marks, another period or other
\* thresholds keep them.
Save(new) ==
    LET ensured == ensurePeriods(totals, usage, today)
    IN  /\ Idle
        /\ Step
        /\ new # rule
        /\ rule' = new
        /\ totals' = IF new.cap # rule.cap THEN Unmarked(ensured) ELSE ensured
        /\ announced' = IF new.cap # rule.cap THEN {} ELSE announced
        /\ UNCHANGED <<today, usage, archive, phase, outbox, setBacks, recorded,
                       repeated, past>>

ClearUsage ==
    /\ Idle
    /\ Step
    /\ usage' = NoRecords
    /\ recorded' = NoRecords
    /\ totals' = [key \in DOMAIN totals |->
                    [used |-> 0, notified |-> {}, limit |-> FALSE]]
    /\ announced' = {}
    /\ UNCHANGED <<today, rule, archive, phase, outbox, setBacks, repeated, past>>

PruneUsage(cutoff) ==
    /\ Idle
    /\ usage' = [n \in Networks |-> [t \in Days |->
                    IF t < cutoff THEN 0 ELSE usage[n][t]]]
    /\ usage' # usage
    /\ past' = past \cup {"pruned"}
    /\ UNCHANGED <<today, totals, rule, archive, phase, outbox, steps, setBacks,
                   recorded, announced, repeated>>

Backup ==
    /\ Idle
    /\ Step
    /\ archive' = {[usage |-> usage, totals |-> totals, rule |-> rule,
                    recorded |-> recorded, announced |-> announced]}
    /\ UNCHANGED <<today, databaseVars, phase, outbox, setBacks, recorded,
                   announced, repeated, past>>

Restore ==
    /\ Idle
    /\ Step
    /\ \E saved \in archive :
          /\ usage' = saved.usage
          /\ totals' = saved.totals
          /\ rule' = saved.rule
          /\ recorded' = saved.recorded
          /\ announced' = saved.announced
    /\ UNCHANGED <<today, archive, phase, outbox, setBacks, repeated, past>>

Crash ==
    /\ ~Idle
    /\ Step
    /\ phase' = "idle"
    /\ outbox' = {}
    /\ past' = past \cup {"crashed"}
    /\ UNCHANGED <<today, databaseVars, archive, setBacks, recorded, announced,
                   repeated>>

Next ==
    \/ NextDay
    \/ \E t \in Days : SetClockBack(t)
    \/ \E batch \in Batches : RoundStored(batch)
    \/ View
    \/ Evaluate
    \/ Emit
    \/ \E new \in Rules : Save(new)
    \/ ClearUsage
    \/ \E cutoff \in 1 .. today : PruneUsage(cutoff)
    \/ Backup
    \/ Restore
    \/ Crash

Spec == Init /\ [][Next]_vars

-----------------------------------------------------------------------------
TypeOK ==
    /\ today \in Days
    /\ usage \in Table /\ recorded \in Table
    /\ DOMAIN totals \subseteq PeriodKeys
    /\ \A key \in DOMAIN totals : totals[key] \in Ledger
    /\ rule \in Rules
    /\ Cardinality(archive) <= 1
    /\ phase \in {"idle", "applied", "evaluated"}
    /\ outbox \cup announced \cup repeated \subseteq PeriodKeys \X (0 .. 100)
    /\ steps \in 0 .. MaxSteps /\ setBacks \in 0 .. MaxSetBacks
    /\ past \subseteq Past

(***************************************************************************)
(* Every total ledger, of the current period or of an older one, is what   *)
(* the Wi-Fi networks recorded in its period: whenever the ledger was      *)
(* created, however the clock moved and whatever the batches straddled.    *)
(* Pruning can only make a ledger that is created afterwards too small.    *)
(***************************************************************************)
TotalExact ==
    \A key \in DOMAIN totals :
        /\ totals[key].used <= WifiBytes(recorded, key)
        /\ "pruned" \notin past => totals[key].used = WifiBytes(recorded, key)

(***************************************************************************)
(* A threshold, or the limit, of a period is announced once, until the     *)
(* limit is changed, the records are cleared, or a backup is restored from *)
(* before the announcement: no crash, failing mark, changed period or      *)
(* clock set back repeats an alert.                                        *)
(***************************************************************************)
AnnouncedOnce == repeated = {}

(***************************************************************************)
(* What is marked was emitted, unless the backend was killed in between.   *)
(***************************************************************************)
MarkedIsAnnounced ==
    Idle /\ "crashed" \notin past =>
        \A key \in DOMAIN totals :
            /\ \A w \in totals[key].notified : <<key, w>> \in announced
            /\ totals[key].limit => <<key, LimitReached>> \in announced
=============================================================================
