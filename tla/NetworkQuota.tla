---------------------------- MODULE NetworkQuota ----------------------------
(***************************************************************************)
(* The quota of one network.  Its ledger counts the bytes of one period    *)
(* and remembers which warning thresholds were announced.  Store::applyUsage*)
(* adds to it in the transaction that stores the usage; evaluateQuotas     *)
(* runs at the end of a round and announces; updateNetwork starts the      *)
(* ledger of another period; clearing zeroes it.  The ledgers of different *)
(* networks never meet, so one network is modelled.                        *)
(***************************************************************************)
EXTENDS QuotaPeriods

CONSTANTS
    Rules,          \* the quota settings a user may choose
    MaxBytes,       \* bound: bytes recorded in a run
    MaxSteps,       \* bound: crashes, clears, and settings changes together
    MaxSetBacks     \* bound: how often the clock is set back

ASSUME RulesAssumption ==
    Rules \subseteq [cap : Nat, warn : SUBSET (1 .. 100), period : Periods,
                     notify : BOOLEAN]
ASSUME BoundsAssumption == MaxSteps \in Nat /\ MaxSetBacks \in Nat

VARIABLES
    today,
    usage,          \* the network's rows of daily_usage
    ledger,         \* its row of quota_ledgers, as a set of at most one
    rule,           \* its quota settings
    pending,        \* batches waiting to be stored: at most one
    phase,          \* where the round in progress stands
    outbox,         \* alerts of the round in progress, not yet emitted
    steps, setBacks,
    \* History
    recorded,       \* bytes stored per day since records were last cleared
    announced,      \* <<key, threshold>> of the alerts emitted since then
    repeated,       \* those emitted more than once
    past            \* which of the events named in Past have happened

ledgerVars == <<usage, ledger, recorded>>
alertVars  == <<announced, repeated>>
vars == <<today, rule, pending, phase, outbox, steps, setBacks, ledgerVars,
          alertVars, past>>

Past == {"pruned", "switched", "cleared", "crashed"}

Ledgers == [key : PeriodKeys, used : Nat, notified : SUBSET (1 .. 100)]
Batches == [at : Days, bytes : [Days -> 0 .. 1]]

Init ==
    /\ today = 0
    /\ usage = [t \in Days |-> 0]
    /\ ledger = {}
    /\ rule \in Rules
    /\ pending = {}
    /\ phase = "idle"
    /\ outbox = {}
    /\ steps = 0
    /\ setBacks = 0
    /\ recorded = [t \in Days |-> 0]
    /\ announced = {}
    /\ repeated = {}
    /\ past = {}

Idle == phase = "idle"

-----------------------------------------------------------------------------
NextDay ==
    /\ Idle
    /\ today < MaxDay
    /\ today' = today + 1
    /\ UNCHANGED <<rule, pending, phase, outbox, steps, setBacks, ledgerVars,
                   alertVars, past>>

SetClockBack(t) ==
    /\ Idle
    /\ t < today
    /\ setBacks < MaxSetBacks
    /\ today' = t
    /\ setBacks' = setBacks + 1
    /\ UNCHANGED <<rule, pending, phase, outbox, steps, ledgerVars, alertVars,
                   past>>

-----------------------------------------------------------------------------
(* Storing a batch.                                                        *)

\* A delta read now that spans at most midnight: the bytes of its minutes.
Sampled == {batch \in Batches :
               /\ batch.at = today
               /\ \A t \in Days : batch.bytes[t] > 0 => t \in {today - 1, today}}

Budget(batch) ==
    BytesIn(recorded, <<"all", 0>>) + BytesIn(batch.bytes, <<"all", 0>>)
        <= MaxBytes

\* Mutants of addToLedger: the whole batch is counted into the period, and the
\* ledger of a new period is kept beside the old one.
addWholeBatch(row, batch) ==
    LET key == periodKeyFor(rule.period, batch.at)
        increment == BytesIn(batch.bytes, <<"all", 0>>)
    IN  IF \E l \in row : l.key = key
        THEN {[l EXCEPT !.used = @ + increment] : l \in row}
        ELSE {[key |-> key, used |-> increment, notified |-> {}]}

addBeside(row, batch) ==
    LET key == periodKeyFor(rule.period, batch.at)
        increment == BytesIn(batch.bytes, key)
    IN  IF \E l \in row : l.key = key
        THEN {[l EXCEPT !.used = @ + increment] : l \in row}
        ELSE row \cup {[key |-> key, used |-> increment, notified |-> {}]}

\* addToLedger: the ledger moves to the period of the batch, and counts from
\* zero when it gets there; only the minutes of that period are added.
addToLedger(row, batch) ==
    LET key == periodKeyFor(rule.period, batch.at)
        increment == BytesIn(batch.bytes, key)
    IN  IF \E l \in row : l.key = key
        THEN {[l EXCEPT !.used = @ + increment] : l \in row}
        ELSE {[key |-> key, used |-> increment, notified |-> {}]}

Plus(table, batch) == [t \in Days |-> table[t] + batch.bytes[t]]

ApplyUsage(batch) ==
    /\ usage' = Plus(usage, batch)
    /\ recorded' = Plus(recorded, batch)
    /\ ledger' = addToLedger(ledger, batch)

\* A stored round goes on to the evaluation of the quotas.
RoundStored(batch) ==
    /\ Idle
    /\ pending = {}
    /\ Budget(batch)
    /\ ApplyUsage(batch)
    /\ phase' = "applied"
    /\ UNCHANGED <<today, rule, pending, outbox, steps, setBacks, alertVars,
                   past>>

\* A round in which the network has no delta: it is not connected, or its
\* baseline was just taken.
RoundWithoutDelta ==
    /\ Idle
    /\ pending = {}
    /\ phase' = "applied"
    /\ UNCHANGED <<today, rule, pending, outbox, steps, setBacks, ledgerVars,
                   alertVars, past>>

RoundDeferred(batch) ==
    /\ Idle
    /\ pending = {}
    /\ Budget(batch)
    /\ pending' = {batch}
    /\ UNCHANGED <<today, rule, phase, outbox, steps, setBacks, ledgerVars,
                   alertVars, past>>

\* The next round, or a request that flushes, stores it with its old time.
RetryPending ==
    /\ Idle
    /\ \E batch \in pending : ApplyUsage(batch)
    /\ pending' = {}
    /\ UNCHANGED <<today, rule, phase, outbox, steps, setBacks, alertVars,
                   past>>

-----------------------------------------------------------------------------
(* evaluateQuotas, and the emission of the alerts at the end of the round. *)

\* Mutant of Due: what was announced is not looked at.
DueAgain(row) ==
    {w \in rule.warn :
        /\ rule.notify
        /\ row.key = periodKeyFor(rule.period, today)
        /\ reachedWarn(rule.cap, row.used, w)}

\* The thresholds to announce.
Due(row) ==
    {w \in rule.warn :
        /\ rule.notify
        /\ row.key = periodKeyFor(rule.period, today)
        /\ reachedWarn(rule.cap, row.used, w)
        /\ w \notin row.notified}

\* Thresholds are saved one by one in ascending order, and only a saved one is
\* announced; the first that cannot be saved ends the loop.
Saved(row, last) == {w \in Due(row) : w <= last}

\* Mutant of Marked: all thresholds are marked before the first is announced.
MarkedBefore(row, last) == [row EXCEPT !.notified = @ \cup Due(row)]

Marked(row, last) == [row EXCEPT !.notified = @ \cup Saved(row, last)]

Evaluate ==
    /\ phase = "applied"
    /\ \E last \in {0} \cup rule.warn :
          /\ ledger' = {Marked(row, last) : row \in ledger}
          /\ outbox' = UNION {{<<row.key, w>> : w \in Saved(row, last)} :
                                row \in ledger}
    /\ phase' = "evaluated"
    /\ UNCHANGED <<today, rule, pending, steps, setBacks, usage, recorded,
                   alertVars, past>>

Emit ==
    /\ phase = "evaluated"
    /\ repeated' = repeated \cup (announced \cap outbox)
    /\ announced' = announced \cup outbox
    /\ outbox' = {}
    /\ phase' = "idle"
    /\ UNCHANGED <<today, rule, pending, steps, setBacks, ledgerVars,
                   past>>

-----------------------------------------------------------------------------
(* Requests and failures.                                                  *)

Step == steps < MaxSteps /\ steps' = steps + 1

\* Mutant of NewLedger: a changed period starts at zero.
ZeroLedger(period) ==
    [key |-> periodKeyFor(period, today), used |-> 0, notified |-> {}]

NewLedger(period) ==
    LET key == periodKeyFor(period, today)
    IN  [key      |-> key,
         used     |-> MapThenSumSet(LAMBDA t : usage[t],
                                    {t \in DaysOf(key) : t <= today}),
         notified |-> {}]

\* updateNetwork: a new period gets a ledger computed from the stored days up
\* to today; the pending batch is not flushed first.
UpdateNetwork(new) ==
    /\ Idle
    /\ Step
    /\ new # rule
    /\ rule' = new
    /\ IF new.period = rule.period
       THEN UNCHANGED <<ledger, past>>
       ELSE /\ ledger' = {NewLedger(new.period)}
            /\ past' = past \cup {"switched"}
    /\ UNCHANGED <<today, pending, phase, outbox, setBacks, usage, recorded,
                   alertVars>>

\* Clearing zeroes the ledger and leaves the announced thresholds in it.
ClearUsage ==
    /\ Idle
    /\ Step
    /\ usage' = [t \in Days |-> 0]
    /\ recorded' = [t \in Days |-> 0]
    /\ ledger' = {[l EXCEPT !.used = 0] : l \in ledger}
    /\ pending' = {}
    /\ announced' = {}
    /\ past' = past \cup {"cleared"}
    /\ UNCHANGED <<today, rule, phase, outbox, setBacks, repeated>>

\* pruneByRetention: days before the cutoff go, the ledger stays; a pending
\* batch was flushed before.
PruneUsage(cutoff) ==
    /\ Idle
    /\ pending = {}
    /\ usage' = [t \in Days |-> IF t < cutoff THEN 0 ELSE usage[t]]
    /\ usage' # usage
    /\ past' = past \cup {"pruned"}
    /\ UNCHANGED <<today, rule, ledger, pending, phase, outbox, steps, setBacks,
                   recorded, alertVars>>

Crash ==
    /\ Step
    /\ phase' = "idle"
    /\ outbox' = {}
    /\ pending' = {}
    /\ past' = past \cup {"crashed"}
    /\ UNCHANGED <<today, rule, setBacks, ledgerVars, alertVars>>

Next ==
    \/ NextDay
    \/ \E t \in Days : SetClockBack(t)
    \/ \E batch \in Sampled : RoundStored(batch) \/ RoundDeferred(batch)
    \/ RoundWithoutDelta
    \/ RetryPending
    \/ Evaluate
    \/ Emit
    \/ \E new \in Rules : UpdateNetwork(new)
    \/ ClearUsage
    \/ \E cutoff \in 1 .. today : PruneUsage(cutoff)
    \/ Crash

Spec == Init /\ [][Next]_vars

-----------------------------------------------------------------------------
TypeOK ==
    /\ today \in Days
    /\ usage \in [Days -> Nat]
    /\ ledger \subseteq Ledgers /\ Cardinality(ledger) <= 1
    /\ rule \in Rules
    /\ pending \subseteq Batches /\ Cardinality(pending) <= 1
    /\ phase \in {"idle", "applied", "evaluated"}
    /\ outbox \subseteq PeriodKeys \X (1 .. 100)
    /\ steps \in 0 .. MaxSteps
    /\ setBacks \in 0 .. MaxSetBacks
    /\ recorded \in [Days -> Nat]
    /\ announced \subseteq PeriodKeys \X (1 .. 100)
    /\ repeated \subseteq PeriodKeys \X (1 .. 100)
    /\ past \subseteq Past

(***************************************************************************)
(* A ledger never holds more than was recorded in its period: neither a    *)
(* retried batch, nor a batch over midnight, nor the ledger computed for a *)
(* new period counts a byte twice or counts it into the wrong period.      *)
(***************************************************************************)
LedgerWithinRecords ==
    \A l \in ledger : l.used <= BytesIn(recorded, l.key)

(***************************************************************************)
(* As long as the clock is never set back and no day was pruned, the       *)
(* ledger of the current period is exactly what was recorded in it.        *)
(***************************************************************************)
LedgerExact ==
    \A l \in ledger :
        /\ l.key = periodKeyFor(rule.period, today)
        /\ setBacks = 0
        /\ "pruned" \notin past
        => l.used = BytesIn(recorded, l.key)

(***************************************************************************)
(* A threshold is announced twice for the same period and the same records *)
(* only after the ledger was started again, by a changed period or by a    *)
(* clock that was set back: no crash or failing save repeats an alert.     *)
(***************************************************************************)
NoRepeatedWarning == repeated # {} => "switched" \in past \/ setBacks > 0

(***************************************************************************)
(* The alert of a threshold marked as announced was emitted: a failing save *)
(* or an unfinished round loses none.  Only killing the backend between    *)
(* saving the mark and emitting can; clearing forgets what was emitted.    *)
(***************************************************************************)
MarkedIsAnnounced ==
    Idle /\ past \cap {"crashed", "cleared"} = {} =>
        \A l \in ledger : \A w \in l.notified : <<l.key, w>> \in announced

-----------------------------------------------------------------------------
(* What comments and the contract say, and the code does not do.           *)

\* contracts/README.md: notification tracking starts again after usage is
\* cleared, so a ledger without usage has nothing marked as announced.
ClearRestartsWarnings ==
    \A l \in ledger : l.used = 0 => l.notified = {}
=============================================================================
