--------------------------- MODULE UsageCollector ---------------------------
(***************************************************************************)
(* The collecting half of wifimeter-backend: BackendService samples the    *)
(* interface counters, turns them into deltas with the UsageAccumulator    *)
(* and stores every round in one transaction (Store::applyUsage).  A round *)
(* that could not be stored is kept as the one pending batch and written   *)
(* again before the next counters are read.                                *)
(*                                                                         *)
(* usage is the content of the usage tables; a network's row is the sum    *)
(* over the interfaces of usage[i][n], kept apart here so that every byte  *)
(* can be traced to the interface that carried it.  The variables listed   *)
(* under History exist only to state the properties.                       *)
(***************************************************************************)
EXTENDS UsageAccumulator

CONSTANTS
    NoNetwork,      \* an interface that is not associated
    MaxClock,       \* bound: time
    MaxBytes,       \* bound: bytes each counter of an interface carries
    MaxFailures,    \* bound: failing transactions
    MaxCrashes      \* bound: crashes of the backend

ASSUME NoNetworkAssumption == NoNetwork \notin Networks
ASSUME BoundsAssumption ==
    /\ MaxClock \in Nat
    /\ MaxBytes \in Nat
    /\ MaxFailures \in Nat
    /\ MaxCrashes \in Nat

VARIABLES
    \* The operating system
    clock,          \* wall clock
    link,           \* the network each interface is on
    counter,        \* the counters each interface reports
    \* The backend process
    alive,
    paused,
    baseline,       \* UsageAccumulator::baselines_
    pending,        \* pendingUsage_; EmptyBatch when there is none
    \* The database, and the exported backup file (a set of at most one)
    usage, archive,
    \* What the environment has used of its budgets
    failures, crashes,
    \* History
    total,          \* total[i][d]: bytes i carried
    carried,        \* carried[i][n][d]: those it carried while on network n
    astray,         \* astray[i][d]: bytes since i's baseline was taken that i
                    \* carried on another network than the baseline's
    strayed,        \* strayed[i][n][d]: astray bytes of rounds that found i
                    \* back on n, where the counters cannot tell them apart
    mark,           \* mark[i][d]: total when the counters of i were last used
    credited,       \* credited[i][d]: bytes of i ever committed
    lost,           \* lost[i][d]: bytes of i given up
    hidden          \* interfaces whose counters ever went back to zero

osVars      == <<clock, link, counter>>
processVars == <<alive, paused, baseline, pending>>
storeVars   == <<usage, archive>>
budgetVars  == <<failures, crashes>>
flowVars    == <<total, carried, strayed>>
accountVars == <<mark, credited, lost>>
historyVars == <<flowVars, astray, accountVars, hidden>>
vars == <<osVars, processVars, storeVars, budgetVars, historyVars>>

NoCounter   == [d \in Directions |-> 0]
NoCounters  == [i \in Interfaces |-> NoCounter]
NoUsage     == [i \in Interfaces |-> [n \in Networks |-> NoCounter]]
NoBaselines == [i \in {} |-> NoCounter]

UsageTable  == [Interfaces -> [Networks -> Counter]]

\* A batch is an AccumulateResult: what one round adds to the database.
EmptyBatch == [delta |-> [i \in {} |-> NoCounter], events |-> {}]
IsBatch(batch) ==
    /\ DOMAIN batch = {"delta", "events"}
    /\ IsMapTo(batch.delta, Delta)
    /\ batch.events \subseteq Events

\* The bytes of interface i a batch holds, in all and for network n.
InBatch(batch, i, d) ==
    IF i \in DOMAIN batch.delta THEN batch.delta[i].bytes[d] ELSE 0

InBatchOn(batch, i, n, d) ==
    IF i \in DOMAIN batch.delta /\ batch.delta[i].network = n
    THEN batch.delta[i].bytes[d] ELSE 0

\* Store::applyUsage: a whole batch in one transaction.
Stored(table, batch) ==
    [i \in Interfaces |-> [n \in Networks |-> [d \in Directions |->
        table[i][n][d] + InBatchOn(batch, i, n, d)]]]

PlusBatch(count, batch) ==
    [i \in Interfaces |-> [d \in Directions |->
        count[i][d] + InBatch(batch, i, d)]]

-----------------------------------------------------------------------------
Init ==
    /\ clock = 0
    /\ link \in [Interfaces -> Networks \cup {NoNetwork}]
    /\ counter = NoCounters
    /\ alive = TRUE
    /\ paused \in BOOLEAN
    /\ baseline = NoBaselines
    /\ pending = EmptyBatch
    /\ usage = NoUsage
    /\ archive = {}
    /\ failures = 0
    /\ crashes = 0
    /\ total = NoCounters
    /\ carried = NoUsage
    /\ astray = NoCounters
    /\ strayed = NoUsage
    /\ mark = NoCounters
    /\ credited = NoCounters
    /\ lost = NoCounters
    /\ hidden = {}

-----------------------------------------------------------------------------
(* The operating system: traffic, roaming, counter resets, the clock.      *)

Carry(i, d) ==
    /\ link[i] \in Networks
    /\ total[i][d] < MaxBytes
    /\ counter' = [counter EXCEPT ![i][d] = @ + 1]
    /\ total'   = [total EXCEPT ![i][d] = @ + 1]
    /\ carried' = [carried EXCEPT ![i][link[i]][d] = @ + 1]
    /\ IF i \in DOMAIN baseline /\ baseline[i].network # link[i]
       THEN astray' = [astray EXCEPT ![i][d] = @ + 1]
       ELSE UNCHANGED astray
    /\ UNCHANGED <<clock, link, processVars, storeVars, budgetVars, strayed,
                   accountVars, hidden>>

Roam(i, n) ==
    /\ n # link[i]
    /\ link' = [link EXCEPT ![i] = n]
    /\ UNCHANGED <<clock, counter, processVars, storeVars, budgetVars,
                   historyVars>>

ResetCounters(i) ==
    /\ counter[i] # NoCounter
    /\ counter' = [counter EXCEPT ![i] = NoCounter]
    /\ hidden' = hidden \cup {i}
    /\ UNCHANGED <<clock, link, processVars, storeVars, budgetVars, flowVars,
                   astray, accountVars>>

\* Time passes, or an NTP correction sets the wall clock back.
SetClock(t) ==
    /\ t = clock + 1 \/ t < clock
    /\ clock' = t
    /\ UNCHANGED <<link, counter, processVars, storeVars, budgetVars,
                   historyVars>>

Environment ==
    \/ \E i \in Interfaces, d \in Directions : Carry(i, d)
    \/ \E i \in Interfaces, n \in Networks \cup {NoNetwork} : Roam(i, n)
    \/ \E i \in Interfaces : ResetCounters(i)
    \/ \E t \in 0 .. MaxClock : SetClock(t)

-----------------------------------------------------------------------------
(* BackendService::collectOnce.  Every round first writes the pending      *)
(* batch; it ends there when that fails, or when the report cannot be      *)
(* mapped to the stored networks.                                          *)

Collecting == alive /\ ~paused

StorageFails ==
    /\ failures < MaxFailures
    /\ failures' = failures + 1

RetryFails ==
    /\ Collecting
    /\ pending # EmptyBatch
    /\ StorageFails
    /\ UNCHANGED <<osVars, processVars, storeVars, crashes, historyVars>>

\* Mutant of PendingStored: the batch is dropped.
PendingDropped ==
    /\ pending' = EmptyBatch
    /\ UNCHANGED <<usage, credited>>

\* Mutant of PendingStored: the batch is committed but kept.
PendingKept ==
    /\ usage' = Stored(usage, pending)
    /\ credited' = PlusBatch(credited, pending)
    /\ UNCHANGED pending

\* The pending batch is committed, nothing else happens.
PendingStored ==
    /\ usage' = Stored(usage, pending)
    /\ credited' = PlusBatch(credited, pending)
    /\ pending' = EmptyBatch

MappingFails ==
    /\ Collecting
    /\ StorageFails
    /\ PendingStored
    /\ UNCHANGED <<osVars, alive, paused, baseline, archive, crashes, flowVars,
                   astray, mark, lost, hidden>>

\* The interfaces that could be read and whose identity is known.
ReportOf(readable) ==
    [i \in {j \in readable : link[j] \in Networks} |->
        [network |-> link[i], bytes |-> counter[i]]]

RoundOf(sample, complete) ==
    [delta  |-> RoundDeltas(baseline, sample, clock),
     events |-> RoundEvents(baseline, sample, complete, clock)]

\* The bookkeeping of a round: which bytes its deltas account for.
RoundHistory(sample) ==
    /\ mark' = [i \in Interfaces |->
                  IF i \in DOMAIN sample THEN total[i] ELSE mark[i]]
    /\ lost' = [i \in Interfaces |-> [d \in Directions |->
                  IF i \in DOMAIN sample /\ ~Advanced(baseline, sample, i)
                  THEN lost[i][d] + total[i][d] - mark[i][d]
                  ELSE lost[i][d]]]
    /\ strayed' = [i \in Interfaces |-> [n \in Networks |-> [d \in Directions |->
                  IF Advanced(baseline, sample, i) /\ baseline[i].network = n
                  THEN strayed[i][n][d] + astray[i][d]
                  ELSE strayed[i][n][d]]]]
    /\ astray' = [i \in Interfaces |->
                  IF i \in DOMAIN baseline' /\ i \notin DOMAIN sample
                  THEN astray[i] ELSE NoCounter]
    /\ UNCHANGED <<total, carried, hidden>>

\* Mutant of RoundStored: the waiting batch is forgotten by good rounds.
RoundStoredPastPending(readable) ==
    LET sample   == ReportOf(readable)
        complete == readable = Interfaces
        round    == RoundOf(sample, complete)
    IN  /\ Collecting
        /\ baseline' = NextBaselines(baseline, sample, complete, clock)
        /\ usage' = Stored(usage, round)
        /\ credited' = PlusBatch(credited, round)
        /\ RoundHistory(sample)
        /\ UNCHANGED <<osVars, alive, paused, pending, archive, budgetVars>>

RoundStored(readable) ==
    LET sample   == ReportOf(readable)
        complete == readable = Interfaces
        round    == RoundOf(sample, complete)
    IN  /\ Collecting
        /\ baseline' = NextBaselines(baseline, sample, complete, clock)
        /\ usage' = Stored(Stored(usage, pending), round)
        /\ credited' = PlusBatch(PlusBatch(credited, pending), round)
        /\ pending' = EmptyBatch
        /\ RoundHistory(sample)
        /\ UNCHANGED <<osVars, alive, paused, archive, budgetVars>>

\* The accumulator has moved on although the round could not be stored: the
\* batch is all that remains of the round.  A round without deltas and events
\* opens no transaction and cannot fail.
RoundDeferred(readable) ==
    LET sample   == ReportOf(readable)
        complete == readable = Interfaces
        round    == RoundOf(sample, complete)
    IN  /\ Collecting
        /\ round # EmptyBatch
        /\ StorageFails
        /\ baseline' = NextBaselines(baseline, sample, complete, clock)
        /\ usage' = Stored(usage, pending)
        /\ credited' = PlusBatch(credited, pending)
        /\ pending' = round
        /\ RoundHistory(sample)
        /\ UNCHANGED <<osVars, alive, paused, archive, crashes>>

CollectOnce ==
    \/ RetryFails
    \/ MappingFails
    \/ \E readable \in SUBSET Interfaces :
          RoundStored(readable) \/ RoundDeferred(readable)

-----------------------------------------------------------------------------
(* Requests that touch the collector's state.                              *)

\* The bytes since the last baseline are abandoned with the baseline.
DropBaselines ==
    /\ baseline' = NoBaselines
    /\ astray' = NoCounters

SetPaused(p) ==
    /\ alive
    /\ paused # p
    /\ paused' = p
    /\ DropBaselines
    /\ UNCHANGED <<osVars, alive, pending, storeVars, budgetVars, flowVars,
                   accountVars, hidden>>

\* pruneUsage and importLegacy write the pending batch before they start.
FlushPending ==
    /\ alive
    /\ pending # EmptyBatch
    /\ PendingStored
    /\ UNCHANGED <<osVars, alive, paused, baseline, archive, budgetVars,
                   flowVars, astray, mark, lost, hidden>>

\* clearUsage pauses, unless clearing the proxy observations fails after the
\* records are already gone.
ClearUsage ==
    /\ alive
    /\ usage' = NoUsage
    /\ pending' = EmptyBatch
    /\ lost' = PlusBatch(lost, pending)
    /\ DropBaselines
    /\ \/ paused' = TRUE /\ UNCHANGED failures
       \/ StorageFails /\ UNCHANGED paused
    /\ UNCHANGED <<osVars, alive, archive, crashes, flowVars, mark, credited,
                   hidden>>

\* A backup holds what is stored, not the pending batch.
Backup ==
    /\ alive
    /\ archive' = {usage}
    /\ UNCHANGED <<osVars, processVars, usage, budgetVars, historyVars>>

Restore ==
    /\ alive
    /\ \E table \in archive : usage' = table
    /\ pending' = EmptyBatch
    /\ lost' = PlusBatch(lost, pending)
    /\ paused' = TRUE
    /\ DropBaselines
    /\ UNCHANGED <<osVars, alive, archive, budgetVars, flowVars, mark, credited,
                   hidden>>

\* A shutdown is only confirmed, and the process only ends, once the pending
\* batch is stored.
Shutdown ==
    /\ alive
    /\ PendingStored
    /\ alive' = FALSE
    /\ DropBaselines
    /\ UNCHANGED <<osVars, paused, archive, budgetVars, flowVars, mark, lost,
                   hidden>>

Requests ==
    \/ \E p \in BOOLEAN : SetPaused(p)
    \/ FlushPending
    \/ ClearUsage
    \/ Backup
    \/ Restore
    \/ Shutdown

-----------------------------------------------------------------------------
\* The process is killed, or its input is closed: nothing is flushed.
Crash ==
    /\ alive
    /\ crashes < MaxCrashes
    /\ crashes' = crashes + 1
    /\ alive' = FALSE
    /\ pending' = EmptyBatch
    /\ lost' = PlusBatch(lost, pending)
    /\ DropBaselines
    /\ UNCHANGED <<osVars, paused, storeVars, failures, flowVars, mark,
                   credited, hidden>>

\* The host starts the process with or without --paused.
Start ==
    /\ ~alive
    /\ alive' = TRUE
    /\ paused' \in BOOLEAN
    /\ UNCHANGED <<osVars, baseline, pending, storeVars, budgetVars,
                   historyVars>>

Next ==
    \/ Environment
    \/ CollectOnce
    \/ Requests
    \/ Crash
    \/ Start

Spec == Init /\ [][Next]_vars

\* The server loop of the backend samples whenever a round is due and the
\* collector is not paused; nothing else is forced to happen.
FairSpec == Spec /\ WF_vars(CollectOnce)

-----------------------------------------------------------------------------
TypeOK ==
    /\ clock \in Nat
    /\ link \in [Interfaces -> Networks \cup {NoNetwork}]
    /\ counter \in [Interfaces -> Counter]
    /\ alive \in BOOLEAN
    /\ paused \in BOOLEAN
    /\ IsMapTo(baseline, Baseline)
    /\ IsBatch(pending)
    /\ usage \in UsageTable
    /\ archive \subseteq UsageTable
    /\ failures \in Nat
    /\ crashes \in Nat
    /\ total \in [Interfaces -> Counter]
    /\ carried \in UsageTable
    /\ astray \in [Interfaces -> Counter]
    /\ strayed \in UsageTable
    /\ mark \in [Interfaces -> Counter]
    /\ credited \in [Interfaces -> Counter]
    /\ lost \in [Interfaces -> Counter]
    /\ hidden \subseteq Interfaces

\* The bytes stored for a network or about to be, and those read from an
\* interface that are accounted for.
Charged(i, n, d) == usage[i][n][d] + InBatchOn(pending, i, n, d)
Explained(i, d)  == credited[i][d] + InBatch(pending, i, d) + lost[i][d]

(***************************************************************************)
(* A network is never charged more than the interface carried on it,       *)
(* whatever fails, restarts or is restored in between, except for the      *)
(* bytes of an interface that left the network and came back between two   *)
(* rounds, which no counter can tell apart.  Stored and pending bytes      *)
(* count together: a retry must not add a batch a second time.             *)
(***************************************************************************)
NoOvercount ==
    \A i \in Interfaces, n \in Networks, d \in Directions :
        Charged(i, n, d) <= carried[i][n][d] + strayed[i][n][d]

(***************************************************************************)
(* Every byte up to the last reading of an interface's counters is stored, *)
(* is waiting in the pending batch, or was given up for a reason the code  *)
(* names: the baseline was new, replaced or dropped, or the batch was lost *)
(* in a crash or dropped by clearing or restoring.  Counters that went     *)
(* back to zero unnoticed can only hide bytes, never invent them.          *)
(***************************************************************************)
Conservation ==
    \A i \in Interfaces, d \in Directions :
        /\ Explained(i, d) <= mark[i][d]
        /\ mark[i][d] <= total[i][d]
        /\ i \notin hidden => Explained(i, d) = mark[i][d]

(***************************************************************************)
(* A confirmed shutdown loses nothing that was read: no byte is given up   *)
(* when the process ends on a shutdown request.                            *)
(***************************************************************************)
StopsWithoutLoss ==
    [][alive /\ ~alive' /\ crashes' = crashes => lost' = lost
            /\ \A i \in Interfaces, n \in Networks, d \in Directions :
                 usage'[i][n][d] = Charged(i, n, d)]_vars

(***************************************************************************)
(* While a batch waits to be written again no counter is consumed: a step  *)
(* that uses new readings has stored the waiting batch.                    *)
(***************************************************************************)
NoReadingPastPending ==
    [][mark' # mark =>
          \A i \in Interfaces, n \in Networks, d \in Directions :
             usage'[i][n][d] >= Charged(i, n, d)]_vars

\* Storage that stops failing gets the waiting batch, unless the user pauses.
PendingIsSaved ==
    pending # EmptyBatch ~> (pending = EmptyBatch \/ paused \/ ~alive)

-----------------------------------------------------------------------------
(* The ledger the collector implements: its rows are the usage tables, what *)
(* waits is the pending batch, and the limit is what was carried, or what   *)
(* the counters cannot tell from it.                                        *)

Waiting == [i \in Interfaces |-> [n \in Networks |-> [d \in Directions |->
                InBatchOn(pending, i, n, d)]]]
Limit == [i \in Interfaces |-> [n \in Networks |-> [d \in Directions |->
                carried[i][n][d] + strayed[i][n][d]]]]

Ledger == INSTANCE UsageLedger
    WITH up <- alive, stored <- usage, waiting <- Waiting, limit <- Limit, saved <- archive

(***************************************************************************)
(* Whatever is sampled, retried, cleared, restored or lost in a crash, the *)
(* usage tables change as a ledger does: by whole rounds, each at most     *)
(* once, and what waits is given up only with the tables or the process.   *)
(***************************************************************************)
ImplementsLedger == Ledger!Spec

-----------------------------------------------------------------------------
(* What makes the two invariants inductive.                                *)

\* The bytes a baseline has not seen yet are those carried since the last
\* reading, or fewer if the counters were reset in between.
BaselineInv ==
    \A i \in DOMAIN baseline, d \in Directions :
        LET unread == counter[i][d] - baseline[i].bytes[d]
        IN  /\ unread <= total[i][d] - mark[i][d]
            /\ i \notin hidden => unread = total[i][d] - mark[i][d]

\* What the next round would charge to network n if it found i there.
Unread(i, n, d) ==
    IF /\ i \in DOMAIN baseline
       /\ baseline[i].network = n
       /\ counter[i][d] > baseline[i].bytes[d]
    THEN counter[i][d] - baseline[i].bytes[d] ELSE 0

AstrayFrom(i, n, d) ==
    IF i \in DOMAIN baseline /\ baseline[i].network = n
    THEN astray[i][d] ELSE 0

\* NoOvercount still holds once the unread bytes are charged.
ChargeInv ==
    \A i \in Interfaces, n \in Networks, d \in Directions :
        Charged(i, n, d) + Unread(i, n, d)
            <= carried[i][n][d] + strayed[i][n][d] + AstrayFrom(i, n, d)

\* A backup never holds more than was carried when it was made.
ArchiveInv ==
    \A table \in archive :
        \A i \in Interfaces, n \in Networks, d \in Directions :
            table[i][n][d] <= carried[i][n][d] + strayed[i][n][d]

IInv ==
    /\ TypeOK
    /\ Conservation
    /\ BaselineInv
    /\ NoOvercount
    /\ ChargeInv
    /\ ArchiveInv
=============================================================================
