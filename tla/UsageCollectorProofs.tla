------------------------ MODULE UsageCollectorProofs ------------------------
(***************************************************************************)
(* Proofs about UsageCollector: type correctness, that a network is never  *)
(* charged more than was carried on it, the conservation of bytes, and     *)
(* that the collector implements UsageLedger, for every set of interfaces, *)
(* networks and counters.                                                  *)
(***************************************************************************)
EXTENDS UsageCollector, TLAPS

-----------------------------------------------------------------------------
(* What the accumulator returns.                                           *)

\* The report of a round only holds interfaces, with the counters they show.
LEMMA ReportType ==
    ASSUME link \in [Interfaces -> Networks \cup {NoNetwork}],
           counter \in [Interfaces -> Counter],
           NEW readable \in SUBSET Interfaces
    PROVE  /\ IsMapTo(ReportOf(readable), Sample)
           /\ \A i \in DOMAIN ReportOf(readable) :
                 ReportOf(readable)[i].bytes = counter[i]
  BY DEF ReportOf, IsMapTo, Sample

\* The baselines after a round are baselines again.
LEMMA NextBaselinesType ==
    ASSUME NEW base, IsMapTo(base, Baseline),
           NEW sample, IsMapTo(sample, Sample),
           NEW complete \in BOOLEAN, NEW now \in Nat
    PROVE  IsMapTo(NextBaselines(base, sample, complete, now), Baseline)
  <1> DEFINE next == NextBaselines(base, sample, complete, now)
  <1>1. DOMAIN next \subseteq DOMAIN base \cup DOMAIN sample
    BY DEF NextBaselines
  <1>2. ASSUME NEW i \in DOMAIN next
        PROVE  next[i] \in Baseline
    <2>1. CASE i \in DOMAIN sample
      <3>1. sample[i] \in Sample
        BY <2>1 DEF IsMapTo
      <3>2. QED
        BY <1>2, <2>1, <3>1 DEF NextBaselines, Sample, Baseline
    <2>2. CASE i \notin DOMAIN sample
      <3>1. i \in DOMAIN base /\ base[i] \in Baseline
        BY <1>1, <2>2 DEF IsMapTo
      <3>2. QED
        BY <1>2, <2>2, <3>1 DEF NextBaselines
    <2>3. QED
      BY <2>1, <2>2
  <1>3. next = [i \in DOMAIN next |-> next[i]]
    BY DEF NextBaselines
  <1>4. QED
    BY <1>1, <1>2, <1>3 DEF IsMapTo

\* A delta is a natural number of bytes: an interface whose counter is below
\* its baseline has no delta.
LEMMA RoundType ==
    ASSUME TypeOK, NEW sample, IsMapTo(sample, Sample),
           NEW complete \in BOOLEAN
    PROVE  IsBatch(RoundOf(sample, complete))
  <1> DEFINE delta == RoundDeltas(baseline, sample, clock)
  <1>1. ASSUME NEW i \in DOMAIN delta
        PROVE  delta[i] \in Delta
    <2>1. /\ i \in DOMAIN sample /\ sample[i] \in Sample
          /\ i \in DOMAIN baseline /\ baseline[i] \in Baseline
          /\ \A d \in Directions : ~(sample[i].bytes[d] < baseline[i].bytes[d])
      BY <1>1 DEF RoundDeltas, Advanced, WasReset, IsMapTo, TypeOK
    <2>2. Span(baseline[i].seenAt, clock) \in Nat
      BY <2>1 DEF Span, Baseline, TypeOK
    <2>3. [d \in Directions |-> sample[i].bytes[d] - baseline[i].bytes[d]]
             \in Counter
      BY <2>1 DEF Counter, Sample, Baseline
    <2>4. QED
      BY <1>1, <2>1, <2>2, <2>3 DEF RoundDeltas, Delta, Sample
  <1>2. IsMapTo(delta, Delta)
    <2>1. DOMAIN delta \subseteq Interfaces
      BY DEF RoundDeltas, IsMapTo
    <2>2. delta = [i \in DOMAIN delta |-> delta[i]]
      BY DEF RoundDeltas
    <2>3. QED
      BY <1>1, <2>1, <2>2 DEF IsMapTo
  <1>3. RoundEvents(baseline, sample, complete, clock) \subseteq Events
    BY DEF RoundEvents, Events, EventKinds
  <1>4. QED
    BY <1>2, <1>3 DEF RoundOf, IsBatch

\* Storing a batch keeps the table a table, and adds the batch to it.
LEMMA StoredType ==
    ASSUME NEW table \in UsageTable, NEW batch, IsBatch(batch)
    PROVE  /\ Stored(table, batch) \in UsageTable
           /\ \A i \in Interfaces, n \in Networks, d \in Directions :
                 /\ InBatchOn(batch, i, n, d) \in Nat
                 /\ Stored(table, batch)[i][n][d]
                       = table[i][n][d] + InBatchOn(batch, i, n, d)
  <1>1. \A i \in Interfaces, n \in Networks, d \in Directions :
           /\ table[i][n][d] \in Nat
           /\ InBatchOn(batch, i, n, d) \in Nat
    BY DEF UsageTable, Counter, InBatchOn, IsBatch, IsMapTo, Delta
  <1>2. QED
    BY <1>1 DEF Stored, UsageTable, Counter

LEMMA PlusBatchType ==
    ASSUME NEW count \in [Interfaces -> Counter], NEW batch, IsBatch(batch)
    PROVE  /\ PlusBatch(count, batch) \in [Interfaces -> Counter]
           /\ \A i \in Interfaces, d \in Directions :
                 /\ InBatch(batch, i, d) \in Nat
                 /\ PlusBatch(count, batch)[i][d]
                       = count[i][d] + InBatch(batch, i, d)
  <1>1. \A i \in Interfaces, d \in Directions :
           count[i][d] \in Nat /\ InBatch(batch, i, d) \in Nat
    BY DEF Counter, InBatch, IsBatch, IsMapTo, Delta
  <1>2. QED
    BY <1>1 DEF PlusBatch, Counter

LEMMA EmptyBatchType ==
    /\ IsBatch(EmptyBatch)
    /\ \A i \in Interfaces, d \in Directions : InBatch(EmptyBatch, i, d) = 0
    /\ \A i \in Interfaces, n \in Networks, d \in Directions :
          InBatchOn(EmptyBatch, i, n, d) = 0
  BY DEF EmptyBatch, IsBatch, IsMapTo, InBatch, InBatchOn

LEMMA ZeroTypes ==
    /\ NoCounter \in Counter
    /\ NoCounters \in [Interfaces -> Counter]
    /\ NoUsage \in UsageTable
    /\ IsMapTo(NoBaselines, Baseline)
    /\ DOMAIN NoBaselines = {}
  BY DEF NoCounter, NoCounters, NoUsage, NoBaselines, Counter, UsageTable, IsMapTo

-----------------------------------------------------------------------------
(* Type correctness.                                                       *)

LEMMA InitTypeOK == Init => TypeOK
  BY ZeroTypes, EmptyBatchType DEF Init, TypeOK

LEMMA EnvironmentTypeOK ==
    ASSUME TypeOK, Environment
    PROVE  TypeOK'
  <1> USE DEF processVars, storeVars, budgetVars, historyVars, flowVars,
              accountVars
  <1>1. ASSUME NEW i \in Interfaces, NEW d \in Directions, Carry(i, d)
        PROVE  TypeOK'
    <2>1. \A c \in [Interfaces -> Counter] :
             [c EXCEPT ![i][d] = @ + 1] \in [Interfaces -> Counter]
      BY DEF Counter
    <2> DEFINE More(c) == [c EXCEPT ![i][d] = @ + 1]
    <2>2. /\ counter \in [Interfaces -> Counter]
          /\ total \in [Interfaces -> Counter]
          /\ astray \in [Interfaces -> Counter]
      BY DEF TypeOK
    <2>3. counter' = More(counter) /\ total' = More(total)
      BY <1>1 DEF Carry
    <2>4. astray' = More(astray) \/ astray' = astray
      BY <1>1 DEF Carry
    <2>5. \A c \in [Interfaces -> Counter] : More(c) \in [Interfaces -> Counter]
      BY <2>1
    <2> HIDE DEF More
    <2>6. /\ counter' \in [Interfaces -> Counter]
          /\ total' \in [Interfaces -> Counter]
          /\ astray' \in [Interfaces -> Counter]
      BY <2>2, <2>3, <2>4, <2>5
    <2>7. carried' \in UsageTable
      <3>1. /\ carried \in UsageTable
            /\ link[i] \in Networks
            /\ carried' = [carried EXCEPT ![i][link[i]][d] = @ + 1]
        BY <1>1 DEF Carry, TypeOK
      <3>2. QED
        BY <3>1 DEF UsageTable, Counter
    <2>8. QED
      BY <1>1, <2>6, <2>7 DEF Carry, TypeOK
  <1>2. ASSUME NEW i \in Interfaces, NEW n \in Networks \cup {NoNetwork},
               Roam(i, n)
        PROVE  TypeOK'
    BY <1>2 DEF Roam, TypeOK
  <1>3. ASSUME NEW i \in Interfaces, ResetCounters(i)
        PROVE  TypeOK'
    BY <1>3, ZeroTypes DEF ResetCounters, TypeOK
  <1>4. ASSUME NEW t \in 0 .. MaxClock, SetClock(t)
        PROVE  TypeOK'
    BY <1>4, BoundsAssumption DEF SetClock, TypeOK
  <1>5. QED
    BY <1>1, <1>2, <1>3, <1>4 DEF Environment

LEMMA RoundHistoryType ==
    ASSUME TypeOK, NEW readable \in SUBSET Interfaces,
           RoundHistory(ReportOf(readable)),
           \A i \in Interfaces, d \in Directions : mark[i][d] <= total[i][d]
    PROVE  /\ mark' \in [Interfaces -> Counter]
           /\ lost' \in [Interfaces -> Counter]
           /\ strayed' \in UsageTable
           /\ astray' \in [Interfaces -> Counter]
  <1> USE DEF RoundHistory, TypeOK
  <1>1. mark' \in [Interfaces -> Counter]
    OBVIOUS
  <1>2. lost' \in [Interfaces -> Counter]
    <2>1. \A i \in Interfaces, d \in Directions :
             /\ lost[i][d] \in Nat
             /\ total[i][d] \in Nat
             /\ mark[i][d] \in Nat
             /\ lost[i][d] + total[i][d] - mark[i][d] \in Nat
      BY DEF Counter
    <2>2. QED
      BY <2>1 DEF Counter
  <1>3. strayed' \in UsageTable
    <2>1. \A i \in Interfaces, n \in Networks, d \in Directions :
             strayed[i][n][d] \in Nat /\ strayed[i][n][d] + astray[i][d] \in Nat
      BY DEF UsageTable, Counter
    <2>2. QED
      BY <2>1 DEF UsageTable, Counter
  <1>4. astray' \in [Interfaces -> Counter]
    BY ZeroTypes
  <1>5. QED
    BY <1>1, <1>2, <1>3, <1>4

LEMMA MarkBelowTotal ==
    ASSUME Conservation
    PROVE  \A i \in Interfaces, d \in Directions : mark[i][d] <= total[i][d]
  BY DEF Conservation

LEMMA PendingStoredType ==
    ASSUME TypeOK, PendingStored
    PROVE  /\ usage' \in UsageTable
           /\ credited' \in [Interfaces -> Counter]
           /\ IsBatch(pending')
  BY StoredType, PlusBatchType, EmptyBatchType DEF PendingStored, TypeOK

LEMMA CollectTypeOK ==
    ASSUME TypeOK, Conservation, CollectOnce
    PROVE  TypeOK'
  <1> USE DEF osVars, storeVars, budgetVars, flowVars
  <1>1. CASE RetryFails
    BY <1>1 DEF RetryFails, StorageFails, TypeOK, processVars, historyVars,
                accountVars
  <1>2. CASE MappingFails
    BY <1>2, PendingStoredType DEF MappingFails, StorageFails, TypeOK
  <1>3. ASSUME NEW readable \in SUBSET Interfaces,
               RoundStored(readable) \/ RoundDeferred(readable)
        PROVE  TypeOK'
    <2> DEFINE sample   == ReportOf(readable)
               complete == readable = Interfaces
               round    == RoundOf(sample, complete)
    <2>1. IsMapTo(sample, Sample) /\ complete \in BOOLEAN
      BY ReportType DEF TypeOK
    <2>2. IsBatch(round)
      BY <2>1, RoundType
    <2>3. IsMapTo(baseline', Baseline)
      <3>1. IsMapTo(NextBaselines(baseline, sample, complete, clock), Baseline)
        BY <2>1, NextBaselinesType DEF TypeOK
      <3>2. QED
        BY <1>3, <3>1 DEF RoundStored, RoundDeferred
    <2>4. /\ mark' \in [Interfaces -> Counter]
          /\ lost' \in [Interfaces -> Counter]
          /\ strayed' \in UsageTable
          /\ astray' \in [Interfaces -> Counter]
          /\ UNCHANGED <<total, carried, hidden>>
      <3>1. RoundHistory(sample)
        BY <1>3 DEF RoundStored, RoundDeferred
      <3>2. QED
        BY <3>1, RoundHistoryType, MarkBelowTotal DEF RoundHistory
    <2>5. /\ usage' \in UsageTable
          /\ credited' \in [Interfaces -> Counter]
          /\ IsBatch(pending')
      <3>1. /\ Stored(usage, pending) \in UsageTable
            /\ PlusBatch(credited, pending) \in [Interfaces -> Counter]
        BY StoredType, PlusBatchType DEF TypeOK
      <3>2. /\ Stored(Stored(usage, pending), round) \in UsageTable
            /\ PlusBatch(PlusBatch(credited, pending), round)
                  \in [Interfaces -> Counter]
        BY <2>2, <3>1, StoredType, PlusBatchType
      <3>3. QED
        BY <1>3, <2>2, <3>1, <3>2, EmptyBatchType DEF RoundStored, RoundDeferred
    <2>6. /\ failures' \in Nat
          /\ UNCHANGED <<clock, link, counter, alive, paused, archive, crashes>>
      BY <1>3 DEF RoundStored, RoundDeferred, StorageFails, TypeOK
    <2>7. QED
      BY <2>3, <2>4, <2>5, <2>6 DEF TypeOK
  <1>4. QED
    BY <1>1, <1>2, <1>3 DEF CollectOnce

LEMMA RequestTypeOK ==
    ASSUME TypeOK, Requests \/ Crash \/ Start
    PROVE  TypeOK'
  <1> USE DEF osVars, storeVars, budgetVars, flowVars, accountVars, historyVars
  <1>1. PlusBatch(lost, pending) \in [Interfaces -> Counter]
    BY PlusBatchType DEF TypeOK
  <1>2. DropBaselines => /\ IsMapTo(baseline', Baseline)
                         /\ astray' \in [Interfaces -> Counter]
    BY ZeroTypes DEF DropBaselines
  <1>3. ASSUME NEW p \in BOOLEAN, SetPaused(p)
        PROVE  TypeOK'
    <2>1. paused' \in BOOLEAN
      BY <1>3 DEF SetPaused
    <2>2. QED
      BY <1>2, <1>3, <2>1 DEF SetPaused, TypeOK
  <1>4. CASE FlushPending
    BY <1>4, PendingStoredType DEF FlushPending, TypeOK
  <1>5. CASE ClearUsage
    <2>1. paused' \in BOOLEAN
      BY <1>5 DEF ClearUsage, TypeOK
    <2>2. failures' \in Nat
      BY <1>5 DEF ClearUsage, StorageFails, TypeOK
    <2>3. QED
      BY <1>1, <1>2, <1>5, <2>1, <2>2, ZeroTypes, EmptyBatchType
         DEF ClearUsage, TypeOK
  <1>6. CASE Backup
    BY <1>6 DEF Backup, processVars, TypeOK
  <1>7. CASE Restore
    BY <1>1, <1>2, <1>7, EmptyBatchType DEF Restore, TypeOK
  <1>8. CASE Shutdown
    BY <1>2, <1>8, PendingStoredType DEF Shutdown, TypeOK
  <1>9. CASE Crash
    <2>1. crashes' \in Nat
      BY <1>9 DEF Crash, TypeOK
    <2>2. alive' \in BOOLEAN
      BY <1>9 DEF Crash
    <2>3. QED
      BY <1>1, <1>2, <1>9, <2>1, <2>2, EmptyBatchType DEF Crash, TypeOK
  <1>10. CASE Start
    BY <1>10 DEF Start, TypeOK
  <1>11. QED
    BY <1>3, <1>4, <1>5, <1>6, <1>7, <1>8, <1>9, <1>10 DEF Requests

-----------------------------------------------------------------------------
(* What the steps do to the bytes of one interface.                        *)

\* Every byte count that appears in the invariants is a number.
LEMMA ByteTypes ==
    ASSUME TypeOK, NEW i \in Interfaces, NEW d \in Directions
    PROVE  /\ counter[i][d] \in Nat /\ total[i][d] \in Nat
           /\ mark[i][d] \in Nat /\ credited[i][d] \in Nat
           /\ lost[i][d] \in Nat /\ astray[i][d] \in Nat
           /\ InBatch(pending, i, d) \in Nat
           /\ i \in DOMAIN baseline => /\ baseline[i].bytes[d] \in Nat
                                       /\ baseline[i].network \in Networks
           /\ \A n \in Networks :
                 /\ usage[i][n][d] \in Nat /\ carried[i][n][d] \in Nat
                 /\ strayed[i][n][d] \in Nat
                 /\ InBatchOn(pending, i, n, d) \in Nat
  <1>1. InBatch(pending, i, d) \in Nat
    BY PlusBatchType DEF TypeOK
  <1>2. \A n \in Networks : InBatchOn(pending, i, n, d) \in Nat
    BY StoredType DEF TypeOK
  <1>3. i \in DOMAIN baseline => /\ baseline[i].bytes[d] \in Nat
                                 /\ baseline[i].network \in Networks
    BY DEF TypeOK, IsMapTo, Baseline, Counter
  <1>4. /\ counter[i][d] \in Nat /\ total[i][d] \in Nat
        /\ mark[i][d] \in Nat /\ credited[i][d] \in Nat
        /\ lost[i][d] \in Nat /\ astray[i][d] \in Nat
    BY DEF TypeOK, Counter
  <1>5. \A n \in Networks : /\ usage[i][n][d] \in Nat /\ carried[i][n][d] \in Nat
                            /\ strayed[i][n][d] \in Nat
    BY DEF TypeOK, UsageTable, Counter
  <1>6. QED
    BY <1>1, <1>2, <1>3, <1>4, <1>5

LEMMA ChargedType ==
    ASSUME TypeOK, NEW i \in Interfaces, NEW n \in Networks, NEW d \in Directions
    PROVE  Charged(i, n, d) \in Nat
  BY ByteTypes DEF Charged

LEMMA UnreadTypes ==
    ASSUME TypeOK, NEW i \in Interfaces, NEW n \in Networks, NEW d \in Directions
    PROVE  Unread(i, n, d) \in Nat /\ AstrayFrom(i, n, d) \in Nat
  BY ByteTypes DEF Unread, AstrayFrom

\* The same of the next state.
LEMMA NextByteTypes ==
    ASSUME TypeOK', NEW i \in Interfaces, NEW d \in Directions
    PROVE  /\ counter'[i][d] \in Nat /\ total'[i][d] \in Nat
           /\ mark'[i][d] \in Nat /\ credited'[i][d] \in Nat
           /\ lost'[i][d] \in Nat /\ astray'[i][d] \in Nat
           /\ InBatch(pending', i, d) \in Nat
           /\ \A n \in Networks :
                 /\ usage'[i][n][d] \in Nat /\ carried'[i][n][d] \in Nat
                 /\ strayed'[i][n][d] \in Nat
                 /\ Unread(i, n, d)' \in Nat /\ AstrayFrom(i, n, d)' \in Nat
                 /\ Charged(i, n, d)' \in Nat
  <1>1. InBatch(pending', i, d) \in Nat
    BY PlusBatchType DEF TypeOK
  <1>2. /\ counter'[i][d] \in Nat /\ total'[i][d] \in Nat
        /\ mark'[i][d] \in Nat /\ credited'[i][d] \in Nat
        /\ lost'[i][d] \in Nat /\ astray'[i][d] \in Nat
    BY DEF TypeOK, Counter
  <1>3. \A n \in Networks : /\ usage'[i][n][d] \in Nat /\ carried'[i][n][d] \in Nat
                            /\ strayed'[i][n][d] \in Nat
    BY DEF TypeOK, UsageTable, Counter
  <1>4. i \in DOMAIN baseline' => baseline'[i].bytes[d] \in Nat
    BY DEF TypeOK, IsMapTo, Baseline, Counter
  <1>5. \A n \in Networks : Unread(i, n, d)' \in Nat /\ AstrayFrom(i, n, d)' \in Nat
    BY <1>2, <1>4 DEF Unread, AstrayFrom
  <1>6. \A n \in Networks : InBatchOn(pending', i, n, d) \in Nat
    BY DEF TypeOK, InBatchOn, IsBatch, IsMapTo, Delta, Counter
  <1>7. \A n \in Networks : Charged(i, n, d)' \in Nat
    BY <1>3, <1>6 DEF Charged
  <1>8. QED
    BY <1>1, <1>2, <1>3, <1>5, <1>7

\* Writing the pending batch moves its bytes, it changes no sum.
LEMMA PendingStoredBytes ==
    ASSUME TypeOK, PendingStored,
           NEW i \in Interfaces, NEW d \in Directions
    PROVE  /\ credited'[i][d] + InBatch(pending', i, d)
                 = credited[i][d] + InBatch(pending, i, d)
           /\ \A n \in Networks : Charged(i, n, d)' = Charged(i, n, d)
  BY StoredType, PlusBatchType, EmptyBatchType, ByteTypes
     DEF PendingStored, TypeOK, Charged

\* The bytes of interface i in the batch of a round: what its counters show
\* beyond its baseline, for the network of its baseline.
LEMMA RoundBytes ==
    ASSUME TypeOK, NEW readable \in SUBSET Interfaces,
           NEW i \in Interfaces, NEW d \in Directions
    PROVE  LET sample == ReportOf(readable)
               round  == RoundOf(sample, readable = Interfaces)
               delta  == IF Advanced(baseline, sample, i)
                         THEN counter[i][d] - baseline[i].bytes[d] ELSE 0
           IN  /\ InBatch(round, i, d) = delta
               /\ \A n \in Networks :
                     InBatchOn(round, i, n, d)
                        = IF i \in DOMAIN baseline /\ baseline[i].network = n
                          THEN delta ELSE 0
               /\ Advanced(baseline, sample, i) =>
                     i \in DOMAIN baseline /\ counter[i][d] >= baseline[i].bytes[d]
  <1> DEFINE sample == ReportOf(readable)
             round  == RoundOf(sample, readable = Interfaces)
  <1>1. \A j \in DOMAIN sample : sample[j].bytes = counter[j] /\ j \in Interfaces
    BY DEF ReportOf
  <1>2. Advanced(baseline, sample, i) =>
           /\ i \in DOMAIN sample \cap DOMAIN baseline
           /\ sample[i].network = baseline[i].network
           /\ ~(counter[i][d] < baseline[i].bytes[d])
    BY <1>1 DEF Advanced, Moved, WasReset
  <1>3. /\ i \in DOMAIN round.delta <=> Advanced(baseline, sample, i)
        /\ Advanced(baseline, sample, i) =>
              /\ round.delta[i].network = sample[i].network
              /\ round.delta[i].bytes[d] = counter[i][d] - baseline[i].bytes[d]
    BY <1>1, <1>2 DEF RoundOf, RoundDeltas, Advanced
  <1>4. i \in DOMAIN baseline =>
           counter[i][d] \in Nat /\ baseline[i].bytes[d] \in Nat
    BY ByteTypes
  <1> HIDE DEF sample, round
  <1>5. QED
    BY <1>2, <1>3, <1>4 DEF InBatch, InBatchOn, sample, round

\* What a completed round does, stored or deferred.
LEMMA RoundEffect ==
    ASSUME TypeOK, Conservation, NEW readable \in SUBSET Interfaces,
           RoundStored(readable) \/ RoundDeferred(readable),
           NEW i \in Interfaces, NEW d \in Directions
    PROVE  LET sample == ReportOf(readable)
               delta  == IF Advanced(baseline, sample, i)
                         THEN counter[i][d] - baseline[i].bytes[d] ELSE 0
           IN  /\ UNCHANGED <<counter, total, carried, archive, hidden>>
               /\ RoundHistory(sample)
               /\ Advanced(baseline, sample, i) =>
                     /\ i \in DOMAIN baseline \cap DOMAIN sample
                     /\ counter[i][d] >= baseline[i].bytes[d]
               /\ i \in DOMAIN baseline' =>
                     IF i \in DOMAIN sample
                     THEN baseline'[i].bytes[d] = counter[i][d]
                     ELSE i \in DOMAIN baseline /\ baseline'[i] = baseline[i]
               /\ credited'[i][d] + InBatch(pending', i, d)
                     = credited[i][d] + InBatch(pending, i, d) + delta
               /\ \A n \in Networks :
                     Charged(i, n, d)' = Charged(i, n, d)
                        + (IF i \in DOMAIN baseline /\ baseline[i].network = n
                           THEN delta ELSE 0)
  <1> DEFINE sample   == ReportOf(readable)
             complete == readable = Interfaces
             round    == RoundOf(sample, complete)
  <1>1. /\ UNCHANGED <<counter, total, carried, archive, hidden>>
        /\ RoundHistory(sample)
    BY DEF RoundStored, RoundDeferred, RoundHistory, osVars
  <1>2. Advanced(baseline, sample, i) => i \in DOMAIN baseline \cap DOMAIN sample
    BY DEF Advanced
  <1>3. i \in DOMAIN baseline' =>
           IF i \in DOMAIN sample
           THEN baseline'[i].bytes[d] = counter[i][d]
           ELSE i \in DOMAIN baseline /\ baseline'[i] = baseline[i]
    <2>1. baseline' = NextBaselines(baseline, sample, complete, clock)
      BY DEF RoundStored, RoundDeferred
    <2>2. i \in DOMAIN sample => sample[i].bytes = counter[i]
      BY DEF ReportOf
    <2> HIDE DEF sample, complete
    <2>3. QED
      BY <2>1, <2>2 DEF NextBaselines
  <1>4. IsBatch(round) /\ IsBatch(pending)
    <2>1. IsMapTo(sample, Sample) /\ complete \in BOOLEAN
      BY ReportType DEF TypeOK
    <2>2. QED
      BY <2>1, RoundType DEF TypeOK
  <1>5. /\ Stored(usage, pending) \in UsageTable
        /\ PlusBatch(credited, pending) \in [Interfaces -> Counter]
    BY <1>4, StoredType, PlusBatchType DEF TypeOK
  <1>6. credited'[i][d] + InBatch(pending', i, d)
           = credited[i][d] + InBatch(pending, i, d) + InBatch(round, i, d)
    <2>1. /\ credited \in [Interfaces -> Counter] /\ credited[i][d] \in Nat
          /\ InBatch(pending, i, d) \in Nat /\ InBatch(round, i, d) \in Nat
      BY <1>4, ByteTypes, PlusBatchType DEF TypeOK
    <2>2. /\ PlusBatch(credited, pending)[i][d]
                = credited[i][d] + InBatch(pending, i, d)
          /\ PlusBatch(PlusBatch(credited, pending), round)[i][d]
                = PlusBatch(credited, pending)[i][d] + InBatch(round, i, d)
      BY <1>4, <1>5, <2>1, PlusBatchType
    <2>3. CASE RoundStored(readable)
      BY <2>1, <2>2, <2>3, EmptyBatchType DEF RoundStored
    <2>4. CASE RoundDeferred(readable)
      BY <2>1, <2>2, <2>4 DEF RoundDeferred
    <2>5. QED
      BY <2>3, <2>4
  <1>7. ASSUME NEW n \in Networks
        PROVE  Charged(i, n, d)' = Charged(i, n, d) + InBatchOn(round, i, n, d)
    <2>1. /\ usage \in UsageTable /\ usage[i][n][d] \in Nat
          /\ InBatchOn(pending, i, n, d) \in Nat
          /\ InBatchOn(round, i, n, d) \in Nat
      BY <1>4, ByteTypes, StoredType DEF TypeOK
    <2>2. /\ Stored(usage, pending)[i][n][d]
                = usage[i][n][d] + InBatchOn(pending, i, n, d)
          /\ Stored(Stored(usage, pending), round)[i][n][d]
                = Stored(usage, pending)[i][n][d] + InBatchOn(round, i, n, d)
      BY <1>4, <1>5, <2>1, StoredType
    <2>3. CASE RoundStored(readable)
      BY <2>1, <2>2, <2>3, EmptyBatchType DEF RoundStored, Charged
    <2>4. CASE RoundDeferred(readable)
      BY <2>1, <2>2, <2>4 DEF RoundDeferred, Charged
    <2>5. QED
      BY <2>3, <2>4
  <1> HIDE DEF sample, round
  <1>8. QED
    BY <1>1, <1>2, <1>3, <1>6, <1>7, RoundBytes DEF sample, round, complete

-----------------------------------------------------------------------------
(* The inductive invariant.                                                *)

LEMMA InitInv == Init => IInv
  <1> SUFFICES ASSUME Init PROVE IInv
    OBVIOUS
  <1>1. TypeOK
    BY InitTypeOK
  <1>2. \A i \in Interfaces, d \in Directions :
           /\ InBatch(pending, i, d) = 0 /\ credited[i][d] = 0 /\ lost[i][d] = 0
           /\ mark[i][d] = 0 /\ total[i][d] = 0
    BY EmptyBatchType DEF Init, NoCounters, NoCounter
  <1>3. \A i \in Interfaces, n \in Networks, d \in Directions :
           /\ usage[i][n][d] = 0 /\ InBatchOn(pending, i, n, d) = 0
           /\ carried[i][n][d] = 0 /\ strayed[i][n][d] = 0
           /\ Unread(i, n, d) = 0 /\ AstrayFrom(i, n, d) = 0
    BY EmptyBatchType, ZeroTypes
       DEF Init, NoUsage, NoCounter, Unread, AstrayFrom
  <1>4. Conservation
    BY <1>2 DEF Conservation, Explained
  <1>5. BaselineInv
    BY ZeroTypes DEF Init, BaselineInv
  <1>6. NoOvercount /\ ChargeInv
    BY <1>3 DEF NoOvercount, ChargeInv, Charged
  <1>7. ArchiveInv
    BY DEF Init, ArchiveInv
  <1>8. QED
    BY <1>1, <1>4, <1>5, <1>6, <1>7 DEF IInv

LEMMA EnvironmentInv ==
    ASSUME IInv, Environment
    PROVE  IInv'
  <1> USE DEF processVars, storeVars, budgetVars, historyVars, flowVars,
              accountVars
  <1>1. TypeOK'
    BY EnvironmentTypeOK DEF IInv
  <1>2. UNCHANGED <<baseline, pending, usage, archive, strayed, mark, credited,
                    lost>>
    BY DEF Environment, Carry, Roam, ResetCounters, SetClock
  <1>3. ASSUME NEW i \in Interfaces, NEW d \in Directions
        PROVE  /\ Explained(i, d)' = Explained(i, d)
               /\ \A n \in Networks :
                     /\ Charged(i, n, d)' = Charged(i, n, d)
                     /\ carried[i][n][d] <= carried'[i][n][d]
               /\ total[i][d] <= total'[i][d]
               /\ hidden \subseteq hidden'
               /\ \/ i \in hidden' /\ counter'[i][d] = 0 /\ total'[i][d] = total[i][d]
                  \/ counter'[i][d] - counter[i][d] = total'[i][d] - total[i][d]
    <2>1. Explained(i, d)' = Explained(i, d)
      BY <1>2 DEF Explained
    <2>2. \A n \in Networks : Charged(i, n, d)' = Charged(i, n, d)
      BY <1>2 DEF Charged
    <2>3. TypeOK /\ counter[i][d] \in Nat /\ total[i][d] \in Nat
      BY ByteTypes DEF IInv
    <2>4. CASE UNCHANGED <<counter, total, carried, hidden>>
      BY <2>1, <2>2, <2>3, <2>4, ByteTypes
    <2>5. ASSUME NEW j \in Interfaces, NEW e \in Directions, Carry(j, e)
          PROVE  /\ \A n \in Networks : carried[i][n][d] <= carried'[i][n][d]
                 /\ hidden' = hidden
                 /\ total[i][d] <= total'[i][d]
                 /\ counter'[i][d] - counter[i][d] = total'[i][d] - total[i][d]
      <3>1. \A n \in Networks : carried[i][n][d] <= carried'[i][n][d]
        BY <2>3, <2>5, ByteTypes DEF Carry, TypeOK, UsageTable, Counter
      <3>2. hidden' = hidden
        BY <2>5 DEF Carry
      <3>3. /\ total[i][d] <= total'[i][d]
            /\ counter'[i][d] - counter[i][d] = total'[i][d] - total[i][d]
        BY <2>3, <2>5 DEF Carry, TypeOK, Counter
      <3>4. QED
        BY <3>1, <3>2, <3>3
    <2>6. ASSUME NEW j \in Interfaces, ResetCounters(j)
          PROVE  /\ UNCHANGED <<total, carried>> /\ hidden' = hidden \cup {j}
                 /\ IF i = j THEN counter'[i][d] = 0
                             ELSE counter'[i] = counter[i]
      BY <2>3, <2>6 DEF ResetCounters, TypeOK, NoCounter
    <2>7. CASE \E j \in Interfaces, e \in Directions : Carry(j, e)
      BY <2>1, <2>2, <2>3, <2>5, <2>7
    <2>8. CASE \E j \in Interfaces : ResetCounters(j)
      BY <2>1, <2>2, <2>3, <2>6, <2>8, ByteTypes
    <2>9. QED
      BY <2>4, <2>7, <2>8 DEF Environment, Roam, SetClock
  <1>4. ASSUME NEW i \in DOMAIN baseline, NEW n \in Networks, NEW d \in Directions
        PROVE  Unread(i, n, d)' - AstrayFrom(i, n, d)' + carried[i][n][d]
                 <= Unread(i, n, d) - AstrayFrom(i, n, d) + carried'[i][n][d]
    <2>1. /\ TypeOK /\ i \in Interfaces
          /\ counter[i][d] \in Nat /\ astray[i][d] \in Nat
          /\ baseline[i].bytes[d] \in Nat /\ carried[i][n][d] \in Nat
      BY <1>4, ByteTypes DEF IInv, TypeOK, IsMapTo
    <2>2. CASE UNCHANGED <<counter, astray, carried>>
      BY <1>2, <2>1, <2>2 DEF Unread, AstrayFrom
    <2>3. ASSUME NEW j \in Interfaces, NEW e \in Directions, Carry(j, e)
          PROVE  Unread(i, n, d)' - AstrayFrom(i, n, d)' + carried[i][n][d]
                   <= Unread(i, n, d) - AstrayFrom(i, n, d) + carried'[i][n][d]
      <3>1. CASE i = j /\ d = e
        <4>1. counter'[i][d] = counter[i][d] + 1
          BY <2>1, <2>3, <3>1 DEF Carry, TypeOK, Counter
        <4>2. CASE baseline[i].network = n /\ link[i] = n
          <5>1. carried'[i][n][d] = carried[i][n][d] + 1 /\ astray' = astray
            BY <1>4, <2>1, <2>3, <3>1, <4>2 DEF Carry, TypeOK, UsageTable, Counter
          <5>2. QED
            BY <1>2, <2>1, <4>1, <5>1 DEF Unread, AstrayFrom
        <4>3. CASE baseline[i].network = n /\ link[i] # n
          <5>1. carried'[i][n][d] = carried[i][n][d]
            BY <2>1, <2>3, <3>1, <4>3 DEF Carry, TypeOK, UsageTable, Counter
          <5>2. astray'[i][d] = astray[i][d] + 1
            BY <1>4, <2>1, <2>3, <3>1, <4>3 DEF Carry, TypeOK, Counter
          <5>3. QED
            BY <1>2, <2>1, <4>1, <5>1, <5>2 DEF Unread, AstrayFrom
        <4>4. CASE baseline[i].network # n
          <5>1. carried[i][n][d] <= carried'[i][n][d] /\ carried'[i][n][d] \in Int
            BY <2>1, <2>3, <3>1 DEF Carry, TypeOK, UsageTable, Counter
          <5>2. QED
            BY <1>2, <2>1, <4>4, <5>1 DEF Unread, AstrayFrom
        <4>5. QED
          BY <4>2, <4>3, <4>4
      <3>2. CASE ~(i = j /\ d = e)
        <4>1. /\ counter'[i][d] = counter[i][d] /\ astray'[i][d] = astray[i][d]
              /\ carried'[i][n][d] = carried[i][n][d]
          BY <2>1, <2>3, <3>2 DEF Carry, TypeOK, UsageTable, Counter
        <4>2. QED
          BY <1>2, <2>1, <4>1 DEF Unread, AstrayFrom
      <3>3. QED
        BY <3>1, <3>2
    <2>4. ASSUME NEW j \in Interfaces, ResetCounters(j)
          PROVE  Unread(i, n, d)' - AstrayFrom(i, n, d)' + carried[i][n][d]
                   <= Unread(i, n, d) - AstrayFrom(i, n, d) + carried'[i][n][d]
      <3>1. UNCHANGED <<astray, carried>>
        BY <2>4 DEF ResetCounters
      <3>2. counter'[i][d] \in {0, counter[i][d]}
        BY <2>1, <2>4 DEF ResetCounters, TypeOK, NoCounter
      <3>3. QED
        BY <1>2, <2>1, <3>1, <3>2 DEF Unread, AstrayFrom
    <2>5. QED
      BY <2>2, <2>3, <2>4 DEF Environment, Roam, SetClock
  <1>5. Conservation'
    <2>1. ASSUME NEW i \in Interfaces, NEW d \in Directions
          PROVE  /\ Explained(i, d)' <= mark'[i][d]
                 /\ mark'[i][d] <= total'[i][d]
                 /\ i \notin hidden' => Explained(i, d)' = mark'[i][d]
      <3>1. /\ Explained(i, d)' = Explained(i, d) /\ mark' = mark
            /\ total[i][d] <= total'[i][d] /\ hidden \subseteq hidden'
        BY <1>2, <1>3
      <3>2. /\ mark[i][d] \in Nat /\ total[i][d] \in Nat /\ total'[i][d] \in Nat
        BY <1>1, ByteTypes, NextByteTypes DEF IInv
      <3>3. QED
        BY <3>1, <3>2 DEF IInv, Conservation
    <2>2. QED
      BY <2>1 DEF Conservation
  <1>6. BaselineInv'
    <2>1. \A i \in DOMAIN baseline, d \in Directions :
             /\ i \in Interfaces /\ baseline[i].bytes[d] \in Nat
             /\ counter[i][d] \in Nat /\ counter'[i][d] \in Nat
             /\ total[i][d] \in Nat /\ total'[i][d] \in Nat
             /\ mark[i][d] \in Nat /\ mark[i][d] <= total[i][d]
      BY <1>1, <1>2, ByteTypes, MarkBelowTotal
         DEF IInv, TypeOK, IsMapTo, Counter
    <2>2. QED
      BY <1>2, <1>3, <2>1 DEF IInv, BaselineInv
  <1>7. NoOvercount'
    <2>1. ASSUME NEW i \in Interfaces, NEW n \in Networks, NEW d \in Directions
          PROVE  Charged(i, n, d)' <= carried'[i][n][d] + strayed'[i][n][d]
      <3>1. /\ Charged(i, n, d)' = Charged(i, n, d)
            /\ carried[i][n][d] <= carried'[i][n][d]
            /\ Charged(i, n, d) <= carried[i][n][d] + strayed[i][n][d]
        BY <1>3 DEF IInv, NoOvercount
      <3>2. /\ Charged(i, n, d) \in Nat /\ strayed[i][n][d] \in Nat
            /\ carried[i][n][d] \in Nat /\ carried'[i][n][d] \in Nat
        BY <1>1, ChargedType, ByteTypes, NextByteTypes DEF IInv
      <3>3. QED
        BY <1>2, <3>1, <3>2
    <2>2. QED
      BY <2>1 DEF NoOvercount
  <1>8. ChargeInv'
    <2>1. ASSUME NEW i \in Interfaces, NEW n \in Networks, NEW d \in Directions
          PROVE  Charged(i, n, d)' + Unread(i, n, d)'
                    <= carried'[i][n][d] + strayed'[i][n][d] + AstrayFrom(i, n, d)'
      <3>1. /\ Charged(i, n, d)' = Charged(i, n, d)
            /\ carried[i][n][d] <= carried'[i][n][d]
            /\ Charged(i, n, d) + Unread(i, n, d)
                 <= carried[i][n][d] + strayed[i][n][d] + AstrayFrom(i, n, d)
        BY <1>3 DEF IInv, ChargeInv
      <3>2. /\ Charged(i, n, d) \in Nat /\ strayed[i][n][d] \in Nat
            /\ carried[i][n][d] \in Nat /\ carried'[i][n][d] \in Nat
        BY <1>1, ChargedType, ByteTypes, NextByteTypes DEF IInv
      <3>3. /\ Unread(i, n, d) \in Nat /\ AstrayFrom(i, n, d) \in Nat
            /\ Unread(i, n, d)' \in Nat /\ AstrayFrom(i, n, d)' \in Nat
        BY <1>1, UnreadTypes, NextByteTypes DEF IInv
      <3>4. CASE i \in DOMAIN baseline
        BY <1>2, <1>4, <3>1, <3>2, <3>3, <3>4
      <3>5. CASE i \notin DOMAIN baseline
        <4>1. Unread(i, n, d)' = 0 /\ AstrayFrom(i, n, d)' = 0
              /\ Unread(i, n, d) = 0 /\ AstrayFrom(i, n, d) = 0
          BY <1>2, <3>5 DEF Unread, AstrayFrom
        <4>2. QED
          BY <1>2, <3>1, <3>2, <4>1
      <3>6. QED
        BY <3>4, <3>5
    <2>2. QED
      BY <2>1 DEF ChargeInv
  <1>9. ArchiveInv'
    BY <1>1, <1>2, <1>3, ByteTypes DEF IInv, ArchiveInv, TypeOK, UsageTable, Counter
  <1>10. QED
    BY <1>1, <1>5, <1>6, <1>7, <1>8, <1>9 DEF IInv

\* Where no baseline is left behind, the unread bytes play no part.
LEMMA NoUnread ==
    ASSUME baseline' = NoBaselines, NEW i \in Interfaces, NEW n \in Networks,
           NEW d \in Directions
    PROVE  Unread(i, n, d)' = 0 /\ AstrayFrom(i, n, d)' = 0
  BY ZeroTypes DEF Unread, AstrayFrom

\* One round, interface by interface: the new reading explains the bytes up to
\* it, and what is charged is what was unread.
LEMMA RoundInv ==
    ASSUME IInv, NEW readable \in SUBSET Interfaces,
           RoundStored(readable) \/ RoundDeferred(readable)
    PROVE  IInv'
  <1> DEFINE sample == ReportOf(readable)
  <1>1. TypeOK'
    BY CollectTypeOK DEF CollectOnce, IInv
  <1>2. ASSUME NEW i \in Interfaces, NEW d \in Directions
        PROVE  /\ Explained(i, d)' <= mark'[i][d]
               /\ mark'[i][d] <= total'[i][d]
               /\ i \notin hidden' => Explained(i, d)' = mark'[i][d]
               /\ i \in DOMAIN baseline' =>
                    LET unread == counter'[i][d] - baseline'[i].bytes[d]
                    IN  /\ unread <= total'[i][d] - mark'[i][d]
                        /\ i \notin hidden' => unread = total'[i][d] - mark'[i][d]
    <2> DEFINE delta == IF Advanced(baseline, sample, i)
                        THEN counter[i][d] - baseline[i].bytes[d] ELSE 0
    <2>1. /\ UNCHANGED <<counter, total, hidden>>
          /\ Advanced(baseline, sample, i) =>
               /\ i \in DOMAIN baseline \cap DOMAIN sample
               /\ counter[i][d] >= baseline[i].bytes[d]
          /\ i \in DOMAIN baseline' =>
               IF i \in DOMAIN sample
               THEN baseline'[i].bytes[d] = counter[i][d]
               ELSE i \in DOMAIN baseline /\ baseline'[i] = baseline[i]
          /\ credited'[i][d] + InBatch(pending', i, d)
               = credited[i][d] + InBatch(pending, i, d) + delta
      BY RoundEffect DEF IInv
    <2>2. /\ mark'[i][d] = IF i \in DOMAIN sample THEN total[i][d] ELSE mark[i][d]
          /\ lost'[i][d] = IF i \in DOMAIN sample /\ ~Advanced(baseline, sample, i)
                           THEN lost[i][d] + total[i][d] - mark[i][d]
                           ELSE lost[i][d]
      BY RoundEffect DEF IInv, RoundHistory
    <2>3. /\ counter[i][d] \in Nat /\ total[i][d] \in Nat /\ mark[i][d] \in Nat
          /\ credited[i][d] \in Nat /\ lost[i][d] \in Nat
          /\ InBatch(pending, i, d) \in Nat
          /\ i \in DOMAIN baseline => baseline[i].bytes[d] \in Nat
          /\ credited'[i][d] \in Nat /\ InBatch(pending', i, d) \in Nat
      BY <1>1, ByteTypes, NextByteTypes DEF IInv
    <2>4. /\ Explained(i, d) <= mark[i][d]
          /\ mark[i][d] <= total[i][d]
          /\ i \notin hidden => Explained(i, d) = mark[i][d]
          /\ i \in DOMAIN baseline =>
               /\ counter[i][d] - baseline[i].bytes[d] <= total[i][d] - mark[i][d]
               /\ i \notin hidden =>
                    counter[i][d] - baseline[i].bytes[d] = total[i][d] - mark[i][d]
      BY DEF IInv, Conservation, BaselineInv
    <2> HIDE DEF sample
    <2>5. CASE Advanced(baseline, sample, i)
      BY <2>1, <2>2, <2>3, <2>4, <2>5 DEF Explained
    <2>6. CASE i \in DOMAIN sample /\ ~Advanced(baseline, sample, i)
      BY <2>1, <2>2, <2>3, <2>4, <2>6 DEF Explained
    <2>7. CASE i \notin DOMAIN sample
      BY <2>1, <2>2, <2>3, <2>4, <2>7 DEF Explained
    <2>8. QED
      BY <2>5, <2>6, <2>7
  <1>3. ASSUME NEW i \in Interfaces, NEW n \in Networks, NEW d \in Directions
        PROVE  /\ Charged(i, n, d)' <= carried'[i][n][d] + strayed'[i][n][d]
               /\ Charged(i, n, d)' + Unread(i, n, d)'
                    <= carried'[i][n][d] + strayed'[i][n][d]
                          + AstrayFrom(i, n, d)'
               /\ strayed[i][n][d] <= strayed'[i][n][d]
    <2> DEFINE on    == i \in DOMAIN baseline /\ baseline[i].network = n
               delta == IF Advanced(baseline, sample, i)
                        THEN counter[i][d] - baseline[i].bytes[d] ELSE 0
    <2>1. /\ UNCHANGED <<counter, carried>>
          /\ Advanced(baseline, sample, i) =>
               /\ i \in DOMAIN baseline \cap DOMAIN sample
               /\ counter[i][d] >= baseline[i].bytes[d]
          /\ i \in DOMAIN baseline' =>
               IF i \in DOMAIN sample
               THEN baseline'[i].bytes[d] = counter[i][d]
               ELSE i \in DOMAIN baseline /\ baseline'[i] = baseline[i]
          /\ Charged(i, n, d)' = Charged(i, n, d) + (IF on THEN delta ELSE 0)
      BY RoundEffect DEF IInv
    <2>2. /\ strayed'[i][n][d] = IF Advanced(baseline, sample, i) /\ on
                                 THEN strayed[i][n][d] + astray[i][d]
                                 ELSE strayed[i][n][d]
          /\ astray'[i][d] = IF i \in DOMAIN baseline' /\ i \notin DOMAIN sample
                             THEN astray[i][d] ELSE 0
      <3>1. RoundHistory(sample)
        BY RoundEffect DEF IInv
      <3>2. Advanced(baseline, sample, i) => i \in DOMAIN baseline
        BY DEF Advanced
      <3> HIDE DEF sample
      <3>3. QED
        BY <3>1, <3>2 DEF RoundHistory, NoCounter
    <2>3. /\ counter[i][d] \in Nat /\ astray[i][d] \in Nat
          /\ carried[i][n][d] \in Nat /\ strayed[i][n][d] \in Nat
          /\ i \in DOMAIN baseline => baseline[i].bytes[d] \in Nat
          /\ Charged(i, n, d) \in Nat
      BY ByteTypes DEF IInv, Charged
    <2>4. /\ Charged(i, n, d) <= carried[i][n][d] + strayed[i][n][d]
          /\ Charged(i, n, d) + Unread(i, n, d)
               <= carried[i][n][d] + strayed[i][n][d] + AstrayFrom(i, n, d)
      BY DEF IInv, NoOvercount, ChargeInv
    <2> HIDE DEF sample
    <2>5. CASE Advanced(baseline, sample, i) /\ on
      BY <2>1, <2>2, <2>3, <2>4, <2>5 DEF Unread, AstrayFrom
    <2>6. CASE ~(Advanced(baseline, sample, i) /\ on)
      BY <2>1, <2>2, <2>3, <2>4, <2>6 DEF Unread, AstrayFrom
    <2>7. QED
      BY <2>5, <2>6
  <1>4. Conservation'
    BY <1>2 DEF Conservation
  <1>5. BaselineInv'
    BY <1>1, <1>2 DEF BaselineInv, TypeOK, IsMapTo
  <1>6. NoOvercount' /\ ChargeInv'
    BY <1>3 DEF NoOvercount, ChargeInv
  <1>7. ArchiveInv'
    <2>1. UNCHANGED <<archive, carried>>
      BY DEF RoundStored, RoundDeferred, RoundHistory
    <2>2. ASSUME NEW table \in archive, NEW i \in Interfaces, NEW n \in Networks,
                 NEW d \in Directions
          PROVE  table[i][n][d] <= carried'[i][n][d] + strayed'[i][n][d]
      <3>1. table[i][n][d] <= carried[i][n][d] + strayed[i][n][d]
        BY DEF IInv, ArchiveInv
      <3>2. table[i][n][d] \in Nat
        BY DEF IInv, TypeOK, UsageTable, Counter
      <3>3. QED
        BY <1>1, <1>3, <2>1, <3>1, <3>2, ByteTypes, NextByteTypes DEF IInv
    <2>3. QED
      BY <2>1, <2>2 DEF ArchiveInv
  <1>8. QED
    BY <1>1, <1>4, <1>5, <1>6, <1>7 DEF IInv

\* A step that reads no counter keeps the invariant if it accounts for the
\* bytes of the pending batch, and either leaves the baselines alone and charges
\* nothing more, or drops them and charges no more than was carried.
LEMMA NoReadingInv ==
    ASSUME IInv, TypeOK',
           UNCHANGED <<counter, flowVars, mark, hidden>>,
           archive' \subseteq archive \cup {usage},
           \A i \in Interfaces, d \in Directions :
              Explained(i, d)' = Explained(i, d),
           \/ /\ UNCHANGED <<baseline, astray>>
              /\ \A i \in Interfaces, n \in Networks, d \in Directions :
                    Charged(i, n, d)' = Charged(i, n, d)
           \/ /\ baseline' = NoBaselines
              /\ \A i \in Interfaces, n \in Networks, d \in Directions :
                    Charged(i, n, d)' <= carried[i][n][d] + strayed[i][n][d]
    PROVE  IInv'
  <1> USE DEF flowVars
  <1>1. Conservation'
    BY DEF IInv, Conservation
  <1>2. BaselineInv'
    BY ZeroTypes DEF IInv, BaselineInv
  <1>3. NoOvercount'
    BY DEF IInv, NoOvercount
  <1>4. ChargeInv'
    <2>1. CASE /\ UNCHANGED <<baseline, astray>>
               /\ \A i \in Interfaces, n \in Networks, d \in Directions :
                     Charged(i, n, d)' = Charged(i, n, d)
      <3>1. \A i \in Interfaces, n \in Networks, d \in Directions :
               /\ Unread(i, n, d)' = Unread(i, n, d)
               /\ AstrayFrom(i, n, d)' = AstrayFrom(i, n, d)
        BY <2>1 DEF Unread, AstrayFrom
      <3>2. QED
        BY <2>1, <3>1 DEF IInv, ChargeInv
    <2>2. CASE baseline' = NoBaselines
      <3>1. \A i \in Interfaces, n \in Networks, d \in Directions :
               /\ Charged(i, n, d)' \in Nat
               /\ carried'[i][n][d] \in Nat /\ strayed'[i][n][d] \in Nat
        BY NextByteTypes
      <3>2. QED
        BY <1>3, <2>2, <3>1, NoUnread DEF NoOvercount, ChargeInv
    <2>3. QED
      BY <2>1, <2>2
  <1>5. ArchiveInv'
    <2>1. ASSUME NEW i \in Interfaces, NEW n \in Networks, NEW d \in Directions
          PROVE  usage[i][n][d] <= carried[i][n][d] + strayed[i][n][d]
      BY ByteTypes DEF IInv, NoOvercount, Charged
    <2>2. QED
      BY <2>1 DEF IInv, ArchiveInv
  <1>6. QED
    BY <1>1, <1>2, <1>3, <1>4, <1>5 DEF IInv

LEMMA CollectInv ==
    ASSUME IInv, CollectOnce
    PROVE  IInv'
  <1>1. TypeOK'
    BY CollectTypeOK DEF IInv
  <1>2. CASE RetryFails
    BY <1>1, <1>2, NoReadingInv
       DEF RetryFails, osVars, processVars, storeVars, historyVars, flowVars,
           accountVars, Explained, Charged
  <1>3. CASE MappingFails
    <2>1. PendingStored /\ TypeOK
      BY <1>3 DEF MappingFails, IInv
    <2>2. \A i \in Interfaces, d \in Directions :
             /\ Explained(i, d)' = Explained(i, d)
             /\ \A n \in Networks : Charged(i, n, d)' = Charged(i, n, d)
      BY <1>1, <1>3, <2>1, PendingStoredBytes, ByteTypes, NextByteTypes
         DEF MappingFails, Explained
    <2>3. QED
      BY <1>1, <1>3, <2>2, NoReadingInv DEF MappingFails, osVars
  <1>4. QED
    BY <1>2, <1>3, RoundInv DEF CollectOnce

\* A batch that is given up stays accounted for.
LEMMA GivenUpBytes ==
    ASSUME TypeOK, lost' = PlusBatch(lost, pending), pending' = EmptyBatch,
           credited' = credited,
           NEW i \in Interfaces, NEW d \in Directions
    PROVE  Explained(i, d)' = Explained(i, d)
  BY PlusBatchType, EmptyBatchType, ByteTypes DEF TypeOK, Explained

LEMMA RequestInv ==
    ASSUME IInv, Requests \/ Crash \/ Start
    PROVE  IInv'
  <1> USE DEF osVars, storeVars, accountVars
  <1>1. TypeOK /\ TypeOK'
    BY RequestTypeOK DEF IInv
  <1>2. \A i \in Interfaces, n \in Networks, d \in Directions :
           Charged(i, n, d) <= carried[i][n][d] + strayed[i][n][d]
    BY DEF IInv, NoOvercount
  <1>3. ASSUME PendingStored, lost' = lost
        PROVE  \A i \in Interfaces, d \in Directions :
                  /\ Explained(i, d)' = Explained(i, d)
                  /\ \A n \in Networks : Charged(i, n, d)' = Charged(i, n, d)
    BY <1>1, <1>3, PendingStoredBytes, ByteTypes, NextByteTypes DEF Explained
  <1>4. ASSUME NEW p \in BOOLEAN, SetPaused(p)
        PROVE  IInv'
    BY <1>1, <1>2, <1>4, NoReadingInv
       DEF SetPaused, DropBaselines, Explained, Charged
  <1>5. CASE FlushPending
    BY <1>1, <1>3, <1>5, NoReadingInv DEF FlushPending
  <1>6. CASE ClearUsage
    <2>1. \A i \in Interfaces, n \in Networks, d \in Directions :
             Charged(i, n, d)' <= carried[i][n][d] + strayed[i][n][d]
      BY <1>1, <1>6, EmptyBatchType, ByteTypes
         DEF ClearUsage, Charged, NoUsage, NoCounter
    <2>2. QED
      BY <1>1, <1>6, <2>1, GivenUpBytes, NoReadingInv DEF ClearUsage, DropBaselines
  <1>7. CASE Backup
    BY <1>1, <1>7, NoReadingInv
       DEF Backup, processVars, historyVars, flowVars, Explained, Charged
  <1>8. CASE Restore
    <2>1. \A i \in Interfaces, n \in Networks, d \in Directions :
             Charged(i, n, d)' <= carried[i][n][d] + strayed[i][n][d]
      BY <1>1, <1>8, EmptyBatchType, NextByteTypes
         DEF Restore, Charged, IInv, ArchiveInv
    <2>2. QED
      BY <1>1, <1>8, <2>1, GivenUpBytes, NoReadingInv DEF Restore, DropBaselines
  <1>9. CASE Shutdown
    BY <1>1, <1>2, <1>3, <1>9, NoReadingInv DEF Shutdown, DropBaselines
  <1>10. CASE Crash
    <2>1. \A i \in Interfaces, n \in Networks, d \in Directions :
             Charged(i, n, d)' <= carried[i][n][d] + strayed[i][n][d]
      <3>1. ASSUME NEW i \in Interfaces, NEW n \in Networks, NEW d \in Directions
            PROVE  Charged(i, n, d)' <= Charged(i, n, d)
        BY <1>1, <1>10, EmptyBatchType, ByteTypes DEF Crash, Charged
      <3>2. QED
        <4>1. ASSUME NEW i \in Interfaces, NEW n \in Networks, NEW d \in Directions
              PROVE  Charged(i, n, d)' <= carried[i][n][d] + strayed[i][n][d]
          <5>1. /\ Charged(i, n, d) \in Nat /\ Charged(i, n, d)' \in Nat
                /\ carried[i][n][d] \in Nat /\ strayed[i][n][d] \in Nat
            BY <1>1, ByteTypes, NextByteTypes DEF Charged
          <5>2. QED
            BY <1>2, <3>1, <5>1
        <4>2. QED
          BY <4>1
    <2>2. QED
      BY <1>1, <1>10, <2>1, GivenUpBytes, NoReadingInv DEF Crash, DropBaselines
  <1>11. CASE Start
    BY <1>1, <1>11, NoReadingInv
       DEF Start, historyVars, flowVars, Explained, Charged
  <1>12. QED
    BY <1>4, <1>5, <1>6, <1>7, <1>8, <1>9, <1>10, <1>11 DEF Requests

LEMMA StutterInv ==
    ASSUME IInv, UNCHANGED vars
    PROVE  IInv'
  <1>1. \A i \in Interfaces, d \in Directions :
           /\ Explained(i, d)' = Explained(i, d)
           /\ \A n \in Networks : Charged(i, n, d)' = Charged(i, n, d)
    BY DEF Charged, Explained, vars, processVars, storeVars, historyVars,
           accountVars
  <1>2. TypeOK'
    BY DEF IInv, TypeOK, vars, osVars, processVars, storeVars, budgetVars,
           historyVars, flowVars, accountVars
  <1>3. /\ UNCHANGED <<counter, flowVars, mark, hidden>>
        /\ UNCHANGED <<baseline, astray>>
        /\ archive' \subseteq archive \cup {usage}
    BY DEF vars, osVars, processVars, storeVars, historyVars, flowVars, accountVars
  <1>4. QED
    BY <1>1, <1>2, <1>3, NoReadingInv

LEMMA NextInv == IInv /\ [Next]_vars => IInv'
  BY EnvironmentInv, CollectInv, RequestInv, StutterInv DEF Next

-----------------------------------------------------------------------------
(* The theorems.                                                           *)

LEMMA Invariance == Spec => []IInv
  BY InitInv, NextInv, PTL DEF Spec

(***************************************************************************)
(* The collector's state is well formed; in particular every delta that    *)
(* applyUsage stores is a natural number of bytes, although counters may   *)
(* go back to zero and the clock may be set back between two rounds.       *)
(***************************************************************************)
THEOREM TypeCorrect == Spec => []TypeOK
  BY Invariance, PTL DEF IInv

(***************************************************************************)
(* No interleaving of rounds, failing transactions, retries, crashes,      *)
(* clearing and restoring charges a network more than was carried on it.   *)
(***************************************************************************)
THEOREM NetworkNeverOvercharged == Spec => []NoOvercount
  BY Invariance, PTL DEF IInv

(***************************************************************************)
(* Every byte that was read is stored, pending, or given up for a reason   *)
(* the code names, and no byte is explained twice.                         *)
(***************************************************************************)
THEOREM BytesConserved == Spec => []Conservation
  BY Invariance, PTL DEF IInv

(***************************************************************************)
(* A step that ends the process without a crash is a shutdown request: it  *)
(* stores the whole pending batch and gives up no byte.                    *)
(***************************************************************************)
THEOREM ShutdownLosesNothing == Spec => StopsWithoutLoss
  <1> DEFINE Kept == \A i \in Interfaces, n \in Networks, d \in Directions :
                        usage'[i][n][d] = Charged(i, n, d)
  <1>1. ASSUME TypeOK, Next, alive, ~alive', crashes' = crashes
        PROVE  lost' = lost /\ Kept
    <2>1. crashes \in Nat /\ usage \in UsageTable /\ IsBatch(pending)
      BY <1>1 DEF TypeOK
    <2>2. Shutdown
      <3>1. ~Environment
        BY <1>1 DEF Environment, Carry, Roam, ResetCounters, SetClock, processVars
      <3>2. ~CollectOnce
        BY <1>1 DEF CollectOnce, RetryFails, MappingFails, RoundStored,
                    RoundDeferred, processVars
      <3>3. ~Crash
        BY <1>1, <2>1 DEF Crash
      <3>4. ~Start
        BY <1>1 DEF Start
      <3>5. Requests => Shutdown
        BY <1>1 DEF Requests, SetPaused, FlushPending, ClearUsage, Backup, Restore,
                    processVars
      <3>6. QED
        BY <1>1, <3>1, <3>2, <3>3, <3>4, <3>5 DEF Next
    <2>3. QED
      BY <2>1, <2>2, StoredType DEF Shutdown, PendingStored, Charged
  <1>2. TypeOK /\ [Next]_vars =>
           [alive /\ ~alive' /\ crashes' = crashes => lost' = lost /\ Kept]_vars
    BY <1>1
  <1> HIDE DEF Kept
  <1>3. Spec => [][alive /\ ~alive' /\ crashes' = crashes => lost' = lost /\ Kept]_vars
    BY <1>2, TypeCorrect, PTL DEF Spec
  <1>4. QED
    BY <1>3 DEF StopsWithoutLoss, Kept

(***************************************************************************)
(* Counters are only read into the accumulator by a round that has written *)
(* the pending batch: its bytes are in the tables after the step.          *)
(***************************************************************************)
THEOREM PendingStoredFirst == Spec => NoReadingPastPending
  <1> DEFINE Kept == \A i \in Interfaces, n \in Networks, d \in Directions :
                        usage'[i][n][d] >= Charged(i, n, d)
  <1>1. ASSUME TypeOK, Next, mark' # mark
        PROVE  Kept
    <2>1. PICK readable \in SUBSET Interfaces :
             RoundStored(readable) \/ RoundDeferred(readable)
      BY <1>1
         DEF Next, Environment, Carry, Roam, ResetCounters, SetClock, CollectOnce,
             RetryFails, MappingFails, Requests, SetPaused, FlushPending,
             ClearUsage, Backup, Restore, Shutdown, Crash, Start,
             historyVars, accountVars
    <2> DEFINE round == RoundOf(ReportOf(readable), readable = Interfaces)
    <2>2. IsBatch(pending) /\ IsBatch(round)
      BY <1>1, ReportType, RoundType DEF TypeOK
    <2>3. Stored(usage, pending) \in UsageTable
      BY <1>1, <2>2, StoredType DEF TypeOK
    <2>4. ASSUME NEW i \in Interfaces, NEW n \in Networks, NEW d \in Directions
          PROVE  /\ Stored(usage, pending)[i][n][d] = Charged(i, n, d)
                 /\ Stored(Stored(usage, pending), round)[i][n][d]
                       = Charged(i, n, d) + InBatchOn(round, i, n, d)
                 /\ InBatchOn(round, i, n, d) \in Nat
                 /\ Charged(i, n, d) \in Nat
      BY <1>1, <2>2, <2>3, <2>4, StoredType, ByteTypes DEF Charged, TypeOK
    <2> HIDE DEF round
    <2>5. CASE RoundStored(readable)
      BY <2>4, <2>5 DEF RoundStored, round
    <2>6. CASE RoundDeferred(readable)
      BY <2>4, <2>6 DEF RoundDeferred
    <2>7. QED
      BY <2>1, <2>5, <2>6
  <1>2. TypeOK /\ [Next]_vars => [mark' # mark => Kept]_vars
    BY <1>1
  <1> HIDE DEF Kept
  <1>3. Spec => [][mark' # mark => Kept]_vars
    BY <1>2, TypeCorrect, PTL DEF Spec
  <1>4. QED
    BY <1>3 DEF NoReadingPastPending, Kept

-----------------------------------------------------------------------------
(* The ledger: each step of the collector is a step of UsageLedger, or     *)
(* leaves the ledger alone.                                                *)

\* The entry of a table, and what the batch adds to it.
LEMMA LedgerTypes ==
    ASSUME TypeOK
    PROVE  /\ Waiting \in Ledger!Table
           /\ \A i \in Interfaces, n \in Networks, d \in Directions :
                 /\ Waiting[i][n][d] = InBatchOn(pending, i, n, d)
                 /\ Limit[i][n][d] = carried[i][n][d] + strayed[i][n][d]
                 /\ usage[i][n][d] \in Nat /\ Waiting[i][n][d] \in Nat
                 /\ Limit[i][n][d] \in Nat
  <1>1. ASSUME NEW i \in Interfaces, NEW n \in Networks, NEW d \in Directions
        PROVE  /\ usage[i][n][d] \in Nat /\ InBatchOn(pending, i, n, d) \in Nat
               /\ carried[i][n][d] \in Nat /\ strayed[i][n][d] \in Nat
    BY <1>1, ByteTypes
  <1>2. QED
    BY <1>1 DEF Waiting, Limit, Ledger!Table

\* The same of the next state.
LEMMA NextLedgerTypes ==
    ASSUME TypeOK'
    PROVE  /\ Waiting' \in Ledger!Table
           /\ \A i \in Interfaces, n \in Networks, d \in Directions :
                 /\ Waiting'[i][n][d] = InBatchOn(pending', i, n, d)
                 /\ Limit'[i][n][d] = carried'[i][n][d] + strayed'[i][n][d]
                 /\ usage'[i][n][d] \in Nat /\ Waiting'[i][n][d] \in Nat
                 /\ Limit'[i][n][d] \in Nat
  <1>1. ASSUME NEW i \in Interfaces, NEW n \in Networks, NEW d \in Directions
        PROVE  /\ usage'[i][n][d] \in Nat /\ InBatchOn(pending', i, n, d) \in Nat
               /\ carried'[i][n][d] \in Nat /\ strayed'[i][n][d] \in Nat
    BY <1>1, NextByteTypes DEF TypeOK, InBatchOn, IsBatch, IsMapTo, Delta, Counter
  <1>2. QED
    BY <1>1 DEF Waiting, Limit, Ledger!Table

\* Storing the pending batch enters what waits.
LEMMA StoredIsPlus == Stored(usage, pending) = Ledger!Plus(usage, Waiting)
  BY DEF Stored, Ledger!Plus, Waiting

\* Without a batch nothing waits.
LEMMA NothingWaits == pending' = EmptyBatch => Waiting' = Ledger!Zero
  BY EmptyBatchType DEF Waiting, Ledger!Zero

\* No step takes bytes back that were carried.
LEMMA LimitGrows ==
    ASSUME TypeOK, TypeOK',
           \A i \in Interfaces, n \in Networks, d \in Directions :
              carried[i][n][d] <= carried'[i][n][d] /\ strayed[i][n][d] <= strayed'[i][n][d]
    PROVE  Ledger!AtMost(Limit, Limit')
  <1>1. ASSUME NEW i \in Interfaces, NEW n \in Networks, NEW d \in Directions
        PROVE  Limit[i][n][d] <= Limit'[i][n][d]
    <2>1. /\ carried[i][n][d] \in Nat /\ strayed[i][n][d] \in Nat
          /\ carried'[i][n][d] \in Nat /\ strayed'[i][n][d] \in Nat
      BY ByteTypes, NextByteTypes
    <2>2. QED
      BY <2>1, LedgerTypes, NextLedgerTypes
  <1>2. QED
    BY <1>1 DEF Ledger!AtMost

\* The ledger with what waits stays below the limit.
LEMMA WithinLimit ==
    ASSUME IInv'
    PROVE  Ledger!AtMost(Ledger!Plus(usage', Waiting'), Limit')
  <1>1. TypeOK' /\ NoOvercount'
    BY DEF IInv
  <1>2. ASSUME NEW i \in Interfaces, NEW n \in Networks, NEW d \in Directions
        PROVE  Ledger!Plus(usage', Waiting')[i][n][d] <= Limit'[i][n][d]
    <2>1. Charged(i, n, d)' <= carried'[i][n][d] + strayed'[i][n][d]
      BY <1>1 DEF NoOvercount
    <2>2. Ledger!Plus(usage', Waiting')[i][n][d] = Charged(i, n, d)'
      BY <1>1, NextLedgerTypes DEF Ledger!Plus, Charged
    <2>3. QED
      BY <1>1, <2>1, <2>2, NextLedgerTypes
  <1>3. QED
    BY <1>2 DEF Ledger!AtMost

-----------------------------------------------------------------------------
(* The steps. *)

\* Writing the pending batch is a round that brings nothing new.
LEMMA PendingStoredIsRound ==
    ASSUME IInv, IInv', alive, PendingStored, UNCHANGED <<alive, archive, carried, strayed>>
    PROVE  Ledger!Round
  <1>1. TypeOK /\ TypeOK'
    BY DEF IInv
  <1>2. usage' = Ledger!Plus(usage, Waiting) /\ Waiting' = Ledger!Zero
    BY StoredIsPlus, NothingWaits DEF PendingStored
  <1>3. Ledger!AtMost(Ledger!Plus(usage, Waiting), usage')
    BY <1>1, <1>2, NextLedgerTypes DEF Ledger!AtMost
  <1>4. Ledger!AtMost(Limit, Limit')
    BY <1>1, LimitGrows, ByteTypes
  <1>5. QED
    BY <1>2, <1>3, <1>4, WithinLimit DEF Ledger!Round

LEMMA CollectedIsRound ==
    ASSUME IInv, IInv', NEW readable \in SUBSET Interfaces,
           RoundStored(readable) \/ RoundDeferred(readable)
    PROVE  Ledger!Round
  <1> DEFINE sample == ReportOf(readable)
             round  == RoundOf(sample, readable = Interfaces)
  <1>1. TypeOK /\ TypeOK'
    BY DEF IInv
  <1>2. Ledger!AtMost(Limit, Limit')
    <2>1. RoundHistory(sample)
      BY DEF RoundStored, RoundDeferred
    <2>2. ASSUME NEW i \in Interfaces, NEW n \in Networks, NEW d \in Directions
          PROVE  carried[i][n][d] <= carried'[i][n][d] /\ strayed[i][n][d] <= strayed'[i][n][d]
      <3>1. /\ carried[i][n][d] \in Nat /\ strayed[i][n][d] \in Nat /\ astray[i][d] \in Nat
        BY <1>1, ByteTypes
      <3> HIDE DEF sample
      <3>2. carried' = carried /\ strayed'[i][n][d] \in {strayed[i][n][d], strayed[i][n][d] + astray[i][d]}
        BY <2>1 DEF RoundHistory
      <3>3. QED
        BY <3>1, <3>2
    <2>3. QED
      BY <1>1, <2>2, LimitGrows
  <1>3. alive /\ UNCHANGED <<alive, archive>>
    BY DEF RoundStored, RoundDeferred, Collecting
  <1>4. CASE RoundDeferred(readable)
    <2>1. usage' = Ledger!Plus(usage, Waiting)
      BY <1>4, StoredIsPlus DEF RoundDeferred
    <2>2. QED
      BY <1>1, <1>2, <1>3, <2>1, WithinLimit, NextLedgerTypes DEF Ledger!Round
  <1>5. CASE RoundStored(readable)
    <2>1. usage' = Stored(Stored(usage, pending), round) /\ Waiting' = Ledger!Zero
      BY <1>5, NothingWaits DEF RoundStored
    <2>2. IsBatch(pending) /\ IsBatch(round)
      BY <1>1, ReportType, RoundType DEF TypeOK
    <2> HIDE DEF round
    <2>3. Stored(usage, pending) \in UsageTable
      BY <1>1, <2>2, StoredType DEF TypeOK
    <2>4. ASSUME NEW i \in Interfaces, NEW n \in Networks, NEW d \in Directions
          PROVE  Ledger!Plus(usage, Waiting)[i][n][d] <= usage'[i][n][d]
      <3>1. /\ usage'[i][n][d] = Stored(usage, pending)[i][n][d] + InBatchOn(round, i, n, d)
            /\ InBatchOn(round, i, n, d) \in Nat
        BY <2>1, <2>2, <2>3, StoredType
      <3>2. Stored(usage, pending)[i][n][d] \in Nat
        BY <2>3 DEF UsageTable, Counter
      <3>3. QED
        BY <3>1, <3>2, StoredIsPlus
    <2>5. QED
      BY <1>2, <1>3, <2>1, <2>4, WithinLimit DEF Ledger!Round, Ledger!AtMost
  <1>6. QED
    BY <1>4, <1>5

\* Traffic only moves the limit; nothing else the system does is seen.
LEMMA EnvironmentIsLedgerStep ==
    ASSUME IInv, IInv', Environment
    PROVE  Ledger!Next \/ UNCHANGED Ledger!vars
  <1>1. TypeOK /\ TypeOK'
    BY DEF IInv
  <1>2. ASSUME NEW i \in Interfaces, NEW d \in Directions, Carry(i, d)
        PROVE  Ledger!Traffic
    <2>1. /\ carried' = [carried EXCEPT ![i][link[i]][d] = @ + 1]
          /\ UNCHANGED <<strayed, alive, usage, pending, archive>>
      BY <1>2 DEF Carry, processVars, storeVars
    <2>2. ASSUME NEW j \in Interfaces, NEW n \in Networks, NEW e \in Directions
          PROVE  carried[j][n][e] <= carried'[j][n][e] /\ strayed[j][n][e] <= strayed'[j][n][e]
      <3>1. carried[j][n][e] \in Nat /\ strayed[j][n][e] \in Nat /\ carried \in UsageTable
        BY <1>1, ByteTypes DEF TypeOK
      <3>2. carried'[j][n][e] \in {carried[j][n][e], carried[j][n][e] + 1}
        BY <2>1, <3>1 DEF UsageTable, Counter
      <3>3. QED
        BY <2>1, <3>1, <3>2
    <2>3. QED
      BY <1>1, <2>1, <2>2, LimitGrows DEF Ledger!Traffic, Waiting
  <1>3. ASSUME UNCHANGED <<alive, pending, usage, archive, carried, strayed>>
        PROVE  UNCHANGED Ledger!vars
    BY <1>3 DEF Ledger!vars, Waiting, Limit
  <1>4. QED
    BY <1>2, <1>3
       DEF Environment, Roam, ResetCounters, SetClock, processVars, storeVars,
           historyVars, flowVars, Ledger!Next

LEMMA CollectIsLedgerStep ==
    ASSUME IInv, IInv', CollectOnce
    PROVE  Ledger!Next \/ UNCHANGED Ledger!vars
  <1>1. CASE RetryFails
    BY <1>1 DEF RetryFails, processVars, storeVars, historyVars, flowVars,
                Ledger!vars, Waiting, Limit
  <1>2. CASE MappingFails
    <2>1. /\ alive /\ PendingStored
          /\ UNCHANGED <<alive, archive, carried, strayed>>
      BY <1>2 DEF MappingFails, Collecting, flowVars
    <2>2. QED
      BY <2>1, PendingStoredIsRound DEF Ledger!Next
  <1>3. QED
    BY <1>1, <1>2, CollectedIsRound DEF CollectOnce, Ledger!Next

LEMMA RequestIsLedgerStep ==
    ASSUME IInv, IInv', Requests \/ Crash \/ Start
    PROVE  Ledger!Next \/ UNCHANGED Ledger!vars
  <1> USE DEF storeVars, flowVars, historyVars
  <1>1. ASSUME NEW p \in BOOLEAN, SetPaused(p)
        PROVE  UNCHANGED Ledger!vars
    BY <1>1 DEF SetPaused, Ledger!vars, Waiting, Limit
  <1>2. CASE FlushPending
    <2>1. /\ alive /\ PendingStored
          /\ UNCHANGED <<alive, archive, carried, strayed>>
      BY <1>2 DEF FlushPending
    <2>2. QED
      BY <2>1, PendingStoredIsRound DEF Ledger!Next
  <1>3. CASE ClearUsage
    <2>1. usage' = Ledger!Zero
      BY <1>3 DEF ClearUsage, NoUsage, NoCounter, Ledger!Zero
    <2>2. Ledger!Clear
      BY <1>3, <2>1, NothingWaits DEF ClearUsage, Ledger!Clear, Limit
    <2>3. QED
      BY <2>2 DEF Ledger!Next
  <1>4. CASE Backup
    BY <1>4 DEF Backup, processVars, Waiting, Limit, Ledger!Backup, Ledger!Next
  <1>5. CASE Restore
    <2>1. Ledger!Restore
      BY <1>5, NothingWaits DEF Restore, Ledger!Restore, Limit
    <2>2. QED
      BY <2>1 DEF Ledger!Next
  <1>6. CASE Shutdown
    <2>1. Ledger!Shutdown
      BY <1>6, StoredIsPlus, NothingWaits DEF Shutdown, PendingStored, Ledger!Shutdown, Limit
    <2>2. QED
      BY <2>1 DEF Ledger!Next
  <1>7. CASE Crash
    <2>1. Ledger!Crash
      BY <1>7, NothingWaits DEF Crash, Ledger!Crash, Limit
    <2>2. QED
      BY <2>1 DEF Ledger!Next
  <1>8. CASE Start
    BY <1>8 DEF Start, Waiting, Limit, Ledger!Start, Ledger!Next
  <1>9. QED
    BY <1>1, <1>2, <1>3, <1>4, <1>5, <1>6, <1>7, <1>8 DEF Requests

-----------------------------------------------------------------------------
LEMMA InitIsLedgerInit == Init => Ledger!Init
  <1>1. ASSUME Init
        PROVE  /\ usage = Ledger!Zero /\ Waiting = Ledger!Zero /\ Limit = Ledger!Zero
               /\ alive /\ archive = {}
    BY <1>1, EmptyBatchType DEF Init, NoUsage, NoCounter, Ledger!Zero, Waiting, Limit
  <1>2. QED
    BY <1>1 DEF Ledger!Init, Init

LEMMA StepIsLedgerStep ==
    IInv /\ IInv' /\ [Next]_vars => [Ledger!Next]_Ledger!vars
  <1>1. ASSUME UNCHANGED vars
        PROVE  UNCHANGED Ledger!vars
    BY <1>1 DEF vars, processVars, storeVars, historyVars, flowVars, Ledger!vars,
                Waiting, Limit
  <1>2. QED
    BY <1>1, EnvironmentIsLedgerStep, CollectIsLedgerStep, RequestIsLedgerStep DEF Next

(***************************************************************************)
(* The usage tables of the backend behave as a ledger: whole rounds, each  *)
(* entered once, at most one of them waiting, whatever fails or restarts.  *)
(***************************************************************************)
THEOREM LedgerImplemented == Spec => ImplementsLedger
  BY Invariance, InitIsLedgerInit, StepIsLedgerStep, PTL DEF Spec, ImplementsLedger, Ledger!Spec
=============================================================================
