-------------------------- MODULE NetworkQuotaProofs --------------------------
(***************************************************************************)
(* Proofs about the quota of one network, for every calendar, set of       *)
(* rules and bound.                                                        *)
(***************************************************************************)
EXTENDS NetworkQuota, QuotaLemmas

Current == periodKeyFor(rule.period, today)

Types ==
    /\ today \in Days
    /\ usage \in [Days -> Nat]
    /\ ledger \subseteq Ledgers /\ AtMostOne(ledger)
    /\ rule \in Rules
    /\ pending \subseteq Batches /\ AtMostOne(pending)
    /\ phase \in {"idle", "applied", "evaluated"}
    /\ outbox \subseteq PeriodKeys \X (1 .. 100)
    /\ steps \in 0 .. MaxSteps
    /\ setBacks \in 0 .. MaxSetBacks
    /\ recorded \in [Days -> Nat]
    /\ announced \subseteq PeriodKeys \X (1 .. 100)
    /\ repeated \subseteq PeriodKeys \X (1 .. 100)
    /\ past \subseteq Past

\* The stored days hold what was recorded, until days are pruned.
Stored ==
    /\ \A t \in Days : usage[t] <= recorded[t]
    /\ "pruned" \notin past => usage = recorded

\* The ledger belongs to the period in the settings, and is there as soon as
\* bytes were stored.
LedgerOfRule ==
    /\ \A l \in ledger : \E t \in Days : l.key = periodKeyFor(rule.period, t)
    /\ ledger = {} => \A t \in Days : recorded[t] = 0
    /\ \A batch \in pending : \A t \in Days : batch.bytes[t] > 0 => t <= batch.at

\* Unless the clock was set back, nothing was recorded after today, after the
\* pending batch, or after the period of the ledger.
Chronological ==
    setBacks = 0 =>
        /\ \A t \in Days : recorded[t] > 0 => t <= today
        /\ \A batch \in pending :
              /\ batch.at <= today
              /\ \A t \in Days : recorded[t] > 0 => t <= batch.at
        /\ \A l \in ledger :
              /\ l.key[2] <= Current[2]
              /\ \A t \in Days : recorded[t] > 0 =>
                    periodKeyFor(rule.period, t)[2] <= l.key[2]

\* The alerts of a round exist only between its evaluation and its end.
Outboxed == phase # "evaluated" => outbox = {}

\* What was announced is marked in the ledger or lies before its period.
Marks ==
    "switched" \notin past /\ setBacks = 0 =>
        /\ repeated = {}
        /\ announced \cap outbox = {}
        /\ \A a \in announced \cup outbox : \E l \in ledger :
              \/ a[1] = l.key /\ a[2] \in l.notified
              \/ a[1][2] < l.key[2]
        /\ \A batch \in pending : \A l \in ledger :
              l.key[2] <= periodKeyFor(rule.period, batch.at)[2]

\* What is marked was announced or is about to be.
Announcing ==
    past \cap {"crashed", "cleared"} = {} =>
        \A l \in ledger : \A w \in l.notified : <<l.key, w>> \in announced \cup outbox

-----------------------------------------------------------------------------
(* The operators of the model.                                             *)

LEMMA TableOfBatch ==
    ASSUME NEW batch \in Batches
    PROVE  batch.at \in Days /\ batch.bytes \in [Days -> Nat]
BY DEF Batches

\* Storing a batch adds its bytes to those of every period.
LEMMA PlusBytes ==
    ASSUME NEW table \in [Days -> Nat], NEW batch \in Batches, NEW k
    PROVE  /\ Plus(table, batch) \in [Days -> Nat]
           /\ \A t \in Days : Plus(table, batch)[t] = table[t] + batch.bytes[t]
           /\ BytesIn(Plus(table, batch), k) =
                BytesIn(table, k) + BytesIn(batch.bytes, k)
<1>1. batch.bytes \in [Days -> Nat]
    BY TableOfBatch
<1>2. \A t \in Days : Plus(table, batch)[t] = table[t] + batch.bytes[t]
    BY DEF Plus
<1>3. Plus(table, batch) \in [Days -> Nat]
    BY <1>1 DEF Plus
<1> QED BY <1>1, <1>2, <1>3, BytesPlus

\* The ledger is in the period of the batch afterwards, and holds its bytes in
\* that period beside what it held if it was there before.
LEMMA LedgerAdds ==
    ASSUME NEW batch \in Batches, rule.period \in Periods,
           ledger \subseteq Ledgers, AtMostOne(ledger)
    PROVE  \E l \in Ledgers :
              /\ addToLedger(ledger, batch) = {l}
              /\ l.key = periodKeyFor(rule.period, batch.at)
              /\ \/ \E m \in ledger :
                        /\ m.key = l.key /\ m.notified = l.notified
                        /\ l.used = m.used + BytesIn(batch.bytes, l.key)
                 \/ /\ \A m \in ledger : m.key # l.key
                    /\ l.used = BytesIn(batch.bytes, l.key) /\ l.notified = {}
<1> DEFINE key == periodKeyFor(rule.period, batch.at)
           more == BytesIn(batch.bytes, key)
<1>1. key \in PeriodKeys /\ more \in Nat
    BY TableOfBatch, KeyFacts, BytesNat
<1>2. CASE \E m \in ledger : m.key = key
  <2>1. PICK m \in ledger : m.key = key
    BY <1>2
  <2> DEFINE l == [m EXCEPT !.used = @ + more]
  <2>2. ledger = {m} /\ m \in Ledgers
    BY <2>1 DEF AtMostOne
  <2>3. addToLedger(ledger, batch) = {l}
    BY <1>2, <2>2 DEF addToLedger
  <2>4. l \in Ledgers /\ l.key = m.key /\ l.notified = m.notified
        /\ l.used = m.used + more
    BY <1>1, <2>2 DEF Ledgers
  <2> QED BY <2>1, <2>3, <2>4
<1>3. CASE \A m \in ledger : m.key # key
  <2> DEFINE l == [key |-> key, used |-> more, notified |-> {}]
  <2>1. addToLedger(ledger, batch) = {l}
    BY <1>3 DEF addToLedger
  <2>2. l \in Ledgers
    BY <1>1 DEF Ledgers
  <2> QED BY <1>3, <2>1, <2>2
<1> QED BY <1>2, <1>3

\* The ledger of a new period holds what is stored up to today in its period.
LEMMA NewLedgerCounts ==
    ASSUME Types, NEW p \in Periods
    PROVE  /\ NewLedger(p) \in Ledgers
           /\ NewLedger(p).key = periodKeyFor(p, today)
           /\ NewLedger(p).notified = {}
           /\ NewLedger(p).used <= BytesIn(usage, NewLedger(p).key)
           /\ (\A t \in Days : usage[t] > 0 => t <= today) =>
                 NewLedger(p).used = BytesIn(usage, NewLedger(p).key)
<1> DEFINE key == periodKeyFor(p, today)
           upTo == {t \in DaysOf(key) : t <= today}
<1>1. key \in PeriodKeys
    BY KeyFacts DEF Types
<1>2. IsFiniteSet(DaysOf(key)) /\ DaysOf(key) \subseteq Days /\ IsFiniteSet(upTo)
    BY DaysFinite, FS_Subset, upTo \subseteq DaysOf(key)
<1>3. \A t \in DaysOf(key) : usage[t] \in Nat
    BY <1>2 DEF Types
<1>4. NewLedger(p) = [key |-> key, used |-> Sum(usage, upTo), notified |-> {}]
    BY DEF NewLedger, Sum
<1>5. Sum(usage, upTo) \in Nat
    BY <1>2, <1>3, SumNat
<1>6. Sum(usage, upTo) <= BytesIn(usage, key)
    BY <1>2, <1>3, SumMonotone, BytesInIsSum
<1>7. ASSUME \A t \in Days : usage[t] > 0 => t <= today
      PROVE  Sum(usage, upTo) = BytesIn(usage, key)
  <2>1. \A t \in DaysOf(key) \ upTo : usage[t] = 0
    BY <1>2, <1>3, <1>7
  <2> QED BY <1>2, <1>3, <2>1, SumSame, BytesInIsSum
<1> HIDE DEF key, upTo
<1>8. NewLedger(p) \in Ledgers
    BY <1>1, <1>4, <1>5 DEF Ledgers
<1>9. NewLedger(p).key = key /\ NewLedger(p).used = Sum(usage, upTo)
      /\ NewLedger(p).notified = {}
    BY <1>4
<1> QED BY <1>6, <1>7, <1>8, <1>9 DEF key

LEMMA RuleTyped == Types => rule.period \in Periods /\ rule.warn \subseteq 1 .. 100
BY RulesAssumption DEF Types

-----------------------------------------------------------------------------
(* Storing a batch.                                                        *)

RInv == Stored /\ LedgerOfRule /\ Chronological /\ LedgerWithinRecords /\ LedgerExact

\* Nothing is recorded in a period that starts after the ledger's.
LEMMA NothingInNewPeriod ==
    ASSUME Types, LedgerOfRule, Chronological, setBacks = 0, NEW day \in Days,
           \A m \in ledger : /\ m.key # periodKeyFor(rule.period, day)
                             /\ m.key[2] <= periodKeyFor(rule.period, day)[2]
    PROVE  BytesIn(recorded, periodKeyFor(rule.period, day)) = 0
<1> DEFINE key == periodKeyFor(rule.period, day)
<1>1. SUFFICES ASSUME NEW d \in DaysOf(key), recorded[d] # 0 PROVE FALSE
    BY BytesNat DEF Types
<1>2. d \in Days /\ periodKeyFor(rule.period, d) = key
    BY <1>1, RuleTyped, KeyFacts
<1>3. recorded[d] > 0
    BY <1>1, <1>2 DEF Types
<1>4. PICK m \in ledger : TRUE
    BY <1>2, <1>3 DEF LedgerOfRule
<1>5. key[2] <= m.key[2]
    BY <1>2, <1>3, <1>4 DEF Chronological
<1>6. PICK s \in Days : m.key = periodKeyFor(rule.period, s)
    BY <1>4 DEF LedgerOfRule
<1>7. m.key[2] \in Nat /\ key[2] \in Nat
    BY <1>6, RuleTyped, KeyFacts
<1>8. m.key[2] = key[2]
    BY <1>4, <1>5, <1>7
<1> QED BY <1>4, <1>6, <1>8, RuleTyped, KeyOrder

LEMMA StoreKeepsRecords ==
    ASSUME Types, RInv, NEW batch \in Batches, ApplyUsage(batch),
           \A t \in Days : batch.bytes[t] > 0 => t <= batch.at,
           setBacks = 0 => /\ batch.at <= today
                           /\ \A t \in Days : recorded[t] > 0 => t <= batch.at,
           pending' = {}, UNCHANGED <<today, rule, setBacks, past>>
    PROVE  /\ usage' \in [Days -> Nat] /\ recorded' \in [Days -> Nat]
           /\ ledger' \subseteq Ledgers /\ AtMostOne(ledger')
           /\ RInv'
<1> USE RuleTyped, TableOfBatch
<1>1. usage \in [Days -> Nat] /\ recorded \in [Days -> Nat] /\ today \in Days
      /\ ledger \subseteq Ledgers /\ AtMostOne(ledger)
    BY DEF Types
<1>2. /\ usage' \in [Days -> Nat] /\ recorded' \in [Days -> Nat]
      /\ \A t \in Days : usage'[t] = usage[t] + batch.bytes[t]
                         /\ recorded'[t] = recorded[t] + batch.bytes[t]
      /\ \A k : BytesIn(recorded', k) = BytesIn(recorded, k) + BytesIn(batch.bytes, k)
    BY <1>1, PlusBytes DEF ApplyUsage
<1>3. \A k : BytesIn(recorded, k) \in Nat /\ BytesIn(batch.bytes, k) \in Nat
    BY <1>1, BytesNat
<1>4. PICK l \in Ledgers :
              /\ ledger' = {l}
              /\ l.key = periodKeyFor(rule.period, batch.at)
              /\ \/ \E m \in ledger :
                        /\ m.key = l.key /\ m.notified = l.notified
                        /\ l.used = m.used + BytesIn(batch.bytes, l.key)
                 \/ /\ \A m \in ledger : m.key # l.key
                    /\ l.used = BytesIn(batch.bytes, l.key) /\ l.notified = {}
    BY <1>1, LedgerAdds DEF ApplyUsage
<1>5. Stored'
    BY <1>1, <1>2 DEF RInv, Stored, ApplyUsage
<1>6. LedgerOfRule'
    BY <1>4 DEF LedgerOfRule
<1>7. Chronological'
  <2> SUFFICES ASSUME setBacks = 0
               PROVE  /\ \A t \in Days : recorded'[t] > 0 => t <= today
                      /\ l.key[2] <= Current[2]
                      /\ \A t \in Days : recorded'[t] > 0 =>
                            periodKeyFor(rule.period, t)[2] <= l.key[2]
    BY <1>4 DEF Chronological, Current
  <2>1. \A t \in Days : recorded'[t] > 0 => recorded[t] > 0 \/ batch.bytes[t] > 0
    BY <1>1, <1>2
  <2>2. \A t \in Days : recorded'[t] > 0 => t <= batch.at
    BY <2>1
  <2>3. batch.at <= today
    OBVIOUS
  <2> QED BY <1>1, <1>4, <2>2, <2>3, KeyOrder DEF Current, Days
<1>8. LedgerWithinRecords'
  <2> SUFFICES l.used <= BytesIn(recorded', l.key)
    BY <1>4 DEF LedgerWithinRecords
  <2>1. \A m \in ledger : m.used <= BytesIn(recorded, m.key) /\ m.used \in Nat
    BY <1>1 DEF RInv, LedgerWithinRecords, Ledgers
  <2> QED BY <1>2, <1>3, <1>4, <2>1
<1>9. LedgerExact'
  <2> SUFFICES ASSUME l.key = Current, setBacks = 0, "pruned" \notin past
               PROVE  l.used = BytesIn(recorded', l.key)
    BY <1>4 DEF LedgerExact, Current
  <2>1. CASE \E m \in ledger : /\ m.key = l.key
                               /\ l.used = m.used + BytesIn(batch.bytes, l.key)
    <3>1. \A m \in ledger : m.key = l.key => m.used = BytesIn(recorded, l.key)
      BY DEF RInv, LedgerExact, Current
    <3> QED BY <1>2, <2>1, <3>1
  <2>2. CASE \A m \in ledger : m.key # l.key
    <3>1. \A m \in ledger : m.key[2] <= Current[2]
      BY DEF RInv, Chronological
    <3>2. BytesIn(recorded, Current) = 0
      BY <1>1, <2>2, <3>1, NothingInNewPeriod DEF RInv, Current
    <3>3. l.used = BytesIn(batch.bytes, l.key)
      BY <1>4, <2>2
    <3> QED BY <1>2, <1>3, <3>2, <3>3
  <2> QED BY <1>4, <2>1, <2>2
<1> QED BY <1>2, <1>4, <1>5, <1>6, <1>7, <1>8, <1>9 DEF RInv, AtMostOne

-----------------------------------------------------------------------------
(* The records and the ledger, in every step.                              *)

LEMMA SampledToday ==
    ASSUME Types, NEW batch \in Sampled
    PROVE  /\ batch \in Batches /\ batch.at = today
           /\ \A t \in Days : batch.bytes[t] > 0 => t <= batch.at
BY DEF Sampled, Types, Days

LEMMA RoundStoredKeeps ==
    ASSUME Types, RInv, NEW batch \in Sampled, RoundStored(batch)
    PROVE  Types' /\ RInv'
<1>1. /\ usage' \in [Days -> Nat] /\ recorded' \in [Days -> Nat]
      /\ ledger' \subseteq Ledgers /\ AtMostOne(ledger') /\ RInv'
  <2>1. setBacks = 0 => \A t \in Days : recorded[t] > 0 => t <= batch.at
    BY SampledToday DEF RInv, Chronological
  <2>2. batch.at <= today
    BY SampledToday DEF Types, Days
  <2> QED BY <2>1, <2>2, SampledToday, StoreKeepsRecords DEF RoundStored
<1> QED BY <1>1 DEF RoundStored, Types, alertVars, AtMostOne

LEMMA RetryPendingKeeps ==
    ASSUME Types, RInv, RetryPending
    PROVE  Types' /\ RInv'
<1>1. PICK batch \in pending : ApplyUsage(batch)
    BY DEF RetryPending
<1>2. batch \in Batches
    BY DEF Types
<1>3. /\ usage' \in [Days -> Nat] /\ recorded' \in [Days -> Nat]
      /\ ledger' \subseteq Ledgers /\ AtMostOne(ledger') /\ RInv'
  <2>1. \A t \in Days : batch.bytes[t] > 0 => t <= batch.at
    BY DEF RInv, LedgerOfRule
  <2>2. setBacks = 0 => /\ batch.at <= today
                        /\ \A t \in Days : recorded[t] > 0 => t <= batch.at
    BY DEF RInv, Chronological
  <2> QED BY <1>1, <1>2, <2>1, <2>2, StoreKeepsRecords DEF RetryPending
<1> QED BY <1>3 DEF RetryPending, Types, alertVars, AtMostOne

LEMMA RoundDeferredKeeps ==
    ASSUME Types, RInv, NEW batch \in Sampled, RoundDeferred(batch)
    PROVE  Types' /\ RInv'
<1>1. Types'
    BY SampledToday DEF RoundDeferred, Types, ledgerVars, alertVars, AtMostOne
<1>2. LedgerOfRule'
    BY SampledToday DEF RoundDeferred, ledgerVars, RInv, LedgerOfRule
<1>3. Chronological'
    BY SampledToday DEF RoundDeferred, ledgerVars, RInv, Chronological, Current, Types, Days
<1>4. Stored' /\ LedgerWithinRecords' /\ LedgerExact'
    BY DEF RoundDeferred, ledgerVars, RInv, Stored, LedgerWithinRecords, LedgerExact
<1> QED BY <1>1, <1>2, <1>3, <1>4 DEF RInv

LEMMA EvaluateKeeps ==
    ASSUME Types, RInv, Evaluate
    PROVE  Types' /\ RInv'
<1>1. PICK last \in {0} \cup rule.warn :
              /\ ledger' = {Marked(row, last) : row \in ledger}
              /\ outbox' = UNION {{<<row.key, w>> : w \in Saved(row, last)} :
                                    row \in ledger}
    BY DEF Evaluate
<1>2. \A row \in ledger : Saved(row, last) \subseteq 1 .. 100
    BY RuleTyped DEF Saved, Due
<1>3. \A row \in ledger : /\ Marked(row, last) \in Ledgers
                          /\ Marked(row, last).key = row.key
                          /\ Marked(row, last).used = row.used
    BY <1>2 DEF Marked, Types, Ledgers
<1>4. ledger' \subseteq Ledgers /\ AtMostOne(ledger')
    BY <1>1, <1>3 DEF Types, AtMostOne
<1>5. outbox' \subseteq PeriodKeys \X (1 .. 100)
    BY <1>1, <1>2 DEF Types, Ledgers
<1>6. Types'
    BY <1>4, <1>5 DEF Evaluate, Types, alertVars, AtMostOne
<1>7. \A l \in ledger' : \E row \in ledger : l.key = row.key /\ l.used = row.used
    BY <1>1, <1>3
<1>8. ledger' = {} => ledger = {}
    BY <1>1
<1>9. LedgerOfRule'
    BY <1>7, <1>8 DEF Evaluate, RInv, LedgerOfRule
<1>10. Chronological'
    BY <1>7 DEF Evaluate, RInv, Chronological, Current
<1>11. Stored' /\ LedgerWithinRecords' /\ LedgerExact'
    BY <1>7 DEF Evaluate, RInv, Stored, LedgerWithinRecords, LedgerExact
<1> QED BY <1>6, <1>9, <1>10, <1>11 DEF RInv

LEMMA UpdateNetworkKeeps ==
    ASSUME Types, RInv, NEW new \in Rules, UpdateNetwork(new)
    PROVE  Types' /\ RInv'
<1>1. new.period \in Periods /\ rule' = new
    BY RulesAssumption DEF UpdateNetwork
<1>2. UNCHANGED <<today, pending, phase, outbox, setBacks, usage, recorded, alertVars>>
      /\ steps' \in 0 .. MaxSteps
    BY BoundsAssumption DEF UpdateNetwork, Step, Types
<1>3. CASE new.period = rule.period
  <2>1. UNCHANGED <<ledger, past>>
    BY <1>3 DEF UpdateNetwork
  <2>2. Types'
    BY <1>1, <1>2, <2>1 DEF Types, alertVars, AtMostOne
  <2>3. RInv'
    BY <1>1, <1>2, <1>3, <2>1 DEF RInv, Stored, LedgerOfRule, Chronological, Current,
       LedgerWithinRecords, LedgerExact
  <2> QED BY <2>2, <2>3
<1>4. CASE new.period # rule.period
  <2> DEFINE l == NewLedger(new.period)
  <2>1. ledger' = {l} /\ past' = past \cup {"switched"}
    BY <1>4 DEF UpdateNetwork
  <2>2. l \in Ledgers /\ l.key = periodKeyFor(new.period, today) /\ l.notified = {}
        /\ l.used <= BytesIn(usage, l.key)
        /\ ((\A t \in Days : usage[t] > 0 => t <= today)
              => l.used = BytesIn(usage, l.key))
    BY <1>1, NewLedgerCounts
  <2> HIDE DEF l
  <2>3. Types'
    BY <1>1, <1>2, <2>1, <2>2 DEF Types, alertVars, AtMostOne, Past
  <2>4. Stored'
    BY <1>2, <2>1 DEF RInv, Stored
  <2>5. LedgerOfRule'
    BY <1>1, <1>2, <2>1, <2>2 DEF RInv, LedgerOfRule, Types
  <2>6. Chronological'
    <3> SUFFICES ASSUME setBacks = 0
                 PROVE  /\ l.key[2] <= periodKeyFor(new.period, today)[2]
                        /\ \A t \in Days : recorded[t] > 0 =>
                              periodKeyFor(new.period, t)[2] <= l.key[2]
      BY <1>1, <1>2, <2>1 DEF RInv, Chronological, Current
    <3>1. today \in Days
      BY DEF Types
    <3>2. \A t \in Days : recorded[t] > 0 => t <= today
      BY DEF RInv, Chronological
    <3> QED BY <1>1, <2>2, <3>1, <3>2, KeyOrder, KeyFacts
  <2>7. LedgerWithinRecords'
    <3>1. BytesIn(usage, l.key) <= BytesIn(recorded, l.key)
      BY BytesMonotone DEF Types, RInv, Stored
    <3>2. BytesIn(usage, l.key) \in Nat /\ BytesIn(recorded, l.key) \in Nat
      BY BytesNat DEF Types
    <3> QED BY <1>2, <2>1, <2>2, <3>1, <3>2 DEF LedgerWithinRecords, Ledgers
  <2>8. LedgerExact'
    <3> SUFFICES ASSUME setBacks = 0, "pruned" \notin past
                 PROVE  l.used = BytesIn(recorded, l.key)
      BY <1>1, <1>2, <2>1 DEF LedgerExact
    <3> QED BY <2>2 DEF RInv, Stored, Chronological
  <2> QED BY <2>3, <2>4, <2>5, <2>6, <2>7, <2>8 DEF RInv
<1> QED BY <1>3, <1>4

LEMMA ClearUsageKeeps ==
    ASSUME Types, RInv, ClearUsage
    PROVE  Types' /\ RInv'
<1> DEFINE Zero(l) == [l EXCEPT !.used = 0]
<1>1. /\ ledger' = {Zero(l) : l \in ledger}
      /\ usage' \in [Days -> Nat] /\ recorded' \in [Days -> Nat]
      /\ \A t \in Days : usage'[t] = 0 /\ recorded'[t] = 0
      /\ usage' = recorded' /\ pending' = {} /\ announced' = {}
    BY DEF ClearUsage
<1>2. \A l \in ledger : Zero(l) \in Ledgers /\ Zero(l).key = l.key /\ Zero(l).used = 0
    BY DEF Types, Ledgers
<1> HIDE DEF Zero
<1>3. ledger' \subseteq Ledgers /\ AtMostOne(ledger')
    BY <1>1, <1>2 DEF Types, AtMostOne
<1>4. Types'
    BY <1>1, <1>3, BoundsAssumption DEF ClearUsage, Step, Types, AtMostOne, Past
<1>5. \A k : BytesIn(recorded', k) = 0
    BY <1>1, BytesNat, DaysFinite
<1>6. \A l \in ledger' : l.used = 0 /\ \E m \in ledger : l.key = m.key
    BY <1>1, <1>2
<1>7. LedgerWithinRecords' /\ LedgerExact'
    BY <1>5, <1>6 DEF LedgerWithinRecords, LedgerExact
<1>8. Stored'
    BY <1>1 DEF Stored
<1>9. LedgerOfRule'
    BY <1>1, <1>6 DEF ClearUsage, RInv, LedgerOfRule
<1>10. Chronological'
    BY <1>1, <1>6 DEF ClearUsage, RInv, Chronological, Current
<1> QED BY <1>4, <1>7, <1>8, <1>9, <1>10 DEF RInv

LEMMA PruneUsageKeeps ==
    ASSUME Types, RInv, NEW cutoff \in 1 .. today, PruneUsage(cutoff)
    PROVE  Types' /\ RInv'
<1>1. /\ usage' \in [Days -> Nat]
      /\ \A t \in Days : usage'[t] <= usage[t]
    BY DEF PruneUsage, Types
<1>2. Types'
    BY <1>1 DEF PruneUsage, Types, alertVars, AtMostOne, Past
<1>3. Stored'
  <2>1. \A t \in Days : usage'[t] \in Nat /\ usage[t] \in Nat /\ recorded[t] \in Nat
    BY <1>1 DEF Types
  <2> QED BY <1>1, <2>1 DEF PruneUsage, RInv, Stored
<1>4. LedgerOfRule' /\ Chronological' /\ LedgerWithinRecords' /\ LedgerExact'
    BY DEF PruneUsage, RInv, LedgerOfRule, Chronological, Current, LedgerWithinRecords,
       LedgerExact
<1> QED BY <1>2, <1>3, <1>4 DEF RInv

\* Time passes: the ledger stays behind, and what is exact for the new current
\* period was exact for the same period before.
LEMMA NextDayKeeps ==
    ASSUME Types, RInv, NextDay
    PROVE  Types' /\ RInv'
<1>1. today \in Days /\ today' \in Days /\ today <= today'
    BY CalendarAssumption DEF NextDay, Types, Days
<1>2. Types'
    BY <1>1 DEF NextDay, Types, ledgerVars, alertVars, AtMostOne
<1>3. Stored' /\ LedgerOfRule' /\ LedgerWithinRecords'
    BY DEF NextDay, ledgerVars, RInv, Stored, LedgerOfRule, LedgerWithinRecords
<1>4. UNCHANGED <<ledger, recorded, rule, pending, setBacks, past>>
    BY DEF NextDay, ledgerVars
<1>5. /\ Current[2] <= Current'[2] /\ Current[2] \in Nat /\ Current'[2] \in Nat
      /\ Current'[2] = Current[2] => Current' = Current
    BY <1>1, <1>4, RuleTyped, KeyOrder, KeyFacts DEF Current
<1>6. \A l \in ledger : l.key[2] \in Nat
    BY RuleTyped, KeyFacts DEF RInv, LedgerOfRule
<1>7. Chronological'
  <2> SUFFICES ASSUME setBacks = 0
               PROVE  /\ \A t \in Days : recorded[t] > 0 => t <= today'
                      /\ \A batch \in pending :
                            /\ batch.at <= today'
                            /\ \A t \in Days : recorded[t] > 0 => t <= batch.at
                      /\ \A l \in ledger :
                            /\ l.key[2] <= Current'[2]
                            /\ \A t \in Days : recorded[t] > 0 =>
                                  periodKeyFor(rule.period, t)[2] <= l.key[2]
    BY <1>4 DEF Chronological
  <2>1. \A batch \in pending : batch.at \in Days
    BY TableOfBatch DEF Types
  <2>2. \A l \in ledger : l.key[2] <= Current'[2]
    BY <1>5, <1>6 DEF RInv, Chronological
  <2> QED BY <1>1, <2>1, <2>2 DEF RInv, Chronological, Days
<1>8. LedgerExact'
  <2> SUFFICES ASSUME NEW l \in ledger, l.key = Current', setBacks = 0,
                      "pruned" \notin past
               PROVE  l.used = BytesIn(recorded, l.key)
    BY <1>4 DEF LedgerExact, Current
  <2>1. l.key[2] <= Current[2]
    BY DEF RInv, Chronological
  <2>2. l.key = Current
    BY <1>5, <2>1
  <2> QED BY <2>2 DEF RInv, LedgerExact, Current
<1> QED BY <1>2, <1>3, <1>7, <1>8 DEF RInv

LEMMA SetClockBackKeeps ==
    ASSUME Types, RInv, NEW t \in Days, SetClockBack(t)
    PROVE  Types' /\ RInv'
<1>1. setBacks' \in 0 .. MaxSetBacks /\ setBacks' # 0
    BY BoundsAssumption DEF SetClockBack, Types
<1>2. Types'
    BY <1>1 DEF SetClockBack, Types, ledgerVars, alertVars, AtMostOne
<1> QED BY <1>1, <1>2 DEF SetClockBack, ledgerVars, RInv, Stored, LedgerOfRule,
           Chronological, LedgerWithinRecords, LedgerExact

LEMMA CrashKeeps ==
    ASSUME Types, RInv, Crash
    PROVE  Types' /\ RInv'
<1>1. Types'
    BY BoundsAssumption DEF Crash, Step, Types, ledgerVars, alertVars, AtMostOne, Past
<1> QED BY <1>1 DEF Crash, ledgerVars, RInv, Stored, LedgerOfRule, Chronological,
           Current, LedgerWithinRecords, LedgerExact

LEMMA RecordsStep ==
    ASSUME Types, RInv, [Next]_vars
    PROVE  Types' /\ RInv'
<1> DEFINE Same == UNCHANGED <<today, rule, pending, setBacks, ledgerVars, past>>
<1>1. ASSUME Same PROVE RInv'
    BY <1>1 DEF ledgerVars, RInv, Stored, LedgerOfRule, Chronological, Current,
       LedgerWithinRecords, LedgerExact
<1>2. CASE UNCHANGED vars
  <2>1. Types'
    BY <1>2 DEF vars, ledgerVars, alertVars, Types, AtMostOne
  <2> QED BY <1>1, <1>2, <2>1 DEF vars
<1>3. CASE RoundWithoutDelta
  <2>1. Types'
    BY <1>3 DEF RoundWithoutDelta, ledgerVars, alertVars, Types, AtMostOne
  <2> QED BY <1>1, <1>3, <2>1 DEF RoundWithoutDelta
<1>4. CASE Emit
  <2>1. Types'
    BY <1>4 DEF Emit, ledgerVars, Types, AtMostOne
  <2> QED BY <1>1, <1>4, <2>1 DEF Emit
<1> QED BY <1>2, <1>3, <1>4, NextDayKeeps, SetClockBackKeeps, RoundStoredKeeps,
           RoundDeferredKeeps, RetryPendingKeeps, EvaluateKeeps, UpdateNetworkKeeps,
           ClearUsageKeeps, PruneUsageKeeps, CrashKeeps DEF Next

-----------------------------------------------------------------------------
(* The alerts, in every step.                                              *)

AInv == Outboxed /\ Marks /\ Announcing

\* Period keys have a place in the order of time.
LEMMA PlacesTyped ==
    ASSUME Types
    PROVE  /\ \A l \in ledger : l.key[2] \in Nat
           /\ \A a \in announced \cup outbox : a[1][2] \in Nat /\ a = <<a[1], a[2]>>
<1>1. \A k \in PeriodKeys : k[2] \in Nat
    BY KeyOfPeriod, KeyFacts
<1> QED BY <1>1 DEF Types, Ledgers

\* Storing a batch that is not older than the ledger leaves every mark in the
\* ledger, or in a period before it.
LEMMA StoreKeepsAlerts ==
    ASSUME Types, RInv, AInv, Idle, NEW batch \in Batches, ApplyUsage(batch),
           "switched" \notin past /\ setBacks = 0 =>
              \A m \in ledger : m.key[2] <= periodKeyFor(rule.period, batch.at)[2],
           pending' = {}, phase' # "evaluated",
           UNCHANGED <<rule, outbox, setBacks, alertVars, past>>
    PROVE  AInv'
<1> USE RuleTyped, TableOfBatch
<1>1. PICK l \in Ledgers :
              /\ ledger' = {l}
              /\ l.key = periodKeyFor(rule.period, batch.at)
              /\ \/ \E m \in ledger :
                        /\ m.key = l.key /\ m.notified = l.notified
                        /\ l.used = m.used + BytesIn(batch.bytes, l.key)
                 \/ /\ \A m \in ledger : m.key # l.key
                    /\ l.used = BytesIn(batch.bytes, l.key) /\ l.notified = {}
    BY LedgerAdds DEF ApplyUsage, Types
<1>2. outbox = {} /\ outbox' = {}
    BY DEF AInv, Outboxed, Idle
<1>3. \A m \in ledger : m.key = l.key => m.notified = l.notified
    BY <1>1 DEF Types, AtMostOne
<1>4. Marks'
  <2> SUFFICES ASSUME "switched" \notin past, setBacks = 0, NEW a \in announced
               PROVE  (a[1] = l.key /\ a[2] \in l.notified) \/ a[1][2] < l.key[2]
    BY <1>1, <1>2 DEF AInv, Marks, alertVars
  <2>1. PICK m \in ledger : (a[1] = m.key /\ a[2] \in m.notified)
                            \/ a[1][2] < m.key[2]
    BY DEF AInv, Marks
  <2>2. /\ m.key[2] <= l.key[2] /\ m.key[2] \in Nat /\ l.key[2] \in Nat
        /\ a[1][2] \in Nat
    BY <1>1, PlacesTyped, KeyFacts
  <2>3. m.key[2] = l.key[2] => m.key = l.key
    BY <1>1, KeyOrder DEF RInv, LedgerOfRule
  <2> QED BY <1>3, <2>1, <2>2, <2>3
<1>5. Announcing'
  <2> SUFFICES ASSUME past \cap {"crashed", "cleared"} = {}, NEW w \in l.notified
               PROVE  <<l.key, w>> \in announced
    BY <1>1, <1>2 DEF Announcing, alertVars
  <2>1. PICK m \in ledger : m.key = l.key /\ m.notified = l.notified
    BY <1>1
  <2> QED BY <1>2, <2>1 DEF AInv, Announcing
<1> QED BY <1>2, <1>4, <1>5 DEF AInv, Outboxed

LEMMA EvaluateKeepsAlerts ==
    ASSUME Types, RInv, AInv, Evaluate
    PROVE  AInv'
<1>1. PICK last \in {0} \cup rule.warn :
              /\ ledger' = {Marked(row, last) : row \in ledger}
              /\ outbox' = UNION {{<<row.key, w>> : w \in Saved(row, last)} :
                                    row \in ledger}
    BY DEF Evaluate
<1>2. outbox = {} /\ phase' = "evaluated"
      /\ UNCHANGED <<rule, pending, setBacks, past, alertVars>>
    BY DEF Evaluate, AInv, Outboxed
<1>3. \A row \in ledger : /\ Marked(row, last).key = row.key
                          /\ Marked(row, last).notified
                                = row.notified \cup Saved(row, last)
    BY DEF Marked, Types, Ledgers
<1>4. \A b \in outbox' : \E row \in ledger :
            b = <<row.key, b[2]>> /\ b[2] \in Saved(row, last)
    BY <1>1
<1>5. \A row \in ledger : \A w \in Saved(row, last) : <<row.key, w>> \in outbox'
    BY <1>1
<1>6. Marks'
  <2> SUFFICES ASSUME "switched" \notin past, setBacks = 0
               PROVE  /\ repeated' = {} /\ announced' \cap outbox' = {}
                      /\ \A a \in announced' \cup outbox' : \E l \in ledger' :
                            \/ a[1] = l.key /\ a[2] \in l.notified
                            \/ a[1][2] < l.key[2]
                      /\ \A batch \in pending' : \A l \in ledger' :
                            l.key[2] <= periodKeyFor(rule'.period, batch.at)[2]
    BY <1>2 DEF Marks
  <2>1. /\ repeated = {}
        /\ \A a \in announced : \E l \in ledger :
              (a[1] = l.key /\ a[2] \in l.notified) \/ a[1][2] < l.key[2]
        /\ \A batch \in pending : \A l \in ledger :
              l.key[2] <= periodKeyFor(rule.period, batch.at)[2]
    BY DEF AInv, Marks
  <2>2. ASSUME NEW a \in announced \cap outbox' PROVE FALSE
    <3>1. PICK row \in ledger : a = <<row.key, a[2]>> /\ a[2] \in Saved(row, last)
      BY <1>4
    <3>2. \A l \in ledger : l = row
      BY DEF Types, AtMostOne
    <3>3. a[2] \notin row.notified /\ a[1] = row.key
      BY <3>1 DEF Saved, Due
    <3>4. row.key[2] \in Nat
      BY PlacesTyped
    <3> QED BY <2>1, <3>2, <3>3, <3>4
  <2>3. ASSUME NEW a \in announced'
        PROVE  \E l \in ledger' : (a[1] = l.key /\ a[2] \in l.notified)
                                  \/ a[1][2] < l.key[2]
    <3>1. a \in announced
      BY <1>2 DEF alertVars
    <3>2. PICK row \in ledger : (a[1] = row.key /\ a[2] \in row.notified)
                                \/ a[1][2] < row.key[2]
      BY <2>1, <3>1
    <3> QED BY <1>1, <1>3, <3>2
  <2>4. ASSUME NEW a \in outbox'
        PROVE  \E l \in ledger' : a[1] = l.key /\ a[2] \in l.notified
    <3>1. PICK row \in ledger : a = <<row.key, a[2]>> /\ a[2] \in Saved(row, last)
      BY <1>4
    <3>2. a[1] = Marked(row, last).key /\ a[2] \in Marked(row, last).notified
      BY <1>3, <3>1
    <3> QED BY <1>1, <3>2
  <2>5. \A l \in ledger' : \E row \in ledger : l.key = row.key
    BY <1>1, <1>3
  <2> QED BY <1>2, <2>1, <2>2, <2>3, <2>4, <2>5 DEF alertVars
<1>7. Announcing'
  <2> SUFFICES ASSUME past \cap {"crashed", "cleared"} = {}, NEW l \in ledger',
                      NEW w \in l.notified
               PROVE  <<l.key, w>> \in announced \cup outbox'
    BY <1>2 DEF Announcing, alertVars
  <2>1. PICK row \in ledger : l = Marked(row, last)
    BY <1>1
  <2>2. l.key = row.key /\ w \in row.notified \cup Saved(row, last)
    BY <1>3, <2>1
  <2> QED BY <1>2, <1>5, <2>2 DEF AInv, Announcing
<1> QED BY <1>2, <1>6, <1>7 DEF AInv, Outboxed

LEMMA AlertsStep ==
    ASSUME Types, RInv, AInv, [Next]_vars
    PROVE  AInv'
<1>1. CASE UNCHANGED vars
    BY <1>1 DEF vars, ledgerVars, alertVars, AInv, Outboxed, Marks, Announcing
<1>2. ASSUME NEW batch \in Sampled, RoundStored(batch) PROVE AInv'
  <2>1. setBacks = 0 =>
            \A m \in ledger : m.key[2] <= periodKeyFor(rule.period, batch.at)[2]
    BY SampledToday DEF RInv, Chronological, Current
  <2> QED BY <1>2, <2>1, SampledToday, StoreKeepsAlerts DEF RoundStored
<1>3. CASE RetryPending
  <2>1. PICK batch \in pending : ApplyUsage(batch)
    BY <1>3 DEF RetryPending
  <2>2. batch \in Batches
    BY DEF Types
  <2>3. "switched" \notin past /\ setBacks = 0 =>
            \A m \in ledger : m.key[2] <= periodKeyFor(rule.period, batch.at)[2]
    BY DEF AInv, Marks
  <2> QED BY <1>3, <2>1, <2>2, <2>3, StoreKeepsAlerts DEF RetryPending, Idle
<1>4. ASSUME NEW batch \in Sampled, RoundDeferred(batch) PROVE AInv'
  <2>1. setBacks = 0 =>
            \A m \in ledger : m.key[2] <= periodKeyFor(rule.period, batch.at)[2]
    BY SampledToday DEF RInv, Chronological, Current
  <2> QED BY <1>4, <2>1 DEF RoundDeferred, ledgerVars, alertVars, AInv, Outboxed,
             Marks, Announcing
<1>5. CASE Evaluate
    BY <1>5, EvaluateKeepsAlerts
<1>6. CASE Emit
  <2>1. announced' = announced \cup outbox /\ outbox' = {}
        /\ repeated' = repeated \cup (announced \cap outbox)
    BY <1>6 DEF Emit
  <2> QED BY <1>6, <2>1 DEF Emit, ledgerVars, AInv, Outboxed, Marks, Announcing
<1>7. ASSUME NEW new \in Rules, UpdateNetwork(new) PROVE AInv'
  <2>1. CASE new.period = rule.period
    BY <1>7, <2>1 DEF UpdateNetwork, alertVars, AInv, Outboxed, Marks, Announcing
  <2>2. CASE new.period # rule.period
    <3>1. ledger' = {NewLedger(new.period)} /\ past' = past \cup {"switched"}
          /\ UNCHANGED <<phase, outbox>>
      BY <1>7, <2>2 DEF UpdateNetwork
    <3>2. NewLedger(new.period).notified = {}
      BY DEF NewLedger
    <3> QED BY <3>1, <3>2 DEF AInv, Outboxed, Marks, Announcing
  <2> QED BY <2>1, <2>2
<1>8. CASE ClearUsage
  <2>1. announced' = {} /\ outbox' = {} /\ pending' = {} /\ "cleared" \in past'
        /\ repeated' = repeated /\ setBacks' = setBacks /\ phase' = phase
        /\ ("switched" \notin past' => "switched" \notin past)
    BY <1>8 DEF ClearUsage, AInv, Outboxed, Idle
  <2> QED BY <2>1 DEF AInv, Outboxed, Marks, Announcing
<1>9. ASSUME NEW cutoff \in 1 .. today, PruneUsage(cutoff) PROVE AInv'
    BY <1>9 DEF PruneUsage, alertVars, AInv, Outboxed, Marks, Announcing
<1>10. CASE Crash
  <2>1. outbox' = {} /\ pending' = {} /\ "crashed" \in past'
        /\ ("switched" \notin past' => "switched" \notin past)
        /\ UNCHANGED <<setBacks, ledger, alertVars, rule>>
    BY <1>10 DEF Crash, ledgerVars
  <2> QED BY <2>1 DEF alertVars, AInv, Outboxed, Marks, Announcing
<1>11. CASE NextDay
    BY <1>11 DEF NextDay, ledgerVars, alertVars, AInv, Outboxed, Marks, Announcing
<1>12. ASSUME NEW t \in Days, SetClockBack(t) PROVE AInv'
  <2>1. setBacks' # 0
    BY <1>12 DEF SetClockBack, Types
  <2> QED BY <1>12, <2>1 DEF SetClockBack, ledgerVars, alertVars, AInv, Outboxed,
             Marks, Announcing
<1>13. CASE RoundWithoutDelta
    BY <1>13 DEF RoundWithoutDelta, Idle, ledgerVars, alertVars, AInv, Outboxed,
       Marks, Announcing
<1> QED BY <1>1, <1>2, <1>3, <1>4, <1>5, <1>6, <1>7, <1>8, <1>9, <1>10, <1>11,
           <1>12, <1>13 DEF Next

-----------------------------------------------------------------------------
LEMMA InitIInv == Init => Types /\ RInv /\ AInv
<1> SUFFICES ASSUME Init PROVE Types /\ RInv /\ AInv
    OBVIOUS
<1>1. Types
    BY CalendarAssumption, BoundsAssumption DEF Init, Types, Days, AtMostOne
<1>2. RInv
    BY DEF Init, RInv, Stored, LedgerOfRule, Chronological, LedgerWithinRecords,
       LedgerExact
<1>3. AInv
    BY DEF Init, AInv, Outboxed, Marks, Announcing
<1> QED BY <1>1, <1>2, <1>3

THEOREM Invariance == Spec => [](Types /\ RInv /\ AInv)
<1>1. Init => Types /\ RInv /\ AInv
    BY InitIInv
<1>2. Types /\ RInv /\ AInv /\ [Next]_vars => (Types /\ RInv /\ AInv)'
    BY RecordsStep, AlertsStep
<1> QED BY <1>1, <1>2, PTL DEF Spec

\* Every variable of the quota keeps its type; the ledger and the pending batch
\* stay unique.
THEOREM TypeCorrect == Spec => []TypeOK
<1>1. Types => TypeOK
    BY AtMostOneCardinality DEF Types, TypeOK
<1> QED BY <1>1, Invariance, PTL

\* A ledger never holds more than was recorded in its period: retried batches,
\* batches over midnight and recomputed ledgers count no byte twice.
THEOREM NeverTooMuch == Spec => []LedgerWithinRecords
<1>1. RInv => LedgerWithinRecords
    BY DEF RInv
<1> QED BY <1>1, Invariance, PTL

\* With a clock that only advances and no pruning, the ledger of the current
\* period holds every recorded byte of it.
THEOREM CurrentLedgerExact == Spec => []LedgerExact
<1>1. RInv => LedgerExact
    BY DEF RInv
<1> QED BY <1>1, Invariance, PTL

\* No crash, failing save or deferred batch repeats an alert.
THEOREM WarnsOnce == Spec => []NoRepeatedWarning
<1>1. Types /\ AInv => NoRepeatedWarning
    BY DEF Types, AInv, Marks, NoRepeatedWarning
<1> QED BY <1>1, Invariance, PTL

\* No alert that was marked as announced is lost while the backend runs.
THEOREM NoWarningLost == Spec => []MarkedIsAnnounced
<1>1. AInv => MarkedIsAnnounced
    BY DEF AInv, Outboxed, Announcing, MarkedIsAnnounced, Idle
<1> QED BY <1>1, Invariance, PTL

===============================================================================
