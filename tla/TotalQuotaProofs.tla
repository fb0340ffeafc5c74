--------------------------- MODULE TotalQuotaProofs ---------------------------
(***************************************************************************)
(* Proofs about the quota of all Wi-Fi networks together, for every        *)
(* calendar, set of networks, set of rules and bound.                      *)
(***************************************************************************)
EXTENDS TotalQuota, QuotaLemmas

WiFi == Networks \ Wired

\* The ledgers are well-formed.
IsLedgers(ledgers) ==
    DOMAIN ledgers \subseteq PeriodKeys /\ \A key \in DOMAIN ledgers : ledgers[key] \in Ledger

\* The ledgers hold what was recorded in their periods; so do the tables the
\* next ledger is created from.  Pruning leaves only the upper bound.
Within(table, ledgers, records) ==
    /\ \A n \in Networks : \A t \in Days : table[n][t] <= records[n][t]
    /\ \A key \in DOMAIN ledgers : ledgers[key].used <= WifiBytes(records, key)

Exact(table, ledgers, records) ==
    /\ table = records
    /\ \A key \in DOMAIN ledgers : ledgers[key].used = WifiBytes(records, key)

\* The alert <<key, threshold>> is marked in the ledgers.
MarkedIn(ledgers, alert) ==
    /\ alert[1] \in DOMAIN ledgers
    /\ \/ alert[2] \in ledgers[alert[1]].notified
       \/ alert[2] = LimitReached /\ ledgers[alert[1]].limit

\* A mark in the ledgers has its alert among those given.
MarksIn(ledgers, alerts) ==
    \A key \in DOMAIN ledgers :
        /\ \A w \in ledgers[key].notified : <<key, w>> \in alerts
        /\ ledgers[key].limit => <<key, LimitReached>> \in alerts

Alerts == PeriodKeys \X (0 .. 100)

\* What holds of the database, and of the database a backup holds.
DbTypes(table, ledgers, settings, records, alerts) ==
    /\ table \in Table /\ records \in Table /\ settings \in Rules
    /\ IsLedgers(ledgers) /\ alerts \subseteq Alerts

DbCounts(table, ledgers, records) ==
    /\ Within(table, ledgers, records)
    /\ "pruned" \notin past => Exact(table, ledgers, records)

Types ==
    /\ today \in Days
    /\ DbTypes(usage, totals, rule, recorded, announced)
    /\ AtMostOne(archive)
    /\ \A saved \in archive :
          DbTypes(saved.usage, saved.totals, saved.rule, saved.recorded, saved.announced)
    /\ phase \in {"idle", "applied", "evaluated"}
    /\ outbox \subseteq Alerts /\ repeated \subseteq Alerts
    /\ steps \in 0 .. MaxSteps /\ setBacks \in 0 .. MaxSetBacks
    /\ past \subseteq Past

Counts ==
    /\ DbCounts(usage, totals, recorded)
    /\ \A saved \in archive : DbCounts(saved.usage, saved.totals, saved.recorded)

\* Alerts are emitted once: what was announced is marked.
Once ==
    /\ repeated = {}
    /\ phase # "evaluated" => outbox = {}
    /\ announced \cap outbox = {}
    /\ \A a \in announced \cup outbox : MarkedIn(totals, a)
    /\ \A saved \in archive : \A a \in saved.announced : MarkedIn(saved.totals, a)

\* What is marked was announced, or is about to be.
Announcing ==
    "crashed" \notin past =>
        /\ MarksIn(totals, announced \cup outbox)
        /\ \A saved \in archive : MarksIn(saved.totals, saved.announced)

-----------------------------------------------------------------------------
(* The bytes of the Wi-Fi networks.                                        *)

WifiTable(table, key) == [n \in WiFi |-> BytesIn(table[n], key)]

WifiEquation(table, key, f) ==
    f = [s \in SUBSET WiFi |-> IF s = {} THEN 0
            ELSE BytesIn(table[CHOOSE x \in s : TRUE], key)
                    + f[s \ {CHOOSE x \in s : TRUE}]]

\* The bytes of the Wi-Fi networks are a sum of sums.
LEMMA WifiSum ==
    ASSUME NEW table, NEW key
    PROVE  WifiBytes(table, key) = Sum(WifiTable(table, key), WiFi)
<1> DEFINE t == WifiTable(table, key)
           f == CHOOSE f : WifiEquation(table, key, f)
           g == CHOOSE g : Equation(t, WiFi, g)
<1>1. WifiBytes(table, key) = f[WiFi]
    BY DEF WifiBytes, MapThenSumSet, MapThenFoldSet, WifiEquation, WiFi
<1>2. Sum(t, WiFi) = g[WiFi]
    BY SumUnfolds
<1>3. IsFiniteSet(WiFi)
    BY WiredAssumption, FS_Difference DEF WiFi
<1>4. ASSUME NEW h PROVE WifiEquation(table, key, h) <=> Equation(t, WiFi, h)
  <2>1. \A s \in SUBSET WiFi : s # {} => t[Chosen(s)] = BytesIn(table[Chosen(s)], key)
    BY ChosenIn DEF WifiTable
  <2> QED BY <2>1 DEF WifiEquation, Equation, Body, Chosen
<1>5. \E h : Equation(t, WiFi, h)
    BY <1>3, EquationHasSolution
<1>6. WifiEquation(table, key, f) /\ Equation(t, WiFi, g)
    BY <1>4, <1>5
<1>7. Equation(t, WiFi, f)
    BY <1>4, <1>6
<1> HIDE DEF f, g, t
<1>8. f[WiFi] = g[WiFi]
    BY <1>3, <1>6, <1>7, EquationsAgree
<1> QED BY <1>1, <1>2, <1>8 DEF t

LEMMA WifiFinite == IsFiniteSet(WiFi) /\ WiFi \subseteq Networks
BY WiredAssumption, FS_Difference DEF WiFi

LEMMA WifiNat ==
    ASSUME NEW table \in Table, NEW key
    PROVE  WifiBytes(table, key) \in Nat
<1>1. \A n \in WiFi : WifiTable(table, key)[n] \in Nat
    BY WifiFinite, BytesNat DEF WifiTable, Table
<1> QED BY <1>1, WifiFinite, SumNat, WifiSum

LEMMA WifiMonotone ==
    ASSUME NEW table \in Table, NEW records \in Table, NEW key,
           \A n \in Networks : \A t \in Days : table[n][t] <= records[n][t]
    PROVE  WifiBytes(table, key) <= WifiBytes(records, key)
<1>1. \A n \in WiFi : /\ WifiTable(table, key)[n] \in Nat
                      /\ WifiTable(records, key)[n] \in Nat
                      /\ WifiTable(table, key)[n] <= WifiTable(records, key)[n]
    BY WifiFinite, BytesNat, BytesMonotone DEF WifiTable, Table
<1> QED BY <1>1, WifiFinite, SumMonotone, WifiSum

LEMMA WifiNone ==
    ASSUME NEW key
    PROVE  WifiBytes(NoRecords, key) = 0
<1>1. \A n \in WiFi : WifiTable(NoRecords, key)[n] = 0
    BY WifiFinite, BytesNat, DaysFinite DEF WifiTable, NoRecords
<1>2. Sum(WifiTable(NoRecords, key), {}) = Sum(WifiTable(NoRecords, key), WiFi)
    BY <1>1, WifiFinite, SumSame
<1> QED BY <1>2, WifiSum, SumEmpty

\* A minute adds its byte to the periods its day is in, if its network counts.
LEMMA WifiAdded ==
    ASSUME NEW table \in Table, NEW minute \in Minute, NEW key
    PROVE  /\ Added(table, minute) \in Table
           /\ \A n \in Networks : \A t \in Days :
                 Added(table, minute)[n][t] =
                    table[n][t] + IF n = minute.network /\ t = minute.day THEN 1 ELSE 0
           /\ WifiBytes(Added(table, minute), key) =
                WifiBytes(table, key)
                    + IF minute.network \in WiFi /\ minute.day \in DaysOf(key)
                      THEN 1 ELSE 0
<1> DEFINE net == minute.network
           day == minute.day
           more == Added(table, minute)
           one == [t \in Days |-> IF t = day THEN 1 ELSE 0]
           c == IF day \in DaysOf(key) THEN 1 ELSE 0
           unit == [n \in WiFi |-> IF n = net THEN c ELSE 0]
<1>1. net \in Networks /\ day \in Days
    BY DEF Minute
<1>2. more \in Table
      /\ \A n \in Networks : \A t \in Days :
            more[n][t] = table[n][t] + IF n = net /\ t = day THEN 1 ELSE 0
    BY <1>1 DEF Added, Table
<1>3. BytesIn(one, key) = c
  <2>1. \A t \in DaysOf(key) : one[t] = IF t = day THEN 1 ELSE 0
    BY DaysFinite
  <2> QED BY <2>1, DaysFinite, SumUnit, BytesInIsSum
<1>4. BytesIn(more[net], key) = BytesIn(table[net], key) + c
  <2>1. \A d \in Days : more[net][d] = table[net][d] + one[d]
    BY <1>1, <1>2
  <2>2. table[net] \in [Days -> Nat] /\ one \in [Days -> Nat]
    BY <1>1 DEF Table
  <2> HIDE DEF one, more, c
  <2> QED BY <1>3, <2>1, <2>2, BytesPlus
<1>5. \A n \in WiFi : n # net => more[n] = table[n]
    BY <1>1 DEF Added
<1>6. \A n \in WiFi : /\ WifiTable(table, key)[n] \in Nat /\ unit[n] \in Nat
                      /\ WifiTable(more, key)[n] = WifiTable(table, key)[n] + unit[n]
  <2>1. \A n \in WiFi : BytesIn(table[n], key) \in Nat
    BY WifiFinite, BytesNat DEF Table
  <2> HIDE DEF more
  <2> QED BY <1>4, <1>5, <2>1 DEF WifiTable
<1>7. WifiBytes(more, key) = WifiBytes(table, key) + Sum(unit, WiFi)
  <2> HIDE DEF unit, more
  <2> QED BY <1>6, WifiFinite, SumPlus, WifiSum
<1>8. Sum(unit, WiFi) = IF net \in WiFi THEN c ELSE 0
  <2>1. c \in Nat
    OBVIOUS
  <2>2. \A n \in WiFi : unit[n] = IF n = net THEN c ELSE 0
    OBVIOUS
  <2> HIDE DEF unit, c
  <2> QED BY <2>1, <2>2, WifiFinite, SumUnit
<1> HIDE DEF more, unit
<1> QED BY <1>2, <1>7, <1>8 DEF more

-----------------------------------------------------------------------------
(* The ledgers.                                                            *)

LEMMA KeysTyped ==
    ASSUME NEW day \in Days
    PROVE  KeysAt(day) \subseteq PeriodKeys
BY DEF KeysAt, PeriodKeys

\* The periods a day lies in are those whose days it is one of.
LEMMA KeysOfDay ==
    ASSUME NEW day \in Days, NEW key \in PeriodKeys
    PROVE  key \in KeysAt(day) <=> day \in DaysOf(key)
<1>1. key[1] \in Periods
    BY KeyOfPeriod, KeyFacts
<1>2. ASSUME key \in KeysAt(day) PROVE day \in DaysOf(key)
    BY <1>2, KeyFacts DEF KeysAt
<1>3. ASSUME day \in DaysOf(key) PROVE key \in KeysAt(day)
    BY <1>1, <1>3 DEF KeysAt, DaysOf
<1> QED BY <1>2, <1>3

\* Looking at the quota creates exact ledgers without marks.
Ensures(ledgers, table, day, ensured) ==
    /\ DOMAIN ensured = DOMAIN ledgers \cup KeysAt(day)
    /\ \A key \in DOMAIN ledgers : ensured[key] = ledgers[key]
    /\ \A key \in DOMAIN ensured \ DOMAIN ledgers :
          /\ ensured[key].used = WifiBytes(table, key)
          /\ ensured[key].notified = {} /\ ~ensured[key].limit

LEMMA EnsureKeeps ==
    ASSUME NEW ledgers, IsLedgers(ledgers), NEW table \in Table, NEW day \in Days
    PROVE  /\ IsLedgers(ensurePeriods(ledgers, table, day))
           /\ Ensures(ledgers, table, day, ensurePeriods(ledgers, table, day))
<1> DEFINE ensured == ensurePeriods(ledgers, table, day)
<1>1. /\ DOMAIN ensured = DOMAIN ledgers \cup KeysAt(day)
      /\ \A key \in DOMAIN ledgers : ensured[key] = ledgers[key]
      /\ \A key \in DOMAIN ensured \ DOMAIN ledgers :
            ensured[key] = [used |-> WifiBytes(table, key), notified |-> {},
                            limit |-> FALSE]
    BY DEF ensurePeriods
<1> HIDE DEF ensured
<1>2. \A key : [used |-> WifiBytes(table, key), notified |-> {}, limit |-> FALSE]
                    \in Ledger
    BY WifiNat DEF Ledger
<1>3. IsLedgers(ensured)
    BY <1>1, <1>2, KeysTyped DEF IsLedgers
<1>4. \A key \in DOMAIN ensured \ DOMAIN ledgers :
            /\ ensured[key].used = WifiBytes(table, key)
            /\ ensured[key].notified = {} /\ ~ensured[key].limit
  <2> SUFFICES ASSUME NEW key \in DOMAIN ensured \ DOMAIN ledgers
               PROVE  /\ ensured[key].used = WifiBytes(table, key)
                      /\ ensured[key].notified = {} /\ ~ensured[key].limit
    OBVIOUS
  <2>1. ensured[key] = [used |-> WifiBytes(table, key), notified |-> {}, limit |-> FALSE]
    BY <1>1
  <2>2. ensured[key].used = WifiBytes(table, key)
    BY <2>1
  <2>3. ensured[key].notified = {}
    BY <2>1
  <2>4. ~ensured[key].limit
    BY <2>1
  <2> QED BY <2>2, <2>3, <2>4
<1> QED BY <1>1, <1>3, <1>4 DEF Ensures, ensured

LEMMA EnsureCounts ==
    ASSUME NEW ledgers, IsLedgers(ledgers), NEW table \in Table, NEW records \in Table,
           DbCounts(table, ledgers, records), NEW day \in Days,
           NEW ensured, ensured = ensurePeriods(ledgers, table, day)
    PROVE  DbCounts(table, ensured, records)
<1>1. Ensures(ledgers, table, day, ensured)
    BY EnsureKeeps
<1>2. \A key : WifiBytes(table, key) <= WifiBytes(records, key)
    BY WifiMonotone DEF DbCounts, Within
<1>3. Within(table, ensured, records)
    BY <1>1, <1>2 DEF DbCounts, Within, Ensures
<1>4. Exact(table, ledgers, records) => Exact(table, ensured, records)
    BY <1>1 DEF Exact, Ensures
<1> QED BY <1>3, <1>4 DEF DbCounts

LEMMA EnsureMarks ==
    ASSUME NEW ledgers, IsLedgers(ledgers), NEW table \in Table, NEW day \in Days,
           NEW ensured, ensured = ensurePeriods(ledgers, table, day)
    PROVE  /\ \A a : MarkedIn(ledgers, a) <=> MarkedIn(ensured, a)
           /\ \A alerts : MarksIn(ledgers, alerts) => MarksIn(ensured, alerts)
<1>1. Ensures(ledgers, table, day, ensured)
    BY EnsureKeeps
<1>2. \A a : MarkedIn(ledgers, a) <=> MarkedIn(ensured, a)
    BY <1>1 DEF MarkedIn, Ensures
<1>3. \A alerts : MarksIn(ledgers, alerts) => MarksIn(ensured, alerts)
    BY <1>1 DEF MarksIn, Ensures
<1> QED BY <1>2, <1>3

\* One minute: the ledgers it belongs to count it, created before it is in the
\* tables, and the marks stay.
LEMMA StoreMinuteKeeps ==
    ASSUME NEW ledgers, IsLedgers(ledgers), NEW table \in Table, NEW records \in Table,
           DbCounts(table, ledgers, records), NEW minute \in Minute,
           NEW db, db = StoreMinute([usage |-> table, totals |-> ledgers], minute)
    PROVE  /\ db = [usage |-> db.usage, totals |-> db.totals]
           /\ db.usage \in Table /\ IsLedgers(db.totals)
           /\ Added(records, minute) \in Table
           /\ DbCounts(db.usage, db.totals, Added(records, minute))
           /\ \A a : MarkedIn(ledgers, a) <=> MarkedIn(db.totals, a)
           /\ \A alerts : MarksIn(ledgers, alerts) => MarksIn(db.totals, alerts)
<1> DEFINE day == minute.day
           net == minute.network
           ensured == ensurePeriods(ledgers, table, day)
           new == addUsage(ledgers, table, minute)
           counted(key) == net \in WiFi /\ day \in DaysOf(key)
<1>1. day \in Days /\ net \in Networks
    BY DEF Minute
<1>2. db = [usage |-> Added(table, minute), totals |-> new]
    BY DEF StoreMinute
<1>3. IsLedgers(ensured) /\ DbCounts(table, ensured, records)
    BY <1>1, EnsureKeeps, EnsureCounts
<1>4. /\ \A a : MarkedIn(ledgers, a) <=> MarkedIn(ensured, a)
      /\ \A alerts : MarksIn(ledgers, alerts) => MarksIn(ensured, alerts)
    BY <1>1, EnsureMarks
<1>5. /\ DOMAIN new = DOMAIN ensured
      /\ \A key \in DOMAIN ensured :
            new[key] = IF counted(key)
                       THEN [ensured[key] EXCEPT !.used = @ + 1] ELSE ensured[key]
  <2>1. CASE net \in Wired
    BY <2>1 DEF addUsage, WiFi
  <2>2. CASE net \notin Wired
    <3>1. net \in WiFi
      BY <1>1, <2>2 DEF WiFi
    <3>2. \A key \in DOMAIN ensured : key \in KeysAt(day) <=> day \in DaysOf(key)
      BY <1>1, <1>3, KeysOfDay DEF IsLedgers
    <3>3. new = [key \in DOMAIN ensured |->
                   IF key \in KeysAt(day)
                   THEN [ensured[key] EXCEPT !.used = @ + 1] ELSE ensured[key]]
      BY <2>2 DEF addUsage
    <3> HIDE DEF new, ensured
    <3> QED BY <3>1, <3>2, <3>3
  <2> QED BY <2>1, <2>2
<1> HIDE DEF ensured, new
<1>6. \A key \in DOMAIN ensured :
        /\ new[key] \in Ledger /\ ensured[key].used \in Nat
        /\ new[key].used = ensured[key].used + IF counted(key) THEN 1 ELSE 0
        /\ new[key].notified = ensured[key].notified
        /\ new[key].limit = ensured[key].limit
    BY <1>3, <1>5 DEF IsLedgers, Ledger
<1>7. \A key :
        /\ WifiBytes(records, key) \in Nat
        /\ WifiBytes(Added(records, minute), key) =
                WifiBytes(records, key) + IF counted(key) THEN 1 ELSE 0
    BY WifiAdded, WifiNat
<1>8. /\ Added(table, minute) \in Table /\ Added(records, minute) \in Table
      /\ table = records => Added(table, minute) = Added(records, minute)
    BY WifiAdded
<1>9. \A n \in Networks : \A t \in Days :
        Added(table, minute)[n][t] <= Added(records, minute)[n][t]
  <2>1. \A n \in Networks : \A t \in Days :
            table[n][t] \in Nat /\ records[n][t] \in Nat /\ table[n][t] <= records[n][t]
    BY DEF DbCounts, Within, Table
  <2> QED BY <2>1, WifiAdded
<1>10. DbCounts(Added(table, minute), new, Added(records, minute))
  <2>1. Within(Added(table, minute), new, Added(records, minute))
    BY <1>3, <1>5, <1>6, <1>7, <1>9 DEF DbCounts, Within
  <2>2. Exact(table, ensured, records)
            => Exact(Added(table, minute), new, Added(records, minute))
    BY <1>5, <1>6, <1>7, <1>8 DEF Exact
  <2> QED BY <1>3, <2>1, <2>2 DEF DbCounts
<1>11. IsLedgers(new)
    BY <1>3, <1>5, <1>6 DEF IsLedgers
<1>12. /\ \A a : MarkedIn(ledgers, a) <=> MarkedIn(new, a)
       /\ \A alerts : MarksIn(ledgers, alerts) => MarksIn(new, alerts)
    BY <1>4, <1>5, <1>6 DEF MarkedIn, MarksIn
<1> QED BY <1>2, <1>8, <1>10, <1>11, <1>12

-----------------------------------------------------------------------------
(* A batch is stored minute by minute.                                     *)

\* The equations behind the folds over a batch.
StoreEquation(base, batch, f) ==
    f = [s \in SUBSET (DOMAIN batch) |-> IF s = {} THEN base
            ELSE StoreMinute(f[s \ {Max(s)}], batch[Max(s)])]

AddEquation(base, batch, f) ==
    f = [s \in SUBSET (DOMAIN batch) |-> IF s = {} THEN base
            ELSE Added(f[s \ {Max(s)}], batch[Max(s)])]

StoreAll(base, batch) == FoldLeft(StoreMinute, base, batch)
AddAll(base, batch)   == FoldLeft(Added, base, batch)

LEMMA FoldsUnfold ==
    ASSUME NEW base, NEW batch
    PROVE  /\ StoreAll(base, batch) =
                (CHOOSE f : StoreEquation(base, batch, f))[DOMAIN batch]
           /\ AddAll(base, batch) =
                (CHOOSE f : AddEquation(base, batch, f))[DOMAIN batch]
BY DEF StoreAll, AddAll, FoldLeft, MapThenFoldSet, StoreEquation, AddEquation

LEMMA MaxOfTwo == Max({1}) = 1 /\ Max({2}) = 2 /\ Max({1, 2}) = 2
<1>1. \A y \in {1} : 1 >= y
    OBVIOUS
<1> QED BY <1>1 DEF Max

\* A batch has at most two minutes.
LEMMA BatchShape ==
    ASSUME NEW batch \in Batches
    PROVE  /\ DOMAIN batch \in {{}, {1}, {1, 2}}
           /\ \A k \in DOMAIN batch : batch[k] \in Minute
<1>1. PICK m \in 0 .. 2 : batch \in [1 .. m -> Minute]
    BY DEF Batches, SeqOf
<1>2. 1 .. m \in {{}, {1}, {1, 2}}
  <2>1. m = 0 \/ m = 1 \/ m = 2
    OBVIOUS
  <2> QED BY <2>1
<1> QED BY <1>1, <1>2

LEMMA StoreFold ==
    ASSUME NEW base, NEW batch, DOMAIN batch \in {{}, {1}, {1, 2}}
    PROVE  StoreAll(base, batch) =
             IF DOMAIN batch = {} THEN base
             ELSE IF DOMAIN batch = {1} THEN StoreMinute(base, batch[1])
             ELSE StoreMinute(StoreMinute(base, batch[1]), batch[2])
<1> DEFINE f == CHOOSE f : StoreEquation(base, batch, f)
           value(s) == IF s = {} THEN base
                       ELSE IF s = {1} THEN StoreMinute(base, batch[1])
                       ELSE IF s = {2} THEN StoreMinute(base, batch[2])
                       ELSE StoreMinute(StoreMinute(base, batch[1]), batch[2])
           g == [s \in SUBSET (DOMAIN batch) |-> value(s)]
<1>1. \A s \in SUBSET (DOMAIN batch) : s \in {{}, {1}, {2}, {1, 2}}
    OBVIOUS
<1>2. ASSUME NEW s \in SUBSET (DOMAIN batch), s # {}
      PROVE  value(s) = StoreMinute(g[s \ {Max(s)}], batch[Max(s)])
  <2>1. s \ {Max(s)} \in SUBSET (DOMAIN batch)
    OBVIOUS
  <2>2. CASE s = {1}
    <3>1. s \ {Max(s)} = {} /\ Max(s) = 1
      BY <2>2, MaxOfTwo
    <3> QED BY <2>1, <2>2, <3>1
  <2>3. CASE s = {2}
    <3>1. s \ {Max(s)} = {} /\ Max(s) = 2 /\ s # {1}
      BY <2>3, MaxOfTwo
    <3> QED BY <2>1, <2>3, <3>1
  <2>4. CASE s = {1, 2}
    <3>1. s \ {Max(s)} = {1} /\ Max(s) = 2 /\ s # {1} /\ s # {2}
      BY <2>4, MaxOfTwo
    <3> QED BY <2>1, <2>4, <3>1
  <2> QED BY <1>1, <1>2, <2>2, <2>3, <2>4
<1>3. StoreEquation(base, batch, g)
  <2>1. \A s \in SUBSET (DOMAIN batch) :
            g[s] = IF s = {} THEN base
                   ELSE StoreMinute(g[s \ {Max(s)}], batch[Max(s)])
    BY <1>2
  <2>2. g = [s \in SUBSET (DOMAIN batch) |-> g[s]]
    OBVIOUS
  <2> HIDE DEF g
  <2> QED BY <2>1, <2>2 DEF StoreEquation
<1>4. StoreEquation(base, batch, f)
  <2> HIDE DEF g
  <2> QED BY <1>3
<1>5. StoreAll(base, batch) = f[DOMAIN batch]
    BY FoldsUnfold
<1> HIDE DEF f
<1>6. \A s \in SUBSET (DOMAIN batch) :
        f[s] = IF s = {} THEN base ELSE StoreMinute(f[s \ {Max(s)}], batch[Max(s)])
    BY <1>4 DEF StoreEquation
<1>7. CASE DOMAIN batch = {}
    BY <1>5, <1>6, <1>7
<1>8. CASE DOMAIN batch = {1}
  <2>1. f[{}] = base /\ {1} \ {Max({1})} = {} /\ Max({1}) = 1
    BY <1>6, <1>8, MaxOfTwo
  <2>2. f[{1}] = StoreMinute(base, batch[1])
    BY <1>6, <1>8, <2>1
  <2> QED BY <1>5, <1>8, <2>2
<1>9. CASE DOMAIN batch = {1, 2}
  <2>1. f[{}] = base /\ {1} \ {Max({1})} = {} /\ Max({1}) = 1
        /\ {1, 2} \ {Max({1, 2})} = {1} /\ Max({1, 2}) = 2
    BY <1>6, <1>9, MaxOfTwo
  <2>2. f[{1}] = StoreMinute(base, batch[1])
    BY <1>6, <1>9, <2>1
  <2>3. f[{1, 2}] = StoreMinute(f[{1}], batch[2])
    BY <1>6, <1>9, <2>1
  <2>4. {1, 2} # {} /\ {1, 2} # {1}
    OBVIOUS
  <2> QED BY <1>5, <1>9, <2>2, <2>3, <2>4
<1> QED BY <1>7, <1>8, <1>9

LEMMA AddFold ==
    ASSUME NEW base, NEW batch, DOMAIN batch \in {{}, {1}, {1, 2}}
    PROVE  AddAll(base, batch) =
             IF DOMAIN batch = {} THEN base
             ELSE IF DOMAIN batch = {1} THEN Added(base, batch[1])
             ELSE Added(Added(base, batch[1]), batch[2])
<1> DEFINE f == CHOOSE f : AddEquation(base, batch, f)
           value(s) == IF s = {} THEN base
                       ELSE IF s = {1} THEN Added(base, batch[1])
                       ELSE IF s = {2} THEN Added(base, batch[2])
                       ELSE Added(Added(base, batch[1]), batch[2])
           g == [s \in SUBSET (DOMAIN batch) |-> value(s)]
<1>1. \A s \in SUBSET (DOMAIN batch) : s \in {{}, {1}, {2}, {1, 2}}
    OBVIOUS
<1>2. ASSUME NEW s \in SUBSET (DOMAIN batch), s # {}
      PROVE  value(s) = Added(g[s \ {Max(s)}], batch[Max(s)])
  <2>1. s \ {Max(s)} \in SUBSET (DOMAIN batch)
    OBVIOUS
  <2>2. CASE s = {1}
    <3>1. s \ {Max(s)} = {} /\ Max(s) = 1
      BY <2>2, MaxOfTwo
    <3> QED BY <2>1, <2>2, <3>1
  <2>3. CASE s = {2}
    <3>1. s \ {Max(s)} = {} /\ Max(s) = 2 /\ s # {1}
      BY <2>3, MaxOfTwo
    <3> QED BY <2>1, <2>3, <3>1
  <2>4. CASE s = {1, 2}
    <3>1. s \ {Max(s)} = {1} /\ Max(s) = 2 /\ s # {1} /\ s # {2}
      BY <2>4, MaxOfTwo
    <3> QED BY <2>1, <2>4, <3>1
  <2> QED BY <1>1, <1>2, <2>2, <2>3, <2>4
<1>3. AddEquation(base, batch, g)
  <2>1. \A s \in SUBSET (DOMAIN batch) :
            g[s] = IF s = {} THEN base
                   ELSE Added(g[s \ {Max(s)}], batch[Max(s)])
    BY <1>2
  <2>2. g = [s \in SUBSET (DOMAIN batch) |-> g[s]]
    OBVIOUS
  <2> HIDE DEF g
  <2> QED BY <2>1, <2>2 DEF AddEquation
<1>4. AddEquation(base, batch, f)
  <2> HIDE DEF g
  <2> QED BY <1>3
<1>5. AddAll(base, batch) = f[DOMAIN batch]
    BY FoldsUnfold
<1> HIDE DEF f
<1>6. \A s \in SUBSET (DOMAIN batch) :
        f[s] = IF s = {} THEN base ELSE Added(f[s \ {Max(s)}], batch[Max(s)])
    BY <1>4 DEF AddEquation
<1>7. CASE DOMAIN batch = {}
    BY <1>5, <1>6, <1>7
<1>8. CASE DOMAIN batch = {1}
  <2>1. f[{}] = base /\ {1} \ {Max({1})} = {} /\ Max({1}) = 1
    BY <1>6, <1>8, MaxOfTwo
  <2>2. f[{1}] = Added(base, batch[1])
    BY <1>6, <1>8, <2>1
  <2> QED BY <1>5, <1>8, <2>2
<1>9. CASE DOMAIN batch = {1, 2}
  <2>1. f[{}] = base /\ {1} \ {Max({1})} = {} /\ Max({1}) = 1
        /\ {1, 2} \ {Max({1, 2})} = {1} /\ Max({1, 2}) = 2
    BY <1>6, <1>9, MaxOfTwo
  <2>2. f[{1}] = Added(base, batch[1])
    BY <1>6, <1>9, <2>1
  <2>3. f[{1, 2}] = Added(f[{1}], batch[2])
    BY <1>6, <1>9, <2>1
  <2>4. {1, 2} # {} /\ {1, 2} # {1}
    OBVIOUS
  <2> QED BY <1>5, <1>9, <2>2, <2>3, <2>4
<1> QED BY <1>7, <1>8, <1>9

LEMMA BatchKeeps ==
    ASSUME NEW ledgers, IsLedgers(ledgers), NEW table \in Table, NEW records \in Table,
           DbCounts(table, ledgers, records), NEW batch \in Batches,
           NEW db, db = StoreAll([usage |-> table, totals |-> ledgers], batch),
           NEW new, new = AddAll(records, batch)
    PROVE  /\ db.usage \in Table /\ IsLedgers(db.totals) /\ new \in Table
           /\ DbCounts(db.usage, db.totals, new)
           /\ \A a : MarkedIn(ledgers, a) <=> MarkedIn(db.totals, a)
           /\ \A alerts : MarksIn(ledgers, alerts) => MarksIn(db.totals, alerts)
<1> DEFINE base == [usage |-> table, totals |-> ledgers]
           db1 == StoreMinute(base, batch[1])
           new1 == Added(records, batch[1])
<1>1. DOMAIN batch \in {{}, {1}, {1, 2}} /\ \A k \in DOMAIN batch : batch[k] \in Minute
    BY BatchShape
<1>2. CASE DOMAIN batch = {}
  <2>1. db = base /\ new = records
    BY <1>1, <1>2, StoreFold, AddFold
  <2> QED BY <2>1
<1>3. ASSUME 1 \in DOMAIN batch
      PROVE  /\ db1 = [usage |-> db1.usage, totals |-> db1.totals]
             /\ db1.usage \in Table /\ IsLedgers(db1.totals) /\ new1 \in Table
             /\ DbCounts(db1.usage, db1.totals, new1)
             /\ \A a : MarkedIn(ledgers, a) <=> MarkedIn(db1.totals, a)
             /\ \A alerts : MarksIn(ledgers, alerts) => MarksIn(db1.totals, alerts)
    BY <1>1, <1>3, StoreMinuteKeeps
<1>4. CASE DOMAIN batch = {1}
  <2>1. db = db1 /\ new = new1
    BY <1>1, <1>4, StoreFold, AddFold
  <2> HIDE DEF db1, new1
  <2> QED BY <1>3, <1>4, <2>1
<1>5. CASE DOMAIN batch = {1, 2}
  <2> HIDE DEF db1, new1
  <2> DEFINE db2 == StoreMinute([usage |-> db1.usage, totals |-> db1.totals], batch[2])
             new2 == Added(new1, batch[2])
  <2>1. /\ db1.usage \in Table /\ IsLedgers(db1.totals) /\ new1 \in Table
        /\ DbCounts(db1.usage, db1.totals, new1) /\ batch[2] \in Minute
    BY <1>1, <1>3, <1>5
  <2>2. /\ db2.usage \in Table /\ IsLedgers(db2.totals) /\ new2 \in Table
        /\ DbCounts(db2.usage, db2.totals, new2)
        /\ \A a : MarkedIn(db1.totals, a) <=> MarkedIn(db2.totals, a)
        /\ \A alerts : MarksIn(db1.totals, alerts) => MarksIn(db2.totals, alerts)
    BY <2>1, StoreMinuteKeeps
  <2>3. db = StoreMinute(db1, batch[2]) /\ new = new2
    BY <1>1, <1>5, StoreFold, AddFold DEF db1, new1
  <2>4. db = db2
    BY <1>3, <1>5, <2>3
  <2> HIDE DEF db2, new2
  <2> QED BY <1>3, <1>5, <2>2, <2>3, <2>4
<1> QED BY <1>1, <1>2, <1>4, <1>5

-----------------------------------------------------------------------------
(* Every step.                                                             *)

IInv == Types /\ Counts /\ Once /\ Announcing

LEMMA RuleTyped ==
    Types => rule.period \in Periods /\ rule.warn \subseteq 1 .. 100
BY RulesAssumption DEF Types, DbTypes

\* Steps that leave the database and the alerts alone.
LEMMA SameDatabase ==
    ASSUME IInv, today' \in Days, steps' \in 0 .. MaxSteps, setBacks' \in 0 .. MaxSetBacks,
           UNCHANGED <<databaseVars, archive, phase, outbox, recorded, announced,
                       repeated, past>>
    PROVE  IInv'
BY DEF IInv, databaseVars, Types, DbTypes, AtMostOne, Counts, DbCounts, Once, Announcing

LEMMA RoundStoredKeeps ==
    ASSUME IInv, NEW batch \in Batches, RoundStored(batch)
    PROVE  IInv'
<1> USE DEF IInv
<1> DEFINE db == StoreAll([usage |-> usage, totals |-> totals], batch)
<1>1. /\ usage' = db.usage /\ totals' = db.totals
      /\ recorded' = AddAll(recorded, batch)
      /\ phase' = "applied" /\ Idle
      /\ UNCHANGED <<today, rule, archive, outbox, steps, setBacks, announced,
                     repeated, past>>
    BY DEF RoundStored, StoreAll, AddAll
<1> HIDE DEF db
<1>2. /\ usage' \in Table /\ IsLedgers(totals') /\ recorded' \in Table
      /\ DbCounts(usage', totals', recorded')
      /\ \A a : MarkedIn(totals, a) <=> MarkedIn(totals', a)
      /\ \A alerts : MarksIn(totals, alerts) => MarksIn(totals', alerts)
    BY <1>1, BatchKeeps DEF Types, DbTypes, Counts, db
<1>3. Types'
    BY <1>1, <1>2 DEF Types, DbTypes
<1>4. Counts'
    BY <1>1, <1>2 DEF Counts, DbCounts
<1>5. Once'
    BY <1>1, <1>2 DEF Once, Idle
<1>6. Announcing'
    BY <1>1, <1>2 DEF Announcing
<1> QED BY <1>3, <1>4, <1>5, <1>6

LEMMA ViewKeeps ==
    ASSUME IInv, View
    PROVE  IInv'
<1> USE DEF IInv
<1>1. /\ totals' = ensurePeriods(totals, usage, today)
      /\ UNCHANGED <<today, usage, rule, archive, phase, outbox, steps, setBacks,
                     recorded, announced, repeated, past>>
    BY DEF View
<1>2. /\ IsLedgers(totals') /\ DbCounts(usage, totals', recorded)
      /\ \A a : MarkedIn(totals, a) <=> MarkedIn(totals', a)
      /\ \A alerts : MarksIn(totals, alerts) => MarksIn(totals', alerts)
    BY <1>1, EnsureKeeps, EnsureCounts, EnsureMarks DEF Types, DbTypes, Counts
<1>3. Types'
    BY <1>1, <1>2 DEF Types, DbTypes
<1>4. Counts'
    BY <1>1, <1>2 DEF Counts, DbCounts
<1>5. Once' /\ Announcing'
    BY <1>1, <1>2 DEF Once, Announcing
<1> QED BY <1>3, <1>4, <1>5

\* Marking keeps the count and the older marks.
LEMMA MarkFacts ==
    ASSUME NEW ledger \in Ledger, NEW saved, saved \subseteq 0 .. 100
    PROVE  /\ Mark(ledger, saved) \in Ledger
           /\ Mark(ledger, saved).used = ledger.used
           /\ Mark(ledger, saved).notified
                = ledger.notified \cup (saved \ {LimitReached})
           /\ Mark(ledger, saved).limit <=> ledger.limit \/ LimitReached \in saved
<1> DEFINE notified == ledger.notified \cup (saved \ {LimitReached})
           limit == ledger.limit \/ LimitReached \in saved
<1>1. Mark(ledger, saved) = [ledger EXCEPT !.notified = notified, !.limit = limit]
    BY DEF Mark
<1>2. notified \subseteq 1 .. 100 /\ limit \in BOOLEAN
  <2>1. notified \subseteq 1 .. 100
    <3>1. ledger.notified \subseteq 1 .. 100
      BY DEF Ledger
    <3>2. saved \ {LimitReached} \subseteq 1 .. 100
      BY DEF LimitReached
    <3> QED BY <3>1, <3>2
  <2>2. limit \in BOOLEAN
    OBVIOUS
  <2> QED BY <2>1, <2>2
<1> HIDE DEF notified, limit
<1>3. Mark(ledger, saved) \in Ledger
    BY <1>1, <1>2 DEF Ledger
<1>4. Mark(ledger, saved).used = ledger.used
    BY <1>1 DEF Ledger
<1>5. Mark(ledger, saved).notified = notified
    BY <1>1 DEF Ledger
<1>6. Mark(ledger, saved).limit = limit
    BY <1>1 DEF Ledger
<1> QED BY <1>3, <1>4, <1>5, <1>6 DEF notified, limit

LEMMA EvaluateKeeps ==
    ASSUME IInv, Evaluate
    PROVE  IInv'
<1> USE DEF IInv
<1> DEFINE key == periodKeyFor(rule.period, today)
           ensured == ensurePeriods(totals, usage, today)
<1>1. PICK saved \in SUBSET Due(ensured[key]) :
              /\ totals' = [ensured EXCEPT ![key] = Mark(@, saved)]
              /\ outbox' = {<<key, w>> : w \in saved}
    BY DEF Evaluate
<1>2. /\ outbox = {} /\ phase' = "evaluated"
      /\ UNCHANGED <<today, usage, rule, archive, steps, setBacks, recorded,
                     announced, repeated, past>>
    BY DEF Evaluate, Once
<1>3. /\ IsLedgers(ensured) /\ DbCounts(usage, ensured, recorded)
      /\ \A a : MarkedIn(totals, a) <=> MarkedIn(ensured, a)
      /\ \A alerts : MarksIn(totals, alerts) => MarksIn(ensured, alerts)
    BY EnsureKeeps, EnsureCounts, EnsureMarks DEF Types, DbTypes, Counts
<1>4. key \in DOMAIN ensured /\ key \in PeriodKeys
  <2>1. today \in Days /\ rule.period \in Periods
    BY RuleTyped DEF Types
  <2>2. key \in KeysAt(today)
    BY <2>1 DEF KeysAt
  <2> QED BY <2>1, <2>2, KeyFacts DEF ensurePeriods
<1> HIDE DEF ensured, key
<1>5. saved \subseteq 0 .. 100
      /\ \A w \in saved : w \notin ensured[key].notified
                          /\ (w = LimitReached => ~ensured[key].limit)
  <2>1. ensured[key].notified \subseteq 1 .. 100
    BY <1>3, <1>4 DEF IsLedgers, Ledger
  <2> QED BY <1>1, <2>1, RuleTyped DEF Due, LimitReached
<1>6. /\ DOMAIN totals' = DOMAIN ensured
      /\ \A k \in DOMAIN ensured \ {key} : totals'[k] = ensured[k]
      /\ totals'[key] = Mark(ensured[key], saved)
    BY <1>1, <1>4
<1>7. /\ Mark(ensured[key], saved) \in Ledger
      /\ Mark(ensured[key], saved).used = ensured[key].used
      /\ Mark(ensured[key], saved).notified
            = ensured[key].notified \cup (saved \ {LimitReached})
      /\ Mark(ensured[key], saved).limit <=> ensured[key].limit \/ LimitReached \in saved
  <2>1. ensured[key] \in Ledger
    BY <1>3, <1>4 DEF IsLedgers
  <2> QED BY <1>5, <2>1, MarkFacts
<1>8. IsLedgers(totals')
    BY <1>3, <1>4, <1>6, <1>7 DEF IsLedgers
<1>9. \A k \in DOMAIN ensured : totals'[k].used = ensured[k].used
    BY <1>6, <1>7
<1>10. DbCounts(usage, totals', recorded)
    BY <1>3, <1>6, <1>9 DEF DbCounts, Within, Exact
<1>11. Types'
    BY <1>1, <1>2, <1>4, <1>5, <1>8 DEF Types, DbTypes, Alerts
<1>12. Counts'
    BY <1>2, <1>10 DEF Counts, DbCounts
<1>13. \A a : MarkedIn(ensured, a) => MarkedIn(totals', a)
    BY <1>6, <1>7 DEF MarkedIn
<1>14. \A a \in outbox' : MarkedIn(totals', a) /\ ~MarkedIn(ensured, a)
  <2> SUFFICES ASSUME NEW w \in saved
               PROVE  MarkedIn(totals', <<key, w>>) /\ ~MarkedIn(ensured, <<key, w>>)
    BY <1>1
  <2> QED BY <1>4, <1>5, <1>6, <1>7 DEF MarkedIn
<1>15. Once'
  <2>1. \A a \in announced : MarkedIn(ensured, a)
    BY <1>3 DEF Once
  <2> QED BY <1>2, <1>13, <1>14, <2>1 DEF Once
<1>16. Announcing'
  <2> SUFFICES ASSUME "crashed" \notin past
               PROVE  MarksIn(totals', announced \cup outbox')
    BY <1>2 DEF Announcing
  <2>1. MarksIn(ensured, announced)
    BY <1>2, <1>3 DEF Announcing
  <2>2. \A w \in saved : <<key, w>> \in outbox'
    BY <1>1
  <2> QED BY <1>4, <1>6, <1>7, <2>1, <2>2 DEF MarksIn
<1> QED BY <1>11, <1>12, <1>15, <1>16

LEMMA EmitKeeps ==
    ASSUME IInv, Emit
    PROVE  IInv'
<1> USE DEF IInv
<1>1. /\ repeated' = repeated \cup (announced \cap outbox)
      /\ announced' = announced \cup outbox
      /\ outbox' = {} /\ phase' = "idle"
      /\ UNCHANGED <<today, databaseVars, archive, steps, setBacks, recorded, past>>
    BY DEF Emit
<1>2. Types'
    BY <1>1 DEF Types, DbTypes, databaseVars
<1>3. Counts'
    BY <1>1 DEF Counts, DbCounts, databaseVars
<1>4. Once'
    BY <1>1 DEF Once, databaseVars
<1>5. Announcing'
  <2>1. announced' \cup outbox' = announced \cup outbox
    BY <1>1
  <2> QED BY <1>1, <2>1 DEF Announcing, databaseVars
<1> QED BY <1>2, <1>3, <1>4, <1>5

LEMMA SaveKeeps ==
    ASSUME IInv, NEW new \in Rules, Save(new)
    PROVE  IInv'
<1> USE DEF IInv
<1> DEFINE ensured == ensurePeriods(totals, usage, today)
<1>1. /\ rule' = new /\ steps' \in 0 .. MaxSteps /\ Idle
      /\ totals' = IF new.cap # rule.cap THEN Unmarked(ensured) ELSE ensured
      /\ announced' = IF new.cap # rule.cap THEN {} ELSE announced
      /\ UNCHANGED <<today, usage, archive, phase, outbox, setBacks, recorded,
                     repeated, past>>
    BY BoundsAssumption DEF Save, Step, Types
<1>2. /\ IsLedgers(ensured) /\ DbCounts(usage, ensured, recorded)
      /\ \A a : MarkedIn(totals, a) <=> MarkedIn(ensured, a)
      /\ \A alerts : MarksIn(totals, alerts) => MarksIn(ensured, alerts)
    BY EnsureKeeps, EnsureCounts, EnsureMarks DEF Types, DbTypes, Counts
<1> HIDE DEF ensured
<1>3. CASE new.cap = rule.cap
  <2>1. totals' = ensured /\ announced' = announced
    BY <1>1, <1>3
  <2>2. Types'
    BY <1>1, <1>2, <2>1 DEF Types, DbTypes
  <2>3. Counts'
    BY <1>1, <1>2, <2>1 DEF Counts, DbCounts
  <2>4. Once' /\ Announcing'
    BY <1>1, <1>2, <2>1 DEF Once, Announcing
  <2> QED BY <2>2, <2>3, <2>4
<1>4. CASE new.cap # rule.cap
  <2>1. totals' = Unmarked(ensured) /\ announced' = {}
    BY <1>1, <1>4
  <2>2. /\ DOMAIN totals' = DOMAIN ensured
        /\ \A k \in DOMAIN ensured :
              totals'[k] = [ensured[k] EXCEPT !.notified = {}, !.limit = FALSE]
    BY <2>1 DEF Unmarked
  <2>3. \A k \in DOMAIN ensured : /\ totals'[k] \in Ledger
                                  /\ totals'[k].used = ensured[k].used
                                  /\ totals'[k].notified = {}
                                  /\ ~totals'[k].limit
    <3> SUFFICES ASSUME NEW k \in DOMAIN ensured
                 PROVE  /\ totals'[k] \in Ledger
                        /\ totals'[k].used = ensured[k].used
                        /\ totals'[k].notified = {}
                        /\ ~totals'[k].limit
      OBVIOUS
    <3>1. ensured[k] \in Ledger
      BY <1>2 DEF IsLedgers
    <3>2. totals'[k] = [ensured[k] EXCEPT !.notified = {}, !.limit = FALSE]
      BY <2>2
    <3> QED BY <3>1, <3>2 DEF Ledger
  <2>4. IsLedgers(totals')
    BY <1>2, <2>2, <2>3 DEF IsLedgers
  <2>5. Types'
    BY <1>1, <2>1, <2>4 DEF Types, DbTypes
  <2>6. DbCounts(usage, totals', recorded)
    BY <1>2, <2>2, <2>3 DEF DbCounts, Within, Exact
  <2>7. Counts'
    BY <1>1, <2>6 DEF Counts, DbCounts
  <2>8. outbox = {}
    BY <1>1 DEF Once, Idle
  <2>9. Once'
    BY <1>1, <2>1, <2>8 DEF Once
  <2>10. Announcing'
    BY <1>1, <2>2, <2>3 DEF Announcing, MarksIn
  <2> QED BY <2>5, <2>7, <2>9, <2>10
<1> QED BY <1>3, <1>4

LEMMA ClearUsageKeeps ==
    ASSUME IInv, ClearUsage
    PROVE  IInv'
<1> USE DEF IInv
<1>1. /\ usage' = NoRecords /\ recorded' = NoRecords /\ announced' = {}
      /\ totals' = [key \in DOMAIN totals |->
                      [used |-> 0, notified |-> {}, limit |-> FALSE]]
      /\ steps' \in 0 .. MaxSteps /\ Idle
      /\ UNCHANGED <<today, rule, archive, phase, outbox, setBacks, repeated, past>>
    BY BoundsAssumption DEF ClearUsage, Step, Types
<1>2. NoRecords \in Table
    BY DEF NoRecords, Table
<1>3. [used |-> 0, notified |-> {}, limit |-> FALSE] \in Ledger
    BY DEF Ledger
<1>4. /\ DOMAIN totals' = DOMAIN totals
      /\ \A k \in DOMAIN totals : totals'[k] = [used |-> 0, notified |-> {}, limit |-> FALSE]
    BY <1>1
<1>5. \A k \in DOMAIN totals : totals'[k].used = 0 /\ totals'[k].notified = {}
    BY <1>4
<1>6. \A k \in DOMAIN totals : ~totals'[k].limit
    BY <1>4
<1>7. IsLedgers(totals')
    BY <1>3, <1>4 DEF IsLedgers, Types, DbTypes
<1>8. Types'
    BY <1>1, <1>2, <1>7 DEF Types, DbTypes
<1>9. DbCounts(NoRecords, totals', NoRecords)
    BY <1>4, <1>5, WifiNone DEF DbCounts, Within, Exact, NoRecords
<1>10. Counts'
    BY <1>1, <1>9 DEF Counts, DbCounts
<1>11. Once'
    BY <1>1 DEF Once, Idle
<1>12. Announcing'
    BY <1>1, <1>4, <1>5, <1>6 DEF Announcing, MarksIn
<1> QED BY <1>8, <1>10, <1>11, <1>12

LEMMA PruneUsageKeeps ==
    ASSUME IInv, NEW cutoff \in 1 .. today, PruneUsage(cutoff)
    PROVE  IInv'
<1> USE DEF IInv
<1>1. /\ usage' = [n \in Networks |-> [t \in Days |->
                      IF t < cutoff THEN 0 ELSE usage[n][t]]]
      /\ past' = past \cup {"pruned"}
      /\ UNCHANGED <<today, totals, rule, archive, phase, outbox, steps, setBacks,
                     recorded, announced, repeated>>
    BY DEF PruneUsage
<1>2. \A n \in Networks : \A t \in Days :
            usage[n][t] \in Nat /\ recorded[n][t] \in Nat /\ usage[n][t] <= recorded[n][t]
    BY DEF Types, DbTypes, Table, Counts, DbCounts, Within
<1>3. usage' \in Table
    BY <1>1, <1>2 DEF Table
<1>4. \A n \in Networks : \A t \in Days : usage'[n][t] <= recorded[n][t]
    BY <1>1, <1>2
<1>5. Types'
    BY <1>1, <1>3 DEF Types, DbTypes, Past
<1>6. Counts'
    BY <1>1, <1>4 DEF Counts, DbCounts, Within
<1>7. Once' /\ Announcing'
    BY <1>1 DEF Once, Announcing
<1> QED BY <1>5, <1>6, <1>7

LEMMA BackupKeeps ==
    ASSUME IInv, Backup
    PROVE  IInv'
<1> USE DEF IInv
<1> DEFINE saved == [usage |-> usage, totals |-> totals, rule |-> rule,
                     recorded |-> recorded, announced |-> announced]
<1>1. /\ archive' = {saved} /\ steps' \in 0 .. MaxSteps /\ Idle
      /\ UNCHANGED <<today, usage, totals, rule, phase, outbox, setBacks, recorded,
                     announced, repeated, past>>
    BY BoundsAssumption DEF Backup, Step, Types, databaseVars
<1>2. /\ saved.usage = usage /\ saved.totals = totals /\ saved.rule = rule
      /\ saved.recorded = recorded /\ saved.announced = announced
    OBVIOUS
<1> HIDE DEF saved
<1>3. Types'
    BY <1>1, <1>2 DEF Types, AtMostOne, DbTypes
<1>4. Counts'
    BY <1>1, <1>2 DEF Counts, DbCounts
<1>5. outbox = {}
    BY <1>1 DEF Once, Idle
<1>6. Once'
    BY <1>1, <1>2, <1>5 DEF Once
<1>7. Announcing'
  <2>1. announced \cup outbox = announced
    BY <1>5
  <2> QED BY <1>1, <1>2, <2>1 DEF Announcing
<1> QED BY <1>3, <1>4, <1>6, <1>7

LEMMA RestoreKeeps ==
    ASSUME IInv, Restore
    PROVE  IInv'
<1> USE DEF IInv
<1>1. /\ steps' \in 0 .. MaxSteps /\ Idle
      /\ UNCHANGED <<today, archive, phase, outbox, setBacks, repeated, past>>
    BY BoundsAssumption DEF Restore, Step, Types
<1>2. PICK saved \in archive :
          /\ usage' = saved.usage
          /\ totals' = saved.totals
          /\ rule' = saved.rule
          /\ recorded' = saved.recorded
          /\ announced' = saved.announced
    BY DEF Restore
<1>3. Types'
    BY <1>1, <1>2 DEF Types, DbTypes
<1>4. Counts'
    BY <1>1, <1>2 DEF Counts, DbCounts
<1>5. outbox = {}
    BY <1>1 DEF Once, Idle
<1>6. Once'
    BY <1>1, <1>2, <1>5 DEF Once
<1>7. Announcing'
  <2>1. announced' \cup outbox' = announced'
    BY <1>1, <1>5
  <2> QED BY <1>1, <1>2, <2>1 DEF Announcing
<1> QED BY <1>3, <1>4, <1>6, <1>7

LEMMA IInvStep == IInv /\ [Next]_vars => IInv'
<1> SUFFICES ASSUME IInv, [Next]_vars PROVE IInv'
    OBVIOUS
<1>1. today \in Days /\ phase \in {"idle", "applied", "evaluated"}
      /\ steps \in 0 .. MaxSteps /\ setBacks \in 0 .. MaxSetBacks
    BY DEF IInv, Types
<1>2. CASE UNCHANGED vars
    BY <1>1, <1>2, SameDatabase DEF vars
<1>3. CASE NextDay
  <2>1. today' \in Days
    BY <1>1, <1>3, CalendarAssumption DEF NextDay, Days
  <2> QED BY <1>1, <1>3, <2>1, SameDatabase DEF NextDay
<1>4. ASSUME NEW t \in Days, SetClockBack(t) PROVE IInv'
  <2>1. setBacks' \in 0 .. MaxSetBacks
    BY <1>1, <1>4, BoundsAssumption DEF SetClockBack
  <2> QED BY <1>1, <1>4, <2>1, SameDatabase DEF SetClockBack
<1>5. CASE Crash
  <2>1. steps' \in 0 .. MaxSteps
    BY <1>1, <1>5, BoundsAssumption DEF Crash, Step
  <2>2. /\ past' = past \cup {"crashed"} /\ phase' = "idle" /\ outbox' = {}
        /\ UNCHANGED <<today, databaseVars, archive, setBacks, recorded, announced,
                       repeated>>
    BY <1>5 DEF Crash
  <2>3. "crashed" \notin past' => FALSE
    BY <2>2
  <2>4. Types' /\ Counts' /\ Once' /\ Announcing'
    BY <1>1, <2>1, <2>2, <2>3 DEF IInv, Types, DbTypes, Past, Counts, DbCounts, Once,
       Announcing, databaseVars
  <2> QED BY <2>4 DEF IInv
<1> QED BY <1>2, <1>3, <1>4, <1>5, RoundStoredKeeps, ViewKeeps, EvaluateKeeps,
           EmitKeeps, SaveKeeps, ClearUsageKeeps, PruneUsageKeeps, BackupKeeps,
           RestoreKeeps DEF Next

LEMMA InitIInv == Init => IInv
<1> SUFFICES ASSUME Init PROVE IInv
    OBVIOUS
<1>1. NoRecords \in Table
    BY DEF NoRecords, Table
<1>2. Types
    BY <1>1, CalendarAssumption, BoundsAssumption
       DEF Init, Types, DbTypes, IsLedgers, Days, AtMostOne
<1>3. Counts
    BY DEF Init, Counts, DbCounts, Within, Exact, NoRecords
<1>4. Once /\ Announcing
    BY DEF Init, Once, Announcing, MarksIn
<1> QED BY <1>2, <1>3, <1>4 DEF IInv

THEOREM Invariance == Spec => []IInv
BY InitIInv, IInvStep, PTL DEF Spec

\* Every variable of the total quota keeps its type, and there is at most one
\* archive.
THEOREM TypeCorrect == Spec => []TypeOK
<1>1. IInv => TypeOK
    BY AtMostOneCardinality DEF IInv, Types, DbTypes, IsLedgers, Alerts, TypeOK
<1> QED BY <1>1, Invariance, PTL

\* However the clock moves, whatever the batches straddle and whichever backup
\* is restored, a ledger holds exactly what the Wi-Fi networks recorded in its
\* period, and never more once days were pruned.
THEOREM TotalsExact == Spec => []TotalExact
<1>1. IInv => TotalExact
    BY DEF IInv, Counts, DbCounts, Within, Exact, TotalExact
<1> QED BY <1>1, Invariance, PTL

\* No crash, failing mark, changed period or clock set back repeats an alert.
THEOREM AlertsOnce == Spec => []AnnouncedOnce
<1>1. IInv => AnnouncedOnce
    BY DEF IInv, Once, AnnouncedOnce
<1> QED BY <1>1, Invariance, PTL

\* No alert that was marked is lost while the backend runs.
THEOREM NoAlertLost == Spec => []MarkedIsAnnounced
<1>1. IInv => MarkedIsAnnounced
  <2>1. Once /\ Idle => announced \cup outbox = announced
    BY DEF Once, Idle
  <2> QED BY <2>1 DEF IInv, Announcing, MarksIn, MarkedIsAnnounced
<1> QED BY <1>1, Invariance, PTL

===============================================================================
