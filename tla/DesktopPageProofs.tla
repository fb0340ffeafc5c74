-------------------------- MODULE DesktopPageProofs ---------------------------
(***************************************************************************)
(* What the desktop's page shows, proved for every set of days,            *)
(* applications, proxies, processes and themes and every bound: the rows   *)
(* of a range with the estimates of proxies (PageRows), the usage of       *)
(* applications from the helper's counters to what is stored (AppCapture), *)
(* the range that the user selected (PageRange) and the icons (AppIcons,   *)
(* LinuxIcons).                                                            *)
(***************************************************************************)
EXTENDS MCDesktop, TLAPS, Sequences, WellFoundedInduction

-----------------------------------------------------------------------------
\* The lemmas about sums do not depend on the calendar.
Sums == INSTANCE QuotaLemmas WITH MaxDay <- 1, DaysPerMonth <- 1

LEMMA FiniteSums ==
    ASSUME NEW S, IsFiniteSet(S)
    PROVE  Sums!IsFiniteSet(S)
  BY DEF Sums!IsFiniteSet, IsFiniteSet

\* The sum of a field of the rows of a set.
Field(f, list) == [r \in list |-> r[f]]
FieldSum(f, list) == Sums!Sum(Field(f, list), list)
Counted(list) == Sums!IsFiniteSet(list) /\ \A r \in list : r["rx"] \in Nat /\ r["tx"] \in Nat
Totals(list) == [rx |-> FieldSum("rx", list), tx |-> FieldSum("tx", list)]

RxEquation(list, f) == f = [s \in SUBSET list |-> IF s = {} THEN 0
                                                  ELSE LET x == CHOOSE x \in s : TRUE IN x.rx + f[s \ {x}]]
TxEquation(list, f) == f = [s \in SUBSET list |-> IF s = {} THEN 0
                                                  ELSE LET x == CHOOSE x \in s : TRUE IN x.tx + f[s \ {x}]]

LEMMA TotalUnfolds ==
    ASSUME NEW list
    PROVE  Rows!Total(list) = [rx |-> (CHOOSE f : RxEquation(list, f))[list], tx |-> (CHOOSE f : TxEquation(list, f))[list]]
  BY DEF Rows!Total, Rows!MapThenSumSet, Rows!MapThenFoldSet, RxEquation, TxEquation

LEMMA FieldEquation ==
    ASSUME NEW list, NEW f \in {"rx", "tx"}, Sums!IsFiniteSet(list), NEW h, Sums!Equation(Field(f, list), list, h)
    PROVE  FieldSum(f, list) = h[list]
  <1> DEFINE t == Field(f, list)
             g == CHOOSE g : Sums!Equation(t, list, g)
  <1>1. FieldSum(f, list) = g[list]
    BY Sums!SumUnfolds DEF FieldSum
  <1>2. Sums!Equation(t, list, g)
    BY Sums!EquationHasSolution
  <1> HIDE DEF g, t
  <1>3. g[list] = h[list]
    BY <1>2, Sums!EquationsAgree DEF t
  <1>4. QED
    BY <1>1, <1>3

LEMMA TotalIsSum ==
    ASSUME NEW list, Sums!IsFiniteSet(list)
    PROVE  Rows!Total(list) = Totals(list)
  <1> DEFINE fx == CHOOSE f : RxEquation(list, f)
             ft == CHOOSE f : TxEquation(list, f)
             tx == Field("rx", list)
             tt == Field("tx", list)
  <1>1. ASSUME NEW h
        PROVE  (RxEquation(list, h) <=> Sums!Equation(tx, list, h)) /\ (TxEquation(list, h) <=> Sums!Equation(tt, list, h))
    <2>1. \A s \in SUBSET list : s # {} => tx[Sums!Chosen(s)] = Sums!Chosen(s).rx /\ tt[Sums!Chosen(s)] = Sums!Chosen(s).tx
      BY Sums!ChosenIn DEF Field
    <2>2. QED
      BY <2>1 DEF RxEquation, TxEquation, Sums!Equation, Sums!Body, Sums!Chosen
  <1>2. (\E h : Sums!Equation(tx, list, h)) /\ (\E h : Sums!Equation(tt, list, h))
    BY Sums!EquationHasSolution
  <1>3. Sums!Equation(tx, list, fx) /\ Sums!Equation(tt, list, ft)
    BY <1>1, <1>2
  <1> HIDE DEF fx, ft
  <1>4. fx[list] = FieldSum("rx", list) /\ ft[list] = FieldSum("tx", list)
    BY <1>3, FieldEquation
  <1>5. QED
    BY <1>4, TotalUnfolds DEF fx, ft, Totals

LEMMA FieldNat ==
    ASSUME NEW list, Counted(list), NEW f \in {"rx", "tx"}
    PROVE  FieldSum(f, list) \in Nat /\ \A r \in list : Field(f, list)[r] \in Nat
  <1>1. \A r \in list : Field(f, list)[r] \in Nat
    BY DEF Field, Counted
  <1>2. QED
    BY <1>1, Sums!SumNat DEF FieldSum, Counted

LEMMA FieldSumIs ==
    ASSUME NEW list, Counted(list), NEW f \in {"rx", "tx"}, NEW t, \A r \in list : t[r] = r[f]
    PROVE  Sums!Sum(t, list) = FieldSum(f, list)
  <1> DEFINE u == Field(f, list)
  <1>1. \A r \in list : u[r] \in Nat /\ t[r] = u[r]
    BY FieldNat DEF Field
  <1>2. list \subseteq list /\ \A r \in list \ list : u[r] = 0
    OBVIOUS
  <1> HIDE DEF u
  <1>3. Sums!Sum(t, list) = Sums!Sum(u, list)
    BY <1>1, <1>2, Sums!SumSame DEF Counted
  <1>4. QED
    BY <1>3 DEF u, FieldSum

LEMMA CountedSubset ==
    ASSUME NEW list, Counted(list), NEW part \in SUBSET list
    PROVE  Counted(part)
  BY Sums!FS_Subset DEF Counted

LEMMA FieldUnion ==
    ASSUME NEW A, NEW B, Counted(A \cup B), A \cap B = {}, NEW f \in {"rx", "tx"}
    PROVE  FieldSum(f, A \cup B) = FieldSum(f, A) + FieldSum(f, B)
  <1> DEFINE t == Field(f, A \cup B)
  <1>1. Counted(A) /\ Counted(B)
    BY CountedSubset
  <1>2. \A r \in A \cup B : t[r] \in Nat /\ t[r] = r[f]
    BY FieldNat DEF Field
  <1> HIDE DEF t
  <1>3. Sums!Sum(t, A \cup B) = Sums!Sum(t, A) + Sums!Sum(t, B)
    BY <1>1, <1>2, Sums!SumUnion DEF Counted
  <1>4. Sums!Sum(t, A) = FieldSum(f, A) /\ Sums!Sum(t, B) = FieldSum(f, B)
    BY <1>1, <1>2, FieldSumIs
  <1>5. QED
    BY <1>3, <1>4 DEF t, FieldSum

LEMMA TotalUnion ==
    ASSUME NEW A, NEW B, Counted(A \cup B), A \cap B = {}
    PROVE  Rows!Total(A \cup B) = Rows!Plus(Rows!Total(A), Rows!Total(B))
  <1>1. Counted(A) /\ Counted(B)
    BY CountedSubset
  <1>2. Rows!Total(A \cup B) = Totals(A \cup B) /\ Rows!Total(A) = Totals(A) /\ Rows!Total(B) = Totals(B)
    BY <1>1, TotalIsSum DEF Counted
  <1>3. FieldSum("rx", A \cup B) = FieldSum("rx", A) + FieldSum("rx", B)
        /\ FieldSum("tx", A \cup B) = FieldSum("tx", A) + FieldSum("tx", B)
    BY FieldUnion
  <1>4. QED
    BY <1>2, <1>3 DEF Totals, Rows!Plus

\* The rows that are added up to those of a grouping, and their key.
RecordsIn(list, q, grouping) ==
    {r \in list : Rows!recordInRange(r, q) /\ (grouping \in {"minute", "hour"} => r.time # -1)}
KeyOf(r, grouping) == <<Rows!Bucket(r, grouping), r.app, r.estimated>>

\* The rows of a grouping have the bytes of those they were made of.
LEMMA GroupedTotal ==
    ASSUME NEW list, NEW q, NEW grouping, Counted(RecordsIn(list, q, grouping))
    PROVE  Rows!Total(Rows!applicationRows(list, q, grouping)) = Rows!Total(RecordsIn(list, q, grouping))
  <1> DEFINE S == RecordsIn(list, q, grouping)
             k == [r \in S |-> KeyOf(r, grouping)]
             K == {k[r] : r \in S}
             Part(x) == {r \in S : k[r] = x}
             g == [x \in K |-> [key |-> x, rx |-> Rows!Total(Part(x)).rx, tx |-> Rows!Total(Part(x)).tx]]
             out == {g[x] : x \in K}
  <1>1. Rows!applicationRows(list, q, grouping) = out
    <2> DEFINE Made(x) == [key |-> x, rx |-> Rows!Total({r \in S : KeyOf(r, grouping) = x}).rx,
                                      tx |-> Rows!Total({r \in S : KeyOf(r, grouping) = x}).tx]
    <2>1. \A x : Part(x) = {r \in S : KeyOf(r, grouping) = x}
      OBVIOUS
    <2>2. K = {KeyOf(r, grouping) : r \in S}
      OBVIOUS
    <2>3. Rows!applicationRows(list, q, grouping) = {Made(x) : x \in {KeyOf(r, grouping) : r \in S}}
      BY DEF Rows!applicationRows, RecordsIn, KeyOf
    <2>4. \A x \in K : g[x] = Made(x)
      <3> HIDE DEF S, k, K
      <3>1. \A x \in K : Rows!Total(Part(x)) = Rows!Total({r \in S : KeyOf(r, grouping) = x})
        BY <2>1
      <3> HIDE DEF Part
      <3>2. QED
        BY <3>1
    <2> HIDE DEF S, k, K, Made, g
    <2>5. QED
      BY <2>2, <2>3, <2>4
  <1>2. Sums!IsFiniteSet(S) /\ Sums!IsFiniteSet(K) /\ Sums!IsFiniteSet(out)
    <2>1. Sums!IsFiniteSet(S)
      BY DEF Counted
    <2> HIDE DEF S, k
    <2>2. Sums!IsFiniteSet(K)
      BY <2>1, Sums!ImageFinite
    <2> HIDE DEF K, g
    <2>3. Sums!IsFiniteSet(out)
      BY <2>2, Sums!ImageFinite
    <2>4. QED
      BY <2>1, <2>2, <2>3
  <1>3. ASSUME NEW x \in K
        PROVE  Counted(Part(x)) /\ Rows!Total(Part(x)) = Totals(Part(x))
    BY CountedSubset, TotalIsSum DEF Counted
  <1>4. ASSUME NEW x \in K
        PROVE  g[x] = [key |-> x, rx |-> FieldSum("rx", Part(x)), tx |-> FieldSum("tx", Part(x))]
    <2> HIDE DEF Part, K
    <2>1. g[x] = [key |-> x, rx |-> Rows!Total(Part(x)).rx, tx |-> Rows!Total(Part(x)).tx]
      BY <1>4
    <2>2. Rows!Total(Part(x)) = [rx |-> FieldSum("rx", Part(x)), tx |-> FieldSum("tx", Part(x))]
      BY <1>3, <1>4 DEF Totals
    <2>3. QED
      BY <2>1, <2>2
  <1>5. \A x, y \in K : g[x] = g[y] => x = y
    BY <1>4
  <1>6. ASSUME NEW f \in {"rx", "tx"}
        PROVE  FieldSum(f, out) = FieldSum(f, S)
    <2> DEFINE t == [x \in K |-> FieldSum(f, Part(x))]
               u == Field(f, out)
               w == Field(f, S)
    <2>1. \A x \in K : t[x] \in Nat
      BY <1>3, FieldNat
    <2>2. \A x \in K : u[g[x]] = t[x]
      <3>1. ASSUME NEW x \in K
            PROVE  g[x] \in out /\ g[x][f] = FieldSum(f, Part(x)) /\ t[x] = FieldSum(f, Part(x))
        <4> HIDE DEF g, Part, K
        <4> DEFINE a == FieldSum("rx", Part(x))
                   b == FieldSum("tx", Part(x))
        <4>0. g[x] = [key |-> x, rx |-> a, tx |-> b]
          BY <1>4, <3>1
        <4> HIDE DEF a, b
        <4>1. g[x].rx = a /\ g[x].tx = b
          BY <4>0
        <4>2. g[x][f] = FieldSum(f, Part(x))
          BY <4>1 DEF a, b
        <4>3. QED
          BY <3>1, <4>2
      <3> HIDE DEF g, t, out, K
      <3>2. QED
        BY <3>1 DEF Field
    <2> HIDE DEF g
    <2>3. Sums!Sum(u, out) = Sums!Sum(t, K)
      <3> HIDE DEF t, u, K
      <3>1. QED
        BY <1>2, <1>5, <2>1, <2>2, Sums!SumImage
    <2>4. \A r \in S : w[r] \in Nat /\ w[r] = r[f]
      BY FieldNat DEF Field
    <2>5. \A r \in S : t[k[r]] = Sums!Sum(w, Part(k[r]))
      <3>1. ASSUME NEW r \in S
            PROVE  t[k[r]] = Sums!Sum(w, Part(k[r]))
        <4>1. k[r] \in K
          OBVIOUS
        <4>2. Counted(Part(k[r])) /\ t[k[r]] = FieldSum(f, Part(k[r]))
          BY <1>3, <4>1
        <4>3. \A y \in Part(k[r]) : w[y] = y[f]
          BY <2>4
        <4> HIDE DEF w, t, Part, k, S
        <4>4. QED
          BY <4>2, <4>3, FieldSumIs
      <3>2. QED
        BY <3>1
    <2>6. Sums!Sum(t, K) = Sums!Sum(w, S)
      <3>1. \A r \in S : t[k[r]] = Sums!Sum(w, {y \in S : k[y] = k[r]})
        BY <2>5
      <3>2. Sums!IsFiniteSet(S) /\ \A r \in S : w[r] \in Nat
        BY <1>2, <2>4
      <3>3. K = {k[r] : r \in S}
        OBVIOUS
      <3> HIDE DEF w, t, k, S, K, Part, out
      <3>4. Sums!Sum(t, {k[r] : r \in S}) = Sums!Sum(w, S)
        BY <3>1, <3>2, Sums!SumParts
      <3>5. QED
        BY <3>3, <3>4
    <2>7. QED
      BY <2>3, <2>6 DEF FieldSum
  <1>7. Rows!Total(out) = Totals(out) /\ Rows!Total(S) = Totals(S)
    BY <1>2, TotalIsSum
  <1>8. QED
    BY <1>1, <1>6, <1>7 DEF Totals

\* Usage has arrived or will, and is no more than the samples committed.
ArrivingInv ==
    \A m \in Rows!Minutes :
       /\ native[m].rx <= events /\ native[m].tx <= events
       /\ native[m].rx = minuteRecords[m].rx + increments[m].rx
       /\ native[m].tx = minuteRecords[m].tx + increments[m].tx
PageRowsInv == Rows!TypeOK /\ ArrivingInv

LEMMA RowTypes ==
    ASSUME Rows!TypeOK
    PROVE  /\ native \in [Rows!Minutes -> Rows!Bytes] /\ minuteRecords \in [Rows!Minutes -> Rows!Bytes]
           /\ estimates \in [Rows!Groups -> [Clients -> Rows!Bytes]]
           /\ proxyRecords \in [Rows!Groups -> [Clients -> Rows!Bytes]]
           /\ unseen \subseteq Rows!Groups /\ increments \in [Rows!Minutes -> Rows!Bytes] /\ events \in 0..MaxUsage
  BY DEF Rows!TypeOK

LEMMA RowsInit ==
    ASSUME Rows!Init
    PROVE  PageRowsInv
  <1>1. Rows!Zero \in Rows!Bytes /\ Rows!Zero.rx = 0 /\ Rows!Zero.tx = 0
    BY RowsAssumption DEF Rows!Zero, Rows!Bytes
  <1>2. Rows!TypeOK
    BY <1>1, RowsAssumption DEF Rows!Init, Rows!TypeOK
  <1>3. ArrivingInv
    BY <1>1 DEF Rows!Init, ArrivingInv
  <1>4. QED
    BY <1>2, <1>3 DEF PageRowsInv

LEMMA CommitKeeps ==
    ASSUME PageRowsInv, NEW m \in Rows!Minutes, NEW b \in Rows!Samples, Rows!Commit(m, b)
    PROVE  PageRowsInv'
  <1> DEFINE old == native[m]
             inc == increments[m]
             seen == minuteRecords[m]
             more == Rows!Plus(old, b)
             less == Rows!Plus(inc, b)
  <1>1. /\ events < MaxUsage /\ events' = events + 1 /\ UNCHANGED <<estimates, unseen, minuteRecords, proxyRecords>>
        /\ native' = [native EXCEPT ![m] = more] /\ increments' = [increments EXCEPT ![m] = less]
    BY DEF Rows!Commit
  <1>2. old \in Rows!Bytes /\ inc \in Rows!Bytes /\ seen \in Rows!Bytes /\ events \in 0..MaxUsage
    BY RowTypes DEF PageRowsInv
  <1>3. /\ b.rx \in 0..1 /\ b.tx \in 0..1
    BY DEF Rows!Samples
  <1>4. /\ old.rx <= events /\ old.tx <= events /\ old.rx = seen.rx + inc.rx /\ old.tx = seen.tx + inc.tx
    BY DEF PageRowsInv, ArrivingInv
  <1>5. /\ old.rx \in Nat /\ old.tx \in Nat /\ inc.rx \in Nat /\ inc.tx \in Nat /\ seen.rx \in Nat /\ seen.tx \in Nat
    BY <1>2 DEF Rows!Bytes
  <1>6. more = [rx |-> old.rx + b.rx, tx |-> old.tx + b.tx] /\ less = [rx |-> inc.rx + b.rx, tx |-> inc.tx + b.tx]
    BY DEF Rows!Plus
  <1> HIDE DEF old, inc, seen, more, less
  <1>7. /\ more.rx = old.rx + b.rx /\ more.tx = old.tx + b.tx /\ less.rx = inc.rx + b.rx /\ less.tx = inc.tx + b.tx
    BY <1>6
  <1>8. /\ more.rx = seen.rx + less.rx /\ more.tx = seen.tx + less.tx /\ more.rx <= events' /\ more.tx <= events'
        /\ events' \in 0..MaxUsage /\ events < events'
    BY <1>1, <1>2, <1>3, <1>4, <1>5, <1>7, RowsAssumption
  <1>9. more \in Rows!Bytes /\ less \in Rows!Bytes
    <2>1. /\ old.rx + b.rx \in 0..MaxUsage /\ old.tx + b.tx \in 0..MaxUsage
          /\ inc.rx + b.rx \in 0..MaxUsage /\ inc.tx + b.tx \in 0..MaxUsage
      BY <1>1, <1>2, <1>3, <1>4, <1>5, RowsAssumption
    <2>2. QED
      BY <1>6, <2>1 DEF Rows!Bytes
  <1>10. Rows!TypeOK'
    BY <1>1, <1>8, <1>9, RowTypes DEF PageRowsInv, Rows!TypeOK
  <1>11. native'[m] = more /\ increments'[m] = less /\ \A n \in Rows!Minutes : n # m => native'[n] = native[n] /\ increments'[n] = increments[n]
    BY <1>1, RowTypes DEF PageRowsInv
  <1>12. ArrivingInv'
    <2>1. ASSUME NEW n \in Rows!Minutes
          PROVE  /\ native'[n].rx <= events' /\ native'[n].tx <= events'
                 /\ native'[n].rx = minuteRecords'[n].rx + increments'[n].rx
                 /\ native'[n].tx = minuteRecords'[n].tx + increments'[n].tx
      <3>1. CASE n = m
        BY <1>1, <1>8, <1>11, <3>1 DEF seen
      <3>2. CASE n # m
        <4>1. native[n].rx \in Nat /\ native[n].tx \in Nat
          BY <2>1, RowTypes DEF PageRowsInv, Rows!Bytes
        <4>2. /\ native[n].rx <= events /\ native[n].tx <= events
              /\ native[n].rx = minuteRecords[n].rx + increments[n].rx
              /\ native[n].tx = minuteRecords[n].tx + increments[n].tx
          BY <2>1 DEF PageRowsInv, ArrivingInv
        <4>3. native[n].rx <= events' /\ native[n].tx <= events'
          BY <1>2, <1>8, <4>1, <4>2
        <4>4. QED
          BY <1>1, <1>11, <2>1, <3>2, <4>2, <4>3
      <3>3. QED
        BY <3>1, <3>2
    <2>2. QED
      BY <2>1 DEF ArrivingInv
  <1>13. QED
    BY <1>10, <1>12 DEF PageRowsInv

LEMMA UsageArrivesKeeps ==
    ASSUME PageRowsInv, NEW m \in Rows!Minutes, Rows!UsageArrives(m)
    PROVE  PageRowsInv'
  <1> DEFINE old == native[m]
             inc == increments[m]
             seen == minuteRecords[m]
             more == Rows!Plus(seen, inc)
  <1>1. /\ UNCHANGED <<native, estimates, unseen, proxyRecords, events>>
        /\ minuteRecords' = [minuteRecords EXCEPT ![m] = more] /\ increments' = [increments EXCEPT ![m] = Rows!Zero]
    BY DEF Rows!UsageArrives
  <1>2. old \in Rows!Bytes /\ inc \in Rows!Bytes /\ seen \in Rows!Bytes
    BY RowTypes DEF PageRowsInv
  <1>3. old.rx = seen.rx + inc.rx /\ old.tx = seen.tx + inc.tx
    BY DEF PageRowsInv, ArrivingInv
  <1>4. more = [rx |-> seen.rx + inc.rx, tx |-> seen.tx + inc.tx]
    BY DEF Rows!Plus
  <1>5. Rows!Zero \in Rows!Bytes /\ Rows!Zero.rx = 0 /\ Rows!Zero.tx = 0
    BY RowsAssumption DEF Rows!Zero, Rows!Bytes
  <1>6. old.rx \in Nat /\ old.tx \in Nat /\ old.rx \in 0..MaxUsage /\ old.tx \in 0..MaxUsage
    BY <1>2 DEF Rows!Bytes
  <1> HIDE DEF old, inc, seen, more
  <1>7. more.rx = old.rx /\ more.tx = old.tx /\ more \in Rows!Bytes
    BY <1>3, <1>4, <1>6 DEF Rows!Bytes
  <1>8. Rows!TypeOK'
    BY <1>1, <1>5, <1>7, RowTypes DEF PageRowsInv, Rows!TypeOK
  <1>9. /\ minuteRecords'[m] = more /\ increments'[m] = Rows!Zero
        /\ \A n \in Rows!Minutes : n # m => minuteRecords'[n] = minuteRecords[n] /\ increments'[n] = increments[n]
    BY <1>1, RowTypes DEF PageRowsInv
  <1>10. ArrivingInv'
    <2>1. ASSUME NEW n \in Rows!Minutes
          PROVE  /\ native[n].rx <= events /\ native[n].tx <= events
                 /\ native[n].rx = minuteRecords'[n].rx + increments'[n].rx
                 /\ native[n].tx = minuteRecords'[n].tx + increments'[n].tx
      <3>1. CASE n = m
        <4>1. more.rx = more.rx + 0 /\ more.tx = more.tx + 0
          BY <1>6, <1>7
        <4>2. native[m].rx <= events /\ native[m].tx <= events /\ native[m] = old
          BY DEF PageRowsInv, ArrivingInv, old
        <4>3. QED
          BY <1>5, <1>7, <1>9, <3>1, <4>1, <4>2
      <3>2. CASE n # m
        BY <1>9, <2>1, <3>2 DEF PageRowsInv, ArrivingInv
      <3>3. QED
        BY <3>1, <3>2
    <2>2. QED
      BY <1>1, <2>1 DEF ArrivingInv
  <1>11. QED
    BY <1>8, <1>10 DEF PageRowsInv

LEMMA EstimateKeeps ==
    ASSUME PageRowsInv, NEW g \in Rows!Groups,
           Rows!EstimateArrives(g) \/ (\E c \in Clients, b \in Rows!Samples : Rows!Estimate(g, c, b))
    PROVE  PageRowsInv'
  <1>1. ASSUME Rows!EstimateArrives(g)
        PROVE  PageRowsInv'
    <2>1. /\ unseen' = unseen \ {g} /\ proxyRecords' = [proxyRecords EXCEPT ![g] = estimates[g]]
          /\ UNCHANGED <<native, estimates, increments, minuteRecords, events>>
      BY <1>1 DEF Rows!EstimateArrives
    <2>2. Rows!TypeOK'
      BY <2>1, RowTypes DEF PageRowsInv, Rows!TypeOK
    <2>3. QED
      BY <2>1, <2>2 DEF PageRowsInv, ArrivingInv
  <1>2. ASSUME NEW c \in Clients, NEW b \in Rows!Samples, Rows!Estimate(g, c, b)
        PROVE  PageRowsInv'
    <2> DEFINE list == [estimates[g] EXCEPT ![c] = b]
    <2>1. /\ events < MaxUsage /\ events' = events + 1 /\ unseen' = unseen \cup {g}
          /\ estimates' = [estimates EXCEPT ![g] = list]
          /\ UNCHANGED <<native, increments, minuteRecords, proxyRecords>>
      BY <1>2 DEF Rows!Estimate
    <2>2. events \in 0..MaxUsage /\ MaxUsage \in Nat
      BY RowTypes, RowsAssumption DEF PageRowsInv
    <2>3. b \in Rows!Bytes
      <3>1. 0 \in 0..MaxUsage /\ 1 \in 0..MaxUsage
        BY <2>1, <2>2
      <3>2. QED
        BY <3>1 DEF Rows!Samples, Rows!Bytes
    <2>4. list \in [Clients -> Rows!Bytes]
      BY <2>3, RowTypes DEF PageRowsInv
    <2> HIDE DEF list
    <2>5. Rows!TypeOK'
      BY <2>1, <2>2, <2>4, RowTypes DEF PageRowsInv, Rows!TypeOK
    <2>6. ArrivingInv'
      <3>1. ASSUME NEW n \in Rows!Minutes
            PROVE  native[n].rx <= events + 1 /\ native[n].tx <= events + 1
        <4>1. native[n].rx \in Nat /\ native[n].tx \in Nat
          BY <3>1, RowTypes DEF PageRowsInv, Rows!Bytes
        <4>2. native[n].rx <= events /\ native[n].tx <= events
          BY <3>1 DEF PageRowsInv, ArrivingInv
        <4>3. QED
          BY <2>2, <4>1, <4>2
      <3>2. QED
        BY <2>1, <3>1 DEF PageRowsInv, ArrivingInv
    <2>7. QED
      BY <2>5, <2>6 DEF PageRowsInv
  <1>3. QED
    BY <1>1, <1>2

LEMMA RowsStep ==
    ASSUME PageRowsInv, Rows!Next \/ UNCHANGED rowsVars
    PROVE  PageRowsInv'
  <1>1. CASE Rows!Next
    BY <1>1, CommitKeeps, UsageArrivesKeeps, EstimateKeeps DEF Rows!Next
  <1>2. CASE UNCHANGED rowsVars
    BY <1>2 DEF rowsVars, PageRowsInv, ArrivingInv, Rows!TypeOK
  <1>3. QED
    BY <1>1, <1>2

\* The rows of the minutes and of the days.
MeasuredRow == [date : Dates, time : {-1} \cup Rows!Times, app : Apps, estimated : {Nothing}, rx : Nat, tx : Nat]

LEMMA RowFields ==
    ASSUME NEW d, NEW time, NEW app, NEW by, NEW b
    PROVE  LET r == Rows!Row(d, time, app, by, b)
           IN  /\ r.date = d /\ r.time = time /\ r.app = app /\ r.estimated = by
               /\ r["rx"] = b.rx /\ r["tx"] = b.tx /\ r.rx = b.rx /\ r.tx = b.tx
  BY DEF Rows!Row

LEMMA MinuteRowsTyped ==
    ASSUME PageRowsInv
    PROVE  /\ Counted(Rows!MinuteRows)
           /\ \A r \in Rows!MinuteRows : /\ r.date \in Dates /\ r.time \in Rows!Times /\ r.app \in Apps
                                         /\ r.estimated = Nothing
  <1> DEFINE D == {n \in Rows!Minutes : minuteRecords[n] # Rows!Zero}
             g == [m \in D |-> Rows!Row(m[1], m[2], m[3], Nothing, minuteRecords[m])]
             S == {g[m] : m \in D}
  <1>1. Rows!MinuteRows = S
    BY DEF Rows!MinuteRows
  <1>2. Sums!IsFiniteSet(Rows!Minutes)
    <2>1. Sums!IsFiniteSet(Dates) /\ Sums!IsFiniteSet(Rows!Times) /\ Sums!IsFiniteSet(Apps)
      <3>1. Sums!IsFiniteSet(0..LastTime)
        BY RowsAssumption, Sums!FS_Interval
      <3>2. QED
        BY <3>1, RowsAssumption, FiniteSums DEF Rows!Times
    <2> DEFINE P == Dates \X Rows!Times
               h == [p \in P \X Apps |-> <<p[1][1], p[1][2], p[2]>>]
    <2>2. Sums!IsFiniteSet(P \X Apps)
      <3>1. Sums!IsFiniteSet(P)
        BY <2>1, Sums!FS_Product
      <3> HIDE DEF P
      <3>2. QED
        BY <2>1, <3>1, Sums!FS_Product
    <2>3. Sums!IsFiniteSet({h[p] : p \in P \X Apps})
      <3> HIDE DEF P, h
      <3>1. QED
        BY <2>2, Sums!ImageFinite
    <2>4. Rows!Minutes \subseteq {h[p] : p \in P \X Apps}
      <3>1. ASSUME NEW m \in Rows!Minutes
            PROVE  <<<<m[1], m[2]>>, m[3]>> \in P \X Apps /\ h[<<<<m[1], m[2]>>, m[3]>>] = m
        BY <3>1 DEF Rows!Minutes
      <3> HIDE DEF h
      <3>2. QED
        BY <3>1
    <2> HIDE DEF P, h
    <2>5. QED
      BY <2>3, <2>4, Sums!FS_Subset
  <1>3. Sums!IsFiniteSet(S)
    <2>1. Sums!IsFiniteSet(D)
      BY <1>2, Sums!FS_Subset
    <2> HIDE DEF D, g
    <2>2. QED
      BY <2>1, Sums!ImageFinite
  <1>4. ASSUME NEW m \in D
        PROVE  LET r == g[m]
               IN  /\ r.date \in Dates /\ r.time \in Rows!Times /\ r.app \in Apps /\ r.estimated = Nothing
                   /\ r["rx"] \in Nat /\ r["tx"] \in Nat
    <2>1. m[1] \in Dates /\ m[2] \in Rows!Times /\ m[3] \in Apps
      BY DEF Rows!Minutes
    <2>2. minuteRecords[m].rx \in Nat /\ minuteRecords[m].tx \in Nat
      BY RowTypes DEF PageRowsInv, Rows!Bytes
    <2>3. g[m] = Rows!Row(m[1], m[2], m[3], Nothing, minuteRecords[m])
      OBVIOUS
    <2> HIDE DEF g
    <2>4. QED
      BY <2>1, <2>2, <2>3, RowFields
  <1> HIDE DEF g, D
  <1>5. QED
    BY <1>1, <1>3, <1>4 DEF Counted

LEMMA DayRowsTyped ==
    ASSUME PageRowsInv
    PROVE  /\ Counted(Rows!DayRows)
           /\ \A r \in Rows!DayRows : r.date \in Dates /\ r.time = -1 /\ r.app \in Apps /\ r.estimated = Nothing
  <1> DEFINE M == Rows!MinuteRows
             h == [r \in M |-> <<r.date, r.app>>]
             K == {h[r] : r \in M}
             Part(k) == {r \in M : r.date = k[1] /\ r.app = k[2]}
             g == [k \in K |-> Rows!Row(k[1], -1, k[2], Nothing, Rows!Total(Part(k)))]
             S == {g[k] : k \in K}
  <1>1. Rows!DayRows = S
    BY DEF Rows!DayRows
  <1>2. Counted(M) /\ \A r \in M : r.date \in Dates /\ r.app \in Apps
    BY MinuteRowsTyped
  <1>3. Sums!IsFiniteSet(S)
    <2> HIDE DEF M, h
    <2>1. Sums!IsFiniteSet(K)
      BY <1>2, Sums!ImageFinite DEF Counted
    <2> HIDE DEF K, g
    <2>2. QED
      BY <2>1, Sums!ImageFinite
  <1>4. ASSUME NEW k \in K
        PROVE  LET r == g[k]
               IN  /\ r.date \in Dates /\ r.time = -1 /\ r.app \in Apps /\ r.estimated = Nothing
                   /\ r["rx"] \in Nat /\ r["tx"] \in Nat
    <2>1. k[1] \in Dates /\ k[2] \in Apps
      BY <1>2
    <2>2. Counted(Part(k))
      BY <1>2, CountedSubset
    <2>3. Rows!Total(Part(k)).rx \in Nat /\ Rows!Total(Part(k)).tx \in Nat
      <3> HIDE DEF Part
      <3>1. Rows!Total(Part(k)) = Totals(Part(k))
        BY <2>2, TotalIsSum DEF Counted
      <3>2. QED
        BY <2>2, <3>1, FieldNat DEF Totals
    <2>4. g[k] = Rows!Row(k[1], -1, k[2], Nothing, Rows!Total(Part(k)))
      OBVIOUS
    <2> HIDE DEF g, Part
    <2>5. QED
      BY <2>1, <2>3, <2>4, RowFields
  <1> HIDE DEF g, K
  <1>5. QED
    BY <1>1, <1>3, <1>4 DEF Counted

\* A range over two dates that meet selects what one of each selects.
LEMMA MeetingRanges ==
    ASSUME PageRowsInv, NEW s \in Dates, NEW e \in Dates, NEW from \in Rows!Times, NEW to \in Rows!Times,
           NEW split \in Rows!Times, NEW grouping \in Rows!Groupings,
           s < e, \A d \in Dates : ~(s < d /\ d < e), split < LastTime
    PROVE  Rows!Total(Rows!applicationRows(Rows!MinuteRows, Rows!Between(s, from, e, to), grouping))
             = Rows!Plus(Rows!Total(Rows!applicationRows(Rows!MinuteRows, Rows!Between(s, from, s, LastTime), grouping)),
                 IF to <= split
                 THEN Rows!Total(Rows!applicationRows(Rows!MinuteRows, Rows!Between(e, 0, e, to), grouping))
                 ELSE Rows!Plus(Rows!Total(Rows!applicationRows(Rows!MinuteRows, Rows!Between(e, 0, e, split), grouping)),
                                Rows!Total(Rows!applicationRows(Rows!MinuteRows, Rows!Between(e, split + 1, e, to), grouping))))
  <1> DEFINE M == Rows!MinuteRows
             Of(q) == RecordsIn(M, q, grouping)
             A == Of(Rows!Between(s, from, s, LastTime))
             B == Of(Rows!Between(e, 0, e, to))
             B1 == Of(Rows!Between(e, 0, e, split))
             B2 == Of(Rows!Between(e, split + 1, e, to))
             W == Of(Rows!Between(s, from, e, to))
  <1>1. Counted(M) /\ \A r \in M : r.date \in Dates /\ r.time \in Rows!Times
    BY MinuteRowsTyped
  <1>2. \A q : Of(q) \in SUBSET M
    BY DEF RecordsIn
  <1>3. \A q : Rows!Total(Rows!applicationRows(M, q, grouping)) = Rows!Total(Of(q))
    <2> HIDE DEF M
    <2>1. \A q : Counted(RecordsIn(M, q, grouping))
      BY <1>1, <1>2, CountedSubset
    <2>2. QED
      BY <2>1, GroupedTotal
  <1>4. /\ s \in Int /\ e \in Int /\ from \in Nat /\ to \in Nat /\ split \in Nat /\ LastTime \in Nat
        /\ to <= LastTime /\ \A r \in M : r.date \in Int /\ r.time \in Nat /\ r.time # -1 /\ r.time <= LastTime
    <2> HIDE DEF M
    <2>1. /\ s \in Int /\ e \in Int /\ LastTime \in Nat /\ \A r \in M : r.date \in Int
      BY <1>1, RowsAssumption
    <2>2. from \in 0..LastTime /\ to \in 0..LastTime /\ split \in 0..LastTime /\ \A r \in M : r.time \in 0..LastTime
      BY <1>1 DEF Rows!Times
    <2>3. from \in Nat /\ to \in Nat /\ to <= LastTime /\ split \in Nat
      BY <2>1, <2>2
    <2>4. \A r \in M : r.time \in Nat /\ r.time # -1 /\ r.time <= LastTime
      BY <2>1, <2>2
    <2>5. QED
      BY <2>1, <2>3, <2>4
  <1>5. ASSUME NEW r \in M
        PROVE  /\ r \in A <=> r.date = s /\ (from # 0 => r.time >= from)
               /\ r \in B <=> r.date = e /\ (to # LastTime => r.time <= to)
               /\ r \in B1 <=> r.date = e /\ r.time <= split
               /\ r \in B2 <=> r.date = e /\ r.time >= split + 1 /\ (to # LastTime => r.time <= to)
               /\ r \in W <=> /\ s <= r.date /\ r.date <= e /\ (r.date = s /\ from # 0 => r.time >= from)
                              /\ (r.date = e /\ to # LastTime => r.time <= to)
    <2> HIDE DEF M
    <2>1. r \in M /\ r.date \in Int /\ r.time \in Nat /\ r.time # -1
      BY <1>4, <1>5
    <2>2. r \in A <=> r.date = s /\ (from # 0 => r.time >= from)
      BY <1>4, <2>1 DEF RecordsIn, Rows!recordInRange, Rows!Between
    <2>3. r \in B <=> r.date = e /\ (to # LastTime => r.time <= to)
      BY <1>4, <2>1 DEF RecordsIn, Rows!recordInRange, Rows!Between
    <2>4. r \in B1 <=> r.date = e /\ r.time <= split
      BY <1>4, <2>1 DEF RecordsIn, Rows!recordInRange, Rows!Between
    <2>5. r \in B2 <=> r.date = e /\ r.time >= split + 1 /\ (to # LastTime => r.time <= to)
      BY <1>4, <2>1 DEF RecordsIn, Rows!recordInRange, Rows!Between
    <2>6. r \in W <=> /\ s <= r.date /\ r.date <= e /\ (r.date = s /\ from # 0 => r.time >= from)
                      /\ (r.date = e /\ to # LastTime => r.time <= to)
      BY <1>4, <2>1 DEF RecordsIn, Rows!recordInRange, Rows!Between
    <2>7. QED
      BY <2>2, <2>3, <2>4, <2>5, <2>6
  <1>6. A \subseteq M /\ B \subseteq M /\ B1 \subseteq M /\ B2 \subseteq M /\ W \subseteq M
    BY <1>2
  <1> HIDE DEF A, B, B1, B2, W, M
  <1>7. \A r \in M : s <= r.date /\ r.date <= e => r.date = s \/ r.date = e
    BY <1>1, <1>4
  <1>8. W = A \cup B /\ A \cap B = {}
    <2>1. \A r \in M : r \in W <=> (r \in A \/ r \in B)
      BY <1>4, <1>5, <1>7
    <2>2. \A r \in M : ~(r \in A /\ r \in B)
      BY <1>4, <1>5
    <2>3. QED
      BY <1>6, <2>1, <2>2
  <1>9. to > split => B = B1 \cup B2 /\ B1 \cap B2 = {}
    <2> SUFFICES ASSUME to > split
                 PROVE  B = B1 \cup B2 /\ B1 \cap B2 = {}
      OBVIOUS
    <2>1. \A r \in M : r \in B <=> (r \in B1 \/ r \in B2)
      BY <1>4, <1>5
    <2>2. \A r \in M : ~(r \in B1 /\ r \in B2)
      BY <1>4, <1>5
    <2>3. QED
      BY <1>6, <2>1, <2>2
  <1>10. Counted(W) /\ Counted(B)
    BY <1>1, <1>6, CountedSubset
  <1>11. Rows!Total(W) = Rows!Plus(Rows!Total(A), Rows!Total(B))
    BY <1>8, <1>10, TotalUnion
  <1>12. to > split => Rows!Total(B) = Rows!Plus(Rows!Total(B1), Rows!Total(B2))
    BY <1>9, <1>10, TotalUnion
  <1>13. /\ Rows!Total(Rows!applicationRows(M, Rows!Between(s, from, e, to), grouping)) = Rows!Total(W)
         /\ Rows!Total(Rows!applicationRows(M, Rows!Between(s, from, s, LastTime), grouping)) = Rows!Total(A)
         /\ Rows!Total(Rows!applicationRows(M, Rows!Between(e, 0, e, to), grouping)) = Rows!Total(B)
         /\ Rows!Total(Rows!applicationRows(M, Rows!Between(e, 0, e, split), grouping)) = Rows!Total(B1)
         /\ Rows!Total(Rows!applicationRows(M, Rows!Between(e, split + 1, e, to), grouping)) = Rows!Total(B2)
    BY <1>3 DEF A, B, B1, B2, W
  <1>14. CASE to <= split
    BY <1>11, <1>13, <1>14 DEF M
  <1>15. CASE to > split
    <2>1. ~(to <= split)
      BY <1>4, <1>15
    <2>2. QED
      BY <1>11, <1>12, <1>13, <1>15, <2>1 DEF M
  <1>16. QED
    BY <1>4, <1>14, <1>15

LEMMA CountedUnion ==
    ASSUME NEW S, Counted(S), NEW T, Counted(T)
    PROVE  Counted(S \cup T)
  <1>1. Sums!IsFiniteSet(S) /\ Sums!IsFiniteSet(T)
    BY DEF Counted
  <1>2. Sums!IsFiniteSet(S \cup T)
    BY <1>1, Sums!UnionFinite
  <1>3. QED
    BY <1>2 DEF Counted

LEMMA FieldParts ==
    ASSUME NEW list, Counted(list), NEW f \in {"rx", "tx"}, NEW k, NEW u,
           \A r \in list : u[k[r]] = FieldSum(f, {x \in list : k[x] = k[r]})
    PROVE  Sums!Sum(u, {k[r] : r \in list}) = FieldSum(f, list)
  <1> DEFINE w == Field(f, list)
  <1>1. \A r \in list : w[r] \in Nat /\ w[r] = r[f]
    BY FieldNat DEF Field
  <1>2. ASSUME NEW r \in list
        PROVE  u[k[r]] = Sums!Sum(w, {x \in list : k[x] = k[r]})
    <2> DEFINE part == {x \in list : k[x] = k[r]}
    <2>1. Counted(part) /\ \A x \in part : w[x] = x[f]
      BY <1>1, CountedSubset
    <2>2. u[k[r]] = FieldSum(f, part)
      OBVIOUS
    <2> HIDE DEF part, w
    <2>3. u[k[r]] = Sums!Sum(w, part)
      BY <2>1, <2>2, FieldSumIs
    <2>4. QED
      BY <2>3 DEF part
  <1> HIDE DEF w
  <1>3. Sums!Sum(u, {k[r] : r \in list}) = Sums!Sum(w, list)
    <2>1. Sums!IsFiniteSet(list) /\ \A r \in list : w[r] \in Nat
      BY <1>1 DEF Counted
    <2>2. QED
      BY <1>2, <2>1, Sums!SumParts
  <1>4. QED
    BY <1>3 DEF w, FieldSum

LEMMA EstimatedRowsTyped ==
    ASSUME PageRowsInv, NEW g \in Rows!Groups
    PROVE  /\ Counted(Rows!EstimatedRows(g))
           /\ \A r \in Rows!EstimatedRows(g) : r.date = g[1] /\ r.estimated = g[2] /\ r.estimated # Nothing
  <1> DEFINE D == {c \in Clients : proxyRecords[g][c] # Rows!Zero}
             h == [c \in D |-> Rows!Row(g[1], -1, c, g[2], proxyRecords[g][c])]
             S == {h[c] : c \in D}
  <1>1. Rows!EstimatedRows(g) = S
    BY DEF Rows!EstimatedRows
  <1>2. Sums!IsFiniteSet(S)
    <2>1. Sums!IsFiniteSet(D)
      BY RowsAssumption, FiniteSums, Sums!FS_Subset
    <2> HIDE DEF D, h
    <2>2. QED
      BY <2>1, Sums!ImageFinite
  <1>3. g[2] # Nothing
    BY RowsAssumption DEF Rows!Groups
  <1>4. ASSUME NEW c \in D
        PROVE  LET r == h[c]
               IN  r.date = g[1] /\ r.estimated = g[2] /\ r["rx"] \in Nat /\ r["tx"] \in Nat
    <2>1. proxyRecords[g][c].rx \in Nat /\ proxyRecords[g][c].tx \in Nat
      BY RowTypes DEF PageRowsInv, Rows!Bytes
    <2>2. h[c] = Rows!Row(g[1], -1, c, g[2], proxyRecords[g][c])
      OBVIOUS
    <2> HIDE DEF h
    <2>3. QED
      BY <2>1, <2>2, RowFields
  <1> HIDE DEF h, D
  <1>5. QED
    BY <1>1, <1>2, <1>3, <1>4 DEF Counted

\* The estimated rows of a date have the bytes of the rows they replace.
LEMMA EstimatesReplace ==
    ASSUME PageRowsInv, NEW d \in Dates
    PROVE  Rows!Total(Rows!applicationRows(Rows!proxyUsageRecords, Rows!Between(d, 0, d, LastTime), "day"))
             = Rows!Total({r \in Rows!DayRows : r.date = d})
  <1> DEFINE q == Rows!Between(d, 0, d, LastTime)
             G == Rows!validatedProxyGroups
             V == {g \in G : g[1] = d}
             D == {r \in Rows!DayRows : r.date = d}
             U == {r \in D : <<r.date, r.app>> \notin G}
             O == {r \in D : <<r.date, r.app>> \in G}
             Own(g) == {r \in Rows!DayRows : r.date = g[1] /\ r.app = g[2]}
             E == UNION {Rows!EstimatedRows(g) : g \in V}
  <1>1. /\ Counted(Rows!DayRows)
        /\ \A r \in Rows!DayRows : r.date \in Dates /\ r.time = -1 /\ r.app \in Apps /\ r.estimated = Nothing
    BY DayRowsTyped
  <1>2. Counted(D) /\ Counted(U) /\ Counted(O) /\ (\A g : Counted(Own(g)))
    <2>1. D \in SUBSET Rows!DayRows /\ U \in SUBSET Rows!DayRows /\ O \in SUBSET Rows!DayRows
          /\ \A g : Own(g) \in SUBSET Rows!DayRows
      OBVIOUS
    <2> HIDE DEF D, U, O, Own
    <2>2. QED
      BY <1>1, <2>1, CountedSubset
  <1>3. G \subseteq Rows!Groups /\ \A g \in G : /\ Own(g) # {} /\ Rows!EstimatedRows(g) # {}
                                                /\ Rows!Total(Rows!EstimatedRows(g)) = Rows!Total(Own(g))
    BY DEF Rows!validatedProxyGroups, Rows!Covers
  <1>4. \A g \in G : g = <<g[1], g[2]>>
    BY <1>3 DEF Rows!Groups
  <1>5. \A g \in G : /\ Counted(Rows!EstimatedRows(g))
                     /\ \A r \in Rows!EstimatedRows(g) : r.date = g[1] /\ r.estimated = g[2] /\ r.estimated # Nothing
    BY <1>3, EstimatedRowsTyped
  <1>6. Counted(E)
    <2>1. Sums!IsFiniteSet(Rows!Groups)
      BY RowsAssumption, FiniteSums, Sums!FS_Product DEF Rows!Groups
    <2>2. Sums!IsFiniteSet(V)
      BY <1>3, <2>1, Sums!FS_Subset
    <2> DEFINE h == [g \in V |-> Rows!EstimatedRows(g)]
               F == {h[g] : g \in V}
    <2>3. F = {Rows!EstimatedRows(g) : g \in V}
      OBVIOUS
    <2>4. \A T \in F : Sums!IsFiniteSet(T)
      BY <1>5 DEF Counted
    <2>5. Sums!IsFiniteSet(F)
      <3> HIDE DEF V, h
      <3>1. QED
        BY <2>2, Sums!ImageFinite
    <2>6. Sums!IsFiniteSet(UNION F)
      <3> HIDE DEF F
      <3>1. QED
        BY <2>4, <2>5, Sums!FS_UNION
    <2>7. \A r \in E : r["rx"] \in Nat /\ r["tx"] \in Nat
      BY <1>5 DEF Counted
    <2>8. E = UNION F
      BY <2>3
    <2> HIDE DEF E, F
    <2>9. QED
      BY <2>6, <2>7, <2>8 DEF Counted
  <1>7. RecordsIn(Rows!proxyUsageRecords, q, "day") = U \cup E
    <2>1. d \in Int /\ \A r \in Rows!DayRows : r.date \in Int
      BY <1>1, RowsAssumption
    <2>2. ASSUME NEW r, r.date \in Int
          PROVE  Rows!recordInRange(r, q) <=> r.date = d
      BY <2>1, <2>2 DEF Rows!recordInRange, Rows!Between
    <2>3. Rows!proxyUsageRecords =
            {r \in Rows!DayRows : <<r.date, r.app>> \notin G} \cup UNION {Rows!EstimatedRows(g) : g \in G}
      BY DEF Rows!proxyUsageRecords
    <2>4. \A g \in G : g[1] \in Int
      BY <1>3, RowsAssumption DEF Rows!Groups
    <2>5. \A r \in Rows!proxyUsageRecords : r.date \in Int
      BY <1>5, <2>1, <2>3, <2>4
    <2>6. RecordsIn(Rows!proxyUsageRecords, q, "day") = {r \in Rows!proxyUsageRecords : r.date = d}
      <3> HIDE DEF q
      <3>1. QED
        BY <2>2, <2>5 DEF RecordsIn
    <2>7. {r \in Rows!proxyUsageRecords : r.date = d} = U \cup E
      BY <1>5, <2>3
    <2>8. QED
      BY <2>6, <2>7
  <1>8. U \cap E = {} /\ U \cap O = {} /\ D = U \cup O
    <2>1. \A r \in E : r.estimated # Nothing
      BY <1>5
    <2>2. \A r \in U : r.estimated = Nothing
      BY <1>1
    <2>3. QED
      BY <2>1, <2>2
  <1>9. ASSUME NEW f \in {"rx", "tx"}
        PROVE  FieldSum(f, E) = FieldSum(f, O)
    <2> DEFINE u == [g \in V |-> FieldSum(f, Own(g))]
               kE == [r \in E |-> <<r.date, r.estimated>>]
               kO == [r \in O |-> <<r.date, r.app>>]
    <2>1. \A g \in V : g \in G /\ g[1] = d /\ g = <<g[1], g[2]>>
      BY <1>4
    <2>2. \A r \in E : \E g \in V : r \in Rows!EstimatedRows(g)
      OBVIOUS
    <2>3. \A g \in V : \A r \in Rows!EstimatedRows(g) : r \in E /\ kE[r] = g
      BY <1>5, <2>1
    <2>4. \A g \in V : {x \in E : kE[x] = g} = Rows!EstimatedRows(g)
      <3> HIDE DEF E, kE, V
      <3>1. QED
        BY <2>2, <2>3
    <2>5. {kE[r] : r \in E} = V
      <3>0. \A g \in V : Rows!EstimatedRows(g) # {}
        BY <1>3, <2>1
      <3> HIDE DEF E, kE, V
      <3>1. \A g \in V : \E r \in E : kE[r] = g
        BY <2>3, <3>0
      <3>2. \A r \in E : kE[r] \in V
        BY <2>2, <2>3
      <3>3. QED
        BY <3>1, <3>2
    <2>6. \A g \in V : FieldSum(f, Rows!EstimatedRows(g)) = FieldSum(f, Own(g))
      <3>1. ASSUME NEW g \in V
            PROVE  FieldSum(f, Rows!EstimatedRows(g)) = FieldSum(f, Own(g))
        <4>1. Rows!Total(Rows!EstimatedRows(g)) = Rows!Total(Own(g)) /\ Counted(Rows!EstimatedRows(g)) /\ Counted(Own(g))
          BY <1>2, <1>3, <1>5, <2>1
        <4> HIDE DEF Own, V
        <4>2. Totals(Rows!EstimatedRows(g)) = Totals(Own(g))
          BY <4>1, TotalIsSum DEF Counted
        <4>3. QED
          BY <4>2 DEF Totals
      <3>2. QED
        BY <3>1
    <2>7. Sums!Sum(u, V) = FieldSum(f, E)
      <3>1. \A r \in E : u[kE[r]] = FieldSum(f, {x \in E : kE[x] = kE[r]})
        <4>1. \A r \in E : kE[r] \in V
          BY <2>5
        <4>2. \A g \in V : u[g] = FieldSum(f, Own(g))
          OBVIOUS
        <4> HIDE DEF E, kE, V, Own, u
        <4>3. QED
          BY <2>4, <2>6, <4>1, <4>2
      <3> HIDE DEF E, kE, V, u
      <3>2. Sums!Sum(u, {kE[r] : r \in E}) = FieldSum(f, E)
        BY <1>6, <3>1, FieldParts
      <3>3. QED
        BY <2>5, <3>2
    <2>8. \A g \in V : {x \in O : kO[x] = g} = Own(g) /\ Own(g) # {}
      <3>1. ASSUME NEW g \in V
            PROVE  {x \in O : kO[x] = g} = Own(g)
        <4>1. \A r \in O : kO[r] = g <=> r.date = g[1] /\ r.app = g[2]
          BY <2>1
        <4>2. \A r \in Own(g) : r \in O
          BY <2>1
        <4>3. QED
          BY <4>1, <4>2
      <3>2. QED
        BY <1>3, <2>1, <3>1
    <2>9. {kO[r] : r \in O} = V
      <3>1. \A r \in O : kO[r] \in V
        OBVIOUS
      <3>2. \A g \in V : \E r \in O : kO[r] = g
        BY <2>8
      <3> HIDE DEF O, kO, V
      <3>3. QED
        BY <3>1, <3>2
    <2>10. Sums!Sum(u, V) = FieldSum(f, O)
      <3>1. \A r \in O : u[kO[r]] = FieldSum(f, {x \in O : kO[x] = kO[r]})
        <4>1. \A r \in O : kO[r] \in V
          BY <2>9
        <4>2. \A g \in V : u[g] = FieldSum(f, Own(g))
          OBVIOUS
        <4> HIDE DEF O, kO, V, Own, u
        <4>3. QED
          BY <2>8, <4>1, <4>2
      <3>a. Counted(O)
        BY <1>2
      <3> HIDE DEF O, E, kE, kO, V, u, D, G, Own, q, U
      <3>2. Sums!Sum(u, {kO[r] : r \in O}) = FieldSum(f, O)
        <4>1. \A r \in O : u[kO[r]] = FieldSum(f, {x \in O : kO[x] = kO[r]})
          BY <3>1
        <4>2. Counted(O)
          BY <3>a
        <4>3. QED
          BY ONLY f \in {"rx", "tx"}, <4>1, <4>2, FieldParts
      <3>3. QED
        BY <2>9, <3>2
    <2>11. QED
      BY <2>7, <2>10
  <1> HIDE DEF U, O, E, D, q
  <1>10. Counted(U \cup E)
    BY <1>2, <1>6, CountedUnion
  <1>11. Rows!Total(U \cup E) = Rows!Plus(Rows!Total(U), Rows!Total(E)) /\ Rows!Total(D) = Rows!Plus(Rows!Total(U), Rows!Total(O))
    BY <1>2, <1>8, <1>10, TotalUnion
  <1>12. Rows!Total(E) = Rows!Total(O)
    <2>1. Rows!Total(E) = Totals(E) /\ Rows!Total(O) = Totals(O)
      BY <1>2, <1>6, TotalIsSum DEF Counted
    <2>2. QED
      BY <1>9, <2>1 DEF Totals
  <1>13. Rows!Total(Rows!applicationRows(Rows!proxyUsageRecords, q, "day")) = Rows!Total(U \cup E)
    BY <1>7, <1>10, GroupedTotal
  <1>14. QED
    BY <1>11, <1>12, <1>13 DEF D, q

LEMMA RowsAdd ==
    ASSUME PageRowsInv
    PROVE  Rows!EstimatesKeepTotals /\ Rows!RangesAddUp
  <1>1. Rows!EstimatesKeepTotals
    BY EstimatesReplace DEF Rows!EstimatesKeepTotals
  <1>2. Rows!RangesAddUp
    BY MeetingRanges DEF Rows!RangesAddUp
  <1>3. QED
    BY <1>1, <1>2

-----------------------------------------------------------------------------
\* What rows count beyond other values.
Excess(list, base, keys) == [k \in keys |-> list[k].bytes - base[k]]

ExcessEquation(list, base, keys, f) ==
    f = [s \in SUBSET keys |-> IF s = {} THEN 0
                               ELSE LET x == CHOOSE x \in s : TRUE IN (list[x].bytes - base[x]) + f[s \ {x}]]

LEMMA BeyondUnfolds ==
    ASSUME NEW list, NEW base, NEW keys
    PROVE  Capture!Beyond(list, base, keys) = (CHOOSE f : ExcessEquation(list, base, keys, f))[keys]
  BY DEF Capture!Beyond, Capture!MapThenSumSet, Capture!MapThenFoldSet, ExcessEquation

LEMMA BeyondIsSum ==
    ASSUME NEW list, NEW base, NEW keys, Sums!IsFiniteSet(keys)
    PROVE  Capture!Beyond(list, base, keys) = Sums!Sum(Excess(list, base, keys), keys)
  <1> DEFINE t == Excess(list, base, keys)
             f == CHOOSE f : ExcessEquation(list, base, keys, f)
  <1>1. ASSUME NEW h
        PROVE  ExcessEquation(list, base, keys, h) <=> Sums!Equation(t, keys, h)
    <2>1. \A s \in SUBSET keys : s # {} => t[Sums!Chosen(s)] = list[Sums!Chosen(s)].bytes - base[Sums!Chosen(s)]
      BY Sums!ChosenIn DEF Excess
    <2>2. QED
      BY <2>1 DEF ExcessEquation, Sums!Equation, Sums!Body, Sums!Chosen
  <1>2. \E h : Sums!Equation(t, keys, h)
    BY Sums!EquationHasSolution
  <1>3. Sums!Equation(t, keys, f)
    BY <1>1, <1>2
  <1>4. Sums!Sum(t, keys) = (CHOOSE g : Sums!Equation(t, keys, g))[keys]
    BY Sums!SumUnfolds
  <1>5. Sums!Equation(t, keys, CHOOSE g : Sums!Equation(t, keys, g))
    BY Sums!EquationHasSolution
  <1>6. Capture!Beyond(list, base, keys) = f[keys]
    BY BeyondUnfolds
  <1> DEFINE g == CHOOSE g : Sums!Equation(t, keys, g)
  <1>7. Sums!Equation(t, keys, g) /\ Sums!Sum(t, keys) = g[keys]
    BY <1>4, <1>5
  <1> HIDE DEF f, g, t
  <1>8. f[keys] = g[keys]
    BY <1>3, <1>7, Sums!EquationsAgree
  <1>9. QED
    BY <1>6, <1>7, <1>8 DEF t

LEMMA RowKeysFinite ==
    ASSUME NEW keys \in SUBSET Capture!RowKeys
    PROVE  Sums!IsFiniteSet(keys)
  <1>1. Sums!IsFiniteSet(Processes)
    BY CaptureAssumption, FiniteSums
  <1>2. Sums!IsFiniteSet({"retired", "unknown"})
    <2>1. Sums!IsFiniteSet({"retired"}) /\ Sums!IsFiniteSet({"unknown"})
      BY Sums!FS_Singleton
    <2>2. Sums!IsFiniteSet({"retired"} \cup {"unknown"})
      BY <2>1, Sums!UnionFinite
    <2>3. {"retired", "unknown"} = {"retired"} \cup {"unknown"}
      OBVIOUS
    <2>4. QED
      BY <2>2, <2>3
  <1>3. Sums!IsFiniteSet(Processes \cup {"retired", "unknown"})
    BY <1>1, <1>2, Sums!UnionFinite
  <1>4. keys \subseteq Processes \cup {"retired", "unknown"}
    BY DEF Capture!RowKeys, Capture!Merged
  <1>5. QED
    BY <1>3, <1>4, Sums!FS_Subset

\* A list that has grown: its rows count at least the given values.
Grown(list, base, keys) ==
    \A k \in keys : list[k].bytes \in Nat /\ base[k] \in Nat /\ base[k] <= list[k].bytes

LEMMA ExcessNat ==
    ASSUME NEW list, NEW base, NEW keys, Grown(list, base, keys)
    PROVE  \A k \in keys : /\ Excess(list, base, keys)[k] \in Nat
                           /\ Excess(list, base, keys)[k] = list[k].bytes - base[k]
  BY DEF Grown, Excess

LEMMA BeyondNat ==
    ASSUME NEW keys \in SUBSET Capture!RowKeys, NEW list, NEW base, Grown(list, base, keys)
    PROVE  /\ Capture!Beyond(list, base, keys) \in Nat
           /\ \A k \in keys : list[k].bytes - base[k] <= Capture!Beyond(list, base, keys)
           /\ (\A k \in keys : list[k].bytes = base[k]) => Capture!Beyond(list, base, keys) = 0
  <1> DEFINE t == Excess(list, base, keys)
             u == Capture!Beyond(list, base, keys)
  <1>1. Sums!IsFiniteSet(keys) /\ \A k \in keys : t[k] \in Nat /\ t[k] = list[k].bytes - base[k]
    BY RowKeysFinite, ExcessNat
  <1>2. u = Sums!Sum(t, keys)
    BY <1>1, BeyondIsSum
  <1> HIDE DEF t, u
  <1>3. u \in Nat
    BY <1>1, <1>2, Sums!SumNat
  <1>4. ASSUME NEW k \in keys
        PROVE  list[k].bytes - base[k] <= u
    <2>1. k \in keys /\ t[k] \in Nat /\ t[k] = list[k].bytes - base[k]
      BY <1>1
    <2>2. {k} \subseteq keys /\ \A x \in {k} : t[x] \in Nat /\ t[x] <= t[x]
      BY <2>1
    <2>3. Sums!Sum(t, {k}) <= Sums!Sum(t, keys)
      BY <1>1, <2>2, Sums!SumMonotone
    <2>b. {k} \in SUBSET Capture!RowKeys
      OBVIOUS
    <2>4. Sums!IsFiniteSet({k})
      BY <2>b, RowKeysFinite
    <2>a. \A x \in {k} : t[x] = IF x = k THEN t[k] ELSE 0
      OBVIOUS
    <2>5. Sums!Sum(t, {k}) = IF k \in {k} THEN t[k] ELSE 0
      BY <2>1, <2>4, <2>a, Sums!SumUnit
    <2>6. QED
      BY <1>2, <2>1, <2>3, <2>5
  <1>5. ASSUME \A k \in keys : list[k].bytes = base[k]
        PROVE  u = 0
    <2>1. \A k \in keys : t[k] = 0 /\ t[k] \in Nat
      BY <1>1, <1>5, ExcessNat DEF t, Grown
    <2>2. {} \subseteq keys /\ (\A k \in keys \ {} : t[k] = 0) /\ (\A k \in {} : t[k] \in Nat /\ t[k] = t[k])
      BY <2>1
    <2>3. Sums!Sum(t, {}) = Sums!Sum(t, keys)
      BY <1>1, <2>1, <2>2, Sums!SumSame
    <2>4. Sums!Sum(t, {}) = 0
      BY Sums!SumEmpty
    <2>5. QED
      BY <1>2, <2>3, <2>4
  <1>6. QED
    BY <1>3, <1>4, <1>5 DEF u

\* Rows that grew by the same have the same excess.
LEMMA BeyondSame ==
    ASSUME NEW keys \in SUBSET Capture!RowKeys, NEW list, NEW base, NEW more, NEW low,
           \A k \in keys : list[k].bytes - base[k] = more[k].bytes - low[k]
    PROVE  Capture!Beyond(list, base, keys) = Capture!Beyond(more, low, keys)
  <1>1. Sums!IsFiniteSet(keys)
    BY RowKeysFinite
  <1>2. Excess(list, base, keys) = Excess(more, low, keys)
    BY DEF Excess
  <1>3. /\ Capture!Beyond(list, base, keys) = Sums!Sum(Excess(list, base, keys), keys)
        /\ Capture!Beyond(more, low, keys) = Sums!Sum(Excess(more, low, keys), keys)
    BY <1>1, BeyondIsSum
  <1>4. QED
    BY <1>2, <1>3

LEMMA BeyondSplits ==
    ASSUME NEW keys \in SUBSET Capture!RowKeys, NEW list, NEW base, Grown(list, base, keys),
           NEW part \in SUBSET keys
    PROVE  Capture!Beyond(list, base, keys)
             = Capture!Beyond(list, base, part) + Capture!Beyond(list, base, keys \ part)
  <1> DEFINE t == Excess(list, base, keys)
             rest == keys \ part
  <1>1. Sums!IsFiniteSet(keys) /\ Sums!IsFiniteSet(part) /\ Sums!IsFiniteSet(rest)
    <2>1. part \in SUBSET Capture!RowKeys /\ rest \in SUBSET Capture!RowKeys
      OBVIOUS
    <2> HIDE DEF rest
    <2>2. QED
      BY <2>1, RowKeysFinite
  <1>2. \A k \in keys : t[k] \in Nat
    BY ExcessNat
  <1>3. /\ \A k \in part : Excess(list, base, part)[k] = t[k] /\ t[k] \in Nat
        /\ \A k \in rest : Excess(list, base, rest)[k] = t[k] /\ t[k] \in Nat
    BY <1>2 DEF Excess
  <1>4. keys = part \cup rest /\ part \cap rest = {}
    OBVIOUS
  <1>5. /\ Capture!Beyond(list, base, keys) = Sums!Sum(t, keys)
        /\ Capture!Beyond(list, base, part) = Sums!Sum(Excess(list, base, part), part)
        /\ Capture!Beyond(list, base, rest) = Sums!Sum(Excess(list, base, rest), rest)
    BY <1>1, BeyondIsSum
  <1> HIDE DEF t, rest
  <1>6. part \subseteq part /\ (\A k \in part \ part : t[k] = 0) /\ rest \subseteq rest /\ (\A k \in rest \ rest : t[k] = 0)
    OBVIOUS
  <1>7. Sums!Sum(Excess(list, base, part), part) = Sums!Sum(t, part)
    BY <1>1, <1>3, <1>6, Sums!SumSame
  <1>8. Sums!Sum(Excess(list, base, rest), rest) = Sums!Sum(t, rest)
    BY <1>1, <1>3, <1>6, Sums!SumSame
  <1>9. Sums!Sum(t, part \cup rest) = Sums!Sum(t, part) + Sums!Sum(t, rest)
    BY <1>1, <1>2, <1>4, Sums!SumUnion
  <1>10. QED
    BY <1>4, <1>5, <1>7, <1>8, <1>9 DEF rest

LEMMA BeyondLess ==
    ASSUME NEW keys \in SUBSET Capture!RowKeys, NEW list, NEW base, NEW low, Grown(list, base, keys),
           Grown(list, low, keys), \A k \in keys : low[k] <= base[k]
    PROVE  Capture!Beyond(list, base, keys) <= Capture!Beyond(list, low, keys)
  <1> DEFINE t == Excess(list, base, keys)
             u == Excess(list, low, keys)
  <1>1. Sums!IsFiniteSet(keys)
    BY RowKeysFinite
  <1>2. \A k \in keys : t[k] \in Nat /\ u[k] \in Nat /\ t[k] <= u[k]
    BY ExcessNat DEF Grown
  <1>3. Capture!Beyond(list, base, keys) = Sums!Sum(t, keys) /\ Capture!Beyond(list, low, keys) = Sums!Sum(u, keys)
    BY <1>1, BeyondIsSum
  <1>4. keys \subseteq keys
    OBVIOUS
  <1> HIDE DEF t, u
  <1>5. Sums!Sum(t, keys) <= Sums!Sum(u, keys)
    BY <1>1, <1>2, <1>4, Sums!SumMonotone
  <1>6. QED
    BY <1>3, <1>5

LEMMA BeyondOne ==
    ASSUME NEW k \in Capture!RowKeys, NEW list, NEW base, Grown(list, base, {k})
    PROVE  Capture!Beyond(list, base, {k}) = list[k].bytes - base[k]
  <1> DEFINE t == Excess(list, base, {k})
  <1>1. t[k] \in Nat /\ t[k] = list[k].bytes - base[k] /\ \A x \in {k} : t[x] = IF x = k THEN t[k] ELSE 0
    BY ExcessNat
  <1>2. Sums!IsFiniteSet({k})
    BY Sums!FS_Singleton
  <1>3. Capture!Beyond(list, base, {k}) = Sums!Sum(t, {k})
    BY <1>2, BeyondIsSum
  <1> HIDE DEF t
  <1>4. Sums!Sum(t, {k}) = IF k \in {k} THEN t[k] ELSE 0
    BY <1>1, <1>2, Sums!SumUnit
  <1>5. QED
    BY <1>1, <1>3, <1>4

LEMMA BeyondNone ==
    ASSUME NEW list, NEW base
    PROVE  Capture!Beyond(list, base, {}) = 0
  <1>1. Sums!IsFiniteSet({})
    BY Sums!FS_EmptySet
  <1>2. Capture!Beyond(list, base, {}) = Sums!Sum(Excess(list, base, {}), {})
    BY <1>1, BeyondIsSum
  <1>3. QED
    BY <1>2, Sums!SumEmpty

-----------------------------------------------------------------------------
\* The values of a snapshot, its rows, and those of exited processes.
SizeOf(list) == [k \in Capture!RowKeys |-> IF list[k] = Nothing THEN 0 ELSE list[k].bytes]
Here(list) == {k \in Capture!RowKeys : list[k] # Nothing}
Dead(list) == {p \in Processes : list[p] # Nothing /\ ~list[p].active}

Counts(list) == \A k \in Capture!RowKeys : list[k] # Nothing => list[k].bytes \in Nat
Values(base) == \A k \in Capture!RowKeys : base[k] \in Nat

\* A list of rows goes on from known values: no row has lost anything, what was
\* counted since is in the rows, and only rows of exited processes are gone.
Ahead(base, dead, total, list, last) ==
    /\ \A k \in Here(list) : base[k] <= list[k].bytes
    /\ last = total + Capture!Beyond(list, base, Here(list))
    /\ \A k \in Capture!RowKeys : list[k] = Nothing => base[k] = 0 \/ k \in dead

LEMMA AheadGrown ==
    ASSUME NEW base, NEW list, Values(base), Counts(list), \A k \in Here(list) : base[k] <= list[k].bytes
    PROVE  Grown(list, base, Here(list)) /\ Here(list) \in SUBSET Capture!RowKeys
  BY DEF Grown, Values, Counts, Here

LEMMA AheadUpTo ==
    ASSUME NEW base, NEW dead, NEW total \in Nat, NEW list, NEW last, Values(base), Counts(list),
           Ahead(base, dead, total, list, last)
    PROVE  /\ Capture!Beyond(list, base, Here(list)) \in Nat
           /\ last \in Nat /\ total <= last
           /\ \A k \in Here(list) : list[k].bytes - base[k] <= last - total
  <1>1. Grown(list, base, Here(list)) /\ Here(list) \in SUBSET Capture!RowKeys
    BY AheadGrown DEF Ahead
  <1>2. Capture!Beyond(list, base, Here(list)) \in Nat
        /\ \A k \in Here(list) : list[k].bytes - base[k] <= Capture!Beyond(list, base, Here(list))
    BY <1>1, BeyondNat
  <1>3. last = total + Capture!Beyond(list, base, Here(list))
    BY DEF Ahead
  <1>4. \A k \in Here(list) : list[k].bytes \in Nat /\ base[k] \in Nat
    BY <1>1 DEF Grown
  <1>5. QED
    BY <1>2, <1>3, <1>4

\* The values of a list go on as that list.
LEMMA AheadSelf ==
    ASSUME NEW list, NEW dead, NEW total \in Nat, Counts(list)
    PROVE  Ahead(SizeOf(list), dead, total, list, total) /\ Values(SizeOf(list))
  <1> DEFINE base == SizeOf(list)
  <1>1. Values(base) /\ \A k \in Here(list) : base[k] = list[k].bytes /\ base[k] \in Nat
    BY DEF SizeOf, Values, Counts, Here
  <1>2. \A k \in Capture!RowKeys : list[k] = Nothing => base[k] = 0
    BY DEF SizeOf
  <1> HIDE DEF base
  <1>3. \A k \in Here(list) : base[k] <= list[k].bytes
    BY <1>1
  <1>4. Grown(list, base, Here(list)) /\ Here(list) \in SUBSET Capture!RowKeys
    BY <1>1, <1>3, AheadGrown
  <1>5. Capture!Beyond(list, base, Here(list)) = 0
    BY <1>1, <1>4, BeyondNat
  <1>6. Ahead(base, dead, total, list, total)
    BY <1>2, <1>3, <1>5 DEF Ahead
  <1>7. QED
    BY <1>1, <1>6 DEF base

\* Only the counters of the rows matter, and more rows may be forgotten.
LEMMA AheadAlike ==
    ASSUME NEW base, NEW dead, NEW total, NEW list, NEW last, Ahead(base, dead, total, list, last),
           NEW low, NEW gone, NEW more,
           dead \subseteq gone, \A k \in Capture!RowKeys : low[k] = base[k],
           \A k \in Capture!RowKeys : /\ list[k] = Nothing <=> more[k] = Nothing
                                      /\ list[k] # Nothing => more[k].bytes = list[k].bytes
    PROVE  Ahead(low, gone, total, more, last)
  <1>1. Here(more) = Here(list) /\ Here(list) \in SUBSET Capture!RowKeys
    BY DEF Here
  <1>2. \A k \in Here(list) : more[k].bytes = list[k].bytes /\ low[k] = base[k]
    BY DEF Here
  <1>3. \A k \in Here(list) : list[k].bytes - base[k] = more[k].bytes - low[k]
    BY <1>2
  <1>4. Capture!Beyond(list, base, Here(list)) = Capture!Beyond(more, low, Here(list))
    BY <1>1, <1>3, BeyondSame
  <1>5. last = total + Capture!Beyond(more, low, Here(more))
    BY <1>1, <1>4 DEF Ahead
  <1>6. \A k \in Here(more) : low[k] <= more[k].bytes
    BY <1>1, <1>2 DEF Ahead
  <1>7. \A k \in Capture!RowKeys : more[k] = Nothing => low[k] = 0 \/ k \in gone
    BY DEF Ahead
  <1>8. QED
    BY <1>5, <1>6, <1>7 DEF Ahead

\* A packet is counted in one row.
LEMMA AheadPacket ==
    ASSUME NEW base, NEW dead, NEW total \in Nat, NEW list, NEW last, Values(base), Counts(list),
           Ahead(base, dead, total, list, last),
           NEW more, NEW k \in Capture!RowKeys, more[k] # Nothing,
           \A x \in Capture!RowKeys : x # k => more[x] = list[x],
           IF list[k] = Nothing THEN base[k] = 0 /\ more[k].bytes = 1 ELSE more[k].bytes = list[k].bytes + 1
    PROVE  Ahead(base, dead, total, more, last + 1) /\ Counts(more)
  <1> DEFINE S == Here(list) \ {k}
  <1>1. Grown(list, base, Here(list)) /\ Here(list) \in SUBSET Capture!RowKeys /\ S \in SUBSET Here(list)
        /\ S \in SUBSET Capture!RowKeys
    BY AheadGrown DEF Ahead
  <1>2. Here(more) = S \cup {k} /\ Here(more) \in SUBSET Capture!RowKeys
    BY DEF Here
  <1>3. Counts(more)
    BY DEF Counts
  <1>4. \A x \in Here(more) : base[x] <= more[x].bytes
    <2>1. base[k] <= more[k].bytes
      <3>1. CASE list[k] = Nothing
        BY <3>1
      <3>2. CASE list[k] # Nothing
        <4>1. k \in Here(list) /\ base[k] <= list[k].bytes /\ base[k] \in Nat /\ list[k].bytes \in Nat
          BY <3>2 DEF Here, Ahead, Values, Counts
        <4>2. QED
          BY <3>2, <4>1
      <3>3. QED
        BY <3>1, <3>2
    <2>2. \A x \in S : base[x] <= more[x].bytes
      BY DEF Ahead, Here
    <2>3. QED
      BY <1>2, <2>1, <2>2
  <1>5. Grown(more, base, Here(more))
    BY <1>3, <1>4, AheadGrown
  <1>6. \A x \in S : list[x].bytes - base[x] = more[x].bytes - base[x]
    BY DEF Here
  <1> HIDE DEF S
  <1>7. Capture!Beyond(list, base, S) = Capture!Beyond(more, base, S)
    BY <1>1, <1>6, BeyondSame
  <1>8. Capture!Beyond(more, base, Here(more)) = Capture!Beyond(more, base, {k}) + Capture!Beyond(more, base, S)
    <2>1. {k} \in SUBSET Here(more) /\ Here(more) \ {k} = S
      BY <1>2 DEF S
    <2>2. Capture!Beyond(more, base, Here(more))
            = Capture!Beyond(more, base, {k}) + Capture!Beyond(more, base, Here(more) \ {k})
      BY <1>2, <1>5, <2>1, BeyondSplits
    <2>3. QED
      BY <2>1, <2>2
  <1>9. Capture!Beyond(more, base, {k}) = more[k].bytes - base[k] /\ more[k].bytes \in Nat /\ base[k] \in Nat
    <2>1. Grown(more, base, {k}) /\ k \in Here(more)
      BY <1>2, <1>5 DEF Grown
    <2>2. QED
      BY <2>1, BeyondOne DEF Grown
  <1>10. Grown(list, base, S) /\ Capture!Beyond(list, base, S) \in Nat
    <2>1. Grown(list, base, S)
      BY <1>1 DEF Grown
    <2>2. QED
      BY <1>1, <2>1, BeyondNat
  <1>11. CASE list[k] = Nothing
    <2>1. Here(list) = S
      BY <1>11 DEF S, Here
    <2>2. Capture!Beyond(more, base, Here(more)) = 1 + Capture!Beyond(list, base, Here(list))
      BY <1>7, <1>8, <1>9, <1>10, <1>11, <2>1
    <2>3. last + 1 = total + Capture!Beyond(more, base, Here(more))
      BY <1>10, <2>1, <2>2 DEF Ahead
    <2>4. QED
      BY <1>3, <1>4, <2>3 DEF Ahead
  <1>12. CASE list[k] # Nothing
    <2>1. k \in Here(list) /\ {k} \in SUBSET Here(list) /\ Here(list) \ {k} = S
      BY <1>12 DEF S, Here
    <2>2. Capture!Beyond(list, base, Here(list)) = Capture!Beyond(list, base, {k}) + Capture!Beyond(list, base, S)
      <3>1. Capture!Beyond(list, base, Here(list))
              = Capture!Beyond(list, base, {k}) + Capture!Beyond(list, base, Here(list) \ {k})
        BY <1>1, <2>1, BeyondSplits
      <3>2. QED
        BY <2>1, <3>1
    <2>3. Capture!Beyond(list, base, {k}) = list[k].bytes - base[k] /\ list[k].bytes \in Nat
      <3>1. Grown(list, base, {k})
        BY <1>1, <2>1 DEF Grown
      <3>2. QED
        BY <3>1, BeyondOne DEF Grown
    <2>4. more[k].bytes = list[k].bytes + 1
      BY <1>12
    <2>5. Capture!Beyond(more, base, Here(more)) = 1 + Capture!Beyond(list, base, Here(list))
          /\ Capture!Beyond(list, base, Here(list)) \in Nat
      <3> DEFINE m == more[k].bytes
                 l == list[k].bytes
                 w == Capture!Beyond(list, base, S)
      <3>1. m = l + 1 /\ l \in Nat /\ m \in Nat /\ base[k] \in Nat /\ w \in Nat /\ base[k] <= l
        BY <1>9, <1>10, <2>3, <2>4, <1>1, <2>1 DEF Grown
      <3>2. Capture!Beyond(more, base, Here(more)) = (m - base[k]) + w
            /\ Capture!Beyond(list, base, Here(list)) = (l - base[k]) + w
        BY <1>7, <1>8, <1>9, <2>2, <2>3
      <3> HIDE DEF m, l, w
      <3>3. QED
        BY <3>1, <3>2
    <2>6. last + 1 = total + Capture!Beyond(more, base, Here(more))
      BY <2>5 DEF Ahead
    <2>7. QED
      BY <1>3, <1>4, <2>6 DEF Ahead
  <1>13. QED
    BY <1>11, <1>12

\* Acknowledged rows go: what came after the acknowledgement goes on in another
\* row, which stays.
LEMMA AheadAcknowledge ==
    ASSUME NEW base, NEW dead, NEW total \in Nat, NEW list, NEW last, Values(base), Counts(list),
           Ahead(base, dead, total, list, last),
           "retired" \notin dead, NEW acks, NEW gone \in SUBSET (Here(list) \ {"retired"}), NEW more,
           \A k \in gone : /\ base[k] = acks[k] /\ k \in dead /\ more[k] = Nothing,
           \A k \in Capture!RowKeys : k \notin gone /\ k # "retired" => more[k] = list[k],
           more["retired"] # Nothing,
           more["retired"].bytes = (IF list["retired"] = Nothing THEN 0 ELSE list["retired"].bytes)
                                     + Capture!Beyond(list, acks, gone)
    PROVE  Ahead(base, dead, total, more, last) /\ Counts(more) /\ Capture!Beyond(list, acks, gone) \in Nat
  <1> DEFINE rest == Capture!Beyond(list, acks, gone)
             R == "retired"
             S == Here(list) \ (gone \cup {R})
  <1>1. Grown(list, base, Here(list)) /\ Here(list) \in SUBSET Capture!RowKeys /\ S \in SUBSET Here(list)
        /\ S \in SUBSET Capture!RowKeys /\ gone \in SUBSET Here(list) /\ gone \in SUBSET Capture!RowKeys
        /\ R \in Capture!RowKeys /\ R \notin gone
    BY AheadGrown DEF Ahead, Capture!RowKeys, Capture!Merged
  <1>2. rest = Capture!Beyond(list, base, gone)
    <2>1. \A k \in gone : list[k].bytes - base[k] = list[k].bytes - acks[k]
      OBVIOUS
    <2>2. QED
      BY <1>1, <2>1, BeyondSame
  <1>3. rest \in Nat
    <2>1. Grown(list, base, gone)
      BY <1>1 DEF Grown
    <2>2. QED
      BY <1>1, <1>2, <2>1, BeyondNat
  <1>4. Here(more) = S \cup {R} /\ Here(more) \in SUBSET Capture!RowKeys /\ Here(more) \ {R} = S
        /\ {R} \in SUBSET Here(more)
    BY <1>1 DEF Here
  <1>5. \A k \in S : more[k] = list[k] /\ list[k].bytes \in Nat /\ base[k] \in Nat /\ base[k] <= list[k].bytes
    BY <1>1 DEF Here, Grown
  <1>6. base[R] \in Nat /\ more[R].bytes \in Nat /\ base[R] <= more[R].bytes
        /\ more[R].bytes - base[R] = rest + (IF list[R] = Nothing THEN 0 ELSE list[R].bytes - base[R])
        /\ (list[R] # Nothing => list[R].bytes - base[R] \in Nat)
        /\ (list[R] # Nothing => base[R] <= list[R].bytes /\ list[R].bytes \in Nat)
    <2>1. base[R] \in Nat
      BY <1>1 DEF Values
    <2> DEFINE l == list[R].bytes
               m == more[R].bytes
    <2>2. CASE list[R] = Nothing
      <3>1. base[R] = 0 \/ R \in dead
        BY <1>1, <2>2 DEF Ahead
      <3>2. m = rest
        BY <2>2, <1>3
      <3>3. base[R] = 0
        BY <1>1, <2>2 DEF Ahead
      <3>4. QED
        BY <1>3, <2>2, <3>2, <3>3
    <2>3. CASE list[R] # Nothing
      <3>1. R \in Here(list)
        BY <1>1, <2>3 DEF Here
      <3>2. l \in Nat /\ base[R] <= l /\ m = l + rest
        BY <1>1, <2>3, <3>1 DEF Grown
      <3> HIDE DEF l, m, rest
      <3>3. m \in Nat /\ base[R] <= m /\ m - base[R] = rest + (l - base[R]) /\ l - base[R] \in Nat
        BY <1>3, <2>1, <3>2
      <3>4. QED
        BY <2>1, <2>3, <3>2, <3>3 DEF l, m
    <2>4. QED
      BY <2>2, <2>3
  <1>7. Counts(more)
    <2>1. ASSUME NEW k \in Capture!RowKeys, more[k] # Nothing
          PROVE  more[k].bytes \in Nat
      <3>1. k \in S \/ k = R
        BY <1>4, <2>1 DEF Here
      <3>2. QED
        BY <1>5, <1>6, <3>1
    <2>2. QED
      BY <2>1 DEF Counts
  <1>8. \A k \in Here(more) : base[k] <= more[k].bytes
    BY <1>4, <1>5, <1>6
  <1>9. Grown(more, base, Here(more))
    BY <1>7, <1>8, AheadGrown
  <1>10. Capture!Beyond(more, base, Here(more)) = Capture!Beyond(more, base, {R}) + Capture!Beyond(more, base, S)
    <2>1. Capture!Beyond(more, base, Here(more))
            = Capture!Beyond(more, base, {R}) + Capture!Beyond(more, base, Here(more) \ {R})
      BY <1>4, <1>9, BeyondSplits
    <2>2. QED
      BY <1>4, <2>1
  <1>11. Capture!Beyond(more, base, {R}) = more[R].bytes - base[R]
    <2>1. Grown(more, base, {R})
      BY <1>4, <1>9 DEF Grown
    <2>2. QED
      BY <1>1, <2>1, BeyondOne
  <1>12. Capture!Beyond(more, base, S) = Capture!Beyond(list, base, S)
         /\ Capture!Beyond(list, base, S) \in Nat
    <2>1. \A k \in S : list[k].bytes - base[k] = more[k].bytes - base[k]
      BY <1>5
    <2>2. Grown(list, base, S)
      BY <1>5 DEF Grown
    <2> HIDE DEF S
    <2>3. QED
      BY <1>1, <2>1, <2>2, BeyondNat, BeyondSame
  <1>13. Capture!Beyond(list, base, Here(list)) = rest + Capture!Beyond(list, base, Here(list) \ gone)
    BY <1>1, <1>2, BeyondSplits
  <1>14. Capture!Beyond(list, base, Here(list) \ gone)
           = (IF list[R] = Nothing THEN 0 ELSE list[R].bytes - base[R]) + Capture!Beyond(list, base, S)
    <2>1. CASE list[R] = Nothing
      <3>1. Here(list) \ gone = S
        BY <2>1 DEF Here
      <3>2. QED
        BY <1>12, <2>1, <3>1
    <2>2. CASE list[R] # Nothing
      <3> DEFINE T == Here(list) \ gone
      <3>1. T \in SUBSET Capture!RowKeys /\ {R} \in SUBSET T /\ T \ {R} = S /\ Grown(list, base, T)
            /\ Grown(list, base, {R})
        <4>1. T \in SUBSET Here(list) /\ R \in T
          BY <1>1, <2>2 DEF Here
        <4>2. T \ {R} = S
          OBVIOUS
        <4>3. QED
          BY <1>1, <4>1, <4>2 DEF Grown
      <3> HIDE DEF T, S
      <3>2. Capture!Beyond(list, base, T) = Capture!Beyond(list, base, {R}) + Capture!Beyond(list, base, T \ {R})
        BY <3>1, BeyondSplits
      <3>3. Capture!Beyond(list, base, {R}) = list[R].bytes - base[R]
        BY <1>1, <3>1, BeyondOne
      <3>4. QED
        BY <2>2, <3>1, <3>2, <3>3 DEF T
    <2>3. QED
      BY <2>1, <2>2
  <1>15. last = total + Capture!Beyond(more, base, Here(more))
    <2> DEFINE a == IF list[R] = Nothing THEN 0 ELSE list[R].bytes - base[R]
               b == Capture!Beyond(list, base, S)
               c == Capture!Beyond(list, base, Here(list))
               d == Capture!Beyond(more, base, Here(more))
    <2>1. a \in Nat
      BY <1>6
    <2>2. c = rest + (a + b)
      BY <1>13, <1>14
    <2>3. d = (rest + a) + b
      BY <1>6, <1>10, <1>11, <1>12
    <2>4. last = total + c /\ b \in Nat
      BY <1>12 DEF Ahead
    <2> HIDE DEF a, b, c, d, rest
    <2>5. last = total + d
      BY <1>3, <2>1, <2>2, <2>3, <2>4
    <2>6. QED
      BY <2>5 DEF d
  <1>16. \A k \in Capture!RowKeys : more[k] = Nothing => base[k] = 0 \/ k \in dead
    BY DEF Ahead
  <1>17. Ahead(base, dead, total, more, last)
    BY <1>8, <1>15, <1>16 DEF Ahead
  <1>18. QED
    BY <1>3, <1>7, <1>17

\* The row of an exited process is gone for good.
Keeps(p, list, proc) == proc[p] = "exited" /\ list["retired"] # Nothing

\* The helper's rows go on from known values.  What was published and acknowledged
\* of its rows is in those values.
Carried(base, dead, total, list, last, acks, proc) ==
    /\ Ahead(base, dead, total, list, last)
    /\ \A k \in Here(list) : base[k] <= list[k].published
    /\ \A p \in Processes : list[p] = Nothing /\ base[p] # 0 => Keeps(p, list, proc)
    /\ \A p \in Processes : acks[p] # Nothing /\ list[p] # Nothing => acks[p] <= base[p] /\ p \in dead

Zeros == [k \in Capture!RowKeys |-> 0]

\* The helper's rows and the acknowledgements on their way to it.
Tracked(list, last, acks, proc) ==
    /\ Capture!Beyond(list, Zeros, Here(list)) <= last
    /\ \A k \in Here(list) : list[k].published <= list[k].bytes
    /\ \A p \in Processes : list[p] # Nothing => list[p].bytes >= 1 /\ (~list[p].active => proc[p] = "exited")
    /\ \A p \in Processes : acks[p] # Nothing =>
          IF list[p] = Nothing THEN Keeps(p, list, proc)
          ELSE ~list[p].active /\ acks[p] <= list[p].published

Listed(list) ==
    \A k \in Capture!RowKeys : list[k] # Nothing =>
        list[k].bytes \in Nat /\ list[k].published \in Nat /\ list[k].active \in BOOLEAN

LEMMA ListedCounts == ASSUME NEW list, Listed(list) PROVE Counts(list)
  BY DEF Listed, Counts

LEMMA RowKeysAre ==
    /\ Processes \subseteq Capture!RowKeys /\ "retired" \in Capture!RowKeys /\ "unknown" \in Capture!RowKeys
    /\ "retired" \notin Processes /\ "unknown" \notin Processes
    /\ \A k \in Capture!RowKeys : k \in Processes \/ k = "retired" \/ k = "unknown"
  BY CaptureAssumption DEF Capture!RowKeys, Capture!Merged

LEMMA CarriedPacket ==
    ASSUME NEW base, NEW dead \in SUBSET Processes, NEW total \in Nat, NEW list, NEW last, NEW acks, NEW proc,
           Values(base), Listed(list), Carried(base, dead, total, list, last, acks, proc),
           NEW more, NEW k \in Capture!RowKeys, more[k] # Nothing,
           \A x \in Capture!RowKeys : x # k => more[x] = list[x],
           IF list[k] = Nothing
           THEN /\ more[k].bytes = 1 /\ more[k].published = 0
                /\ k \in Processes => ~Keeps(k, list, proc) /\ acks[k] = Nothing
           ELSE more[k].bytes = list[k].bytes + 1 /\ more[k].published = list[k].published
    PROVE  Carried(base, dead, total, more, last + 1, acks, proc)
  <1>1. list[k] = Nothing => base[k] = 0
    <2>1. CASE k \in Processes
      BY <2>1 DEF Carried
    <2>2. CASE k \notin Processes
      BY <2>2 DEF Carried, Ahead
    <2>3. QED
      BY <2>1, <2>2
  <1>2. Ahead(base, dead, total, more, last + 1)
    <2>1. Counts(list) /\ Ahead(base, dead, total, list, last)
      BY ListedCounts DEF Carried
    <2>2. IF list[k] = Nothing THEN base[k] = 0 /\ more[k].bytes = 1 ELSE more[k].bytes = list[k].bytes + 1
      BY <1>1
    <2>3. QED
      BY <2>1, <2>2, AheadPacket
  <1>3. ASSUME NEW x \in Here(more)
        PROVE  base[x] <= more[x].published
    <2>1. x \in Capture!RowKeys
      BY DEF Here
    <2>2. CASE x # k
      BY <2>1, <2>2 DEF Carried, Here
    <2>3. CASE x = k
      <3>1. CASE list[k] = Nothing
        BY <1>1, <2>3, <3>1
      <3>2. CASE list[k] # Nothing
        BY <2>1, <2>3, <3>2 DEF Carried, Here
      <3>3. QED
        BY <3>1, <3>2
    <2>4. QED
      BY <2>2, <2>3
  <1>4. list["retired"] # Nothing => more["retired"] # Nothing
    BY RowKeysAre
  <1>5. ASSUME NEW p \in Processes
        PROVE  /\ more[p] = Nothing /\ base[p] # 0 => Keeps(p, more, proc)
               /\ acks[p] # Nothing /\ more[p] # Nothing => acks[p] <= base[p] /\ p \in dead
    <2>1. p \in Capture!RowKeys
      BY RowKeysAre
    <2>2. more[p] = Nothing => list[p] = Nothing /\ p # k
      BY <2>1
    <2>3. more[p] # Nothing => list[p] # Nothing \/ acks[p] = Nothing
      BY <2>1
    <2>4. QED
      BY <1>4, <2>2, <2>3 DEF Carried, Keeps
  <1>6. QED
    BY <1>2, <1>3, <1>5 DEF Carried

\* A snapshot publishes the rows.
Published(list, more) ==
    \A k \in Capture!RowKeys : /\ list[k] = Nothing <=> more[k] = Nothing
                               /\ list[k] # Nothing => /\ more[k].bytes = list[k].bytes
                                                       /\ more[k].published = list[k].bytes

LEMMA CarriedSnapshot ==
    ASSUME NEW base, NEW dead, NEW total, NEW list, NEW last, NEW acks, NEW proc,
           Carried(base, dead, total, list, last, acks, proc), NEW more, Published(list, more)
    PROVE  Carried(base, dead, total, more, last, acks, proc)
  <1>1. Ahead(base, dead, total, more, last)
    <2>1. /\ Ahead(base, dead, total, list, last) /\ dead \subseteq dead
          /\ \A k \in Capture!RowKeys : base[k] = base[k]
          /\ \A k \in Capture!RowKeys : /\ list[k] = Nothing <=> more[k] = Nothing
                                        /\ list[k] # Nothing => more[k].bytes = list[k].bytes
      BY DEF Carried, Published
    <2>2. QED
      BY <2>1, AheadAlike
  <1>2. \A k \in Here(more) : base[k] <= more[k].published
    BY DEF Carried, Ahead, Here, Published
  <1>3. \A p \in Processes : (list[p] = Nothing <=> more[p] = Nothing) /\ (Keeps(p, list, proc) => Keeps(p, more, proc))
    BY RowKeysAre DEF Published, Keeps
  <1>4. QED
    BY <1>1, <1>2, <1>3 DEF Carried

\* What was published goes on as the rows.
LEMMA CarriedPublished ==
    ASSUME NEW list, NEW last \in Nat, NEW acks, NEW proc, Tracked(list, last, acks, proc), Listed(list),
           NEW more, Published(list, more),
           NEW seen, \A k \in Capture!RowKeys : /\ list[k] = Nothing <=> seen[k] = Nothing
                                                /\ list[k] # Nothing => seen[k].bytes = list[k].bytes,
           \A p \in Processes : list[p] # Nothing /\ ~list[p].active => ~seen[p].active,
           \A p \in Processes : acks[p] # Nothing => acks[p] \in Nat
    PROVE  Carried(SizeOf(seen), Dead(seen), last, more, last, acks, proc)
  <1> DEFINE base == SizeOf(seen)
             dead == Dead(seen)
  <1>1. Counts(list) /\ Counts(seen)
    BY DEF Listed, Counts
  <1>2. Ahead(base, dead, last, more, last)
    <2>1. Ahead(base, dead, last, seen, last)
      BY <1>1, AheadSelf
    <2>2. dead \subseteq dead /\ (\A k \in Capture!RowKeys : base[k] = base[k])
          /\ \A k \in Capture!RowKeys : /\ seen[k] = Nothing <=> more[k] = Nothing
                                        /\ seen[k] # Nothing => more[k].bytes = seen[k].bytes
      BY DEF Published
    <2> HIDE DEF base, dead
    <2>3. QED
      BY <2>1, <2>2, AheadAlike
  <1>3. \A k \in Capture!RowKeys : base[k] = IF list[k] = Nothing THEN 0 ELSE list[k].bytes
    BY DEF SizeOf
  <1>4. \A p \in Processes : list[p] # Nothing /\ ~list[p].active => p \in dead
    BY RowKeysAre DEF Dead
  <1> HIDE DEF base, dead
  <1>5. ASSUME NEW k \in Here(more)
        PROVE  base[k] <= more[k].published
    <2>1. k \in Capture!RowKeys /\ list[k] # Nothing /\ list[k].bytes \in Nat
      BY DEF Here, Published, Listed
    <2>2. base[k] = list[k].bytes /\ more[k].published = list[k].bytes
      BY <1>3, <2>1 DEF Published
    <2>3. QED
      BY <2>1, <2>2
  <1>6. ASSUME NEW p \in Processes
        PROVE  /\ more[p] = Nothing /\ base[p] # 0 => Keeps(p, more, proc)
               /\ acks[p] # Nothing /\ more[p] # Nothing => acks[p] <= base[p] /\ p \in dead
    <2>1. p \in Capture!RowKeys /\ (list[p] = Nothing <=> more[p] = Nothing)
      BY RowKeysAre DEF Published
    <2>2. CASE list[p] = Nothing
      BY <1>3, <2>1, <2>2
    <2>3. CASE list[p] # Nothing
      <3>1. ASSUME acks[p] # Nothing
            PROVE  acks[p] <= base[p] /\ p \in dead
        <4>1. ~list[p].active /\ acks[p] <= list[p].published
          BY <2>3, <3>1 DEF Tracked
        <4>2. p \in Here(list)
          BY <2>1, <2>3 DEF Here
        <4>3. list[p].published <= list[p].bytes /\ base[p] = list[p].bytes
          BY <1>3, <2>1, <2>3, <4>2 DEF Tracked
        <4>4. acks[p] \in Nat /\ list[p].published \in Nat /\ list[p].bytes \in Nat
          BY <2>1, <2>3, <3>1 DEF Listed
        <4>5. p \in dead
          BY <1>4, <2>3, <4>1
        <4>6. acks[p] <= base[p]
          BY <4>1, <4>3, <4>4
        <4>7. QED
          BY <4>5, <4>6
      <3>2. QED
        BY <2>1, <2>3, <3>1
    <2>4. QED
      BY <2>2, <2>3
  <1>7. Carried(base, dead, last, more, last, acks, proc)
    BY <1>2, <1>5, <1>6 DEF Carried
  <1>8. QED
    BY <1>7 DEF base, dead

\* The rows that an acknowledgement removes, and the list after it.
GoneOf(list, acks) ==
    {p \in Processes : acks[p] # Nothing /\ list[p] # Nothing /\ Capture!Current(list[p], acks[p])}

Acknowledged(list, acks) ==
    LET gone == GoneOf(list, acks)
        rest == Capture!Beyond(list, acks, gone)
    IN  [k \in Capture!RowKeys |-> IF k \in gone THEN Nothing
                                   ELSE IF k = "retired" /\ gone # {} THEN Capture!Added(list[k], FALSE, rest)
                                   ELSE list[k]]

NumberRow == [bytes : Nat, active : BOOLEAN, published : Nat]

LEMMA AcknowledgedRows ==
    ASSUME NEW list \in [Capture!RowKeys -> NumberRow \cup {Nothing}], NEW acks, GoneOf(list, acks) # {},
           \A p \in Processes : acks[p] # Nothing => acks[p] \in Nat
    PROVE  LET gone == GoneOf(list, acks)
               rest == Capture!Beyond(list, acks, gone)
               more == Acknowledged(list, acks)
           IN  /\ rest \in Nat
               /\ \A k \in gone : more[k] = Nothing
               /\ \A k \in Capture!RowKeys : k \notin gone /\ k # "retired" => more[k] = list[k]
               /\ more["retired"] \in NumberRow /\ more["retired"] # Nothing
               /\ more["retired"].bytes = (IF list["retired"] = Nothing THEN 0 ELSE list["retired"].bytes) + rest
               /\ more["retired"].published = (IF list["retired"] = Nothing THEN 0 ELSE list["retired"].published)
               /\ more["retired"].active = (IF list["retired"] = Nothing THEN FALSE ELSE list["retired"].active)
  <1> DEFINE gone == GoneOf(list, acks)
             rest == Capture!Beyond(list, acks, gone)
             more == Acknowledged(list, acks)
             R == "retired"
  <1>1. gone \in SUBSET Capture!RowKeys /\ R \notin gone /\ R \in Capture!RowKeys
    BY RowKeysAre DEF GoneOf
  <1>2. Grown(list, acks, gone)
    <2>1. ASSUME NEW p \in gone
          PROVE  list[p].bytes \in Nat /\ acks[p] \in Nat /\ acks[p] <= list[p].bytes
      <3>1. p \in Capture!RowKeys /\ list[p] \in NumberRow /\ acks[p] \in Nat /\ Capture!Current(list[p], acks[p])
        BY <1>1 DEF GoneOf
      <3>2. QED
        BY <3>1 DEF NumberRow, Capture!Current
    <2>2. QED
      BY <2>1 DEF Grown
  <1>3. rest \in Nat
    <2> HIDE DEF gone
    <2>1. QED
      BY <1>1, <1>2, BeyondNat
  <1>4. gone # {} /\ more = [k \in Capture!RowKeys |-> IF k \in gone THEN Nothing
                                   ELSE IF k = "retired" /\ gone # {} THEN Capture!Added(list[k], FALSE, rest)
                                   ELSE list[k]]
    BY DEF Acknowledged
  <1> HIDE DEF gone, rest, more
  <1>5. more[R] = Capture!Added(list[R], FALSE, rest)
    BY <1>1, <1>4
  <1>6. /\ more[R] \in NumberRow
        /\ more[R].bytes = (IF list[R] = Nothing THEN 0 ELSE list[R].bytes) + rest
        /\ more[R].published = (IF list[R] = Nothing THEN 0 ELSE list[R].published)
        /\ more[R].active = (IF list[R] = Nothing THEN FALSE ELSE list[R].active)
    <2>1. CASE list[R] = Nothing
      <3>1. more[R] = [bytes |-> rest, active |-> FALSE, published |-> 0]
        BY <1>5, <2>1 DEF Capture!Added
      <3>2. QED
        BY <1>3, <2>1, <3>1 DEF NumberRow
    <2>2. CASE list[R] # Nothing
      <3>1. list[R] \in NumberRow
        BY <1>1, <2>2
      <3>2. more[R] = [list[R] EXCEPT !.bytes = @ + rest]
        BY <1>5, <2>2 DEF Capture!Added
      <3>3. QED
        BY <1>3, <2>2, <3>1, <3>2 DEF NumberRow
    <2>3. QED
      BY <2>1, <2>2
  <1>7. more[R] # Nothing
    BY <1>6, CaptureAssumption DEF NumberRow
  <1>8. (\A k \in gone : more[k] = Nothing)
        /\ \A k \in Capture!RowKeys : k \notin gone /\ k # "retired" => more[k] = list[k]
    BY <1>1, <1>4
  <1>9. QED
    BY <1>3, <1>6, <1>7, <1>8 DEF more, rest, gone

LEMMA AcknowledgedNone ==
    ASSUME NEW list \in [Capture!RowKeys -> NumberRow \cup {Nothing}], NEW acks, GoneOf(list, acks) = {}
    PROVE  Acknowledged(list, acks) = list
  <1>1. Acknowledged(list, acks) = [k \in Capture!RowKeys |-> list[k]]
    BY DEF Acknowledged
  <1>2. QED
    BY <1>1

NoAcks == [p \in Processes |-> Nothing]

LEMMA CarriedAcknowledge ==
    ASSUME NEW base, NEW dead \in SUBSET Processes, NEW total \in Nat,
           NEW list \in [Capture!RowKeys -> NumberRow \cup {Nothing}],
           NEW last, NEW acks, NEW proc, \A p \in Processes : acks[p] # Nothing => acks[p] \in Nat,
           Values(base), Carried(base, dead, total, list, last, acks, proc), Tracked(list, last, acks, proc)
    PROVE  Carried(base, dead, total, Acknowledged(list, acks), last, NoAcks, proc)
  <1> DEFINE gone == GoneOf(list, acks)
             rest == Capture!Beyond(list, acks, gone)
             more == Acknowledged(list, acks)
  <1>1. Listed(list)
    BY DEF Listed, NumberRow
  <1>2. \A p \in Processes : NoAcks[p] = Nothing
    BY DEF NoAcks
  <1>3. CASE gone = {}
    <2>1. more = list
      BY <1>3, AcknowledgedNone
    <2>2. QED
      BY <1>2, <2>1 DEF Carried
  <1>4. CASE gone # {}
    <2>1. /\ rest \in Nat
          /\ \A k \in gone : more[k] = Nothing
          /\ \A k \in Capture!RowKeys : k \notin gone /\ k # "retired" => more[k] = list[k]
          /\ more["retired"] \in NumberRow /\ more["retired"] # Nothing
          /\ more["retired"].bytes = (IF list["retired"] = Nothing THEN 0 ELSE list["retired"].bytes) + rest
          /\ more["retired"].published = (IF list["retired"] = Nothing THEN 0 ELSE list["retired"].published)
      BY <1>4, AcknowledgedRows
    <2>2. ASSUME NEW p \in gone
          PROVE  base[p] = acks[p] /\ p \in dead /\ p \in Processes /\ p \in Here(list) /\ proc[p] = "exited"
      <3>1. p \in Processes /\ p \in Capture!RowKeys /\ acks[p] # Nothing /\ list[p] # Nothing
            /\ Capture!Current(list[p], acks[p])
        BY RowKeysAre DEF GoneOf
      <3>2. p \in Here(list) /\ list[p] \in NumberRow /\ acks[p] \in Nat /\ base[p] \in Nat
        BY <3>1 DEF Here, Values
      <3>3. acks[p] <= base[p] /\ p \in dead /\ base[p] <= list[p].published
        BY <3>1, <3>2 DEF Carried
      <3>4. acks[p] >= list[p].published /\ ~list[p].active
        BY <3>1 DEF Capture!Current
      <3>5. base[p] = acks[p]
        BY <3>2, <3>3, <3>4 DEF NumberRow
      <3>6. proc[p] = "exited"
        BY <3>1, <3>4 DEF Tracked
      <3>7. QED
        BY <3>1, <3>2, <3>3, <3>5, <3>6
    <2> HIDE DEF gone, rest, more
    <2>3. Ahead(base, dead, total, more, last)
      <3>1. Counts(list) /\ Ahead(base, dead, total, list, last) /\ "retired" \notin dead
            /\ gone \in SUBSET (Here(list) \ {"retired"})
        BY <1>1, <2>2, ListedCounts, RowKeysAre DEF Carried
      <3>2. \A k \in gone : base[k] = acks[k] /\ k \in dead /\ more[k] = Nothing
        BY <2>1, <2>2
      <3>3. more["retired"].bytes = (IF list["retired"] = Nothing THEN 0 ELSE list["retired"].bytes)
                                      + Capture!Beyond(list, acks, gone)
        BY <2>1 DEF rest
      <3>4. QED
        BY <2>1, <3>1, <3>2, <3>3, AheadAcknowledge
    <2>4. ASSUME NEW k \in Here(more)
          PROVE  base[k] <= more[k].published
      <3>1. k \in Capture!RowKeys /\ k \notin gone
        BY <2>1 DEF Here
      <3>2. CASE k # "retired"
        <4>1. more[k] = list[k] /\ k \in Here(list)
          BY <2>1, <3>1, <3>2 DEF Here
        <4>2. QED
          BY <4>1 DEF Carried
      <3>3. CASE k = "retired"
        <4>1. CASE list[k] # Nothing
          <5>1. k \in Here(list)
            BY <3>1, <4>1 DEF Here
          <5>2. QED
            BY <2>1, <3>3, <4>1, <5>1 DEF Carried
        <4>2. CASE list[k] = Nothing
          <5>1. base[k] = 0
            BY <3>1, <3>3, <4>2, RowKeysAre DEF Carried, Ahead
          <5>2. more[k].published = 0
            BY <2>1, <3>3, <4>2
          <5>3. QED
            BY <5>1, <5>2
        <4>3. QED
          BY <4>1, <4>2
      <3>4. QED
        BY <3>2, <3>3
    <2>5. ASSUME NEW p \in Processes, more[p] = Nothing, base[p] # 0
          PROVE  Keeps(p, more, proc)
      <3>1. CASE p \in gone
        BY <2>1, <2>2, <3>1 DEF Keeps
      <3>2. CASE p \notin gone
        <4>1. list[p] = Nothing
          BY <2>1, <2>5, <3>2, RowKeysAre
        <4>2. Keeps(p, list, proc)
          BY <2>5, <4>1 DEF Carried
        <4>3. QED
          BY <2>1, <4>2 DEF Keeps
      <3>3. QED
        BY <3>1, <3>2
    <2>6. Carried(base, dead, total, more, last, NoAcks, proc)
      BY <1>2, <2>3, <2>4, <2>5 DEF Carried
    <2>7. QED
      BY <2>6 DEF more
  <1>5. QED
    BY <1>3, <1>4

\* Processes exit, and are not started again.
LEMMA CarriedRuns ==
    ASSUME NEW base, NEW dead, NEW total, NEW list, NEW last, NEW acks, NEW proc, NEW now,
           Carried(base, dead, total, list, last, acks, proc),
           \A p \in Processes : proc[p] = "exited" => now[p] = "exited"
    PROVE  Carried(base, dead, total, list, last, acks, now)
  BY DEF Carried, Keeps

LEMMA TrackedRuns ==
    ASSUME NEW list, NEW last, NEW acks, NEW proc, NEW now, Tracked(list, last, acks, proc),
           \A p \in Processes : proc[p] = "exited" => now[p] = "exited"
    PROVE  Tracked(list, last, acks, now)
  BY DEF Tracked, Keeps

LEMMA TrackedBound ==
    ASSUME NEW list, NEW last \in Nat, NEW acks, NEW proc, Listed(list), Tracked(list, last, acks, proc)
    PROVE  \A k \in Here(list) : list[k].bytes \in 0..last /\ list[k].published \in 0..last
  <1>1. Here(list) \in SUBSET Capture!RowKeys /\ Grown(list, Zeros, Here(list))
        /\ \A k \in Here(list) : list[k].bytes \in Nat /\ list[k].published \in Nat /\ Zeros[k] = 0
    BY DEF Here, Grown, Listed, Zeros
  <1>2. /\ Capture!Beyond(list, Zeros, Here(list)) \in Nat
        /\ \A k \in Here(list) : list[k].bytes - Zeros[k] <= Capture!Beyond(list, Zeros, Here(list))
    BY <1>1, BeyondNat
  <1>3. Capture!Beyond(list, Zeros, Here(list)) <= last /\ \A k \in Here(list) : list[k].published <= list[k].bytes
    BY DEF Tracked
  <1>4. QED
    BY <1>1, <1>2, <1>3

LEMMA TrackedPacket ==
    ASSUME NEW list, NEW last \in Nat, NEW acks, NEW proc, Listed(list), Tracked(list, last, acks, proc),
           NEW more, NEW k \in Capture!RowKeys, more[k] # Nothing, more[k].active \in BOOLEAN,
           \A x \in Capture!RowKeys : x # k => more[x] = list[x],
           IF list[k] = Nothing
           THEN /\ more[k].bytes = 1 /\ more[k].published = 0
                /\ k \in Processes => /\ ~Keeps(k, list, proc)
                                      /\ ~more[k].active => proc[k] = "exited"
           ELSE /\ more[k].bytes = list[k].bytes + 1 /\ more[k].published = list[k].published
                /\ more[k].active = list[k].active
    PROVE  Tracked(more, last + 1, acks, proc) /\ Listed(more)
  <1> DEFINE u == Capture!Beyond(list, Zeros, Here(list))
             v == Capture!Beyond(more, Zeros, Here(more))
  <1>1. Values(Zeros) /\ Counts(list) /\ \A x \in Capture!RowKeys : Zeros[x] = 0
    BY ListedCounts DEF Values, Zeros
  <1>2. \A x \in Here(list) : Zeros[x] <= list[x].bytes
    BY <1>1 DEF Here, Counts
  <1>3. u \in Nat /\ u <= last
    <2>1. Grown(list, Zeros, Here(list)) /\ Here(list) \in SUBSET Capture!RowKeys
      BY <1>1, <1>2, AheadGrown
    <2>2. QED
      BY <2>1, BeyondNat DEF Tracked
  <1>4. v = u + 1
    <2>1. Ahead(Zeros, {}, 0, list, u)
      BY <1>1, <1>2, <1>3 DEF Ahead
    <2>2. IF list[k] = Nothing THEN Zeros[k] = 0 /\ more[k].bytes = 1 ELSE more[k].bytes = list[k].bytes + 1
      BY <1>1
    <2> HIDE DEF u
    <2>3. Ahead(Zeros, {}, 0, more, u + 1) /\ Counts(more)
      BY <1>1, <2>1, <2>2, AheadPacket
    <2>4. v \in Nat
      <3>1. Values(Zeros) /\ Counts(more) /\ \A x \in Here(more) : Zeros[x] <= more[x].bytes
        BY <1>1, <2>3 DEF Ahead
      <3>2. Grown(more, Zeros, Here(more)) /\ Here(more) \in SUBSET Capture!RowKeys
        BY <3>1, AheadGrown
      <3>3. QED
        BY <3>2, BeyondNat
    <2>5. u + 1 = 0 + v
      BY <2>3 DEF Ahead
    <2> HIDE DEF v
    <2>6. QED
      BY <1>3, <2>4, <2>5 DEF u
  <1>5. Listed(more)
    <2>1. ASSUME NEW x \in Capture!RowKeys, more[x] # Nothing
          PROVE  more[x].bytes \in Nat /\ more[x].published \in Nat /\ more[x].active \in BOOLEAN
      <3>1. CASE x # k
        BY <2>1, <3>1 DEF Listed
      <3>2. CASE x = k
        BY <2>1, <3>2 DEF Listed
      <3>3. QED
        BY <3>1, <3>2
    <2>2. QED
      BY <2>1 DEF Listed
  <1>6. v <= last + 1
    <2> HIDE DEF u, v
    <2>1. QED
      BY <1>3, <1>4
  <1>7. ASSUME NEW x \in Here(more)
        PROVE  more[x].published <= more[x].bytes
    <2>1. x \in Capture!RowKeys
      BY DEF Here
    <2>2. CASE x # k
      BY <2>1, <2>2 DEF Tracked, Here
    <2>3. CASE x = k
      <3>1. CASE list[k] = Nothing
        BY <2>3, <3>1
      <3>2. CASE list[k] # Nothing
        <4>1. list[k].published <= list[k].bytes /\ list[k].bytes \in Nat /\ list[k].published \in Nat
          BY <2>1, <2>3, <3>2 DEF Tracked, Here, Listed
        <4>2. QED
          BY <2>3, <3>2, <4>1
      <3>3. QED
        BY <3>1, <3>2
    <2>4. QED
      BY <2>2, <2>3
  <1>8. ASSUME NEW p \in Processes, more[p] # Nothing
        PROVE  more[p].bytes >= 1 /\ (~more[p].active => proc[p] = "exited")
    <2>1. p \in Capture!RowKeys
      BY RowKeysAre
    <2>2. CASE p # k
      BY <1>8, <2>1, <2>2 DEF Tracked
    <2>3. CASE p = k
      <3>1. CASE list[k] = Nothing
        BY <2>3, <3>1
      <3>2. CASE list[k] # Nothing
        <4>1. list[k].bytes >= 1 /\ list[k].bytes \in Nat /\ (~list[k].active => proc[k] = "exited")
          BY <2>1, <2>3, <3>2 DEF Tracked, Listed
        <4>2. QED
          BY <2>3, <3>2, <4>1
      <3>3. QED
        BY <3>1, <3>2
    <2>4. QED
      BY <2>2, <2>3
  <1>9. ASSUME NEW p \in Processes, acks[p] # Nothing
        PROVE  IF more[p] = Nothing THEN Keeps(p, more, proc)
               ELSE ~more[p].active /\ acks[p] <= more[p].published
    <2>1. p \in Capture!RowKeys
      BY RowKeysAre
    <2>2. CASE list[p] = Nothing
      <3>1. Keeps(p, list, proc)
        BY <1>9, <2>2 DEF Tracked
      <3>2. p # k
        BY <2>2, <3>1
      <3>3. Keeps(p, more, proc)
        BY <3>1, RowKeysAre DEF Keeps
      <3>4. QED
        BY <2>1, <2>2, <3>2, <3>3
    <2>3. CASE list[p] # Nothing
      <3>1. ~list[p].active /\ acks[p] <= list[p].published
        BY <1>9, <2>3 DEF Tracked
      <3>2. more[p] # Nothing /\ more[p].active = list[p].active /\ more[p].published = list[p].published
        BY <2>1, <2>3
      <3>3. QED
        BY <3>1, <3>2
    <2>4. QED
      BY <2>2, <2>3
  <1>10. QED
    BY <1>5, <1>6, <1>7, <1>8, <1>9 DEF Tracked

LEMMA TrackedSnapshot ==
    ASSUME NEW list, NEW last, NEW acks, NEW proc, Listed(list), Tracked(list, last, acks, proc),
           NEW more, Published(list, more),
           \A p \in Processes : list[p] # Nothing => (~list[p].active \/ proc[p] = "exited" <=> ~more[p].active),
           \A p \in Processes : acks[p] # Nothing => acks[p] \in Nat
    PROVE  Tracked(more, last, acks, proc)
  <1>1. Here(more) = Here(list) /\ Here(list) \in SUBSET Capture!RowKeys
    BY DEF Here, Published
  <1>2. \A k \in Here(list) : list[k].bytes - Zeros[k] = more[k].bytes - Zeros[k]
    BY DEF Here, Published
  <1>3. Capture!Beyond(more, Zeros, Here(more)) = Capture!Beyond(list, Zeros, Here(list))
    BY <1>1, <1>2, BeyondSame
  <1>4. \A k \in Here(more) : more[k].published <= more[k].bytes
    BY DEF Here, Published, Listed
  <1>5. ASSUME NEW p \in Processes
        PROVE  /\ more[p] # Nothing => more[p].bytes >= 1 /\ (~more[p].active => proc[p] = "exited")
               /\ acks[p] # Nothing => IF more[p] = Nothing THEN Keeps(p, more, proc)
                                       ELSE ~more[p].active /\ acks[p] <= more[p].published
    <2>1. p \in Capture!RowKeys /\ "retired" \in Capture!RowKeys
      BY RowKeysAre
    <2>2. CASE list[p] = Nothing
      <3>1. acks[p] # Nothing => Keeps(p, list, proc)
        BY <2>2 DEF Tracked
      <3>2. Keeps(p, list, proc) => Keeps(p, more, proc)
        BY <2>1 DEF Keeps, Published
      <3>3. QED
        BY <2>1, <2>2, <3>1, <3>2 DEF Published
    <2>3. CASE list[p] # Nothing
      <3>1. /\ list[p].bytes >= 1 /\ (~list[p].active => proc[p] = "exited")
            /\ list[p].bytes \in Nat /\ list[p].published \in Nat /\ list[p].published <= list[p].bytes
            /\ acks[p] # Nothing => ~list[p].active /\ acks[p] <= list[p].published /\ acks[p] \in Nat
        BY <2>1, <2>3 DEF Tracked, Listed, Here
      <3>2. more[p] # Nothing /\ more[p].bytes = list[p].bytes /\ more[p].published = list[p].bytes
            /\ (~list[p].active \/ proc[p] = "exited" <=> ~more[p].active)
        BY <2>1, <2>3 DEF Published
      <3>3. QED
        BY <3>1, <3>2
    <2>4. QED
      BY <2>2, <2>3
  <1>6. QED
    BY <1>3, <1>4, <1>5 DEF Tracked

LEMMA TrackedAcknowledge ==
    ASSUME NEW list \in [Capture!RowKeys -> NumberRow \cup {Nothing}], NEW last \in Nat, NEW acks, NEW proc,
           \A p \in Processes : acks[p] # Nothing => acks[p] \in Nat, Tracked(list, last, acks, proc)
    PROVE  /\ Tracked(Acknowledged(list, acks), last, NoAcks, proc)
           /\ Acknowledged(list, acks) \in [Capture!RowKeys -> NumberRow \cup {Nothing}]
  <1> DEFINE gone == GoneOf(list, acks)
             rest == Capture!Beyond(list, acks, gone)
             more == Acknowledged(list, acks)
             base == [k \in Capture!RowKeys |-> IF k \in gone THEN acks[k] ELSE 0]
  <1>1. Listed(list) /\ Counts(list)
    BY DEF Listed, Counts, NumberRow
  <1>2. \A p \in Processes : NoAcks[p] = Nothing
    BY DEF NoAcks
  <1>3. CASE gone = {}
    <2>1. more = list
      BY <1>3, AcknowledgedNone
    <2> HIDE DEF more
    <2>2. Tracked(more, last, NoAcks, proc)
      BY <1>2, <2>1 DEF Tracked
    <2>3. QED
      BY <2>1, <2>2 DEF more
  <1>4. CASE gone # {}
    <2>1. /\ rest \in Nat
          /\ \A k \in gone : more[k] = Nothing
          /\ \A k \in Capture!RowKeys : k \notin gone /\ k # "retired" => more[k] = list[k]
          /\ more["retired"] \in NumberRow /\ more["retired"] # Nothing
          /\ more["retired"].bytes = (IF list["retired"] = Nothing THEN 0 ELSE list["retired"].bytes) + rest
          /\ more["retired"].published = (IF list["retired"] = Nothing THEN 0 ELSE list["retired"].published)
      BY <1>4, AcknowledgedRows
    <2>2. ASSUME NEW k \in gone
          PROVE  k \in Processes /\ k \in Capture!RowKeys /\ acks[k] \in Nat /\ list[k].bytes \in Nat
                 /\ acks[k] <= list[k].bytes /\ k \in Here(list) /\ base[k] = acks[k]
      <3>1. k \in Processes /\ k \in Capture!RowKeys /\ acks[k] # Nothing /\ list[k] # Nothing
            /\ Capture!Current(list[k], acks[k])
        BY RowKeysAre DEF GoneOf
      <3>2. QED
        BY <3>1 DEF Capture!Current, NumberRow, Here
    <2>3. \A k \in Capture!RowKeys : k \notin gone => base[k] = 0
      OBVIOUS
    <2>m. more \in [Capture!RowKeys -> NumberRow \cup {Nothing}]
      <3>1. more = [k \in Capture!RowKeys |-> more[k]]
        BY DEF Acknowledged
      <3>2. \A k \in Capture!RowKeys : more[k] \in NumberRow \cup {Nothing}
        <4> HIDE DEF more, gone
        <4>1. QED
          BY <2>1
      <3> HIDE DEF more
      <3>3. QED
        BY <3>1, <3>2
    <2> HIDE DEF gone, rest, more, base
    <2>4. Values(base)
      BY <2>2, <2>3 DEF Values
    <2>5. \A k \in Here(list) : base[k] <= list[k].bytes
      <3>1. ASSUME NEW k \in Here(list)
            PROVE  base[k] <= list[k].bytes
        <4>1. k \in Capture!RowKeys /\ list[k].bytes \in Nat
          BY <1>1 DEF Here, Counts
        <4>2. QED
          BY <2>2, <2>3, <4>1
      <3>2. QED
        BY <3>1
    <2> DEFINE v == Capture!Beyond(list, base, Here(list))
    <2>6. Grown(list, base, Here(list)) /\ Here(list) \in SUBSET Capture!RowKeys
      BY <1>1, <2>4, <2>5, AheadGrown
    <2>7. v \in Nat
      BY <2>6, BeyondNat
    <2>8. v <= Capture!Beyond(list, Zeros, Here(list))
      <3>1. Grown(list, Zeros, Here(list)) /\ \A k \in Here(list) : Zeros[k] <= base[k]
        BY <2>6 DEF Grown, Zeros
      <3>2. QED
        BY <2>6, <3>1, BeyondLess
    <2> HIDE DEF v
    <2>9. Ahead(base, gone, 0, list, v)
      <3>1. \A k \in Capture!RowKeys : list[k] = Nothing => base[k] = 0 \/ k \in gone
        BY <2>3
      <3>2. v = 0 + Capture!Beyond(list, base, Here(list))
        BY <2>7 DEF v
      <3>3. QED
        BY <2>5, <3>1, <3>2 DEF Ahead
    <2>10. Ahead(base, gone, 0, more, v) /\ Counts(more)
      <3>1. "retired" \notin gone /\ gone \in SUBSET (Here(list) \ {"retired"})
        BY <2>2, RowKeysAre
      <3>2. \A k \in gone : base[k] = acks[k] /\ k \in gone /\ more[k] = Nothing
        BY <2>1, <2>2
      <3>3. more["retired"].bytes = (IF list["retired"] = Nothing THEN 0 ELSE list["retired"].bytes)
                                      + Capture!Beyond(list, acks, gone)
        BY <2>1 DEF rest
      <3>4. QED
        BY <1>1, <2>1, <2>4, <2>9, <3>1, <3>2, <3>3, AheadAcknowledge
    <2>11. Capture!Beyond(more, Zeros, Here(more)) <= last
      <3>1. Here(more) \in SUBSET Capture!RowKeys /\ \A k \in Here(more) : more[k].bytes - base[k] = more[k].bytes - Zeros[k]
        BY <2>1, <2>3 DEF Here, Zeros
      <3>2. Capture!Beyond(more, base, Here(more)) = Capture!Beyond(more, Zeros, Here(more))
        BY <3>1, BeyondSame
      <3>3. v = 0 + Capture!Beyond(more, base, Here(more)) /\ Capture!Beyond(more, base, Here(more)) \in Nat
        <4>1. Grown(more, base, Here(more))
          BY <2>4, <2>10, AheadGrown DEF Ahead
        <4>2. QED
          BY <2>10, <3>1, <4>1, BeyondNat DEF Ahead
      <3>4. Capture!Beyond(list, Zeros, Here(list)) <= last /\ Capture!Beyond(list, Zeros, Here(list)) \in Nat
        <4>1. Grown(list, Zeros, Here(list))
          BY <2>6 DEF Grown, Zeros
        <4>2. QED
          BY <2>6, <4>1, BeyondNat DEF Tracked
      <3>5. QED
        BY <2>7, <2>8, <3>2, <3>3, <3>4
    <2>12. ASSUME NEW k \in Here(more)
           PROVE  more[k].published <= more[k].bytes
      <3>1. k \in Capture!RowKeys /\ k \notin gone
        BY <2>1 DEF Here
      <3>2. CASE k # "retired"
        <4>1. more[k] = list[k] /\ k \in Here(list)
          BY <2>1, <3>1, <3>2 DEF Here
        <4>2. QED
          BY <4>1 DEF Tracked
      <3>3. CASE k = "retired"
        <4>1. CASE list[k] # Nothing
          <5>1. k \in Here(list) /\ list[k].bytes \in Nat /\ list[k].published \in Nat
            BY <1>1, <3>1, <4>1 DEF Here, Listed
          <5>2. list[k].published <= list[k].bytes
            BY <5>1 DEF Tracked
          <5>3. QED
            BY <2>1, <3>3, <4>1, <5>1, <5>2
        <4>2. CASE list[k] = Nothing
          BY <2>1, <3>3, <4>2
        <4>3. QED
          BY <4>1, <4>2
      <3>4. QED
        BY <3>2, <3>3
    <2>13. ASSUME NEW p \in Processes, more[p] # Nothing
           PROVE  more[p].bytes >= 1 /\ (~more[p].active => proc[p] = "exited")
      <3>1. p \notin gone /\ more[p] = list[p]
        BY <2>1, <2>13, RowKeysAre
      <3>2. QED
        BY <2>13, <3>1 DEF Tracked
    <2>14. Tracked(more, last, NoAcks, proc)
      BY <1>2, <2>11, <2>12, <2>13 DEF Tracked
    <2>15. QED
      BY <2>14, <2>m DEF more
  <1>5. QED
    BY <1>3, <1>4

-----------------------------------------------------------------------------
Hears == capture = "running"
Received == report.state = "running"
Awaited == pendingAppUsage # Nothing /\ pendingAppUsage.report.state = "running"
Held == pendingAppUsage.report
Attributed == storedBytes + givenUp

\* What the accumulator knows is followed by the helper's rows.
KnownFollows ==
    known => /\ Attributed = upto /\ upto <= captured
             /\ Hears => Carried(counters, acknowledged, upto, rows, captured, acknowledgements, process)

\* A snapshot that waits to be stored lies between the two.
HeldFollows ==
    Awaited => /\ Attributed <= Held.upto /\ Held.upto <= captured
               /\ known => Ahead(counters, acknowledged, upto, Held.samples, Held.upto)
               /\ Hears => /\ Carried(SizeOf(Held.samples), Dead(Held.samples), Held.upto, rows, captured,
                                      acknowledgements, process)
                           /\ \A p \in Dead(Held.samples) : rows[p] # Nothing => ~rows[p].active

\* So does the last snapshot, which is what the helper has published.
ReportFollows ==
    Received => /\ Attributed <= report.upto /\ report.upto <= captured
                /\ known => Ahead(counters, acknowledged, upto, report.samples, report.upto)
                /\ Hears => /\ Carried(SizeOf(report.samples), Dead(report.samples), report.upto, rows,
                                       captured, acknowledgements, process)
                            /\ \A k \in Here(rows) : rows[k].published = SizeOf(report.samples)[k]
                            /\ \A p \in Processes : rows[p] # Nothing /\ report.samples[p] # Nothing
                                  => rows[p].active = report.samples[p].active

\* The last snapshot goes on from the one that waits.
HeldBeforeReport ==
    Awaited /\ Received =>
        /\ Ahead(SizeOf(Held.samples), Dead(Held.samples), Held.upto, report.samples, report.upto)
        /\ Hears => \A p \in Processes : rows[p] # Nothing =>
              /\ Held.samples[p] # Nothing => report.samples[p] # Nothing
              /\ p \in Dead(Held.samples) => p \in Dead(report.samples)

RowsTracked ==
    Hears => /\ Attributed <= captured /\ Tracked(rows, captured, acknowledgements, process)
             /\ \A p \in Processes : rows[p] # Nothing => process[p] # "new"

StartsEmpty ==
    capture = "starting" =>
        /\ rows = Capture!NoRows /\ captured = 0 /\ storedBytes = 0 /\ givenUp = 0 /\ ~known
        /\ acknowledgements = NoAcks /\ ~Received /\ ~Awaited

Fit(snap) == /\ snap.state # "running" => snap.samples = Capture!NoRows /\ snap.upto = 0
             /\ \A p \in Processes : snap.samples[p] # Nothing => snap.samples[p].bytes >= 1

SnapshotsFit ==
    /\ Fit(report)
    /\ pendingAppUsage # Nothing => Fit(Held) /\ IF pendingAppUsage.last THEN Held = report ELSE fresh

\* Once the last snapshot is stored, the accumulator knows it and its
\* acknowledgements are on their way.
LatestKnown ==
    known /\ ~fresh =>
        /\ Received /\ counters = SizeOf(report.samples) /\ upto = report.upto
        /\ Hears => \A p \in Dead(report.samples) : rows[p] # Nothing => acknowledgements[p] = rows[p].published

CaptureFollows == /\ KnownFollows /\ HeldFollows /\ ReportFollows /\ HeldBeforeReport /\ RowsTracked
                  /\ StartsEmpty /\ SnapshotsFit /\ LatestKnown
CaptureInv == Capture!TypeOK /\ CaptureFollows

LEMMA CaptureTypes ==
    ASSUME Capture!TypeOK
    PROVE  /\ rows \in [Capture!RowKeys -> NumberRow \cup {Nothing}] /\ Listed(rows)
           /\ \A k \in Capture!RowKeys : rows[k] # Nothing => rows[k] \in Capture!Row
           /\ Values(counters) /\ acknowledged \in SUBSET Processes
           /\ storedBytes \in Nat /\ givenUp \in Nat /\ upto \in Nat /\ captured \in Nat /\ Attributed \in Nat
           /\ storedBytes <= MaxCaptured /\ givenUp <= MaxCaptured /\ upto <= MaxCaptured /\ captured <= MaxCaptured
           /\ \A p \in Processes : acknowledgements[p] # Nothing =>
                 acknowledgements[p] \in Nat /\ acknowledgements[p] <= MaxCaptured
           /\ process \in [Processes -> {"new", "running", "exited"}]
  <1>1. MaxCaptured \in Nat
    BY CaptureAssumption
  <1>2. \A k \in Capture!RowKeys : rows[k] # Nothing => rows[k] \in Capture!Row /\ rows[k] \in NumberRow
    BY <1>1 DEF Capture!TypeOK, Capture!Row, NumberRow
  <1>3. rows \in [Capture!RowKeys -> NumberRow \cup {Nothing}]
    BY <1>2 DEF Capture!TypeOK
  <1>4. Listed(rows)
    BY <1>2 DEF Listed, NumberRow
  <1>5. Values(counters) /\ acknowledged \in SUBSET Processes
    BY <1>1 DEF Capture!TypeOK, Values
  <1>6. storedBytes \in 0..MaxCaptured /\ givenUp \in 0..MaxCaptured /\ upto \in 0..MaxCaptured /\ captured \in 0..MaxCaptured
    BY DEF Capture!TypeOK
  <1>7. /\ storedBytes \in Nat /\ givenUp \in Nat /\ upto \in Nat /\ captured \in Nat /\ Attributed \in Nat
        /\ storedBytes <= MaxCaptured /\ givenUp <= MaxCaptured /\ upto <= MaxCaptured /\ captured <= MaxCaptured
    BY <1>1, <1>6 DEF Attributed
  <1>8. \A p \in Processes : acknowledgements[p] # Nothing =>
            acknowledgements[p] \in Nat /\ acknowledgements[p] <= MaxCaptured
    BY <1>1 DEF Capture!TypeOK
  <1>9. process \in [Processes -> {"new", "running", "exited"}]
    BY DEF Capture!TypeOK
  <1>10. QED
    BY <1>2, <1>3, <1>4, <1>5, <1>7, <1>8, <1>9

LEMMA ReportTypes ==
    ASSUME NEW snap \in Capture!Reports
    PROVE  /\ snap.upto \in Nat /\ snap.upto <= MaxCaptured /\ snap.sampled \in BOOLEAN
           /\ snap.samples \in [Capture!RowKeys -> Capture!Sample \cup {Nothing}]
           /\ \A k \in Capture!RowKeys : snap.samples[k] # Nothing =>
                 /\ snap.samples[k].bytes \in Nat /\ snap.samples[k].bytes <= MaxCaptured
                 /\ snap.samples[k].active \in BOOLEAN
           /\ Counts(snap.samples) /\ Values(SizeOf(snap.samples)) /\ Dead(snap.samples) \in SUBSET Processes
  <1>1. MaxCaptured \in Nat
    BY CaptureAssumption
  <1>2. /\ snap.upto \in 0..MaxCaptured /\ snap.sampled \in BOOLEAN
        /\ snap.samples \in [Capture!RowKeys -> Capture!Sample \cup {Nothing}]
    BY DEF Capture!Reports
  <1>3. \A k \in Capture!RowKeys : snap.samples[k] # Nothing =>
                 /\ snap.samples[k].bytes \in Nat /\ snap.samples[k].bytes <= MaxCaptured
                 /\ snap.samples[k].active \in BOOLEAN
    BY <1>1, <1>2 DEF Capture!Sample
  <1>4. Counts(snap.samples)
    BY <1>3 DEF Counts
  <1>5. Values(SizeOf(snap.samples))
    BY <1>4, AheadSelf
  <1>6. Dead(snap.samples) \in SUBSET Processes
    BY DEF Dead
  <1>7. QED
    BY <1>1, <1>2, <1>3, <1>4, <1>5, <1>6

LEMMA HeldTypes ==
    ASSUME Capture!TypeOK
    PROVE  report \in Capture!Reports /\ (pendingAppUsage # Nothing =>
               /\ Held \in Capture!Reports /\ pendingAppUsage.last \in BOOLEAN
               /\ pendingAppUsage \in [report : Capture!Reports, wifi : Networks \cup {Nothing}, last : BOOLEAN])
  BY DEF Capture!TypeOK, Held

LEMMA CaptureInit ==
    ASSUME Capture!Init
    PROVE  CaptureInv
  <1>1. capture = "off" /\ ~known /\ pendingAppUsage = Nothing /\ report = Capture!Report("disabled") /\ ~fresh
    BY DEF Capture!Init
  <1>2. report.state = "disabled" /\ report.samples = Capture!NoRows /\ report.upto = 0
    BY <1>1 DEF Capture!Report
  <1>3. \A p \in Processes : Capture!NoRows[p] = Nothing
    BY RowKeysAre DEF Capture!NoRows
  <1>4. SnapshotsFit
    BY <1>1, <1>2, <1>3 DEF SnapshotsFit, Fit
  <1>5. CaptureFollows
    BY <1>1, <1>2, <1>4 DEF CaptureFollows, KnownFollows, HeldFollows, ReportFollows, HeldBeforeReport, RowsTracked,
       StartsEmpty, LatestKnown, Hears, Received, Awaited
  <1>6. Capture!TypeOK
    <2>1. 0 \in 0..MaxCaptured /\ 0 \in 0..MaxFailures /\ 0 \in 0..MaxActs
      BY CaptureAssumption, BoundsAssumption
    <2>2. Capture!Report("disabled") \in Capture!Reports
      BY <2>1 DEF Capture!Report, Capture!Reports, Capture!NoRows
    <2>3. QED
      BY <2>1, <2>2 DEF Capture!Init, Capture!TypeOK, Capture!NoRows, Capture!NoAcknowledgements
  <1>7. QED
    BY <1>5, <1>6 DEF CaptureInv

\* Nothing but the machine, the service or the bounds changes.
LEMMA CaptureStands ==
    ASSUME CaptureFollows,
           UNCHANGED <<process, capture, rows, captured, report, fresh, acknowledgements, known, counters,
                       acknowledged, storedBytes, givenUp, upto, pendingAppUsage>>
    PROVE  CaptureFollows'
  <1>1. /\ Hears' = Hears /\ Received' = Received /\ Awaited' = Awaited /\ Held' = Held /\ Attributed' = Attributed
    BY DEF Hears, Received, Awaited, Held, Attributed
  <1>2. KnownFollows'
    BY <1>1 DEF CaptureFollows, KnownFollows
  <1>3. HeldFollows'
    BY <1>1 DEF CaptureFollows, HeldFollows
  <1>4. ReportFollows'
    BY <1>1 DEF CaptureFollows, ReportFollows
  <1>5. HeldBeforeReport'
    BY <1>1 DEF CaptureFollows, HeldBeforeReport
  <1>6. RowsTracked' /\ StartsEmpty' /\ SnapshotsFit' /\ LatestKnown'
    BY <1>1 DEF CaptureFollows, RowsTracked, StartsEmpty, SnapshotsFit, LatestKnown
  <1>7. QED
    BY <1>2, <1>3, <1>4, <1>5, <1>6 DEF CaptureFollows

LEMMA CaptureRuns ==
    ASSUME CaptureInv, NEW p \in Processes, Capture!Runs(p)
    PROVE  CaptureInv'
  <1>1. /\ process' = [process EXCEPT ![p] = IF @ = "new" THEN "running" ELSE "exited"] /\ process[p] # "exited"
        /\ UNCHANGED <<capture, rows, captured, report, fresh, requested, acknowledgements, known, counters,
                       acknowledged, network, storedBytes, givenUp, upto, pendingAppUsage, appEnabled, paused, wifi,
                       captureFailures, captureActs>>
    BY DEF Capture!Runs, Capture!helperVars, Capture!sessionVars, Capture!accumulatorVars, Capture!serviceVars,
           Capture!countVars
  <1>2. Capture!TypeOK
    BY DEF CaptureInv
  <1>3. process \in [Processes -> {"new", "running", "exited"}]
    BY <1>2, CaptureTypes
  <1>4. process' \in [Processes -> {"new", "running", "exited"}] /\ \A q \in Processes : process[q] = "exited" => process'[q] = "exited"
    BY <1>1, <1>3
  <1>5. Capture!TypeOK'
    BY <1>1, <1>2, <1>4 DEF Capture!TypeOK
  <1>6. Hears' = Hears /\ Received' = Received /\ Awaited' = Awaited /\ Held' = Held /\ Attributed' = Attributed
    BY <1>1 DEF Hears, Received, Awaited, Held, Attributed
  <1>7. KnownFollows'
    BY <1>1, <1>4, <1>6, CarriedRuns DEF CaptureInv, CaptureFollows, KnownFollows
  <1>8. HeldFollows'
    BY <1>1, <1>4, <1>6, CarriedRuns DEF CaptureInv, CaptureFollows, HeldFollows
  <1>9. ReportFollows'
    BY <1>1, <1>4, <1>6, CarriedRuns DEF CaptureInv, CaptureFollows, ReportFollows
  <1>10. HeldBeforeReport'
    BY <1>1, <1>6 DEF CaptureInv, CaptureFollows, HeldBeforeReport
  <1>11. RowsTracked'
    <2>1. \A q \in Processes : process[q] # "new" => process'[q] # "new"
      BY <1>1, <1>3
    <2>2. QED
      BY <1>1, <1>4, <1>6, <2>1, TrackedRuns DEF CaptureInv, CaptureFollows, RowsTracked
  <1>12. StartsEmpty' /\ SnapshotsFit' /\ LatestKnown'
    BY <1>1, <1>6 DEF CaptureInv, CaptureFollows, StartsEmpty, SnapshotsFit, LatestKnown
  <1>13. QED
    BY <1>5, <1>7, <1>8, <1>9, <1>10, <1>11, <1>12 DEF CaptureInv, CaptureFollows

\* A process whose row went, or that waits to be acknowledged, gets no new row.
LEMMA PacketRow ==
    ASSUME CaptureInv, NEW p \in Processes, Capture!Packet(p)
    PROVE  \E k \in Capture!RowKeys :
             /\ rows'[k] # Nothing /\ rows'[k] \in NumberRow
             /\ \A x \in Capture!RowKeys : x # k => rows'[x] = rows[x]
             /\ k \in Processes => process[k] # "new"
             /\ IF rows[k] = Nothing
                THEN /\ rows'[k].bytes = 1 /\ rows'[k].published = 0
                     /\ k \in Processes => /\ ~Keeps(k, rows, process)
                                           /\ ~rows'[k].active => process[k] = "exited"
                ELSE /\ rows'[k].bytes = rows[k].bytes + 1 /\ rows'[k].published = rows[k].published
                     /\ rows'[k].active = rows[k].active
             /\ rows' \in [Capture!RowKeys -> NumberRow \cup {Nothing}]
  <1>1. Capture!TypeOK /\ rows \in [Capture!RowKeys -> NumberRow \cup {Nothing}]
        /\ process \in [Processes -> {"new", "running", "exited"}]
    BY CaptureTypes DEF CaptureInv
  <1>2. PICK k \in Capture!RowsFor(p) :
            rows' = [rows EXCEPT ![k] = Capture!Added(@, k = p /\ process[p] = "running", 1)]
    BY DEF Capture!Packet
  <1>3. k \in Capture!RowKeys
    BY RowKeysAre DEF Capture!RowsFor
  <1>4. process[p] # "new"
    BY DEF Capture!Packet
  <1>5. rows'[k] = Capture!Added(rows[k], k = p /\ process[p] = "running", 1)
        /\ \A x \in Capture!RowKeys : x # k => rows'[x] = rows[x]
    BY <1>1, <1>2, <1>3
  <1>n. k \in Processes => process[k] # "new"
    BY <1>4, RowKeysAre DEF Capture!RowsFor
  <1>6. CASE rows[k] = Nothing
    <2> DEFINE b == k = p /\ process[p] = "running"
    <2>1. rows'[k] = [bytes |-> 1, active |-> b, published |-> 0] /\ b \in BOOLEAN
      BY <1>5, <1>6 DEF Capture!Added
    <2> HIDE DEF b
    <2>2. rows'[k] \in NumberRow /\ rows'[k].bytes = 1 /\ rows'[k].published = 0 /\ rows'[k].active = b
      BY <2>1 DEF NumberRow
    <2>3. ASSUME k \in Processes
          PROVE  ~Keeps(k, rows, process) /\ (~rows'[k].active => process[k] = "exited")
      <3>1. k = p
        BY <2>3, RowKeysAre DEF Capture!RowsFor
      <3>2. process[p] = "running" \/ rows["retired"] = Nothing
        BY <1>2, <1>6, <3>1, RowKeysAre DEF Capture!RowsFor
      <3>3. process[p] = "running" \/ process[p] = "exited"
        BY <1>1, <1>4
      <3>4. QED
        BY <2>2, <3>1, <3>2, <3>3 DEF Keeps, b
    <2>4. rows'[k] # Nothing
      BY <2>2, CaptureAssumption DEF NumberRow
    <2>5. rows' \in [Capture!RowKeys -> NumberRow \cup {Nothing}]
      BY <1>1, <1>2, <1>3, <1>5, <2>2
    <2>6. QED
      BY <1>3, <1>5, <1>6, <1>n, <2>2, <2>3, <2>4, <2>5
  <1>7. CASE rows[k] # Nothing
    <2>1. rows[k] \in NumberRow
      BY <1>1, <1>3, <1>7
    <2>2. rows'[k] = [rows[k] EXCEPT !.bytes = @ + 1]
      BY <1>5, <1>7 DEF Capture!Added
    <2>3. rows'[k] \in NumberRow /\ rows'[k].bytes = rows[k].bytes + 1 /\ rows'[k].published = rows[k].published
          /\ rows'[k].active = rows[k].active
      BY <2>1, <2>2 DEF NumberRow
    <2>4. rows'[k] # Nothing
      BY <2>3, CaptureAssumption DEF NumberRow
    <2>5. rows' \in [Capture!RowKeys -> NumberRow \cup {Nothing}]
      BY <1>1, <1>2, <1>3, <1>5, <2>3
    <2>6. QED
      BY <1>3, <1>5, <1>7, <1>n, <2>3, <2>4, <2>5
  <1>8. QED
    BY <1>6, <1>7

LEMMA CapturePacket ==
    ASSUME CaptureInv, NEW p \in Processes, Capture!Packet(p)
    PROVE  CaptureInv'
  <1>1. /\ capture = "running" /\ captured < MaxCaptured /\ captured' = captured + 1
        /\ UNCHANGED <<process, capture, report, fresh, requested, acknowledgements, known, counters,
                       acknowledged, network, storedBytes, givenUp, upto, pendingAppUsage, appEnabled, paused, wifi,
                       captureFailures, captureActs>>
    BY DEF Capture!Packet, Capture!systemVars, Capture!sessionVars, Capture!accumulatorVars, Capture!serviceVars,
           Capture!countVars
  <1>2. PICK k \in Capture!RowKeys :
             /\ rows'[k] # Nothing /\ rows'[k] \in NumberRow
             /\ \A x \in Capture!RowKeys : x # k => rows'[x] = rows[x]
             /\ k \in Processes => process[k] # "new"
             /\ IF rows[k] = Nothing
                THEN /\ rows'[k].bytes = 1 /\ rows'[k].published = 0
                     /\ k \in Processes => /\ ~Keeps(k, rows, process)
                                           /\ ~rows'[k].active => process[k] = "exited"
                ELSE /\ rows'[k].bytes = rows[k].bytes + 1 /\ rows'[k].published = rows[k].published
                     /\ rows'[k].active = rows[k].active
             /\ rows' \in [Capture!RowKeys -> NumberRow \cup {Nothing}]
    BY PacketRow
  <1>3. /\ Capture!TypeOK /\ Listed(rows) /\ Values(counters) /\ acknowledged \in SUBSET Processes
        /\ upto \in Nat /\ captured \in Nat /\ MaxCaptured \in Nat
        /\ rows \in [Capture!RowKeys -> NumberRow \cup {Nothing}]
    BY CaptureTypes, CaptureAssumption DEF CaptureInv
  <1>4. /\ KnownFollows /\ HeldFollows /\ ReportFollows /\ HeldBeforeReport /\ RowsTracked
        /\ StartsEmpty /\ SnapshotsFit /\ LatestKnown
    BY DEF CaptureInv, CaptureFollows
  <1>5. Hears /\ Hears' /\ Received' = Received /\ Awaited' = Awaited /\ Held' = Held /\ Attributed' = Attributed
        /\ Attributed \in Nat
    BY <1>1, <1>3, CaptureTypes DEF Hears, Received, Awaited, Held, Attributed
  <1>6. Tracked(rows, captured, acknowledgements, process) /\ Attributed <= captured
    BY <1>4, <1>5 DEF RowsTracked
  <1>7. Tracked(rows', captured + 1, acknowledgements, process) /\ Listed(rows')
    <2>1. rows'[k].active \in BOOLEAN
      BY <1>2 DEF NumberRow
    <2>2. IF rows[k] = Nothing
          THEN /\ rows'[k].bytes = 1 /\ rows'[k].published = 0
               /\ k \in Processes => /\ ~Keeps(k, rows, process)
                                     /\ ~rows'[k].active => process[k] = "exited"
          ELSE /\ rows'[k].bytes = rows[k].bytes + 1 /\ rows'[k].published = rows[k].published
               /\ rows'[k].active = rows[k].active
      BY <1>2
    <2>3. QED
      BY <1>2, <1>3, <1>6, <2>1, <2>2, TrackedPacket
  <1>8. rows[k] = Nothing /\ k \in Processes => acknowledgements[k] = Nothing /\ ~Keeps(k, rows, process)
    BY <1>2, <1>6 DEF Tracked
  <1>9. ASSUME NEW base, NEW dead \in SUBSET Processes, NEW total \in Nat, Values(base),
               Carried(base, dead, total, rows, captured, acknowledgements, process)
        PROVE  Carried(base, dead, total, rows', captured + 1, acknowledgements, process)
    <2>1. IF rows[k] = Nothing
           THEN /\ rows'[k].bytes = 1 /\ rows'[k].published = 0
                /\ k \in Processes => ~Keeps(k, rows, process) /\ acknowledgements[k] = Nothing
           ELSE rows'[k].bytes = rows[k].bytes + 1 /\ rows'[k].published = rows[k].published
      BY <1>2, <1>8
    <2>2. QED
      BY <1>2, <1>3, <1>9, <2>1, CarriedPacket
  <1>10. captured <= captured + 1 /\ captured + 1 <= MaxCaptured
    BY <1>1, <1>3
  <1>11. KnownFollows'
    <2>1. ASSUME known
          PROVE  Carried(counters, acknowledged, upto, rows', captured + 1, acknowledgements, process)
                 /\ Attributed = upto /\ upto <= captured + 1
      BY <1>3, <1>4, <1>5, <1>9, <2>1 DEF KnownFollows
    <2>2. QED
      BY <1>1, <1>5, <2>1 DEF KnownFollows
  <1>12. HeldFollows'
    <2>1. SUFFICES ASSUME Awaited
                   PROVE  HeldFollows'
      BY <1>5 DEF HeldFollows
    <2>2. Held \in Capture!Reports
      BY <1>3, <2>1, HeldTypes DEF Awaited
    <2>3. Held.upto \in Nat /\ Values(SizeOf(Held.samples)) /\ Dead(Held.samples) \in SUBSET Processes
      BY <2>2, ReportTypes
    <2>4. Attributed <= Held.upto /\ Held.upto <= captured
          /\ (known => Ahead(counters, acknowledged, upto, Held.samples, Held.upto))
          /\ Carried(SizeOf(Held.samples), Dead(Held.samples), Held.upto, rows, captured, acknowledgements, process)
          /\ \A q \in Dead(Held.samples) : rows[q] # Nothing => ~rows[q].active
      BY <1>4, <1>5, <2>1 DEF HeldFollows
    <2>5. Carried(SizeOf(Held.samples), Dead(Held.samples), Held.upto, rows', captured + 1, acknowledgements, process)
      BY <1>9, <2>3, <2>4
    <2>6. ASSUME NEW q \in Dead(Held.samples), rows'[q] # Nothing
          PROVE  ~rows'[q].active
      <3>1. q \in Processes /\ q \in Capture!RowKeys /\ Held.samples[q] # Nothing
        BY <2>6, RowKeysAre DEF Dead
      <3>2. CASE rows[q] # Nothing
        BY <1>2, <2>4, <2>6, <3>1, <3>2
      <3>3. CASE rows[q] = Nothing
        <4>1. q = k
          BY <1>2, <2>6, <3>1, <3>3
        <4>2. SizeOf(Held.samples)[q] # 0
          BY <1>4, <2>1, <2>2, <3>1, ReportTypes DEF SnapshotsFit, Fit, Awaited, SizeOf
        <4>3. Keeps(q, rows, process)
          BY <2>4, <3>1, <3>3, <4>2 DEF Carried
        <4>4. QED
          BY <1>8, <3>1, <3>3, <4>1, <4>3
      <3>4. QED
        BY <3>2, <3>3
    <2>7. Held.upto <= captured + 1
      BY <1>3, <2>3, <2>4
    <2>8. QED
      BY <1>1, <1>5, <2>1, <2>4, <2>5, <2>6, <2>7 DEF HeldFollows
  <1>13. ReportFollows'
    <2>1. SUFFICES ASSUME Received
                   PROVE  ReportFollows'
      BY <1>5 DEF ReportFollows
    <2>2. report \in Capture!Reports
      BY <1>3, HeldTypes
    <2>3. report.upto \in Nat /\ Values(SizeOf(report.samples)) /\ Dead(report.samples) \in SUBSET Processes
      BY <2>2, ReportTypes
    <2>4. Attributed <= report.upto /\ report.upto <= captured
          /\ (known => Ahead(counters, acknowledged, upto, report.samples, report.upto))
          /\ Carried(SizeOf(report.samples), Dead(report.samples), report.upto, rows, captured, acknowledgements, process)
          /\ (\A x \in Here(rows) : rows[x].published = SizeOf(report.samples)[x])
          /\ \A q \in Processes : rows[q] # Nothing /\ report.samples[q] # Nothing
                                  => rows[q].active = report.samples[q].active
      BY <1>4, <1>5, <2>1 DEF ReportFollows
    <2>5. Carried(SizeOf(report.samples), Dead(report.samples), report.upto, rows', captured + 1, acknowledgements, process)
      BY <1>9, <2>3, <2>4
    <2>6. rows[k] = Nothing => SizeOf(report.samples)[k] = 0 /\ (k \in Processes => report.samples[k] = Nothing)
      <3>1. ASSUME rows[k] = Nothing, k \in Processes
            PROVE  SizeOf(report.samples)[k] = 0 /\ report.samples[k] = Nothing
        <4>1. SizeOf(report.samples)[k] = 0
          BY <1>8, <2>4, <3>1 DEF Carried
        <4>2. QED
          BY <1>4, <2>2, <3>1, <4>1, ReportTypes DEF SnapshotsFit, Fit, SizeOf
      <3>2. ASSUME rows[k] = Nothing, k \notin Processes
            PROVE  SizeOf(report.samples)[k] = 0
        BY <2>3, <2>4, <3>2 DEF Carried, Ahead
      <3>3. QED
        BY <3>1, <3>2
    <2>7. ASSUME NEW x \in Here(rows')
          PROVE  rows'[x].published = SizeOf(report.samples)[x]
      <3>1. x \in Capture!RowKeys
        BY DEF Here
      <3>2. CASE x # k
        BY <1>2, <2>4, <3>1, <3>2 DEF Here
      <3>3. CASE x = k
        BY <1>2, <2>4, <2>6, <3>1, <3>3 DEF Here
      <3>4. QED
        BY <3>2, <3>3
    <2>8. ASSUME NEW q \in Processes, rows'[q] # Nothing, report.samples[q] # Nothing
          PROVE  rows'[q].active = report.samples[q].active
      <3>1. q \in Capture!RowKeys
        BY RowKeysAre
      <3>2. rows[q] # Nothing
        BY <1>2, <2>6, <2>8, <3>1
      <3>3. rows'[q].active = rows[q].active
        BY <1>2, <3>1, <3>2
      <3>4. QED
        BY <2>4, <2>8, <3>2, <3>3
    <2>9. report.upto <= captured + 1
      BY <1>3, <2>3, <2>4
    <2>10. QED
      BY <1>1, <1>5, <2>1, <2>4, <2>5, <2>7, <2>8, <2>9 DEF ReportFollows
  <1>14. HeldBeforeReport'
    <2>1. ASSUME Awaited, Received
          PROVE  /\ Ahead(SizeOf(Held.samples), Dead(Held.samples), Held.upto, report.samples, report.upto)
                 /\ \A q \in Processes : rows'[q] # Nothing =>
                       /\ Held.samples[q] # Nothing => report.samples[q] # Nothing
                       /\ q \in Dead(Held.samples) => q \in Dead(report.samples)
      <3>1. /\ Ahead(SizeOf(Held.samples), Dead(Held.samples), Held.upto, report.samples, report.upto)
            /\ \A q \in Processes : rows[q] # Nothing =>
                       /\ Held.samples[q] # Nothing => report.samples[q] # Nothing
                       /\ q \in Dead(Held.samples) => q \in Dead(report.samples)
        BY <1>4, <1>5, <2>1 DEF HeldBeforeReport
      <3>2. Held \in Capture!Reports
        BY <1>3, <2>1, HeldTypes DEF Awaited
      <3>3. ASSUME NEW q \in Processes, rows'[q] # Nothing, rows[q] = Nothing
            PROVE  Held.samples[q] = Nothing
        <4>1. q = k /\ ~Keeps(q, rows, process)
          BY <1>2, <1>8, <3>3, RowKeysAre
        <4>2. Carried(SizeOf(Held.samples), Dead(Held.samples), Held.upto, rows, captured, acknowledgements, process)
          BY <1>4, <1>5, <2>1 DEF HeldFollows
        <4>3. SizeOf(Held.samples)[q] = 0
          BY <3>3, <4>1, <4>2 DEF Carried
        <4>4. Held.samples[q] # Nothing => Held.samples[q].bytes >= 1 /\ Held.samples[q].bytes \in Nat
          BY <1>4, <2>1, <3>2, ReportTypes, RowKeysAre DEF SnapshotsFit, Fit, Awaited
        <4>5. QED
          BY <4>3, <4>4, RowKeysAre DEF SizeOf
      <3>4. QED
        BY <3>1, <3>3 DEF Dead
    <2>2. QED
      BY <1>1, <1>5, <2>1 DEF HeldBeforeReport
  <1>15. RowsTracked'
    <2>1. Attributed <= captured + 1
      BY <1>3, <1>5, <1>6
    <2>2. ASSUME NEW q \in Processes, rows'[q] # Nothing
          PROVE  process[q] # "new"
      <3>1. q = k \/ rows[q] # Nothing
        BY <1>2, <2>2, RowKeysAre
      <3>2. QED
        BY <1>2, <1>4, <1>5, <3>1 DEF RowsTracked
    <2>3. QED
      BY <1>1, <1>5, <1>7, <2>1, <2>2 DEF RowsTracked
  <1>16. StartsEmpty' /\ SnapshotsFit'
    BY <1>1, <1>4, <1>5 DEF StartsEmpty, SnapshotsFit
  <1>17. LatestKnown'
    <2>1. ASSUME known, ~fresh
          PROVE  /\ Received /\ counters = SizeOf(report.samples) /\ upto = report.upto
                 /\ \A q \in Dead(report.samples) : rows'[q] # Nothing => acknowledgements[q] = rows'[q].published
      <3>1. /\ Received /\ counters = SizeOf(report.samples) /\ upto = report.upto
            /\ \A q \in Dead(report.samples) : rows[q] # Nothing => acknowledgements[q] = rows[q].published
        BY <1>4, <1>5, <2>1 DEF LatestKnown
      <3>2. ASSUME NEW q \in Dead(report.samples), rows'[q] # Nothing
            PROVE  acknowledgements[q] = rows'[q].published
        <4>1. q \in Processes /\ q \in Capture!RowKeys /\ report.samples[q] # Nothing
          BY <3>2, RowKeysAre DEF Dead
        <4>2. CASE rows[q] # Nothing
          BY <1>2, <3>1, <4>1, <4>2
        <4>3. CASE rows[q] = Nothing
          <5>1. q = k /\ ~Keeps(q, rows, process)
            BY <1>2, <1>8, <3>2, <4>1, <4>3
          <5>2. Carried(SizeOf(report.samples), Dead(report.samples), report.upto, rows, captured, acknowledgements, process)
            BY <1>4, <1>5, <3>1 DEF ReportFollows
          <5>3. SizeOf(report.samples)[q] = 0
            BY <4>1, <4>3, <5>1, <5>2 DEF Carried
          <5>4. report.samples[q].bytes >= 1 /\ report.samples[q].bytes \in Nat
            BY <1>3, <1>4, <4>1, HeldTypes, ReportTypes DEF SnapshotsFit, Fit
          <5>5. QED
            BY <4>1, <5>3, <5>4 DEF SizeOf
        <4>4. QED
          BY <4>2, <4>3
      <3>3. QED
        BY <3>1, <3>2
    <2>2. QED
      BY <1>1, <1>5, <2>1 DEF LatestKnown
  <1>18. Capture!TypeOK'
    <2>1. captured' \in 0..MaxCaptured
      BY <1>1, <1>3, <1>10
    <2>2. rows' \in [Capture!RowKeys -> Capture!Row \cup {Nothing}]
      <3>1. ASSUME NEW x \in Capture!RowKeys, rows'[x] # Nothing
            PROVE  rows'[x] \in Capture!Row
        <4>1. captured + 1 \in Nat /\ x \in Here(rows')
          BY <1>3, <3>1 DEF Here
        <4>2. rows'[x].bytes \in 0..(captured + 1) /\ rows'[x].published \in 0..(captured + 1)
          BY <1>7, <4>1, TrackedBound
        <4>3. rows'[x] \in NumberRow
          BY <1>2, <3>1
        <4>4. rows'[x].bytes \in 0..MaxCaptured /\ rows'[x].published \in 0..MaxCaptured
          BY <1>3, <1>10, <4>2
        <4>5. QED
          BY <4>3, <4>4 DEF NumberRow, Capture!Row
      <3>2. QED
        BY <1>2, <3>1
    <2>3. QED
      BY <1>1, <1>3, <2>1, <2>2 DEF Capture!TypeOK
  <1>19. QED
    BY <1>11, <1>12, <1>13, <1>14, <1>15, <1>16, <1>17, <1>18 DEF CaptureInv, CaptureFollows

\* What the session publishes is the last snapshot, and fresh.
LEMMA PublishFacts ==
    ASSUME Capture!TypeOK, NEW snap, Capture!Publish(snap)
    PROVE  /\ report' = snap /\ fresh' = TRUE
           /\ pendingAppUsage' = Nothing <=> pendingAppUsage = Nothing
           /\ pendingAppUsage # Nothing =>
                /\ Held' = Held /\ pendingAppUsage'.last = FALSE
                /\ pendingAppUsage' \in [report : Capture!Reports, wifi : Networks \cup {Nothing}, last : BOOLEAN]
           /\ Awaited' = Awaited /\ (Awaited => Held' = Held)
  <1>1. report' = snap /\ fresh' = TRUE
        /\ pendingAppUsage' = IF pendingAppUsage = Nothing THEN Nothing ELSE [pendingAppUsage EXCEPT !.last = FALSE]
    BY DEF Capture!Publish
  <1>2. CASE pendingAppUsage = Nothing
    BY <1>1, <1>2 DEF Awaited
  <1>3. CASE pendingAppUsage # Nothing
    <2>1. pendingAppUsage \in [report : Capture!Reports, wifi : Networks \cup {Nothing}, last : BOOLEAN]
      BY <1>3, HeldTypes
    <2>2. pendingAppUsage' = [pendingAppUsage EXCEPT !.last = FALSE]
      BY <1>1, <1>3
    <2>3. pendingAppUsage'.report = pendingAppUsage.report /\ pendingAppUsage'.last = FALSE
          /\ pendingAppUsage' \in [report : Capture!Reports, wifi : Networks \cup {Nothing}, last : BOOLEAN]
      BY <2>1, <2>2
    <2>4. pendingAppUsage' # Nothing
      BY <2>3, CaptureAssumption
    <2>5. QED
      BY <1>1, <1>3, <2>3, <2>4 DEF Awaited, Held
  <1>4. QED
    BY <1>2, <1>3

LEMMA SnapshotRows ==
    ASSUME CaptureInv, Capture!Snapshot
    PROVE  /\ rows' \in [Capture!RowKeys -> Capture!Row \cup {Nothing}]
           /\ Published(rows, rows')
           /\ \A p \in Processes : rows[p] # Nothing =>
                (~rows[p].active \/ process[p] = "exited" <=> ~rows'[p].active)
           /\ report' \in Capture!Reports /\ report'.state = "running" /\ report'.upto = captured
           /\ \A k \in Capture!RowKeys :
                 /\ rows[k] = Nothing <=> report'.samples[k] = Nothing
                 /\ rows[k] # Nothing => /\ report'.samples[k].bytes = rows[k].bytes
                                         /\ report'.samples[k].active = rows'[k].active
  <1>1. Capture!TypeOK /\ captured \in 0..MaxCaptured /\ process \in [Processes -> {"new", "running", "exited"}]
    BY CaptureTypes DEF CaptureInv, Capture!TypeOK
  <1>2. rows' = [k \in Capture!RowKeys |->
                  IF rows[k] = Nothing THEN Nothing
                  ELSE [rows[k] EXCEPT !.published = rows[k].bytes,
                            !.active = @ /\ k \in Processes /\ process[k] = "running"]]
        /\ Capture!Publish([state |-> "running", sampled |-> TRUE, upto |-> captured,
                samples |-> [k \in Capture!RowKeys |->
                    IF rows[k] = Nothing THEN Nothing
                    ELSE [bytes |-> rows'[k].bytes, active |-> rows'[k].active]]])
    BY DEF Capture!Snapshot
  <1>3. ASSUME NEW k \in Capture!RowKeys, rows[k] # Nothing
        PROVE  /\ rows'[k] \in Capture!Row /\ rows'[k] # Nothing /\ rows'[k].bytes = rows[k].bytes
               /\ rows'[k].published = rows[k].bytes
               /\ (rows'[k].active <=> rows[k].active /\ k \in Processes /\ process[k] = "running")
    <2>1. rows[k] \in Capture!Row
      BY <1>1, <1>3, CaptureTypes
    <2> DEFINE b == rows[k].active /\ k \in Processes /\ process[k] = "running"
               n == rows[k].bytes
    <2>2. b \in BOOLEAN /\ n \in 0..MaxCaptured
      BY <2>1 DEF Capture!Row
    <2>3. rows'[k] = [bytes |-> n, active |-> b, published |-> n]
      BY <1>2, <1>3, <2>1 DEF Capture!Row
    <2>4. rows'[k] \in Capture!Row /\ rows'[k].bytes = n /\ rows'[k].published = n /\ rows'[k].active = b
          /\ rows'[k] \in NumberRow
      <3> HIDE DEF b, n
      <3>1. n \in Nat
        BY <2>2, CaptureAssumption
      <3>2. QED
        BY <2>2, <2>3, <3>1 DEF Capture!Row, NumberRow
    <2>5. rows'[k] # Nothing
      BY <2>4, CaptureAssumption DEF NumberRow
    <2>6. QED
      BY <2>4, <2>5
  <1>4. \A k \in Capture!RowKeys : rows[k] = Nothing => rows'[k] = Nothing
    BY <1>2
  <1>5. rows' \in [Capture!RowKeys -> Capture!Row \cup {Nothing}]
    <2>1. \A k \in Capture!RowKeys : rows'[k] \in Capture!Row \cup {Nothing}
      BY <1>3, <1>4
    <2>2. QED
      BY <1>2, <2>1
  <1>6. Published(rows, rows')
    BY <1>3, <1>4 DEF Published
  <1>7. ASSUME NEW p \in Processes, rows[p] # Nothing
        PROVE  ~rows[p].active \/ process[p] = "exited" <=> ~rows'[p].active
    <2>1. p \in Capture!RowKeys /\ rows[p] \in Capture!Row
      BY <1>1, <1>7, RowKeysAre, CaptureTypes
    <2>2. process[p] # "new"
      BY <1>7 DEF CaptureInv, CaptureFollows, RowsTracked, Hears, Capture!Snapshot
    <2>3. process[p] \in {"new", "running", "exited"}
      BY <1>1
    <2>4. QED
      BY <1>3, <1>7, <2>1, <2>2, <2>3
  <1> DEFINE S == [k \in Capture!RowKeys |->
                    IF rows[k] = Nothing THEN Nothing
                    ELSE [bytes |-> rows'[k].bytes, active |-> rows'[k].active]]
  <1>8. report' = [state |-> "running", sampled |-> TRUE, upto |-> captured, samples |-> S]
    BY <1>2 DEF Capture!Publish
  <1>9. ASSUME NEW k \in Capture!RowKeys
        PROVE  /\ S[k] \in Capture!Sample \cup {Nothing}
               /\ rows[k] = Nothing <=> S[k] = Nothing
               /\ rows[k] # Nothing => S[k].bytes = rows[k].bytes /\ S[k].active = rows'[k].active
    <2>1. CASE rows[k] = Nothing
      BY <2>1
    <2>2. CASE rows[k] # Nothing
      <3>1. S[k] = [bytes |-> rows'[k].bytes, active |-> rows'[k].active]
        BY <2>2
      <3>2. rows'[k].bytes \in 0..MaxCaptured /\ rows'[k].active \in BOOLEAN
        BY <1>3, <2>2 DEF Capture!Row
      <3>3. S[k] \in Capture!Sample /\ S[k] \in [bytes : Nat, active : BOOLEAN]
        BY <3>1, <3>2, CaptureAssumption DEF Capture!Sample
      <3>4. S[k] # Nothing
        BY <3>3, CaptureAssumption
      <3>5. QED
        BY <1>3, <2>2, <3>1, <3>3, <3>4
    <2>3. QED
      BY <2>1, <2>2
  <1>10. S \in [Capture!RowKeys -> Capture!Sample \cup {Nothing}]
    BY <1>9
  <1> HIDE DEF S
  <1>11. report'.samples = S /\ report'.upto = captured /\ report'.state = "running" /\ report'.sampled = TRUE
    BY <1>8
  <1>12. report' \in Capture!Reports
    BY <1>1, <1>8, <1>10 DEF Capture!Reports
  <1>13. QED
    BY <1>5, <1>6, <1>7, <1>9, <1>11, <1>12

LEMMA CaptureSnapshot ==
    ASSUME CaptureInv, Capture!Snapshot
    PROVE  CaptureInv'
  <1>1. /\ capture = "running" /\ requested' = FALSE
        /\ UNCHANGED <<process, capture, captured, acknowledgements, known, counters, acknowledged, network,
                       storedBytes, givenUp, upto, appEnabled, paused, wifi, captureFailures, captureActs>>
    BY DEF Capture!Snapshot, Capture!systemVars, Capture!accumulatorVars, Capture!countVars
  <1>2. /\ rows' \in [Capture!RowKeys -> Capture!Row \cup {Nothing}]
        /\ Published(rows, rows')
        /\ \A p \in Processes : rows[p] # Nothing =>
                (~rows[p].active \/ process[p] = "exited" <=> ~rows'[p].active)
        /\ report' \in Capture!Reports /\ report'.state = "running" /\ report'.upto = captured
        /\ \A k \in Capture!RowKeys :
                 /\ rows[k] = Nothing <=> report'.samples[k] = Nothing
                 /\ rows[k] # Nothing => /\ report'.samples[k].bytes = rows[k].bytes
                                         /\ report'.samples[k].active = rows'[k].active
    BY SnapshotRows
  <1>3. /\ Capture!TypeOK /\ Listed(rows) /\ Values(counters) /\ acknowledged \in SUBSET Processes
        /\ upto \in Nat /\ captured \in Nat /\ Attributed \in Nat
        /\ \A p \in Processes : acknowledgements[p] # Nothing => acknowledgements[p] \in Nat
    BY CaptureTypes DEF CaptureInv
  <1>4. /\ KnownFollows /\ HeldFollows /\ ReportFollows /\ HeldBeforeReport /\ RowsTracked
        /\ StartsEmpty /\ SnapshotsFit /\ LatestKnown
    BY DEF CaptureInv, CaptureFollows
  <1>5. /\ fresh' = TRUE
        /\ pendingAppUsage' = Nothing <=> pendingAppUsage = Nothing
        /\ pendingAppUsage # Nothing =>
             /\ Held' = Held /\ pendingAppUsage'.last = FALSE
             /\ pendingAppUsage' \in [report : Capture!Reports, wifi : Networks \cup {Nothing}, last : BOOLEAN]
        /\ Awaited' = Awaited /\ (Awaited => Held' = Held)
    BY <1>3, PublishFacts DEF Capture!Snapshot
  <1>6. Hears /\ Hears' /\ Received' /\ Attributed' = Attributed
    BY <1>1, <1>2 DEF Hears, Received, Attributed
  <1>7. /\ Tracked(rows, captured, acknowledgements, process) /\ Attributed <= captured
        /\ \A p \in Processes : rows[p] # Nothing => process[p] # "new"
    BY <1>4, <1>6 DEF RowsTracked
  <1>8. Tracked(rows', captured, acknowledgements, process)
    BY <1>2, <1>3, <1>7, TrackedSnapshot
  <1>9. \A p \in Processes : p \in Capture!RowKeys /\ (rows[p] = Nothing <=> rows'[p] = Nothing)
    BY <1>2, RowKeysAre DEF Published
  <1>10. ASSUME NEW base, NEW dead, NEW total,
                Carried(base, dead, total, rows, captured, acknowledgements, process)
         PROVE  /\ Carried(base, dead, total, rows', captured, acknowledgements, process)
                /\ Ahead(base, dead, total, report'.samples, report'.upto)
    <2>1. Carried(base, dead, total, rows', captured, acknowledgements, process)
      BY <1>2, <1>10, CarriedSnapshot
    <2>2. /\ Ahead(base, dead, total, rows, captured) /\ dead \subseteq dead
          /\ \A k \in Capture!RowKeys : base[k] = base[k]
          /\ \A k \in Capture!RowKeys : /\ rows[k] = Nothing <=> report'.samples[k] = Nothing
                                        /\ rows[k] # Nothing => report'.samples[k].bytes = rows[k].bytes
      BY <1>2, <1>10 DEF Carried
    <2>3. Ahead(base, dead, total, report'.samples, captured)
      BY <2>2, AheadAlike
    <2>4. QED
      BY <1>2, <2>1, <2>3
  <1>11. KnownFollows'
    <2>1. ASSUME known
          PROVE  Carried(counters, acknowledged, upto, rows', captured, acknowledgements, process)
                 /\ Attributed = upto /\ upto <= captured
      BY <1>4, <1>6, <1>10, <2>1 DEF KnownFollows
    <2>2. QED
      BY <1>1, <1>6, <2>1 DEF KnownFollows
  <1>12. HeldFollows'
    <2>1. SUFFICES ASSUME Awaited
                   PROVE  HeldFollows'
      BY <1>5 DEF HeldFollows
    <2>2. Held' = Held
      BY <1>5, <2>1
    <2>3. Attributed <= Held.upto /\ Held.upto <= captured
          /\ (known => Ahead(counters, acknowledged, upto, Held.samples, Held.upto))
          /\ Carried(SizeOf(Held.samples), Dead(Held.samples), Held.upto, rows, captured, acknowledgements, process)
          /\ \A q \in Dead(Held.samples) : rows[q] # Nothing => ~rows[q].active
      BY <1>4, <1>6, <2>1 DEF HeldFollows
    <2>4. Carried(SizeOf(Held.samples), Dead(Held.samples), Held.upto, rows', captured, acknowledgements, process)
      BY <1>10, <2>3
    <2>5. \A q \in Dead(Held.samples) : rows'[q] # Nothing => ~rows'[q].active
      BY <1>2, <1>9, <2>3 DEF Dead
    <2>6. QED
      BY <1>1, <1>6, <2>2, <2>3, <2>4, <2>5 DEF HeldFollows
  <1>13. ReportFollows'
    <2>1. Carried(SizeOf(report'.samples), Dead(report'.samples), report'.upto, rows', captured, acknowledgements, process)
      <3>1. /\ \A k \in Capture!RowKeys : /\ rows[k] = Nothing <=> report'.samples[k] = Nothing
                                          /\ rows[k] # Nothing => report'.samples[k].bytes = rows[k].bytes
            /\ \A p \in Processes : rows[p] # Nothing /\ ~rows[p].active => ~report'.samples[p].active
        BY <1>2, <1>9
      <3>2. Carried(SizeOf(report'.samples), Dead(report'.samples), captured, rows', captured, acknowledgements, process)
        BY <1>2, <1>3, <1>7, <3>1, CarriedPublished
      <3>3. QED
        BY <1>2, <3>2
    <2>2. \A k \in Here(rows') : rows'[k].published = SizeOf(report'.samples)[k]
      BY <1>2 DEF Here, Published, SizeOf
    <2>3. \A p \in Processes : rows'[p] # Nothing /\ report'.samples[p] # Nothing
                                  => rows'[p].active = report'.samples[p].active
      BY <1>2, <1>9
    <2>4. ASSUME known
          PROVE  Ahead(counters, acknowledged, upto, report'.samples, report'.upto)
      BY <1>4, <1>6, <1>10, <2>4 DEF KnownFollows
    <2>5. Attributed <= report'.upto /\ report'.upto <= captured
      BY <1>2, <1>3, <1>7
    <2>6. QED
      BY <1>1, <1>6, <2>1, <2>2, <2>3, <2>4, <2>5 DEF ReportFollows
  <1>14. HeldBeforeReport'
    <2>1. SUFFICES ASSUME Awaited
                   PROVE  HeldBeforeReport'
      BY <1>5 DEF HeldBeforeReport
    <2>2. Held' = Held
      BY <1>5, <2>1
    <2>3. /\ Carried(SizeOf(Held.samples), Dead(Held.samples), Held.upto, rows, captured, acknowledgements, process)
          /\ \A q \in Dead(Held.samples) : rows[q] # Nothing => ~rows[q].active
      BY <1>4, <1>6, <2>1 DEF HeldFollows
    <2>4. Ahead(SizeOf(Held.samples), Dead(Held.samples), Held.upto, report'.samples, report'.upto)
      BY <1>10, <2>3
    <2>5. ASSUME NEW p \in Processes, rows'[p] # Nothing
          PROVE  report'.samples[p] # Nothing /\ (p \in Dead(Held.samples) => p \in Dead(report'.samples))
      <3>1. rows[p] # Nothing /\ report'.samples[p] # Nothing /\ report'.samples[p].active = rows'[p].active
            /\ (~rows[p].active => ~rows'[p].active)
        BY <1>2, <1>9, <2>5
      <3>2. QED
        BY <2>3, <3>1 DEF Dead
    <2>6. QED
      BY <2>2, <2>4, <2>5 DEF HeldBeforeReport
  <1>15. RowsTracked'
    BY <1>1, <1>6, <1>7, <1>8, <1>9 DEF RowsTracked
  <1>16. StartsEmpty'
    BY <1>1 DEF StartsEmpty
  <1>17. SnapshotsFit'
    <2>1. \A p \in Processes : report'.samples[p] # Nothing => report'.samples[p].bytes >= 1
      BY <1>2, <1>7, <1>9 DEF Tracked
    <2>2. Fit(report')
      BY <1>2, <2>1 DEF Fit
    <2>3. pendingAppUsage' # Nothing => Fit(Held') /\ ~pendingAppUsage'.last /\ fresh'
      BY <1>4, <1>5 DEF SnapshotsFit
    <2>4. QED
      BY <2>2, <2>3 DEF SnapshotsFit
  <1>18. LatestKnown'
    BY <1>5 DEF LatestKnown
  <1>19. Capture!TypeOK'
    BY <1>1, <1>2, <1>3, <1>5 DEF Capture!TypeOK
  <1>20. QED
    BY <1>11, <1>12, <1>13, <1>14, <1>15, <1>16, <1>17, <1>18, <1>19 DEF CaptureInv, CaptureFollows

LEMMA CaptureAcknowledge ==
    ASSUME CaptureInv, Capture!Acknowledge
    PROVE  CaptureInv'
  <1>1. /\ capture = "running" /\ acknowledgements' = NoAcks
        /\ UNCHANGED <<process, capture, captured, report, fresh, requested, pendingAppUsage, known, counters,
                       acknowledged, network, storedBytes, givenUp, upto, appEnabled, paused, wifi,
                       captureFailures, captureActs>>
    BY DEF Capture!Acknowledge, Capture!systemVars, Capture!accumulatorVars, Capture!countVars, Capture!serviceVars,
           Capture!NoAcknowledgements, NoAcks
  <1>2. rows' = Acknowledged(rows, acknowledgements)
    BY DEF Capture!Acknowledge, Acknowledged, GoneOf
  <1>3. /\ Capture!TypeOK /\ Listed(rows) /\ Values(counters) /\ acknowledged \in SUBSET Processes
        /\ upto \in Nat /\ captured \in Nat /\ Attributed \in Nat /\ captured <= MaxCaptured
        /\ rows \in [Capture!RowKeys -> NumberRow \cup {Nothing}]
        /\ \A p \in Processes : acknowledgements[p] # Nothing => acknowledgements[p] \in Nat
    BY CaptureTypes DEF CaptureInv
  <1>4. /\ KnownFollows /\ HeldFollows /\ ReportFollows /\ HeldBeforeReport /\ RowsTracked
        /\ StartsEmpty /\ SnapshotsFit /\ LatestKnown
    BY DEF CaptureInv, CaptureFollows
  <1>5. Hears /\ Hears' /\ Received' = Received /\ Awaited' = Awaited /\ Held' = Held /\ Attributed' = Attributed
    BY <1>1 DEF Hears, Received, Awaited, Held, Attributed
  <1>6. /\ Tracked(rows, captured, acknowledgements, process) /\ Attributed <= captured
        /\ \A p \in Processes : rows[p] # Nothing => process[p] # "new"
    BY <1>4, <1>5 DEF RowsTracked
  <1>7. Tracked(rows', captured, NoAcks, process) /\ rows' \in [Capture!RowKeys -> NumberRow \cup {Nothing}]
    BY <1>2, <1>3, <1>6, TrackedAcknowledge
  <1>8. \A p \in Processes : rows'[p] # Nothing =>
            rows'[p] = rows[p] /\ rows[p] # Nothing /\ p \notin GoneOf(rows, acknowledgements)
    BY <1>2, RowKeysAre DEF Acknowledged
  <1>9. ASSUME NEW base, NEW dead \in SUBSET Processes, NEW total \in Nat, Values(base),
               Carried(base, dead, total, rows, captured, acknowledgements, process)
        PROVE  Carried(base, dead, total, rows', captured, NoAcks, process)
    BY <1>2, <1>3, <1>6, <1>9, CarriedAcknowledge
  <1>10. KnownFollows'
    <2>1. ASSUME known
          PROVE  Carried(counters, acknowledged, upto, rows', captured, NoAcks, process)
                 /\ Attributed = upto /\ upto <= captured
      BY <1>3, <1>4, <1>5, <1>9, <2>1 DEF KnownFollows
    <2>2. QED
      BY <1>1, <1>5, <2>1 DEF KnownFollows
  <1>11. HeldFollows'
    <2>1. SUFFICES ASSUME Awaited
                   PROVE  HeldFollows'
      BY <1>5 DEF HeldFollows
    <2>2. Held \in Capture!Reports
      BY <1>3, <2>1, HeldTypes DEF Awaited
    <2>3. Held.upto \in Nat /\ Values(SizeOf(Held.samples)) /\ Dead(Held.samples) \in SUBSET Processes
      BY <2>2, ReportTypes
    <2>4. Attributed <= Held.upto /\ Held.upto <= captured
          /\ (known => Ahead(counters, acknowledged, upto, Held.samples, Held.upto))
          /\ Carried(SizeOf(Held.samples), Dead(Held.samples), Held.upto, rows, captured, acknowledgements, process)
          /\ \A q \in Dead(Held.samples) : rows[q] # Nothing => ~rows[q].active
      BY <1>4, <1>5, <2>1 DEF HeldFollows
    <2>5. Carried(SizeOf(Held.samples), Dead(Held.samples), Held.upto, rows', captured, NoAcks, process)
      BY <1>9, <2>3, <2>4
    <2>6. \A q \in Dead(Held.samples) : rows'[q] # Nothing => ~rows'[q].active
      BY <1>8, <2>4 DEF Dead
    <2>7. QED
      BY <1>1, <1>5, <2>1, <2>4, <2>5, <2>6 DEF HeldFollows
  <1>12. ReportFollows'
    <2>1. SUFFICES ASSUME Received
                   PROVE  ReportFollows'
      BY <1>5 DEF ReportFollows
    <2>2. report \in Capture!Reports
      BY <1>3, HeldTypes
    <2>3. report.upto \in Nat /\ Values(SizeOf(report.samples)) /\ Dead(report.samples) \in SUBSET Processes
      BY <2>2, ReportTypes
    <2>4. Attributed <= report.upto /\ report.upto <= captured
          /\ (known => Ahead(counters, acknowledged, upto, report.samples, report.upto))
          /\ Carried(SizeOf(report.samples), Dead(report.samples), report.upto, rows, captured, acknowledgements, process)
          /\ (\A x \in Here(rows) : rows[x].published = SizeOf(report.samples)[x])
          /\ \A q \in Processes : rows[q] # Nothing /\ report.samples[q] # Nothing
                                  => rows[q].active = report.samples[q].active
      BY <1>4, <1>5, <2>1 DEF ReportFollows
    <2>5. Carried(SizeOf(report.samples), Dead(report.samples), report.upto, rows', captured, NoAcks, process)
      BY <1>9, <2>3, <2>4
    <2>6. ASSUME NEW k \in Here(rows')
          PROVE  rows'[k].published = SizeOf(report.samples)[k]
      <3>1. k \in Capture!RowKeys /\ rows'[k] # Nothing
        BY DEF Here
      <3>2. CASE GoneOf(rows, acknowledgements) = {}
        BY <1>2, <1>3, <2>4, <3>2, AcknowledgedNone
      <3>3. CASE GoneOf(rows, acknowledgements) # {}
        <4>1. /\ \A x \in GoneOf(rows, acknowledgements) : rows'[x] = Nothing
              /\ \A x \in Capture!RowKeys : x \notin GoneOf(rows, acknowledgements) /\ x # "retired" => rows'[x] = rows[x]
              /\ rows'["retired"].published = (IF rows["retired"] = Nothing THEN 0 ELSE rows["retired"].published)
          <5> DEFINE more == Acknowledged(rows, acknowledgements)
          <5>1. /\ \A x \in GoneOf(rows, acknowledgements) : more[x] = Nothing
                /\ \A x \in Capture!RowKeys : x \notin GoneOf(rows, acknowledgements) /\ x # "retired" => more[x] = rows[x]
                /\ more["retired"].published = (IF rows["retired"] = Nothing THEN 0 ELSE rows["retired"].published)
            BY <1>3, <3>3, AcknowledgedRows
          <5>2. rows' = more
            BY <1>2
          <5> HIDE DEF more
          <5>3. QED
            BY <5>1, <5>2
        <4>2. CASE k # "retired"
          <5>1. rows'[k] = rows[k]
            BY <3>1, <4>1, <4>2
          <5>2. k \in Here(rows)
            BY <3>1, <5>1 DEF Here
          <5>3. QED
            BY <2>4, <5>1, <5>2
        <4>3. CASE k = "retired"
          <5>1. CASE rows[k] # Nothing
            BY <2>4, <3>1, <4>1, <4>3, <5>1 DEF Here
          <5>2. CASE rows[k] = Nothing
            <6>1. SizeOf(report.samples)[k] = 0
              BY <2>3, <2>4, <3>1, <4>3, <5>2, RowKeysAre DEF Carried, Ahead
            <6>2. QED
              BY <4>1, <4>3, <5>2, <6>1
          <5>3. QED
            BY <5>1, <5>2
        <4>4. QED
          BY <4>2, <4>3
      <3>4. QED
        BY <3>2, <3>3
    <2>7. \A q \in Processes : rows'[q] # Nothing /\ report.samples[q] # Nothing
                                  => rows'[q].active = report.samples[q].active
      BY <1>8, <2>4
    <2>8. QED
      BY <1>1, <1>5, <2>1, <2>4, <2>5, <2>6, <2>7 DEF ReportFollows
  <1>13. HeldBeforeReport'
    BY <1>1, <1>4, <1>5, <1>8 DEF HeldBeforeReport
  <1>14. RowsTracked'
    BY <1>1, <1>5, <1>6, <1>7, <1>8 DEF RowsTracked
  <1>15. StartsEmpty' /\ SnapshotsFit'
    BY <1>1, <1>4, <1>5 DEF StartsEmpty, SnapshotsFit
  <1>16. LatestKnown'
    <2>1. ASSUME known, ~fresh
          PROVE  /\ Received /\ counters = SizeOf(report.samples) /\ upto = report.upto
                 /\ \A q \in Dead(report.samples) : rows'[q] = Nothing
      <3>1. /\ Received /\ counters = SizeOf(report.samples) /\ upto = report.upto
            /\ \A q \in Dead(report.samples) : rows[q] # Nothing => acknowledgements[q] = rows[q].published
        BY <1>4, <1>5, <2>1 DEF LatestKnown
      <3>2. ASSUME NEW q \in Dead(report.samples), rows'[q] # Nothing
            PROVE  FALSE
        <4>1. q \in Processes /\ q \in Capture!RowKeys /\ report.samples[q] # Nothing /\ ~report.samples[q].active
              /\ rows[q] # Nothing /\ q \notin GoneOf(rows, acknowledgements) /\ q \in Here(rows)
          BY <1>8, <3>2, RowKeysAre DEF Dead, Here
        <4>2. rows[q] \in NumberRow /\ rows[q].published <= rows[q].bytes
          BY <1>3, <1>6, <4>1 DEF Tracked
        <4>3. rows[q].active = report.samples[q].active
          BY <1>4, <1>5, <3>1, <4>1 DEF ReportFollows
        <4>4. acknowledgements[q] = rows[q].published /\ rows[q].published \in Nat /\ acknowledgements[q] # Nothing
          BY <3>1, <4>1, <4>2, CaptureAssumption DEF NumberRow
        <4>5. Capture!Current(rows[q], acknowledgements[q])
          BY <4>1, <4>2, <4>3, <4>4 DEF Capture!Current, NumberRow
        <4>6. QED
          BY <4>1, <4>4, <4>5 DEF GoneOf
      <3>3. QED
        BY <3>1, <3>2
    <2>2. QED
      BY <1>1, <1>5, <2>1 DEF LatestKnown
  <1>17. Capture!TypeOK'
    <2>1. rows' \in [Capture!RowKeys -> Capture!Row \cup {Nothing}]
      <3>1. ASSUME NEW x \in Capture!RowKeys, rows'[x] # Nothing
            PROVE  rows'[x] \in Capture!Row
        <4>1. x \in Here(rows') /\ rows'[x] \in NumberRow
          BY <1>7, <3>1 DEF Here
        <4>2. Listed(rows')
          BY <1>7 DEF Listed, NumberRow
        <4>3. rows'[x].bytes \in 0..captured /\ rows'[x].published \in 0..captured
          BY <1>3, <1>7, <4>1, <4>2, TrackedBound
        <4>4. rows'[x].bytes \in 0..MaxCaptured /\ rows'[x].published \in 0..MaxCaptured
          BY <1>3, <4>3, CaptureAssumption
        <4>5. QED
          BY <4>1, <4>4 DEF NumberRow, Capture!Row
      <3>2. QED
        BY <1>7, <3>1
    <2>2. acknowledgements' \in [Processes -> 0..MaxCaptured \cup {Nothing}]
      BY <1>1 DEF NoAcks
    <2>3. QED
      BY <1>1, <1>3, <2>1, <2>2 DEF Capture!TypeOK
  <1>18. QED
    BY <1>10, <1>11, <1>12, <1>13, <1>14, <1>15, <1>16, <1>17 DEF CaptureInv, CaptureFollows

-----------------------------------------------------------------------------
LEMMA ReportIs ==
    ASSUME NEW word
    PROVE  /\ Capture!Report(word).state = word /\ Capture!Report(word).samples = Capture!NoRows
           /\ Capture!Report(word).upto = 0 /\ Fit(Capture!Report(word))
           /\ word \in {"disabled", "starting", "running", "permission", "unavailable"}
                => Capture!Report(word) \in Capture!Reports
  <1> DEFINE snap == Capture!Report(word)
  <1>1. snap.state = word /\ snap.samples = Capture!NoRows /\ snap.upto = 0
    BY DEF Capture!Report
  <1>2. \A p \in Processes : Capture!NoRows[p] = Nothing
    BY RowKeysAre DEF Capture!NoRows
  <1>3. 0 \in 0..MaxCaptured
    BY CaptureAssumption
  <1>4. word \in {"disabled", "starting", "running", "permission", "unavailable"} => snap \in Capture!Reports
    BY <1>3 DEF Capture!Report, Capture!Reports, Capture!NoRows
  <1> HIDE DEF snap
  <1>5. Fit(snap)
    BY <1>1, <1>2 DEF Fit
  <1>6. QED
    BY <1>1, <1>4, <1>5 DEF snap

\* A helper that has counted nothing.
LEMMA EmptyRows ==
    ASSUME NEW proc
    PROVE  /\ Carried(SizeOf(Capture!NoRows), Dead(Capture!NoRows), 0, Capture!NoRows, 0, NoAcks, proc)
           /\ Tracked(Capture!NoRows, 0, NoAcks, proc) /\ Here(Capture!NoRows) = {}
  <1> DEFINE list == Capture!NoRows
             base == SizeOf(Capture!NoRows)
  <1>1. (\A k \in Capture!RowKeys : list[k] = Nothing) /\ \A p \in Processes : list[p] = Nothing /\ NoAcks[p] = Nothing
    BY RowKeysAre DEF Capture!NoRows, NoAcks
  <1>2. Here(list) = {}
    BY <1>1 DEF Here
  <1>3. Capture!Beyond(list, base, {}) = 0 /\ Capture!Beyond(list, Zeros, {}) = 0
    BY BeyondNone
  <1>4. \A k \in Capture!RowKeys : base[k] = 0
    BY <1>1 DEF SizeOf
  <1>5. \A p \in Processes : base[p] = 0
    BY <1>4, RowKeysAre
  <1> HIDE DEF list, base
  <1>6. Ahead(base, Dead(list), 0, list, 0)
    BY <1>2, <1>3, <1>4 DEF Ahead
  <1>7. Carried(base, Dead(list), 0, list, 0, NoAcks, proc)
    BY <1>1, <1>2, <1>5, <1>6 DEF Carried
  <1>8. Tracked(list, 0, NoAcks, proc)
    BY <1>1, <1>2, <1>3 DEF Tracked
  <1>9. QED
    BY <1>2, <1>7, <1>8 DEF list, base

LEMMA CaptureHelperStarts ==
    ASSUME CaptureInv, Capture!HelperStarts
    PROVE  CaptureInv'
  <1>1. /\ capture = "starting"
        /\ UNCHANGED <<process, wifi, rows, captured, requested, acknowledgements, known, counters, acknowledged,
                       network, storedBytes, givenUp, upto, appEnabled, paused, captureActs>>
    BY DEF Capture!HelperStarts, Capture!systemVars, Capture!accumulatorVars
  <1>2. /\ Capture!TypeOK /\ StartsEmpty /\ SnapshotsFit
    BY DEF CaptureInv, CaptureFollows
  <1>3. /\ rows = Capture!NoRows /\ captured = 0 /\ storedBytes = 0 /\ givenUp = 0 /\ ~known
        /\ acknowledgements = NoAcks /\ ~Awaited
    BY <1>1, <1>2 DEF StartsEmpty
  <1>4. PICK word \in {"running", "permission", "unavailable"} :
            /\ Capture!Publish(Capture!Report(word))
            /\ capture' = (IF word = "running" THEN "running" ELSE "off")
            /\ captureFailures' \in 0..MaxFailures
    <2>1. CASE capture' = "running" /\ Capture!Publish(Capture!Report("running")) /\ UNCHANGED captureFailures
      BY <1>2, <2>1 DEF Capture!TypeOK
    <2>2. CASE /\ capture' = "off" /\ Capture!Fault
               /\ \E word \in {"permission", "unavailable"} : Capture!Publish(Capture!Report(word))
      <3>1. captureFailures \in 0..MaxFailures /\ captureFailures < MaxFailures /\ captureFailures' = captureFailures + 1
        BY <1>2, <2>2 DEF Capture!TypeOK, Capture!Fault
      <3>2. captureFailures' \in 0..MaxFailures
        BY <3>1, BoundsAssumption
      <3>3. QED
        BY <2>2, <3>2
    <2>3. QED
      BY <2>1, <2>2 DEF Capture!HelperStarts
  <1> DEFINE snap == Capture!Report(word)
  <1>5. /\ snap.state = word /\ snap.samples = Capture!NoRows /\ snap.upto = 0 /\ Fit(snap) /\ snap \in Capture!Reports
    BY ReportIs
  <1>6. Capture!Publish(snap)
    BY <1>4
  <1> HIDE DEF snap
  <1>7. /\ report' = snap /\ fresh' = TRUE
        /\ pendingAppUsage' = Nothing <=> pendingAppUsage = Nothing
        /\ pendingAppUsage # Nothing =>
             /\ Held' = Held /\ pendingAppUsage'.last = FALSE
             /\ pendingAppUsage' \in [report : Capture!Reports, wifi : Networks \cup {Nothing}, last : BOOLEAN]
        /\ Awaited' = Awaited
    BY <1>2, <1>6, PublishFacts
  <1>8. KnownFollows' /\ HeldFollows' /\ HeldBeforeReport' /\ LatestKnown'
    BY <1>1, <1>3, <1>7 DEF KnownFollows, HeldFollows, HeldBeforeReport, LatestKnown
  <1>9. StartsEmpty'
    BY <1>4 DEF StartsEmpty
  <1>10. SnapshotsFit'
    BY <1>2, <1>5, <1>7 DEF SnapshotsFit
  <1>11. Capture!TypeOK'
    BY <1>1, <1>2, <1>4, <1>5, <1>7 DEF Capture!TypeOK
  <1>12. /\ Carried(SizeOf(Capture!NoRows), Dead(Capture!NoRows), 0, Capture!NoRows, 0, NoAcks, process)
         /\ Tracked(Capture!NoRows, 0, NoAcks, process) /\ Here(Capture!NoRows) = {}
         /\ \A p \in Processes : Capture!NoRows[p] = Nothing
    BY EmptyRows, RowKeysAre DEF Capture!NoRows
  <1>13. Attributed' = 0
    BY <1>1, <1>3 DEF Attributed
  <1>14. ReportFollows'
    <2>1. /\ Carried(SizeOf(snap.samples), Dead(snap.samples), snap.upto, rows, captured, acknowledgements, process)
          /\ Here(rows) = {} /\ \A p \in Processes : rows[p] = Nothing
      BY <1>3, <1>5, <1>12
    <2>2. /\ Carried(SizeOf(report'.samples), Dead(report'.samples), report'.upto, rows', captured', acknowledgements', process')
          /\ Here(rows') = {} /\ \A p \in Processes : rows'[p] = Nothing
      BY <1>1, <1>7, <2>1
    <2>3. Attributed' <= report'.upto /\ report'.upto <= captured'
      BY <1>1, <1>3, <1>5, <1>7, <1>13
    <2>4. QED
      BY <1>1, <1>3, <2>2, <2>3 DEF ReportFollows
  <1>15. RowsTracked'
    <2>1. Tracked(rows', captured', acknowledgements', process') /\ Attributed' <= captured'
          /\ \A p \in Processes : rows'[p] = Nothing
      BY <1>1, <1>3, <1>12, <1>13
    <2>2. QED
      BY <2>1 DEF RowsTracked
  <1>16. QED
    BY <1>8, <1>9, <1>10, <1>11, <1>14, <1>15 DEF CaptureInv, CaptureFollows

LEMMA CaptureHelperFails ==
    ASSUME CaptureInv, Capture!HelperFails
    PROVE  CaptureInv'
  <1>1. /\ capture = "running" /\ requested' = FALSE /\ Capture!Fault
        /\ Capture!Publish(Capture!Report("unavailable"))
        /\ UNCHANGED <<process, wifi, captured, known, counters, acknowledged,
                       network, storedBytes, givenUp, upto, appEnabled, paused, captureActs>>
        /\ \/ UNCHANGED <<capture, rows, acknowledgements>>
           \/ capture' = "off" /\ rows' = Capture!NoRows /\ acknowledgements' = NoAcks
    BY DEF Capture!HelperFails, Capture!systemVars, Capture!accumulatorVars, NoAcks, Capture!NoAcknowledgements
  <1>2. /\ Capture!TypeOK /\ StartsEmpty /\ SnapshotsFit /\ KnownFollows /\ HeldFollows /\ RowsTracked
    BY DEF CaptureInv, CaptureFollows
  <1> DEFINE snap == Capture!Report("unavailable")
  <1>5. /\ snap.state = "unavailable" /\ Fit(snap) /\ snap \in Capture!Reports
    BY ReportIs
  <1>6. Capture!Publish(snap)
    BY <1>1
  <1> HIDE DEF snap
  <1>7. /\ report' = snap /\ fresh' = TRUE
        /\ pendingAppUsage' = Nothing <=> pendingAppUsage = Nothing
        /\ pendingAppUsage # Nothing =>
             /\ Held' = Held /\ pendingAppUsage'.last = FALSE
             /\ pendingAppUsage' \in [report : Capture!Reports, wifi : Networks \cup {Nothing}, last : BOOLEAN]
        /\ Awaited' = Awaited /\ (Awaited => Held' = Held)
    BY <1>2, <1>6, PublishFacts
  <1>8. ~Received' /\ Attributed' = Attributed /\ Hears
    BY <1>1, <1>5, <1>7 DEF Received, Attributed, Hears
  <1>9. Hears' => UNCHANGED <<rows, acknowledgements>>
    BY <1>1 DEF Hears
  <1>10. HeldBeforeReport' /\ ReportFollows' /\ LatestKnown' /\ StartsEmpty'
    BY <1>1, <1>7, <1>8 DEF HeldBeforeReport, ReportFollows, LatestKnown, StartsEmpty
  <1>11. SnapshotsFit'
    BY <1>2, <1>5, <1>7 DEF SnapshotsFit
  <1>12. KnownFollows'
    BY <1>1, <1>2, <1>8, <1>9 DEF KnownFollows
  <1>13. HeldFollows'
    <2>1. ASSUME Awaited
          PROVE  HeldFollows'
      <3>1. Held' = Held
        BY <1>7, <2>1
      <3>2. /\ Attributed' <= Held.upto /\ Held.upto <= captured
            /\ known => Ahead(counters, acknowledged, upto, Held.samples, Held.upto)
            /\ Hears => /\ Carried(SizeOf(Held.samples), Dead(Held.samples), Held.upto, rows, captured,
                                      acknowledgements, process)
                        /\ \A p \in Dead(Held.samples) : rows[p] # Nothing => ~rows[p].active
        BY <1>2, <1>8, <2>1 DEF HeldFollows
      <3>3. QED
        BY <1>1, <1>8, <1>9, <3>1, <3>2 DEF HeldFollows
    <2>2. QED
      BY <1>7, <2>1 DEF HeldFollows
  <1>14. RowsTracked'
    BY <1>1, <1>2, <1>8, <1>9 DEF RowsTracked
  <1>15. Capture!TypeOK'
    <2>1. captureFailures' \in 0..MaxFailures
      BY <1>1, <1>2, BoundsAssumption DEF Capture!TypeOK, Capture!Fault
    <2>2. /\ capture' \in {"off", "starting", "running"}
          /\ rows' \in [Capture!RowKeys -> Capture!Row \cup {Nothing}]
          /\ acknowledgements' \in [Processes -> 0..MaxCaptured \cup {Nothing}]
      BY <1>1, <1>2 DEF Capture!TypeOK, Capture!NoRows, NoAcks
    <2>3. QED
      BY <1>1, <1>2, <1>5, <1>7, <2>1, <2>2 DEF Capture!TypeOK
  <1>16. QED
    BY <1>10, <1>11, <1>12, <1>13, <1>14, <1>15 DEF CaptureInv, CaptureFollows

-----------------------------------------------------------------------------
\* The snapshot a round stores.
Taken == IF pendingAppUsage # Nothing THEN pendingAppUsage
         ELSE [report |-> report, wifi |-> wifi, last |-> TRUE]
Storing == Taken.report

\* Where it lies: after what is known, before the rows and the last snapshot.
LEMMA TakenFacts ==
    ASSUME CaptureInv
    PROVE  /\ Taken \in [report : Capture!Reports, wifi : Networks \cup {Nothing}, last : BOOLEAN]
           /\ Taken # Nothing /\ Storing \in Capture!Reports /\ Fit(Storing)
           /\ IF Taken.last THEN Storing = report ELSE fresh
           /\ capture = "starting" => Storing.state # "running"
           /\ Storing.state = "running" =>
                /\ Attributed <= Storing.upto /\ Storing.upto <= captured
                /\ known => Ahead(counters, acknowledged, upto, Storing.samples, Storing.upto)
                /\ Hears => /\ Carried(SizeOf(Storing.samples), Dead(Storing.samples), Storing.upto, rows, captured,
                                       acknowledgements, process)
                            /\ \A p \in Dead(Storing.samples) : rows[p] # Nothing => ~rows[p].active
                /\ Received =>
                     /\ Ahead(SizeOf(Storing.samples), Dead(Storing.samples), Storing.upto, report.samples, report.upto)
                     /\ Hears => \A p \in Processes : rows[p] # Nothing =>
                           /\ Storing.samples[p] # Nothing => report.samples[p] # Nothing
                           /\ p \in Dead(Storing.samples) => p \in Dead(report.samples)
  <1>1. /\ Capture!TypeOK /\ HeldFollows /\ ReportFollows /\ HeldBeforeReport /\ StartsEmpty /\ SnapshotsFit
    BY DEF CaptureInv, CaptureFollows
  <1>2. CASE pendingAppUsage # Nothing
    <2>1. Taken = pendingAppUsage /\ Storing = Held /\ (Awaited <=> Storing.state = "running")
      BY <1>2 DEF Taken, Storing, Held, Awaited
    <2>2. /\ Held \in Capture!Reports /\ Fit(Held)
          /\ IF pendingAppUsage.last THEN Held = report ELSE fresh
          /\ pendingAppUsage \in [report : Capture!Reports, wifi : Networks \cup {Nothing}, last : BOOLEAN]
      BY <1>1, <1>2, HeldTypes DEF SnapshotsFit
    <2>3. capture = "starting" => Storing.state # "running"
      BY <1>1, <2>1 DEF StartsEmpty
    <2>4. Storing.state = "running" =>
                /\ Attributed <= Storing.upto /\ Storing.upto <= captured
                /\ known => Ahead(counters, acknowledged, upto, Storing.samples, Storing.upto)
                /\ Hears => /\ Carried(SizeOf(Storing.samples), Dead(Storing.samples), Storing.upto, rows, captured,
                                       acknowledgements, process)
                            /\ \A p \in Dead(Storing.samples) : rows[p] # Nothing => ~rows[p].active
      BY <1>1, <2>1 DEF HeldFollows
    <2>5. Storing.state = "running" /\ Received =>
                     /\ Ahead(SizeOf(Storing.samples), Dead(Storing.samples), Storing.upto, report.samples, report.upto)
                     /\ Hears => \A p \in Processes : rows[p] # Nothing =>
                           /\ Storing.samples[p] # Nothing => report.samples[p] # Nothing
                           /\ p \in Dead(Storing.samples) => p \in Dead(report.samples)
      BY <1>1, <2>1 DEF HeldBeforeReport
    <2>6. QED
      BY <1>2, <2>1, <2>2, <2>3, <2>4, <2>5
  <1>3. CASE pendingAppUsage = Nothing
    <2>1. Taken = [report |-> report, wifi |-> wifi, last |-> TRUE]
      BY <1>3 DEF Taken
    <2>2. Storing = report /\ Taken.last = TRUE
          /\ Taken \in [report : Capture!Reports, wifi : Networks \cup {Nothing}, last : BOOLEAN]
      BY <1>1, <2>1 DEF Storing, Capture!TypeOK
    <2>3. Taken # Nothing /\ Storing \in Capture!Reports
      BY <1>1, <2>2, CaptureAssumption DEF Capture!TypeOK
    <2>4. Fit(Storing) /\ (Received <=> Storing.state = "running")
      BY <1>1, <2>2 DEF SnapshotsFit, Received
    <2>5. capture = "starting" => Storing.state # "running"
      BY <1>1, <2>4 DEF StartsEmpty
    <2>6. ASSUME Storing.state = "running"
          PROVE  /\ Attributed <= Storing.upto /\ Storing.upto <= captured
                 /\ known => Ahead(counters, acknowledged, upto, Storing.samples, Storing.upto)
                 /\ Hears => /\ Carried(SizeOf(Storing.samples), Dead(Storing.samples), Storing.upto, rows, captured,
                                       acknowledgements, process)
                             /\ \A p \in Processes : rows[p] # Nothing /\ Storing.samples[p] # Nothing
                                  => rows[p].active = Storing.samples[p].active
      BY <1>1, <2>2, <2>4, <2>6 DEF ReportFollows
    <2>7. Hears /\ Storing.state = "running" => \A p \in Dead(Storing.samples) : rows[p] # Nothing => ~rows[p].active
      BY <2>6 DEF Dead
    <2>8. Ahead(SizeOf(report.samples), Dead(report.samples), report.upto, report.samples, report.upto)
      BY <2>2, <2>3, ReportTypes, AheadSelf
    <2>9. QED
      BY <2>2, <2>3, <2>4, <2>5, <2>6, <2>7, <2>8
  <1>4. QED
    BY <1>2, <1>3

\* What the accumulator knows after a snapshot it counts.
LEMMA AccumulateIs ==
    ASSUME Capture!TypeOK, Capture!Accumulate(Taken), Storing \in Capture!Reports,
           Taken.wifi \in Networks \cup {Nothing}, Attributed <= Storing.upto,
           known => Attributed = upto /\ Ahead(counters, acknowledged, upto, Storing.samples, Storing.upto)
    PROVE  /\ counters' = SizeOf(Storing.samples) /\ upto' = Storing.upto /\ known' = TRUE
           /\ Dead(Storing.samples) \subseteq acknowledged' /\ acknowledged' \in SUBSET Processes
           /\ Attributed' = Storing.upto /\ storedBytes' \in 0..MaxCaptured /\ givenUp' \in 0..MaxCaptured
           /\ network' \in Networks \cup {Nothing}
  <1> DEFINE samples == Storing.samples
             present == {k \in Capture!RowKeys : samples[k] # Nothing}
             grown == {k \in present : samples[k].bytes >= counters[k]}
             bytes == Capture!Beyond(samples, counters, grown)
             gone == acknowledged \ present
  <1>1. /\ counters' = [k \in Capture!RowKeys |-> IF k \in present THEN samples[k].bytes
                                          ELSE IF k \in gone /\ known THEN 0
                                          ELSE IF known THEN counters[k] ELSE 0]
        /\ acknowledged' = (IF known THEN acknowledged \cap present ELSE {})
                               \cup {p \in present \cap Processes : ~samples[p].active}
        /\ network' = Taken.wifi /\ known' = TRUE /\ upto' = Storing.upto
        /\ \/ ~known /\ givenUp' = Storing.upto - storedBytes /\ storedBytes' = storedBytes
           \/ known /\ storedBytes' = storedBytes + bytes /\ givenUp' = givenUp
           \/ known /\ givenUp' = givenUp + bytes /\ storedBytes' = storedBytes
    BY DEF Capture!Accumulate, Storing
  <1>2. /\ Values(counters) /\ acknowledged \in SUBSET Processes /\ storedBytes \in Nat /\ givenUp \in Nat
        /\ Storing.upto \in Nat /\ Storing.upto <= MaxCaptured /\ Counts(samples) /\ MaxCaptured \in Nat
    BY CaptureTypes, ReportTypes, CaptureAssumption
  <1>3. present = Here(samples) /\ Here(samples) \subseteq Capture!RowKeys
        /\ \A k \in Capture!RowKeys : k \in Here(samples) <=> samples[k] # Nothing
    BY DEF Here
  <1>4. known => grown = Here(samples)
    <2>1. known => \A k \in Here(samples) : counters[k] <= samples[k].bytes
      BY DEF Ahead
    <2>2. \A k \in Here(samples) : counters[k] \in Nat /\ samples[k].bytes \in Nat
      BY <1>2, <1>3 DEF Values, Counts
    <2>3. known => \A k \in Here(samples) : samples[k].bytes >= counters[k]
      BY <2>1, <2>2
    <2>4. QED
      BY <1>3, <2>3
  <1>5. known => Storing.upto = Attributed + bytes /\ bytes \in Nat
    <2>1. ASSUME known
          PROVE  Storing.upto = Attributed + bytes /\ bytes \in Nat
      <3>1. bytes = Capture!Beyond(samples, counters, Here(samples))
        BY <1>4, <2>1
      <3>2. Attributed = upto /\ Ahead(counters, acknowledged, upto, samples, Storing.upto) /\ upto \in Nat
        BY <2>1, CaptureTypes
      <3>3. Capture!Beyond(samples, counters, Here(samples)) \in Nat
        BY <1>2, <3>2, AheadUpTo
      <3>4. Storing.upto = upto + Capture!Beyond(samples, counters, Here(samples))
        BY <3>2 DEF Ahead
      <3>5. QED
        BY <3>1, <3>2, <3>3, <3>4
    <2>2. QED
      BY <2>1
  <1>6. \A k \in Capture!RowKeys : counters'[k] = SizeOf(samples)[k]
    <2>1. ASSUME NEW k \in Capture!RowKeys
          PROVE  counters'[k] = SizeOf(samples)[k]
      <3>1. CASE k \in present
        BY <1>1, <2>1, <3>1 DEF SizeOf
      <3>2. CASE k \notin present
        <4>1. samples[k] = Nothing /\ SizeOf(samples)[k] = 0
          BY <3>2 DEF SizeOf
        <4>2. known => counters[k] = 0 \/ k \in gone
          BY <3>2, <4>1 DEF Ahead
        <4>3. counters'[k] = IF k \in gone /\ known THEN 0 ELSE IF known THEN counters[k] ELSE 0
          BY <1>1, <3>2
        <4>4. QED
          BY <4>1, <4>2, <4>3
      <3>3. QED
        BY <3>1, <3>2
    <2>2. QED
      BY <2>1
  <1>7. counters' = SizeOf(samples)
    <2>1. counters' = [k \in Capture!RowKeys |-> counters'[k]]
      BY <1>1
    <2>2. SizeOf(samples) = [k \in Capture!RowKeys |-> SizeOf(samples)[k]]
      BY DEF SizeOf
    <2> HIDE DEF samples
    <2>3. QED
      BY <1>6, <2>1, <2>2
  <1>8. Dead(samples) \subseteq acknowledged' /\ acknowledged' \in SUBSET Processes
    BY <1>1, <1>2, RowKeysAre DEF Dead
  <1> HIDE DEF bytes
  <1>9. Attributed' = Storing.upto /\ storedBytes' \in Nat /\ givenUp' \in Nat
    BY <1>1, <1>2, <1>5 DEF Attributed
  <1>10. storedBytes' \in 0..MaxCaptured /\ givenUp' \in 0..MaxCaptured
    BY <1>2, <1>9 DEF Attributed
  <1>11. QED
    BY <1>1, <1>7, <1>8, <1>9, <1>10

\* More is acknowledged, and what of it has a row is known.
LEMMA CarriedMore ==
    ASSUME NEW base, NEW dead, NEW total, NEW list, NEW last, NEW acks, NEW proc,
           Carried(base, dead, total, list, last, acks, proc),
           NEW gone, dead \subseteq gone, NEW more,
           \A p \in Processes : more[p] # Nothing /\ list[p] # Nothing => more[p] <= base[p] /\ p \in gone
    PROVE  Carried(base, gone, total, list, last, more, proc)
  <1>1. Ahead(base, gone, total, list, last)
    BY DEF Carried, Ahead
  <1>2. QED
    BY <1>1 DEF Carried

\* What is queued for the helper.
LEMMA QueuedIs ==
    ASSUME CaptureInv, Storing.state = "running", Capture!QueueAcknowledgements(Storing.samples)
    PROVE  /\ acknowledgements' \in [Processes -> 0..MaxCaptured \cup {Nothing}]
           /\ \A p \in Processes : /\ p \notin Dead(Storing.samples) => acknowledgements'[p] = acknowledgements[p]
                                   /\ p \in Dead(Storing.samples) => acknowledgements'[p] # Nothing
                                   /\ p \in Dead(Storing.samples) /\ rows[p] # Nothing /\ Hears
                                        => acknowledgements'[p] = SizeOf(Storing.samples)[p]
  <1> DEFINE samples == Storing.samples
  <1>1. /\ Storing \in Capture!Reports /\ Capture!TypeOK
        /\ Hears => Carried(SizeOf(samples), Dead(samples), Storing.upto, rows, captured, acknowledgements, process)
    BY TakenFacts DEF CaptureInv
  <1>2. /\ acknowledgements \in [Processes -> 0..MaxCaptured \cup {Nothing}]
        /\ \A p \in Processes : samples[p] # Nothing =>
              samples[p].bytes \in Nat /\ samples[p].bytes <= MaxCaptured /\ samples[p].bytes \in 0..MaxCaptured
        /\ \A p \in Processes : acknowledgements[p] # Nothing => acknowledgements[p] \in Nat
        /\ Nothing \notin Nat
    BY <1>1, RowKeysAre, ReportTypes, CaptureTypes, CaptureAssumption DEF Capture!TypeOK
  <1>3. \A p \in Processes : p \in Dead(samples) <=> ~(samples[p] = Nothing \/ samples[p].active)
    BY DEF Dead
  <1>4. \A p \in Dead(samples) : SizeOf(samples)[p] = samples[p].bytes
    BY RowKeysAre DEF SizeOf, Dead
  <1>5. \A p \in Processes : Hears /\ acknowledgements[p] # Nothing /\ rows[p] # Nothing => acknowledgements[p] <= SizeOf(samples)[p]
    BY <1>1 DEF Carried
  <1>6. acknowledgements' = [p \in Processes |->
            IF samples[p] = Nothing \/ samples[p].active THEN acknowledgements[p]
            ELSE IF acknowledgements[p] # Nothing /\ acknowledgements[p] > samples[p].bytes
            THEN acknowledgements[p] ELSE samples[p].bytes]
    BY DEF Capture!QueueAcknowledgements
  <1> HIDE DEF samples
  <1>7. ASSUME NEW p \in Processes
        PROVE  /\ p \notin Dead(samples) => acknowledgements'[p] = acknowledgements[p]
               /\ p \in Dead(samples) => /\ acknowledgements'[p] # Nothing
                                         /\ acknowledgements'[p] \in 0..MaxCaptured \cup {Nothing}
                                         /\ Hears /\ rows[p] # Nothing => acknowledgements'[p] = SizeOf(samples)[p]
    <2>1. CASE p \notin Dead(samples)
      BY <1>3, <1>6, <2>1
    <2>2. CASE p \in Dead(samples)
      <3>1. samples[p] # Nothing /\ ~samples[p].active /\ samples[p].bytes \in Nat /\ samples[p].bytes \in 0..MaxCaptured
            /\ SizeOf(samples)[p] = samples[p].bytes
        BY <1>2, <1>3, <1>4, <2>2
      <3>2. acknowledgements'[p] = IF acknowledgements[p] # Nothing /\ acknowledgements[p] > samples[p].bytes
                                   THEN acknowledgements[p] ELSE samples[p].bytes
        BY <1>6, <3>1
      <3>3. Hears /\ acknowledgements[p] # Nothing /\ rows[p] # Nothing => ~(acknowledgements[p] > samples[p].bytes)
        BY <1>2, <1>5, <3>1
      <3>4. QED
        BY <1>2, <2>2, <3>1, <3>2, <3>3
    <2>3. QED
      BY <2>1, <2>2
  <1>8. acknowledgements' \in [Processes -> 0..MaxCaptured \cup {Nothing}]
    BY <1>2, <1>6, <1>7
  <1>9. QED
    BY <1>7, <1>8 DEF samples

-----------------------------------------------------------------------------
\* A snapshot that is counted.
LEMMA CaptureCounts ==
    ASSUME CaptureInv, Storing.state = "running", Capture!Accumulate(Taken), pendingAppUsage' = Nothing,
           Capture!QueueAcknowledgements(Storing.samples), fresh' = (fresh /\ ~Taken.last),
           UNCHANGED <<process, capture, rows, captured, report>>
    PROVE  /\ CaptureFollows'
           /\ counters' \in [Capture!RowKeys -> 0..MaxCaptured] /\ acknowledged' \in SUBSET Processes /\ known' = TRUE
           /\ {storedBytes', givenUp', upto'} \subseteq 0..MaxCaptured /\ network' \in Networks \cup {Nothing}
           /\ acknowledgements' \in [Processes -> 0..MaxCaptured \cup {Nothing}]
  <1> DEFINE snap == Storing
             samples == Storing.samples
  <1>1. /\ Taken \in [report : Capture!Reports, wifi : Networks \cup {Nothing}, last : BOOLEAN]
        /\ snap \in Capture!Reports /\ Fit(snap)
        /\ IF Taken.last THEN snap = report ELSE fresh
        /\ capture # "starting"
        /\ Attributed <= snap.upto /\ snap.upto <= captured
        /\ known => Ahead(counters, acknowledged, upto, samples, snap.upto)
        /\ Hears => /\ Carried(SizeOf(samples), Dead(samples), snap.upto, rows, captured, acknowledgements, process)
                    /\ \A p \in Dead(samples) : rows[p] # Nothing => ~rows[p].active
        /\ Received =>
             /\ Ahead(SizeOf(samples), Dead(samples), snap.upto, report.samples, report.upto)
             /\ Hears => \A p \in Processes : rows[p] # Nothing =>
                   /\ samples[p] # Nothing => report.samples[p] # Nothing
                   /\ p \in Dead(samples) => p \in Dead(report.samples)
    BY TakenFacts
  <1>2. /\ Capture!TypeOK /\ KnownFollows /\ ReportFollows /\ RowsTracked /\ SnapshotsFit /\ Listed(rows)
        /\ captured \in Nat /\ rows \in [Capture!RowKeys -> NumberRow \cup {Nothing}]
    BY CaptureTypes DEF CaptureInv, CaptureFollows
  <1>3. /\ snap.upto \in Nat /\ snap.upto <= MaxCaptured /\ Counts(samples) /\ Values(SizeOf(samples))
        /\ Dead(samples) \in SUBSET Processes
        /\ \A k \in Capture!RowKeys : samples[k] # Nothing => samples[k].bytes \in Nat /\ samples[k].bytes <= MaxCaptured
    BY <1>1, ReportTypes
  <1>4. /\ counters' = SizeOf(samples) /\ upto' = snap.upto /\ known' = TRUE
        /\ Dead(samples) \subseteq acknowledged' /\ acknowledged' \in SUBSET Processes
        /\ Attributed' = snap.upto /\ storedBytes' \in 0..MaxCaptured /\ givenUp' \in 0..MaxCaptured
        /\ network' \in Networks \cup {Nothing}
    <2>1. Taken.wifi \in Networks \cup {Nothing}
      BY <1>1
    <2>2. known => Attributed = upto
      BY <1>2 DEF KnownFollows
    <2>3. QED
      BY <1>1, <1>2, <2>1, <2>2, AccumulateIs
  <1>5. /\ acknowledgements' \in [Processes -> 0..MaxCaptured \cup {Nothing}]
        /\ \A p \in Processes : /\ p \notin Dead(samples) => acknowledgements'[p] = acknowledgements[p]
                                /\ p \in Dead(samples) => acknowledgements'[p] # Nothing
                                /\ p \in Dead(samples) /\ rows[p] # Nothing /\ Hears
                                     => acknowledgements'[p] = SizeOf(samples)[p]
    BY QueuedIs
  <1>6. Hears' = Hears /\ Received' = Received /\ ~Awaited'
    BY DEF Hears, Received, Awaited
  <1>7. \A p \in Processes : /\ p \in Dead(samples) => samples[p] # Nothing /\ SizeOf(samples)[p] >= 1
                             /\ SizeOf(samples)[p] \in Nat /\ p \in Capture!RowKeys
    BY <1>1, <1>3, RowKeysAre DEF Fit, SizeOf, Dead, Values
  <1> HIDE DEF snap, samples
  <1>8. KnownFollows'
    <2>1. ASSUME Hears
          PROVE  Carried(SizeOf(samples), acknowledged', snap.upto, rows, captured, acknowledgements', process)
      <3>1. Carried(SizeOf(samples), Dead(samples), snap.upto, rows, captured, acknowledgements, process)
        BY <1>1, <2>1
      <3>2. ASSUME NEW p \in Processes, acknowledgements'[p] # Nothing, rows[p] # Nothing
            PROVE  acknowledgements'[p] <= SizeOf(samples)[p] /\ p \in acknowledged'
        <4>1. CASE p \in Dead(samples)
          BY <1>4, <1>5, <1>7, <2>1, <3>2, <4>1
        <4>2. CASE p \notin Dead(samples)
          <5>1. acknowledgements[p] = acknowledgements'[p]
            BY <1>5, <4>2
          <5>2. acknowledgements[p] <= SizeOf(samples)[p] /\ p \in Dead(samples)
            BY <3>1, <3>2, <5>1 DEF Carried
          <5>3. QED
            BY <4>2, <5>2
        <4>3. QED
          BY <4>1, <4>2
      <3>3. QED
        BY <1>4, <3>1, <3>2, CarriedMore
    <2>2. Hears' => Carried(counters', acknowledged', upto', rows', captured', acknowledgements', process')
      BY <1>4, <1>6, <2>1
    <2>3. Attributed' = upto' /\ upto' <= captured'
      BY <1>1, <1>4
    <2>4. QED
      BY <2>2, <2>3 DEF KnownFollows
  <1>9. HeldFollows' /\ HeldBeforeReport'
    BY <1>6 DEF HeldFollows, HeldBeforeReport
  <1>10. ReportFollows'
    <2>1. SUFFICES ASSUME Received
                   PROVE  ReportFollows'
      BY <1>6 DEF ReportFollows
    <2>2. /\ report.upto <= captured
          /\ Hears => /\ Carried(SizeOf(report.samples), Dead(report.samples), report.upto, rows,
                                       captured, acknowledgements, process)
                      /\ \A k \in Here(rows) : rows[k].published = SizeOf(report.samples)[k]
                      /\ \A p \in Processes : rows[p] # Nothing /\ report.samples[p] # Nothing
                                  => rows[p].active = report.samples[p].active
      BY <1>2, <2>1 DEF ReportFollows
    <2>3. Ahead(SizeOf(samples), Dead(samples), snap.upto, report.samples, report.upto)
      BY <1>1, <2>1
    <2>4. report \in Capture!Reports /\ Counts(report.samples) /\ Values(SizeOf(report.samples))
      BY <1>2, HeldTypes, ReportTypes
    <2>5. snap.upto <= report.upto
      BY <1>3, <2>3, <2>4, AheadUpTo
    <2>6. Ahead(SizeOf(samples), acknowledged', snap.upto, report.samples, report.upto)
      BY <1>4, <2>3 DEF Ahead
    <2>7. ASSUME Hears
          PROVE  Carried(SizeOf(report.samples), Dead(report.samples), report.upto, rows, captured, acknowledgements', process)
      <3>1. Carried(SizeOf(report.samples), Dead(report.samples), report.upto, rows, captured, acknowledgements, process)
        BY <2>2, <2>7
      <3>2. ASSUME NEW p \in Processes, acknowledgements'[p] # Nothing, rows[p] # Nothing
            PROVE  acknowledgements'[p] <= SizeOf(report.samples)[p] /\ p \in Dead(report.samples)
        <4>1. CASE p \in Dead(samples)
          <5>1. p \in Dead(report.samples) /\ p \in Here(report.samples)
            BY <1>1, <1>7, <2>1, <2>7, <3>2, <4>1 DEF Here, Dead
          <5>2. SizeOf(samples)[p] <= report.samples[p].bytes /\ SizeOf(report.samples)[p] = report.samples[p].bytes
            BY <2>3, <5>1 DEF Ahead, Here, SizeOf
          <5>3. acknowledgements'[p] = SizeOf(samples)[p]
            BY <1>5, <2>7, <3>2, <4>1
          <5>4. QED
            BY <5>1, <5>2, <5>3
        <4>2. CASE p \notin Dead(samples)
          <5>1. acknowledgements[p] = acknowledgements'[p]
            BY <1>5, <4>2
          <5>2. QED
            BY <3>1, <3>2, <5>1 DEF Carried
        <4>3. QED
          BY <4>1, <4>2
      <3>3. Dead(report.samples) \subseteq Dead(report.samples)
        OBVIOUS
      <3>4. QED
        BY <3>1, <3>2, <3>3, CarriedMore
    <2>8. Attributed' <= report'.upto /\ report'.upto <= captured'
      BY <1>4, <2>2, <2>5
    <2>9. known' => Ahead(counters', acknowledged', upto', report'.samples, report'.upto)
      BY <1>4, <2>6
    <2>10. Hears' => /\ Carried(SizeOf(report'.samples), Dead(report'.samples), report'.upto, rows',
                                       captured', acknowledgements', process')
                     /\ \A k \in Here(rows') : rows'[k].published = SizeOf(report'.samples)[k]
                     /\ \A p \in Processes : rows'[p] # Nothing /\ report'.samples[p] # Nothing
                                  => rows'[p].active = report'.samples[p].active
      BY <1>6, <2>2, <2>7
    <2>11. QED
      BY <2>8, <2>9, <2>10 DEF ReportFollows
  <1>11. RowsTracked'
    <2>1. SUFFICES ASSUME Hears
                   PROVE  RowsTracked'
      BY <1>6 DEF RowsTracked
    <2>2. Tracked(rows, captured, acknowledgements, process) /\ \A p \in Processes : rows[p] # Nothing => process[p] # "new"
      BY <1>2, <2>1 DEF RowsTracked
    <2>3. Carried(SizeOf(samples), Dead(samples), snap.upto, rows, captured, acknowledgements, process)
          /\ \A p \in Dead(samples) : rows[p] # Nothing => ~rows[p].active
      BY <1>1, <2>1
    <2>4. ASSUME NEW p \in Processes, acknowledgements'[p] # Nothing
          PROVE  IF rows[p] = Nothing THEN Keeps(p, rows, process)
                 ELSE ~rows[p].active /\ acknowledgements'[p] <= rows[p].published
      <3>1. CASE p \notin Dead(samples)
        <4>1. acknowledgements[p] = acknowledgements'[p]
          BY <1>5, <3>1
        <4>2. QED
          BY <2>2, <2>4, <4>1 DEF Tracked
      <3>2. CASE p \in Dead(samples)
        <4>1. CASE rows[p] = Nothing
          <5>1. SizeOf(samples)[p] # 0
            BY <1>7, <3>2
          <5>2. Keeps(p, rows, process)
            BY <2>3, <4>1, <5>1 DEF Carried
          <5>3. QED
            BY <4>1, <5>2
        <4>2. CASE rows[p] # Nothing
          <5>1. p \in Here(rows)
            BY <4>2, RowKeysAre DEF Here
          <5>2. SizeOf(samples)[p] <= rows[p].published
            BY <2>3, <5>1 DEF Carried
          <5>3. ~rows[p].active /\ acknowledgements'[p] = SizeOf(samples)[p]
            BY <1>5, <2>1, <2>3, <3>2, <4>2
          <5>4. QED
            BY <4>2, <5>2, <5>3
        <4>3. QED
          BY <4>1, <4>2
      <3>3. QED
        BY <3>1, <3>2
    <2>5. Tracked(rows, captured, acknowledgements', process)
      BY <2>2, <2>4 DEF Tracked
    <2>6. Attributed' <= captured'
      BY <1>1, <1>4
    <2>7. QED
      BY <2>2, <2>5, <2>6 DEF RowsTracked
  <1>12. StartsEmpty' /\ SnapshotsFit'
    BY <1>1, <1>2 DEF StartsEmpty, SnapshotsFit
  <1>13. LatestKnown'
    <2>1. SUFFICES ASSUME ~fresh'
                   PROVE  LatestKnown'
      BY DEF LatestKnown
    <2>2. snap = report
      BY <1>1, <2>1
    <2>3. samples = report.samples /\ snap.upto = report.upto /\ Received
      BY <2>2 DEF samples, snap, Received
    <2>4. ASSUME Hears, NEW p \in Dead(report.samples), rows[p] # Nothing
          PROVE  acknowledgements'[p] = rows[p].published
      <3>1. p \in Processes /\ p \in Here(rows)
        BY <2>4, RowKeysAre DEF Dead, Here
      <3>2. rows[p].published = SizeOf(report.samples)[p]
        BY <1>2, <2>3, <2>4, <3>1 DEF ReportFollows
      <3>3. acknowledgements'[p] = SizeOf(samples)[p]
        BY <1>5, <2>3, <2>4, <3>1
      <3>4. QED
        BY <2>3, <3>2, <3>3
    <2>5. counters' = SizeOf(report'.samples) /\ upto' = report'.upto /\ Received'
      BY <1>4, <1>6, <2>3
    <2>6. Hears' => \A p \in Dead(report'.samples) : rows'[p] # Nothing => acknowledgements'[p] = rows'[p].published
      BY <1>6, <2>4
    <2>7. QED
      BY <2>5, <2>6 DEF LatestKnown
  <1>14. CaptureFollows'
    BY <1>8, <1>9, <1>10, <1>11, <1>12, <1>13 DEF CaptureFollows
  <1>15. counters' \in [Capture!RowKeys -> 0..MaxCaptured]
    <2>1. \A k \in Capture!RowKeys : SizeOf(samples)[k] \in 0..MaxCaptured
      BY <1>3, CaptureAssumption DEF SizeOf
    <2>2. QED
      BY <1>4, <2>1 DEF SizeOf
  <1>16. {storedBytes', givenUp', upto'} \subseteq 0..MaxCaptured
    BY <1>3, <1>4, CaptureAssumption
  <1>17. QED
    BY <1>4, <1>5, <1>14, <1>15, <1>16

\* One that says the helper does not run.
LEMMA CaptureForgets ==
    ASSUME CaptureInv, Storing.state # "running", Capture!Cleared, pendingAppUsage' = Nothing,
           Capture!QueueAcknowledgements(Storing.samples), fresh' = (fresh /\ ~Taken.last),
           UNCHANGED <<process, capture, rows, captured, report, storedBytes, givenUp, upto>>
    PROVE  CaptureFollows' /\ UNCHANGED acknowledgements
  <1>1. /\ Capture!TypeOK /\ ReportFollows /\ RowsTracked /\ SnapshotsFit /\ StartsEmpty
    BY DEF CaptureInv, CaptureFollows
  <1>2. Storing.samples = Capture!NoRows
    BY TakenFacts DEF Fit
  <1>3. \A p \in Processes : Storing.samples[p] = Nothing
    BY <1>2, RowKeysAre DEF Capture!NoRows
  <1>4. acknowledgements' = [p \in Processes |-> acknowledgements[p]]
    BY <1>3 DEF Capture!QueueAcknowledgements
  <1>5. acknowledgements' = acknowledgements
    BY <1>1, <1>4 DEF Capture!TypeOK
  <1>6. Hears' = Hears /\ Received' = Received /\ ~Awaited' /\ Attributed' = Attributed /\ ~known'
    BY DEF Hears, Received, Awaited, Attributed, Capture!Cleared
  <1>7. KnownFollows' /\ HeldFollows' /\ HeldBeforeReport' /\ LatestKnown'
    BY <1>6 DEF KnownFollows, HeldFollows, HeldBeforeReport, LatestKnown
  <1>8. ReportFollows'
    BY <1>1, <1>5, <1>6 DEF ReportFollows
  <1>9. RowsTracked' /\ StartsEmpty' /\ SnapshotsFit'
    BY <1>1, <1>5, <1>6 DEF RowsTracked, StartsEmpty, SnapshotsFit
  <1>10. QED
    BY <1>5, <1>7, <1>8, <1>9 DEF CaptureFollows

\* One that could not be stored.
LEMMA CaptureWaits ==
    ASSUME CaptureInv, pendingAppUsage' = Taken,
           UNCHANGED <<process, capture, rows, captured, report, fresh, acknowledgements, known, counters,
                       acknowledged, storedBytes, givenUp, upto>>
    PROVE  CaptureFollows'
  <1>1. /\ Capture!TypeOK /\ KnownFollows /\ ReportFollows /\ RowsTracked /\ SnapshotsFit /\ StartsEmpty /\ LatestKnown
    BY DEF CaptureInv, CaptureFollows
  <1>2. /\ Hears' = Hears /\ Received' = Received /\ Attributed' = Attributed
        /\ Held' = Storing /\ (Awaited' <=> Storing.state = "running")
    BY TakenFacts DEF Hears, Received, Attributed, Held, Storing, Awaited
  <1>3. KnownFollows' /\ RowsTracked' /\ LatestKnown'
    BY <1>1, <1>2 DEF KnownFollows, RowsTracked, LatestKnown
  <1>4. ReportFollows'
    BY <1>1, <1>2 DEF ReportFollows
  <1>5. HeldFollows'
    <2>1. ASSUME Storing.state = "running"
          PROVE  /\ Attributed <= Storing.upto /\ Storing.upto <= captured
                 /\ known => Ahead(counters, acknowledged, upto, Storing.samples, Storing.upto)
                 /\ Hears => /\ Carried(SizeOf(Storing.samples), Dead(Storing.samples), Storing.upto, rows, captured,
                                       acknowledgements, process)
                             /\ \A p \in Dead(Storing.samples) : rows[p] # Nothing => ~rows[p].active
      BY <2>1, TakenFacts
    <2> DEFINE snap == Storing
    <2>2. Held' = snap
      BY <1>2
    <2>3. snap.state = "running" =>
                 /\ Attributed <= snap.upto /\ snap.upto <= captured
                 /\ known => Ahead(counters, acknowledged, upto, snap.samples, snap.upto)
                 /\ Hears => /\ Carried(SizeOf(snap.samples), Dead(snap.samples), snap.upto, rows, captured,
                                       acknowledgements, process)
                             /\ \A p \in Dead(snap.samples) : rows[p] # Nothing => ~rows[p].active
      BY <2>1
    <2>4. Awaited' <=> snap.state = "running"
      BY <1>2
    <2> HIDE DEF snap
    <2>5. QED
      BY <1>2, <2>2, <2>3, <2>4 DEF HeldFollows
  <1>6. HeldBeforeReport'
    <2> DEFINE snap == Storing
    <2>1. Held' = snap /\ (Awaited' <=> snap.state = "running")
      BY <1>2
    <2>2. snap.state = "running" /\ Received =>
             /\ Ahead(SizeOf(snap.samples), Dead(snap.samples), snap.upto, report.samples, report.upto)
             /\ Hears => \A p \in Processes : rows[p] # Nothing =>
                   /\ snap.samples[p] # Nothing => report.samples[p] # Nothing
                   /\ p \in Dead(snap.samples) => p \in Dead(report.samples)
      BY TakenFacts
    <2> HIDE DEF snap
    <2>3. QED
      BY <1>2, <2>1, <2>2 DEF HeldBeforeReport
  <1>7. SnapshotsFit'
    <2>1. /\ Fit(Storing) /\ IF Taken.last THEN Storing = report ELSE fresh
      BY TakenFacts
    <2>2. Held' = Storing
      BY <1>2
    <2>3. QED
      BY <1>1, <2>1, <2>2 DEF SnapshotsFit
  <1>8. StartsEmpty'
    <2>1. capture = "starting" => Storing.state # "running"
      BY TakenFacts
    <2>2. QED
      BY <1>1, <1>2, <2>1 DEF StartsEmpty
  <1>9. QED
    BY <1>3, <1>4, <1>5, <1>6, <1>7, <1>8 DEF CaptureFollows

LEMMA CaptureCollects ==
    ASSUME CaptureInv, Capture!CollectApplications
    PROVE  CaptureInv'
  <1>1. /\ UNCHANGED <<process, wifi, capture, rows, captured, report, paused, captureActs>>
        /\ appEnabled' = (appEnabled /\ ~(Storing.state = "permission"))
        /\ requested' = (capture # "off" /\ (pendingAppUsage = Nothing \/ requested))
        /\ \/ UNCHANGED <<acknowledgements, fresh, pendingAppUsage, known, counters, acknowledged, network,
                          storedBytes, givenUp, upto, captureFailures>>
           \/ /\ IF Storing.state = "running" THEN Capture!Accumulate(Taken)
                 ELSE Capture!Cleared /\ UNCHANGED <<storedBytes, givenUp, upto>>
              /\ pendingAppUsage' = Nothing
              /\ Capture!QueueAcknowledgements(Storing.samples) /\ fresh' = (fresh /\ ~Taken.last)
              /\ UNCHANGED captureFailures
           \/ /\ Capture!Fault /\ pendingAppUsage' = Taken
              /\ UNCHANGED <<acknowledgements, fresh, known, counters, acknowledged, network, storedBytes, givenUp,
                             upto>>
    BY DEF Capture!CollectApplications, Capture!systemVars, Capture!helperVars, Capture!accumulatorVars, Taken,
           Storing, Capture!Commit
  <1>2. /\ Capture!TypeOK /\ CaptureFollows
    BY DEF CaptureInv
  <1>3. {appEnabled', requested'} \subseteq BOOLEAN
    <2>1. appEnabled \in BOOLEAN /\ requested \in BOOLEAN
      BY <1>2 DEF Capture!TypeOK
    <2>2. QED
      BY <1>1, <2>1
  <1>4. CASE UNCHANGED <<acknowledgements, fresh, pendingAppUsage, known, counters, acknowledged, network,
                          storedBytes, givenUp, upto, captureFailures>>
    BY <1>1, <1>2, <1>3, <1>4, CaptureStands DEF CaptureInv, Capture!TypeOK
  <1>5. CASE /\ IF Storing.state = "running" THEN Capture!Accumulate(Taken)
                ELSE Capture!Cleared /\ UNCHANGED <<storedBytes, givenUp, upto>>
             /\ pendingAppUsage' = Nothing
             /\ Capture!QueueAcknowledgements(Storing.samples) /\ fresh' = (fresh /\ ~Taken.last)
             /\ UNCHANGED captureFailures
    <2>1. fresh' \in BOOLEAN
      BY <1>5
    <2>2. CASE Storing.state = "running"
      <3>1. /\ CaptureFollows'
            /\ counters' \in [Capture!RowKeys -> 0..MaxCaptured] /\ acknowledged' \in SUBSET Processes /\ known' = TRUE
            /\ {storedBytes', givenUp', upto'} \subseteq 0..MaxCaptured /\ network' \in Networks \cup {Nothing}
            /\ acknowledgements' \in [Processes -> 0..MaxCaptured \cup {Nothing}]
        BY <1>1, <1>5, <2>2, CaptureCounts
      <3>2. Capture!TypeOK'
        BY <1>1, <1>2, <1>3, <1>5, <2>1, <3>1 DEF Capture!TypeOK
      <3>3. QED
        BY <3>1, <3>2 DEF CaptureInv
    <2>3. CASE Storing.state # "running"
      <3>1. Capture!Cleared /\ UNCHANGED <<storedBytes, givenUp, upto>>
        BY <1>5, <2>3
      <3>2. CaptureFollows' /\ UNCHANGED acknowledgements
        BY <1>1, <1>5, <2>3, <3>1, CaptureForgets
      <3>3. 0 \in 0..MaxCaptured
        BY CaptureAssumption
      <3>4. Capture!TypeOK'
        BY <1>1, <1>2, <1>3, <1>5, <2>1, <3>1, <3>2, <3>3 DEF Capture!TypeOK, Capture!Cleared
      <3>5. QED
        BY <3>2, <3>4 DEF CaptureInv
    <2>4. QED
      BY <2>2, <2>3
  <1>6. CASE /\ Capture!Fault /\ pendingAppUsage' = Taken
             /\ UNCHANGED <<acknowledgements, fresh, known, counters, acknowledged, network, storedBytes, givenUp,
                            upto>>
    <2>1. CaptureFollows'
      BY <1>1, <1>6, CaptureWaits
    <2>2. captureFailures' \in 0..MaxFailures
      BY <1>2, <1>6, BoundsAssumption DEF Capture!TypeOK, Capture!Fault
    <2>3. Taken \in [report : Capture!Reports, wifi : Networks \cup {Nothing}, last : BOOLEAN]
      BY TakenFacts
    <2>4. Capture!TypeOK'
      BY <1>1, <1>2, <1>3, <1>6, <2>2, <2>3 DEF Capture!TypeOK
    <2>5. QED
      BY <2>1, <2>4 DEF CaptureInv
  <1>7. QED
    BY <1>1, <1>4, <1>5, <1>6

-----------------------------------------------------------------------------
\* A helper that starts anew, with new accounts.
LEMMA CaptureRestarts ==
    ASSUME CaptureInv, NEW on \in BOOLEAN, Capture!Restart(on), pendingAppUsage' = Nothing,
           UNCHANGED <<process, wifi, captureFailures>>, captureActs' \in 0..MaxActs,
           {paused', appEnabled'} \subseteq BOOLEAN
    PROVE  CaptureInv'
  <1> DEFINE word == IF on THEN "starting" ELSE "disabled"
             snap == Capture!Report(word)
  <1>1. /\ capture' = (IF on THEN "starting" ELSE "off") /\ rows' = Capture!NoRows
        /\ report' = snap /\ fresh' = FALSE /\ requested' = FALSE
        /\ acknowledgements' = NoAcks
        /\ captured' = 0 /\ storedBytes' = 0 /\ givenUp' = 0 /\ upto' = 0
        /\ known' = FALSE /\ counters' = [k \in Capture!RowKeys |-> 0] /\ acknowledged' = {} /\ network' = Nothing
    BY DEF Capture!Restart, Capture!Cleared, NoAcks, Capture!NoAcknowledgements
  <1>2. snap.state = word /\ Fit(snap) /\ snap \in Capture!Reports
    BY ReportIs
  <1>3. word # "running"
    OBVIOUS
  <1> HIDE DEF snap, word
  <1>4. ~Hears' /\ ~Received' /\ ~Awaited' /\ ~known'
    BY <1>1, <1>2, <1>3 DEF Hears, Received, Awaited
  <1>5. KnownFollows' /\ HeldFollows' /\ ReportFollows' /\ HeldBeforeReport' /\ RowsTracked' /\ LatestKnown'
    BY <1>4 DEF KnownFollows, HeldFollows, ReportFollows, HeldBeforeReport, RowsTracked, LatestKnown
  <1>6. StartsEmpty' /\ SnapshotsFit'
    BY <1>1, <1>2, <1>4 DEF StartsEmpty, SnapshotsFit
  <1>7. Capture!TypeOK'
    <2>1. 0 \in 0..MaxCaptured
      BY CaptureAssumption
    <2>2. Capture!TypeOK
      BY DEF CaptureInv
    <2>3. QED
      BY <1>1, <1>2, <2>1, <2>2 DEF Capture!TypeOK, Capture!NoRows, NoAcks
  <1>8. QED
    BY <1>5, <1>6, <1>7 DEF CaptureInv, CaptureFollows

LEMMA CaptureActsBounded ==
    ASSUME Capture!TypeOK, Capture!Act
    PROVE  captureActs' \in 0..MaxActs
  BY BoundsAssumption DEF Capture!TypeOK, Capture!Act

LEMMA CaptureSetPaused ==
    ASSUME CaptureInv, NEW value \in BOOLEAN, Capture!SetPaused(value)
    PROVE  CaptureInv'
  <1>1. /\ Capture!Act /\ paused' = value /\ pendingAppUsage' = Nothing
        /\ UNCHANGED <<process, wifi, appEnabled, captureFailures>>
        /\ IF appEnabled THEN Capture!Restart(~value)
           ELSE UNCHANGED <<capture, rows, captured, report, fresh, requested, acknowledgements, known, counters,
                            acknowledged, network, storedBytes, givenUp, upto>>
    BY DEF Capture!SetPaused, Capture!systemVars, Capture!helperVars, Capture!sessionVars, Capture!accumulatorVars
  <1>2. Capture!TypeOK /\ CaptureFollows
    BY DEF CaptureInv
  <1>3. captureActs' \in 0..MaxActs /\ {paused', appEnabled'} \subseteq BOOLEAN
    BY <1>1, <1>2, CaptureActsBounded DEF Capture!TypeOK
  <1>4. CASE appEnabled
    <2> DEFINE on == ~value
    <2>1. Capture!Restart(on)
      BY <1>1, <1>4
    <2>2. on \in BOOLEAN
      OBVIOUS
    <2> HIDE DEF on
    <2>3. QED
      BY <1>1, <1>3, <2>1, <2>2, CaptureRestarts
  <1>5. CASE ~appEnabled
    <2>1. UNCHANGED <<capture, rows, captured, report, fresh, requested, acknowledgements, known, counters,
                      acknowledged, network, storedBytes, givenUp, upto>>
      BY <1>1, <1>5
    <2>2. Capture!TypeOK'
      BY <1>1, <1>2, <1>3, <2>1 DEF Capture!TypeOK
    <2>3. /\ Hears' = Hears /\ Received' = Received /\ ~Awaited' /\ Attributed' = Attributed
      BY <1>1, <2>1 DEF Hears, Received, Awaited, Attributed
    <2>4. KnownFollows' /\ HeldFollows' /\ HeldBeforeReport' /\ LatestKnown'
      BY <1>1, <1>2, <2>1, <2>3 DEF CaptureFollows, KnownFollows, HeldFollows, HeldBeforeReport, LatestKnown
    <2>5. ReportFollows'
      BY <1>1, <1>2, <2>1, <2>3 DEF CaptureFollows, ReportFollows
    <2>6. RowsTracked' /\ StartsEmpty' /\ SnapshotsFit'
      BY <1>1, <1>2, <2>1, <2>3 DEF CaptureFollows, RowsTracked, StartsEmpty, SnapshotsFit
    <2>7. QED
      BY <2>2, <2>4, <2>5, <2>6 DEF CaptureInv, CaptureFollows
  <1>6. QED
    BY <1>4, <1>5

LEMMA CaptureSwitches ==
    ASSUME CaptureInv,
           Capture!ClearUsage \/ \E enabled \in BOOLEAN : Capture!SetAppCollection(enabled)
    PROVE  CaptureInv'
  <1>1. Capture!TypeOK
    BY DEF CaptureInv
  <1>2. CASE Capture!ClearUsage
    <2>1. /\ Capture!Act /\ pendingAppUsage' = Nothing /\ Capture!Restart(FALSE) /\ paused' = TRUE
          /\ UNCHANGED <<process, wifi, appEnabled, captureFailures>>
      BY <1>2 DEF Capture!ClearUsage, Capture!systemVars
    <2>2. captureActs' \in 0..MaxActs /\ {paused', appEnabled'} \subseteq BOOLEAN
      BY <1>1, <2>1, CaptureActsBounded DEF Capture!TypeOK
    <2>3. QED
      BY <2>1, <2>2, CaptureRestarts
  <1>3. ASSUME NEW enabled \in BOOLEAN, Capture!SetAppCollection(enabled)
        PROVE  CaptureInv'
    <2> DEFINE on == enabled /\ ~paused
    <2>1. /\ Capture!Act /\ pendingAppUsage' = Nothing /\ Capture!Restart(on) /\ appEnabled' = enabled
          /\ UNCHANGED <<process, wifi, paused, captureFailures>>
      BY <1>3 DEF Capture!SetAppCollection, Capture!systemVars
    <2>2. captureActs' \in 0..MaxActs /\ {paused', appEnabled'} \subseteq BOOLEAN /\ on \in BOOLEAN
      BY <1>1, <2>1, CaptureActsBounded DEF Capture!TypeOK
    <2> HIDE DEF on
    <2>3. QED
      BY <2>1, <2>2, CaptureRestarts
  <1>4. QED
    BY <1>2, <1>3

LEMMA CaptureStep ==
    ASSUME CaptureInv, Capture!Next \/ UNCHANGED captureVars
    PROVE  CaptureInv'
  <1>1. Capture!TypeOK /\ CaptureFollows
    BY DEF CaptureInv
  <1>2. CASE UNCHANGED captureVars
    BY <1>1, <1>2, CaptureStands DEF CaptureInv, Capture!TypeOK, captureVars
  <1>3. CASE Capture!Roam \/ Capture!Refused
    <2>1. UNCHANGED <<process, capture, rows, captured, report, fresh, requested, acknowledgements, known, counters,
                      acknowledged, network, storedBytes, givenUp, upto, pendingAppUsage, appEnabled, paused>>
          /\ Capture!Act /\ wifi' \in Networks \cup {Nothing} /\ (UNCHANGED captureFailures \/ Capture!Fault)
      BY <1>1, <1>3 DEF Capture!Roam, Capture!Refused, Capture!systemVars, Capture!helperVars, Capture!sessionVars,
         Capture!accumulatorVars, Capture!serviceVars, Capture!TypeOK
    <2>2. captureActs' \in 0..MaxActs
      BY <1>1, <2>1, CaptureActsBounded
    <2>3. captureFailures' \in 0..MaxFailures
      BY <1>1, <2>1, BoundsAssumption DEF Capture!TypeOK, Capture!Fault
    <2>4. Capture!TypeOK'
      BY <1>1, <2>1, <2>2, <2>3 DEF Capture!TypeOK
    <2>5. QED
      BY <1>1, <2>1, <2>4, CaptureStands DEF CaptureInv
  <1>4. CASE Capture!Next
    BY <1>3, <1>4, CaptureRuns, CapturePacket, CaptureSnapshot, CaptureAcknowledge, CaptureHelperStarts,
       CaptureHelperFails, CaptureCollects, CaptureSetPaused, CaptureSwitches DEF Capture!Next
  <1>5. QED
    BY <1>2, <1>4

LEMMA CaptureCounted ==
    ASSUME CaptureInv
    PROVE  Capture!AppBytesOnce /\ Capture!ExitedAreRetired
  <1>1. /\ Capture!TypeOK /\ KnownFollows /\ ReportFollows /\ RowsTracked /\ LatestKnown
    BY DEF CaptureInv, CaptureFollows
  <1>2. Capture!AppBytesOnce
    BY <1>1 DEF Capture!AppBytesOnce, KnownFollows, Attributed
  <1>3. ASSUME capture = "running", known, ~fresh, acknowledgements = Capture!NoAcknowledgements,
               captured = report.upto, NEW p \in Processes, rows[p] # Nothing, ~rows[p].active
        PROVE  FALSE
    <2>1. /\ Hears /\ Received
          /\ \A q \in Dead(report.samples) : rows[q] # Nothing => acknowledgements[q] = rows[q].published
      BY <1>1, <1>3 DEF Hears, LatestKnown
    <2>2. /\ Carried(SizeOf(report.samples), Dead(report.samples), report.upto, rows, captured,
                     acknowledgements, process)
          /\ report.samples[p] # Nothing => rows[p].active = report.samples[p].active
      BY <1>1, <1>3, <2>1 DEF ReportFollows
    <2>3. /\ Values(SizeOf(report.samples)) /\ Counts(rows) /\ report.upto \in Nat /\ Listed(rows)
          /\ p \in Here(rows) /\ p \in Capture!RowKeys
      BY <1>1, <1>3, HeldTypes, ReportTypes, CaptureTypes, ListedCounts, RowKeysAre DEF Here
    <2>4. rows[p].bytes - SizeOf(report.samples)[p] <= captured - report.upto
      BY <2>2, <2>3, AheadUpTo DEF Carried
    <2>5. rows[p].bytes >= 1 /\ rows[p].bytes \in Nat /\ rows[p].published \in Nat /\ SizeOf(report.samples)[p] \in Nat
      BY <1>1, <1>3, <2>1, <2>3 DEF RowsTracked, Tracked, Listed, Values
    <2>6. SizeOf(report.samples)[p] # 0
      BY <1>3, <2>3, <2>4, <2>5
    <2>7. report.samples[p] # Nothing
      BY <2>3, <2>6 DEF SizeOf
    <2>8. p \in Dead(report.samples)
      BY <1>3, <2>2, <2>7 DEF Dead
    <2>9. acknowledgements[p] = rows[p].published /\ acknowledgements[p] = Nothing
      BY <1>3, <2>1, <2>8 DEF Capture!NoAcknowledgements
    <2>10. QED
      BY <2>5, <2>9, CaptureAssumption
  <1>4. QED
    BY <1>2, <1>3 DEF Capture!ExitedAreRetired

\* What the rows of the page and the usage of applications add up to, for every
\* set of rows and of processes (renderer/data/proxy.js, history.js;
\* platform/app_capture_cache.cpp, core/app_usage_accumulator.cpp).
THEOREM UsageAddsUp == Spec => []RowsAddUp
  <1>1. Init => PageRowsInv /\ CaptureInv
    BY RowsInit, CaptureInit DEF Init
  <1>2. PageRowsInv /\ CaptureInv /\ [Next]_desktopVars => PageRowsInv' /\ CaptureInv'
    BY RowsStep, CaptureStep DEF Next, desktopVars
  <1>3. PageRowsInv /\ CaptureInv => RowsAddUp
    BY RowsAdd, CaptureCounted DEF RowsAddUp
  <1>4. QED
    BY <1>1, <1>2, <1>3, PTL DEF Spec
-----------------------------------------------------------------------------
(* The range of the page: the user's selection stands (app.js,             *)
(* backend-client.js).                                                     *)

\* A range fits what the page shows, and what the user selected.
Rolled(range) ==
    range.period # "custom" =>
        range.end <= today /\ range.start = IF range.period = "all" THEN 1 ELSE range.end
Fits(range) == range.period = ui.period /\ (ui.period = "custom" => range = ui) /\ Rolled(range)
Wanted(range) == range.period = wanted.period /\ (wanted.period = "custom" => range = wanted)

\* Versions tell queries apart, requests tell selections apart, and a selection
\* not yet overtaken is the one that is pending.
VersionsOf ==
    /\ rangeRequest <= rangeVersion /\ minuteHistoryQuery <= rangeVersion
    /\ pendingRangeQuery <= rangeRequest /\ automaticRangeQuery <= rangeRequest
    /\ \A q \in queries :
          /\ q.version # 0 /\ q.version <= rangeVersion /\ q.request <= rangeRequest
          /\ q.kind = "select" /\ q.version = rangeVersion =>
                q.request = rangeRequest /\ pendingRangeQuery = rangeRequest /\ rangeRequest # 0
    /\ \A q, r \in queries :
          q.version = r.version \/ (q.kind = "select" /\ r.kind = "select" /\ q.request = r.request) => q = r

\* The range on the page is the loaded one, or fits it; the latest query keeps it
\* so; and the user's range is the one that is shown or that loads.
RangeOf ==
    /\ Fits(active.range)
    /\ \A q \in queries :
          /\ Rolled(q.params.range)
          /\ q.version = rangeVersion =>
                IF q.kind = "select" THEN Wanted(q.params.range) ELSE Fits(q.params.range)
    /\ Wanted(ui) \/ \E q \in queries : q.kind = "select" /\ q.version = rangeVersion

\* Who waits for minutes gets them, and a page grouped by them has them, or
\* someone loads them, or loading failed.
MinutesOf ==
    /\ \A q \in queries :
          /\ q.version = minuteHistoryQuery => q.params.minutes
          /\ q.kind = "minutes" => q.params.minutes
          /\ q.kind = "reload" /\ q.version = rangeVersion => q.params = active
    /\ \A t \in tasks :
          /\ t.at = "minutes" => t.on <= rangeVersion /\ (\A q \in queries : q.version = t.on => q.params.minutes)
          /\ t.at = "ready" => active.minutes
          /\ t.at = "failed" => failed
    /\ ~failed /\ page \in fine => active.minutes \/ tasks # {}

RangeTypes ==
    /\ Range!TypeOK /\ rangeVersion <= MaxQueries /\ navigation + filter <= MaxMoves
    /\ \A t \in tasks : t.goal = "grouping" => t.to \in Range!Grouped
RangeInv == RangeTypes /\ VersionsOf /\ RangeOf /\ MinutesOf


LEMMA RangeInit ==
    ASSUME Range!Init
    PROVE  RangeInv
  <1>1. ui = [period |-> "all", start |-> 1, end |-> 1] /\ ui \in Range!Ranges /\ today = 1 /\ today \in Range!Days
    BY BoundsAssumption DEF Range!Init, Range!Rolling, Range!Ranges, Range!Days
  <1>2. /\ active = [range |-> ui, minutes |-> FALSE] /\ active \in Range!Params /\ wanted = ui
        /\ queries = {} /\ tasks = {} /\ page = "overview" /\ fine = {} /\ failed = FALSE
    BY <1>1 DEF Range!Init, Range!Params
  <1>3. RangeTypes
    <2>1. 0 \in Range!Versions /\ 0 <= MaxQueries /\ 0 <= MaxMoves /\ 0 \in 0..MaxFailures
      BY BoundsAssumption DEF Range!Versions
    <2>2. {rangeVersion, rangeRequest, pendingRangeQuery, minuteHistoryQuery, automaticRangeQuery, navigation,
           filter} \subseteq Range!Versions
      BY <2>1 DEF Range!Init
    <2>3. Range!TypeOK
      BY <1>1, <1>2, <2>1, <2>2 DEF Range!Init, Range!TypeOK, Range!Pages
    <2>4. QED
      BY <2>1, <2>3, BoundsAssumption DEF Range!Init, RangeTypes
  <1>4. RangeOf /\ MinutesOf
    BY <1>1, <1>2 DEF RangeOf, MinutesOf, Fits, Rolled, Wanted
  <1>5. VersionsOf
    BY <1>2 DEF Range!Init, VersionsOf
  <1>6. QED
    BY <1>3, <1>4, <1>5 DEF RangeInv

\* The range of a period on a day, or the one that was chosen.
LEMMA HistoryRange ==
    ASSUME RangeInv, NEW period \in {"today", "all", "custom"}, NEW custom \in Range!Ranges,
           period = "custom" => custom.period = "custom"
    PROVE  /\ Range!historyRange(period, custom) \in Range!Ranges
           /\ Range!historyRange(period, custom).period = period
           /\ Rolled(Range!historyRange(period, custom))
           /\ period = "custom" => Range!historyRange(period, custom) = custom
  BY BoundsAssumption
  DEF RangeInv, RangeTypes, Range!TypeOK, Range!historyRange, Range!Rolling, Range!Ranges, Range!Days, Rolled

SentNew(new, kind, range, minutes, request) ==
    /\ queries' = queries \cup {new} /\ queries' \subseteq Range!Queries
    /\ new.version = rangeVersion + 1 /\ rangeVersion' = rangeVersion + 1
    /\ rangeVersion' \in Range!Versions /\ rangeVersion' <= MaxQueries
    /\ \A q \in queries : q.version < new.version
    /\ new.kind = kind /\ new.request = request
    /\ new.params.range = range /\ new.params.minutes = minutes /\ new.params \in Range!Params
    /\ new.params = [range |-> range, minutes |-> minutes]

\* A query that is sent is the latest, and newer than all that are under way.
LEMMA Sending ==
    ASSUME RangeInv, NEW kind \in {"select", "minutes", "reload"}, NEW range \in Range!Ranges,
           NEW minutes \in BOOLEAN, NEW request \in Range!Versions, Range!Send(kind, range, minutes, request)
    PROVE  \E new \in Range!Queries : SentNew(new, kind, range, minutes, request)
  <1> DEFINE new == [version |-> rangeVersion + 1, kind |-> kind, request |-> request,
                     params |-> [range |-> range, minutes |-> minutes]]
  <1>1. rangeVersion + 1 \in Range!Versions /\ rangeVersion + 1 <= MaxQueries
    BY BoundsAssumption DEF RangeInv, RangeTypes, Range!TypeOK, Range!Versions, Range!Send
  <1>2. new \in Range!Queries /\ new.params \in Range!Params
    BY <1>1 DEF Range!Queries, Range!Params
  <1>3. \A q \in queries : q.version < new.version
    BY DEF RangeInv, RangeTypes, Range!TypeOK, VersionsOf, Range!Versions, Range!Queries
  <1>4. queries' = queries \cup {new} /\ rangeVersion' = rangeVersion + 1 /\ queries \subseteq Range!Queries
    BY DEF Range!Send, RangeInv, RangeTypes, Range!TypeOK
  <1>5. SentNew(new, kind, range, minutes, request)
    BY <1>1, <1>2, <1>3, <1>4 DEF SentNew
  <1>6. QED
    BY <1>2, <1>5

\* A selection starts, the user's or the calendar's.
LEMMA Selecting ==
    ASSUME RangeInv, NEW period \in {"today", "all", "custom"}, NEW custom \in Range!Ranges,
           period = "custom" => custom.period = "custom", Range!StartSelect(period, custom),
           automaticRangeQuery' \in {automaticRangeQuery, rangeRequest + 1},
           wanted' \in Range!Ranges, wanted'.period = period, period = "custom" => wanted' = custom,
           UNCHANGED <<today, ui, active, minuteHistoryQuery, tasks, Range!userVars, failed, failures>>
    PROVE  RangeInv'
  <1> DEFINE range == Range!historyRange(period, custom)
             minutes == period = "custom" \/ page \in fine
  <1>1. rangeRequest + 1 \in Range!Versions /\ rangeRequest + 1 <= rangeVersion + 1
    BY BoundsAssumption
    DEF RangeInv, RangeTypes, VersionsOf, Range!TypeOK, Range!Versions, Range!StartSelect, Range!Send
  <1>2. PICK new \in Range!Queries : SentNew(new, "select", range, minutes, rangeRequest + 1)
    <2>1. range \in Range!Ranges
      BY HistoryRange
    <2>2. Range!Send("select", range, minutes, rangeRequest + 1)
      BY DEF Range!StartSelect
    <2> HIDE DEF range, minutes
    <2>3. minutes \in BOOLEAN
      BY DEF minutes
    <2>4. QED
      BY <1>1, <2>1, <2>2, <2>3, Sending
  <1>3. /\ range.period = period /\ Rolled(range) /\ (period = "custom" => range = custom)
    BY HistoryRange
  <1>4. /\ rangeRequest' = rangeRequest + 1 /\ pendingRangeQuery' = rangeRequest + 1
        /\ UNCHANGED <<navigation, filter, page, fine>>
    BY DEF Range!StartSelect, Range!userVars
  <1> HIDE DEF range, minutes
  <1> USE DEF SentNew
  <1>5. RangeTypes'
    BY <1>1, <1>2, <1>4 DEF RangeInv, RangeTypes, Range!TypeOK
  <1>6. VersionsOf'
    BY <1>1, <1>2, <1>4 DEF RangeInv, RangeTypes, Range!TypeOK, VersionsOf, Range!Versions, Range!Queries
  <1>7. RangeOf'
    BY <1>2, <1>3, <1>4 DEF RangeInv, RangeTypes, Range!TypeOK, RangeOf, Rolled, Fits, Wanted, Range!Versions, Range!Queries
  <1>8. MinutesOf'
    BY <1>2, <1>4 DEF RangeInv, RangeTypes, Range!TypeOK, VersionsOf, MinutesOf, Range!Versions, Range!Queries, Range!Tasks
  <1>9. QED
    BY <1>5, <1>6, <1>7, <1>8 DEF RangeInv

LEMMA SelectKeeps ==
    ASSUME RangeInv,
           \/ \E p \in {"today", "all"} : Range!Select(p, ui)
           \/ \E d \in Range!Days : Range!Select("custom", [period |-> "custom", start |-> 1, end |-> d])
           \/ Range!Follow
    PROVE  RangeInv'
  <1>0. ui \in Range!Ranges /\ wanted \in Range!Ranges
    BY DEF RangeInv, RangeTypes, Range!TypeOK
  <1>1. ASSUME NEW p \in {"today", "all"}, Range!Select(p, ui) PROVE RangeInv'
    BY <1>0, <1>1, Selecting, HistoryRange DEF Range!Select
  <1>2. ASSUME NEW d \in Range!Days, Range!Select("custom", [period |-> "custom", start |-> 1, end |-> d])
        PROVE  RangeInv'
    <2> DEFINE custom == [period |-> "custom", start |-> 1, end |-> d]
    <2>1. custom \in Range!Ranges /\ custom.period = "custom"
      BY BoundsAssumption DEF Range!Ranges, Range!Days
    <2>2. Range!Select("custom", custom)
      BY <1>2
    <2> HIDE DEF custom
    <2>3. QED
      BY <2>1, <2>2, Selecting, HistoryRange DEF Range!Select
  <1>3. CASE Range!Follow
    <2>1. Wanted(ui) /\ ui.period \in {"today", "all"}
      <3>1. pendingRangeQuery = 0 /\ ui.period # "custom"
        BY <1>3 DEF Range!Follow, Range!MayFollow
      <3>2. QED
        BY <1>0, <3>1 DEF RangeInv, VersionsOf, RangeOf, Range!Ranges
    <2>2. /\ Range!StartSelect(ui.period, ui) /\ automaticRangeQuery' = rangeRequest + 1
          /\ UNCHANGED <<today, ui, active, minuteHistoryQuery, tasks, Range!userVars, Range!historyVars>>
      BY <1>3 DEF Range!Follow
    <2>3. wanted' = wanted /\ UNCHANGED <<failed, failures>>
      BY <2>2 DEF Range!historyVars
    <2>4. QED
      BY <1>0, <2>1, <2>2, <2>3, Selecting DEF Wanted
  <1>4. QED
    BY <1>1, <1>2, <1>3

\* The queries that are sent without a selection, and midnight.
LEMMA AskingKeeps ==
    ASSUME RangeInv, Range!Midnight \/ Range!Reload \/ \E t \in tasks : Range!AskMinutes(t)
    PROVE  RangeInv'
  <1>0. /\ active \in Range!Params /\ rangeRequest \in Range!Versions /\ active.range \in Range!Ranges
        /\ active.minutes \in BOOLEAN /\ ui \in Range!Ranges
    BY DEF RangeInv, RangeTypes, Range!TypeOK, Range!Params
  <1>1. CASE Range!Midnight
    <2>1. /\ today' \in Range!Days /\ today <= today'
          /\ UNCHANGED <<ui, active, minuteHistoryQuery, tasks, rangeVersion, queries, rangeRequest, pendingRangeQuery,
                         automaticRangeQuery, navigation, filter, page, fine, wanted, failed, failures>>
      BY <1>1, BoundsAssumption
      DEF Range!Midnight, RangeInv, RangeTypes, Range!TypeOK, Range!Days, Range!queryVars, Range!selectVars,
          Range!userVars, Range!historyVars
    <2>2. \A range \in Range!Ranges : (Rolled(range) => Rolled(range)') /\ (Fits(range) => Fits(range)')
      BY <2>1 DEF Rolled, Fits, RangeInv, RangeTypes, Range!TypeOK, Range!Ranges, Range!Days
    <2>3. RangeOf'
      BY <1>0, <2>1, <2>2 DEF RangeInv, RangeTypes, Range!TypeOK, RangeOf, Wanted, Range!Queries, Range!Params
    <2>4. RangeTypes' /\ VersionsOf' /\ MinutesOf'
      BY <2>1 DEF RangeInv, RangeTypes, Range!TypeOK, VersionsOf, MinutesOf
    <2>5. QED
      BY <2>3, <2>4 DEF RangeInv
  <1>2. CASE Range!Reload
    <2>1. PICK new \in Range!Queries : SentNew(new, "reload", active.range, active.minutes, rangeRequest)
      <3>1. Range!Send("reload", active.range, active.minutes, rangeRequest)
        BY <1>2 DEF Range!Reload
      <3>2. QED
        BY <1>0, <3>1, Sending
    <2>2. /\ wanted' = IF pendingRangeQuery = 0 THEN wanted ELSE ui
          /\ UNCHANGED <<today, ui, active, minuteHistoryQuery, tasks, rangeRequest, pendingRangeQuery,
                         automaticRangeQuery, navigation, filter, page, fine, failed, failures>>
      BY <1>2 DEF Range!Reload, Range!selectVars, Range!userVars
    <2> USE DEF SentNew
    <2>3. RangeTypes'
      BY <1>0, <2>1, <2>2 DEF RangeInv, RangeTypes, Range!TypeOK
    <2>4. VersionsOf'
      BY <2>1, <2>2 DEF RangeInv, RangeTypes, Range!TypeOK, VersionsOf, Range!Versions, Range!Queries
    <2>5. Wanted(ui)'
      BY <1>0, <2>2 DEF RangeInv, VersionsOf, RangeOf, Wanted
    <2>6. RangeOf'
      BY <1>0, <2>1, <2>2, <2>5
      DEF RangeInv, RangeTypes, Range!TypeOK, RangeOf, Fits, Rolled, Range!Versions, Range!Queries
    <2>7. MinutesOf'
      BY <1>0, <2>1, <2>2
      DEF RangeInv, RangeTypes, Range!TypeOK, VersionsOf, MinutesOf, Range!Params, Range!Versions, Range!Queries, Range!Tasks
    <2>8. QED
      BY <2>3, <2>4, <2>6, <2>7 DEF RangeInv
  <1>3. ASSUME NEW t \in tasks, Range!AskMinutes(t) PROVE RangeInv'
    <2>1. /\ Range!getRange \in Range!Ranges /\ Fits(Range!getRange)
      BY <1>0, HistoryRange DEF Range!getRange, Fits, Range!Ranges
    <2>2. PICK new \in Range!Queries : SentNew(new, "minutes", Range!getRange, TRUE, rangeRequest)
      <3>1. Range!Send("minutes", Range!getRange, TRUE, rangeRequest)
        BY <1>3 DEF Range!AskMinutes
      <3>2. QED
        BY <1>0, <2>1, <3>1, Sending
    <2> DEFINE moved == [t EXCEPT !.at = "minutes", !.on = rangeVersion + 1]
    <2>3. /\ pendingRangeQuery = 0 /\ minuteHistoryQuery' = rangeVersion + 1 /\ tasks' = (tasks \ {t}) \cup {moved}
          /\ UNCHANGED <<today, ui, active, rangeRequest, pendingRangeQuery, automaticRangeQuery, navigation, filter,
                         page, fine, wanted, failed, failures>>
      BY <1>3 DEF Range!AskMinutes, Range!Move, Range!selectVars, Range!userVars, Range!historyVars
    <2>4. moved \in Range!Tasks /\ moved.at = "minutes" /\ moved.on = rangeVersion + 1
          /\ moved.goal = t.goal /\ moved.to = t.to
      BY <2>2 DEF SentNew, RangeInv, RangeTypes, Range!TypeOK, Range!Tasks
    <2> HIDE DEF moved
    <2> USE DEF SentNew
    <2>5. RangeTypes'
      BY <2>2, <2>3, <2>4 DEF RangeInv, RangeTypes, Range!TypeOK
    <2>6. VersionsOf'
      BY <2>2, <2>3 DEF RangeInv, RangeTypes, Range!TypeOK, VersionsOf, Range!Versions, Range!Queries
    <2>7. Wanted(ui)
      BY <2>3 DEF RangeInv, VersionsOf, RangeOf
    <2>8. RangeOf'
      BY <2>1, <2>2, <2>3, <2>7
      DEF RangeInv, RangeTypes, Range!TypeOK, RangeOf, Fits, Rolled, Wanted, Range!Versions, Range!Queries
    <2>9. MinutesOf'
      BY <2>2, <2>3, <2>4
      DEF RangeInv, RangeTypes, Range!TypeOK, VersionsOf, MinutesOf, Range!Versions, Range!Queries, Range!Tasks
    <2>10. QED
      BY <2>5, <2>6, <2>8, <2>9 DEF RangeInv
  <1>4. QED
    BY <1>1, <1>2, <1>3


\* A page is opened, or a grouping chosen.
LEMMA NavigatingKeeps ==
    ASSUME RangeInv, Range!GroupFine \/ Range!GroupByDay \/ \E p \in Range!Pages : Range!Navigate(p)
    PROVE  RangeInv'
  <1>1. UNCHANGED <<today, ui, active, minuteHistoryQuery, rangeVersion, queries, rangeRequest, pendingRangeQuery,
                    automaticRangeQuery, wanted, failed, failures>>
    BY DEF Range!GroupFine, Range!GroupByDay, Range!Navigate, Range!queryVars, Range!selectVars, Range!historyVars
  <1>2. /\ navigation' \in Range!Versions /\ filter' \in Range!Versions /\ navigation' + filter' <= MaxMoves
        /\ page' \in Range!Pages /\ fine' \subseteq Range!Grouped
    BY BoundsAssumption
    DEF Range!GroupFine, Range!GroupByDay, Range!Navigate, RangeInv, RangeTypes, Range!TypeOK, Range!Versions
  <1>3. \E t \in Range!Tasks : t.at = "loop" /\ (t.goal = "grouping" => t.to \in Range!Grouped) /\ tasks' \in {tasks, tasks \cup {t}}
    <2> DEFINE new(goal, to, version) == [goal |-> goal, to |-> to, version |-> version, at |-> "loop", on |-> 0]
    <2>1. \A goal \in {"page", "grouping", "select"}, to \in Range!Pages, version \in Range!Versions :
             /\ new(goal, to, version) \in Range!Tasks /\ new(goal, to, version).at = "loop"
             /\ new(goal, to, version).goal = goal /\ new(goal, to, version).to = to
      BY BoundsAssumption DEF Range!Tasks, Range!Versions
    <2>2. CASE Range!GroupFine
      <3>1. tasks' = tasks \cup {new("grouping", page, filter')} /\ page \in Range!Grouped
        BY <2>2 DEF Range!GroupFine, Range!Task
      <3>2. QED
        BY <1>2, <2>1, <3>1 DEF RangeInv, RangeTypes, Range!TypeOK
    <2>3. CASE Range!GroupByDay
      BY <1>2, <2>1, <2>3 DEF Range!GroupByDay
    <2>4. ASSUME NEW p \in Range!Pages, Range!Navigate(p) PROVE \E t \in Range!Tasks : t.at = "loop" /\ (t.goal = "grouping" => t.to \in Range!Grouped) /\ tasks' \in {tasks, tasks \cup {t}}
      <3>1. tasks' \in {tasks, tasks \cup {new("page", p, navigation')}}
        BY <2>4 DEF Range!Navigate, Range!Task
      <3>2. QED
        BY <1>2, <2>1, <3>1
    <2>5. QED
      BY <2>2, <2>3, <2>4
  <1>4. page' \in fine' => page \in fine \/ tasks' # {}
    BY DEF Range!GroupFine, Range!GroupByDay, Range!Navigate
  <1>5. tasks \subseteq tasks'
    BY DEF Range!GroupFine, Range!GroupByDay, Range!Navigate
  <1>6. RangeTypes'
    BY <1>1, <1>2, <1>3 DEF RangeInv, RangeTypes, Range!TypeOK
  <1>7. VersionsOf' /\ RangeOf'
    BY <1>1 DEF RangeInv, VersionsOf, RangeOf, Fits, Rolled, Wanted
  <1>8. MinutesOf'
    BY <1>1, <1>3, <1>4, <1>5 DEF RangeInv, MinutesOf
  <1>9. QED
    BY <1>6, <1>7, <1>8 DEF RangeInv

\* A caller waits, or goes on with what it waited for.
LEMMA TasksKeep ==
    ASSUME RangeInv, NEW t \in tasks,
           Range!AwaitRange(t) \/ Range!HaveMinutes(t) \/ Range!JoinMinutes(t) \/ Range!Finish(t) \/ Range!Throw(t)
    PROVE  RangeInv'
  <1>1. UNCHANGED <<today, ui, active, minuteHistoryQuery, rangeVersion, queries, rangeRequest, pendingRangeQuery,
                    navigation, filter, wanted, failed, failures>>
    BY DEF Range!AwaitRange, Range!HaveMinutes, Range!JoinMinutes, Range!Finish, Range!Throw, Range!queryVars,
           Range!selectVars, Range!userVars, Range!historyVars
  <1>0. /\ t \in Range!Tasks /\ 0 \in Range!Versions
        /\ {rangeVersion, pendingRangeQuery, minuteHistoryQuery, automaticRangeQuery} \subseteq Range!Versions
    BY BoundsAssumption DEF RangeInv, RangeTypes, Range!TypeOK, Range!Versions
  <1>5. rangeRequest \in Range!Versions
    BY DEF RangeInv, RangeTypes, Range!TypeOK
  <1>2. CASE Range!AwaitRange(t) \/ Range!HaveMinutes(t) \/ Range!JoinMinutes(t)
    <2>1. PICK at \in {"range", "minutes", "ready"}, on \in Range!Versions :
             /\ tasks' = Range!Move(t, at, on)
             /\ at = "minutes" => on = minuteHistoryQuery
             /\ at = "ready" => active.minutes
      BY <1>0, <1>2 DEF Range!AwaitRange, Range!HaveMinutes, Range!JoinMinutes
    <2> DEFINE moved == [t EXCEPT !.at = at, !.on = on]
    <2>2. moved \in Range!Tasks /\ moved.at = at /\ moved.on = on
          /\ moved.goal = t.goal /\ moved.to = t.to
      BY <1>0 DEF Range!Tasks
    <2>3. tasks' = (tasks \ {t}) \cup {moved}
      BY <2>1 DEF Range!Move
    <2> HIDE DEF moved
    <2>4. UNCHANGED <<page, fine, automaticRangeQuery>>
      BY <1>2 DEF Range!AwaitRange, Range!HaveMinutes, Range!JoinMinutes, Range!selectVars, Range!userVars
    <2>5. RangeTypes'
      BY <1>1, <2>2, <2>3, <2>4 DEF RangeInv, RangeTypes, Range!TypeOK
    <2>6. VersionsOf' /\ RangeOf'
      BY <1>1, <2>4 DEF RangeInv, VersionsOf, RangeOf, Fits, Rolled, Wanted
    <2>7. MinutesOf'
      BY <1>1, <2>1, <2>2, <2>3, <2>4 DEF RangeInv, VersionsOf, MinutesOf
    <2>8. QED
      BY <2>5, <2>6, <2>7 DEF RangeInv
  <1>3. CASE Range!Finish(t) \/ Range!Throw(t)
    <2>1. /\ tasks' = tasks \ {t} /\ t.at \in {"ready", "failed"}
          /\ automaticRangeQuery' \in {0, automaticRangeQuery}
      BY <1>3 DEF Range!Finish, Range!Throw, Range!Ends
    <2>2. /\ page' \in Range!Pages /\ fine' \subseteq Range!Grouped
          /\ t.at = "failed" => UNCHANGED <<page, fine>>
      <3>1. t.to \in Range!Pages /\ (t.goal = "grouping" => t.to \in Range!Grouped)
        BY <1>0 DEF RangeInv, RangeTypes, Range!Tasks
      <3>2. CASE Range!Finish(t)
        BY <3>1, <3>2 DEF Range!Finish, RangeInv, RangeTypes, Range!TypeOK
      <3>3. CASE Range!Throw(t)
        BY <3>3 DEF Range!Throw, Range!userVars, RangeInv, RangeTypes, Range!TypeOK
      <3>4. QED
        BY <1>3, <3>2, <3>3
    <2>3. RangeTypes'
      BY <1>0, <1>1, <2>1, <2>2 DEF RangeInv, RangeTypes, Range!TypeOK
    <2>4. VersionsOf' /\ RangeOf'
      BY <1>0, <1>1, <1>5, <2>1 DEF RangeInv, VersionsOf, RangeOf, Fits, Rolled, Wanted, Range!Versions
    <2>5. MinutesOf'
      BY <1>1, <2>1, <2>2 DEF RangeInv, MinutesOf
    <2>6. QED
      BY <2>3, <2>4, <2>5 DEF RangeInv
  <1>4. QED
    BY <1>2, <1>3

\* Who waited for a query goes on when it is answered.
LEMMA Resuming ==
    ASSUME RangeInv, NEW q \in queries, NEW applied \in BOOLEAN, NEW ok \in BOOLEAN
    PROVE  /\ Range!Resumed(q, applied, ok) \subseteq Range!Tasks
           /\ tasks # {} => Range!Resumed(q, applied, ok) # {}
           /\ \A r \in Range!Resumed(q, applied, ok) : \E t \in tasks : r.goal = t.goal /\ r.to = t.to
           /\ \A r \in Range!Resumed(q, applied, ok) :
                 \/ r \in tasks /\ (r.at # "minutes" \/ r.on # q.version)
                 \/ r.at = "loop"
                 \/ ok /\ applied /\ r.at = "ready" /\ (\E t \in tasks : t.at = "minutes" /\ t.on = q.version)
                 \/ ~ok /\ r.at = "failed"
  <1> DEFINE goes(t) == IF t.at = "range" /\ q.kind = "select" /\ t.on = q.request
                          THEN [t EXCEPT !.at = IF ~ok /\ q.request = rangeRequest THEN "failed" ELSE "loop"]
                        ELSE IF t.at = "minutes" /\ t.on = q.version
                          THEN [t EXCEPT !.at = IF q.request # rangeRequest THEN "loop"
                                                ELSE IF ~ok THEN "failed" ELSE IF applied THEN "ready" ELSE "loop"]
                        ELSE t
  <1>1. Range!Resumed(q, applied, ok) = {goes(t) : t \in tasks}
    BY DEF Range!Resumed
  <1>2. ASSUME NEW t \in tasks
        PROVE  /\ goes(t) \in Range!Tasks /\ goes(t).goal = t.goal /\ goes(t).to = t.to
               /\ \/ goes(t) = t /\ (t.at # "minutes" \/ t.on # q.version)
                  \/ goes(t).at = "loop"
                  \/ ok /\ applied /\ goes(t).at = "ready" /\ t.at = "minutes" /\ t.on = q.version
                  \/ ~ok /\ goes(t).at = "failed"
    <2>1. t \in Range!Tasks
      BY DEF RangeInv, RangeTypes, Range!TypeOK
    <2>2. \A at \in {"loop", "failed", "ready"} :
             /\ [t EXCEPT !.at = at] \in Range!Tasks /\ [t EXCEPT !.at = at].at = at
             /\ [t EXCEPT !.at = at].goal = t.goal /\ [t EXCEPT !.at = at].to = t.to
      BY <2>1 DEF Range!Tasks
    <2>3. QED
      BY <2>1, <2>2
  <1> HIDE DEF goes
  <1>3. QED
    BY <1>1, <1>2

\* A query is answered, late or not, or fails.
LEMMA AnswerKeeps ==
    ASSUME RangeInv, NEW q \in queries, Range!Answer(q) \/ Range!Fails(q)
    PROVE  RangeInv'
  <1>0. /\ q \in Range!Queries /\ 0 \in Range!Versions /\ q.params \in Range!Params
        /\ active \in Range!Params /\ ui \in Range!Ranges
    BY BoundsAssumption DEF RangeInv, RangeTypes, Range!TypeOK, Range!Versions, Range!Queries
  <1>1. /\ queries' = queries \ {q}
        /\ minuteHistoryQuery' = (IF minuteHistoryQuery = q.version THEN 0 ELSE minuteHistoryQuery)
        /\ IF q.kind = "select"
             THEN /\ pendingRangeQuery' = IF pendingRangeQuery = q.request THEN 0 ELSE pendingRangeQuery
                  /\ automaticRangeQuery' = IF automaticRangeQuery = q.request THEN 0 ELSE automaticRangeQuery
             ELSE UNCHANGED <<pendingRangeQuery, automaticRangeQuery>>
        /\ UNCHANGED <<today, ui, rangeVersion, rangeRequest, navigation, filter, page, fine>>
    BY DEF Range!Answer, Range!Fails, Range!Clear, Range!userVars
  <1>2. CASE Range!Answer(q)
    <2>1. /\ q.kind # "select" \/ q.version # rangeVersion
          /\ active' = IF q.version = rangeVersion THEN q.params ELSE active
          /\ tasks' = Range!Resumed(q, q.version = rangeVersion, TRUE)
          /\ UNCHANGED <<wanted, failed, failures>>
          /\ \A t \in tasks : t.at \in {"range", "minutes"}
      BY <1>2 DEF Range!Answer, Range!Applies, Range!historyVars, Range!Settled
    <2>2. /\ tasks' \subseteq Range!Tasks /\ (tasks # {} => tasks' # {})
          /\ \A r \in tasks' : \E t \in tasks : r.goal = t.goal /\ r.to = t.to
          /\ \A r \in tasks' :
                 \/ r \in tasks /\ (r.at # "minutes" \/ r.on # q.version)
                 \/ r.at = "loop"
                 \/ q.version = rangeVersion /\ r.at = "ready" /\ (\E t \in tasks : t.at = "minutes" /\ t.on = q.version)
      <3> DEFINE applied == q.version = rangeVersion
      <3>1. tasks' = Range!Resumed(q, applied, TRUE) /\ applied \in BOOLEAN
        BY <2>1
      <3> HIDE DEF applied
      <3>2. /\ tasks' \subseteq Range!Tasks /\ (tasks # {} => tasks' # {})
            /\ \A r \in tasks' : \E t \in tasks : r.goal = t.goal /\ r.to = t.to
            /\ \A r \in tasks' :
                 \/ r \in tasks /\ (r.at # "minutes" \/ r.on # q.version)
                 \/ r.at = "loop"
                 \/ applied /\ r.at = "ready" /\ (\E t \in tasks : t.at = "minutes" /\ t.on = q.version)
        BY <3>1, Resuming
      <3>3. QED
        BY <3>2 DEF applied
    <2>3. RangeTypes'
      <3>1. \A t \in tasks' : t.goal = "grouping" => t.to \in Range!Grouped
        BY <2>2 DEF RangeInv, RangeTypes
      <3>2. Range!TypeOK'
        BY <1>0, <1>1, <2>1, <2>2 DEF RangeInv, RangeTypes, Range!TypeOK
      <3>3. QED
        BY <1>1, <3>1, <3>2 DEF RangeInv, RangeTypes
    <2>4. VersionsOf'
      BY <1>0, <1>1, <2>1 DEF RangeInv, RangeTypes, Range!TypeOK, VersionsOf, Range!Versions, Range!Queries
    <2>5. RangeOf'
      BY <1>0, <1>1, <2>1 DEF RangeInv, RangeOf, VersionsOf, Fits, Rolled, Wanted
    <2>6. active.minutes => active'.minutes
      BY <1>0, <2>1 DEF RangeInv, MinutesOf, Range!Queries
    <2>7. MinutesOf'
      <3>1. \A t \in tasks' : t.at = "ready" => active'.minutes
        BY <1>0, <2>1, <2>2, <2>6 DEF RangeInv, MinutesOf
      <3>2. \A t \in tasks' : t.at = "minutes" => t \in tasks
        BY <2>2
      <3>3. \A r \in queries' : r.kind = "reload" /\ r.version = rangeVersion' => r.params = active'
        BY <1>1, <2>1 DEF RangeInv, MinutesOf, VersionsOf
      <3>4. \A t \in tasks' : t.at = "failed" => failed'
        BY <2>1, <2>2 DEF RangeInv, MinutesOf
      <3>5. \A r \in queries' : r \in queries /\ r.version # 0
        BY <1>1 DEF RangeInv, VersionsOf
      <3>6. QED
        BY <1>1, <2>1, <2>2, <2>6, <3>1, <3>2, <3>3, <3>4, <3>5 DEF RangeInv, MinutesOf
    <2>8. QED
      BY <2>3, <2>4, <2>5, <2>7 DEF RangeInv
  <1>3. CASE Range!Fails(q)
    <2>1. /\ failures' \in 0..MaxFailures /\ failed' = TRUE
          /\ tasks' = Range!Resumed(q, FALSE, FALSE)
          /\ wanted' = IF q.kind = "select" /\ q.request = rangeRequest THEN ui ELSE wanted
          /\ UNCHANGED active
      BY <1>3, BoundsAssumption DEF Range!Fails, RangeInv, RangeTypes, Range!TypeOK
    <2>2. /\ tasks' \subseteq Range!Tasks
          /\ \A r \in tasks' : \E t \in tasks : r.goal = t.goal /\ r.to = t.to
          /\ \A r \in tasks' :
                 \/ r \in tasks /\ (r.at # "minutes" \/ r.on # q.version)
                 \/ r.at \in {"loop", "failed"}
      BY <2>1, Resuming
    <2>3. RangeTypes'
      BY <1>0, <1>1, <2>1, <2>2 DEF RangeInv, RangeTypes, Range!TypeOK
    <2>4. VersionsOf'
      BY <1>0, <1>1, <2>1 DEF RangeInv, RangeTypes, Range!TypeOK, VersionsOf, Range!Versions, Range!Queries
    <2>5. RangeOf'
      BY <1>0, <1>1, <2>1 DEF RangeInv, RangeOf, VersionsOf, Fits, Rolled, Wanted
    <2>6. MinutesOf'
      BY <1>0, <1>1, <2>1, <2>2 DEF RangeInv, MinutesOf, VersionsOf
    <2>7. QED
      BY <2>3, <2>4, <2>5, <2>6 DEF RangeInv
  <1>4. QED
    BY <1>2, <1>3

\* The selected range is shown; the minutes of the page that is open by now are
\* asked for.
LEMMA SelectedKeeps ==
    ASSUME RangeInv, NEW q \in queries, Range!Selected(q)
    PROVE  RangeInv'
  <1>0. /\ q \in Range!Queries /\ 0 \in Range!Versions /\ q.params \in Range!Params /\ q.params.range \in Range!Ranges
        /\ active \in Range!Params /\ ui \in Range!Ranges /\ page \in Range!Pages
    BY BoundsAssumption DEF RangeInv, RangeTypes, Range!TypeOK, Range!Versions, Range!Queries, Range!Params
  <1> DEFINE tail == page \in fine'
             new == [goal |-> "select", to |-> page, version |-> q.request, at |-> "loop", on |-> 0]
  <1>1. /\ queries' = queries \ {q} /\ q.kind = "select" /\ q.version = rangeVersion /\ q.request = rangeRequest
        /\ active' = q.params /\ ui' = q.params.range /\ pendingRangeQuery' = 0 /\ failed' = FALSE
        /\ fine' \in {fine, fine \cup {"history"}}
        /\ tasks' = Range!Resumed(q, TRUE, TRUE) \cup (IF tail THEN {new} ELSE {})
        /\ automaticRangeQuery' \in {0, automaticRangeQuery}
        /\ UNCHANGED <<today, page, minuteHistoryQuery, rangeVersion, rangeRequest, navigation, filter, wanted, failures>>
        /\ \A t \in tasks : t.at \in {"range", "minutes"}
    BY DEF Range!Selected, Range!Applies, Range!Settled, Range!Clear, Range!Task
  <1>2. new \in Range!Tasks /\ new.at = "loop" /\ new.goal = "select"
    BY <1>0 DEF Range!Tasks, Range!Queries
  <1> HIDE DEF new
  <1>3. /\ tasks' \subseteq Range!Tasks /\ (page \in fine' => tasks' # {})
        /\ \A r \in tasks' : r.goal = "select" \/ \E t \in tasks : r.goal = t.goal /\ r.to = t.to
        /\ \A r \in tasks' :
               \/ r \in tasks /\ (r.at # "minutes" \/ r.on # q.version)
               \/ r.at = "loop"
               \/ r.at = "ready" /\ (\E t \in tasks : t.at = "minutes" /\ t.on = q.version)
    BY <1>1, <1>2, Resuming
  <1>4. RangeTypes'
    <2>1. \A t \in tasks' : t.goal = "grouping" => t.to \in Range!Grouped
      BY <1>3 DEF RangeInv, RangeTypes
    <2>2. fine' \subseteq Range!Grouped
      BY <1>1 DEF RangeInv, RangeTypes, Range!TypeOK, Range!Grouped
    <2>3. Range!TypeOK'
      BY <1>0, <1>1, <1>3, <2>2 DEF RangeInv, RangeTypes, Range!TypeOK
    <2>4. QED
      BY <1>1, <2>1, <2>3 DEF RangeInv, RangeTypes
  <1>5. VersionsOf'
    BY <1>0, <1>1 DEF RangeInv, RangeTypes, Range!TypeOK, VersionsOf, Range!Versions, Range!Queries
  <1>6. RangeOf'
    BY <1>0, <1>1 DEF RangeInv, RangeOf, VersionsOf, Fits, Rolled, Wanted
  <1>7. MinutesOf'
    BY <1>0, <1>1, <1>3 DEF RangeInv, MinutesOf, VersionsOf
  <1>8. QED
    BY <1>4, <1>5, <1>6, <1>7 DEF RangeInv

LEMMA RangeStep ==
    ASSUME RangeInv, Range!Next \/ UNCHANGED rangeVars
    PROVE  RangeInv'
  <1>1. CASE UNCHANGED rangeVars
    BY <1>1 DEF rangeVars, RangeInv, RangeTypes, Range!TypeOK, VersionsOf, RangeOf, MinutesOf, Fits, Rolled, Wanted
  <1>2. QED
    BY <1>1, SelectKeeps, AskingKeeps, NavigatingKeeps, TasksKeep, AnswerKeeps, SelectedKeeps DEF Range!Next

\* The rows on the page belong to the range it names, the user's latest selection
\* stands when everything settled, and a page grouped by minutes has them.
THEOREM RangeStands == Spec => []SelectionStands
  <1>1. Init => RangeInv
    BY RangeInit DEF Init
  <1>2. RangeInv /\ [Next]_desktopVars => RangeInv'
    BY RangeStep DEF Next, desktopVars
  <1>3. RangeInv => SelectionStands
    <2>1. RangeInv => Range!ShownRangeIsLoaded
      BY DEF RangeInv, RangeOf, Fits, Rolled, Range!ShownRangeIsLoaded
    <2>2. RangeInv => Range!SelectionStands /\ Range!MinutesWhenGrouped
      BY DEF RangeInv, RangeOf, MinutesOf, Wanted, Range!SelectionStands, Range!MinutesWhenGrouped, Range!Idle
    <2>3. QED
      BY <2>1, <2>2 DEF SelectionStands
  <1>4. QED
    BY <1>1, <1>2, <1>3, PTL DEF Spec

-----------------------------------------------------------------------------
(* Icons (app-icons.js, linux-icons.cjs): no avatar waits for an icon that *)
(* nobody loads, and no theme that may hold an icon is left out.           *)

\* An avatar waits only for the program it shows; while it does it is pending and
\* the request is for it; what is pending waits or is being decoded, and what is
\* not shows its icon or was told that there is none.
WaitingInv ==
    \A k \in Keys :
       /\ waiting[k] # {} => entry[k] # "none"
       /\ subscribers[k] \subseteq waiting[k] /\ waiting[k] \cap decoding = {}
       /\ \A a \in waiting[k] : shown[a] # Nothing => shown[a] = k /\ a \in pending /\ a \in subscribers[k]
PendingIconInv ==
    /\ \A a \in decoding : shown[a] # Nothing => a \in pending
    /\ \A a \in pending : a \in decoding \/ (\E k \in Keys : a \in waiting[k])
    /\ \A a \in Avatars : shown[a] # Nothing /\ a \notin pending => a \in image \cup told
IconsInv == Icons!TypeOK /\ WaitingInv /\ PendingIconInv

LEMMA IconTypes ==
    ASSUME Icons!TypeOK
    PROVE  /\ shown \in [Avatars -> Keys \cup {Nothing}]
           /\ pending \subseteq Avatars /\ image \subseteq Avatars /\ decoding \subseteq Avatars /\ told \subseteq Avatars
           /\ entry \in [Keys -> {"none", "queued", "asked", "refused"}] /\ queue \in Seq(Keys)
           /\ subscribers \in [Keys -> SUBSET Avatars] /\ waiting \in [Keys -> SUBSET Avatars]
           /\ cache \in [Keys -> {"none", "icon", "missing"}] /\ host \in [Keys -> {"none", "loading", "icon"}]
           /\ pages \in 1..MaxPages
  BY DEF Icons!TypeOK

LEMMA IconsInit ==
    ASSUME Icons!Init
    PROVE  IconsInv
  <1>1. Icons!TypeOK
    BY BoundsAssumption DEF Icons!Init, Icons!EmptyPage, Icons!TypeOK
  <1>2. WaitingInv /\ PendingIconInv
    BY DEF Icons!Init, Icons!EmptyPage, WaitingInv, PendingIconInv
  <1>3. QED
    BY <1>1, <1>2 DEF IconsInv

LEMMA HydrateKeeps ==
    ASSUME IconsInv, NEW k \in Keys, NEW a \in Avatars, a \notin decoding, \A j \in Keys : a \notin waiting[j],
           shown' = [shown EXCEPT ![a] = k], Icons!Hydrate(k, a), UNCHANGED <<image, cache, host, pages>>
    PROVE  IconsInv'
  <1>0. /\ shown' \in [Avatars -> Keys \cup {Nothing}] /\ shown'[a] = k /\ k # Nothing
        /\ \A b \in Avatars : b # a => shown'[b] = shown[b]
    BY IconTypes, NothingAssumption DEF IconsInv
  <1>1. pending' = IF entry[k] = "none" /\ cache[k] = "missing" THEN pending ELSE pending \cup {a}
    BY DEF Icons!Hydrate
  <1>2. CASE entry[k] # "none"
    <2>1. /\ subscribers' = [subscribers EXCEPT ![k] = @ \cup {a}] /\ waiting' = [waiting EXCEPT ![k] = @ \cup {a}]
          /\ UNCHANGED <<entry, queue, decoding, told>>
      BY <1>2 DEF Icons!Hydrate, Icons!JoinsQueued
    <2>2. pending' = pending \cup {a}
      BY <1>1, <1>2
    <2>3. Icons!TypeOK'
      BY <1>0, <2>1, <2>2, IconTypes DEF IconsInv, Icons!TypeOK
    <2>4. WaitingInv'
      BY <1>0, <1>2, <2>1, <2>2, IconTypes DEF IconsInv, WaitingInv
    <2>5. PendingIconInv'
      BY <1>0, <2>1, <2>2, IconTypes DEF IconsInv, PendingIconInv
    <2>6. QED
      BY <2>3, <2>4, <2>5 DEF IconsInv
  <1>3. CASE entry[k] = "none" /\ cache[k] = "none"
    <2>1. /\ subscribers' = [subscribers EXCEPT ![k] = {a}] /\ waiting' = [waiting EXCEPT ![k] = {a}]
          /\ entry' = [entry EXCEPT ![k] = "queued"] /\ queue' = Append(queue, k) /\ UNCHANGED <<decoding, told>>
      BY <1>3 DEF Icons!Hydrate
    <2>2. pending' = pending \cup {a}
      BY <1>1, <1>3
    <2>3. Icons!TypeOK'
      BY <1>0, <2>1, <2>2, IconTypes DEF IconsInv, Icons!TypeOK
    <2>4. waiting[k] = {}
      BY <1>3 DEF IconsInv, WaitingInv
    <2>5. WaitingInv'
      BY <1>0, <1>3, <2>1, <2>2, <2>4, IconTypes DEF IconsInv, WaitingInv
    <2>6. PendingIconInv'
      BY <1>0, <2>1, <2>2, <2>4, IconTypes DEF IconsInv, PendingIconInv
    <2>7. QED
      BY <2>3, <2>5, <2>6 DEF IconsInv
  <1>4. CASE entry[k] = "none" /\ cache[k] # "none"
    <2>1. /\ decoding' = IF cache[k] = "icon" THEN decoding \cup {a} ELSE decoding
          /\ told' = IF cache[k] = "missing" THEN told \cup {a} ELSE told
          /\ UNCHANGED <<subscribers, waiting, entry, queue>>
      BY <1>4 DEF Icons!Hydrate
    <2>2. pending' = IF cache[k] = "missing" THEN pending ELSE pending \cup {a}
      BY <1>1, <1>4
    <2>3. cache[k] \in {"icon", "missing"}
      BY <1>4, IconTypes DEF IconsInv
    <2>4. Icons!TypeOK'
      BY <1>0, <2>1, <2>2, IconTypes DEF IconsInv, Icons!TypeOK
    <2>5. WaitingInv'
      BY <1>0, <2>1, <2>2, IconTypes DEF IconsInv, WaitingInv
    <2>6. \A b \in decoding' : shown'[b] # Nothing => b \in pending'
      BY <1>0, <2>1, <2>2, <2>3, IconTypes DEF IconsInv, PendingIconInv
    <2>7. a \notin pending
      BY DEF IconsInv, PendingIconInv
    <2>8. ASSUME cache[k] = "icon"
          PROVE  PendingIconInv'
      <3>1. pending' = pending \cup {a} /\ decoding' = decoding \cup {a} /\ told' = told
        BY <2>1, <2>2, <2>8
      <3>2. QED
        BY <1>0, <2>1, <2>6, <3>1 DEF IconsInv, PendingIconInv
    <2>9. ASSUME cache[k] = "missing"
          PROVE  PendingIconInv'
      <3>1. pending' = pending /\ decoding' = decoding /\ told' = told \cup {a}
        BY <2>1, <2>2, <2>9
      <3>2. QED
        BY <1>0, <2>1, <2>6, <2>7, <3>1 DEF IconsInv, PendingIconInv
    <2>10. PendingIconInv'
      BY <2>3, <2>8, <2>9
    <2>11. QED
      BY <2>4, <2>5, <2>10 DEF IconsInv
  <1>5. QED
    BY <1>2, <1>3, <1>4

LEMMA PaintKeeps ==
    ASSUME IconsInv, NEW a \in Avatars,
           Icons!TriedAgain(a) \/ Icons!Goes(a) \/ (\E k \in Keys : Icons!Appears(a, k))
    PROVE  IconsInv'
  <1>1. ASSUME NEW k \in Keys, Icons!Appears(a, k)
        PROVE  IconsInv'
    BY <1>1, HydrateKeeps DEF Icons!Appears
  <1>2. CASE Icons!TriedAgain(a)
    <2> DEFINE k == shown[a]
    <2>1. k \in Keys /\ a \notin pending /\ Icons!Hydrate(k, a) /\ UNCHANGED <<shown, image, cache, host, pages>>
      BY <1>2, IconTypes DEF Icons!TriedAgain, IconsInv
    <2>2. a \notin decoding /\ \A j \in Keys : a \notin waiting[j]
      BY <1>2, <2>1 DEF Icons!TriedAgain, IconsInv, WaitingInv, PendingIconInv
    <2>3. shown' = [shown EXCEPT ![a] = k]
      BY <2>1, IconTypes DEF IconsInv
    <2> HIDE DEF k
    <2>4. QED
      BY <2>1, <2>2, <2>3, HydrateKeeps
  <1>3. CASE Icons!Goes(a)
    <2>1. /\ shown' = [shown EXCEPT ![a] = Nothing] /\ image' = image \ {a} /\ told' = told \ {a}
          /\ pending' = IF \A k \in Keys : a \notin waiting[k] THEN pending \ {a} ELSE pending
          /\ UNCHANGED <<decoding, entry, queue, subscribers, waiting, cache, host, pages>>
      BY <1>3 DEF Icons!Goes
    <2>2. /\ shown' \in [Avatars -> Keys \cup {Nothing}] /\ shown'[a] = Nothing
          /\ \A b \in Avatars : b # a => shown'[b] = shown[b] /\ (b \in pending' <=> b \in pending)
      BY <2>1, IconTypes DEF IconsInv
    <2>3. Icons!TypeOK'
      BY <2>1, <2>2, IconTypes DEF IconsInv, Icons!TypeOK
    <2>4. WaitingInv' /\ PendingIconInv'
      BY <2>1, <2>2, IconTypes DEF IconsInv, WaitingInv, PendingIconInv
    <2>5. QED
      BY <2>3, <2>4 DEF IconsInv
  <1>4. QED
    BY <1>1, <1>2, <1>3

LEMMA CompleteKeeps ==
    ASSUME IconsInv, NEW k \in Keys, NEW url \in BOOLEAN, Icons!Complete(k, url),
           host' \in [Keys -> {"none", "loading", "icon"}]
    PROVE  IconsInv'
  <1> DEFINE there == {a \in waiting[k] \cap pending : shown[a] = k}
  <1>1. /\ entry' = [entry EXCEPT ![k] = "none"]
        /\ subscribers' = [subscribers EXCEPT ![k] = {}] /\ waiting' = [waiting EXCEPT ![k] = {}]
        /\ cache' = [cache EXCEPT ![k] = IF url THEN "icon" ELSE "missing"]
        /\ decoding' = IF url THEN decoding \cup there ELSE decoding
        /\ pending' = pending \ (waiting[k] \ (IF url THEN there ELSE {}))
        /\ told' = IF url THEN told ELSE told \cup there
        /\ UNCHANGED <<shown, image, queue, pages>>
    BY DEF Icons!Complete
  <1>2. there \subseteq Avatars /\ there \subseteq waiting[k] /\ there \subseteq pending /\ \A a \in there : shown[a] = k
    BY IconTypes DEF IconsInv
  <1>3. \A a \in waiting[k] : shown[a] # Nothing => a \in there
    BY DEF IconsInv, WaitingInv
  <1>4. \A j \in Keys : j # k => \A a \in there : a \notin waiting[j]
    BY <1>2, NothingAssumption DEF IconsInv, WaitingInv
  <1> HIDE DEF there
  <1>5. Icons!TypeOK'
    BY <1>1, <1>2, IconTypes DEF IconsInv, Icons!TypeOK
  <1>6. /\ waiting'[k] = {} /\ subscribers'[k] = {}
        /\ \A j \in Keys : j # k => waiting'[j] = waiting[j] /\ subscribers'[j] = subscribers[j] /\ entry'[j] = entry[j]
    BY <1>1, IconTypes DEF IconsInv
  <1>7. \A a \in pending : a \notin waiting[k] => a \in pending'
    BY <1>1
  <1>8. \A j \in Keys : j # k => \A a \in waiting[j] : shown[a] # Nothing => a \notin waiting[k]
    BY DEF IconsInv, WaitingInv
  <1>9. WaitingInv'
    <2>1. \A j \in Keys : j # k => waiting[j] \cap decoding' = {}
      BY <1>1, <1>4 DEF IconsInv, WaitingInv
    <2>2. QED
      BY <1>1, <1>6, <1>7, <1>8, <2>1 DEF IconsInv, WaitingInv
  <1>10. PendingIconInv'
    <2>1. \A a \in decoding' : shown[a] # Nothing => a \in pending'
      <3>1. \A a \in decoding : shown[a] # Nothing => a \in pending'
        BY <1>1, <1>3 DEF IconsInv, PendingIconInv, WaitingInv
      <3>2. url => there \subseteq pending'
        BY <1>1, <1>2
      <3>3. QED
        BY <1>1, <3>1, <3>2
    <2>2. ASSUME NEW a \in pending'
          PROVE  a \in decoding' \/ (\E j \in Keys : a \in waiting'[j])
      <3>1. CASE a \in waiting[k]
        BY <1>1, <1>2, <2>2, <3>1
      <3>2. CASE a \notin waiting[k]
        <4>1. a \in pending /\ (a \in decoding => a \in decoding')
          BY <1>1, <2>2
        <4>2. \A j \in Keys : a \in waiting[j] => a \in waiting'[j]
          BY <1>6, <3>2
        <4>3. QED
          BY <4>1, <4>2 DEF IconsInv, PendingIconInv
      <3>3. QED
        BY <3>1, <3>2
    <2>3. ASSUME NEW a \in Avatars, shown[a] # Nothing, a \notin pending'
          PROVE  a \in image \cup told'
      <3>1. CASE a \in waiting[k]
        BY <1>1, <1>2, <1>3, <2>3, <3>1
      <3>2. CASE a \notin waiting[k]
        BY <1>1, <2>3, <3>2 DEF IconsInv, PendingIconInv
      <3>3. QED
        BY <3>1, <3>2
    <2>4. QED
      BY <1>1, <2>1, <2>2, <2>3 DEF PendingIconInv
  <1>11. QED
    BY <1>5, <1>9, <1>10 DEF IconsInv

LEMMA DrainCancelKeeps ==
    ASSUME IconsInv, Icons!DrainCancel
    PROVE  IconsInv'
  <1> DEFINE k == Head(queue)
  <1>1. /\ Icons!Wanted(k) = {} /\ queue' = Tail(queue) /\ queue # <<>>
        /\ entry' = [entry EXCEPT ![k] = "none"] /\ subscribers' = [subscribers EXCEPT ![k] = {}]
        /\ pending' = pending \ waiting[k] /\ waiting' = [waiting EXCEPT ![k] = {}]
        /\ UNCHANGED <<shown, image, decoding, cache, host, told, pages>>
    BY DEF Icons!DrainCancel, Icons!Settled
  <1>2. k \in Keys /\ queue' \in Seq(Keys)
    BY <1>1, IconTypes DEF IconsInv
  <1>3. \A a \in waiting[k] : shown[a] = Nothing
    BY <1>1, <1>2, IconTypes DEF IconsInv, WaitingInv, Icons!Wanted
  <1> HIDE DEF k
  <1>4. Icons!TypeOK'
    BY <1>1, <1>2, IconTypes DEF IconsInv, Icons!TypeOK
  <1>5. /\ waiting'[k] = {} /\ subscribers'[k] = {}
        /\ \A j \in Keys : j # k => waiting'[j] = waiting[j] /\ subscribers'[j] = subscribers[j] /\ entry'[j] = entry[j]
    BY <1>1, <1>2, IconTypes DEF IconsInv
  <1>6. WaitingInv'
    BY <1>1, <1>2, <1>3, <1>5 DEF IconsInv, WaitingInv
  <1>7. PendingIconInv'
    <2>1. \A a \in decoding : shown[a] # Nothing => a \in pending'
      BY <1>1, <1>3 DEF IconsInv, PendingIconInv
    <2>2. \A a \in pending' : a \in decoding \/ (\E j \in Keys : a \in waiting'[j])
      BY <1>1, <1>5 DEF IconsInv, PendingIconInv
    <2>3. \A a \in Avatars : shown[a] # Nothing /\ a \notin pending' => a \in image \cup told
      BY <1>1, <1>3 DEF IconsInv, PendingIconInv
    <2>4. QED
      BY <1>1, <2>1, <2>2, <2>3 DEF PendingIconInv
  <1>8. QED
    BY <1>4, <1>6, <1>7 DEF IconsInv

LEMMA DrainStartKeeps ==
    ASSUME IconsInv, Icons!DrainStart
    PROVE  IconsInv'
  <1> DEFINE k == Head(queue)
  <1>1. /\ Icons!Wanted(k) # {} /\ queue' = Tail(queue) /\ queue # <<>>
        /\ pending' = pending \ (subscribers[k] \ Icons!Wanted(k))
        /\ subscribers' = [subscribers EXCEPT ![k] = Icons!Wanted(k)]
        /\ entry' = [entry EXCEPT ![k] = "refused"] \/ entry' = [entry EXCEPT ![k] = "asked"]
        /\ host' = host \/ host' = [host EXCEPT ![k] = "loading"]
        /\ UNCHANGED <<shown, image, decoding, waiting, cache, told, pages>>
    BY DEF Icons!DrainStart, Icons!Settled
  <1>2. k \in Keys /\ queue' \in Seq(Keys)
    BY <1>1, IconTypes DEF IconsInv
  <1>3. Icons!Wanted(k) \subseteq subscribers[k] /\ \A a \in subscribers[k] \ Icons!Wanted(k) : shown[a] = Nothing
    BY <1>1, <1>2, IconTypes DEF IconsInv, WaitingInv, Icons!Wanted
  <1>4. \A a \in waiting[k] : shown[a] # Nothing => a \in Icons!Wanted(k)
    BY <1>2 DEF IconsInv, WaitingInv, Icons!Wanted
  <1> HIDE DEF k
  <1>5. Icons!TypeOK'
    <2>1. host' \in [Keys -> {"none", "loading", "icon"}]
      BY <1>1, <1>2, IconTypes DEF IconsInv
    <2>2. subscribers' \in [Keys -> SUBSET Avatars] /\ entry' \in [Keys -> {"none", "queued", "asked", "refused"}]
      BY <1>1, <1>2, <1>3, IconTypes DEF IconsInv
    <2>3. QED
      BY <1>1, <1>2, <2>1, <2>2, IconTypes DEF IconsInv, Icons!TypeOK
  <1>6. /\ subscribers'[k] = Icons!Wanted(k) /\ entry'[k] # "none"
        /\ \A j \in Keys : j # k => subscribers'[j] = subscribers[j] /\ entry'[j] = entry[j]
    BY <1>1, <1>2, IconTypes DEF IconsInv
  <1>7. \A a \in pending : shown[a] # Nothing => a \in pending'
    BY <1>1, <1>3
  <1>8. WaitingInv'
    <2>1. ASSUME NEW j \in Keys
          PROVE  /\ waiting[j] # {} => entry'[j] # "none"
                 /\ subscribers'[j] \subseteq waiting[j] /\ waiting[j] \cap decoding = {}
                 /\ \A a \in waiting[j] : shown[a] # Nothing => shown[a] = j /\ a \in pending' /\ a \in subscribers'[j]
      <3>1. CASE j = k
        BY <1>3, <1>4, <1>6, <1>7, <2>1, <3>1 DEF IconsInv, WaitingInv
      <3>2. CASE j # k
        BY <1>6, <1>7, <2>1, <3>2 DEF IconsInv, WaitingInv
      <3>3. QED
        BY <3>1, <3>2
    <2>2. QED
      BY <1>1, <2>1 DEF WaitingInv
  <1>9. PendingIconInv'
    BY <1>1, <1>7 DEF IconsInv, PendingIconInv
  <1>10. QED
    BY <1>5, <1>8, <1>9 DEF IconsInv

LEMMA IconAnswerKeeps ==
    ASSUME IconsInv, NEW k \in Keys,
           Icons!Refused(k) \/ Icons!Cached(k) \/ Icons!Forgotten(k) \/ (\E found \in BOOLEAN : Icons!HostAnswers(k, found))
    PROVE  IconsInv'
  <1>1. ASSUME Icons!Refused(k) \/ Icons!Cached(k)
        PROVE  IconsInv'
    <2>1. host' \in [Keys -> {"none", "loading", "icon"}]
      BY <1>1, IconTypes DEF IconsInv, Icons!Refused, Icons!Cached
    <2>2. Icons!Complete(k, FALSE) \/ Icons!Complete(k, TRUE)
      BY <1>1 DEF Icons!Refused, Icons!Cached
    <2>3. QED
      BY <2>1, <2>2, CompleteKeeps
  <1>2. ASSUME Icons!Forgotten(k)
        PROVE  IconsInv'
    <2>1. cache' \in [Keys -> {"none", "icon", "missing"}]
          /\ UNCHANGED <<shown, pending, image, decoding, entry, queue, subscribers, waiting, host, told, pages>>
      BY <1>2, IconTypes DEF IconsInv, Icons!Forgotten
    <2>2. Icons!TypeOK'
      BY <2>1, IconTypes DEF IconsInv, Icons!TypeOK
    <2>3. WaitingInv' /\ PendingIconInv'
      BY <2>1 DEF IconsInv, WaitingInv, PendingIconInv
    <2>4. QED
      BY <2>2, <2>3 DEF IconsInv
  <1>3. ASSUME NEW found \in BOOLEAN, Icons!HostAnswers(k, found)
        PROVE  IconsInv'
    <2>1. host' \in [Keys -> {"none", "loading", "icon"}]
      BY <1>3, IconTypes DEF IconsInv, Icons!HostAnswers
    <2>2. CASE entry[k] = "asked"
      BY <1>3, <2>1, <2>2, CompleteKeeps DEF Icons!HostAnswers
    <2>3. CASE entry[k] # "asked"
      <3>1. UNCHANGED <<shown, pending, image, decoding, entry, queue, subscribers, waiting, cache, told, pages>>
        BY <1>3, <2>3 DEF Icons!HostAnswers, Icons!pageVars
      <3>2. Icons!TypeOK'
        BY <2>1, <3>1, IconTypes DEF IconsInv, Icons!TypeOK
      <3>3. WaitingInv' /\ PendingIconInv'
        BY <3>1 DEF IconsInv, WaitingInv, PendingIconInv
      <3>4. QED
        BY <3>2, <3>3 DEF IconsInv
    <2>4. QED
      BY <2>2, <2>3
  <1>4. QED
    BY <1>1, <1>2, <1>3

LEMMA DecodedKeeps ==
    ASSUME IconsInv, NEW a \in Avatars, NEW ok \in BOOLEAN, Icons!Decoded(a, ok)
    PROVE  IconsInv'
  <1>1. /\ a \in decoding /\ decoding' = decoding \ {a} /\ pending' = pending \ {a}
        /\ image' = IF ok /\ a \in pending /\ shown[a] # Nothing THEN image \cup {a} ELSE image
        /\ told' = IF ok \/ shown[a] = Nothing THEN told ELSE told \cup {a}
        /\ UNCHANGED <<shown, entry, queue, subscribers, waiting, cache, host, pages>>
    BY DEF Icons!Decoded
  <1>2. Icons!TypeOK'
    BY <1>1, IconTypes DEF IconsInv, Icons!TypeOK
  <1>3. \A k \in Keys : a \notin waiting[k]
    BY <1>1 DEF IconsInv, WaitingInv
  <1>4. WaitingInv'
    BY <1>1, <1>3 DEF IconsInv, WaitingInv
  <1>5. shown[a] # Nothing => a \in image' \cup told'
    BY <1>1 DEF IconsInv, PendingIconInv
  <1>6. PendingIconInv'
    BY <1>1, <1>5 DEF IconsInv, PendingIconInv
  <1>7. QED
    BY <1>2, <1>4, <1>6 DEF IconsInv

LEMMA OpenPageKeeps ==
    ASSUME IconsInv, Icons!OpenPage
    PROVE  IconsInv'
  <1>1. /\ pages < MaxPages /\ pages' = pages + 1 /\ UNCHANGED host
        /\ shown' = [a \in Avatars |-> Nothing] /\ pending' = {} /\ image' = {} /\ decoding' = {}
        /\ entry' = [k \in Keys |-> "none"] /\ queue' = <<>>
        /\ subscribers' = [k \in Keys |-> {}] /\ waiting' = [k \in Keys |-> {}]
        /\ cache' = [k \in Keys |-> "none"] /\ told' = {}
    BY DEF Icons!OpenPage
  <1>2. pages' \in 1..MaxPages
    BY <1>1, IconTypes, BoundsAssumption DEF IconsInv
  <1>3. Icons!TypeOK'
    BY <1>1, <1>2, IconTypes DEF IconsInv, Icons!TypeOK
  <1>4. WaitingInv' /\ PendingIconInv'
    BY <1>1 DEF WaitingInv, PendingIconInv
  <1>5. QED
    BY <1>3, <1>4 DEF IconsInv

LEMMA IconsStep ==
    ASSUME IconsInv, Icons!Next \/ UNCHANGED iconsVars
    PROVE  IconsInv'
  <1>1. CASE Icons!Next
    BY <1>1, PaintKeeps, IconAnswerKeeps, DecodedKeeps, DrainCancelKeeps, DrainStartKeeps, OpenPageKeeps DEF Icons!Next
  <1>2. CASE UNCHANGED iconsVars
    BY <1>2 DEF iconsVars, IconsInv, WaitingInv, PendingIconInv, Icons!TypeOK
  <1>3. QED
    BY <1>1, <1>2

LEMMA IconsServed ==
    ASSUME IconsInv
    PROVE  Icons!AvatarsServed
  BY DEF IconsInv, WaitingInv, PendingIconInv, Icons!AvatarsServed

\* The elements of a sequence.
Elements(s) == {s[i] : i \in DOMAIN s}

LEMMA LeastOfSet ==
    ASSUME NEW S \in SUBSET Nat, S # {}
    PROVE  (CHOOSE i \in S : \A j \in S : i <= j) \in S
  <1>1. IsWellFoundedOn(OpToRel(<, Nat), Nat)
    BY NatLessThanWellFounded
  <1>2. PICK d \in S : \A e \in S : ~ (<<e, d>> \in OpToRel(<, Nat))
    BY <1>1, WFMin
  <1>3. \A e \in S : ~ (e < d)
    BY <1>2 DEF OpToRel
  <1>4. d \in Nat /\ S \subseteq Nat
    OBVIOUS
  <1>5. \A e \in S : d <= e
    BY <1>3, <1>4
  <1>6. QED
    BY <1>5

LEMMA ElementsTail ==
    ASSUME NEW S, NEW s \in Seq(S), s # <<>>
    PROVE  /\ Head(s) \in S /\ Tail(s) \in Seq(S) /\ Elements(s) = {Head(s)} \cup Elements(Tail(s))
  <1>1. Len(s) \in Nat /\ Len(s) # 0 /\ Head(s) = s[1] /\ Tail(s) \in Seq(S) /\ Len(Tail(s)) = Len(s) - 1
        /\ DOMAIN s = 1..Len(s) /\ DOMAIN Tail(s) = 1..(Len(s) - 1) /\ \A i \in DOMAIN Tail(s) : Tail(s)[i] = s[i + 1]
    OBVIOUS
  <1>2. \A i \in DOMAIN s : i = 1 \/ (i - 1 \in DOMAIN Tail(s) /\ s[i] = Tail(s)[i - 1])
    BY <1>1
  <1>3. 1 \in DOMAIN s /\ \A i \in DOMAIN Tail(s) : i + 1 \in DOMAIN s /\ Tail(s)[i] = s[i + 1]
    BY <1>1
  <1>4. Head(s) \in S
    OBVIOUS
  <1>5. Elements(s) \subseteq {Head(s)} \cup Elements(Tail(s))
    BY <1>1, <1>2 DEF Elements
  <1>6. {Head(s)} \cup Elements(Tail(s)) \subseteq Elements(s)
    BY <1>1, <1>3 DEF Elements
  <1>7. QED
    BY <1>1, <1>4, <1>5, <1>6

LEMMA ElementsAppend ==
    ASSUME NEW S, NEW s \in Seq(S), NEW e \in S
    PROVE  /\ Append(s, e) \in Seq(S) /\ Len(Append(s, e)) = Len(s) + 1 /\ Len(s) \in Nat
           /\ Elements(Append(s, e)) = Elements(s) \cup {e}
           /\ Linux!Distinct(s) /\ e \notin Elements(s) => Linux!Distinct(Append(s, e))
  <1> DEFINE more == Append(s, e)
  <1>1. /\ more \in Seq(S) /\ Len(more) = Len(s) + 1 /\ Len(s) \in Nat /\ DOMAIN s = 1..Len(s)
        /\ DOMAIN more = 1..(Len(s) + 1) /\ more[Len(s) + 1] = e /\ \A i \in DOMAIN s : more[i] = s[i]
    OBVIOUS
  <1> HIDE DEF more
  <1>2. \A i \in DOMAIN more : (i \in DOMAIN s /\ more[i] = s[i]) \/ (i = Len(s) + 1 /\ more[i] = e)
    BY <1>1
  <1>3. \A i \in DOMAIN s : i \in DOMAIN more
    BY <1>1
  <1>4. Elements(more) \subseteq Elements(s) \cup {e}
    BY <1>2 DEF Elements
  <1>5. Elements(s) \subseteq Elements(more) /\ e \in Elements(more)
    BY <1>1, <1>3 DEF Elements
  <1>6. ASSUME Linux!Distinct(s), e \notin Elements(s)
        PROVE  Linux!Distinct(more)
    BY <1>1, <1>2, <1>6 DEF Elements, Linux!Distinct
  <1>7. QED
    BY <1>1, <1>4, <1>5, <1>6 DEF more

LEMMA ElementsConcat ==
    ASSUME NEW S, NEW s \in Seq(S), NEW r \in Seq(S)
    PROVE  s \o r \in Seq(S) /\ Elements(s \o r) = Elements(s) \cup Elements(r)
  <1> DEFINE all == s \o r
  <1>1. /\ all \in Seq(S) /\ Len(s) \in Nat /\ Len(r) \in Nat /\ DOMAIN s = 1..Len(s) /\ DOMAIN r = 1..Len(r)
        /\ DOMAIN all = 1..(Len(s) + Len(r))
    OBVIOUS
  <1>2. \A i \in DOMAIN all : all[i] = IF i <= Len(s) THEN s[i] ELSE r[i - Len(s)]
    OBVIOUS
  <1> HIDE DEF all
  <1>3. \A i \in DOMAIN all : (i \in DOMAIN s /\ all[i] = s[i]) \/ (i - Len(s) \in DOMAIN r /\ all[i] = r[i - Len(s)])
    BY <1>1, <1>2
  <1>4. \A i \in DOMAIN s : i \in DOMAIN all /\ all[i] = s[i]
    BY <1>1, <1>2
  <1>5. \A i \in DOMAIN r : i + Len(s) \in DOMAIN all /\ all[i + Len(s)] = r[i]
    BY <1>1, <1>2
  <1>6. Elements(all) \subseteq Elements(s) \cup Elements(r)
    BY <1>3 DEF Elements
  <1>7. Elements(s) \subseteq Elements(all) /\ Elements(r) \subseteq Elements(all)
    BY <1>4, <1>5 DEF Elements
  <1>8. QED
    BY <1>1, <1>6, <1>7 DEF all

LEMMA ElementsButLast ==
    ASSUME NEW S, NEW s \in Seq(S), Linux!Distinct(s)
    PROVE  LET less == SubSeq(s, 1, Len(s) - 1)
           IN  /\ less \in Seq(S) /\ Len(less) = (IF s = <<>> THEN 0 ELSE Len(s) - 1) /\ Len(s) \in Nat
               /\ Linux!Distinct(less) /\ Elements(less) \subseteq Elements(s)
  <1> DEFINE less == SubSeq(s, 1, Len(s) - 1)
  <1>1. Len(s) \in Nat /\ DOMAIN s = 1..Len(s) /\ (s = <<>> <=> Len(s) = 0)
    OBVIOUS
  <1>2. CASE s = <<>>
    <2>1. less = <<>>
      BY <1>1, <1>2
    <2>2. QED
      BY <1>1, <1>2, <2>1 DEF Linux!Distinct, Elements
  <1>3. CASE s # <<>>
    <2>1. less \in Seq(S) /\ Len(less) = Len(s) - 1 /\ DOMAIN less = 1..(Len(s) - 1) /\ \A i \in DOMAIN less : less[i] = s[i]
      BY <1>1, <1>3
    <2> HIDE DEF less
    <2>2. \A i \in DOMAIN less : i \in DOMAIN s /\ less[i] = s[i]
      BY <1>1, <2>1
    <2>3. Linux!Distinct(less) /\ Elements(less) \subseteq Elements(s)
      BY <2>2 DEF Linux!Distinct, Elements
    <2>4. QED
      BY <1>1, <1>3, <2>1, <2>3 DEF less
  <1>4. QED
    BY <1>2, <1>3

\* While the number of themes allows it, the first theme and those that the searched
\* ones inherit from are searched or still to be; no searched one holds the icon.
\* hicolor is searched last, and has its place.
SearchCovers(first, parents, seen, rest) ==
    first \in seen \cup rest /\ \A t \in seen : Elements(parents[t]) \subseteq seen \cup rest
FreshSearch == stage \in {"scan", "theme"} => visited = <<>> /\ todo = <<>>
LimitKept == stage \in {"scan", "theme", "find"} => candidateLimit = MaxCandidates
NotHeld == stage \in {"find", "fallback", "pixmaps"} /\ ~exhausted => holder \notin Elements(visited)
CoveredInv ==
    stage = "find" /\ ~exhausted /\ Len(visited) < MaxThemes =>
        SearchCovers(Linux!Start, inherits, Elements(visited), Elements(todo))
FallbackInv ==
    stage = "fallback" =>
        /\ hicolor \in Elements(visited) \/ (todo = <<hicolor>> /\ Len(visited) < MaxThemes)
        /\ ~exhausted /\ holder \in Linux!Reachable =>
              Len(visited) + (IF hicolor \in Elements(visited) THEN 0 ELSE 1) >= MaxThemes
ThemesInv ==
    Linux!TypeOK /\ FreshSearch /\ LimitKept /\ NotHeld /\ CoveredInv /\ FallbackInv /\ Linux!ThemesSearched

LEMMA ThemeTypes ==
    ASSUME Linux!TypeOK
    PROVE  /\ desktop \in Seq(Linux!DesktopFiles) /\ Len(desktop) <= MaxDesktopFiles
           /\ inherits \in [Themes -> Linux!Lists] /\ size \in [Themes -> 0..MaxSize]
           /\ holder \in Themes \cup {"pixmaps", Nothing} /\ setting \in Themes \cup {Nothing}
           /\ stage \in {"scan", "theme", "find", "fallback", "pixmaps", "image", "done"}
           /\ launcher \in Linux!DesktopFiles \cup {Nothing}
           /\ todo \in Seq(Themes) /\ visited \in Seq(Themes) /\ Len(visited) <= MaxThemes /\ Linux!Distinct(visited)
           /\ candidates \in Nat /\ candidateLimit \in {MaxCandidates, MaxCandidates + MoreCandidates}
           /\ exhausted \in BOOLEAN /\ icon \in Themes \cup {"pixmaps", "empty", Nothing}
  BY DEF Linux!TypeOK

LEMMA InheritedThemes ==
    ASSUME NEW s \in Linux!Lists
    PROVE  s \in Seq(Themes) /\ Elements(s) \subseteq Themes
  <1>1. PICK n \in 0..2 : s \in [1..n -> Themes]
    BY DEF Linux!Lists
  <1>2. QED
    BY <1>1 DEF Elements

LEMMA ReachedCovered ==
    ASSUME NEW seen \in SUBSET Themes, SearchCovers(Linux!Start, inherits, seen, {})
    PROVE  Linux!Reachable \subseteq seen
  <1>1. Linux!Start \in seen
    BY DEF SearchCovers
  <1>2. Linux!Parents(seen) \subseteq seen
    BY DEF SearchCovers, Linux!Parents, Elements
  <1>3. QED
    BY <1>1, <1>2 DEF Linux!Reachable

LEMMA ThemesInit ==
    ASSUME Linux!Init
    PROVE  ThemesInv
  <1>1. /\ stage = "scan" /\ launcher = Nothing /\ icon = Nothing /\ todo = <<>> /\ visited = <<>> /\ candidates = 0
        /\ candidateLimit = MaxCandidates /\ exhausted = FALSE
    BY DEF Linux!Init
  <1>2. <<>> \in Linux!Lists
    BY DEF Linux!Lists, Linux!Distinct
  <1>3. /\ MaxDesktopFiles \in Nat \ {0} /\ MaxSize \in Nat \ {0} /\ MaxThemes \in Nat /\ MaxCandidates \in Nat
        /\ MoreCandidates \in Nat
    BY BoundsAssumption
  <1>4. desktop \in Seq(Linux!DesktopFiles) /\ Len(desktop) <= MaxDesktopFiles
    <2>1. CASE desktop = Linux!Usual
      <3> DEFINE first == [id |-> 1, names |-> "path", used |-> TRUE]
      <3>1. first \in Linux!DesktopFiles
        BY DEF Linux!DesktopFiles
      <3>2. desktop = <<first>>
        BY <2>1 DEF Linux!Usual
      <3> HIDE DEF first
      <3>3. QED
        BY <1>3, <3>1, <3>2
    <2>2. ASSUME NEW n \in 0..MaxDesktopFiles, desktop \in [1..n -> Linux!DesktopFiles]
          PROVE  desktop \in Seq(Linux!DesktopFiles) /\ Len(desktop) <= MaxDesktopFiles
      <3>1. n \in Nat /\ n <= MaxDesktopFiles
        BY <1>3
      <3>2. Len(desktop) = n /\ desktop \in Seq(Linux!DesktopFiles)
        BY <2>2, <3>1
      <3>3. QED
        BY <3>1, <3>2
    <2>3. QED
      BY <2>1, <2>2 DEF Linux!Init
  <1>5. /\ inherits \in [Themes -> Linux!Lists] /\ size \in [Themes -> 0..MaxSize]
        /\ holder \in Themes \cup {"pixmaps", Nothing} /\ setting \in Themes \cup {Nothing}
    <2>1. inherits \in [Themes -> Linux!Lists]
      BY <1>2 DEF Linux!Init
    <2>2. size \in [Themes -> 0..MaxSize]
      BY <1>3 DEF Linux!Init
    <2>3. holder \in Themes \cup {"pixmaps", Nothing} /\ setting \in Themes \cup {Nothing}
      BY NothingAssumption DEF Linux!Init
    <2>4. QED
      BY <2>1, <2>2, <2>3
  <1>6. Linux!TypeOK
    <2>1. Linux!Distinct(visited)
      BY <1>1 DEF Linux!Distinct
    <2>2. todo \in Seq(Themes) /\ visited \in Seq(Themes) /\ Len(visited) <= MaxThemes
      BY <1>1, <1>3
    <2>3. QED
      BY <1>1, <1>3, <1>4, <1>5, <2>1, <2>2 DEF Linux!TypeOK
  <1>7. FreshSearch /\ LimitKept /\ NotHeld /\ CoveredInv /\ FallbackInv /\ Linux!ThemesSearched
    BY <1>1 DEF FreshSearch, LimitKept, NotHeld, CoveredInv, FallbackInv, Linux!ThemesSearched
  <1>8. QED
    BY <1>6, <1>7 DEF ThemesInv

LEMMA ScanKeeps ==
    ASSUME ThemesInv, Linux!Scan
    PROVE  ThemesInv'
  <1>1. /\ stage = "scan" /\ stage' \in {"done", "theme"} /\ icon' \in {icon, "empty"}
        /\ UNCHANGED <<desktop, inherits, size, holder, setting, todo, visited, candidates, candidateLimit, exhausted>>
    BY DEF Linux!Scan, Linux!systemVars, Linux!searchVars
  <1>2. launcher' \in Linux!DesktopFiles \cup {Nothing}
    <2>1. CASE Linux!Naming("path") \cup Linux!Naming("name") = {}
      BY <2>1, ThemeTypes DEF Linux!Scan, ThemesInv
    <2>2. CASE Linux!Naming("path") \cup Linux!Naming("name") # {}
      <3> DEFINE S == IF Linux!Naming("path") # {} THEN Linux!Naming("path") ELSE Linux!Naming("name")
      <3>1. launcher' = Linux!First(S) /\ S # {}
        BY <2>2 DEF Linux!Scan
      <3>2. S \subseteq DOMAIN desktop /\ DOMAIN desktop \subseteq Nat
        BY ThemeTypes DEF ThemesInv, Linux!Naming, Linux!Entries
      <3> HIDE DEF S
      <3>3. (CHOOSE i \in S : \A j \in S : i <= j) \in S
        BY <3>1, <3>2, LeastOfSet
      <3>4. \A i \in DOMAIN desktop : desktop[i] \in Linux!DesktopFiles
        BY ThemeTypes DEF ThemesInv
      <3>5. QED
        BY <3>1, <3>2, <3>3, <3>4 DEF Linux!First
    <2>3. QED
      BY <2>1, <2>2
  <1>3. Linux!TypeOK'
    BY <1>1, <1>2, ThemeTypes DEF ThemesInv, Linux!TypeOK, Linux!Distinct
  <1>4. FreshSearch' /\ LimitKept' /\ NotHeld' /\ CoveredInv' /\ FallbackInv' /\ Linux!ThemesSearched'
    BY <1>1 DEF ThemesInv, FreshSearch, LimitKept, NotHeld, CoveredInv, FallbackInv, Linux!ThemesSearched
  <1>5. QED
    BY <1>3, <1>4 DEF ThemesInv

LEMMA StartThemeKeeps ==
    ASSUME ThemesInv, Linux!StartTheme
    PROVE  ThemesInv'
  <1>1. /\ stage = "theme" /\ stage' = "find" /\ todo' = <<Linux!Start>>
        /\ UNCHANGED <<desktop, inherits, size, holder, setting, launcher, visited, candidates, candidateLimit, exhausted, icon>>
    BY DEF Linux!StartTheme, Linux!systemVars, Linux!Start
  <1>2. Linux!Start \in Themes /\ Linux!Start' = Linux!Start /\ visited = <<>>
    BY <1>1, ThemeTypes, NothingAssumption DEF ThemesInv, FreshSearch, Linux!Start
  <1>3. Linux!TypeOK'
    BY <1>1, <1>2, ThemeTypes DEF ThemesInv, Linux!TypeOK, Linux!Distinct
  <1>4. Linux!Start \in Elements(todo') /\ Elements(visited') = {}
    BY <1>1, <1>2 DEF Elements
  <1>5. CoveredInv'
    BY <1>1, <1>2, <1>4 DEF CoveredInv, SearchCovers
  <1>6. FreshSearch' /\ LimitKept' /\ NotHeld' /\ FallbackInv' /\ Linux!ThemesSearched'
    BY <1>1, <1>4 DEF ThemesInv, FreshSearch, LimitKept, NotHeld, FallbackInv, Linux!ThemesSearched
  <1>7. QED
    BY <1>3, <1>5, <1>6 DEF ThemesInv

LEMMA SkipKeeps ==
    ASSUME ThemesInv, Linux!Skip
    PROVE  ThemesInv'
  <1>1. /\ stage \in {"find", "fallback"} /\ todo # <<>> /\ todo' = Tail(todo) /\ Linux!Skipped(Head(todo))
        /\ UNCHANGED <<desktop, inherits, size, holder, setting, stage, launcher, visited, candidates, candidateLimit, exhausted, icon>>
    BY DEF Linux!Skip, Linux!systemVars
  <1>2. Head(todo) \in Themes /\ todo' \in Seq(Themes) /\ Elements(todo) = {Head(todo)} \cup Elements(todo')
    BY <1>1, ThemeTypes, ElementsTail DEF ThemesInv
  <1>3. Linux!TypeOK'
    BY <1>1, <1>2, ThemeTypes DEF ThemesInv, Linux!TypeOK, Linux!Distinct
  <1>4. Len(visited) < MaxThemes => Head(todo) \in Elements(visited)
    BY <1>1, ThemeTypes, BoundsAssumption DEF ThemesInv, Linux!Skipped, Linux!Visited, Elements
  <1>5. Linux!Start' = Linux!Start /\ Linux!Reachable' = Linux!Reachable
    BY <1>1 DEF Linux!Start, Linux!Reachable, Linux!Parents
  <1>6. CoveredInv'
    BY <1>1, <1>2, <1>4, <1>5 DEF ThemesInv, CoveredInv, SearchCovers
  <1>7. FallbackInv'
    <2>1. todo = <<hicolor>> => Head(todo) = hicolor
      OBVIOUS
    <2>2. stage = "fallback" => hicolor \in Elements(visited)
      BY <1>4, <2>1 DEF ThemesInv, FallbackInv
    <2>3. QED
      BY <1>1, <1>5, <2>2 DEF ThemesInv, FallbackInv
  <1>8. FreshSearch' /\ LimitKept' /\ NotHeld' /\ Linux!ThemesSearched'
    BY <1>1 DEF ThemesInv, FreshSearch, LimitKept, NotHeld, Linux!ThemesSearched
  <1>9. QED
    BY <1>3, <1>6, <1>7, <1>8 DEF ThemesInv

LEMMA FindKeeps ==
    ASSUME ThemesInv, Linux!Find
    PROVE  ThemesInv'
  <1> DEFINE theme == Head(todo)
             cut == size[theme] > 0 /\ Linux!Over
  <1>1. /\ stage \in {"find", "fallback"} /\ todo # <<>> /\ ~Linux!Skipped(theme) /\ visited' = Append(visited, theme)
        /\ exhausted' = (exhausted \/ cut)
        /\ UNCHANGED <<desktop, inherits, size, holder, setting, launcher, candidateLimit>>
    BY DEF Linux!Find, Linux!systemVars
  <1>2. \/ /\ cut /\ todo' = Tail(todo) /\ stage' = stage /\ icon' = icon
           /\ candidates' = (IF candidates > candidateLimit THEN candidates ELSE candidateLimit) + 1
        \/ ~cut /\ holder = theme /\ icon' = theme /\ stage' = "image" /\ UNCHANGED <<candidates, todo>>
        \/ /\ ~cut /\ holder # theme /\ candidates' = candidates + size[theme]
           /\ todo' = inherits[theme] \o Tail(todo) /\ stage' = stage /\ icon' = icon
    BY DEF Linux!Find
  <1> HIDE DEF cut
  <1>3. theme \in Themes /\ Tail(todo) \in Seq(Themes) /\ Elements(todo) = {theme} \cup Elements(Tail(todo))
    BY <1>1, ThemeTypes, ElementsTail DEF ThemesInv
  <1>4. theme \notin Elements(visited) /\ Len(visited) < MaxThemes
    <2>1. theme \notin Elements(visited) /\ ~(Len(visited) >= MaxThemes)
      BY <1>1 DEF Linux!Skipped, Linux!Visited, Elements
    <2>2. Len(visited) \in Nat /\ MaxThemes \in Nat
      BY ThemeTypes, BoundsAssumption DEF ThemesInv
    <2>3. QED
      BY <2>1, <2>2
  <1>5. inherits[theme] \in Seq(Themes)
    BY <1>3, ThemeTypes, InheritedThemes DEF ThemesInv
  <1>6. todo' \in Seq(Themes)
        /\ (stage' # "image" /\ ~cut => Elements(todo') = Elements(inherits[theme]) \cup Elements(Tail(todo)) /\ holder # theme)
    <2> DEFINE own == inherits[theme]
               rest == Tail(todo)
               all == own \o rest
    <2>0. own \in Seq(Themes) /\ rest \in Seq(Themes)
      BY <1>3, <1>5
    <2>1. all \in Seq(Themes) /\ Elements(all) = Elements(inherits[theme]) \cup Elements(Tail(todo))
      <3> HIDE DEF own, rest
      <3>1. all \in Seq(Themes) /\ Elements(all) = Elements(own) \cup Elements(rest)
        BY <2>0, ElementsConcat
      <3>2. QED
        BY <3>1 DEF own, rest
    <2>2. todo' = Tail(todo) \/ todo' = todo \/ todo' = all
      BY <1>2
    <2>3. stage' # "image" /\ ~cut => todo' = all /\ holder # theme
      BY <1>2
    <2> HIDE DEF all, theme
    <2>4. todo \in Seq(Themes)
      BY ThemeTypes DEF ThemesInv
    <2>5. QED
      BY <1>3, <2>1, <2>2, <2>3, <2>4
  <1> HIDE DEF theme
  <1>7. /\ visited' \in Seq(Themes) /\ Len(visited') = Len(visited) + 1 /\ Len(visited) \in Nat
        /\ Elements(visited') = Elements(visited) \cup {theme} /\ Linux!Distinct(visited')
    BY <1>1, <1>3, <1>4, ThemeTypes, ElementsAppend DEF ThemesInv
  <1>8. candidates' \in Nat
    <2>1. MaxSize \in Nat /\ MaxCandidates \in Nat /\ MoreCandidates \in Nat
      BY BoundsAssumption
    <2>2. size[theme] \in 0..MaxSize
      BY <1>3, ThemeTypes DEF ThemesInv
    <2>3. candidates \in Nat /\ candidateLimit \in Nat
      BY <2>1, ThemeTypes DEF ThemesInv
    <2>4. size[theme] \in Nat
      BY <2>1, <2>2
    <2>5. \/ candidates' = candidates \/ candidates' = candidates + size[theme] \/ candidates' = candidates + 1
          \/ candidates' = candidateLimit + 1
      BY <1>2
    <2>6. QED
      BY <2>3, <2>4, <2>5
  <1>9. MaxThemes \in Nat
    BY BoundsAssumption
  <1>10. Linux!TypeOK'
    <2>1. exhausted' \in BOOLEAN
      BY <1>1, ThemeTypes DEF ThemesInv, cut
    <2>2. stage' \in {"find", "fallback", "image"} /\ icon' \in Themes \cup {"pixmaps", "empty", Nothing}
      BY <1>1, <1>2, <1>3, ThemeTypes DEF ThemesInv
    <2>3. Len(visited') <= MaxThemes
      BY <1>4, <1>7, <1>9
    <2>4. QED
      BY <1>1, <1>6, <1>7, <1>8, <2>1, <2>2, <2>3, ThemeTypes DEF ThemesInv, Linux!TypeOK
  <1>11. Linux!Start' = Linux!Start /\ Linux!Reachable' = Linux!Reachable
    BY <1>1 DEF Linux!Start, Linux!Reachable, Linux!Parents
  <1>12. ~exhausted' => ~exhausted /\ ~cut
    BY <1>1
  <1>13. CASE stage' = "image"
    BY <1>10, <1>13 DEF ThemesInv, FreshSearch, LimitKept, NotHeld, CoveredInv, FallbackInv, Linux!ThemesSearched
  <1>14. CASE stage' = stage
    <2>1. FreshSearch' /\ LimitKept' /\ Linux!ThemesSearched'
      BY <1>1, <1>14 DEF ThemesInv, FreshSearch, LimitKept, Linux!ThemesSearched
    <2>2. stage' # "image"
      BY <1>1, <1>14
    <2>3. NotHeld'
      BY <1>1, <1>6, <1>7, <1>12, <1>14, <2>2 DEF ThemesInv, NotHeld
    <2>4. CoveredInv'
      <3> SUFFICES ASSUME stage' = "find", ~exhausted', Len(visited') < MaxThemes
                   PROVE  SearchCovers(Linux!Start, inherits, Elements(visited'), Elements(todo'))
        BY <1>1, <1>11 DEF CoveredInv
      <3>1. Len(visited) < MaxThemes
        BY <1>4
      <3>2. SearchCovers(Linux!Start, inherits, Elements(visited), Elements(todo))
        BY <1>12, <1>14, <3>1 DEF ThemesInv, CoveredInv
      <3>3. Elements(todo') = Elements(inherits[theme]) \cup Elements(Tail(todo))
        BY <1>6, <1>12, <2>2
      <3>4. QED
        BY <1>3, <1>7, <3>2, <3>3 DEF SearchCovers
    <2>5. FallbackInv'
      <3> SUFFICES ASSUME stage' = "fallback"
                   PROVE  /\ hicolor \in Elements(visited')
                          /\ ~exhausted' /\ holder \in Linux!Reachable => Len(visited') >= MaxThemes
        BY <1>1, <1>7, <1>9, <1>11 DEF FallbackInv
      <3>1. todo = <<hicolor>> => theme = hicolor
        BY DEF theme
      <3>2. hicolor \in Elements(visited')
        BY <1>7, <1>14, <3>1 DEF ThemesInv, FallbackInv
      <3>3. ASSUME ~exhausted', holder \in Linux!Reachable
            PROVE  Len(visited') >= MaxThemes
        <4>1. Len(visited) + (IF hicolor \in Elements(visited) THEN 0 ELSE 1) >= MaxThemes
          BY <1>12, <1>14, <3>3 DEF ThemesInv, FallbackInv
        <4>2. QED
          BY <1>7, <1>9, <4>1
      <3>4. QED
        BY <3>2, <3>3
    <2>6. QED
      BY <1>10, <2>1, <2>3, <2>4, <2>5 DEF ThemesInv
  <1>15. QED
    BY <1>2, <1>13, <1>14

LEMMA FallbackKeeps ==
    ASSUME ThemesInv, Linux!Fallback
    PROVE  ThemesInv'
  <1>1. /\ stage = "find" /\ todo = <<>>
        /\ UNCHANGED <<desktop, inherits, size, holder, setting, launcher, candidates, exhausted, icon>>
    BY DEF Linux!Fallback, Linux!systemVars
  <1>2. Linux!Visited = Elements(visited) /\ Elements(todo) = {}
    BY <1>1 DEF Linux!Visited, Elements
  <1>3. Elements(visited) \in SUBSET Themes
    BY ThemeTypes DEF ThemesInv, Elements
  <1>4. ~exhausted /\ holder \in Linux!Reachable => Len(visited) >= MaxThemes
    <2> SUFFICES ASSUME ~exhausted, Len(visited) < MaxThemes
                 PROVE  holder \notin Linux!Reachable
      BY ThemeTypes, BoundsAssumption DEF ThemesInv
    <2>1. SearchCovers(Linux!Start, inherits, Elements(visited), {})
      BY <1>1, <1>2 DEF ThemesInv, CoveredInv
    <2>2. Linux!Reachable \subseteq Elements(visited)
      BY <1>3, <2>1, ReachedCovered
    <2>3. QED
      BY <1>1, <2>2 DEF ThemesInv, NotHeld
  <1>5. Linux!Start' = Linux!Start /\ Linux!Reachable' = Linux!Reachable
    BY <1>1 DEF Linux!Start, Linux!Reachable, Linux!Parents
  <1>6. CASE hicolor \in Elements(visited)
    <2>1. stage' = "pixmaps" /\ UNCHANGED <<todo, visited, candidateLimit>>
      BY <1>2, <1>6 DEF Linux!Fallback
    <2>2. Linux!TypeOK'
      BY <1>1, <2>1, ThemeTypes DEF ThemesInv, Linux!TypeOK, Linux!Distinct
    <2>3. FreshSearch' /\ LimitKept' /\ NotHeld' /\ CoveredInv' /\ FallbackInv'
      BY <1>1, <2>1 DEF ThemesInv, FreshSearch, LimitKept, NotHeld, CoveredInv, FallbackInv
    <2>4. Linux!Visited' = Elements(visited)
      BY <2>1 DEF Linux!Visited, Elements
    <2>5. ~exhausted => holder # hicolor
      BY <1>1, <1>6 DEF ThemesInv, NotHeld
    <2>6. Linux!ThemesSearched'
      BY <1>1, <1>4, <1>5, <1>6, <2>1, <2>4, <2>5 DEF Linux!ThemesSearched
    <2>7. QED
      BY <2>2, <2>3, <2>6 DEF ThemesInv
  <1>7. CASE hicolor \notin Elements(visited)
    <2>1. stage' = "fallback" /\ todo' = <<hicolor>> /\ visited' = SubSeq(visited, 1, Len(visited) - 1)
          /\ candidateLimit' = candidateLimit + MoreCandidates
      BY <1>2, <1>7 DEF Linux!Fallback
    <2>2. /\ visited' \in Seq(Themes) /\ Len(visited') = (IF visited = <<>> THEN 0 ELSE Len(visited) - 1) /\ Len(visited) \in Nat
          /\ Linux!Distinct(visited') /\ Elements(visited') \subseteq Elements(visited)
      BY <2>1, ThemeTypes, ElementsButLast DEF ThemesInv
    <2>3. MaxThemes \in Nat \ {0} /\ Len(visited) <= MaxThemes /\ (visited = <<>> => Len(visited) = 0)
      BY ThemeTypes, BoundsAssumption DEF ThemesInv
    <2>4. Len(visited') < MaxThemes
      <3>1. CASE visited = <<>>
        BY <2>2, <2>3, <3>1
      <3>2. CASE visited # <<>>
        BY <2>2, <2>3, <3>2
      <3>3. QED
        BY <3>1, <3>2
    <2>5. candidateLimit' = MaxCandidates + MoreCandidates
      BY <1>1, <2>1 DEF ThemesInv, LimitKept
    <2>6. Len(visited) >= MaxThemes => Len(visited') + 1 >= MaxThemes
      BY <2>2, <2>3
    <2>7. Linux!TypeOK'
      <3>1. todo' \in Seq(Themes)
        BY <2>1, NothingAssumption
      <3>2. Len(visited') <= MaxThemes
        BY <2>2, <2>3, <2>4
      <3>3. QED
        BY <1>1, <2>1, <2>2, <2>5, <3>1, <3>2, ThemeTypes DEF ThemesInv, Linux!TypeOK
    <2>8. FreshSearch' /\ LimitKept' /\ CoveredInv' /\ Linux!ThemesSearched'
      BY <2>1 DEF FreshSearch, LimitKept, CoveredInv, Linux!ThemesSearched
    <2>9. NotHeld'
      BY <1>1, <2>2 DEF ThemesInv, NotHeld
    <2>10. FallbackInv'
      BY <1>1, <1>4, <1>5, <1>7, <2>1, <2>2, <2>4, <2>6 DEF FallbackInv
    <2>11. QED
      BY <2>7, <2>8, <2>9, <2>10 DEF ThemesInv
  <1>8. QED
    BY <1>6, <1>7

LEMMA FallbackEndsKeeps ==
    ASSUME ThemesInv, Linux!FallbackEnds
    PROVE  ThemesInv'
  <1>1. /\ stage = "fallback" /\ todo = <<>> /\ stage' = "pixmaps"
        /\ UNCHANGED <<desktop, inherits, size, holder, setting, launcher, todo, visited, candidates, candidateLimit,
                       exhausted, icon>>
    BY DEF Linux!FallbackEnds, Linux!systemVars, Linux!searchVars
  <1>2. Linux!TypeOK'
    BY <1>1, ThemeTypes DEF ThemesInv, Linux!TypeOK, Linux!Distinct
  <1>3. FreshSearch' /\ LimitKept' /\ NotHeld' /\ CoveredInv' /\ FallbackInv'
    BY <1>1 DEF ThemesInv, FreshSearch, LimitKept, NotHeld, CoveredInv, FallbackInv
  <1>4. hicolor \in Elements(visited)
    BY <1>1 DEF ThemesInv, FallbackInv
  <1>5. /\ ~exhausted => holder \notin Elements(visited)
        /\ ~exhausted /\ holder \in Linux!Reachable => Len(visited) >= MaxThemes
    <2>1. ~exhausted /\ holder \in Linux!Reachable => Len(visited) + 0 >= MaxThemes
      BY <1>1, <1>4 DEF ThemesInv, FallbackInv
    <2>2. Len(visited) \in Nat
      BY ThemeTypes DEF ThemesInv
    <2>3. QED
      BY <1>1, <2>1, <2>2 DEF ThemesInv, NotHeld
  <1>6. Linux!Reachable' = Linux!Reachable /\ Linux!Visited' = Elements(visited)
    BY <1>1 DEF Linux!Start, Linux!Reachable, Linux!Parents, Linux!Visited, Elements
  <1>7. Linux!ThemesSearched'
    BY <1>1, <1>4, <1>5, <1>6 DEF Linux!ThemesSearched
  <1>8. QED
    BY <1>2, <1>3, <1>7 DEF ThemesInv

LEMMA ImageKeeps ==
    ASSUME ThemesInv, Linux!Pixmaps \/ Linux!Image
    PROVE  ThemesInv'
  <1>1. /\ stage' \in {"image", "done"} /\ (icon' = icon \/ icon' \in {"pixmaps", "empty"})
        /\ UNCHANGED <<desktop, inherits, size, holder, setting, launcher, todo, visited, candidates, candidateLimit,
                       exhausted>>
    BY DEF Linux!Pixmaps, Linux!Image, Linux!systemVars, Linux!searchVars
  <1>2. Linux!TypeOK'
    BY <1>1, ThemeTypes DEF ThemesInv, Linux!TypeOK, Linux!Distinct
  <1>3. FreshSearch' /\ LimitKept' /\ NotHeld' /\ CoveredInv' /\ FallbackInv' /\ Linux!ThemesSearched'
    BY <1>1 DEF ThemesInv, FreshSearch, LimitKept, NotHeld, CoveredInv, FallbackInv, Linux!ThemesSearched
  <1>4. QED
    BY <1>2, <1>3 DEF ThemesInv

LEMMA ThemesStep ==
    ASSUME ThemesInv, Linux!Next \/ UNCHANGED themeVars
    PROVE  ThemesInv'
  <1>1. CASE Linux!Next
    BY <1>1, ScanKeeps, StartThemeKeeps, SkipKeeps, FindKeeps, FallbackKeeps, FallbackEndsKeeps, ImageKeeps
       DEF Linux!Next
  <1>2. CASE UNCHANGED themeVars
    <2>1. UNCHANGED <<desktop, inherits, size, holder, setting, stage, launcher, todo, visited, candidates,
                      candidateLimit, exhausted, icon>>
      BY <1>2 DEF themeVars
    <2>2. Linux!TypeOK'
      BY <2>1 DEF ThemesInv, Linux!TypeOK, Linux!Distinct
    <2>3. Linux!Start' = Linux!Start /\ Linux!Reachable' = Linux!Reachable /\ Linux!Visited' = Linux!Visited
      BY <2>1 DEF Linux!Start, Linux!Reachable, Linux!Parents, Linux!Visited
    <2>4. FreshSearch' /\ LimitKept' /\ NotHeld' /\ CoveredInv' /\ FallbackInv' /\ Linux!ThemesSearched'
      BY <2>1, <2>3 DEF ThemesInv, FreshSearch, LimitKept, NotHeld, CoveredInv, FallbackInv, Linux!ThemesSearched
    <2>5. QED
      BY <2>2, <2>4 DEF ThemesInv
  <1>3. QED
    BY <1>1, <1>2

\* The page's avatars show their icons or are told that there is none, and the
\* search for an icon leaves the themes only when none of those it covers has it.
THEOREM AvatarsGetIcons == Spec => []AvatarsServed
  <1>1. Init => IconsInv /\ ThemesInv
    BY IconsInit, ThemesInit DEF Init
  <1>2. IconsInv /\ ThemesInv /\ [Next]_desktopVars => IconsInv' /\ ThemesInv'
    BY IconsStep, ThemesStep DEF Next, desktopVars
  <1>3. IconsInv /\ ThemesInv => AvatarsServed
    BY IconsServed DEF ThemesInv, AvatarsServed
  <1>4. QED
    BY <1>1, <1>2, <1>3, PTL DEF Spec

=============================================================================
