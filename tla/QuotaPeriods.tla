---------------------------- MODULE QuotaPeriods ----------------------------
(***************************************************************************)
(* Quota periods and thresholds (core/quota.cpp).  Time is counted in      *)
(* local days; a period key names the days whose bytes belong together.    *)
(***************************************************************************)
EXTENDS Integers, FiniteSets, FiniteSetsExt

CONSTANTS
    MaxDay,         \* bound: the days are 0 .. MaxDay
    DaysPerMonth    \* bound: a month is this many days

ASSUME CalendarAssumption == MaxDay \in Nat /\ DaysPerMonth \in Nat \ {0}

Days    == 0 .. MaxDay
Periods == {"day", "month", "all"}

periodKeyFor(period, day) ==
    CASE period = "day"   -> <<"day", day>>
      [] period = "month" -> <<"month", day \div DaysPerMonth>>
      [] period = "all"   -> <<"all", 0>>

PeriodKeys == {periodKeyFor(p, t) : p \in Periods, t \in Days}
DaysOf(key) == {t \in Days : periodKeyFor(key[1], t) = key}

\* The bytes a table of days holds in a period.
BytesIn(table, key) == MapThenSumSet(LAMBDA t : table[t], DaysOf(key))

\* A cap of 0 bytes is no limit.
reachedWarn(cap, used, percent) == cap > 0 /\ used * 100 >= percent * cap
reachedLimit(cap, used) == cap > 0 /\ used >= cap
=============================================================================
