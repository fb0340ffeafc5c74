----------------------------- MODULE UsageLedger -----------------------------
(***************************************************************************)
(* What the collecting backend promises about the usage it stores, without *)
(* baselines, counters or samples: a ledger of bytes that only grows by    *)
(* whole rounds, each entered once and never above what was carried, with  *)
(* at most one round waiting to be entered.  UsageCollector implements it. *)
(***************************************************************************)
EXTENDS Integers

CONSTANTS Interfaces, Networks, Directions

VARIABLES
    up,       \* the backend runs
    stored,   \* the ledger: bytes by interface, network and direction
    waiting,  \* the round that could not be entered yet
    limit,    \* the bytes that may have been carried
    saved     \* backups of the ledger

vars == <<up, stored, waiting, limit, saved>>

Table == [Interfaces -> [Networks -> [Directions -> Nat]]]
Zero == [i \in Interfaces |-> [n \in Networks |-> [d \in Directions |-> 0]]]
Plus(a, b) ==
    [i \in Interfaces |-> [n \in Networks |-> [d \in Directions |-> a[i][n][d] + b[i][n][d]]]]
AtMost(a, b) ==
    \A i \in Interfaces, n \in Networks, d \in Directions : a[i][n][d] <= b[i][n][d]

Init == up = TRUE /\ stored = Zero /\ waiting = Zero /\ limit = Zero /\ saved = {}

Traffic == AtMost(limit, limit') /\ UNCHANGED <<up, stored, waiting, saved>>

\* What waits is entered before, or with, the new round; the new round waits
\* when it cannot be entered.  A round finds the bytes that were carried.
Round ==
    /\ up
    /\ \/ AtMost(Plus(stored, waiting), stored') /\ waiting' = Zero
       \/ stored' = Plus(stored, waiting) /\ waiting' \in Table
    /\ AtMost(limit, limit') /\ AtMost(Plus(stored', waiting'), limit')
    /\ UNCHANGED <<up, saved>>

\* What waits is only given up with the ledger, or with the process.
Clear == up /\ stored' = Zero /\ waiting' = Zero /\ UNCHANGED <<up, limit, saved>>
Backup == up /\ saved' = {stored} /\ UNCHANGED <<up, stored, waiting, limit>>
Restore == up /\ stored' \in saved /\ waiting' = Zero /\ UNCHANGED <<up, limit, saved>>
Crash == up /\ ~up' /\ waiting' = Zero /\ UNCHANGED <<stored, limit, saved>>

Shutdown ==
    /\ up /\ ~up'
    /\ stored' = Plus(stored, waiting) /\ waiting' = Zero
    /\ UNCHANGED <<limit, saved>>
Start == ~up /\ up' /\ UNCHANGED <<stored, waiting, limit, saved>>

Next == Traffic \/ Round \/ Clear \/ Backup \/ Restore \/ Crash \/ Shutdown \/ Start

Spec == Init /\ [][Next]_vars
=============================================================================
