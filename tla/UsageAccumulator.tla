-------------------------- MODULE UsageAccumulator --------------------------
(***************************************************************************)
(* The counter accumulator of the backend (core/usage_accumulator.cpp).    *)
(*                                                                         *)
(* It is a pure step: from the baselines kept per interface, one sample    *)
(* report and the time of the round it computes the next baselines, the    *)
(* byte deltas and the counter events.  A baseline map, and a report, are  *)
(* partial functions on Interfaces, as the maps of the source are.         *)
(***************************************************************************)
EXTENDS Integers

CONSTANTS
    Interfaces,     \* interface identifiers
    Networks,       \* network identities: key and ssid together
    Directions,     \* the two byte counters of an interface
    BaselineTtl     \* how long an unseen baseline survives incomplete reports

ASSUME TtlAssumption == BaselineTtl \in Nat

Counter  == [Directions -> Nat]
Baseline == [network : Networks, bytes : Counter, seenAt : Nat]
Sample   == [network : Networks, bytes : Counter]
Delta    == [network : Networks, bytes : Counter, span : Nat]

\* f is a map from some of the interfaces to S.
IsMapTo(f, S) == DOMAIN f \subseteq Interfaces /\ f \in [DOMAIN f -> S]

\* The wall clock may be set back between two rounds: a span is never negative.
Span(from, now) == IF now > from THEN now - from ELSE 0

\* What one round does to interface i.
IsFirst(base, sample, i) == i \in DOMAIN sample /\ i \notin DOMAIN base

\* Mutant of Moved: a change of network goes unnoticed.
NeverMoved(base, sample, i) == FALSE

Moved(base, sample, i) ==
    /\ i \in DOMAIN sample \cap DOMAIN base
    /\ sample[i].network # base[i].network

\* Mutant of WasReset: counters that went back are taken for progress.
NeverReset(base, sample, i) == FALSE

WasReset(base, sample, i) ==
    /\ i \in DOMAIN sample \cap DOMAIN base
    /\ ~Moved(base, sample, i)
    /\ \E d \in Directions : sample[i].bytes[d] < base[i].bytes[d]

Advanced(base, sample, i) ==
    /\ i \in DOMAIN sample \cap DOMAIN base
    /\ ~Moved(base, sample, i)
    /\ ~WasReset(base, sample, i)

\* An interface missing from a complete report is no longer associated; one
\* missing from an incomplete report is given BaselineTtl to come back.
Detached(base, sample, complete, now, i) ==
    /\ i \in DOMAIN base \ DOMAIN sample
    /\ complete \/ Span(base[i].seenAt, now) > BaselineTtl

\* Mutant of NextBaselines: a baseline, once taken, is not moved forward.
FirstBaselines(base, sample, complete, now) ==
    [i \in {j \in DOMAIN base \cup DOMAIN sample :
                ~Detached(base, sample, complete, now, j)} |->
        IF i \in DOMAIN base
        THEN base[i]
        ELSE [network |-> sample[i].network, bytes |-> sample[i].bytes,
              seenAt |-> now]]

NextBaselines(base, sample, complete, now) ==
    [i \in {j \in DOMAIN base \cup DOMAIN sample :
                ~Detached(base, sample, complete, now, j)} |->
        IF i \in DOMAIN sample
        THEN [network |-> sample[i].network, bytes |-> sample[i].bytes,
              seenAt |-> now]
        ELSE base[i]]

RoundDeltas(base, sample, now) ==
    [i \in {j \in DOMAIN sample : Advanced(base, sample, j)} |->
        [network |-> sample[i].network,
         bytes   |-> [d \in Directions |->
                        sample[i].bytes[d] - base[i].bytes[d]],
         span    |-> Span(base[i].seenAt, now)]]

\* The events of a round: which interfaces produced no delta, and why.
RoundEvents(base, sample, complete, now) ==
    LET Tag(kind, S) == {[interface |-> i, kind |-> kind] : i \in S}
    IN  Tag("baseline", {i \in Interfaces : IsFirst(base, sample, i)})
        \cup Tag("reattributed", {i \in Interfaces : Moved(base, sample, i)})
        \cup Tag("counterReset", {i \in Interfaces : WasReset(base, sample, i)})
        \cup Tag("detached",
                 {i \in Interfaces : Detached(base, sample, complete, now, i)})

EventKinds == {"baseline", "reattributed", "counterReset", "detached"}
Events     == [interface : Interfaces, kind : EventKinds]
=============================================================================
