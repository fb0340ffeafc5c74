---------------------------- MODULE LiveSyncProofs ----------------------------
(***************************************************************************)
(* The page's copy equals the stored records once everything has arrived,  *)
(* and no record is ever added twice, for any days, ranges, and number of  *)
(* rounds and requests, in whatever order events overtake answers.         *)
(*                                                                         *)
(* Both kinds of records, those of networks and of applications, go the    *)
(* same way; the invariant speaks of one record of one kind at a time.     *)
(***************************************************************************)
EXTENDS LiveSync, FiniteSetTheorems, SequenceTheorems,
        WellFoundedInduction, TLAPS

-----------------------------------------------------------------------------
(* The inductive invariant.                                                *)

Kinds == {"usage", "appUsage"}
Stored(kind) == IF kind = "usage" THEN records ELSE apps
Got(copy, kind) == IF kind = "usage" THEN copy.records ELSE copy.apps

\* The copies of this kind can be exact: no request failed half way, nor committed
\* applications.
Exact(kind) == IF kind = "usage" THEN "half" \notin past ELSE past = {}

Copies == [records : SUBSET Record, apps : SUBSET Record, total : Nat]
Queries == [method : {"snapshot"}, version : 1 .. MaxRequests, range : Ranges]
Others  == [method : {"setPaused"}, paused : BOOLEAN] \cup [method : {"clearUsage"}]
Snapshots == [type : {"answer"}, request : Queries, revision : 0 .. MaxRounds, copy : Copies]
Messages ==
    Event \cup Snapshots \cup [type : {"answer"}, request : Others]
          \cup [type : {"failure"}, request : Queries \cup Others]

TypeInv ==
    /\ running \in BOOLEAN
    /\ revision \in 0 .. MaxRounds
    /\ records \subseteq Record /\ apps \subseteq Record /\ IsFiniteSet(records)
    /\ \/ deferred = {}
       \/ \E r \in Record : deferred = {r}
    /\ inbox \in Seq(Queries \cup Others)
    /\ wire \in Seq(Messages)
    /\ view \in Copies
    /\ range \in Ranges
    /\ subscribed \in BOOLEAN /\ loaded \in BOOLEAN
    /\ version \in 0 .. MaxRequests /\ requests \in 0 .. MaxRequests /\ version <= requests
    /\ query \in [version : 0 .. MaxRequests, events : Seq(Event)]
    /\ past \subseteq Past

\* Messages: an answer to a query, one that all is cleared, anything about a query.
Snapped(m) == m.type = "answer" /\ m.request.method = "snapshot"
Cleared(m) == m.type = "answer" /\ m.request.method = "clearUsage"
OfQuery(m) == ~IsEvent(m) /\ m.request.method = "snapshot"

\* The events that have not arrived, and those kept.
Events == {wire[k] : k \in {j \in DOMAIN wire : IsEvent(wire[j])}}
Kept   == {query.events[k] : k \in DOMAIN query.events}

\* Records are numbered by the revisions: what is stored next is new.
RecordsNumbered ==
    /\ \A r \in records \cup apps \cup deferred \cup view.records \cup view.apps : r.id <= revision
    /\ deferred \cap (apps \cup view.apps) = {}
Numbered(e) ==
    /\ e.record.id <= revision /\ e.revision <= revision
    /\ e.type = "usage" => e.record.id = e.revision
    /\ e.type = "appUsage" => e.record \notin deferred
EventsNumbered == \A e \in Events \cup Kept : Numbered(e)
SnapshotNumbered(m) ==
    /\ m.revision <= revision
    /\ \A r \in m.copy.records \cup m.copy.apps : r.id <= m.revision
    /\ deferred \cap m.copy.apps = {}
SnapshotsNumbered == \A k \in DOMAIN wire : Snapped(wire[k]) => SnapshotNumbered(wire[k])
NumbersInv == RecordsNumbered /\ EventsNumbered /\ SnapshotsNumbered

\* A record comes once: in the copy, or in an event that will be added to it.
Distinct(d, e) == d.type = e.type => d.record # e.record
Lacks(copy, e) == e.record \notin Got(copy, e.type)
EventsDistinct ==
    /\ \A e \in Events : Lacks(view, e)
    /\ \A j, k \in DOMAIN wire :
          j # k /\ IsEvent(wire[j]) /\ IsEvent(wire[k]) => Distinct(wire[j], wire[k])
    /\ \A d \in Kept, e \in Events : Distinct(d, e)
SnapshotsDistinct ==
    /\ \A j, k \in DOMAIN wire : Snapped(wire[j]) /\ IsEvent(wire[k]) /\ k < j
          => ~Newer(wire[k], wire[j])
    /\ \A j, k \in DOMAIN wire : Snapped(wire[j]) /\ IsEvent(wire[k]) /\ j < k
          => Lacks(wire[j].copy, wire[k]) /\ (Exact(wire[k].type) => Newer(wire[k], wire[j]))
    /\ \A j \in DOMAIN wire, e \in Kept :
          Snapped(wire[j]) /\ Newer(e, wire[j]) => Lacks(wire[j].copy, e)
OnceInv == EventsDistinct /\ SnapshotsDistinct

\* One request or answer for each version; the latest has its query.
Current(v) == v <= version /\ (v = version => query.version = version)
VersionsInv ==
    /\ \A i \in DOMAIN inbox : inbox[i].method = "snapshot" => Current(inbox[i].version)
    /\ \A k \in DOMAIN wire : OfQuery(wire[k]) => Current(wire[k].request.version)
    /\ \A i, j \in DOMAIN inbox :
          i # j /\ inbox[i].method = "snapshot" /\ inbox[j].method = "snapshot"
             => inbox[i].version # inbox[j].version
    /\ \A j, k \in DOMAIN wire : j # k /\ OfQuery(wire[j]) /\ OfQuery(wire[k])
             => wire[j].request.version # wire[k].request.version
    /\ \A i \in DOMAIN inbox, k \in DOMAIN wire :
          inbox[i].method = "snapshot" /\ OfQuery(wire[k])
             => inbox[i].version # wire[k].request.version
    /\ subscribed \/ version = 0

\* While the page has not got the answer, everything is cleared and rests.
ClearInv ==
    /\ \A i, j \in DOMAIN inbox : inbox[i].method = "clearUsage" /\ i < j
                                     => inbox[j].method = "snapshot"
    /\ \A k \in DOMAIN wire : Cleared(wire[k]) =>
          /\ ~running /\ records = {} /\ apps = {} /\ deferred = {}
          /\ \A i \in DOMAIN inbox : inbox[i].method = "snapshot"
          /\ \A j \in DOMAIN wire : k < j => ~IsEvent(wire[j])

\* An event after position j will bring the record; one that was kept will.
Coming(kind, r, j) ==
    \E k \in DOMAIN wire : j < k /\ wire[k].type = kind /\ wire[k].record = r
Saved(kind, r, answer) ==
    \E e \in Kept : e.type = kind /\ e.record = r /\ Newer(e, answer)
ClearedAfter(j) == \E k \in DOMAIN wire : j < k /\ Cleared(wire[k])
Latest(m) == Snapped(m) /\ m.request.version = version

\* What the copy lacks is coming, and it has nothing else; so has the answer to the
\* latest query, with the events kept for it.
ViewExact(kind, r) ==
    r \in InRange(Stored(kind), range)
        <=> r \in Got(view, kind) \/ (r.day \in range /\ Coming(kind, r, 0))
AnswerExact(kind, r, j) ==
    r \in InRange(Stored(kind), wire[j].request.range)
        <=> \/ r \in Got(wire[j].copy, kind)
            \/ /\ r.day \in wire[j].request.range
               /\ Coming(kind, r, j) \/ Saved(kind, r, wire[j])
CopyInv ==
    /\ loaded => subscribed
    /\ loaded /\ ~ClearedAfter(0) =>
          \A kind \in Kinds, r \in Record : Exact(kind) => ViewExact(kind, r)
    /\ \A j \in DOMAIN wire : Latest(wire[j]) /\ ~ClearedAfter(j) =>
          \A kind \in Kinds, r \in Record : Exact(kind) => AnswerExact(kind, r, j)

\* The last event that will be applied has the total.
UsageAfter(j) == \E k \in DOMAIN wire : j < k /\ wire[k].type = "usage"
Applies(k, answer) == query.events[k].type = "usage" /\ Newer(query.events[k], answer)
AppliesAfter(k, answer) == \E i \in DOMAIN query.events : k < i /\ Applies(i, answer)
AnswerTotal(answer, total) ==
    /\ ~AppliesAfter(0, answer) => answer.copy.total = total
    /\ \A k \in DOMAIN query.events :
          Applies(k, answer) /\ ~AppliesAfter(k, answer) => query.events[k].total = total
TotalInv ==
    "half" \notin past =>
        /\ ~ClearedAfter(0) => \A k \in DOMAIN wire : wire[k].type = "usage" /\ ~UsageAfter(k)
                                  => wire[k].total = Cardinality(records)
        /\ loaded /\ ~ClearedAfter(0) /\ ~UsageAfter(0) => view.total = Cardinality(records)
        /\ \A j \in DOMAIN wire : Latest(wire[j]) /\ ~ClearedAfter(j) /\ ~UsageAfter(j)
                                  => AnswerTotal(wire[j], Cardinality(records))

SyncInv == TypeInv /\ NumbersInv /\ OnceInv /\ VersionsInv /\ ClearInv /\ CopyInv /\ TotalInv

-----------------------------------------------------------------------------
(* Messages and sequences of them.                                         *)

LEMMA MessageTypes ==
    ASSUME NEW m \in Messages
    PROVE  /\ IsEvent(m) => m \in Event
           /\ Snapped(m) => m \in Snapshots /\ ~IsEvent(m)
           /\ Cleared(m) => ~IsEvent(m) /\ ~Snapped(m)
           /\ ~IsEvent(m) => m.request \in Queries \cup Others
           /\ m.type \in Kinds <=> IsEvent(m)
  BY DEF Messages, Event, Snapshots, IsEvent, Snapped, Cleared, Queries, Others, Kinds

LEMMA EventTypes ==
    ASSUME NEW e \in Event
    PROVE  /\ IsEvent(e) /\ e.type \in Kinds /\ e.record \in Record /\ e.total \in Nat
           /\ e.revision \in Int /\ e.record.id \in Int /\ e \in Messages
  BY DEF Event, IsEvent, Record, Messages, Kinds

LEMMA WireTypes ==
    ASSUME TypeInv
    PROVE  /\ DOMAIN wire \subseteq Nat \ {0} /\ DOMAIN wire = 1 .. Len(wire) /\ Len(wire) \in Nat
           /\ \A k \in DOMAIN wire : wire[k] \in Messages
           /\ Events \subseteq Event /\ Kept \subseteq Event
           /\ DOMAIN query.events = 1 .. Len(query.events) /\ Len(query.events) \in Nat
           /\ \A k \in DOMAIN query.events : query.events[k] \in Event
  <1>1. /\ DOMAIN wire = 1 .. Len(wire) /\ Len(wire) \in Nat
        /\ \A k \in DOMAIN wire : wire[k] \in Messages
    BY LenProperties DEF TypeInv
  <1>2. query.events \in Seq(Event)
    BY DEF TypeInv
  <1>3. /\ DOMAIN query.events = 1 .. Len(query.events) /\ Len(query.events) \in Nat
        /\ \A k \in DOMAIN query.events : query.events[k] \in Event
    BY <1>2, LenProperties
  <1>4. Events \subseteq Event
    BY <1>1, MessageTypes DEF Events
  <1>5. QED
    BY <1>1, <1>3, <1>4 DEF Kept

\* What is at a place moves to another: no message but that at k is lost, the order
\* stays.
Without(old, new, k, place) ==
    /\ place \in [DOMAIN new -> DOMAIN old]
    /\ \A j \in DOMAIN new : new[j] = old[place[j]] /\ place[j] # k
    /\ \A i, j \in DOMAIN new : i < j <=> place[i] < place[j]
    /\ \A i, j \in DOMAIN new : place[i] = place[j] => i = j
    /\ \A i \in DOMAIN old : i # k => \E j \in DOMAIN new : place[j] = i

LEMMA Removal ==
    ASSUME NEW S, NEW s \in Seq(S), NEW k \in DOMAIN s, NEW new,
           \/ new = RemoveAt(s, k)
           \/ k = 1 /\ new = Tail(s)
    PROVE  /\ new \in Seq(S)
           /\ \E place : Without(s, new, k, place)
  <1>1. DOMAIN s = 1 .. Len(s) /\ Len(s) \in Nat /\ \A i \in 1 .. Len(s) : s[i] \in S
    BY LenProperties
  <1>2. /\ new \in Seq(S) /\ DOMAIN new = 1 .. (Len(s) - 1)
        /\ \A j \in 1 .. (Len(s) - 1) : new[j] = s[IF j < k THEN j ELSE j + 1]
    <2>1. CASE new = RemoveAt(s, k)
      <3> DEFINE u == SubSeq(s, 1, k - 1)
                 v == SubSeq(s, k + 1, Len(s))
      <3>1. k \in 1 .. Len(s) /\ k \in Nat
        BY <1>1
      <3>2. /\ u \in Seq(S) /\ Len(u) = k - 1
            /\ \A i \in 1 .. (k - 1) : u[i] = s[i]
        <4>1. \A i \in 1 .. (k - 1) : s[i] \in S
          BY <1>1, <3>1
        <4>2. QED BY <1>1, <3>1, <4>1, SubSeqProperties
      <3>3. /\ v \in Seq(S) /\ Len(v) = Len(s) - k
            /\ \A i \in 1 .. (Len(s) - k) : v[i] = s[k + i]
        <4>1. \A i \in (k + 1) .. Len(s) : s[i] \in S
          BY <1>1, <3>1
        <4>2. QED BY <1>1, <3>1, <4>1, SubSeqProperties
      <3> HIDE DEF u, v
      <3>4. new = u \o v
        BY <2>1 DEF RemoveAt, u, v
      <3>5. /\ new \in Seq(S) /\ Len(new) = Len(s) - 1
            /\ \A i \in 1 .. (Len(s) - 1) : new[i] = IF i <= k - 1 THEN u[i] ELSE v[i - (k - 1)]
        <4>1. /\ new \in Seq(S) /\ Len(new) = Len(u) + Len(v)
              /\ \A i \in 1 .. (Len(u) + Len(v)) : new[i] = IF i <= Len(u) THEN u[i] ELSE v[i - Len(u)]
          BY <3>2, <3>3, <3>4, ConcatProperties
        <4>2. Len(u) + Len(v) = Len(s) - 1
          BY <1>1, <3>1, <3>2, <3>3
        <4>3. QED BY <3>2, <4>1, <4>2
      <3>6. DOMAIN new = 1 .. (Len(s) - 1)
        BY <3>5, LenProperties
      <3>7. ASSUME NEW j \in 1 .. (Len(s) - 1)
            PROVE  new[j] = s[IF j < k THEN j ELSE j + 1]
        <4>1. CASE j < k
          <5>1. j \in 1 .. (k - 1)
            BY <1>1, <3>1, <4>1
          <5>2. QED BY <3>2, <3>5, <4>1, <5>1
        <4>2. CASE ~(j < k)
          <5>1. j - (k - 1) \in 1 .. (Len(s) - k) /\ k + (j - (k - 1)) = j + 1 /\ ~(j <= k - 1)
            BY <1>1, <3>1, <4>2
          <5>2. QED BY <3>3, <3>5, <4>2, <5>1
        <4>3. QED BY <4>1, <4>2
      <3>8. QED BY <3>5, <3>6, <3>7
    <2>2. CASE k = 1 /\ new = Tail(s)
      <3>1. s # <<>>
        BY <1>1
      <3>2. /\ new \in Seq(S) /\ Len(new) = Len(s) - 1 /\ DOMAIN new = 1 .. Len(new)
            /\ \A i \in 1 .. Len(new) : new[i] = s[i + 1]
        BY <2>2, <3>1, HeadTailProperties, LenProperties
      <3>3. \A j \in 1 .. (Len(s) - 1) : ~(j < k)
        BY <1>1, <2>2
      <3>4. QED BY <3>2, <3>3
    <2>3. QED BY <2>1, <2>2
  <1> DEFINE place == [j \in DOMAIN new |-> IF j < k THEN j ELSE j + 1]
  <1>3. place \in [DOMAIN new -> DOMAIN s]
    BY <1>1, <1>2
  <1>4. \A j \in DOMAIN new : new[j] = s[place[j]] /\ place[j] # k
    BY <1>1, <1>2
  <1>5. \A i, j \in DOMAIN new : i < j <=> place[i] < place[j]
    BY <1>1, <1>2
  <1>6. \A i, j \in DOMAIN new : place[i] = place[j] => i = j
    BY <1>1, <1>2
  <1>7. \A i \in DOMAIN s : i # k => \E j \in DOMAIN new : place[j] = i
    <2> TAKE i \in DOMAIN s
    <2>1. CASE i < k
      <3>1. i \in DOMAIN new /\ place[i] = i
        BY <1>1, <1>2, <2>1
      <3>2. QED BY <3>1
    <2>2. CASE i > k
      <3>1. i - 1 \in DOMAIN new /\ place[i - 1] = i
        BY <1>1, <1>2, <2>2
      <3>2. QED BY <3>1
    <2>3. QED BY <1>1, <2>1, <2>2
  <1>8. QED
    BY <1>2, <1>3, <1>4, <1>5, <1>6, <1>7 DEF Without

\* New messages come after the old.
Longer(old, new, added) ==
    /\ DOMAIN new = DOMAIN old \cup added
    /\ \A j \in DOMAIN old : new[j] = old[j]
    /\ \A j \in DOMAIN old, p \in added : j < p
    /\ \A p \in added : p \in Nat \ {0} /\ p \notin DOMAIN old

LEMMA Appended ==
    ASSUME NEW S, NEW s \in Seq(S), NEW t \in Seq(S)
    PROVE  /\ s \o t \in Seq(S)
           /\ Longer(s, s \o t, (Len(s) + 1) .. (Len(s) + Len(t)))
           /\ \A i \in 1 .. Len(t) : (s \o t)[Len(s) + i] = t[i]
  <1>1. /\ DOMAIN s = 1 .. Len(s) /\ Len(s) \in Nat /\ Len(t) \in Nat
        /\ s \o t \in Seq(S) /\ Len(s \o t) = Len(s) + Len(t)
        /\ \A i \in 1 .. Len(s) : (s \o t)[i] = s[i]
        /\ \A i \in 1 .. Len(t) : (s \o t)[Len(s) + i] = t[i]
        /\ DOMAIN (s \o t) = 1 .. Len(s \o t)
    BY LenProperties, ConcatProperties
  <1> DEFINE new == s \o t
  <1> HIDE DEF new
  <1>2. QED
    BY <1>1 DEF Longer, new

-----------------------------------------------------------------------------
(* Copies.                                                                 *)

LEMMA AppliedIs ==
    ASSUME NEW copy \in Copies, NEW e \in Event, NEW days
    PROVE  /\ Applied(copy, e, days) \in Copies
           /\ \A kind \in Kinds : \A r : r \in Got(Applied(copy, e, days), kind)
                 <=> r \in Got(copy, kind) \/ (r.day \in days /\ e.type = kind /\ e.record = r)
           /\ Applied(copy, e, days).total = IF e.type = "usage" THEN e.total ELSE copy.total
  <1>1. CASE e.type = "usage"
    BY <1>1 DEF Applied, Copies, Event, Kinds, Got, InRange
  <1>2. CASE e.type = "appUsage"
    BY <1>2 DEF Applied, Copies, Event, Kinds, Got, InRange
  <1>3. QED
    BY <1>1, <1>2 DEF Event

\* A function defined by recursion on 0 .. n exists.
Step(answer, events, f, k) ==
    IF k = 0 THEN answer.copy
    ELSE IF Newer(events[k], answer) THEN Applied(f[k - 1], events[k], answer.request.range)
    ELSE f[k - 1]
Steps(answer, events, f, n) == f = [k \in 0 .. n |-> Step(answer, events, f, k)]

LEMMA NatInduct ==
    ASSUME NEW T, 0 \in T, \A n \in Nat : n \in T => n + 1 \in T
    PROVE  Nat \subseteq T
  <1> SUFFICES ASSUME Nat \ T # {} PROVE FALSE
    OBVIOUS
  <1>1. IsWellFoundedOn(OpToRel(<, Nat), Nat)
    BY NatLessThanWellFounded
  <1>2. PICK n \in Nat \ T : \A m \in Nat \ T : ~ (<<m, n>> \in OpToRel(<, Nat))
    BY <1>1, WFMin
  <1>3. \A m \in Nat \ T : ~ (m < n)
    BY <1>2 DEF OpToRel
  <1>4. n # 0 /\ n - 1 \in Nat /\ n - 1 \notin Nat \ T
    BY <1>3
  <1>5. QED
    BY <1>4

LEMMA StepsExist ==
    ASSUME NEW answer, NEW events
    PROVE  \A n \in Nat : \E f : Steps(answer, events, f, n)
  <1> DEFINE T == {n \in Nat : \E f : Steps(answer, events, f, n)}
  <1>1. 0 \in T
    <2> DEFINE g == [k \in 0 .. 0 |-> answer.copy]
    <2>1. \A k \in 0 .. 0 : k = 0
      OBVIOUS
    <2>2. g = [k \in 0 .. 0 |-> Step(answer, events, g, k)]
      BY <2>1 DEF Step
    <2> HIDE DEF g
    <2>3. QED BY <2>2 DEF Steps
  <1>2. ASSUME NEW n \in Nat, n \in T PROVE n + 1 \in T
    <2>1. PICK f : f = [k \in 0 .. n |-> Step(answer, events, f, k)]
      BY <1>2 DEF Steps
    <2> DEFINE g == [k \in 0 .. (n + 1) |-> IF k <= n THEN f[k] ELSE Step(answer, events, f, k)]
    <2>2. \A k \in 0 .. n : k \in 0 .. (n + 1) /\ k <= n /\ g[k] = f[k]
      OBVIOUS
    <2>3. ASSUME NEW k \in 0 .. (n + 1) PROVE g[k] = Step(answer, events, g, k)
      <3>1. k = 0 \/ (k # 0 /\ k - 1 \in 0 .. n)
        OBVIOUS
      <3>2. k # 0 => g[k - 1] = f[k - 1]
        BY <2>2, <3>1
      <3>3. Step(answer, events, g, k) = Step(answer, events, f, k)
        BY <3>1, <3>2 DEF Step
      <3>4. CASE k <= n
        <4>1. k \in 0 .. n
          BY <3>4
        <4>2. QED BY <2>1, <2>2, <3>3, <4>1
      <3>5. CASE ~(k <= n)
        BY <3>3, <3>5
      <3>6. QED BY <3>4, <3>5
    <2>4. g = [k \in 0 .. (n + 1) |-> Step(answer, events, g, k)]
      <3>1. g = [k \in 0 .. (n + 1) |-> g[k]]
        OBVIOUS
      <3> HIDE DEF g
      <3>2. QED BY <2>3, <3>1
    <2> HIDE DEF g
    <2>5. QED BY <2>4 DEF Steps
  <1> HIDE DEF T
  <1>3. Nat \subseteq T
    BY <1>1, <1>2, NatInduct
  <1>4. QED
    BY <1>3 DEF T

\* The copy that an answer becomes: with the records of the newer events of its
\* days, and the total of the last.
LEMMA RestoredIs ==
    ASSUME NEW answer \in Snapshots, NEW events \in Seq(Event)
    PROVE  LET Fresh(k) == Newer(events[k], answer)
               Usage(k) == events[k].type = "usage" /\ Fresh(k)
               copy == Restored(answer, events)
           IN  /\ copy \in Copies
               /\ \A kind \in Kinds : \A r : r \in Got(copy, kind)
                     <=> \/ r \in Got(answer.copy, kind)
                         \/ /\ r.day \in answer.request.range
                            /\ \E k \in DOMAIN events :
                                  Fresh(k) /\ events[k].type = kind /\ events[k].record = r
               /\ ~(\E k \in DOMAIN events : Usage(k)) => copy.total = answer.copy.total
               /\ \A k \in DOMAIN events :
                     Usage(k) /\ ~(\E i \in DOMAIN events : k < i /\ Usage(i))
                        => copy.total = events[k].total
  <1> DEFINE Fresh(k) == Newer(events[k], answer)
             Usage(k) == events[k].type = "usage" /\ Fresh(k)
             days == answer.request.range
             f == CHOOSE g : Steps(answer, events, g, Len(events))
             Has(n, kind, r) == \E k \in 1 .. n : Fresh(k) /\ events[k].type = kind /\ events[k].record = r
             Right(n, copy) ==
                /\ copy \in Copies
                /\ \A kind \in Kinds : \A r : r \in Got(copy, kind)
                      <=> r \in Got(answer.copy, kind) \/ (r.day \in days /\ Has(n, kind, r))
                /\ ~(\E k \in 1 .. n : Usage(k)) => copy.total = answer.copy.total
                /\ \A k \in 1 .. n : Usage(k) /\ ~(\E i \in 1 .. n : k < i /\ Usage(i))
                      => copy.total = events[k].total
             T == {n \in Nat : n <= Len(events) => Right(n, f[n])}
  <1>1. /\ Len(events) \in Nat /\ DOMAIN events = 1 .. Len(events)
        /\ \A k \in 1 .. Len(events) : events[k] \in Event
    BY LenProperties
  <1>2. Restored(answer, events) = f[Len(events)]
    BY DEF Restored, Steps, Step
  <1>3. f = [k \in 0 .. Len(events) |-> Step(answer, events, f, k)]
    BY <1>1, StepsExist DEF Steps
  <1> HIDE DEF f
  <1>4. f[0] = answer.copy
    BY <1>1, <1>3 DEF Step
  <1>5. ASSUME NEW n \in Nat, n + 1 <= Len(events)
        PROVE  f[n + 1] = IF Fresh(n + 1) THEN Applied(f[n], events[n + 1], days) ELSE f[n]
    <2>1. n + 1 \in 0 .. Len(events) /\ n + 1 # 0 /\ (n + 1) - 1 = n
      BY <1>1, <1>5
    <2>2. QED BY <1>3, <2>1 DEF Step
  <1>6. 0 \in T
    <2>1. answer.copy \in Copies
      BY DEF Snapshots
    <2>2. 1 .. 0 = {}
      OBVIOUS
    <2>3. Right(0, f[0])
      BY <1>4, <2>1, <2>2
    <2>4. QED BY <2>3
  <1>7. ASSUME NEW n \in Nat, n \in T PROVE n + 1 \in T
    <2> SUFFICES ASSUME n + 1 <= Len(events) PROVE Right(n + 1, f[n + 1])
      OBVIOUS
    <2> DEFINE e == events[n + 1]
               old == f[n]
               new == f[n + 1]
    <2>1. Right(n, old)
      BY <1>1, <1>7
    <2>2. e \in Event
      BY <1>1
    <2>3. /\ \A k : k \in 1 .. (n + 1) <=> k \in 1 .. n \/ k = n + 1
          /\ \A k \in 1 .. n : k < n + 1
      OBVIOUS
    <2>4. CASE Fresh(n + 1)
      <3>1. /\ new \in Copies
            /\ \A kind \in Kinds : \A r : r \in Got(new, kind)
                  <=> r \in Got(old, kind) \/ (r.day \in days /\ e.type = kind /\ e.record = r)
            /\ new.total = IF e.type = "usage" THEN e.total ELSE old.total
        BY <1>5, <2>1, <2>2, <2>4, AppliedIs
      <3> HIDE DEF old, new
      <3>2. \A kind \in Kinds : \A r : Has(n + 1, kind, r)
               <=> Has(n, kind, r) \/ (e.type = kind /\ e.record = r)
        BY <2>3, <2>4
      <3>3. \A kind \in Kinds : \A r : r \in Got(new, kind)
               <=> r \in Got(answer.copy, kind) \/ (r.day \in days /\ Has(n + 1, kind, r))
        <4> HIDE DEF Has
        <4> QED BY <2>1, <3>1, <3>2
      <3>4. CASE e.type = "usage"
        <4>1. Usage(n + 1) /\ new.total = e.total
          BY <2>4, <3>1, <3>4
        <4>2. \A k \in 1 .. n : \E i \in 1 .. (n + 1) : k < i /\ Usage(i)
          BY <2>3, <4>1
        <4>3. QED BY <2>3, <3>1, <3>3, <4>1, <4>2 DEF new
      <3>5. CASE e.type # "usage"
        <4>1. ~Usage(n + 1) /\ new.total = old.total
          BY <3>1, <3>5
        <4>2. /\ ~(\E k \in 1 .. (n + 1) : Usage(k)) => new.total = answer.copy.total
              /\ \A k \in 1 .. (n + 1) : Usage(k) /\ ~(\E i \in 1 .. (n + 1) : k < i /\ Usage(i))
                      => new.total = events[k].total
          BY <2>1, <2>3, <4>1
        <4>3. QED BY <3>1, <3>3, <4>2 DEF new
      <3>6. QED BY <3>4, <3>5
    <2>5. CASE ~Fresh(n + 1)
      <3>1. new = old
        BY <1>5, <2>5
      <3> HIDE DEF old, new
      <3>2. /\ \A kind, r : Has(n + 1, kind, r) <=> Has(n, kind, r)
            /\ ~Usage(n + 1)
        BY <2>3, <2>5
      <3>3. \A kind \in Kinds : \A r : r \in Got(new, kind)
               <=> r \in Got(answer.copy, kind) \/ (r.day \in days /\ Has(n + 1, kind, r))
        <4> HIDE DEF Has
        <4> QED BY <2>1, <3>1, <3>2
      <3>4. /\ ~(\E k \in 1 .. (n + 1) : Usage(k)) => new.total = answer.copy.total
            /\ \A k \in 1 .. (n + 1) : Usage(k) /\ ~(\E i \in 1 .. (n + 1) : k < i /\ Usage(i))
                      => new.total = events[k].total
        BY <2>1, <2>3, <3>1, <3>2
      <3>5. QED BY <2>1, <3>1, <3>3, <3>4 DEF new
    <2>6. QED BY <2>4, <2>5
  <1> HIDE DEF T
  <1>8. Nat \subseteq T
    BY <1>6, <1>7, NatInduct
  <1>9. Right(Len(events), f[Len(events)])
    BY <1>1, <1>8 DEF T
  <1>10. QED
    BY <1>1, <1>2, <1>9

-----------------------------------------------------------------------------
(* What the backend's steps do.                                            *)

LEMMA appEventsAre ==
    ASSUME NEW batch, batch = {} \/ (\E r \in Record : batch = {r}),
           batch # {} => revision' \in 1 .. MaxRounds
    PROVE  /\ appEvents(batch) \in Seq(Event)
           /\ batch = {} => Len(appEvents(batch)) = 0
           /\ batch # {} => Len(appEvents(batch)) = 1
           /\ \A i \in 1 .. Len(appEvents(batch)) :
                 appEvents(batch)[i] \in {[type |-> "appUsage", revision |-> revision', record |-> r,
                                           total |-> 0] : r \in batch}
  <1> DEFINE S == {[type |-> "appUsage", revision |-> revision', record |-> r, total |-> 0] : r \in batch}
             F == {f \in [1 .. Cardinality(S) -> S] : IsInjective(f)}
             t == appEvents(batch)
  <1>1. t = CHOOSE f \in [1 .. Cardinality(S) -> S] : IsInjective(f)
    BY DEF appEvents, SetToSeq
  <1>2. S \subseteq Event
    BY DEF Event
  <1>3. CASE batch = {}
    <2>1. S = {} /\ Cardinality(S) = 0
      BY <1>3, FS_EmptySet
    <2>2. [i \in 1 .. 0 |-> <<>>] \in [1 .. 0 -> S] /\ IsInjective([i \in 1 .. 0 |-> <<>>])
      BY DEF IsInjective
    <2> HIDE DEF S
    <2>3. t \in [1 .. 0 -> S]
      BY <1>1, <2>1, <2>2
    <2> HIDE DEF t
    <2>4. t \in Seq(Event) /\ Len(t) = 0
      BY <1>2, <2>3
    <2>5. QED BY <1>3, <2>4 DEF t
  <1>4. CASE batch # {}
    <2>1. PICK r \in Record : batch = {r}
      BY <1>4
    <2> DEFINE e == [type |-> "appUsage", revision |-> revision', record |-> r, total |-> 0]
    <2>2. S = {e}
      BY <2>1
    <2> HIDE DEF S, e
    <2>3. Cardinality(S) = 1
      BY <2>2, FS_Singleton
    <2>4. [i \in 1 .. 1 |-> e] \in [1 .. 1 -> S] /\ IsInjective([i \in 1 .. 1 |-> e])
      BY <2>2 DEF IsInjective
    <2>5. t \in [1 .. 1 -> S]
      <3>1. t = CHOOSE f \in [1 .. 1 -> S] : IsInjective(f)
        BY <1>1, <2>3
      <3>2. QED BY <2>4, <3>1
    <2> HIDE DEF t
    <2>6. t[1] = e /\ e \in Event
      BY <1>2, <2>2, <2>5
    <2>7. t = [i \in 1 .. 1 |-> t[i]]
      BY <2>5
    <2>8. t \in Seq(Event)
      <3>1. \A i \in 1 .. 1 : t[i] \in Event
        BY <2>6
      <3>2. [i \in 1 .. 1 |-> t[i]] \in Seq(Event)
        BY <3>1, IsASeq
      <3>3. QED BY <2>7, <3>2
    <2>9. Len(t) = 1
      <3>1. DOMAIN t = 1 .. 1 /\ DOMAIN t = 1 .. Len(t) /\ Len(t) \in Nat
        BY <2>5, <2>8, LenProperties
      <3>2. QED BY <3>1
    <2>10. \A i \in 1 .. Len(t) : t[i] \in S
      BY <2>2, <2>6, <2>9
    <2>11. QED BY <1>4, <2>8, <2>9, <2>10 DEF t, S
  <1>5. QED
    BY <1>3, <1>4

\* The messages added to the wire.
Written(added) == wire' \in Seq(Messages) /\ Longer(wire, wire', added)

LEMMA WrittenIs ==
    ASSUME TypeInv, NEW t \in Seq(Messages), wire' = wire \o t
    PROVE  /\ Written((Len(wire) + 1) .. (Len(wire) + Len(t)))
           /\ \A i \in 1 .. Len(t) : wire'[Len(wire) + i] = t[i]
  BY Appended DEF TypeInv, Written

\* A round stores r, and the batch of applications if it commits one.
Collected(r, batch, added) ==
    /\ revision' = revision + 1 /\ revision' \in 1 .. MaxRounds
    /\ r \in Record /\ r.id = revision'
    /\ records' = records \cup {r} /\ apps' = apps \cup batch
    /\ batch = {} \/ (batch = {r} /\ deferred = {}) \/ batch = deferred
    /\ deferred' = {} \/ (batch = {} /\ deferred' = {r}) \/ (batch = {} /\ deferred' = deferred)
    /\ Written(added)
    /\ \A p \in added :
          /\ wire'[p] \in Event /\ wire'[p].revision = revision'
          /\ wire'[p].type = "usage" => wire'[p].record = r /\ wire'[p].total = Cardinality(records')
          /\ wire'[p].type = "appUsage" => wire'[p].record \in batch
    /\ \A p, q \in added : p # q => wire'[p].type # wire'[q].type
    /\ \E p \in added : wire'[p].type = "usage"
    /\ \A x \in batch : \E p \in added : wire'[p].type = "appUsage" /\ wire'[p].record = x
    /\ running
    /\ UNCHANGED <<running, inbox, view, range, subscribed, loaded, version, query, requests, past, doubled>>

LEMMA CollectOnceIs ==
    ASSUME TypeInv, NEW day \in Days, CollectOnce(day)
    PROVE  \E r, batch, added : Collected(r, batch, added)
  <1> DEFINE r == [id |-> revision + 1, day |-> day]
             u == [type |-> "usage", revision |-> revision', record |-> r, total |-> Cardinality(records')]
  <1>1. /\ running /\ revision < MaxRounds /\ revision' = revision + 1 /\ records' = records \cup {r}
        /\ UNCHANGED <<running, inbox, view, range, subscribed, loaded, version, query, requests, past, doubled>>
    BY DEF CollectOnce, pageVars
  <1>2. r \in Record /\ revision' \in 1 .. MaxRounds /\ r.id = revision'
    BY <1>1, BoundsAssumption DEF TypeInv, Record
  <1>3. Cardinality(records') \in Nat
    BY <1>1, FS_AddElement, FS_CardinalityType DEF TypeInv
  <1>4. u \in Event /\ Event \subseteq Messages
    BY <1>2, <1>3 DEF Event, Messages
  <1>5. PICK batch \in IF deferred = {} THEN {{}, {r}} ELSE {deferred} :
              \/ /\ apps' = apps \cup batch
                 /\ deferred' = {}
                 /\ wire' = wire \o appEvents(batch) \o <<u>>
              \/ /\ UNCHANGED apps
                 /\ deferred' = batch
                 /\ wire' = Append(wire, u)
    BY DEF CollectOnce, usageEvent
  <1>6. batch = {} \/ (batch = {r} /\ deferred = {}) \/ batch = deferred
    BY <1>5
  <1>7. batch = {} \/ (\E x \in Record : batch = {x})
    BY <1>2, <1>6 DEF TypeInv
  <1> DEFINE t == appEvents(batch)
  <1>8. /\ t \in Seq(Event) /\ t \in Seq(Messages)
        /\ batch = {} => Len(t) = 0
        /\ batch # {} => Len(t) = 1
        /\ \A i \in 1 .. Len(t) : t[i] \in {[type |-> "appUsage", revision |-> revision', record |-> x,
                                             total |-> 0] : x \in batch}
    BY <1>2, <1>4, <1>7, appEventsAre
  <1> HIDE DEF r, u, t
  <1>9. u.type = "usage" /\ u.revision = revision' /\ u.record = r /\ u.total = Cardinality(records')
    BY DEF u
  <1>10. <<u>> \in Seq(Messages) /\ Len(<<u>>) = 1 /\ <<u>>[1] = u
    BY <1>4
  <1>11. wire \in Seq(Messages) /\ Len(wire) \in Nat
    BY LenProperties DEF TypeInv
  <1>12. CASE /\ UNCHANGED apps
              /\ deferred' = batch
              /\ wire' = Append(wire, u)
    <2>1. wire' = wire \o <<u>>
      BY <1>4, <1>11, <1>12, AppendIsConcat
    <2> DEFINE p == Len(wire) + 1
    <2>2. Written({p}) /\ wire'[p] = u
      <3>1. (Len(wire) + 1) .. (Len(wire) + 1) = {p}
        BY <1>11
      <3>2. /\ Written((Len(wire) + 1) .. (Len(wire) + Len(<<u>>)))
            /\ \A i \in 1 .. Len(<<u>>) : wire'[Len(wire) + i] = <<u>>[i]
        BY <1>10, <2>1, WrittenIs
      <3>3. 1 \in 1 .. Len(<<u>>)
        BY <1>10
      <3>4. wire'[Len(wire) + 1] = u
        BY <1>10, <3>2, <3>3
      <3>5. QED BY <1>10, <3>1, <3>2, <3>4
    <2> HIDE DEF p
    <2>3. Collected(r, {}, {p})
      BY <1>1, <1>2, <1>4, <1>6, <1>9, <1>12, <2>2 DEF Collected, r
    <2>4. QED BY <2>3
  <1>13. CASE /\ apps' = apps \cup batch
              /\ deferred' = {}
              /\ wire' = wire \o t \o <<u>>
    <2>1. /\ t \o <<u>> \in Seq(Messages) /\ Len(t \o <<u>>) = Len(t) + 1
          /\ (t \o <<u>>)[Len(t) + 1] = u
          /\ \A i \in 1 .. Len(t) : (t \o <<u>>)[i] = t[i]
      BY <1>8, <1>10, ConcatProperties, LenProperties
    <2>2. wire' = wire \o (t \o <<u>>)
      BY <1>8, <1>10, <1>11, <1>13, ConcatAssociative
    <2> DEFINE s == t \o <<u>>
    <2> HIDE DEF s
    <2>3. s \in Seq(Messages) /\ Len(s) = Len(t) + 1 /\ s[Len(t) + 1] = u /\ wire' = wire \o s
      BY <2>1, <2>2 DEF s
    <2>4. /\ Written((Len(wire) + 1) .. (Len(wire) + Len(s)))
          /\ \A i \in 1 .. Len(s) : wire'[Len(wire) + i] = s[i]
      BY <2>3, WrittenIs
    <2>5. CASE batch = {}
      <3> DEFINE p == Len(wire) + 1
      <3>1. Len(s) = 1 /\ s[1] = u
        BY <1>8, <2>3, <2>5
      <3>2. Written({p}) /\ wire'[p] = u
        <4>1. (Len(wire) + 1) .. (Len(wire) + 1) = {p} /\ 1 \in 1 .. 1
          BY <1>11
        <4>2. wire'[Len(wire) + 1] = s[1]
          BY <2>4, <3>1, <4>1
        <4>3. QED BY <2>4, <3>1, <4>1, <4>2
      <3> HIDE DEF p
      <3>3. Collected(r, {}, {p})
        BY <1>1, <1>2, <1>4, <1>9, <1>13, <2>5, <3>2 DEF Collected, r
      <3>4. QED BY <3>3
    <2>6. CASE batch # {}
      <3> DEFINE p == Len(wire) + 1
                 q == Len(wire) + 2
      <3>1. Len(t) = 1 /\ Len(s) = 2 /\ s[2] = u
        <4>1. Len(t) = 1
          BY <1>8, <2>6
        <4>2. Len(s) = 1 + 1 /\ s[1 + 1] = u
          BY <2>3, <4>1
        <4>3. QED BY <4>1, <4>2
      <3>2. PICK x \in batch : t[1] = [type |-> "appUsage", revision |-> revision', record |-> x, total |-> 0]
        <4>1. 1 \in 1 .. Len(t)
          BY <3>1
        <4>2. QED BY <1>8, <4>1
      <3>3. s[1] = t[1]
        <4>1. 1 \in 1 .. Len(t)
          BY <3>1
        <4>2. QED BY <2>1, <4>1 DEF s
      <3>4. Written({p, q}) /\ wire'[p] = t[1] /\ wire'[q] = u /\ p # q
        <4>1. (Len(wire) + 1) .. (Len(wire) + 2) = {p, q} /\ p # q /\ 1 \in 1 .. 2 /\ 2 \in 1 .. 2
          BY <1>11
        <4>2. wire'[Len(wire) + 1] = s[1] /\ wire'[Len(wire) + 2] = s[2]
          BY <2>4, <3>1, <4>1
        <4>3. QED BY <2>4, <3>1, <3>3, <4>1, <4>2
      <3> HIDE DEF p, q
      <3>5. /\ t[1] \in Event /\ t[1].type = "appUsage" /\ t[1].revision = revision' /\ t[1].record = x
            /\ batch = {x}
        <4>1. t[1] \in Event
          BY <1>8, <3>1, ElementOfSeq
        <4>2. QED BY <1>7, <3>2, <4>1
      <3>6. Collected(r, batch, {p, q})
        BY <1>1, <1>2, <1>4, <1>6, <1>9, <1>13, <3>4, <3>5 DEF Collected, r
      <3>7. QED BY <3>6
    <2>7. QED BY <2>5, <2>6
  <1>14. QED
    BY <1>5, <1>12, <1>13 DEF t

\* A message is appended, and others after it.
LEMMA Appends ==
    ASSUME TypeInv, NEW m \in Messages, NEW t \in Seq(Messages),
           \/ wire' = Append(wire, m) /\ t = <<>>
           \/ wire' = Append(wire, m) \o t
    PROVE  \E a, late :
              /\ Written({a} \cup late) /\ wire'[a] = m
              /\ \A p \in late : a < p /\ \E i \in 1 .. Len(t) : wire'[p] = t[i]
              /\ Len(t) <= 1 => \A p, q \in late : p = q
              /\ Len(t) = 0 => late = {}
  <1> DEFINE s == <<m>> \o t
             n == Len(wire)
             a == n + 1
             late == (n + 2) .. (n + 1 + Len(t))
  <1>1. wire \in Seq(Messages) /\ n \in Nat /\ Len(t) \in Nat /\ <<m>> \in Seq(Messages)
    BY LenProperties DEF TypeInv
  <1>2. Append(wire, m) = wire \o <<m>>
    BY <1>1, AppendIsConcat
  <1>3. wire' = wire \o s
    <2>1. CASE wire' = Append(wire, m) /\ t = <<>>
      <3>1. s = <<m>>
        BY <1>1, <2>1, ConcatEmptySeq
      <3>2. QED BY <1>2, <2>1, <3>1
    <2>2. CASE wire' = Append(wire, m) \o t
      BY <1>1, <1>2, <2>2, ConcatAssociative
    <2>3. QED BY <2>1, <2>2
  <1>4. s \in Seq(Messages) /\ Len(s) = Len(t) + 1
    <2>1. s \in Seq(Messages) /\ Len(s) = Len(<<m>>) + Len(t)
      BY <1>1, ConcatProperties
    <2>2. Len(<<m>>) = 1
      OBVIOUS
    <2> HIDE DEF s
    <2>3. QED BY <1>1, <2>1, <2>2
  <1>5. s[1] = m /\ \A i \in 1 .. Len(t) : s[i + 1] = t[i]
    <2>1. \A i \in 1 .. 1 + Len(t) : s[i] = IF i <= 1 THEN <<m>>[i] ELSE t[i - 1]
      <3>1. Len(<<m>>) = 1
        OBVIOUS
      <3>2. \A i \in 1 .. Len(<<m>>) + Len(t) : s[i] = IF i <= Len(<<m>>) THEN <<m>>[i] ELSE t[i - Len(<<m>>)]
        BY <1>1, ConcatProperties
      <3>3. QED BY <3>1, <3>2
    <2> HIDE DEF s
    <2>2. s[1] = <<m>>[1]
      BY <1>1, <2>1
    <2>3. ASSUME NEW i \in 1 .. Len(t) PROVE s[i + 1] = t[i]
      <3>1. i + 1 \in 1 .. 1 + Len(t) /\ ~(i + 1 <= 1) /\ (i + 1) - 1 = i
        BY <1>1
      <3>2. QED BY <2>1, <3>1
    <2>4. QED BY <2>2, <2>3
  <1> HIDE DEF s
  <1>6. /\ Written((n + 1) .. (n + Len(s)))
        /\ \A i \in 1 .. Len(s) : wire'[n + i] = s[i]
    BY <1>3, <1>4, WrittenIs
  <1> HIDE DEF n
  <1>7. Written({a} \cup late)
    <2>1. (n + 1) .. (n + Len(s)) = {a} \cup late
      BY <1>1, <1>4
    <2>2. QED BY <1>6, <2>1
  <1>8. wire'[a] = m
    <2>1. 1 \in 1 .. Len(s)
      BY <1>1, <1>4
    <2>2. wire'[n + 1] = s[1]
      BY <1>6, <2>1
    <2>3. QED BY <1>5, <2>2
  <1>9. ASSUME NEW p \in late
        PROVE  a < p /\ \E i \in 1 .. Len(t) : wire'[p] = t[i]
    <2> DEFINE i == p - (n + 1)
    <2>1. a < p /\ i \in 1 .. Len(t) /\ i + 1 \in 1 .. Len(s) /\ n + (i + 1) = p
      BY <1>1, <1>4
    <2> HIDE DEF i
    <2>2. wire'[p] = s[i + 1] /\ s[i + 1] = t[i]
      BY <1>5, <1>6, <2>1
    <2>3. QED BY <2>1, <2>2
  <1>10. /\ Len(t) <= 1 => \A p, q \in late : p = q
         /\ Len(t) = 0 => late = {}
    BY <1>1
  <1> HIDE DEF a, late
  <1>11. QED
    BY <1>7, <1>8, <1>9, <1>10

\* The first request is handled: a message about it is written, and the events of
\* what it committed after it.
Answers(request, message) ==
    /\ UNCHANGED <<running, records, apps, deferred, past>>
    /\ \/ message.type = "failure"
       \/ /\ request.method = "snapshot" /\ message.type = "answer"
          /\ message.revision = revision
          /\ message.copy.records = InRange(records, request.range)
          /\ message.copy.apps = InRange(apps, request.range)
          /\ message.copy.total = Cardinality(records)
Pauses(request, message) ==
    /\ message.type = "answer" /\ request.method = "setPaused"
    /\ running' \in BOOLEAN /\ records' = records /\ apps' = apps \cup deferred /\ deferred' = {}
    /\ IF deferred = {} THEN past' = past ELSE past' = past \cup {"late"}
Clears(request, message) ==
    /\ records' = {} /\ apps' = {} /\ deferred' = {} /\ request.method = "clearUsage"
    /\ \/ running' = FALSE /\ message.type = "answer" /\ past' = past
       \/ running' = running /\ message.type = "failure" /\ past' = past \cup {"half"}
Handled(request, a, late) ==
    /\ inbox # <<>> /\ request = inbox[1] /\ request \in Queries \cup Others
    /\ inbox' \in Seq(Queries \cup Others) /\ \E place : Without(inbox, inbox', 1, place)
    /\ Written({a} \cup late) /\ \A p \in late : a < p
    /\ wire'[a].type \in {"answer", "failure"} /\ wire'[a].request = request
    /\ \A p \in late : /\ wire'[p] \in Event /\ wire'[p].type = "appUsage"
                       /\ wire'[p].revision = revision /\ wire'[p].record \in deferred
    /\ \A p, q \in late : p = q
    /\ UNCHANGED <<revision, view, range, subscribed, loaded, version, query, requests, doubled>>
    /\ \/ Answers(request, wire'[a]) /\ late = {}
       \/ Pauses(request, wire'[a])
       \/ Clears(request, wire'[a]) /\ late = {}

LEMMA HandleIs ==
    ASSUME TypeInv, RecordsNumbered, Handle
    PROVE  \E request, a, late : Handled(request, a, late)
  <1> DEFINE request == Head(inbox)
  <1>1. inbox # <<>> /\ inbox' = Tail(inbox) /\ inbox \in Seq(Queries \cup Others)
        /\ UNCHANGED <<view, range, subscribed, loaded, version, query, requests, doubled>>
    BY DEF Handle, TypeInv, pageVars
  <1>2. request = inbox[1] /\ request \in Queries \cup Others /\ 1 \in DOMAIN inbox
    <2>1. Len(inbox) # 0
      BY <1>1
    <2>2. DOMAIN inbox = 1 .. Len(inbox) /\ Len(inbox) \in Nat
      BY <1>1, LenProperties
    <2>3. 1 \in DOMAIN inbox
      BY <2>1, <2>2
    <2>4. QED BY <1>1, <2>2, <2>3, ElementOfSeq
  <1>3. inbox' \in Seq(Queries \cup Others) /\ \E place : Without(inbox, inbox', 1, place)
    BY <1>1, <1>2, Removal
  <1>4. /\ request.method = "snapshot" => request \in Queries
        /\ request.method # "snapshot" => request \in Others
    BY <1>2 DEF Queries, Others
  <1>5. Failure(request) \in Messages
    BY <1>2 DEF Failure, Messages
  <1>6. request.method \in {"snapshot", "setPaused", "clearUsage"}
    BY <1>2 DEF Queries, Others
  <1>7. <<>> \in Seq(Messages) /\ Len(<<>>) = 0
    OBVIOUS
  <1>8. ASSUME NEW m \in Messages, wire' = Append(wire, m), m.type \in {"answer", "failure"},
               m.request = request, revision' = revision,
               Answers(request, m) \/ Pauses(request, m) \/ Clears(request, m)
        PROVE  \E a : Handled(request, a, {})
    <2>1. PICK a, late : Written({a} \cup late) /\ wire'[a] = m /\ late = {}
      BY <1>7, <1>8, Appends
    <2>2. Written({a} \cup {})
      BY <2>1
    <2>3. Handled(request, a, {})
      BY <1>1, <1>2, <1>3, <1>8, <2>1, <2>2 DEF Handled
    <2>4. QED BY <2>3
  <1> HIDE DEF request
  <1>9. CASE request.method = "snapshot"
    <2>1. Snapshot(request)
      BY <1>9 DEF Handle, request
    <2>2. UNCHANGED <<running, records, apps, deferred, past>> /\ revision' = revision
      BY <2>1 DEF Snapshot, backendVars
    <2> DEFINE m == [type |-> "answer", request |-> request, revision |-> revision,
                     copy |-> [records |-> InRange(records, request.range),
                               apps    |-> InRange(apps, request.range),
                               total   |-> Cardinality(records)]]
    <2>3. m \in Messages
      <3>1. Cardinality(records) \in Nat
        BY FS_CardinalityType DEF TypeInv
      <3>2. m.copy \in Copies
        BY <3>1 DEF TypeInv, Copies, InRange
      <3>3. m \in Snapshots
        BY <1>4, <1>9, <3>2 DEF Snapshots, TypeInv
      <3>4. QED BY <3>3 DEF Messages
    <2>4. CASE wire' = Append(wire, m)
      <3>1. Answers(request, m)
        BY <1>9, <2>2 DEF Answers
      <3>2. QED BY <1>8, <2>2, <2>3, <2>4, <3>1
    <2>5. CASE wire' = Append(wire, Failure(request))
      <3>1. Answers(request, Failure(request)) /\ Failure(request).type = "failure" /\ Failure(request).request = request
        BY <2>2 DEF Answers, Failure
      <3>2. QED BY <1>5, <1>8, <2>2, <2>5, <3>1
    <2>6. QED BY <2>1, <2>4, <2>5 DEF Snapshot
  <1>10. CASE request.method = "setPaused"
    <2>1. SetPaused(request) /\ request \in Others
      BY <1>4, <1>10 DEF Handle, request
    <2>2. Answer(request) \in Messages /\ Answer(request).type = "answer" /\ Answer(request).request = request
      BY <2>1 DEF Answer, Messages
    <2>3. CASE /\ running' = ~request.paused
               /\ apps' = apps \cup deferred
               /\ deferred' = {}
               /\ past' = IF deferred = {} THEN past ELSE past \cup {"late"}
               /\ UNCHANGED <<revision, records>>
               /\ wire' = Append(wire, Answer(request)) \o appEvents(deferred)
      <3> DEFINE t == appEvents(deferred)
      <3>1. deferred # {} => revision' \in 1 .. MaxRounds
        <4>1. \A r \in Record : r.id \in Nat \ {0}
          BY DEF Record
        <4>2. ASSUME NEW r \in deferred PROVE revision \in 1 .. MaxRounds
          <5>1. r.id <= revision /\ r.id \in Nat \ {0} /\ revision \in 0 .. MaxRounds
            BY <4>1 DEF RecordsNumbered, TypeInv
          <5>2. QED BY <5>1, BoundsAssumption
        <4>3. QED BY <2>3, <4>2
      <3>2. deferred = {} \/ (\E r \in Record : deferred = {r})
        BY DEF TypeInv
      <3>3. /\ t \in Seq(Event)
            /\ deferred = {} => Len(t) = 0
            /\ deferred # {} => Len(t) = 1
            /\ \A i \in 1 .. Len(t) : t[i] \in {[type |-> "appUsage", revision |-> revision', record |-> x,
                                                 total |-> 0] : x \in deferred}
        BY <3>1, <3>2, appEventsAre
      <3> HIDE DEF t
      <3>4. t \in Seq(Messages)
        <4>1. Event \subseteq Messages
          BY DEF Messages
        <4>2. QED BY <3>3, <4>1, SeqMonotonic
      <3>5. wire' = Append(wire, Answer(request)) \o t
        BY <2>3 DEF t
      <3>6. PICK a, late :
              /\ Written({a} \cup late) /\ wire'[a] = Answer(request)
              /\ \A p \in late : a < p /\ \E i \in 1 .. Len(t) : wire'[p] = t[i]
              /\ Len(t) <= 1 => \A p, q \in late : p = q
        BY <2>2, <3>4, <3>5, Appends
      <3>7. Len(t) <= 1
        BY <3>3
      <3>8. ASSUME NEW p \in late
            PROVE  /\ wire'[p] \in Event /\ wire'[p].type = "appUsage"
                   /\ wire'[p].revision = revision /\ wire'[p].record \in deferred
        <4>1. PICK i \in 1 .. Len(t) : wire'[p] = t[i]
          BY <3>6
        <4>2. PICK x \in deferred : t[i] = [type |-> "appUsage", revision |-> revision', record |-> x, total |-> 0]
          BY <3>3
        <4>3. t[i] \in Event
          BY <3>3, ElementOfSeq
        <4>4. QED BY <2>3, <4>1, <4>2, <4>3
      <3>9. Pauses(request, wire'[a])
        <4>1. running' \in BOOLEAN
          BY <2>3
        <4>2. QED BY <1>10, <2>2, <2>3, <3>6, <4>1 DEF Pauses
      <3>10. Handled(request, a, late)
        BY <1>1, <1>2, <1>3, <2>2, <2>3, <3>6, <3>7, <3>8, <3>9 DEF Handled, request
      <3>11. QED BY <3>10
    <2>4. CASE wire' = Append(wire, Failure(request)) /\ UNCHANGED <<backendVars, past>>
      <3>1. Answers(request, Failure(request)) /\ Failure(request).type = "failure" /\ Failure(request).request = request
        BY <2>4 DEF Answers, Failure, backendVars
      <3>2. revision' = revision
        BY <2>4 DEF backendVars
      <3>3. QED BY <1>5, <1>8, <2>4, <3>1, <3>2
    <2>5. QED BY <2>1, <2>3, <2>4 DEF SetPaused
  <1>11. CASE request.method = "clearUsage"
    <2>1. ClearUsage(request) /\ request \in Others
      BY <1>4, <1>11 DEF Handle, request
    <2>2. /\ Answer(request) \in Messages /\ Answer(request).type = "answer" /\ Answer(request).request = request
          /\ Failure(request).type = "failure" /\ Failure(request).request = request
      BY <2>1 DEF Answer, Failure, Messages
    <2>3. CASE wire' = Append(wire, Failure(request)) /\ UNCHANGED <<backendVars, past>>
      <3>1. Answers(request, Failure(request)) /\ revision' = revision
        BY <2>2, <2>3 DEF Answers, backendVars
      <3>2. QED BY <1>5, <1>8, <2>2, <2>3, <3>1
    <2>4. CASE /\ records' = {} /\ apps' = {} /\ deferred' = {} /\ revision' = revision
               /\ running' = FALSE /\ wire' = Append(wire, Answer(request)) /\ past' = past
      <3>1. Clears(request, Answer(request))
        BY <1>11, <2>2, <2>4 DEF Clears
      <3>2. QED BY <1>8, <2>2, <2>4, <3>1
    <2>5. CASE /\ records' = {} /\ apps' = {} /\ deferred' = {} /\ revision' = revision
               /\ running' = running /\ wire' = Append(wire, Failure(request)) /\ past' = past \cup {"half"}
      <3>1. Clears(request, Failure(request))
        BY <1>11, <2>2, <2>5 DEF Clears
      <3>2. QED BY <1>5, <1>8, <2>2, <2>5, <3>1
    <2>6. QED BY <2>1, <2>3, <2>4, <2>5 DEF ClearUsage
  <1>12. QED
    BY <1>6, <1>9, <1>10, <1>11

-----------------------------------------------------------------------------
(* A round.                                                                *)

LEMMA CollectKeeps ==
    ASSUME SyncInv, NEW r, NEW batch, NEW added, Collected(r, batch, added)
    PROVE  SyncInv'
  <1>1. /\ TypeInv /\ RecordsNumbered /\ EventsNumbered /\ SnapshotsNumbered
        /\ EventsDistinct /\ SnapshotsDistinct /\ VersionsInv /\ ClearInv /\ CopyInv /\ TotalInv
    BY DEF SyncInv, NumbersInv, OnceInv
  <1>2. /\ revision' = revision + 1 /\ revision' \in 1 .. MaxRounds /\ revision \in Nat
        /\ r \in Record /\ r.id = revision'
        /\ records' = records \cup {r} /\ apps' = apps \cup batch
        /\ batch = {} \/ (batch = {r} /\ deferred = {}) \/ batch = deferred
        /\ deferred' = {} \/ (batch = {} /\ deferred' = {r}) \/ (batch = {} /\ deferred' = deferred)
        /\ running
        /\ UNCHANGED <<running, inbox, view, range, subscribed, loaded, version, query, requests, past, doubled>>
    BY <1>1 DEF Collected, TypeInv
  <1>3. /\ wire' \in Seq(Messages) /\ DOMAIN wire' = DOMAIN wire \cup added
        /\ \A j \in DOMAIN wire : wire'[j] = wire[j] /\ j \notin added
        /\ \A j \in DOMAIN wire, p \in added : j < p /\ ~(p < j)
        /\ \A p \in added : p \in Nat \ {0}
        /\ \A j \in DOMAIN wire : j \in Nat \ {0}
    BY <1>1, WireTypes DEF Collected, Written, Longer
  <1>4. /\ \A p \in added :
             /\ wire'[p] \in Event /\ wire'[p].revision = revision'
             /\ wire'[p].type = "usage" => wire'[p].record = r /\ wire'[p].total = Cardinality(records')
             /\ wire'[p].type = "appUsage" => wire'[p].record \in batch
        /\ \A p, q \in added : p # q => wire'[p].type # wire'[q].type
        /\ \E p \in added : wire'[p].type = "usage"
        /\ \A x \in batch : \E p \in added : wire'[p].type = "appUsage" /\ wire'[p].record = x
    BY DEF Collected
  <1>5. /\ \A p \in added : IsEvent(wire'[p]) /\ ~Snapped(wire'[p]) /\ ~Cleared(wire'[p]) /\ ~OfQuery(wire'[p])
        /\ \A p \in added : wire'[p].type \in Kinds
        /\ \A j \in DOMAIN wire : wire[j] \in Messages
    BY <1>1, <1>4, EventTypes, WireTypes DEF Snapped, Cleared, OfQuery, IsEvent
  <1>6. \A e : e \in Events' <=> e \in Events \/ \E p \in added : e = wire'[p]
    BY <1>3, <1>5 DEF Events
  <1>7. Kept' = Kept /\ Events \subseteq Event /\ Kept \subseteq Event /\ Events' \subseteq Event
    BY <1>1, <1>2, <1>4, <1>6, WireTypes DEF Kept
  <1>8. \A k \in DOMAIN wire : ~Cleared(wire[k])
    BY <1>1, <1>2 DEF ClearInv
  <1>9. \A j : ~ClearedAfter(j) /\ ~ClearedAfter(j)'
    BY <1>3, <1>5, <1>8 DEF ClearedAfter
  <1>10. /\ \A x \in records \cup apps \cup deferred \cup view.records \cup view.apps : x.id <= revision
         /\ deferred \cap (apps \cup view.apps) = {}
    BY <1>1 DEF RecordsNumbered
  <1>11. \A x \in Record : x.id \in Int
    BY DEF Record
  <1>12. \A x \in deferred' : x \in deferred \/ x.id = revision'
    BY <1>2
  <1>13. TypeInv'
    <2>1. /\ running' \in BOOLEAN /\ revision' \in 0 .. MaxRounds
          /\ inbox' \in Seq(Queries \cup Others) /\ wire' \in Seq(Messages) /\ view' \in Copies /\ range' \in Ranges
          /\ subscribed' \in BOOLEAN /\ loaded' \in BOOLEAN
          /\ version' \in 0 .. MaxRequests /\ requests' \in 0 .. MaxRequests /\ version' <= requests'
          /\ query' \in [version : 0 .. MaxRequests, events : Seq(Event)]
          /\ past' \subseteq Past
      BY <1>1, <1>2, <1>3 DEF TypeInv
    <2>2. records' \subseteq Record /\ IsFiniteSet(records')
      BY <1>1, <1>2, FS_AddElement DEF TypeInv
    <2>3. apps' \subseteq Record
      BY <1>1, <1>2 DEF TypeInv
    <2>4. \/ deferred' = {}
          \/ \E x \in Record : deferred' = {x}
      BY <1>1, <1>2 DEF TypeInv
    <2>5. QED BY <2>1, <2>2, <2>3, <2>4 DEF TypeInv
  <1>14. NumbersInv'
    <2>1. RecordsNumbered'
      <3>1. \A x \in records' \cup apps' \cup deferred' \cup view'.records \cup view'.apps : x.id <= revision'
        <4> SUFFICES ASSUME NEW x \in records' \cup apps' \cup deferred' \cup view'.records \cup view'.apps
                     PROVE  x.id <= revision'
          OBVIOUS
        <4>1. x = r \/ x \in records \cup apps \cup deferred \cup view.records \cup view.apps
          BY <1>2
        <4>2. x \in Record
          BY <1>1, <1>2, <4>1 DEF TypeInv, Copies
        <4>3. x.id \in Int /\ r.id \in Int
          BY <1>2, <1>11, <4>2
        <4>4. QED BY <1>2, <1>10, <4>1, <4>3
      <3>2. deferred' \cap (apps' \cup view'.apps) = {}
        <4> SUFFICES ASSUME NEW x \in deferred', x \in apps' \cup view'.apps PROVE FALSE
          OBVIOUS
        <4>1. batch = {} /\ x \in apps \cup view.apps
          BY <1>2
        <4>2. x \in Record /\ x.id <= revision /\ x \notin deferred
          BY <1>1, <1>10, <4>1 DEF TypeInv, Copies
        <4>3. x.id = revision'
          BY <1>12, <4>2
        <4>4. QED BY <1>2, <1>11, <4>2, <4>3
      <3>3. QED BY <3>1, <3>2 DEF RecordsNumbered
    <2>2. ASSUME NEW e \in (Events \cup Kept)' PROVE Numbered(e)'
      <3>1. CASE e \in Events \cup Kept
        <4>1. Numbered(e) /\ e \in Event
          BY <1>1, <1>7, <3>1 DEF EventsNumbered
        <4>2. e.record.id \in Int /\ e.revision \in Int
          BY <4>1, EventTypes
        <4>3. e.record.id <= revision' /\ e.revision <= revision' /\ e.record.id # revision'
          BY <1>2, <4>1, <4>2 DEF Numbered
        <4>4. e.type = "appUsage" => e.record \notin deferred'
          BY <1>12, <4>1, <4>3 DEF Numbered
        <4>5. QED BY <4>1, <4>3, <4>4 DEF Numbered
      <3>2. CASE \E p \in added : e = wire'[p]
        <4>1. PICK p \in added : e = wire'[p]
          BY <3>2
        <4>2. CASE e.type = "usage"
          <5>1. e.record.id = revision' /\ e.revision = revision' /\ revision' \in Int
            BY <1>2, <1>4, <4>1, <4>2
          <5>2. e.type # "appUsage"
            BY <4>2
          <5>3. QED BY <5>1, <5>2 DEF Numbered
        <4>3. CASE e.type = "appUsage"
          <5>1. e.record \in batch /\ e.revision = revision' /\ revision' \in Int
            BY <1>2, <1>4, <4>1, <4>3
          <5>2. e.record \notin deferred'
            BY <1>2, <5>1
          <5>3. e.record = r \/ e.record \in deferred
            BY <1>2, <5>1
          <5>4. e.record.id <= revision'
            <6>1. e.record \in Record
              BY <1>1, <1>2, <5>3 DEF TypeInv
            <6>2. QED BY <1>2, <1>10, <1>11, <5>3, <6>1
          <5>5. QED BY <4>3, <5>1, <5>2, <5>4 DEF Numbered
        <4>4. QED BY <1>5, <4>1, <4>2, <4>3 DEF Kinds
      <3>3. QED BY <1>6, <1>7, <3>1, <3>2
    <2>3. ASSUME NEW k \in DOMAIN wire', Snapped(wire'[k]) PROVE SnapshotNumbered(wire[k])'
      <3>1. k \in DOMAIN wire /\ wire'[k] = wire[k]
        BY <1>3, <1>5, <2>3
      <3> DEFINE m == wire[k]
      <3>2. SnapshotNumbered(m) /\ m \in Snapshots
        BY <1>1, <1>5, <2>3, <3>1, MessageTypes DEF SnapshotsNumbered
      <3> HIDE DEF m
      <3>3. m.revision \in Int /\ m.copy.apps \subseteq Record /\ m.copy.records \subseteq Record
        BY <3>2 DEF Snapshots, Copies
      <3>4. m.revision <= revision' /\ m.revision # revision'
        BY <1>2, <3>2, <3>3 DEF SnapshotNumbered
      <3>5. deferred' \cap m.copy.apps = {}
        <4> SUFFICES ASSUME NEW x \in deferred', x \in m.copy.apps PROVE FALSE
          OBVIOUS
        <4>1. x \notin deferred /\ x.id <= m.revision /\ x.id \in Int
          BY <1>11, <3>2, <3>3 DEF SnapshotNumbered
        <4>2. x.id = revision'
          BY <1>12, <4>1
        <4>3. QED BY <1>2, <3>2, <3>3, <4>1, <4>2 DEF SnapshotNumbered
      <3>6. /\ m.revision <= revision'
            /\ \A x \in m.copy.records \cup m.copy.apps : x.id <= m.revision
            /\ deferred' \cap m.copy.apps = {}
        BY <3>2, <3>4, <3>5 DEF SnapshotNumbered
      <3>7. m = wire'[k]
        BY <3>1 DEF m
      <3>8. QED BY <3>1, <3>6, <3>7 DEF SnapshotNumbered
    <2>4. EventsNumbered'
      BY <2>2 DEF EventsNumbered
    <2>5. SnapshotsNumbered'
      BY <1>3, <1>5, <2>3 DEF SnapshotsNumbered, SnapshotNumbered
    <2>6. QED BY <2>1, <2>4, <2>5 DEF NumbersInv
  \* What is announced is stored for the first time.
  <1>15. \A p \in added : wire'[p].record = r \/ (wire'[p].type = "appUsage" /\ wire'[p].record \in deferred)
    <2> SUFFICES ASSUME NEW p \in added
                 PROVE  wire'[p].record = r \/ (wire'[p].type = "appUsage" /\ wire'[p].record \in deferred)
      OBVIOUS
    <2>1. wire'[p].type = "usage" \/ wire'[p].type = "appUsage"
      BY <1>5 DEF Kinds
    <2>2. CASE wire'[p].type = "usage"
      BY <1>4, <2>2
    <2>3. CASE wire'[p].type = "appUsage"
      BY <1>2, <1>4, <2>3
    <2>4. QED BY <2>1, <2>2, <2>3
  <1>16. \A x \in Record : x.id <= revision => x # r
    BY <1>2, <1>11
  <1>17. ASSUME NEW d \in Events \cup Kept, NEW p \in added
         PROVE  Distinct(d, wire'[p]) /\ Distinct(wire'[p], d)
    <2>1. Numbered(d) /\ d.record \in Record
      BY <1>1, <1>7, EventTypes DEF EventsNumbered
    <2>2. d.record # r
      BY <1>16, <2>1 DEF Numbered
    <2>3. d.type = "appUsage" => d.record \notin deferred
      BY <2>1 DEF Numbered
    <2>4. QED BY <1>15, <2>2, <2>3 DEF Distinct
  <1>18. OnceInv'
    <2>1. ASSUME NEW e \in Events' PROVE Lacks(view', e)
      <3>1. CASE e \in Events
        BY <1>1, <1>2, <3>1 DEF EventsDistinct
      <3>2. CASE \E p \in added : e = wire'[p]
        <4>1. PICK p \in added : e = wire'[p]
          BY <3>2
        <4>2. r \notin view.records /\ r \notin view.apps
          BY <1>1, <1>10, <1>16 DEF TypeInv, Copies
        <4>3. view' = view
          BY <1>2
        <4>4. CASE e.record = r
          BY <4>2, <4>3, <4>4 DEF Lacks, Got
        <4>5. CASE e.type = "appUsage" /\ e.record \in deferred
          BY <1>10, <4>3, <4>5 DEF Lacks, Got
        <4>6. QED BY <1>15, <4>1, <4>4, <4>5
      <3>3. QED BY <1>6, <3>1, <3>2
    <2>2. ASSUME NEW j \in DOMAIN wire', NEW k \in DOMAIN wire', j # k, IsEvent(wire'[j]), IsEvent(wire'[k])
          PROVE  Distinct(wire'[j], wire'[k])
      <3>1. \A i \in DOMAIN wire : IsEvent(wire'[i]) => wire'[i] \in Events
        BY <1>3 DEF Events
      <3>2. CASE j \in DOMAIN wire /\ k \in DOMAIN wire
        BY <1>1, <1>3, <2>2, <3>2 DEF EventsDistinct
      <3>3. CASE j \in added /\ k \in DOMAIN wire
        BY <1>17, <2>2, <3>1, <3>3
      <3>4. CASE j \in DOMAIN wire /\ k \in added
        BY <1>17, <2>2, <3>1, <3>4
      <3>5. CASE j \in added /\ k \in added
        BY <1>4, <2>2, <3>5 DEF Distinct
      <3>6. QED BY <1>3, <3>2, <3>3, <3>4, <3>5
    <2>3. ASSUME NEW d \in Kept', NEW e \in Events' PROVE Distinct(d, e)
      <3>1. CASE e \in Events
        BY <1>1, <1>7, <2>3, <3>1 DEF EventsDistinct
      <3>2. QED BY <1>6, <1>7, <1>17, <2>3, <3>1
    <2>4. EventsDistinct'
      <3>1. \A e \in Events' : Lacks(view', e)
        BY <2>1
      <3>2. QED BY <2>2, <2>3, <3>1 DEF EventsDistinct, Lacks, Got, Distinct
    <2>5. ASSUME NEW j \in DOMAIN wire', Snapped(wire'[j])
          PROVE  j \in DOMAIN wire /\ wire'[j] = wire[j] /\ Snapped(wire[j]) /\ wire[j] \in Snapshots
      <3>1. j \in DOMAIN wire /\ wire'[j] = wire[j]
        BY <1>3, <1>5, <2>5
      <3>2. QED BY <1>5, <2>5, <3>1, MessageTypes
    <2>6. ASSUME NEW j \in DOMAIN wire', NEW k \in DOMAIN wire', Snapped(wire'[j]), IsEvent(wire'[k]), k < j
          PROVE  ~Newer(wire'[k], wire'[j])
      <3>1. k \in DOMAIN wire
        BY <1>3, <2>5, <2>6
      <3>2. QED BY <1>1, <1>3, <2>5, <2>6, <3>1 DEF SnapshotsDistinct
    <2>7. ASSUME NEW j \in DOMAIN wire', NEW k \in DOMAIN wire', Snapped(wire'[j]), IsEvent(wire'[k]), j < k
          PROVE  Lacks(wire'[j].copy, wire'[k]) /\ ((IF wire'[k].type = "usage" THEN "half" \notin past' ELSE past' = {}) => Newer(wire'[k], wire'[j]))
      <3>1. CASE k \in DOMAIN wire
        <4>1. Lacks(wire[j].copy, wire[k]) /\ (Exact(wire[k].type) => Newer(wire[k], wire[j]))
          BY <1>1, <1>3, <2>5, <2>7, <3>1 DEF SnapshotsDistinct
        <4>2. QED BY <1>2, <1>3, <2>5, <2>7, <3>1, <4>1 DEF Exact
      <3>2. CASE k \in added
        <4> DEFINE m == wire[j]
        <4>1. m \in Snapshots /\ SnapshotNumbered(m) /\ wire'[j] = m
          BY <1>1, <2>5, <2>7 DEF SnapshotsNumbered
        <4> HIDE DEF m
        <4>2. m.copy.records \subseteq Record /\ m.copy.apps \subseteq Record /\ m.revision \in Int
          BY <4>1 DEF Snapshots, Copies
        <4>3. \A x \in m.copy.records \cup m.copy.apps : x.id <= revision
          <5> SUFFICES ASSUME NEW x \in m.copy.records \cup m.copy.apps PROVE x.id <= revision
            OBVIOUS
          <5>1. x.id <= m.revision /\ m.revision <= revision /\ x.id \in Int
            BY <1>11, <4>1, <4>2 DEF SnapshotNumbered
          <5>2. QED BY <1>2, <4>2, <5>1
        <4>4. r \notin m.copy.records /\ r \notin m.copy.apps /\ deferred \cap m.copy.apps = {}
          BY <1>16, <4>1, <4>2, <4>3 DEF SnapshotNumbered
        <4>5. Lacks(m.copy, wire'[k])
          <5>1. CASE wire'[k].record = r
            BY <4>4, <5>1 DEF Lacks, Got
          <5>2. CASE wire'[k].type = "appUsage" /\ wire'[k].record \in deferred
            BY <4>4, <5>2 DEF Lacks, Got
          <5>3. QED BY <1>15, <3>2, <5>1, <5>2
        <4>6. Newer(wire'[k], m)
          <5>1. wire'[k].revision = revision'
            BY <1>4, <3>2
          <5>2. m.revision <= revision
            BY <4>1 DEF SnapshotNumbered
          <5>3. QED BY <1>2, <4>2, <5>1, <5>2 DEF Newer
        <4>7. QED BY <4>1, <4>5, <4>6
      <3>3. QED BY <1>3, <3>1, <3>2
    <2>8. ASSUME NEW j \in DOMAIN wire', NEW e \in Kept', Snapped(wire'[j]), Newer(e, wire'[j])
          PROVE  Lacks(wire'[j].copy, e)
      BY <1>1, <1>7, <2>5, <2>8 DEF SnapshotsDistinct
    <2>9. SnapshotsDistinct'
      <3>1. \A j, k \in DOMAIN wire' : Snapped(wire'[j]) /\ IsEvent(wire'[k]) /\ k < j => ~Newer(wire'[k], wire'[j])
        BY <2>6
      <3>2. \A j, k \in DOMAIN wire' : Snapped(wire'[j]) /\ IsEvent(wire'[k]) /\ j < k
               => Lacks(wire'[j].copy, wire'[k]) /\ ((IF wire'[k].type = "usage" THEN "half" \notin past' ELSE past' = {}) => Newer(wire'[k], wire'[j]))
        BY <2>7
      <3>3. \A j \in DOMAIN wire', e \in Kept' : Snapped(wire'[j]) /\ Newer(e, wire'[j]) => Lacks(wire'[j].copy, e)
        BY <2>8
      <3>4. QED BY <3>1, <3>2, <3>3 DEF SnapshotsDistinct, Lacks, Got, Newer, Exact, Snapped, IsEvent
    <2>10. QED BY <2>4, <2>9 DEF OnceInv
  <1>19. VersionsInv'
    <2>1. \A k \in DOMAIN wire' : OfQuery(wire'[k]) => k \in DOMAIN wire /\ wire'[k] = wire[k]
      BY <1>3, <1>5
    <2>2. \A k \in DOMAIN wire' : OfQuery(wire'[k]) => Current(wire'[k].request.version)
      BY <1>1, <2>1 DEF VersionsInv
    <2>3. \A j, k \in DOMAIN wire' : j # k /\ OfQuery(wire'[j]) /\ OfQuery(wire'[k])
             => wire'[j].request.version # wire'[k].request.version
      BY <1>1, <2>1 DEF VersionsInv
    <2>4. \A i \in DOMAIN inbox, k \in DOMAIN wire' :
             inbox[i].method = "snapshot" /\ OfQuery(wire'[k])
                => inbox[i].version # wire'[k].request.version
      BY <1>1, <2>1 DEF VersionsInv
    <2>5. \A v : Current(v) <=> v <= version' /\ (v = version' => query'.version = version')
      BY <1>2 DEF Current
    <2>6. QED BY <1>1, <1>2, <2>2, <2>3, <2>4, <2>5 DEF VersionsInv, Current, OfQuery, IsEvent
  <1>20. ClearInv'
    <2>1. \A k \in DOMAIN wire' : ~Cleared(wire'[k])
      BY <1>3, <1>5, <1>8
    <2>2. \A i, j \in DOMAIN inbox' : inbox'[i].method = "clearUsage" /\ i < j
                                     => inbox'[j].method = "snapshot"
      BY <1>1, <1>2 DEF ClearInv
    <2>3. QED BY <2>1, <2>2 DEF ClearInv, Cleared
  <1> DEFINE New(kind) == IF kind = "usage" THEN {r} ELSE batch
  <1>21. \A kind \in Kinds : \A x : x \in Stored(kind)' <=> x \in Stored(kind) \/ x \in New(kind)
    BY <1>2 DEF Stored, Kinds
  <1>22. ASSUME NEW j \in DOMAIN wire \cup {0}, NEW kind \in Kinds, NEW x
         PROVE  Coming(kind, x, j)' <=> Coming(kind, x, j) \/ x \in New(kind)
    <2>1. \A p \in added : j < p
      BY <1>3
    <2>2. Coming(kind, x, j) => Coming(kind, x, j)'
      BY <1>3 DEF Coming
    <2>3. x \in New(kind) => \E p \in added : wire'[p].type = kind /\ wire'[p].record = x
      BY <1>4 DEF Kinds
    <2>4. x \in New(kind) => Coming(kind, x, j)'
      BY <1>3, <2>1, <2>3 DEF Coming
    <2>5. ASSUME NEW p \in added, wire'[p].type = kind, wire'[p].record = x
          PROVE  x \in New(kind)
      BY <1>4, <2>5 DEF Kinds
    <2>6. Coming(kind, x, j)' => Coming(kind, x, j) \/ x \in New(kind)
      BY <1>3, <2>5 DEF Coming
    <2>7. QED BY <2>2, <2>4, <2>6
  <1> HIDE DEF New
  <1>23. ASSUME NEW j \in DOMAIN wire', Latest(wire[j])'
         PROVE  j \in DOMAIN wire /\ wire'[j] = wire[j] /\ Latest(wire[j])
    <2>1. Snapped(wire'[j]) /\ wire'[j].request.version = version'
      BY <1>23 DEF Latest, Snapped
    <2>2. j \in DOMAIN wire /\ wire'[j] = wire[j]
      BY <1>3, <1>5, <2>1
    <2>3. QED BY <1>2, <2>1, <2>2 DEF Latest
  <1>24. \A kind : Exact(kind)' <=> Exact(kind)
    BY <1>2 DEF Exact
  <1>25. CopyInv'
    <2>1. ASSUME loaded', NEW kind \in Kinds, NEW x \in Record, Exact(kind)'
          PROVE  ViewExact(kind, x)'
      <3>1. ViewExact(kind, x)
        BY <1>1, <1>2, <1>9, <1>24, <2>1 DEF CopyInv
      <3>2. x \in Stored(kind)' <=> x \in Stored(kind) \/ x \in New(kind)
        BY <1>21
      <3>3. Coming(kind, x, 0)' <=> Coming(kind, x, 0) \/ x \in New(kind)
        BY <1>22
      <3>4. Got(view', kind) = Got(view, kind) /\ range' = range
        BY <1>2
      <3>5. x \in Stored(kind)' /\ x.day \in range'
               <=> x \in Got(view', kind) \/ (x.day \in range' /\ Coming(kind, x, 0)')
        BY <3>1, <3>2, <3>3, <3>4 DEF ViewExact, InRange
      <3>6. QED BY <3>5 DEF ViewExact, InRange, Got, Stored
    <2>2. ASSUME NEW j \in DOMAIN wire', Latest(wire[j])', NEW kind \in Kinds, NEW x \in Record, Exact(kind)'
          PROVE  AnswerExact(kind, x, j)'
      <3>1. j \in DOMAIN wire /\ wire'[j] = wire[j] /\ Latest(wire[j])
        BY <1>23, <2>2
      <3>2. AnswerExact(kind, x, j)
        BY <1>1, <1>9, <1>24, <2>2, <3>1 DEF CopyInv
      <3>3. x \in Stored(kind)' <=> x \in Stored(kind) \/ x \in New(kind)
        BY <1>21
      <3>4. Coming(kind, x, j)' <=> Coming(kind, x, j) \/ x \in New(kind)
        BY <1>22, <3>1
      <3> DEFINE m == wire[j]
      <3>5. Saved(kind, x, m)' <=> Saved(kind, x, m)
        BY <1>7, <3>1 DEF Saved, Newer
      <3>6. x \in Stored(kind) /\ x.day \in m.request.range
               <=> \/ x \in Got(m.copy, kind)
                   \/ x.day \in m.request.range /\ (Coming(kind, x, j) \/ Saved(kind, x, m))
        BY <3>2 DEF AnswerExact, InRange
      <3>7. x \in Stored(kind)' /\ x.day \in m.request.range
               <=> \/ x \in Got(m.copy, kind)
                   \/ x.day \in m.request.range /\ (Coming(kind, x, j)' \/ Saved(kind, x, m)')
        BY <3>3, <3>4, <3>5, <3>6
      <3>8. m = m'
        BY <3>1
      <3> HIDE DEF m
      <3>9. QED
        BY <3>7, <3>8 DEF AnswerExact, InRange, Got, Stored, m
    <2>3. loaded' => subscribed'
      BY <1>1, <1>2 DEF CopyInv
    <2>4. QED BY <2>1, <2>2, <2>3 DEF CopyInv
  <1>26. TotalInv'
    <2>1. PICK p \in added : wire'[p].type = "usage" /\ wire'[p].total = Cardinality(records')
      BY <1>4
    <2>2. p \in DOMAIN wire' /\ p \in Nat \ {0}
      BY <1>3
    <2>3. \A j \in DOMAIN wire \cup {0} : UsageAfter(j)'
      <3>1. \A j \in DOMAIN wire \cup {0} : j < p
        BY <1>3, <2>2
      <3>2. QED BY <2>1, <2>2, <3>1 DEF UsageAfter
    <2>4. ASSUME NEW k \in DOMAIN wire', wire'[k].type = "usage", ~UsageAfter(k)'
          PROVE  wire'[k].total = Cardinality(records')
      <3>1. k \in added
        BY <1>3, <2>3, <2>4
      <3>2. QED BY <1>4, <2>4, <3>1
    <2>5. \A j \in DOMAIN wire' : Latest(wire[j])' => UsageAfter(j)'
      BY <1>23, <2>3
    <2>6. UsageAfter(0)'
      BY <2>3
    <2>7. QED BY <2>4, <2>5, <2>6 DEF TotalInv
  <1>27. QED
    BY <1>13, <1>14, <1>18, <1>19, <1>20, <1>25, <1>26 DEF SyncInv

-----------------------------------------------------------------------------
(* A request is handled.                                                   *)

LEMMA HandleKeeps ==
    ASSUME SyncInv, NEW request, NEW a, NEW late, Handled(request, a, late)
    PROVE  SyncInv'
  <1>1. /\ TypeInv /\ RecordsNumbered /\ EventsNumbered /\ SnapshotsNumbered
        /\ EventsDistinct /\ SnapshotsDistinct /\ VersionsInv /\ ClearInv /\ CopyInv /\ TotalInv
    BY DEF SyncInv, NumbersInv, OnceInv
  <1> DEFINE m == wire'[a]
  <1>2. /\ UNCHANGED <<revision, view, range, subscribed, loaded, version, query, requests, doubled>>
        /\ inbox # <<>> /\ request = inbox[1] /\ request \in Queries \cup Others
        /\ inbox' \in Seq(Queries \cup Others) /\ \E place : Without(inbox, inbox', 1, place)
        /\ m.type \in {"answer", "failure"} /\ m.request = request
        /\ revision \in 0 .. MaxRounds /\ revision \in Nat
    BY <1>1 DEF Handled, TypeInv
  <1>3. /\ wire' \in Seq(Messages) /\ DOMAIN wire' = DOMAIN wire \cup {a} \cup late
        /\ \A j \in DOMAIN wire : wire'[j] = wire[j] /\ j \notin late /\ j # a
        /\ \A j \in DOMAIN wire, p \in {a} \cup late : j < p /\ ~(p < j)
        /\ \A p \in late : p \in Nat \ {0} /\ a < p /\ ~(p < a)
        /\ a \in Nat \ {0} /\ a \notin late
        /\ \A j \in DOMAIN wire : j \in Nat \ {0}
    <2>1. Written({a} \cup late) /\ \A p \in late : a < p
      BY DEF Handled
    <2>2. \A j \in DOMAIN wire : j \in Nat \ {0}
      BY <1>1, WireTypes
    <2>3. \A p \in {a} \cup late : p \in Nat \ {0}
      BY <2>1 DEF Written, Longer
    <2>4. a \notin late /\ \A p \in late : ~(p < a)
      BY <2>1, <2>3
    <2>5. \A j \in DOMAIN wire, p \in {a} \cup late : j < p /\ ~(p < j)
      <3>1. \A j \in DOMAIN wire, p \in {a} \cup late : j < p
        BY <2>1 DEF Written, Longer
      <3>2. QED BY <2>2, <2>3, <3>1
    <2>6. QED BY <2>1, <2>2, <2>3, <2>4, <2>5 DEF Written, Longer
  <1>4. /\ \A p \in late : /\ wire'[p] \in Event /\ wire'[p].type = "appUsage"
                           /\ wire'[p].revision = revision /\ wire'[p].record \in deferred
        /\ \A p, q \in late : p = q
    BY DEF Handled
  <1>5. \/ Answers(request, m) /\ late = {}
        \/ Pauses(request, m)
        \/ Clears(request, m) /\ late = {}
    BY DEF Handled
  <1>6. /\ ~IsEvent(m) /\ m \in Messages /\ (Snapped(m) => m \in Snapshots)
        /\ \A p \in late : IsEvent(wire'[p]) /\ ~Snapped(wire'[p]) /\ ~Cleared(wire'[p]) /\ ~OfQuery(wire'[p])
        /\ \A j \in DOMAIN wire : wire[j] \in Messages
        /\ m.type # "usage" /\ m.type # "appUsage"
    <2>1. m.type # "usage" /\ m.type # "appUsage"
      BY <1>2
    <2>2. m \in Messages
      BY <1>3, ElementOfSeq, LenProperties
    <2>3. \A p \in late : IsEvent(wire'[p]) /\ ~Snapped(wire'[p]) /\ ~Cleared(wire'[p]) /\ ~OfQuery(wire'[p])
      BY <1>4 DEF Snapped, Cleared, OfQuery, IsEvent
    <2> HIDE DEF m
    <2>4. QED BY <1>1, <2>1, <2>2, <2>3, MessageTypes, WireTypes DEF IsEvent
  <1>7. \A e : e \in Events' <=> e \in Events \/ \E p \in late : e = wire'[p]
    BY <1>3, <1>6 DEF Events
  <1>8. Kept' = Kept /\ Events \subseteq Event /\ Kept \subseteq Event /\ Events' \subseteq Event
    BY <1>1, <1>2, <1>4, <1>7, WireTypes DEF Kept
  <1> HIDE DEF m
  <1>9. /\ records' \subseteq records /\ apps' \subseteq apps \cup deferred /\ deferred' \subseteq deferred
        /\ deferred' # {} => apps' = apps /\ deferred' = deferred
        /\ past \subseteq past' /\ past' \subseteq Past
    BY <1>1, <1>5 DEF Answers, Pauses, Clears, TypeInv, Past
  <1>10. /\ \A x \in records \cup apps \cup deferred \cup view.records \cup view.apps : x.id <= revision
         /\ deferred \cap (apps \cup view.apps) = {}
    BY <1>1 DEF RecordsNumbered
  <1>11. /\ \A x \in Record : x.id \in Int
         /\ deferred \subseteq Record
    BY <1>1 DEF Record, TypeInv
  \* Only a pause announces a batch, and says so.
  <1>12. ASSUME late # {}
         PROVE  Pauses(request, m) /\ deferred # {} /\ deferred' = {} /\ past' = past \cup {"late"}
    <2>1. Pauses(request, m) /\ deferred # {}
      BY <1>4, <1>5, <1>12
    <2>2. QED BY <2>1 DEF Pauses
  <1>13. ASSUME Snapped(m)
         PROVE  /\ late = {} /\ UNCHANGED <<running, records, apps, deferred, past>>
                /\ m \in Snapshots /\ m.revision = revision /\ request \in Queries /\ m.request.method = "snapshot"
                /\ m.copy.records = InRange(records, m.request.range)
                /\ m.copy.apps = InRange(apps, m.request.range)
                /\ m.copy.total = Cardinality(records)
    <2>1. m.type = "answer" /\ request.method = "snapshot"
      BY <1>2, <1>13 DEF Snapped
    <2>2. Answers(request, m) /\ late = {}
      BY <1>5, <2>1 DEF Pauses, Clears
    <2>3. QED BY <1>2, <1>6, <1>13, <2>1, <2>2 DEF Answers, Others
  <1>14. TypeInv'
    <2>1. /\ revision' \in 0 .. MaxRounds
          /\ inbox' \in Seq(Queries \cup Others) /\ wire' \in Seq(Messages) /\ view' \in Copies /\ range' \in Ranges
          /\ subscribed' \in BOOLEAN /\ loaded' \in BOOLEAN
          /\ version' \in 0 .. MaxRequests /\ requests' \in 0 .. MaxRequests /\ version' <= requests'
          /\ query' \in [version : 0 .. MaxRequests, events : Seq(Event)]
          /\ past' \subseteq Past
      BY <1>1, <1>2, <1>3, <1>9 DEF TypeInv
    <2>2. records' \subseteq Record /\ IsFiniteSet(records')
      BY <1>1, <1>9, FS_Subset DEF TypeInv
    <2>3. apps' \subseteq Record
      BY <1>1, <1>9, <1>11 DEF TypeInv
    <2>4. \/ deferred' = {}
          \/ \E x \in Record : deferred' = {x}
      BY <1>1, <1>9 DEF TypeInv
    <2>5. running' \in BOOLEAN
      BY <1>1, <1>5 DEF TypeInv, Answers, Pauses, Clears
    <2>6. QED BY <2>1, <2>2, <2>3, <2>4, <2>5 DEF TypeInv
  <1>15. NumbersInv'
    <2>1. RecordsNumbered'
      <3>1. \A x \in records' \cup apps' \cup deferred' \cup view'.records \cup view'.apps : x.id <= revision'
        BY <1>2, <1>9, <1>10
      <3>2. deferred' \cap (apps' \cup view'.apps) = {}
        BY <1>2, <1>9, <1>10
      <3>3. QED BY <3>1, <3>2 DEF RecordsNumbered
    <2>2. ASSUME NEW e \in (Events \cup Kept)' PROVE Numbered(e)'
      <3>1. CASE e \in Events \cup Kept
        BY <1>1, <1>2, <1>9, <3>1 DEF EventsNumbered, Numbered
      <3>2. CASE \E p \in late : e = wire'[p]
        <4>1. PICK p \in late : e = wire'[p]
          BY <3>2
        <4>2. e.type = "appUsage" /\ e.revision = revision' /\ e.record \in deferred /\ deferred' = {}
          BY <1>2, <1>4, <1>12, <4>1
        <4>3. e.record.id <= revision' /\ e.revision <= revision' /\ e.type # "usage"
          BY <1>2, <1>10, <4>2
        <4>4. QED BY <4>2, <4>3 DEF Numbered
      <3>3. QED BY <1>7, <1>8, <3>1, <3>2
    <2>3. ASSUME NEW k \in DOMAIN wire', Snapped(wire'[k])
          PROVE  /\ wire'[k].revision <= revision'
                 /\ \A x \in wire'[k].copy.records \cup wire'[k].copy.apps : x.id <= wire'[k].revision
                 /\ deferred' \cap wire'[k].copy.apps = {}
      <3>1. CASE k \in DOMAIN wire
        <4>1. SnapshotNumbered(wire[k]) /\ wire'[k] = wire[k]
          BY <1>1, <1>3, <2>3, <3>1 DEF SnapshotsNumbered
        <4>2. QED BY <1>2, <1>9, <4>1 DEF SnapshotNumbered
      <3>2. CASE k = a
        <4>1. Snapped(m) /\ wire'[k] = m
          BY <2>3, <3>2 DEF m
        <4>2. m.copy.records \subseteq records /\ m.copy.apps \subseteq apps /\ m.revision = revision /\ deferred' = deferred
          BY <1>13, <4>1 DEF InRange
        <4>3. QED BY <1>2, <1>10, <4>1, <4>2
      <3>3. QED BY <1>3, <1>6, <2>3, <3>1, <3>2
    <2>4. EventsNumbered'
      BY <2>2 DEF EventsNumbered
    <2>5. SnapshotsNumbered'
      BY <2>3 DEF SnapshotsNumbered, SnapshotNumbered, Snapped
    <2>6. QED BY <2>1, <2>4, <2>5 DEF NumbersInv
  <1>16. ASSUME NEW d \in Events \cup Kept, NEW p \in late
         PROVE  Distinct(d, wire'[p]) /\ Distinct(wire'[p], d)
    BY <1>1, <1>4, <1>16 DEF EventsNumbered, Numbered, Distinct
  <1>17. \A kind : ((IF kind = "usage" THEN "half" \notin past' ELSE past' = {}) => Exact(kind))
                   /\ (kind = "appUsage" /\ late # {} => past' # {})
    BY <1>9, <1>12 DEF Exact
  <1>18. OnceInv'
    <2>1. ASSUME NEW e \in Events' PROVE Lacks(view', e)
      <3>1. CASE e \in Events
        BY <1>1, <1>2, <3>1 DEF EventsDistinct
      <3>2. CASE \E p \in late : e = wire'[p]
        BY <1>2, <1>4, <1>10, <3>2 DEF Lacks, Got
      <3>3. QED BY <1>7, <3>1, <3>2
    <2>2. ASSUME NEW j \in DOMAIN wire', NEW k \in DOMAIN wire', j # k, IsEvent(wire'[j]), IsEvent(wire'[k])
          PROVE  Distinct(wire'[j], wire'[k])
      <3>1. \A i \in DOMAIN wire : IsEvent(wire'[i]) => wire'[i] \in Events
        BY <1>3 DEF Events
      <3>2. j # a /\ k # a
        BY <1>6, <2>2 DEF m
      <3>3. CASE j \in DOMAIN wire /\ k \in DOMAIN wire
        BY <1>1, <1>3, <2>2, <3>3 DEF EventsDistinct
      <3>4. CASE j \in late /\ k \in DOMAIN wire
        BY <1>16, <2>2, <3>1, <3>4
      <3>5. CASE j \in DOMAIN wire /\ k \in late
        BY <1>16, <2>2, <3>1, <3>5
      <3>6. CASE j \in late /\ k \in late
        BY <1>4, <2>2, <3>6
      <3>7. QED BY <1>3, <3>2, <3>3, <3>4, <3>5, <3>6
    <2>3. ASSUME NEW d \in Kept', NEW e \in Events' PROVE Distinct(d, e)
      <3>1. CASE e \in Events
        BY <1>1, <1>8, <2>3, <3>1 DEF EventsDistinct
      <3>2. QED BY <1>7, <1>8, <1>16, <2>3, <3>1
    <2>4. EventsDistinct'
      <3>1. \A e \in Events' : Lacks(view', e)
        BY <2>1
      <3>2. QED BY <2>2, <2>3, <3>1 DEF EventsDistinct, Lacks, Got, Distinct
    <2>5. ASSUME NEW j \in DOMAIN wire', Snapped(wire'[j]), j # a
          PROVE  j \in DOMAIN wire /\ wire'[j] = wire[j] /\ Snapped(wire[j])
      BY <1>3, <1>6, <2>5
    <2>6. \A e \in Events \cup Kept : Snapped(m) => ~Newer(e, m)
      <3> SUFFICES ASSUME NEW e \in Events \cup Kept, Snapped(m) PROVE ~Newer(e, m)
        OBVIOUS
      <3>1. e.revision <= revision /\ e.revision \in Int /\ m.revision = revision
        BY <1>1, <1>8, <1>13, EventTypes DEF EventsNumbered, Numbered
      <3>2. QED BY <1>2, <3>1 DEF Newer
    <2>7. ASSUME NEW j \in DOMAIN wire', NEW k \in DOMAIN wire', Snapped(wire'[j]), IsEvent(wire'[k]), k < j
          PROVE  ~Newer(wire'[k], wire'[j])
      <3>1. k # a
        BY <1>6, <2>7 DEF m
      <3>2. CASE j = a
        <4>1. k \in DOMAIN wire /\ Snapped(m)
          BY <1>3, <2>7, <3>1, <3>2 DEF m
        <4>2. wire'[k] \in Events
          BY <1>3, <2>7, <4>1 DEF Events
        <4>3. QED BY <2>6, <3>2, <4>1, <4>2 DEF m
      <3>3. CASE j # a
        <4>1. j \in DOMAIN wire /\ k \in DOMAIN wire
          BY <1>3, <2>5, <2>7, <3>1, <3>3
        <4>2. QED BY <1>1, <1>3, <2>5, <2>7, <3>3, <4>1 DEF SnapshotsDistinct
      <3>4. QED BY <3>2, <3>3
    <2>8. ASSUME NEW j \in DOMAIN wire', NEW k \in DOMAIN wire', Snapped(wire'[j]), IsEvent(wire'[k]), j < k
          PROVE  Lacks(wire'[j].copy, wire'[k])
                 /\ ((IF wire'[k].type = "usage" THEN "half" \notin past' ELSE past' = {}) => Newer(wire'[k], wire'[j]))
      <3>1. k # a
        BY <1>6, <2>8 DEF m
      <3>2. j # a
        <4>1. SUFFICES ASSUME j = a PROVE FALSE
          OBVIOUS
        <4>2. late = {}
          BY <1>13, <2>8, <4>1 DEF m
        <4>3. QED BY <1>3, <2>8, <3>1, <4>1, <4>2
      <3>3. j \in DOMAIN wire /\ wire'[j] = wire[j] /\ Snapped(wire[j])
        BY <2>5, <2>8, <3>2
      <3>4. CASE k \in DOMAIN wire
        <4>1. Lacks(wire[j].copy, wire[k]) /\ (Exact(wire[k].type) => Newer(wire[k], wire[j]))
          BY <1>1, <1>3, <2>8, <3>3, <3>4 DEF SnapshotsDistinct
        <4>2. QED BY <1>3, <1>17, <3>3, <3>4, <4>1
      <3>5. CASE k \in late
        <4>1. deferred \cap wire[j].copy.apps = {}
          BY <1>1, <3>3 DEF SnapshotsNumbered, SnapshotNumbered
        <4>2. Lacks(wire'[j].copy, wire'[k])
          BY <1>4, <3>3, <3>5, <4>1 DEF Lacks, Got
        <4>3. wire'[k].type = "appUsage" /\ past' # {}
          BY <1>4, <1>17, <3>5
        <4>4. QED BY <4>2, <4>3
      <3>6. QED BY <1>3, <3>1, <3>4, <3>5
    <2>9. ASSUME NEW j \in DOMAIN wire', NEW e \in Kept', Snapped(wire'[j]), Newer(e, wire'[j])
          PROVE  Lacks(wire'[j].copy, e)
      <3>1. j # a
        BY <1>8, <2>6, <2>9 DEF m
      <3>2. QED BY <1>1, <1>8, <2>5, <2>9, <3>1 DEF SnapshotsDistinct
    <2>10. SnapshotsDistinct'
      <3>1. \A j, k \in DOMAIN wire' : Snapped(wire'[j]) /\ IsEvent(wire'[k]) /\ k < j => ~Newer(wire'[k], wire'[j])
        BY <2>7
      <3>2. \A j, k \in DOMAIN wire' : Snapped(wire'[j]) /\ IsEvent(wire'[k]) /\ j < k
               => Lacks(wire'[j].copy, wire'[k])
                  /\ ((IF wire'[k].type = "usage" THEN "half" \notin past' ELSE past' = {}) => Newer(wire'[k], wire'[j]))
        BY <2>8
      <3>3. \A j \in DOMAIN wire', e \in Kept' : Snapped(wire'[j]) /\ Newer(e, wire'[j]) => Lacks(wire'[j].copy, e)
        BY <2>9
      <3>4. QED BY <3>1, <3>2, <3>3 DEF SnapshotsDistinct, Lacks, Got, Newer, Exact, Snapped, IsEvent
    <2>11. QED BY <2>4, <2>10 DEF OnceInv
  <1>19. PICK place : Without(inbox, inbox', 1, place)
    BY <1>2
  <1>20. /\ DOMAIN inbox \subseteq Nat /\ 1 \in DOMAIN inbox
         /\ \A i \in DOMAIN inbox : 1 <= i /\ (i # 1 => 1 < i)
         /\ \A i \in DOMAIN inbox' : place[i] \in DOMAIN inbox /\ place[i] # 1 /\ inbox'[i] = inbox[place[i]]
         /\ \A i, j \in DOMAIN inbox' : (i < j <=> place[i] < place[j]) /\ (place[i] = place[j] => i = j)
    <2>1. DOMAIN inbox = 1 .. Len(inbox) /\ Len(inbox) \in Nat
      BY <1>1, LenProperties DEF TypeInv
    <2>2. Len(inbox) # 0
      BY <1>1, <1>2, EmptySeq DEF TypeInv
    <2>3. QED BY <1>19, <2>1, <2>2 DEF Without
  <1>21. VersionsInv'
    <2>1. \A v : Current(v) <=> v <= version' /\ (v = version' => query'.version = version')
      BY <1>2 DEF Current
    <2>2. OfQuery(m) => request.method = "snapshot" /\ m.request.version = request.version
      BY <1>2 DEF OfQuery
    <2>3. ASSUME NEW k \in DOMAIN wire', OfQuery(wire'[k])
          PROVE  \/ k \in DOMAIN wire /\ wire'[k] = wire[k]
                 \/ k = a /\ wire'[k] = m /\ request.method = "snapshot" /\ m.request.version = request.version
      BY <1>3, <1>6, <2>2, <2>3 DEF m
    <2>4. \A i \in DOMAIN inbox' : inbox'[i].method = "snapshot" => Current(inbox'[i].version)
      BY <1>1, <1>20 DEF VersionsInv
    <2>5. \A k \in DOMAIN wire' : OfQuery(wire'[k]) => Current(wire'[k].request.version)
      BY <1>1, <1>2, <1>20, <2>3 DEF VersionsInv
    <2>6. \A i, j \in DOMAIN inbox' :
             i # j /\ inbox'[i].method = "snapshot" /\ inbox'[j].method = "snapshot"
                => inbox'[i].version # inbox'[j].version
      BY <1>1, <1>20 DEF VersionsInv
    <2>7. \A j, k \in DOMAIN wire' : j # k /\ OfQuery(wire'[j]) /\ OfQuery(wire'[k])
             => wire'[j].request.version # wire'[k].request.version
      <3>1. \A k \in DOMAIN wire : request.method = "snapshot" /\ OfQuery(wire[k])
               => request.version # wire[k].request.version
        BY <1>1, <1>2, <1>20 DEF VersionsInv
      <3>2. \A j, k \in DOMAIN wire : j # k /\ OfQuery(wire[j]) /\ OfQuery(wire[k])
               => wire[j].request.version # wire[k].request.version
        BY <1>1 DEF VersionsInv
      <3>3. QED BY <2>3, <3>1, <3>2
    <2>8. \A i \in DOMAIN inbox', k \in DOMAIN wire' :
             inbox'[i].method = "snapshot" /\ OfQuery(wire'[k])
                => inbox'[i].version # wire'[k].request.version
      <3>1. \A i \in DOMAIN inbox' : inbox'[i].method = "snapshot" /\ request.method = "snapshot"
               => inbox'[i].version # request.version
        BY <1>1, <1>2, <1>20 DEF VersionsInv
      <3>2. \A i \in DOMAIN inbox', k \in DOMAIN wire :
               inbox'[i].method = "snapshot" /\ OfQuery(wire[k])
                  => inbox'[i].version # wire[k].request.version
        BY <1>1, <1>20 DEF VersionsInv
      <3>3. QED BY <2>3, <3>1, <3>2
    <2>9. subscribed' \/ version' = 0
      BY <1>1, <1>2 DEF VersionsInv
    <2>10. \A i \in DOMAIN inbox' : inbox'[i].method = "snapshot"
              => inbox'[i].version <= version' /\ (inbox'[i].version = version' => query'.version = version')
      BY <2>1, <2>4
    <2>11. \A k \in DOMAIN wire' : OfQuery(wire'[k])
              => /\ wire'[k].request.version <= version'
                 /\ wire'[k].request.version = version' => query'.version = version'
      BY <2>1, <2>5
    <2>12. QED BY <2>6, <2>7, <2>8, <2>9, <2>10, <2>11 DEF VersionsInv, Current, OfQuery, IsEvent
  <1>22. ClearInv'
    <2>1. \A i, j \in DOMAIN inbox' : inbox'[i].method = "clearUsage" /\ i < j
                                     => inbox'[j].method = "snapshot"
      BY <1>1, <1>20 DEF ClearInv
    <2>2. ASSUME NEW k \in DOMAIN wire', Cleared(wire'[k])
          PROVE  /\ ~running' /\ records' = {} /\ apps' = {} /\ deferred' = {}
                 /\ \A i \in DOMAIN inbox' : inbox'[i].method = "snapshot"
                 /\ \A j \in DOMAIN wire' : k < j => ~IsEvent(wire'[j])
      <3>1. CASE k = a
        <4>1. m.type = "answer" /\ request.method = "clearUsage" /\ wire'[k] = m
          BY <1>2, <2>2, <3>1 DEF Cleared, m
        <4>2. Clears(request, m) \/ (Answers(request, m) /\ m.type = "failure")
          BY <1>5, <4>1 DEF Pauses, Answers
        <4>3. /\ running' = FALSE /\ records' = {} /\ apps' = {} /\ deferred' = {}
          BY <4>1, <4>2 DEF Clears
        <4>4. \A i \in DOMAIN inbox' : inbox'[i].method = "snapshot"
          BY <1>1, <1>2, <1>20, <4>1 DEF ClearInv
        <4>5. late = {}
          BY <1>12, <4>1 DEF Pauses
        <4>6. \A j \in DOMAIN wire' : k < j => ~IsEvent(wire'[j])
          BY <1>3, <1>6, <3>1, <4>1, <4>5
        <4>7. QED BY <4>3, <4>4, <4>6
      <3>2. CASE k \in DOMAIN wire
        <4>1. Cleared(wire[k])
          BY <1>3, <2>2, <3>2
        <4>2. /\ ~running /\ records = {} /\ apps = {} /\ deferred = {}
              /\ \A i \in DOMAIN inbox : inbox[i].method = "snapshot"
              /\ \A j \in DOMAIN wire : k < j => ~IsEvent(wire[j])
          BY <1>1, <3>2, <4>1 DEF ClearInv
        <4>3. request.method = "snapshot"
          BY <1>2, <1>20, <4>2
        <4>4. Answers(request, m) /\ late = {}
          BY <1>5, <4>3 DEF Pauses, Clears
        <4>5. /\ ~running' /\ records' = {} /\ apps' = {} /\ deferred' = {}
          BY <4>2, <4>4 DEF Answers
        <4>6. \A i \in DOMAIN inbox' : inbox'[i].method = "snapshot"
          BY <1>20, <4>2
        <4>7. \A j \in DOMAIN wire' : k < j => ~IsEvent(wire'[j])
          BY <1>3, <1>6, <4>2, <4>4 DEF m
        <4>8. QED BY <4>5, <4>6, <4>7
      <3>3. QED BY <1>3, <1>6, <2>2, <3>1, <3>2
    <2>3. QED BY <2>1, <2>2 DEF ClearInv, Cleared, IsEvent
  \* Nothing changes in a kind of records that stays exact, unless all is cleared.
  <1>23. ASSUME NEW kind \in Kinds, NEW x, IF kind = "usage" THEN "half" \notin past' ELSE past' = {},
                NEW j \in DOMAIN wire \cup {0}
         PROVE  Coming(kind, x, j)' <=> Coming(kind, x, j)
    <2>1. \A k \in late : wire'[k].type # kind
      BY <1>4, <1>17, <1>23
    <2>2. m.type # kind
      BY <1>6 DEF Kinds
    <2>3. QED BY <1>3, <2>1, <2>2 DEF Coming, m
  <1>24. ASSUME NEW kind \in Kinds, NEW x, NEW y, IF kind = "usage" THEN "half" \notin past' ELSE past' = {}
         PROVE  Saved(kind, x, y)' <=> Saved(kind, x, y)
    BY <1>8 DEF Saved, Newer
  <1>25. \/ \A j \in DOMAIN wire \cup {0} : ClearedAfter(j)'
         \/ "half" \in past'
         \/ /\ records' = records
            /\ past' = {} => apps' = apps
            /\ \A j \in DOMAIN wire \cup {0} : ClearedAfter(j)' <=> ClearedAfter(j)
    <2>1. CASE Clears(request, m)
      <3>1. CASE m.type = "answer"
        <4>1. Cleared(wire'[a])
          BY <1>2, <2>1, <3>1 DEF Clears, Cleared, m
        <4>2. \A j \in DOMAIN wire \cup {0} : j < a
          BY <1>3
        <4>3. QED BY <1>3, <4>1, <4>2 DEF ClearedAfter
      <3>2. CASE m.type # "answer"
        BY <2>1, <3>2 DEF Clears
      <3>3. QED BY <3>1, <3>2
    <2>2. CASE ~Clears(request, m)
      <3>1. records' = records /\ (past' = {} => apps' = apps) /\ ~Cleared(m)
        BY <1>2, <1>5, <2>2 DEF Answers, Pauses, Cleared
      <3>2. \A j \in DOMAIN wire \cup {0} : ClearedAfter(j)' <=> ClearedAfter(j)
        BY <1>3, <1>6, <3>1 DEF ClearedAfter, m
      <3>3. QED BY <3>1, <3>2
    <2>3. QED BY <2>1, <2>2
  <1>26. ASSUME NEW j \in DOMAIN wire', Latest(wire[j])', j # a
         PROVE  j \in DOMAIN wire /\ wire'[j] = wire[j] /\ Latest(wire[j])
    <2>1. Snapped(wire'[j]) /\ wire'[j].request.version = version'
      BY <1>26 DEF Latest, Snapped
    <2>2. j \in DOMAIN wire /\ wire'[j] = wire[j]
      BY <1>3, <1>6, <1>26, <2>1
    <2>3. QED BY <1>2, <2>1, <2>2 DEF Latest
  <1>27. CopyInv'
    <2>1. ASSUME loaded', ~ClearedAfter(0)', NEW kind \in Kinds, NEW x \in Record,
                 IF kind = "usage" THEN "half" \notin past' ELSE past' = {}
          PROVE  ViewExact(kind, x)'
      <3>1. records' = records /\ (past' = {} => apps' = apps) /\ ~ClearedAfter(0)
        BY <1>25, <2>1
      <3>2. ViewExact(kind, x)
        BY <1>1, <1>2, <1>17, <2>1, <3>1 DEF CopyInv
      <3>3. Stored(kind)' = Stored(kind)
        BY <2>1, <3>1 DEF Stored
      <3>4. Coming(kind, x, 0)' <=> Coming(kind, x, 0)
        BY <1>23, <2>1
      <3>5. Got(view', kind) = Got(view, kind) /\ range' = range
        BY <1>2
      <3>6. x \in Stored(kind)' /\ x.day \in range'
               <=> x \in Got(view', kind) \/ (x.day \in range' /\ Coming(kind, x, 0)')
        BY <3>2, <3>3, <3>4, <3>5 DEF ViewExact, InRange
      <3>7. QED BY <3>6 DEF ViewExact, InRange, Got, Stored
    <2>2. ASSUME NEW j \in DOMAIN wire', Latest(wire[j])', ~ClearedAfter(j)', NEW kind \in Kinds, NEW x \in Record,
                 IF kind = "usage" THEN "half" \notin past' ELSE past' = {}
          PROVE  AnswerExact(kind, x, j)'
      <3>1. CASE j # a
        <4>1. j \in DOMAIN wire /\ wire'[j] = wire[j] /\ Latest(wire[j])
          BY <1>26, <2>2, <3>1
        <4>2. records' = records /\ (past' = {} => apps' = apps) /\ ~ClearedAfter(j)
          BY <1>25, <2>2, <4>1
        <4>3. AnswerExact(kind, x, j)
          BY <1>1, <1>17, <2>2, <4>1, <4>2 DEF CopyInv
        <4>4. Stored(kind)' = Stored(kind)
          BY <2>2, <4>2 DEF Stored
        <4> DEFINE y == wire[j]
        <4>5. Coming(kind, x, j)' <=> Coming(kind, x, j)
          BY <1>23, <2>2, <4>1
        <4>6. Saved(kind, x, y)' <=> Saved(kind, x, y)
          BY <1>8, <4>1 DEF Saved, Newer
        <4>7. x \in Stored(kind) /\ x.day \in y.request.range
               <=> \/ x \in Got(y.copy, kind)
                   \/ x.day \in y.request.range /\ (Coming(kind, x, j) \/ Saved(kind, x, y))
          BY <4>3 DEF AnswerExact, InRange
        <4>8. x \in Stored(kind)' /\ x.day \in y.request.range
               <=> \/ x \in Got(y.copy, kind)
                   \/ x.day \in y.request.range /\ (Coming(kind, x, j)' \/ Saved(kind, x, y)')
          BY <4>4, <4>5, <4>6, <4>7
        <4>9. y = y'
          BY <4>1
        <4> HIDE DEF y
        <4>10. QED
          BY <4>8, <4>9 DEF AnswerExact, InRange, Got, Stored, y
      <3>2. CASE j = a
        <4>1. Snapped(m) /\ wire'[j] = m
          BY <2>2, <3>2 DEF Latest, Snapped, m
        <4>2. /\ late = {} /\ records' = records /\ apps' = apps
              /\ m.copy.records = InRange(records, m.request.range)
              /\ m.copy.apps = InRange(apps, m.request.range)
              /\ m.revision = revision
          BY <1>13, <4>1
        <4>3. x \in Stored(kind)' /\ x.day \in m.request.range <=> x \in Got(m.copy, kind)
          BY <4>2 DEF Stored, Got, InRange
        <4>4. ~Coming(kind, x, j)'
          <5>1. \A k \in DOMAIN wire' : ~(j < k)
            BY <1>3, <3>2, <4>2
          <5>2. QED BY <5>1 DEF Coming
        <4>5. ~(\E e \in Kept' : e.type = kind /\ e.record = x /\ Newer(e, m))
          <5> SUFFICES ASSUME NEW e \in Kept PROVE ~Newer(e, m)
            BY <1>8
          <5>1. e.revision <= revision /\ e.revision \in Int
            BY <1>1, <1>8, EventTypes DEF EventsNumbered, Numbered
          <5>2. QED BY <1>2, <4>2, <5>1 DEF Newer
        <4>6. ~Saved(kind, x, wire[j])'
          BY <4>1, <4>5 DEF Saved, Newer
        <4>7. QED
          BY <4>1, <4>3, <4>4, <4>6 DEF AnswerExact, InRange, Got, Stored
      <3>3. QED BY <3>1, <3>2
    <2>3. loaded' => subscribed'
      BY <1>1, <1>2 DEF CopyInv
    <2>4. QED BY <2>1, <2>2, <2>3 DEF CopyInv, Exact
  <1>28. TotalInv'
    <2> SUFFICES ASSUME "half" \notin past'
                 PROVE  TotalInv'
      BY DEF TotalInv
    <2>1. \A j \in DOMAIN wire \cup {0} : UsageAfter(j)' <=> UsageAfter(j)
      BY <1>3, <1>4, <1>6 DEF UsageAfter, m
    <2>2. "half" \notin past
      BY <1>9
    <2>3. ASSUME ~ClearedAfter(0)', NEW k \in DOMAIN wire', wire'[k].type = "usage", ~UsageAfter(k)'
          PROVE  wire'[k].total = Cardinality(records')
      <3>1. k \in DOMAIN wire /\ wire'[k] = wire[k]
        BY <1>3, <1>4, <1>6, <2>3 DEF m
      <3>2. ~UsageAfter(k) /\ ~ClearedAfter(0) /\ records' = records
        BY <1>25, <2>1, <2>3, <3>1
      <3>3. QED BY <1>1, <2>2, <2>3, <3>1, <3>2 DEF TotalInv
    <2>4. loaded' /\ ~ClearedAfter(0)' /\ ~UsageAfter(0)' => view'.total = Cardinality(records')
      <3>1. ~UsageAfter(0)' => ~UsageAfter(0)
        BY <2>1
      <3>2. ~ClearedAfter(0)' => ~ClearedAfter(0) /\ records' = records
        BY <1>25
      <3>3. QED BY <1>1, <1>2, <2>2, <3>1, <3>2 DEF TotalInv
    <2>5. ASSUME NEW j \in DOMAIN wire', Latest(wire[j])', ~ClearedAfter(j)', ~UsageAfter(j)'
          PROVE  AnswerTotal(wire[j], Cardinality(records))'
      <3>1. CASE j # a
        <4>1. j \in DOMAIN wire /\ wire'[j] = wire[j] /\ Latest(wire[j])
          BY <1>26, <2>5, <3>1
        <4>2. records' = records /\ ~ClearedAfter(j) /\ ~UsageAfter(j)
          BY <1>25, <2>1, <2>5, <4>1
        <4>3. AnswerTotal(wire[j], Cardinality(records))
          BY <1>1, <2>2, <4>1, <4>2 DEF TotalInv
        <4>4. QED
          BY <1>2, <4>1, <4>2, <4>3 DEF AnswerTotal, AppliesAfter, Applies, Newer
      <3>2. CASE j = a
        <4>1. Snapped(m) /\ wire'[j] = m
          BY <2>5, <3>2 DEF Latest, Snapped, m
        <4>2. records' = records /\ m.copy.total = Cardinality(records) /\ m.revision = revision
          BY <1>13, <4>1
        <4>3. ASSUME NEW k \in DOMAIN query.events
              PROVE  ~(query.events[k].revision > m.revision)
          <5>1. query.events[k] \in Kept
            BY DEF Kept
          <5>2. query.events[k].revision <= revision /\ query.events[k].revision \in Int
            BY <1>1, <1>8, <5>1, EventTypes DEF EventsNumbered, Numbered
          <5>3. QED BY <1>2, <4>2, <5>2
        <4>4. \A k \in DOMAIN query.events : ~(query.events[k].revision > m.revision)
          BY <4>3
        <4>5. QED
          BY <1>2, <4>1, <4>2, <4>4 DEF AnswerTotal, AppliesAfter, Applies, Newer
      <3>3. QED BY <3>1, <3>2
    <2>6. QED BY <2>3, <2>4, <2>5 DEF TotalInv
  <1>29. QED
    BY <1>14, <1>15, <1>18, <1>21, <1>22, <1>27, <1>28 DEF SyncInv

-----------------------------------------------------------------------------
(* The page sends.                                                         *)

Sent(request, n) ==
    /\ inbox' \in Seq(Queries \cup Others) /\ Longer(inbox, inbox', {n}) /\ inbox'[n] = request
    /\ requests' = requests + 1 /\ requests' \in 0 .. MaxRequests

LEMMA SendIs ==
    ASSUME TypeInv, NEW request \in Queries \cup Others, Send(request)
    PROVE  \E n : Sent(request, n)
  <1> DEFINE n == Len(inbox) + 1
             S == Queries \cup Others
  <1>1. inbox \in Seq(S) /\ Len(inbox) \in Nat /\ inbox' = Append(inbox, request)
    BY LenProperties DEF TypeInv, Send
  <1>2. requests' = requests + 1 /\ requests' \in 0 .. MaxRequests
    BY BoundsAssumption DEF TypeInv, Send
  <1>3. request \in S
    OBVIOUS
  <1> HIDE DEF S
  <1>4. inbox' = inbox \o <<request>> /\ <<request>> \in Seq(S) /\ Len(<<request>>) = 1 /\ <<request>>[1] = request
    BY <1>1, <1>3, AppendIsConcat
  <1>5. /\ inbox' \in Seq(S)
        /\ Longer(inbox, inbox', (Len(inbox) + 1) .. (Len(inbox) + Len(<<request>>)))
    BY <1>1, <1>4, Appended
  <1>6. inbox'[Len(inbox) + 1] = request
    BY <1>1, <1>3, AppendProperties
  <1>7. (Len(inbox) + 1) .. (Len(inbox) + Len(<<request>>)) = {n}
    BY <1>1, <1>4
  <1>8. Sent(request, n)
    BY <1>2, <1>5, <1>6, <1>7 DEF Sent, S
  <1>9. QED BY <1>8

LEMMA QueryKeeps ==
    ASSUME SyncInv, NEW days \in Ranges, QueryRange(days)
    PROVE  SyncInv'
  <1> DEFINE request == [method |-> "snapshot", version |-> version + 1, range |-> days]
  <1>1. /\ TypeInv /\ RecordsNumbered /\ EventsNumbered /\ SnapshotsNumbered
        /\ EventsDistinct /\ SnapshotsDistinct /\ VersionsInv /\ ClearInv /\ CopyInv /\ TotalInv
    BY DEF SyncInv, NumbersInv, OnceInv
  <1>2. /\ UNCHANGED <<running, revision, records, apps, deferred, wire, view, loaded, past, doubled>>
        /\ version' = version + 1 /\ query' = [version |-> version + 1, events |-> <<>>] /\ subscribed' = TRUE
        /\ range' = (IF subscribed THEN range ELSE days) /\ Send(request)
    BY DEF QueryRange, backendVars
  <1>3. version \in Nat /\ version' \in 1 .. MaxRequests
    BY <1>1, <1>2, BoundsAssumption DEF TypeInv, Send
  <1>4. request \in Queries
    BY <1>2, <1>3 DEF Queries
  <1> HIDE DEF request
  <1>5. PICK n : Sent(request, n)
    BY <1>1, <1>2, <1>4, SendIs
  <1>6. /\ inbox' \in Seq(Queries \cup Others) /\ DOMAIN inbox' = DOMAIN inbox \cup {n} /\ n \notin DOMAIN inbox
        /\ \A j \in DOMAIN inbox : inbox'[j] = inbox[j] /\ j < n
        /\ inbox'[n] = request /\ requests' = requests + 1 /\ requests' \in 0 .. MaxRequests
    BY <1>5 DEF Sent, Longer
  <1>7. Events' = Events /\ Kept' = {} /\ DOMAIN query'.events = {}
    <2>1. query'.events = <<>> /\ DOMAIN <<>> = {}
      BY <1>2
    <2>2. QED BY <1>2, <2>1 DEF Events, Kept
  <1>8. request.method = "snapshot" /\ request.version = version' /\ request.version = version + 1
    BY <1>2 DEF request
  <1>9. TypeInv'
    <2>1. range' \in Ranges
      BY <1>1, <1>2 DEF TypeInv
    <2>2. query' \in [version : 0 .. MaxRequests, events : Seq(Event)]
      BY <1>2, <1>3
    <2>3. version' <= requests' /\ version' \in 0 .. MaxRequests
      BY <1>1, <1>2, <1>3, <1>6 DEF TypeInv
    <2>4. QED BY <1>1, <1>2, <1>6, <2>1, <2>2, <2>3 DEF TypeInv
  <1>10. NumbersInv'
    <2>1. RecordsNumbered'
      BY <1>1, <1>2 DEF RecordsNumbered
    <2>2. EventsNumbered'
      BY <1>1, <1>2, <1>7 DEF EventsNumbered, Numbered
    <2>3. SnapshotsNumbered'
      BY <1>1, <1>2 DEF SnapshotsNumbered, SnapshotNumbered
    <2>4. QED BY <2>1, <2>2, <2>3 DEF NumbersInv
  <1>11. OnceInv'
    <2>1. EventsDistinct'
      BY <1>1, <1>2, <1>7 DEF EventsDistinct, Lacks, Got, Distinct
    <2>2. SnapshotsDistinct'
      BY <1>1, <1>2, <1>7 DEF SnapshotsDistinct, Exact
    <2>3. QED BY <2>1, <2>2 DEF OnceInv
  \* What was asked before is not the latest any more.
  <1>12. \A v : Current(v) => v # version'
    <2> SUFFICES ASSUME NEW v, v <= version, v = version + 1 PROVE FALSE
      BY <1>2 DEF Current
    <2>1. QED BY <1>3
  <1>13. \A v \in 1 .. MaxRequests : Current(v) => v <= version'
    BY <1>2, <1>3 DEF Current
  <1>14. /\ \A i \in DOMAIN inbox : inbox[i].method = "snapshot" => inbox[i].version \in 1 .. MaxRequests
         /\ \A k \in DOMAIN wire : OfQuery(wire[k]) => wire[k].request.version \in 1 .. MaxRequests
    <2>1. \A x \in Queries \cup Others : x.method = "snapshot" => x.version \in 1 .. MaxRequests
      BY DEF Queries, Others
    <2>2. \A i \in DOMAIN inbox : inbox[i] \in Queries \cup Others
      BY <1>1, ElementOfSeq, LenProperties DEF TypeInv
    <2>3. \A k \in DOMAIN wire : ~IsEvent(wire[k]) => wire[k].request \in Queries \cup Others
      BY <1>1, WireTypes, MessageTypes
    <2>4. QED BY <2>1, <2>2, <2>3 DEF OfQuery
  <1>15. VersionsInv'
    <2>1. query'.version = version'
      BY <1>2
    <2>2. \A i \in DOMAIN inbox' : inbox'[i].method = "snapshot"
              => inbox'[i].version <= version'
      <3>1. \A i \in DOMAIN inbox : inbox[i].method = "snapshot" => inbox[i].version <= version'
        BY <1>1, <1>13, <1>14 DEF VersionsInv
      <3>2. version' <= version'
        BY <1>3
      <3>3. QED BY <1>6, <1>8, <3>1, <3>2
    <2>3. \A k \in DOMAIN wire : OfQuery(wire[k]) => wire[k].request.version <= version'
      BY <1>1, <1>13, <1>14 DEF VersionsInv
    <2>4. \A i, j \in DOMAIN inbox' :
             i # j /\ inbox'[i].method = "snapshot" /\ inbox'[j].method = "snapshot"
                => inbox'[i].version # inbox'[j].version
      BY <1>1, <1>6, <1>8, <1>12 DEF VersionsInv
    <2>5. \A i \in DOMAIN inbox', k \in DOMAIN wire :
             inbox'[i].method = "snapshot" /\ OfQuery(wire[k])
                => inbox'[i].version # wire[k].request.version
      BY <1>1, <1>6, <1>8, <1>12 DEF VersionsInv
    <2>6. \A j, k \in DOMAIN wire : j # k /\ OfQuery(wire[j]) /\ OfQuery(wire[k])
             => wire[j].request.version # wire[k].request.version
      BY <1>1 DEF VersionsInv
    <2>7. QED BY <1>2, <2>1, <2>2, <2>3, <2>4, <2>5, <2>6 DEF VersionsInv, Current
  <1>16. ClearInv'
    BY <1>1, <1>2, <1>6, <1>8 DEF ClearInv
  <1>17. \A j \in DOMAIN wire : ~Latest(wire[j])'
    <2> SUFFICES ASSUME NEW j \in DOMAIN wire, Latest(wire[j])' PROVE FALSE
      OBVIOUS
    <2>1. Snapped(wire[j]) /\ wire[j].request.version = version'
      BY <1>2 DEF Latest
    <2>2. wire[j] \in Messages
      BY <1>1, WireTypes
    <2>3. OfQuery(wire[j])
      BY <2>1, <2>2, MessageTypes DEF OfQuery, Snapped
    <2>4. Current(wire[j].request.version)
      BY <1>1, <2>3 DEF VersionsInv
    <2>5. QED BY <1>12, <2>1, <2>4
  <1>18. CopyInv'
    <2>1. ASSUME loaded', ~ClearedAfter(0)', NEW kind \in Kinds, NEW x \in Record, Exact(kind)'
          PROVE  ViewExact(kind, x)'
      <3>1. ~ClearedAfter(0) /\ Exact(kind) /\ loaded /\ range' = range
        BY <1>1, <1>2, <2>1 DEF ClearedAfter, Exact, CopyInv
      <3>2. ViewExact(kind, x)
        BY <1>1, <3>1 DEF CopyInv
      <3>3. QED BY <1>2, <3>1, <3>2 DEF ViewExact, InRange, Got, Stored, Coming
    <2>2. QED BY <1>2, <1>17, <2>1 DEF CopyInv
  <1>19. TotalInv'
    <2>1. \A j : (ClearedAfter(j)' <=> ClearedAfter(j)) /\ (UsageAfter(j)' <=> UsageAfter(j))
      BY <1>2 DEF ClearedAfter, UsageAfter
    <2>2. QED BY <1>1, <1>2, <1>17, <2>1 DEF TotalInv
  <1>20. QED
    BY <1>9, <1>10, <1>11, <1>15, <1>16, <1>18, <1>19 DEF SyncInv

LEMMA RequestKeeps ==
    ASSUME SyncInv, NEW request \in Others, Request(request)
    PROVE  SyncInv'
  <1>1. /\ TypeInv /\ RecordsNumbered /\ EventsNumbered /\ SnapshotsNumbered
        /\ EventsDistinct /\ SnapshotsDistinct /\ VersionsInv /\ ClearInv /\ CopyInv /\ TotalInv
    BY DEF SyncInv, NumbersInv, OnceInv
  <1>2. /\ UNCHANGED <<running, revision, records, apps, deferred, wire, view, range, subscribed, loaded,
                       version, query, past, doubled>>
        /\ Send(request) /\ ~Clearing /\ ClearAnswered
    BY DEF Request, backendVars, pageVars
  <1>3. PICK n : Sent(request, n)
    BY <1>1, <1>2, SendIs
  <1>4. /\ inbox' \in Seq(Queries \cup Others) /\ DOMAIN inbox' = DOMAIN inbox \cup {n} /\ n \notin DOMAIN inbox
        /\ \A j \in DOMAIN inbox : inbox'[j] = inbox[j] /\ j < n
        /\ inbox'[n] = request /\ requests' = requests + 1 /\ requests' \in 0 .. MaxRequests
    BY <1>3 DEF Sent, Longer
  <1>5. Events' = Events /\ Kept' = Kept
    BY <1>2 DEF Events, Kept
  <1>6. request.method # "snapshot"
    BY DEF Others
  <1>7. TypeInv'
    <2>1. version' <= requests'
      BY <1>1, <1>2, <1>4, BoundsAssumption DEF TypeInv
    <2>2. QED BY <1>1, <1>2, <1>4, <2>1 DEF TypeInv
  <1>8. NumbersInv'
    <2>1. RecordsNumbered'
      BY <1>1, <1>2 DEF RecordsNumbered
    <2>2. EventsNumbered'
      BY <1>1, <1>2, <1>5 DEF EventsNumbered, Numbered
    <2>3. SnapshotsNumbered'
      BY <1>1, <1>2 DEF SnapshotsNumbered, SnapshotNumbered
    <2>4. QED BY <2>1, <2>2, <2>3 DEF NumbersInv
  <1>9. OnceInv'
    <2>1. EventsDistinct'
      BY <1>1, <1>2, <1>5 DEF EventsDistinct, Lacks, Got, Distinct
    <2>2. SnapshotsDistinct'
      BY <1>1, <1>2, <1>5 DEF SnapshotsDistinct, Exact
    <2>3. QED BY <2>1, <2>2 DEF OnceInv
  <1>10. VersionsInv'
    <2>1. \A i \in DOMAIN inbox' : inbox'[i].method = "snapshot" => i \in DOMAIN inbox /\ inbox'[i] = inbox[i]
      BY <1>4, <1>6
    <2>2. QED BY <1>1, <1>2, <2>1 DEF VersionsInv, Current
  \* Nothing that clears is under way.
  <1>11. ClearInv'
    <2>1. \A i \in DOMAIN inbox : inbox[i].method # "clearUsage"
      BY <1>2 DEF Clearing
    <2>2. \A k \in DOMAIN wire : ~Cleared(wire[k])
      <3> SUFFICES ASSUME NEW k \in DOMAIN wire, Cleared(wire[k]) PROVE FALSE
        OBVIOUS
      <3>1. ~IsEvent(wire[k])
        BY <1>1, WireTypes, MessageTypes
      <3>2. QED BY <1>2, <3>1 DEF ClearAnswered, Cleared
    <2>3. \A i, j \in DOMAIN inbox' : inbox'[i].method = "clearUsage" /\ i < j
                                     => inbox'[j].method = "snapshot"
      <3> SUFFICES ASSUME NEW i \in DOMAIN inbox', NEW j \in DOMAIN inbox', inbox'[i].method = "clearUsage", i < j
                   PROVE  FALSE
        OBVIOUS
      <3>1. i = n
        BY <1>4, <2>1
      <3>2. j \in Int /\ n \in Int /\ (j = n \/ j < n)
        <4>1. DOMAIN inbox' = 1 .. Len(inbox') /\ Len(inbox') \in Nat
          BY <1>4, LenProperties
        <4>2. QED BY <1>4, <4>1
      <3>3. QED BY <3>1, <3>2
    <2>4. QED BY <1>2, <2>2, <2>3 DEF ClearInv, Cleared
  <1>12. CopyInv' /\ TotalInv'
    <2>1. \A j : (ClearedAfter(j)' <=> ClearedAfter(j)) /\ (UsageAfter(j)' <=> UsageAfter(j))
      BY <1>2 DEF ClearedAfter, UsageAfter
    <2>2. \A j : Latest(wire[j])' <=> Latest(wire[j])
      BY <1>2 DEF Latest, Snapped
    <2>3. ASSUME NEW kind, NEW x
          PROVE  /\ ViewExact(kind, x)' <=> ViewExact(kind, x)
                 /\ \A j : AnswerExact(kind, x, j)' <=> AnswerExact(kind, x, j)
                 /\ Exact(kind)' <=> Exact(kind)
      BY <1>2, <1>5 DEF ViewExact, AnswerExact, Exact, InRange, Got, Stored, Coming, Saved, Newer
    <2>4. CopyInv'
      BY <1>1, <1>2, <2>1, <2>2, <2>3 DEF CopyInv
    <2>5. \A j : AnswerTotal(wire[j], Cardinality(records))' <=> AnswerTotal(wire[j], Cardinality(records))
      BY <1>2 DEF AnswerTotal, AppliesAfter, Applies, Newer
    <2>6. TotalInv'
      BY <1>1, <1>2, <2>1, <2>2, <2>5 DEF TotalInv
    <2>7. QED BY <2>4, <2>6
  <1>13. QED
    BY <1>7, <1>8, <1>9, <1>10, <1>11, <1>12 DEF SyncInv

LEMMA StutterKeeps ==
    ASSUME SyncInv, UNCHANGED vars
    PROVE  SyncInv'
  <1>1. UNCHANGED <<running, revision, records, apps, deferred, inbox, wire, view, range, subscribed, loaded,
                    version, query, requests, past, doubled>>
    BY DEF vars, backendVars, pageVars
  <1>2. TypeInv' <=> TypeInv
    BY <1>1 DEF TypeInv
  <1>3. NumbersInv' <=> NumbersInv
    BY <1>1 DEF NumbersInv, RecordsNumbered, EventsNumbered, SnapshotsNumbered, Numbered, SnapshotNumbered, Events, Kept
  <1>4. OnceInv' <=> OnceInv
    BY <1>1 DEF OnceInv, EventsDistinct, SnapshotsDistinct, Lacks, Got, Distinct, Exact, Newer, Events, Kept
  <1>5. VersionsInv' <=> VersionsInv
    BY <1>1 DEF VersionsInv, Current
  <1>6. ClearInv' <=> ClearInv
    BY <1>1 DEF ClearInv
  <1>7. CopyInv' <=> CopyInv
    BY <1>1 DEF CopyInv, ClearedAfter, Latest, ViewExact, AnswerExact, Exact, InRange, Got, Stored, Coming, Saved, Kept
  <1>8. TotalInv' <=> TotalInv
    BY <1>1 DEF TotalInv, ClearedAfter, UsageAfter, Latest, AnswerTotal, AppliesAfter, Applies
  <1>9. QED
    BY <1>2, <1>3, <1>4, <1>5, <1>6, <1>7, <1>8 DEF SyncInv

-----------------------------------------------------------------------------
(* An event arrives.                                                       *)

Remaining(k, place) ==
    /\ k \in DOMAIN wire /\ wire' \in Seq(Messages) /\ Without(wire, wire', k, place)
    /\ UNCHANGED <<running, revision, records, apps, deferred, inbox, subscribed, version, requests, past>>
Applying(event) ==
    /\ event \in Event
    /\ view' \in Copies
    /\ \A kind \in Kinds : \A x : x \in Got(view', kind)
          <=> x \in Got(view, kind) \/ (subscribed /\ x.day \in range /\ event.type = kind /\ event.record = x)
    /\ view'.total = IF subscribed /\ event.type = "usage" THEN event.total ELSE view.total
    /\ IF subscribed /\ query # NoQuery
       THEN /\ query'.version = query.version /\ query' \in [version : 0 .. MaxRequests, events : Seq(Event)]
            /\ \E n : Longer(query.events, query'.events, {n}) /\ query'.events[n] = event
       ELSE query' = query
    /\ doubled = FALSE /\ ~(subscribed /\ CountsTwice(view, event)) => doubled' = FALSE

LEMMA EventIs ==
    ASSUME TypeInv, NEW k \in DOMAIN wire, EventArrives(k)
    PROVE  /\ \E place : Remaining(k, place)
           /\ Applying(wire[k]) /\ UNCHANGED <<range, loaded>>
           /\ IsEvent(wire[k]) /\ \A j \in DOMAIN wire : j < k => ~IsEvent(wire[j])
  <1> DEFINE event == wire[k]
  <1>1. /\ IsEvent(event) /\ wire' = RemoveAt(wire, k)
        /\ \A j \in 1 .. (k - 1) : ~IsEvent(wire[j])
        /\ UNCHANGED <<running, revision, records, apps, deferred, inbox, range, subscribed, loaded, version, requests, past>>
    BY DEF EventArrives, backendVars
  <1>2. event \in Event
    BY <1>1, WireTypes, MessageTypes
  <1>3. wire' \in Seq(Messages) /\ \E place : Without(wire, wire', k, place)
    BY <1>1, Removal DEF TypeInv
  <1>4. \A j \in DOMAIN wire : j < k => ~IsEvent(wire[j])
    BY <1>1, WireTypes
  <1>5. view \in Copies /\ query \in [version : 0 .. MaxRequests, events : Seq(Event)] /\ query.events \in Seq(Event)
    BY DEF TypeInv
  <1> HIDE DEF event
  <1>6. Applying(event)
    <2>1. CASE subscribed
      <3>1. /\ view' = Applied(view, event, range)
            /\ query' = Remembered(query, event)
            /\ doubled' = (doubled \/ CountsTwice(view, event))
        BY <2>1 DEF EventArrives, event
      <3>2. /\ view' \in Copies
            /\ \A kind \in Kinds : \A x : x \in Got(view', kind)
                 <=> x \in Got(view, kind) \/ (x.day \in range /\ event.type = kind /\ event.record = x)
            /\ view'.total = IF event.type = "usage" THEN event.total ELSE view.total
        BY <1>2, <1>5, <3>1, AppliedIs
      <3>3. CASE query = NoQuery
        <4>1. query' = query
          BY <3>1, <3>3 DEF Remembered
        <4>2. QED BY <1>2, <2>1, <3>1, <3>2, <3>3, <4>1 DEF Applying
      <3>4. CASE query # NoQuery
        <4>1. query' = [query EXCEPT !.events = Append(@, event)]
          BY <3>1, <3>4 DEF Remembered
        <4>2. query'.version = query.version /\ query'.events = Append(query.events, event)
          BY <1>5, <4>1
        <4>3. Append(query.events, event) \in Seq(Event)
          BY <1>2, <1>5
        <4>4. query' \in [version : 0 .. MaxRequests, events : Seq(Event)]
          BY <1>5, <4>1, <4>3
        <4> DEFINE n == Len(query.events) + 1
        <4>5. Longer(query.events, query'.events, {n}) /\ query'.events[n] = event
          <5>1. Append(query.events, event) = query.events \o <<event>> /\ <<event>> \in Seq(Event)
            BY <1>2, <1>5, AppendIsConcat
          <5>2. Longer(query.events, query.events \o <<event>>,
                       (Len(query.events) + 1) .. (Len(query.events) + Len(<<event>>)))
            BY <1>5, <5>1, Appended
          <5>3. (Len(query.events) + 1) .. (Len(query.events) + Len(<<event>>)) = {n}
            <6>1. Len(<<event>>) = 1 /\ Len(query.events) \in Nat
              BY <1>5, LenProperties
            <6>2. QED BY <6>1
          <5>4. Append(query.events, event)[n] = event
            BY <1>2, <1>5, AppendProperties
          <5>5. QED BY <4>2, <5>1, <5>2, <5>3, <5>4
        <4> HIDE DEF n
        <4>6. QED BY <1>2, <2>1, <3>1, <3>2, <3>4, <4>2, <4>4, <4>5 DEF Applying
      <3>5. QED BY <3>3, <3>4
    <2>2. CASE ~subscribed
      <3>1. view' = view /\ query' = query /\ doubled' = doubled
        BY <2>2 DEF EventArrives
      <3>2. QED BY <1>2, <1>5, <2>2, <3>1 DEF Applying
    <2>3. QED BY <2>1, <2>2
  <1>7. QED
    BY <1>1, <1>3, <1>4, <1>6 DEF event, Remaining

\* What is left keeps its order, and what was to come after it.
LEMMA RemainingIs ==
    ASSUME TypeInv, NEW k, NEW place, Remaining(k, place)
    PROVE  /\ \A j \in DOMAIN wire' : /\ place[j] \in DOMAIN wire /\ place[j] # k
                                      /\ wire'[j] = wire[place[j]] /\ wire[place[j]] \in Messages
           /\ \A i, j \in DOMAIN wire' : (i < j <=> place[i] < place[j]) /\ (place[i] = place[j] => i = j)
           /\ \A i \in DOMAIN wire : i # k => \E j \in DOMAIN wire' : place[j] = i
           /\ Events' \subseteq Events
           /\ \A e \in Events : e = wire[k] \/ e \in Events'
           /\ ClearedAfter(0) <=> ClearedAfter(0)' \/ Cleared(wire[k])
           /\ \A j \in DOMAIN wire' :
                 ClearedAfter(place[j]) <=> ClearedAfter(j)' \/ (place[j] < k /\ Cleared(wire[k]))
           /\ UsageAfter(0) <=> UsageAfter(0)' \/ wire[k].type = "usage"
           /\ \A j \in DOMAIN wire' :
                 UsageAfter(place[j]) <=> UsageAfter(j)' \/ (place[j] < k /\ wire[k].type = "usage")
           /\ \A kind, x : Coming(kind, x, 0)
                 <=> Coming(kind, x, 0)' \/ (wire[k].type = kind /\ wire[k].record = x)
           /\ \A kind, x : \A j \in DOMAIN wire' : Coming(kind, x, place[j])
                 <=> Coming(kind, x, j)' \/ (place[j] < k /\ wire[k].type = kind /\ wire[k].record = x)
  <1>1. /\ k \in DOMAIN wire
        /\ \A j \in DOMAIN wire' : /\ place[j] \in DOMAIN wire /\ place[j] # k /\ wire'[j] = wire[place[j]]
                                   /\ wire[place[j]] \in Messages
        /\ \A i, j \in DOMAIN wire' : (i < j <=> place[i] < place[j]) /\ (place[i] = place[j] => i = j)
        /\ \A i \in DOMAIN wire : i # k => \E j \in DOMAIN wire' : place[j] = i
    BY WireTypes DEF Remaining, Without
  <1>2. /\ \A i \in DOMAIN wire : 0 < i
        /\ \A i \in DOMAIN wire' : 0 < i
    <2>1. DOMAIN wire' = 1 .. Len(wire')
      BY LenProperties DEF Remaining
    <2>2. QED BY <2>1, WireTypes
  <1>3. Events' \subseteq Events
    BY <1>1 DEF Events
  <1>4. \A e \in Events : e = wire[k] \/ e \in Events'
    BY <1>1 DEF Events
  <1>5. ASSUME NEW j \in DOMAIN wire' \cup {0}, NEW old, old = (IF j = 0 THEN 0 ELSE place[j])
        PROVE  /\ \A i \in DOMAIN wire' : j < i => old < place[i]
               /\ \A i \in DOMAIN wire : i # k /\ old < i => \E l \in DOMAIN wire' : place[l] = i /\ j < l
    BY <1>1, <1>2, <1>5
  <1>6. ASSUME NEW j \in DOMAIN wire' \cup {0}, NEW old, old = (IF j = 0 THEN 0 ELSE place[j])
        PROVE  /\ ClearedAfter(old) <=> ClearedAfter(j)' \/ (old < k /\ Cleared(wire[k]))
               /\ UsageAfter(old) <=> UsageAfter(j)' \/ (old < k /\ wire[k].type = "usage")
               /\ \A kind, x : Coming(kind, x, old)
                     <=> Coming(kind, x, j)' \/ (old < k /\ wire[k].type = kind /\ wire[k].record = x)
    <2>1. ClearedAfter(old) <=> ClearedAfter(j)' \/ (old < k /\ Cleared(wire[k]))
      BY <1>1, <1>5, <1>6 DEF ClearedAfter
    <2>2. UsageAfter(old) <=> UsageAfter(j)' \/ (old < k /\ wire[k].type = "usage")
      BY <1>1, <1>5, <1>6 DEF UsageAfter
    <2>3. ASSUME NEW kind, NEW x
          PROVE  Coming(kind, x, old)
                     <=> Coming(kind, x, j)' \/ (old < k /\ wire[k].type = kind /\ wire[k].record = x)
      BY <1>1, <1>5, <1>6 DEF Coming
    <2>4. QED BY <2>1, <2>2, <2>3
  <1>7. 0 \notin DOMAIN wire' /\ 0 < k
    BY <1>1, <1>2
  <1>8. /\ ClearedAfter(0) <=> ClearedAfter(0)' \/ Cleared(wire[k])
        /\ UsageAfter(0) <=> UsageAfter(0)' \/ wire[k].type = "usage"
        /\ \A kind, x : Coming(kind, x, 0)
              <=> Coming(kind, x, 0)' \/ (wire[k].type = kind /\ wire[k].record = x)
    BY <1>6, <1>7
  <1>9. \A j \in DOMAIN wire' :
           /\ ClearedAfter(place[j]) <=> ClearedAfter(j)' \/ (place[j] < k /\ Cleared(wire[k]))
           /\ UsageAfter(place[j]) <=> UsageAfter(j)' \/ (place[j] < k /\ wire[k].type = "usage")
           /\ \A kind, x : Coming(kind, x, place[j])
                 <=> Coming(kind, x, j)' \/ (place[j] < k /\ wire[k].type = kind /\ wire[k].record = x)
    BY <1>6, <1>7
  <1>10. QED
    BY <1>1, <1>3, <1>4, <1>8, <1>9

LEMMA RemainingKeeps ==
    ASSUME SyncInv, NEW k, NEW place, Remaining(k, place)
    PROVE  /\ ClearInv' /\ SnapshotsNumbered'
           /\ \A i, j \in DOMAIN wire' :
                 i # j /\ IsEvent(wire'[i]) /\ IsEvent(wire'[j]) => Distinct(wire'[i], wire'[j])
           /\ IsEvent(wire[k]) => \A e \in Events' : Distinct(wire[k], e) /\ Distinct(e, wire[k])
           /\ \A i, j \in DOMAIN wire' : Snapped(wire'[i]) /\ IsEvent(wire'[j]) /\ j < i
                 => ~Newer(wire'[j], wire'[i])
           /\ \A i, j \in DOMAIN wire' : Snapped(wire'[i]) /\ IsEvent(wire'[j]) /\ i < j
                 => /\ Lacks(wire'[i].copy, wire'[j])
                    /\ Exact(wire'[j].type) => Newer(wire'[j], wire'[i])
           /\ \A j \in DOMAIN wire' : OfQuery(wire'[j]) => Current(wire'[j].request.version)
           /\ \A i, j \in DOMAIN wire' : i # j /\ OfQuery(wire'[i]) /\ OfQuery(wire'[j])
                 => wire'[i].request.version # wire'[j].request.version
           /\ \A i \in DOMAIN inbox, j \in DOMAIN wire' :
                 inbox[i].method = "snapshot" /\ OfQuery(wire'[j])
                    => inbox[i].version # wire'[j].request.version
  <1>1. /\ TypeInv /\ SnapshotsNumbered /\ EventsDistinct /\ SnapshotsDistinct /\ VersionsInv /\ ClearInv
    BY DEF SyncInv, NumbersInv, OnceInv
  <1>2. /\ \A j \in DOMAIN wire' : place[j] \in DOMAIN wire /\ place[j] # k /\ wire'[j] = wire[place[j]]
        /\ \A i, j \in DOMAIN wire' : (i < j <=> place[i] < place[j]) /\ (place[i] = place[j] => i = j)
    BY <1>1, RemainingIs
  <1>3. UNCHANGED <<running, revision, records, apps, deferred, inbox, subscribed, version, requests, past>>
        /\ k \in DOMAIN wire
    BY DEF Remaining
  <1>4. ClearInv'
    <2>1. \A i, j \in DOMAIN inbox' : inbox'[i].method = "clearUsage" /\ i < j
                                     => inbox'[j].method = "snapshot"
      BY <1>1, <1>3 DEF ClearInv
    <2>2. \A i \in DOMAIN wire' : Cleared(wire'[i]) =>
             /\ ~running' /\ records' = {} /\ apps' = {} /\ deferred' = {}
             /\ \A j \in DOMAIN inbox' : inbox'[j].method = "snapshot"
             /\ \A j \in DOMAIN wire' : i < j => ~IsEvent(wire'[j])
      BY <1>1, <1>2, <1>3 DEF ClearInv
    <2>3. QED BY <2>1, <2>2 DEF ClearInv, Cleared, IsEvent
  <1>5. SnapshotsNumbered'
    <2>1. \A i \in DOMAIN wire' : Snapped(wire'[i]) =>
             /\ wire'[i].revision <= revision'
             /\ \A r \in wire'[i].copy.records \cup wire'[i].copy.apps : r.id <= wire'[i].revision
             /\ deferred' \cap wire'[i].copy.apps = {}
      BY <1>1, <1>2, <1>3 DEF SnapshotsNumbered, SnapshotNumbered
    <2>2. QED BY <2>1 DEF SnapshotsNumbered, SnapshotNumbered, Snapped
  <1>6. \A i, j \in DOMAIN wire' :
           i # j /\ IsEvent(wire'[i]) /\ IsEvent(wire'[j]) => Distinct(wire'[i], wire'[j])
    BY <1>1, <1>2 DEF EventsDistinct
  <1>7. ASSUME IsEvent(wire[k]), NEW e \in Events'
        PROVE  Distinct(wire[k], e) /\ Distinct(e, wire[k])
    <2>1. PICK j \in DOMAIN wire' : IsEvent(wire'[j]) /\ e = wire'[j]
      BY <1>7 DEF Events
    <2>2. QED BY <1>1, <1>2, <1>3, <1>7, <2>1 DEF EventsDistinct
  <1>8. \A i, j \in DOMAIN wire' : Snapped(wire'[i]) /\ IsEvent(wire'[j]) /\ j < i
           => ~Newer(wire'[j], wire'[i])
    BY <1>1, <1>2 DEF SnapshotsDistinct
  <1>9. \A i, j \in DOMAIN wire' : Snapped(wire'[i]) /\ IsEvent(wire'[j]) /\ i < j
           => /\ Lacks(wire'[i].copy, wire'[j])
              /\ Exact(wire'[j].type) => Newer(wire'[j], wire'[i])
    BY <1>1, <1>2 DEF SnapshotsDistinct
  <1>10. \A j \in DOMAIN wire' : OfQuery(wire'[j]) => Current(wire'[j].request.version)
    BY <1>1, <1>2 DEF VersionsInv
  <1>11. \A i, j \in DOMAIN wire' : i # j /\ OfQuery(wire'[i]) /\ OfQuery(wire'[j])
            => wire'[i].request.version # wire'[j].request.version
    BY <1>1, <1>2 DEF VersionsInv
  <1>12. \A i \in DOMAIN inbox, j \in DOMAIN wire' :
            inbox[i].method = "snapshot" /\ OfQuery(wire'[j])
               => inbox[i].version # wire'[j].request.version
    BY <1>1, <1>2 DEF VersionsInv
  <1>13. QED
    BY <1>4, <1>5, <1>6, <1>7, <1>8, <1>9, <1>10, <1>11, <1>12

LEMMA EventKeeps ==
    ASSUME SyncInv, NEW k \in DOMAIN wire, EventArrives(k)
    PROVE  SyncInv'
  <1> DEFINE event == wire[k]
  <1>1. /\ TypeInv /\ RecordsNumbered /\ EventsNumbered /\ SnapshotsNumbered
        /\ EventsDistinct /\ SnapshotsDistinct /\ VersionsInv /\ ClearInv /\ CopyInv /\ TotalInv
    BY DEF SyncInv, NumbersInv, OnceInv
  <1>2. PICK place : Remaining(k, place)
    BY <1>1, EventIs
  <1>3. /\ Applying(event) /\ UNCHANGED <<range, loaded>> /\ IsEvent(event)
        /\ \A j \in DOMAIN wire : j < k => ~IsEvent(wire[j])
    BY <1>1, EventIs
  <1>4. /\ wire' \in Seq(Messages)
        /\ UNCHANGED <<running, revision, records, apps, deferred, inbox, subscribed, version, requests, past>>
    BY <1>2 DEF Remaining
  <1>5. /\ \A j \in DOMAIN wire' : /\ place[j] \in DOMAIN wire /\ place[j] # k
                                   /\ wire'[j] = wire[place[j]] /\ wire[place[j]] \in Messages
        /\ \A j \in DOMAIN wire' : place[j] \in Int
        /\ k \in Int
    BY <1>1, <1>2, RemainingIs, WireTypes
  <1>6. Events' \subseteq Events /\ event \in Events /\ \A e \in Events : e = event \/ e \in Events'
    BY <1>1, <1>2, <1>3, RemainingIs DEF Events
  <1>7. /\ \A kind, x : Coming(kind, x, 0)
              <=> Coming(kind, x, 0)' \/ (event.type = kind /\ event.record = x)
        /\ \A kind, x : \A j \in DOMAIN wire' : Coming(kind, x, place[j])
              <=> Coming(kind, x, j)' \/ (place[j] < k /\ event.type = kind /\ event.record = x)
    BY <1>1, <1>2, RemainingIs
  <1>8. /\ ClearedAfter(0)' <=> ClearedAfter(0)
        /\ \A j \in DOMAIN wire' : ClearedAfter(j)' <=> ClearedAfter(place[j])
    BY <1>1, <1>2, <1>3, <1>5, RemainingIs, WireTypes, MessageTypes
  <1>9. /\ UsageAfter(0) <=> UsageAfter(0)' \/ event.type = "usage"
        /\ \A j \in DOMAIN wire' :
              UsageAfter(place[j]) <=> UsageAfter(j)' \/ (place[j] < k /\ event.type = "usage")
    BY <1>1, <1>2, RemainingIs
  <1>10. /\ event \in Event /\ event.type \in Kinds /\ event.record \in Record /\ event.total \in Nat /\ Numbered(event)
         /\ \A e \in Events \cup Kept : e \in Event
    BY <1>1, <1>3, <1>6, EventTypes, WireTypes DEF Applying, EventsNumbered
  <1>11. /\ view' \in Copies
         /\ \A kind \in Kinds : \A x : x \in Got(view', kind)
               <=> x \in Got(view, kind) \/ (subscribed /\ x.day \in range /\ event.type = kind /\ event.record = x)
         /\ view'.total = IF subscribed /\ event.type = "usage" THEN event.total ELSE view.total
    BY <1>3 DEF Applying
  \* A query under way keeps the event.
  <1>12. /\ query' \in [version : 0 .. MaxRequests, events : Seq(Event)] /\ query'.version = query.version
         /\ \A e \in Kept' : e \in Kept \/ e = event
         /\ subscribed /\ query # NoQuery =>
               /\ \A e : e \in Kept' <=> e \in Kept \/ e = event
               /\ \E n : Longer(query.events, query'.events, {n}) /\ query'.events[n] = event
    <2>1. CASE subscribed /\ query # NoQuery
      <3>1. PICK n : Longer(query.events, query'.events, {n}) /\ query'.events[n] = event
        BY <1>3, <2>1 DEF Applying
      <3>2. \A e : e \in Kept' <=> e \in Kept \/ e = event
        BY <3>1 DEF Kept, Longer
      <3>3. QED BY <1>3, <2>1, <3>1, <3>2 DEF Applying
    <2>2. CASE ~(subscribed /\ query # NoQuery)
      <3>1. query' = query
        BY <1>3, <2>2 DEF Applying
      <3>2. QED BY <1>1, <2>2, <3>1 DEF Kept, TypeInv
    <2>3. QED BY <2>1, <2>2
  <1> HIDE DEF event
  <1>13. TypeInv'
    BY <1>1, <1>3, <1>4, <1>11, <1>12 DEF TypeInv
  <1>14. NumbersInv'
    <2>1. \A x \in view'.records : x \in view.records \/ x = event.record
      <3>1. \A x : x \in Got(view', "usage") => x \in Got(view, "usage") \/ x = event.record
        BY <1>11 DEF Kinds
      <3>2. QED BY <3>1 DEF Got
    <2>2. \A x \in view'.apps : x \in view.apps \/ (x = event.record /\ event.type = "appUsage")
      <3>1. \A x : x \in Got(view', "appUsage") => x \in Got(view, "appUsage") \/ (x = event.record /\ event.type = "appUsage")
        BY <1>11 DEF Kinds
      <3>2. QED BY <3>1 DEF Got
    <2>3. RecordsNumbered'
      <3>1. \A x \in records' \cup apps' \cup deferred' \cup view'.records \cup view'.apps : x.id <= revision'
        BY <1>1, <1>4, <1>10, <2>1, <2>2 DEF RecordsNumbered, Numbered
      <3>2. deferred' \cap (apps' \cup view'.apps) = {}
        BY <1>1, <1>4, <1>10, <2>2 DEF RecordsNumbered, Numbered
      <3>3. QED BY <3>1, <3>2 DEF RecordsNumbered
    <2>4. EventsNumbered'
      <3>1. \A e \in (Events \cup Kept)' : Numbered(e)
        BY <1>1, <1>6, <1>10, <1>12 DEF EventsNumbered
      <3>2. QED BY <1>4, <3>1 DEF EventsNumbered, Numbered
    <2>5. SnapshotsNumbered'
      BY <1>2, RemainingKeeps
    <2>6. QED BY <2>3, <2>4, <2>5 DEF NumbersInv
  <1>15. \A e \in Events' : Distinct(event, e) /\ Distinct(e, event)
    BY <1>2, <1>3, RemainingKeeps DEF event
  <1>16. OnceInv'
    <2>1. ASSUME NEW e \in Events' PROVE Lacks(view', e)
      <3>1. Lacks(view, e) /\ Distinct(event, e) /\ e.type \in Kinds
        BY <1>1, <1>6, <1>10, <1>15, EventTypes DEF EventsDistinct
      <3>2. QED BY <1>11, <3>1 DEF Lacks, Distinct
    <2>2. \A i, j \in DOMAIN wire' :
             i # j /\ IsEvent(wire'[i]) /\ IsEvent(wire'[j]) => Distinct(wire'[i], wire'[j])
      BY <1>2, RemainingKeeps
    <2>3. \A d \in Kept', e \in Events' : Distinct(d, e)
      BY <1>1, <1>6, <1>12, <1>15 DEF EventsDistinct
    <2>4. EventsDistinct'
      <3>1. \A e \in Events' : Lacks(view', e)
        BY <2>1
      <3>2. QED BY <2>2, <2>3, <3>1 DEF EventsDistinct, Lacks, Got, Distinct, IsEvent
    <2>5. /\ \A i, j \in DOMAIN wire' : Snapped(wire'[i]) /\ IsEvent(wire'[j]) /\ j < i
                => ~Newer(wire'[j], wire'[i])
          /\ \A i, j \in DOMAIN wire' : Snapped(wire'[i]) /\ IsEvent(wire'[j]) /\ i < j
                => /\ Lacks(wire'[i].copy, wire'[j])
                   /\ Exact(wire'[j].type) => Newer(wire'[j], wire'[i])
      BY <1>2, RemainingKeeps
    <2>6. ASSUME NEW j \in DOMAIN wire', NEW e \in Kept', Snapped(wire'[j]), Newer(e, wire'[j])
          PROVE  Lacks(wire'[j].copy, e)
      <3> DEFINE i == place[j]
      <3>1. i \in DOMAIN wire /\ i # k /\ wire'[j] = wire[i] /\ (i < k \/ k < i)
        BY <1>5
      <3> HIDE DEF i
      <3>2. CASE e \in Kept
        BY <1>1, <2>6, <3>1, <3>2 DEF SnapshotsDistinct
      <3>3. CASE e = event
        <4>1. i < k
          BY <1>1, <1>3, <2>6, <3>1, <3>3 DEF SnapshotsDistinct, event
        <4>2. QED BY <1>1, <1>3, <2>6, <3>1, <3>3, <4>1 DEF SnapshotsDistinct, event
      <3>4. QED BY <1>12, <3>2, <3>3
    <2>7. SnapshotsDistinct'
      <3>1. \A j \in DOMAIN wire', e \in Kept' : Snapped(wire'[j]) /\ Newer(e, wire'[j]) => Lacks(wire'[j].copy, e)
        BY <2>6
      <3>2. \A i, j \in DOMAIN wire' : Snapped(wire'[i]) /\ IsEvent(wire'[j]) /\ i < j
                => /\ Lacks(wire'[i].copy, wire'[j])
                   /\ (IF wire'[j].type = "usage" THEN "half" \notin past' ELSE past' = {}) => Newer(wire'[j], wire'[i])
        BY <1>4, <2>5 DEF Exact
      <3>3. QED BY <2>5, <3>1, <3>2 DEF SnapshotsDistinct, Lacks, Got, Newer, Exact, Snapped, IsEvent
    <2>8. QED BY <2>4, <2>7 DEF OnceInv
  <1>17. VersionsInv'
    <2>1. \A v : Current(v) <=> v <= version' /\ (v = version' => query'.version = version')
      BY <1>4, <1>12 DEF Current
    <2>2. \A j \in DOMAIN wire' : OfQuery(wire'[j])
             => /\ wire'[j].request.version <= version'
                /\ wire'[j].request.version = version' => query'.version = version'
      BY <1>2, <2>1, RemainingKeeps
    <2>3. \A i \in DOMAIN inbox' : inbox'[i].method = "snapshot"
             => /\ inbox'[i].version <= version'
                /\ inbox'[i].version = version' => query'.version = version'
      BY <1>1, <1>4, <2>1 DEF VersionsInv
    <2>4. /\ \A i, j \in DOMAIN inbox' :
                i # j /\ inbox'[i].method = "snapshot" /\ inbox'[j].method = "snapshot"
                   => inbox'[i].version # inbox'[j].version
          /\ subscribed' \/ version' = 0
      BY <1>1, <1>4 DEF VersionsInv
    <2>5. /\ \A i, j \in DOMAIN wire' : i # j /\ OfQuery(wire'[i]) /\ OfQuery(wire'[j])
                => wire'[i].request.version # wire'[j].request.version
          /\ \A i \in DOMAIN inbox', j \in DOMAIN wire' :
                inbox'[i].method = "snapshot" /\ OfQuery(wire'[j])
                   => inbox'[i].version # wire'[j].request.version
      BY <1>2, <1>4, RemainingKeeps
    <2>6. QED BY <2>2, <2>3, <2>4, <2>5 DEF VersionsInv, Current, OfQuery, IsEvent
  <1>18. ClearInv'
    BY <1>2, RemainingKeeps
  <1>19. ASSUME NEW j \in DOMAIN wire', Latest(wire[j])'
         PROVE  /\ place[j] \in DOMAIN wire /\ wire'[j] = wire[place[j]] /\ Latest(wire[place[j]])
                /\ subscribed /\ query # NoQuery
                /\ place[j] < k => (Exact(event.type) => Newer(event, wire[place[j]]))
                /\ ~(place[j] < k) => ~Newer(event, wire[place[j]])
    <2> DEFINE i == place[j]
    <2>1. i \in DOMAIN wire /\ i # k /\ wire'[j] = wire[i] /\ (i < k \/ k < i) /\ ~(i < k /\ k < i) /\ wire[i] \in Messages
      BY <1>5
    <2> HIDE DEF i
    <2>2. Latest(wire[i])
      BY <1>4, <1>19, <2>1 DEF Latest, Snapped
    <2>3. wire[i] \in Snapshots /\ OfQuery(wire[i])
      BY <2>1, <2>2, MessageTypes DEF Latest, Snapped, OfQuery
    <2>4. Current(version) /\ version # 0
      <3>1. wire[i].request.version = version /\ wire[i].request.version \in 1 .. MaxRequests
        BY <2>2, <2>3 DEF Latest, Snapshots, Queries
      <3>2. version # 0
        BY <3>1
      <3>3. QED BY <1>1, <2>1, <2>3, <3>1, <3>2 DEF VersionsInv
    <2>5. subscribed /\ query # NoQuery
      BY <1>1, <2>4 DEF VersionsInv, Current, NoQuery
    <2>6. i < k => (Exact(event.type) => Newer(event, wire[i]))
      BY <1>1, <1>3, <2>1, <2>2 DEF SnapshotsDistinct, Latest, event
    <2>7. k < i => ~Newer(event, wire[i])
      BY <1>1, <1>3, <2>1, <2>2 DEF SnapshotsDistinct, Latest, event
    <2>8. QED BY <2>1, <2>2, <2>5, <2>6, <2>7 DEF i
  <1>20. \A kind : Exact(kind)' <=> Exact(kind)
    BY <1>4 DEF Exact
  <1>21. CopyInv'
    <2>1. ASSUME loaded', ~ClearedAfter(0)', NEW kind \in Kinds, NEW x \in Record, Exact(kind)'
          PROVE  ViewExact(kind, x)'
      <3>1. ViewExact(kind, x) /\ subscribed
        BY <1>1, <1>3, <1>8, <1>20, <2>1 DEF CopyInv
      <3>2. Coming(kind, x, 0) <=> Coming(kind, x, 0)' \/ (event.type = kind /\ event.record = x)
        BY <1>7
      <3>3. x \in Got(view', kind) <=> x \in Got(view, kind) \/ (x.day \in range /\ event.type = kind /\ event.record = x)
        BY <1>11, <3>1
      <3>4. x \in Stored(kind) /\ x.day \in range
               <=> x \in Got(view', kind) \/ (x.day \in range /\ Coming(kind, x, 0)')
        BY <3>1, <3>2, <3>3 DEF ViewExact, InRange
      <3>5. Stored(kind)' = Stored(kind) /\ range' = range
        BY <1>3, <1>4 DEF Stored
      <3>6. x \in Stored(kind)' /\ x.day \in range'
               <=> x \in Got(view', kind) \/ (x.day \in range' /\ Coming(kind, x, 0)')
        BY <3>4, <3>5
      <3>7. QED BY <3>6 DEF ViewExact, InRange, Got, Stored
    <2>2. ASSUME NEW j \in DOMAIN wire', Latest(wire[j])', ~ClearedAfter(j)',
                 NEW kind \in Kinds, NEW x \in Record, Exact(kind)'
          PROVE  AnswerExact(kind, x, j)'
      <3> DEFINE i == place[j]
                 m == wire[i]
      <3>1. i \in DOMAIN wire /\ wire'[j] = m /\ Latest(m) /\ subscribed /\ query # NoQuery
        BY <1>19, <2>2
      <3>2. AnswerExact(kind, x, i)
        BY <1>1, <1>8, <1>20, <2>2, <3>1 DEF CopyInv
      <3>3. Coming(kind, x, i)
               <=> Coming(kind, x, j)' \/ (i < k /\ event.type = kind /\ event.record = x)
        BY <1>7
      <3>4. \A e : e \in Kept' <=> e \in Kept \/ e = event
        BY <1>12, <3>1
      <3>5. Exact(kind) /\ (event.type = kind => (Newer(event, m) <=> i < k))
        BY <1>19, <1>20, <2>2
      <3> HIDE DEF i
      <3>6. (\E e \in Kept' : e.type = kind /\ e.record = x /\ Newer(e, m))
               <=> Saved(kind, x, m) \/ (i < k /\ event.type = kind /\ event.record = x)
        BY <3>4, <3>5 DEF Saved
      <3>7. x \in Stored(kind) /\ x.day \in m.request.range
               <=> \/ x \in Got(m.copy, kind)
                   \/ /\ x.day \in m.request.range
                      /\ Coming(kind, x, j)' \/ (\E e \in Kept' : e.type = kind /\ e.record = x /\ Newer(e, m))
        <4>1. x \in Stored(kind) /\ x.day \in m.request.range
               <=> \/ x \in Got(m.copy, kind)
                   \/ x.day \in m.request.range /\ (Coming(kind, x, i) \/ Saved(kind, x, m))
          BY <3>2 DEF AnswerExact, InRange
        <4>2. QED BY <3>3, <3>6, <4>1
      <3>8. Stored(kind)' = Stored(kind)
        BY <1>4 DEF Stored
      <3> HIDE DEF m
      <3>9. QED
        BY <3>1, <3>7, <3>8 DEF AnswerExact, InRange, Got, Stored, Saved, Newer
    <2>3. loaded' => subscribed'
      BY <1>1, <1>3, <1>4 DEF CopyInv
    <2>4. QED BY <2>1, <2>2, <2>3 DEF CopyInv
  <1>22. /\ \A i \in DOMAIN wire : i # k => \E j \in DOMAIN wire' : place[j] = i
         /\ \A i, j \in DOMAIN wire' : i < j <=> place[i] < place[j]
         /\ \A i \in DOMAIN wire : i \in Int /\ 0 < i
         /\ \A i \in DOMAIN wire' : 0 < i
    <2>1. \A i \in DOMAIN wire' : 0 < i
      BY <1>4, LenProperties
    <2>2. \A i \in DOMAIN wire : i \in Int /\ 0 < i
      BY <1>1, WireTypes
    <2>3. QED BY <1>1, <1>2, <2>1, <2>2, RemainingIs
  <1>23. TotalInv'
    <2> SUFFICES ASSUME "half" \notin past
                 PROVE  TotalInv'
      BY <1>4 DEF TotalInv
    <2> DEFINE total == Cardinality(records)
    <2>1. total' = total
      BY <1>4
    <2>2. /\ ~ClearedAfter(0) => \A i \in DOMAIN wire : wire[i].type = "usage" /\ ~UsageAfter(i) => wire[i].total = total
          /\ loaded /\ ~ClearedAfter(0) /\ ~UsageAfter(0) => view.total = total
          /\ \A i \in DOMAIN wire : Latest(wire[i]) /\ ~ClearedAfter(i) /\ ~UsageAfter(i) => AnswerTotal(wire[i], total)
      BY <1>1 DEF TotalInv
    <2> HIDE DEF total
    <2>3. ASSUME ~ClearedAfter(0)', NEW j \in DOMAIN wire', wire'[j].type = "usage", ~UsageAfter(j)'
          PROVE  wire'[j].total = total
      <3>1. IsEvent(wire[place[j]]) /\ wire[place[j]].type = "usage"
        BY <1>5, <2>3 DEF IsEvent
      <3>2. ~(place[j] < k)
        BY <1>3, <1>5, <3>1
      <3>3. ~UsageAfter(place[j]) /\ ~ClearedAfter(0)
        BY <1>8, <1>9, <2>3, <3>2
      <3>4. QED BY <1>5, <2>2, <3>1, <3>3
    <2>4. ASSUME loaded', ~ClearedAfter(0)', ~UsageAfter(0)'
          PROVE  view'.total = total
      <3>1. loaded /\ ~ClearedAfter(0) /\ subscribed
        BY <1>1, <1>3, <1>8, <2>4 DEF CopyInv
      <3>2. CASE event.type = "usage"
        <4>1. ~UsageAfter(k)
          <5> SUFFICES ASSUME NEW i \in DOMAIN wire, k < i, wire[i].type = "usage" PROVE FALSE
            BY DEF UsageAfter
          <5>1. i # k
            BY <1>5
          <5>2. PICK q \in DOMAIN wire' : place[q] = i
            BY <1>22, <5>1
          <5>3. UsageAfter(0)'
            BY <1>5, <1>22, <5>2 DEF UsageAfter
          <5>4. QED BY <2>4, <5>3
        <4>2. event.total = total
          BY <2>2, <3>1, <3>2, <4>1 DEF event
        <4>3. QED BY <1>11, <3>1, <3>2, <4>2
      <3>3. CASE event.type # "usage"
        <4>1. ~UsageAfter(0)
          BY <1>9, <2>4, <3>3
        <4>2. QED BY <1>11, <2>2, <3>1, <3>3, <4>1
      <3>4. QED BY <3>2, <3>3
    <2>5. ASSUME NEW j \in DOMAIN wire', Latest(wire[j])', ~ClearedAfter(j)', ~UsageAfter(j)'
          PROVE  AnswerTotal(wire[j], total)'
      <3> DEFINE i == place[j]
                 m == wire[i]
                 Usage(q) == query'.events[q].type = "usage" /\ Newer(query'.events[q], m)
      <3>1. i \in DOMAIN wire /\ wire'[j] = m /\ Latest(m) /\ ~ClearedAfter(i)
        BY <1>8, <1>19, <2>5
      <3>2. PICK n : Longer(query.events, query'.events, {n}) /\ query'.events[n] = event
        BY <1>12, <1>19, <2>5
      <3>3. /\ DOMAIN query'.events = DOMAIN query.events \cup {n} /\ n \notin DOMAIN query.events /\ 0 < n
            /\ \A q \in DOMAIN query.events : query'.events[q] = query.events[q] /\ q < n
        BY <3>2 DEF Longer
      <3>4. Usage(n) <=> event.type = "usage" /\ i < k
        BY <1>19, <2>5, <3>2 DEF Exact
      <3>5. /\ ~(\E q \in DOMAIN query'.events : 0 < q /\ Usage(q)) => m.copy.total = total
            /\ \A q \in DOMAIN query'.events :
                  Usage(q) /\ ~(\E l \in DOMAIN query'.events : q < l /\ Usage(l)) => query'.events[q].total = total
        <4>1. CASE event.type = "usage" /\ i < k
          <5>1. ~UsageAfter(k)
            <6> SUFFICES ASSUME NEW l \in DOMAIN wire, k < l, wire[l].type = "usage" PROVE FALSE
              BY DEF UsageAfter
            <6>1. l # k /\ i < l
              BY <1>5, <1>22, <4>1
            <6>2. PICK q \in DOMAIN wire' : place[q] = l
              BY <1>22, <6>1
            <6>3. j < q
              BY <1>22, <6>1, <6>2
            <6>4. UsageAfter(j)'
              BY <1>5, <6>2, <6>3 DEF UsageAfter
            <6>5. QED BY <2>5, <6>4
          <5>2. ~ClearedAfter(0)
            <6> SUFFICES ASSUME NEW l \in DOMAIN wire, Cleared(wire[l]) PROVE FALSE
              BY DEF ClearedAfter
            <6>1. ~(i < l)
              BY <3>1 DEF ClearedAfter
            <6>2. l < k
              BY <1>5, <1>22, <3>1, <4>1, <6>1
            <6>3. QED BY <1>1, <1>3, <6>2 DEF ClearInv, event
          <5>3. event.total = total
            BY <2>2, <4>1, <5>1, <5>2 DEF event
          <5>4. \A q \in DOMAIN query'.events : q = n \/ (\E l \in DOMAIN query'.events : q < l /\ Usage(l))
            BY <3>3, <3>4, <4>1
          <5>5. \E q \in DOMAIN query'.events : 0 < q /\ Usage(q)
            BY <3>3, <3>4, <4>1
          <5>6. QED BY <3>2, <5>3, <5>4, <5>5
        <4>2. CASE ~(event.type = "usage" /\ i < k)
          <5>1. ~UsageAfter(i)
            BY <1>9, <2>5, <4>2
          <5>2. AnswerTotal(m, total)
            BY <2>2, <3>1, <5>1
          <5>3. \A q \in DOMAIN query'.events : Usage(q)
                   => q \in DOMAIN query.events /\ query'.events[q] = query.events[q] /\ Applies(q, m)
            BY <3>3, <3>4, <4>2 DEF Applies
          <5>4. \A q \in DOMAIN query.events : Applies(q, m) => q \in DOMAIN query'.events /\ Usage(q)
            BY <3>3 DEF Applies
          <5>5. (\E q \in DOMAIN query'.events : 0 < q /\ Usage(q)) <=> AppliesAfter(0, m)
            BY <5>3, <5>4 DEF AppliesAfter
          <5>6. \A q : (\E l \in DOMAIN query'.events : q < l /\ Usage(l)) <=> AppliesAfter(q, m)
            BY <5>3, <5>4 DEF AppliesAfter
          <5> HIDE DEF Usage, m
          <5>7. QED BY <5>2, <5>3, <5>4, <5>5, <5>6 DEF AnswerTotal
        <4>3. QED BY <4>1, <4>2
      <3>6. m = wire'[j] /\ total' = total
        BY <2>1, <3>1
      <3> HIDE DEF m, i
      <3>7. QED BY <3>5, <3>6 DEF AnswerTotal, AppliesAfter, Applies, Newer
    <2>6. QED BY <2>1, <2>3, <2>4, <2>5 DEF TotalInv, total
  <1>24. QED
    BY <1>13, <1>14, <1>16, <1>17, <1>18, <1>21, <1>23 DEF SyncInv

-----------------------------------------------------------------------------
(* An answer arrives.                                                      *)

LEMMA LastOf ==
    ASSUME NEW n \in Nat, NEW S, S \subseteq 1 .. n, S # {}
    PROVE  \E k \in S : \A i \in S : ~(k < i)
  <1> DEFINE T == {n - k : k \in S}
  <1>1. T \subseteq Nat /\ T # {}
    <2>1. \A k \in S : n - k \in Nat
      OBVIOUS
    <2>2. QED BY <2>1
  <1>2. IsWellFoundedOn(OpToRel(<, Nat), Nat)
    BY NatLessThanWellFounded
  <1>3. PICK t \in T : \A m \in T : ~(<<m, t>> \in OpToRel(<, Nat))
    <2> HIDE DEF T
    <2>1. QED BY <1>1, <1>2, WFMin
  <1>4. \A m \in T : ~(m < t)
    BY <1>1, <1>3 DEF OpToRel
  <1>5. PICK k \in S : t = n - k
    OBVIOUS
  <1>6. ASSUME NEW i \in S, k < i PROVE FALSE
    <2>1. n - i \in T /\ n - i < t
      BY <1>5, <1>6
    <2>2. QED BY <1>4, <2>1
  <1>7. QED BY <1>6

\* Replaced(m): the copy becomes that of the answer, with what was kept.  GaveUp(m): the
\* latest query failed.  Emptied(m): all is cleared.
Replaced(m) ==
    /\ Latest(m) /\ query' = NoQuery /\ loaded' = TRUE /\ range' = m.request.range
    /\ view' \in Copies
    /\ \A kind \in Kinds : \A x : x \in Got(view', kind)
          <=> x \in Got(m.copy, kind) \/ (x.day \in m.request.range /\ Saved(kind, x, m))
    /\ \A total : AnswerTotal(m, total) => view'.total = total
    /\ doubled = FALSE /\ (\A e \in Kept : Newer(e, m) => Lacks(m.copy, e)) => doubled' = FALSE
GaveUp(m) ==
    /\ OfQuery(m) /\ m.request.version = version
    /\ query' = NoQuery /\ UNCHANGED <<view, range, loaded, doubled>>
Emptied(m) == Cleared(m) /\ view' = EmptyView /\ UNCHANGED <<range, loaded, query, doubled>>
Ignored(m) == ~Cleared(m) /\ UNCHANGED <<view, range, loaded, query, doubled>>

LEMMA AnswerIs ==
    ASSUME TypeInv, AnswerArrives
    PROVE  /\ 1 \in DOMAIN wire /\ ~IsEvent(wire[1])
           /\ \E place : Remaining(1, place)
           /\ Replaced(wire[1]) \/ GaveUp(wire[1]) \/ Emptied(wire[1]) \/ Ignored(wire[1])
  <1>1. /\ wire # <<>> /\ ~IsEvent(Head(wire)) /\ wire' = Tail(wire) /\ wire \in Seq(Messages)
        /\ UNCHANGED <<running, revision, records, apps, deferred, inbox, subscribed, version, requests, past>>
    BY DEF AnswerArrives, backendVars, TypeInv
  <1>2. 1 \in DOMAIN wire /\ Head(wire) = wire[1]
    <2>1. Len(wire) # 0 /\ Head(wire) = wire[1]
      BY <1>1
    <2>2. QED BY <2>1, WireTypes
  <1>3. wire' \in Seq(Messages) /\ \E place : Without(wire, wire', 1, place)
    BY <1>1, <1>2, Removal
  <1>4. \E place : Remaining(1, place)
    BY <1>1, <1>2, <1>3 DEF Remaining
  <1> DEFINE m == wire[1]
  <1>5. m \in Messages /\ ~IsEvent(m)
    BY <1>1, <1>2, WireTypes
  <1>6. \/ /\ m.type = "answer" /\ m.request.method = "snapshot" /\ m.request.version = version /\ SnapshotArrives(m)
        \/ /\ m.type = "failure" /\ m.request.method = "snapshot" /\ m.request.version = version
           /\ query' = NoQuery /\ UNCHANGED <<view, range, loaded, doubled>>
        \/ m.type = "answer" /\ m.request.method = "clearUsage" /\ CopyCleared
        \/ ~(m.type = "answer" /\ m.request.method = "clearUsage") /\ UNCHANGED <<view, range, loaded, query, doubled>>
    BY <1>2 DEF AnswerArrives
  <1> HIDE DEF m
  <1>7. CASE m.type = "answer" /\ m.request.method = "snapshot" /\ m.request.version = version /\ SnapshotArrives(m)
    <2>1. Latest(m) /\ m \in Snapshots
      BY <1>5, <1>7, MessageTypes DEF Latest, Snapped
    <2> DEFINE events == query.events
               Usage(k) == events[k].type = "usage" /\ Newer(events[k], m)
    <2>2. query.events \in Seq(Event)
      BY DEF TypeInv
    <2>3. /\ DOMAIN events = 1 .. Len(events) /\ Len(events) \in Nat
          /\ \A k \in DOMAIN events : events[k] \in Event
      BY <2>2, WireTypes
    <2>4. /\ view' = Restored(m, query.events) /\ range' = m.request.range /\ loaded' = TRUE /\ query' = NoQuery
          /\ doubled' = (doubled \/ \E k \in DOMAIN query.events :
                      Newer(query.events[k], m) /\ CountsTwice(m.copy, query.events[k]))
      BY <1>7 DEF SnapshotArrives
    <2>5. /\ view' \in Copies
          /\ \A kind \in Kinds : \A x : x \in Got(view', kind)
                <=> \/ x \in Got(m.copy, kind)
                    \/ /\ x.day \in m.request.range
                       /\ \E k \in DOMAIN events : Newer(events[k], m) /\ events[k].type = kind /\ events[k].record = x
          /\ ~(\E k \in DOMAIN events : Usage(k)) => view'.total = m.copy.total
          /\ \A k \in DOMAIN events : Usage(k) /\ ~(\E i \in DOMAIN events : k < i /\ Usage(i))
                => view'.total = events[k].total
      BY <2>1, <2>2, <2>4, RestoredIs
    <2>6. \A kind \in Kinds : \A x : x \in Got(view', kind)
                <=> x \in Got(m.copy, kind) \/ (x.day \in m.request.range /\ Saved(kind, x, m))
      BY <2>5 DEF Saved, Kept
    <2>7. ASSUME NEW total, AnswerTotal(m, total) PROVE view'.total = total
      <3>1. \A k \in DOMAIN events : Usage(k) <=> Applies(k, m)
        BY DEF Applies
      <3>2. CASE \E k \in DOMAIN events : Usage(k)
        <4> DEFINE S == {k \in DOMAIN events : Usage(k)}
        <4>1. PICK k \in S : \A i \in S : ~(k < i)
          <5>1. S \subseteq 1 .. Len(events) /\ S # {}
            BY <2>3, <3>2
          <5> HIDE DEF S
          <5>2. QED BY <2>3, <5>1, LastOf
        <4>2. k \in DOMAIN events /\ Usage(k) /\ ~(\E i \in DOMAIN events : k < i /\ Usage(i))
          BY <4>1
        <4>3. Applies(k, m) /\ ~AppliesAfter(k, m)
          BY <3>1, <4>2 DEF AppliesAfter
        <4>4. QED BY <2>5, <2>7, <4>2, <4>3 DEF AnswerTotal
      <3>3. CASE ~(\E k \in DOMAIN events : Usage(k))
        <4>1. ~AppliesAfter(0, m)
          BY <3>1, <3>3 DEF AppliesAfter
        <4>2. QED BY <2>5, <2>7, <3>3, <4>1 DEF AnswerTotal
      <3>4. QED BY <3>2, <3>3
    <2>8. ASSUME doubled = FALSE, \A e \in Kept : Newer(e, m) => Lacks(m.copy, e)
          PROVE  doubled' = FALSE
      <3>1. ASSUME NEW k \in DOMAIN events, Newer(events[k], m), CountsTwice(m.copy, events[k]) PROVE FALSE
        <4>1. Lacks(m.copy, events[k]) /\ events[k] \in Event
          BY <2>3, <2>8, <3>1 DEF Kept
        <4>2. QED BY <3>1, <4>1 DEF CountsTwice, Lacks, Got
      <3>2. QED BY <2>4, <2>8, <3>1
    <2>9. Replaced(m)
      BY <2>1, <2>4, <2>5, <2>6, <2>7, <2>8 DEF Replaced
    <2>10. QED BY <1>2, <1>4, <1>5, <2>9 DEF m
  <1>8. CASE /\ m.type = "failure" /\ m.request.method = "snapshot" /\ m.request.version = version
             /\ query' = NoQuery /\ UNCHANGED <<view, range, loaded, doubled>>
    <2>1. GaveUp(m)
      BY <1>5, <1>8 DEF GaveUp, OfQuery
    <2>2. QED BY <1>2, <1>4, <1>5, <2>1 DEF m
  <1>9. CASE m.type = "answer" /\ m.request.method = "clearUsage" /\ CopyCleared
    <2>1. Emptied(m)
      BY <1>9 DEF Emptied, Cleared, CopyCleared
    <2>2. QED BY <1>2, <1>4, <1>5, <2>1 DEF m
  <1>10. CASE ~(m.type = "answer" /\ m.request.method = "clearUsage") /\ UNCHANGED <<view, range, loaded, query, doubled>>
    <2>1. Ignored(m)
      BY <1>10 DEF Ignored, Cleared
    <2>2. QED BY <1>2, <1>4, <1>5, <2>1 DEF m
  <1>11. QED
    BY <1>6, <1>7, <1>8, <1>9, <1>10

LEMMA AnswerKeeps ==
    ASSUME SyncInv, AnswerArrives
    PROVE  SyncInv'
  <1> DEFINE m == wire[1]
  <1>1. /\ TypeInv /\ RecordsNumbered /\ EventsNumbered /\ SnapshotsNumbered
        /\ EventsDistinct /\ SnapshotsDistinct /\ VersionsInv /\ ClearInv /\ CopyInv /\ TotalInv
    BY DEF SyncInv, NumbersInv, OnceInv
  <1>2. PICK place : Remaining(1, place)
    BY <1>1, AnswerIs
  <1>3. /\ 1 \in DOMAIN wire /\ ~IsEvent(m) /\ m \in Messages
        /\ Replaced(m) \/ GaveUp(m) \/ Emptied(m) \/ Ignored(m)
    BY <1>1, AnswerIs, WireTypes
  <1>4. /\ wire' \in Seq(Messages)
        /\ UNCHANGED <<running, revision, records, apps, deferred, inbox, subscribed, version, requests, past>>
    BY <1>2 DEF Remaining
  <1>5. /\ \A i \in DOMAIN wire : i \in Nat /\ 0 < i /\ (i = 1 \/ 1 < i) /\ ~(i < 1)
        /\ \A j \in DOMAIN wire' : /\ place[j] \in DOMAIN wire /\ 1 < place[j] /\ ~(place[j] < 1)
                                   /\ wire'[j] = wire[place[j]] /\ wire[place[j]] \in Messages
    <2>1. \A i \in DOMAIN wire : i \in Nat /\ 0 < i /\ (i = 1 \/ 1 < i) /\ ~(i < 1)
      BY <1>1, WireTypes
    <2>2. \A j \in DOMAIN wire' : /\ place[j] \in DOMAIN wire /\ place[j] # 1
                                  /\ wire'[j] = wire[place[j]] /\ wire[place[j]] \in Messages
      BY <1>1, <1>2, RemainingIs
    <2>3. QED BY <2>1, <2>2
  <1>6. Events' = Events
    <2>1. Events' \subseteq Events /\ \A e \in Events : e = m \/ e \in Events'
      BY <1>1, <1>2, RemainingIs
    <2>2. m \notin Events
      BY <1>3 DEF Events
    <2>3. QED BY <2>1, <2>2
  <1>7. m.type # "usage" /\ m.type \notin Kinds
    BY <1>3 DEF IsEvent, Kinds
  <1>8. /\ \A kind \in Kinds : \A x : Coming(kind, x, 0) <=> Coming(kind, x, 0)'
        /\ \A kind \in Kinds : \A x : \A j \in DOMAIN wire' : Coming(kind, x, place[j]) <=> Coming(kind, x, j)'
    BY <1>1, <1>2, <1>7, RemainingIs
  <1>9. /\ ClearedAfter(0) <=> ClearedAfter(0)' \/ Cleared(m)
        /\ \A j \in DOMAIN wire' : ClearedAfter(j)' <=> ClearedAfter(place[j])
    BY <1>1, <1>2, <1>5, RemainingIs
  <1>10. /\ UsageAfter(0) <=> UsageAfter(0)'
         /\ \A j \in DOMAIN wire' : UsageAfter(j)' <=> UsageAfter(place[j])
    BY <1>1, <1>2, <1>7, RemainingIs
  \* After the first message comes what comes at all, but that message.
  <1>11. /\ \A kind \in Kinds : \A x : Coming(kind, x, 1) <=> Coming(kind, x, 0)
         /\ UsageAfter(1) <=> UsageAfter(0)
         /\ ~Cleared(m) => (ClearedAfter(1) <=> ClearedAfter(0))
    <2>1. \A kind \in Kinds : \A x : Coming(kind, x, 1) <=> Coming(kind, x, 0)
      BY <1>5, <1>7 DEF Coming
    <2>2. UsageAfter(1) <=> UsageAfter(0)
      BY <1>5, <1>7 DEF UsageAfter
    <2>3. ~Cleared(m) => (ClearedAfter(1) <=> ClearedAfter(0))
      BY <1>5 DEF ClearedAfter
    <2>4. QED BY <2>1, <2>2, <2>3
  <1>12. /\ Replaced(m) => m \in Snapshots /\ Snapped(m) /\ OfQuery(m) /\ ~Cleared(m) /\ m.request.version = version
         /\ GaveUp(m) => OfQuery(m) /\ ~Cleared(m) /\ m.request.version = version
    <2>1. Replaced(m) => Snapped(m) /\ m.request.version = version
      BY DEF Replaced, Latest
    <2>2. Snapped(m) => m \in Snapshots /\ OfQuery(m)
      BY <1>3, MessageTypes DEF OfQuery, Snapped
    <2>3. OfQuery(m) => ~Cleared(m)
      BY DEF OfQuery, Cleared
    <2>4. GaveUp(m) => OfQuery(m) /\ m.request.version = version
      BY DEF GaveUp
    <2> HIDE DEF m
    <2>5. QED BY <2>1, <2>2, <2>3, <2>4
  <1> DEFINE Done == Replaced(m) \/ GaveUp(m)
  <1>13. /\ Done => query' = NoQuery /\ Kept' = {} /\ DOMAIN query'.events = {}
         /\ ~Done => query' = query /\ Kept' = Kept
    <2>1. ASSUME Done PROVE query' = NoQuery /\ Kept' = {} /\ DOMAIN query'.events = {}
      <3>1. query' = NoQuery
        BY <2>1 DEF Replaced, GaveUp
      <3>2. query'.events = <<>> /\ DOMAIN <<>> = {}
        BY <3>1 DEF NoQuery
      <3>3. QED BY <3>1, <3>2 DEF Kept
    <2>2. ASSUME ~Done PROVE query' = query /\ Kept' = Kept
      <3>1. query' = query
        BY <1>3, <2>2 DEF Emptied, Ignored
      <3>2. QED BY <3>1 DEF Kept
    <2>3. QED BY <2>1, <2>2
  \* Of the latest query nothing else comes.
  <1>14. ASSUME Done
         PROVE  /\ \A j \in DOMAIN wire' : OfQuery(wire'[j]) => wire'[j].request.version # version
                /\ \A i \in DOMAIN inbox : inbox[i].method = "snapshot" => inbox[i].version # version
    <2>1. OfQuery(m) /\ m.request.version = version
      BY <1>12, <1>14
    <2>2. \A j \in DOMAIN wire' : OfQuery(wire'[j]) => wire'[j].request.version # version
      BY <1>1, <1>3, <1>5, <2>1 DEF VersionsInv
    <2>3. \A i \in DOMAIN inbox : inbox[i].method = "snapshot" => inbox[i].version # version
      BY <1>1, <1>3, <2>1 DEF VersionsInv
    <2>4. QED BY <2>2, <2>3
  <1>15. /\ \A e \in Events \cup Kept : e \in Event /\ e.type \in Kinds /\ e.record \in Record /\ Numbered(e)
         /\ Kept' \subseteq Kept
    BY <1>1, <1>13, EventTypes, WireTypes DEF EventsNumbered
  <1> HIDE DEF m, Done
  <1>16. TypeInv'
    <2>1. view' \in Copies /\ range' \in Ranges /\ loaded' \in BOOLEAN
      <3>1. CASE Replaced(m)
        <4>1. range' \in Ranges
          BY <1>12, <3>1 DEF Replaced, Snapshots, Queries
        <4>2. QED BY <3>1, <4>1 DEF Replaced
      <3>2. CASE Emptied(m)
        <4>1. view' \in Copies
          BY <3>2 DEF Emptied, EmptyView, Copies
        <4>2. QED BY <1>1, <3>2, <4>1 DEF Emptied, TypeInv
      <3>3. CASE GaveUp(m) \/ Ignored(m)
        BY <1>1, <3>3 DEF GaveUp, Ignored, TypeInv
      <3>4. QED BY <1>3, <3>1, <3>2, <3>3 DEF m
    <2>2. query' \in [version : 0 .. MaxRequests, events : Seq(Event)]
      <3>1. NoQuery \in [version : 0 .. MaxRequests, events : Seq(Event)]
        BY BoundsAssumption DEF NoQuery
      <3>2. QED BY <1>1, <1>13, <3>1 DEF TypeInv
    <2>3. QED BY <1>1, <1>4, <2>1, <2>2 DEF TypeInv
  \* What the new copy has: what it had, or what the answer and the kept events bring.
  <1>17. ASSUME NEW kind \in Kinds, NEW x \in Got(view', kind)
         PROVE  \/ x \in Got(view, kind)
                \/ Replaced(m) /\ x \in Got(m.copy, kind)
                \/ Replaced(m) /\ \E e \in Kept : e.type = kind /\ e.record = x /\ Newer(e, m)
    <2>1. CASE Replaced(m)
      BY <1>17, <2>1 DEF Replaced, Saved
    <2>2. CASE Emptied(m)
      BY <1>17, <2>2 DEF Emptied, EmptyView, Got
    <2>3. CASE GaveUp(m) \/ Ignored(m)
      BY <1>17, <2>3 DEF GaveUp, Ignored
    <2>4. QED BY <1>3, <2>1, <2>2, <2>3 DEF m
  <1>18. Replaced(m) => SnapshotNumbered(m)
    BY <1>1, <1>3, <1>12 DEF SnapshotsNumbered, m
  <1>19. NumbersInv'
    <2>1. ASSUME NEW kind \in Kinds, NEW x \in Got(view', kind)
          PROVE  x.id <= revision /\ (kind = "appUsage" => x \notin deferred)
      <3>1. CASE x \in Got(view, kind)
        BY <1>1, <3>1 DEF RecordsNumbered, Got, Kinds
      <3>2. CASE Replaced(m) /\ x \in Got(m.copy, kind)
        <4>1. /\ x \in m.copy.records \cup m.copy.apps
              /\ kind = "appUsage" => x \in m.copy.apps
          BY <3>2 DEF Got, Kinds
        <4>2. x.id <= m.revision /\ m.revision <= revision /\ deferred \cap m.copy.apps = {}
          BY <1>18, <3>2, <4>1 DEF SnapshotNumbered
        <4>3. x.id \in Int /\ m.revision \in Int /\ revision \in Int
          BY <1>1, <1>12, <3>2, <4>1 DEF Snapshots, Copies, Record, TypeInv
        <4>4. QED BY <4>1, <4>2, <4>3
      <3>3. CASE \E e \in Kept : e.type = kind /\ e.record = x
        BY <1>15, <3>3 DEF Numbered
      <3>4. QED BY <1>17, <3>1, <3>2, <3>3
    <2>2. /\ \A x \in view'.records : x.id <= revision
          /\ \A x \in view'.apps : x.id <= revision /\ x \notin deferred
      <3>1. \A x : (x \in view'.records <=> x \in Got(view', "usage")) /\ (x \in view'.apps <=> x \in Got(view', "appUsage"))
        BY DEF Got
      <3>2. "usage" \in Kinds /\ "appUsage" \in Kinds
        BY DEF Kinds
      <3>3. QED BY <2>1, <3>1, <3>2
    <2>3. RecordsNumbered'
      BY <1>1, <1>4, <2>2 DEF RecordsNumbered
    <2>4. EventsNumbered'
      BY <1>4, <1>6, <1>15 DEF EventsNumbered, Numbered
    <2>5. SnapshotsNumbered'
      BY <1>2, RemainingKeeps
    <2>6. QED BY <2>3, <2>4, <2>5 DEF NumbersInv
  <1>20. OnceInv'
    <2>1. ASSUME NEW e \in Events PROVE Lacks(view', e)
      <3> SUFFICES ASSUME e.record \in Got(view', e.type) PROVE FALSE
        BY DEF Lacks
      <3>1. PICK k \in DOMAIN wire : e = wire[k] /\ IsEvent(wire[k]) /\ 1 < k
        BY <1>3, <1>5 DEF Events, m
      <3>2. e.type \in Kinds
        BY <1>15
      <3>3. CASE e.record \in Got(view, e.type)
        BY <1>1, <3>3 DEF EventsDistinct, Lacks
      <3>4. CASE Replaced(m) /\ e.record \in Got(m.copy, e.type)
        <4>1. Lacks(m.copy, e)
          BY <1>1, <1>3, <1>12, <3>1, <3>4 DEF SnapshotsDistinct, m
        <4>2. QED BY <3>4, <4>1 DEF Lacks
      <3>5. CASE \E d \in Kept : d.type = e.type /\ d.record = e.record
        BY <1>1, <3>5 DEF EventsDistinct, Distinct
      <3>6. QED BY <1>17, <3>2, <3>3, <3>4, <3>5
    <2>2. \A i, j \in DOMAIN wire' :
             i # j /\ IsEvent(wire'[i]) /\ IsEvent(wire'[j]) => Distinct(wire'[i], wire'[j])
      BY <1>2, RemainingKeeps
    <2>3. \A d \in Kept', e \in Events' : Distinct(d, e)
      BY <1>1, <1>6, <1>15 DEF EventsDistinct
    <2>4. EventsDistinct'
      <3>1. \A e \in Events' : Lacks(view', e)
        BY <1>6, <2>1
      <3>2. QED BY <2>2, <2>3, <3>1 DEF EventsDistinct, Lacks, Got, Distinct, IsEvent
    <2>5. /\ \A i, j \in DOMAIN wire' : Snapped(wire'[i]) /\ IsEvent(wire'[j]) /\ j < i
                => ~Newer(wire'[j], wire'[i])
          /\ \A i, j \in DOMAIN wire' : Snapped(wire'[i]) /\ IsEvent(wire'[j]) /\ i < j
                => /\ Lacks(wire'[i].copy, wire'[j])
                   /\ Exact(wire'[j].type) => Newer(wire'[j], wire'[i])
      BY <1>2, RemainingKeeps
    <2>6. ASSUME NEW j \in DOMAIN wire', NEW e \in Kept', Snapped(wire'[j]), Newer(e, wire'[j])
          PROVE  Lacks(wire'[j].copy, e)
      BY <1>1, <1>5, <1>15, <2>6 DEF SnapshotsDistinct
    <2>7. SnapshotsDistinct'
      <3>1. \A j \in DOMAIN wire', e \in Kept' : Snapped(wire'[j]) /\ Newer(e, wire'[j]) => Lacks(wire'[j].copy, e)
        BY <2>6
      <3>2. \A i, j \in DOMAIN wire' : Snapped(wire'[i]) /\ IsEvent(wire'[j]) /\ i < j
                => /\ Lacks(wire'[i].copy, wire'[j])
                   /\ (IF wire'[j].type = "usage" THEN "half" \notin past' ELSE past' = {}) => Newer(wire'[j], wire'[i])
        BY <1>4, <2>5 DEF Exact
      <3>3. QED BY <2>5, <3>1, <3>2 DEF SnapshotsDistinct, Lacks, Got, Newer, Exact, Snapped, IsEvent
    <2>8. QED BY <2>4, <2>7 DEF OnceInv
  <1>21. VersionsInv'
    <2>1. ASSUME NEW v, Current(v), Done => v # version
          PROVE  v <= version' /\ (v = version' => query'.version = version')
      BY <1>4, <1>13, <2>1 DEF Current
    <2>2. \A j \in DOMAIN wire' : OfQuery(wire'[j])
             => /\ wire'[j].request.version <= version'
                /\ wire'[j].request.version = version' => query'.version = version'
      <3>1. \A j \in DOMAIN wire' : OfQuery(wire'[j]) => Current(wire'[j].request.version)
        BY <1>2, RemainingKeeps
      <3>2. QED BY <1>14, <2>1, <3>1
    <2>3. \A i \in DOMAIN inbox' : inbox'[i].method = "snapshot"
             => /\ inbox'[i].version <= version'
                /\ inbox'[i].version = version' => query'.version = version'
      <3>1. \A i \in DOMAIN inbox : inbox[i].method = "snapshot" => Current(inbox[i].version)
        BY <1>1 DEF VersionsInv
      <3>2. QED BY <1>4, <1>14, <2>1, <3>1
    <2>4. /\ \A i, j \in DOMAIN inbox' :
                i # j /\ inbox'[i].method = "snapshot" /\ inbox'[j].method = "snapshot"
                   => inbox'[i].version # inbox'[j].version
          /\ subscribed' \/ version' = 0
      BY <1>1, <1>4 DEF VersionsInv
    <2>5. /\ \A i, j \in DOMAIN wire' : i # j /\ OfQuery(wire'[i]) /\ OfQuery(wire'[j])
                => wire'[i].request.version # wire'[j].request.version
          /\ \A i \in DOMAIN inbox', j \in DOMAIN wire' :
                inbox'[i].method = "snapshot" /\ OfQuery(wire'[j])
                   => inbox'[i].version # wire'[j].request.version
      BY <1>2, <1>4, RemainingKeeps
    <2>6. QED BY <2>2, <2>3, <2>4, <2>5 DEF VersionsInv, Current, OfQuery, IsEvent
  <1>22. ClearInv'
    BY <1>2, RemainingKeeps
  \* When all is cleared nothing is stored and nothing is coming.
  <1>23. ASSUME Emptied(m)
         PROVE  /\ records = {} /\ apps = {} /\ \A j \in DOMAIN wire : ~IsEvent(wire[j])
                /\ Got(view', "usage") = {} /\ Got(view', "appUsage") = {} /\ view'.total = 0
                /\ \A kind \in Kinds : \A x : ~Coming(kind, x, 0)
    <2>1. records = {} /\ apps = {} /\ \A j \in DOMAIN wire : ~IsEvent(wire[j])
      BY <1>1, <1>3, <1>5, <1>23 DEF ClearInv, Emptied, m
    <2>2. Got(view', "usage") = {} /\ Got(view', "appUsage") = {} /\ view'.total = 0
      BY <1>23 DEF Emptied, EmptyView, Got
    <2>3. \A kind \in Kinds : \A x : ~Coming(kind, x, 0)
      BY <2>1 DEF Coming, Kinds, IsEvent
    <2>4. QED BY <2>1, <2>2, <2>3
  <1>24. ASSUME NEW j \in DOMAIN wire', Latest(wire[j])'
         PROVE  ~Done /\ Latest(wire[place[j]]) /\ wire'[j] = wire[place[j]]
    <2>1. Snapped(wire'[j]) /\ wire'[j].request.version = version
      BY <1>4, <1>24 DEF Latest, Snapped
    <2>2. OfQuery(wire'[j])
      BY <1>5, <2>1, MessageTypes DEF OfQuery, Snapped
    <2>3. QED BY <1>5, <1>14, <2>1, <2>2 DEF Latest
  <1>25. \A kind : (Exact(kind)' <=> Exact(kind)) /\ Stored(kind)' = Stored(kind)
    BY <1>4 DEF Exact, Stored
  <1>26. CopyInv'
    <2>1. ASSUME loaded', ~ClearedAfter(0)', NEW kind \in Kinds, NEW x \in Record, Exact(kind)'
          PROVE  ViewExact(kind, x)'
      <3>1. x \in Stored(kind) /\ x.day \in range'
               <=> x \in Got(view', kind) \/ (x.day \in range' /\ Coming(kind, x, 0)')
        <4>1. CASE Replaced(m)
          <5>1. AnswerExact(kind, x, 1)
            BY <1>1, <1>3, <1>9, <1>11, <1>12, <1>25, <2>1, <4>1 DEF CopyInv, Replaced, m
          <5>2. Coming(kind, x, 1) <=> Coming(kind, x, 0)'
            BY <1>8, <1>11
          <5>3. x \in Stored(kind) /\ x.day \in m.request.range
                  <=> \/ x \in Got(m.copy, kind)
                      \/ x.day \in m.request.range /\ (Coming(kind, x, 0)' \/ Saved(kind, x, m))
            BY <5>1, <5>2 DEF AnswerExact, InRange, m
          <5>4. /\ range' = m.request.range
                /\ x \in Got(view', kind)
                     <=> x \in Got(m.copy, kind) \/ (x.day \in m.request.range /\ Saved(kind, x, m))
            BY <4>1 DEF Replaced
          <5>5. QED BY <5>3, <5>4
        <4>2. CASE Emptied(m)
          BY <1>8, <1>23, <4>2 DEF Stored, Kinds
        <4>3. CASE GaveUp(m) \/ Ignored(m)
          <5>1. loaded /\ ~Cleared(m) /\ range' = range /\ view' = view
            BY <1>12, <2>1, <4>3 DEF GaveUp, Ignored
          <5>2. ViewExact(kind, x)
            BY <1>1, <1>9, <1>25, <2>1, <5>1 DEF CopyInv
          <5>3. QED BY <1>8, <5>1, <5>2 DEF ViewExact, InRange
        <4>4. QED BY <1>3, <4>1, <4>2, <4>3 DEF m
      <3>2. x \in Stored(kind)' /\ x.day \in range'
               <=> x \in Got(view', kind) \/ (x.day \in range' /\ Coming(kind, x, 0)')
        BY <1>25, <3>1
      <3>3. QED BY <3>2 DEF ViewExact, InRange, Got, Stored
    <2>2. ASSUME NEW j \in DOMAIN wire', Latest(wire[j])', ~ClearedAfter(j)',
                 NEW kind \in Kinds, NEW x \in Record, Exact(kind)'
          PROVE  AnswerExact(kind, x, j)'
      <3> DEFINE y == wire[place[j]]
      <3>1. Kept' = Kept /\ Latest(y) /\ wire'[j] = y
        BY <1>13, <1>24, <2>2
      <3>2. AnswerExact(kind, x, place[j])
        BY <1>1, <1>5, <1>9, <1>25, <2>2, <3>1 DEF CopyInv
      <3>3. x \in Stored(kind)' /\ x.day \in y.request.range
               <=> \/ x \in Got(y.copy, kind)
                   \/ /\ x.day \in y.request.range
                      /\ Coming(kind, x, j)' \/ (\E e \in Kept' : e.type = kind /\ e.record = x /\ Newer(e, y))
        BY <1>8, <1>25, <3>1, <3>2 DEF AnswerExact, InRange, Saved
      <3> HIDE DEF y
      <3>4. QED
        BY <3>1, <3>3 DEF AnswerExact, InRange, Got, Stored, Saved, Newer
    <2>3. loaded' => subscribed'
      <3>1. Replaced(m) => version \in 1 .. MaxRequests
        BY <1>12 DEF Snapshots, Queries
      <3>2. Replaced(m) => version # 0
        BY <3>1
      <3>3. ~Replaced(m) => loaded' = loaded
        BY <1>3 DEF GaveUp, Emptied, Ignored, m
      <3>4. QED BY <1>1, <1>4, <3>2, <3>3 DEF VersionsInv, CopyInv
    <2>4. QED BY <2>1, <2>2, <2>3 DEF CopyInv
  <1>27. TotalInv'
    <2> SUFFICES ASSUME "half" \notin past
                 PROVE  TotalInv'
      BY <1>4 DEF TotalInv
    <2> DEFINE total == Cardinality(records)
    <2>1. total' = total
      BY <1>4
    <2>2. /\ ~ClearedAfter(0) => \A i \in DOMAIN wire : wire[i].type = "usage" /\ ~UsageAfter(i) => wire[i].total = total
          /\ loaded /\ ~ClearedAfter(0) /\ ~UsageAfter(0) => view.total = total
          /\ \A i \in DOMAIN wire : Latest(wire[i]) /\ ~ClearedAfter(i) /\ ~UsageAfter(i) => AnswerTotal(wire[i], total)
      BY <1>1 DEF TotalInv
    <2>3. Emptied(m) => total = 0
      BY <1>23, FS_EmptySet
    <2> HIDE DEF total
    <2>4. ASSUME ~ClearedAfter(0)', NEW j \in DOMAIN wire', wire'[j].type = "usage", ~UsageAfter(j)'
          PROVE  wire'[j].total = total
      <3>1. place[j] \in DOMAIN wire /\ wire[place[j]].type = "usage" /\ IsEvent(wire[place[j]])
        BY <1>5, <2>4 DEF IsEvent
      <3>2. ~Emptied(m)
        BY <1>23, <3>1
      <3>3. ~Cleared(m)
        BY <1>3, <1>12, <3>2 DEF Ignored, m
      <3>4. QED BY <1>5, <1>9, <1>10, <2>2, <2>4, <3>1, <3>3
    <2>5. ASSUME loaded', ~ClearedAfter(0)', ~UsageAfter(0)'
          PROVE  view'.total = total
      <3>1. ~UsageAfter(0) /\ ~UsageAfter(1)
        BY <1>10, <1>11, <2>5
      <3>2. CASE Replaced(m)
        <4>1. AnswerTotal(m, total)
          BY <1>3, <1>9, <1>11, <1>12, <2>2, <2>5, <3>1, <3>2 DEF Replaced, m
        <4>2. QED BY <3>2, <4>1 DEF Replaced
      <3>3. CASE Emptied(m)
        BY <1>23, <2>3, <3>3
      <3>4. CASE GaveUp(m) \/ Ignored(m)
        <4>1. loaded /\ ~Cleared(m) /\ view' = view
          BY <1>12, <2>5, <3>4 DEF GaveUp, Ignored
        <4>2. QED BY <1>9, <2>2, <2>5, <3>1, <4>1
      <3>5. QED BY <1>3, <3>2, <3>3, <3>4 DEF m
    <2>6. ASSUME NEW j \in DOMAIN wire', Latest(wire[j])', ~ClearedAfter(j)', ~UsageAfter(j)'
          PROVE  AnswerTotal(wire[j], total)'
      <3>1. query' = query /\ Latest(wire[place[j]]) /\ wire'[j] = wire[place[j]]
        BY <1>13, <1>24, <2>6
      <3>2. AnswerTotal(wire[place[j]], total)
        BY <1>5, <1>9, <1>10, <2>2, <2>6, <3>1
      <3>3. QED BY <2>1, <3>1, <3>2 DEF AnswerTotal, AppliesAfter, Applies, Newer
    <2>7. QED BY <2>1, <2>4, <2>5, <2>6 DEF TotalInv, total
  <1>28. QED
    BY <1>16, <1>19, <1>20, <1>21, <1>22, <1>26, <1>27 DEF SyncInv

-----------------------------------------------------------------------------
(* The specification.                                                      *)

LEMMA InitSync == Init => SyncInv /\ doubled = FALSE
  <1> SUFFICES ASSUME Init PROVE SyncInv /\ doubled = FALSE
    OBVIOUS
  <1>1. /\ DOMAIN wire = {} /\ DOMAIN inbox = {} /\ DOMAIN query.events = {}
        /\ wire \in Seq(Messages) /\ inbox \in Seq(Queries \cup Others)
    BY DEF Init, NoQuery
  <1>2. TypeInv
    <2>1. view \in Copies
      BY DEF Init, EmptyView, Copies
    <2>2. query \in [version : 0 .. MaxRequests, events : Seq(Event)]
      BY BoundsAssumption DEF Init, NoQuery
    <2>3. IsFiniteSet(records)
      BY FS_EmptySet DEF Init
    <2>4. version \in 0 .. MaxRequests /\ requests \in 0 .. MaxRequests /\ version <= requests /\ revision \in 0 .. MaxRounds
      BY BoundsAssumption DEF Init
    <2>5. running \in BOOLEAN /\ subscribed \in BOOLEAN /\ loaded \in BOOLEAN
      BY DEF Init
    <2>6. records \subseteq Record /\ apps \subseteq Record /\ deferred = {} /\ past \subseteq Past /\ range \in Ranges
      BY DEF Init
    <2>7. QED BY <1>1, <2>1, <2>2, <2>3, <2>4, <2>5, <2>6 DEF TypeInv
  <1>3. Events = {} /\ Kept = {}
    BY <1>1 DEF Events, Kept
  <1>4. NumbersInv
    <2>1. RecordsNumbered
      BY DEF Init, EmptyView, RecordsNumbered
    <2>2. QED BY <1>1, <1>3, <2>1 DEF NumbersInv, EventsNumbered, SnapshotsNumbered
  <1>5. OnceInv
    BY <1>1, <1>3 DEF OnceInv, EventsDistinct, SnapshotsDistinct
  <1>6. VersionsInv /\ ClearInv
    BY <1>1 DEF Init, VersionsInv, ClearInv
  <1>7. CopyInv /\ TotalInv
    BY <1>1 DEF Init, CopyInv, TotalInv
  <1>8. QED
    BY <1>2, <1>4, <1>5, <1>6, <1>7 DEF Init, SyncInv

LEMMA NextKeeps == SyncInv /\ [Next]_vars => SyncInv'
  <1> SUFFICES ASSUME SyncInv, [Next]_vars PROVE SyncInv'
    OBVIOUS
  <1>1. TypeInv /\ RecordsNumbered
    BY DEF SyncInv, NumbersInv
  <1>2. ASSUME NEW day \in Days, CollectOnce(day) PROVE SyncInv'
    BY <1>1, <1>2, CollectOnceIs, CollectKeeps
  <1>3. CASE Handle
    BY <1>1, <1>3, HandleIs, HandleKeeps
  <1>4. ASSUME NEW days \in Ranges, QueryRange(days) PROVE SyncInv'
    BY <1>4, QueryKeeps
  <1>5. ASSUME NEW p \in BOOLEAN, Request([method |-> "setPaused", paused |-> p]) PROVE SyncInv'
    <2>1. [method |-> "setPaused", paused |-> p] \in Others
      BY DEF Others
    <2>2. QED BY <1>5, <2>1, RequestKeeps
  <1>6. CASE Request([method |-> "clearUsage"])
    <2>1. [method |-> "clearUsage"] \in Others
      BY DEF Others
    <2>2. QED BY <1>6, <2>1, RequestKeeps
  <1>7. ASSUME NEW k \in DOMAIN wire, EventArrives(k) PROVE SyncInv'
    BY <1>7, EventKeeps
  <1>8. CASE AnswerArrives
    BY <1>8, AnswerKeeps
  <1>9. CASE UNCHANGED vars
    BY <1>9, StutterKeeps
  <1>10. QED
    BY <1>2, <1>3, <1>4, <1>5, <1>6, <1>7, <1>8, <1>9 DEF Next

\* What arrives adds nothing that the copy has.
LEMMA NextOnce == SyncInv /\ doubled = FALSE /\ [Next]_vars => doubled' = FALSE
  <1> SUFFICES ASSUME SyncInv, doubled = FALSE, [Next]_vars PROVE doubled' = FALSE
    OBVIOUS
  <1>1. TypeInv /\ EventsDistinct /\ SnapshotsDistinct
    BY DEF SyncInv, OnceInv
  <1>2. ASSUME NEW k \in DOMAIN wire, EventArrives(k) PROVE doubled' = FALSE
    <2> DEFINE event == wire[k]
    <2>1. Applying(event) /\ IsEvent(event)
      BY <1>1, <1>2, EventIs
    <2>2. Lacks(view, event)
      BY <1>1, <2>1 DEF EventsDistinct, Events
    <2>3. ~CountsTwice(view, event)
      BY <2>2 DEF CountsTwice, Lacks, Got
    <2> HIDE DEF event
    <2>4. QED BY <2>1, <2>3 DEF Applying
  <1>3. CASE AnswerArrives
    <2> DEFINE m == wire[1]
    <2>1. 1 \in DOMAIN wire /\ (Replaced(m) \/ GaveUp(m) \/ Emptied(m) \/ Ignored(m))
      BY <1>1, <1>3, AnswerIs
    <2>2. Replaced(m) => \A e \in Kept : Newer(e, m) => Lacks(m.copy, e)
      BY <1>1, <2>1 DEF SnapshotsDistinct, Replaced, Latest
    <2> HIDE DEF m
    <2>3. QED BY <2>1, <2>2 DEF Replaced, GaveUp, Emptied, Ignored
  <1>4. CASE \/ \E day \in Days : CollectOnce(day)
             \/ Handle
             \/ \E days \in Ranges : QueryRange(days)
             \/ \E p \in BOOLEAN : Request([method |-> "setPaused", paused |-> p])
             \/ Request([method |-> "clearUsage"])
             \/ UNCHANGED vars
    <2>1. UNCHANGED doubled
      BY <1>4 DEF CollectOnce, Handle, QueryRange, Request, vars
    <2>2. QED BY <2>1
  <1>5. QED
    BY <1>2, <1>3, <1>4 DEF Next

LEMMA Invariance == Spec => [](SyncInv /\ doubled = FALSE)
  <1>1. SyncInv /\ doubled = FALSE /\ [Next]_vars => (SyncInv /\ doubled = FALSE)'
    BY NextKeeps, NextOnce
  <1>2. QED
    BY InitSync, <1>1, PTL DEF Spec

(***************************************************************************)
(* The types of the model's variables: what the backend keeps, what is on  *)
(* the way, and what the page keeps.                                       *)
(***************************************************************************)
THEOREM TypeCorrect == Spec => []TypeOK
  <1>1. SyncInv /\ doubled = FALSE => TypeOK
    <2> SUFFICES ASSUME SyncInv, doubled = FALSE PROVE TypeOK
      OBVIOUS
    <2>1. TypeInv
      BY DEF SyncInv
    <2>2. Requests = Queries \cup Others
      BY DEF Requests, Queries, Others
    <2>3. Cardinality(deferred) <= 1 /\ deferred \subseteq Record
      <3>1. CASE deferred = {}
        BY <3>1, FS_EmptySet
      <3>2. ASSUME NEW x \in Record, deferred = {x} PROVE Cardinality(deferred) <= 1 /\ deferred \subseteq Record
        <4>1. Cardinality({x}) = 1
          BY FS_Singleton
        <4>2. QED BY <3>2, <4>1
      <3>3. QED BY <2>1, <3>1, <3>2 DEF TypeInv
    <2>4. \A k \in DOMAIN inbox : inbox[k] \in Requests
      BY <2>1, <2>2, ElementOfSeq, LenProperties DEF TypeInv
    <2>5. \A k \in DOMAIN wire :
             IF IsEvent(wire[k]) THEN wire[k] \in Event ELSE wire[k].request \in Requests
      BY <2>1, <2>2, WireTypes, MessageTypes
    <2>6. view.records \cup view.apps \subseteq Record /\ view.total \in Nat
      BY <2>1 DEF TypeInv, Copies
    <2>7. QED BY <2>1, <2>3, <2>4, <2>5, <2>6 DEF TypeInv, TypeOK
  <1>2. QED
    BY Invariance, <1>1, PTL

(***************************************************************************)
(* Nothing is under way: the copy is exact.                                *)
(***************************************************************************)
LEMMA SettledExact ==
    ASSUME SyncInv, Settled, NEW kind \in Kinds, Exact(kind)
    PROVE  Got(view, kind) = InRange(Stored(kind), range)
  <1>1. DOMAIN wire = {} /\ loaded
    BY DEF Settled
  <1>2. TypeInv /\ CopyInv
    BY DEF SyncInv
  <1>3. \A x \in Record : x \in InRange(Stored(kind), range) <=> x \in Got(view, kind)
    <2> SUFFICES ASSUME NEW x \in Record
                 PROVE  x \in InRange(Stored(kind), range) <=> x \in Got(view, kind)
      OBVIOUS
    <2>1. ~ClearedAfter(0) /\ ~Coming(kind, x, 0)
      BY <1>1 DEF ClearedAfter, Coming
    <2>2. ViewExact(kind, x)
      BY <1>1, <1>2, <2>1 DEF CopyInv
    <2>3. QED BY <2>1, <2>2 DEF ViewExact
  <1>4. Got(view, kind) \subseteq Record /\ InRange(Stored(kind), range) \subseteq Record
    BY <1>2 DEF TypeInv, Copies, Got, Stored, InRange
  <1>5. QED
    BY <1>3, <1>4

(***************************************************************************)
(* When everything sent has arrived, the page has the stored records of    *)
(* the days it shows, and the stored total: the answers that replaced its  *)
(* copy, the events added to it and those that were kept for a query miss  *)
(* nothing and add nothing else, unless a clear failed half way.           *)
(***************************************************************************)
THEOREM PageShowsRecords == Spec => []RecordsExact
  <1>1. SyncInv => RecordsExact
    <2> SUFFICES ASSUME SyncInv, Settled, "half" \notin past
                 PROVE  view.records = InRange(records, range) /\ view.total = Cardinality(records)
      BY DEF RecordsExact
    <2>1. view.records = InRange(records, range)
      <3>1. "usage" \in Kinds /\ Exact("usage") /\ Got(view, "usage") = view.records /\ Stored("usage") = records
        BY DEF Kinds, Exact, Got, Stored
      <3>2. QED BY <3>1, SettledExact
    <2>2. view.total = Cardinality(records)
      <3>1. DOMAIN wire = {} /\ loaded
        BY DEF Settled
      <3>2. ~ClearedAfter(0) /\ ~UsageAfter(0)
        BY <3>1 DEF ClearedAfter, UsageAfter
      <3>3. QED BY <3>1, <3>2 DEF SyncInv, TotalInv
    <2>3. QED BY <2>1, <2>2
  <1>2. QED
    BY Invariance, <1>1, PTL

(***************************************************************************)
(* The same of the records of applications, where they are committed by    *)
(* rounds alone: the revision of the batch a request commits does not tell *)
(* it from the snapshot before it.                                         *)
(***************************************************************************)
THEOREM PageShowsApps == Spec => []AppsExact
  <1>1. SyncInv => AppsExact
    <2> SUFFICES ASSUME SyncInv, Settled, past = {}
                 PROVE  view.apps = InRange(apps, range)
      BY DEF AppsExact
    <2>1. "appUsage" \in Kinds /\ Exact("appUsage") /\ Got(view, "appUsage") = view.apps /\ Stored("appUsage") = apps
      BY DEF Kinds, Exact, Got, Stored
    <2>2. QED BY <2>1, SettledExact
  <1>2. QED
    BY Invariance, <1>1, PTL

(***************************************************************************)
(* No record is added to a copy that has it, neither by an event that      *)
(* overtook an answer nor by one kept while a query was under way.         *)
(***************************************************************************)
THEOREM NothingAddedTwice == Spec => []NeverTwice
  <1>1. SyncInv /\ doubled = FALSE => NeverTwice
    BY DEF NeverTwice
  <1>2. QED
    BY Invariance, <1>1, PTL
=============================================================================
