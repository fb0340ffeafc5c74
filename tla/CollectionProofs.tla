-------------------------- MODULE CollectionProofs --------------------------
(***************************************************************************)
(* Proofs about the collector as its host keeps it, and about the times it *)
(* leaves out.  Of CollectorSupervisor: type correctness, that an import   *)
(* is executed only by a paused collector, that nothing starts a collector *)
(* behind the back of an installer, and that a host at rest has a          *)
(* collector that is paused as the user left it, for any number of         *)
(* crashes, timeouts, operations and attempts.  Of CoverageGaps: the gaps  *)
(* say what is missing, nothing of what is measured, and all of what       *)
(* rounds and pauses leave out, for any number of networks, rows, steps    *)
(* and failures and any length of time.                                    *)
(***************************************************************************)
EXTENDS CollectorSupervisor, CoverageGaps, FiniteSetTheorems, SequenceTheorems,
        WellFoundedInduction, TLAPS

-----------------------------------------------------------------------------
(* The invariant.                                                          *)

\* The request a flow has sent when it stands at a state.
Sends(f, s, m) ==
    \/ f = "startup" /\ s = "importing" /\ m = "importLegacy"
    \/ f = "startup" /\ s \in {"resuming", "overlap"} /\ m = "resume"
    \/ f = "recovery" /\ s = "apps" /\ m = "setAppCollection"
    \/ f = "recovery" /\ s = "settings" /\ m \in {"pause", "resume"}
    \/ f = "import" /\ s = "hello" /\ m = "hello"
    \/ f = "import" /\ s \in {"pausing", "giving up"} /\ m = "pause"
    \/ f = "import" /\ s = "importing" /\ m = "importLegacy"
    \/ f = "import" /\ s = "restoring" /\ m \in {"pause", "resume"}
    \/ f = "update" /\ s = "hello" /\ m = "hello"
    \/ f = "update" /\ s = "pausing" /\ m = "pause"
    \/ f = "update" /\ s = "apps" /\ m = "setAppCollection"
    \/ f = "update" /\ s = "restoring" /\ m \in {"pause", "resume"}
    \/ f \in {"update", "quit"} /\ s = "shutdown" /\ m = "shutdown"
    \/ f = "page" /\ s \in {"pause", "resume", "snapshot"} /\ m = s

\* The states in which a flow waits for nothing, or for the user.
Resting(f, s) ==
    \/ s \in {"idle", "directory", "prepare", "launching", "launched",
              "protected", "dialog", "confirm", "done"}
    \/ f = "import" /\ s = "overlap"

IsAt(where)      == /\ where = [f \in Flow |-> where[f]]
                    /\ \A f \in Flow : where[f] \in States[f]
IsReply(replies) == /\ replies = [f \in Flow |-> replies[f]]
                    /\ \A f \in Flow : replies[f] \in Replies

Types == TypeOK /\ IsAt(at) /\ IsReply(reply)

\* A request that is still waited for is the one its flow has sent.
Heard ==
    \A k \in DOMAIN calls : calls[k].heard =>
        /\ reply[calls[k].by] = "waiting"
        /\ Sends(calls[k].by, at[calls[k].by], calls[k].method)

\* A flow waits for one request at a time.
Single ==
    \A j, k \in DOMAIN calls :
        calls[j].heard /\ calls[k].heard /\ calls[j].by = calls[k].by => j = k

\* The process answers in order.
Ordered ==
    \A j, k \in DOMAIN calls :
        j < k /\ calls[k].answer # "none" => calls[j].answer # "none"

Queue == Heard /\ Single /\ Ordered

Sleeping == \A f \in Flow : Resting(f, at[f]) => reply[f] # "waiting"

\* What else can go on during the startup, an update and an import.
Apart ==
    /\ reply["page"] = "held" => at["recovery"] # "idle"
    /\ at["startup"] # "idle" =>
          /\ at["recovery"] = "idle" /\ at["import"] = "idle"
          /\ at["update"] = "idle" /\ at["page"] = "idle"
    /\ installingUpdate =>
          /\ at["recovery"] = "idle" /\ at["import"] = "idle"
          /\ at["quit"] = "idle" /\ reply["page"] \notin {"held", "released"}
    /\ migrationBusy =>
          /\ at["recovery"] = "idle" /\ at["page"] # "dialog"
          /\ reply["page"] \notin {"held", "released"}

\* From the exit of the collector to the installer.
HandedOver ==
    /\ InstallerAlone
    /\ at["update"] = "exiting" /\ reply["update"] = "ok" => proc = "none"

NoResume == \A k \in DOMAIN calls : calls[k].method # "resume"

\* An import may be executed.
Isolated ==
    \/ at["startup"] = "importing"
    \/ at["import"] \in {"importing", "overlap"}
    \/ at["import"] = "pausing" /\ reply["import"] = "ok"

\* The collector is paused and nothing it is asked will resume it; while its
\* pause is on the way, nothing behind that will.
Paused ==
    /\ Isolated => procPaused /\ NoResume
    /\ at["import"] = "pausing" =>
          \A k \in DOMAIN calls : calls[k].heard /\ calls[k].by = "import" =>
             /\ \A j \in DOMAIN calls : j > k => calls[j].method # "resume"
             /\ calls[k].answer # "none" => procPaused

Flags == Apart /\ HandedOver
IInv  == Types /\ Queue /\ Sleeping /\ Flags /\ Paused

-----------------------------------------------------------------------------
(* Flows, requests and the queue.                                          *)

LEMMA FlowNames ==
    Flow = {"startup", "recovery", "import", "update", "page", "quit"}
  BY DEF Flow, States

LEMMA StateNames ==
    /\ States["startup"] = {"idle", "importing", "overlap", "resuming"}
    /\ States["recovery"] = {"idle", "apps", "settings"}
    /\ States["import"] = {"idle", "directory", "hello", "pausing", "importing",
                           "overlap", "restoring", "giving up"}
    /\ States["update"] = {"idle", "prepare", "hello", "pausing", "shutdown",
                           "exiting", "launching", "launched", "waiting", "apps",
                           "restoring", "protected"}
    /\ States["page"] = {"idle", "dialog", "pause", "resume", "snapshot"}
    /\ States["quit"] = {"idle", "confirm", "shutdown", "exiting", "done"}
  BY DEF States

LEMMA Appended ==
    ASSUME NEW S, NEW s \in Seq(S), NEW x \in S
    PROVE  /\ Append(s, x) \in Seq(S)
           /\ Len(s) \in Nat
           /\ DOMAIN s = 1 .. Len(s)
           /\ DOMAIN Append(s, x) = 1 .. Len(s) + 1
           /\ \A k \in DOMAIN s : Append(s, x)[k] = s[k] /\ k < Len(s) + 1
           /\ Append(s, x)[Len(s) + 1] = x
  OBVIOUS

LEMMA Tailed ==
    ASSUME NEW S, NEW s \in Seq(S), s # <<>>
    PROVE  /\ Tail(s) \in Seq(S)
           /\ Head(s) = s[1] /\ 1 \in DOMAIN s /\ Head(s) \in S
           /\ DOMAIN s = 1 .. Len(s) /\ Len(s) \in Nat
           /\ DOMAIN Tail(s) = 1 .. Len(s) - 1
           /\ \A k \in DOMAIN Tail(s) : k + 1 \in DOMAIN s /\ Tail(s)[k] = s[k + 1]
  OBVIOUS

LEMMA CallTypes ==
    ASSUME Types
    PROVE  \A k \in DOMAIN calls :
              /\ calls[k] \in Call
              /\ calls[k].by \in Flow /\ calls[k].method \in Methods
              /\ calls[k].answer \in {"none", "ok", "refused"}
              /\ calls[k].paused \in BOOLEAN /\ calls[k].heard \in BOOLEAN
  <1> SUFFICES ASSUME NEW k \in DOMAIN calls
               PROVE  /\ calls[k] \in Call
                      /\ calls[k].by \in Flow /\ calls[k].method \in Methods
                      /\ calls[k].answer \in {"none", "ok", "refused"}
                      /\ calls[k].paused \in BOOLEAN /\ calls[k].heard \in BOOLEAN
    OBVIOUS
  <1>1. calls \in Seq(Call)
    BY DEF Types, TypeOK
  <1>2. calls[k] \in Call
    BY <1>1
  <1>3. QED
    BY <1>2 DEF Call

LEMMA SentType ==
    ASSUME NEW f \in Flow, NEW m \in Methods
    PROVE  /\ Sent(f, m) \in Call
           /\ Sent(f, m).by = f /\ Sent(f, m).method = m
           /\ Sent(f, m).answer = "none" /\ Sent(f, m).heard
  BY DEF Sent, Call

\* The queue is left alone, and nobody who waits is disturbed.
LEMMA QueueKept ==
    ASSUME Types, Queue, calls' = calls,
           \A f \in Flow : reply[f] = "waiting" => reply'[f] = "waiting" /\ at'[f] = at[f]
    PROVE  Queue'
  BY CallTypes DEF Queue, Heard, Single, Ordered

\* A flow that waits for nothing sends a request.
LEMMA QueueAsked ==
    ASSUME Types, Queue, NEW f \in Flow, NEW m \in Methods,
           calls' = Append(calls, Sent(f, m)),
           reply[f] # "waiting", reply'[f] = "waiting", Sends(f, at'[f], m),
           \A g \in Flow : g # f /\ reply[g] = "waiting"
                               => reply'[g] = "waiting" /\ at'[g] = at[g]
    PROVE  Queue'
  <1>1. calls \in Seq(Call) /\ Sent(f, m) \in Call
    BY SentType DEF Types, TypeOK
  <1> DEFINE n == Len(calls) + 1
  <1>2. /\ n \in Nat /\ DOMAIN calls = 1 .. n - 1 /\ DOMAIN calls' = 1 .. n
        /\ calls'[n] = Sent(f, m)
        /\ \A k \in DOMAIN calls : calls'[k] = calls[k] /\ k < n
    BY <1>1, Appended
  <1>3. /\ calls'[n].by = f /\ calls'[n].method = m
        /\ calls'[n].answer = "none" /\ calls'[n].heard
    BY <1>2, SentType
  <1>4. \A k \in DOMAIN calls : calls[k] \in Call /\ calls[k].by \in Flow
    BY CallTypes
  <1>5. \A k \in DOMAIN calls : calls[k].heard => calls[k].by # f
    BY DEF Queue, Heard
  <1> HIDE DEF n
  <1>6. \A k \in DOMAIN calls' : k = n \/ (k \in DOMAIN calls /\ calls'[k] = calls[k] /\ k < n)
    BY <1>2
  <1>7. Heard'
    BY <1>3, <1>4, <1>5, <1>6 DEF Queue, Heard
  <1>8. Single'
    BY <1>3, <1>5, <1>6 DEF Queue, Single
  <1>9. Ordered'
    <2> SUFFICES ASSUME NEW j \in DOMAIN calls', NEW k \in DOMAIN calls', j < k,
                        calls'[k].answer # "none"
                 PROVE  calls'[j].answer # "none"
      BY DEF Ordered
    <2>1. k # n
      BY <1>3
    <2>2. k \in DOMAIN calls /\ j \in DOMAIN calls
      BY <1>2, <1>6, <2>1
    <2>3. QED
      BY <1>6, <2>1, <2>2, <1>2 DEF Queue, Ordered
  <1>10. QED
    BY <1>7, <1>8, <1>9 DEF Queue

-----------------------------------------------------------------------------
(* A step of one flow.                                                     *)

ProcTypes ==
    /\ proc \in {"none", "running", "leaving"} /\ procPaused \in BOOLEAN
    /\ calls \in Seq(Call)
    /\ stopping \in BOOLEAN /\ shutdownPending \in BOOLEAN

Others ==
    /\ collectionState \in BOOLEAN
    /\ saved \in [Flow -> BOOLEAN]
    /\ migrationError \in BOOLEAN
    /\ recoveryTimer \in BOOLEAN /\ stableTimer \in BOOLEAN
    /\ collectorRecoveryNeeded \in BOOLEAN
    /\ recoveryAttempts \in 0 .. MaxAttempts

\* A flow goes to a state, with one of some replies.
Turn(f, s, R) ==
    /\ at'[f] = s /\ reply'[f] \in R
    /\ \A g \in Flow : g # f => at'[g] = at[g] /\ reply'[g] = reply[g]

\* The queue is left alone or gets a request.
Grows(f, m) ==
    /\ procPaused => procPaused'
    /\ proc # "none" => proc' = proc
    /\ calls' = calls \/ calls' = Append(calls, Sent(f, m))

\* What holds of the queue and of the types after the step of a flow.
Sound == IsAt(at') /\ IsReply(reply') /\ ProcTypes' /\ Queue' /\ Sleeping'

LEMMA TypesSplit ==
    /\ Types <=> ProcTypes /\ Others /\ IsAt(at) /\ IsReply(reply)
    /\ Types' <=> ProcTypes' /\ Others' /\ IsAt(at') /\ IsReply(reply')
  BY DEF Types, TypeOK, ProcTypes, Others, IsAt, IsReply

LEMMA Requested ==
    ASSUME Types, Queue, NEW f \in Flow, NEW s \in States[f], NEW m \in Methods,
           reply[f] # "waiting", Sends(f, s, m),
           NEW where, IsAt(where), where[f] = s, NEW replies, IsReply(replies),
           \A g \in Flow : g # f /\ reply[g] = "waiting"
                               => where[g] = at[g] /\ replies[g] = "waiting",
           \A g \in Flow : g # f /\ Resting(g, where[g]) => replies[g] # "waiting",
           request(f, m, where, replies)
    PROVE  /\ at' = where /\ reply'[f] \in {"failed", "waiting"}
           /\ \A g \in Flow : g # f => reply'[g] = replies[g]
           /\ Grows(f, m) /\ Sound
  <1>1. ProcTypes /\ at' = where
    BY TypesSplit DEF request
  <1>2. IsAt(at')
    BY <1>1
  <1>3. \A r \in Replies :
            /\ IsReply([replies EXCEPT ![f] = r]) /\ [replies EXCEPT ![f] = r][f] = r
            /\ \A g \in Flow : g # f => [replies EXCEPT ![f] = r][g] = replies[g]
    BY DEF IsReply
  <1>4. CASE shutdownPending
    <2>1. reply' = [replies EXCEPT ![f] = "failed"] /\ UNCHANGED procVars
      BY <1>4 DEF request
    <2>2. IsReply(reply') /\ reply'[f] = "failed" /\ \A g \in Flow : g # f => reply'[g] = replies[g]
      BY <1>3, <2>1 DEF Replies
    <2>3. Queue'
      BY <1>1, <2>1, <2>2, QueueKept DEF procVars
    <2>4. Sleeping'
      BY <1>1, <2>2 DEF Sleeping
    <2>5. QED
      BY <1>1, <1>2, <2>1, <2>2, <2>3, <2>4 DEF procVars, Grows, Sound, ProcTypes
  <1>5. CASE ~shutdownPending
    <2>1. /\ reply' = [replies EXCEPT ![f] = "waiting"]
          /\ calls' = Append(calls, Sent(f, m))
          /\ proc' = IF proc = "none" THEN "running" ELSE proc
          /\ procPaused' = (proc = "none" \/ procPaused)
          /\ stopping' = (proc # "none" /\ stopping)
          /\ UNCHANGED shutdownPending
      BY <1>5 DEF request
    <2>2. IsReply(reply') /\ reply'[f] = "waiting" /\ \A g \in Flow : g # f => reply'[g] = replies[g]
      BY <1>3, <2>1 DEF Replies
    <2>3. Queue'
      BY <1>1, <2>1, <2>2, QueueAsked
    <2>4. calls' \in Seq(Call)
      BY <1>1, <2>1, SentType, Appended DEF ProcTypes
    <2>5. proc' \in {"none", "running", "leaving"} /\ procPaused' \in BOOLEAN /\ stopping' \in BOOLEAN
      BY <1>1, <2>1 DEF ProcTypes
    <2>6. ProcTypes'
      BY <1>1, <2>1, <2>4, <2>5 DEF ProcTypes
    <2>7. ~Resting(f, s)
      BY DEF Sends, Resting
    <2>8. Sleeping'
      BY <1>1, <2>2, <2>7 DEF Sleeping
    <2>9. QED
      BY <1>1, <1>2, <2>1, <2>2, <2>3, <2>6, <2>8 DEF Grows, Sound
  <1>6. QED
    BY <1>4, <1>5

LEMMA Asked ==
    ASSUME Types, Queue, Sleeping, NEW f \in Flow, NEW s \in States[f], NEW m \in Methods,
           reply[f] # "waiting", Sends(f, s, m), Ask(f, m, s)
    PROVE  Turn(f, s, {"failed", "waiting"}) /\ Grows(f, m) /\ Sound
  <1> DEFINE where == Move(f, s)
             replies == Taken(f)
  <1>1. request(f, m, where, replies)
    BY DEF Ask
  <1>2. IsAt(where) /\ where[f] = s /\ \A g \in Flow : g # f => where[g] = at[g]
    BY TypesSplit DEF IsAt, Move
  <1>3. IsReply(replies) /\ \A g \in Flow : g # f => replies[g] = reply[g]
    BY TypesSplit DEF IsReply, Replies, Taken
  <1> HIDE DEF where, replies
  <1>4. /\ at' = where /\ reply'[f] \in {"failed", "waiting"}
        /\ \A g \in Flow : g # f => reply'[g] = replies[g]
        /\ Grows(f, m) /\ Sound
    BY <1>1, <1>2, <1>3, Requested DEF Sleeping
  <1>5. QED
    BY <1>2, <1>3, <1>4 DEF Turn

LEMMA Stepped ==
    ASSUME Types, Queue, Sleeping, NEW f \in Flow, NEW s \in States[f],
           reply[f] # "waiting", at' = Move(f, s), UNCHANGED <<procVars, reply>>
    PROVE  Turn(f, s, {reply[f]}) /\ Sound
  <1>1. IsAt(at) /\ IsReply(reply) /\ ProcTypes
    BY TypesSplit
  <1>2. IsAt(at') /\ at'[f] = s /\ \A g \in Flow : g # f => at'[g] = at[g]
    BY <1>1 DEF Move, IsAt
  <1>3. Queue'
    BY <1>2, QueueKept DEF procVars
  <1>4. QED
    BY <1>1, <1>2, <1>3 DEF procVars, Turn, Sound, ProcTypes, Sleeping

LEMMA Stayed ==
    ASSUME Types, Queue, Sleeping, NEW f \in Flow, NEW s \in States[f],
           reply[f] # "waiting", Stay(f, s)
    PROVE  Turn(f, s, {"none"}) /\ UNCHANGED procVars /\ Sound
  <1>1. IsAt(at) /\ IsReply(reply) /\ ProcTypes
    BY TypesSplit
  <1>2. at' = Move(f, s) /\ reply' = Taken(f) /\ UNCHANGED procVars
    BY DEF Stay
  <1>3. IsAt(at') /\ at'[f] = s /\ \A g \in Flow : g # f => at'[g] = at[g]
    BY <1>1, <1>2 DEF Move, IsAt
  <1>4. IsReply(reply') /\ reply'[f] = "none" /\ \A g \in Flow : g # f => reply'[g] = reply[g]
    BY <1>1, <1>2 DEF Taken, Replies, IsReply
  <1>5. Queue'
    BY <1>2, <1>3, <1>4, QueueKept DEF procVars
  <1>6. QED
    BY <1>1, <1>2, <1>3, <1>4, <1>5 DEF procVars, Turn, Sound, ProcTypes, Sleeping

LEMMA Awaited ==
    ASSUME Types, Queue, Sleeping, NEW f \in Flow, NEW s \in States[f],
           reply[f] # "waiting", ~Resting(f, s), Await(f, s), UNCHANGED procVars
    PROVE  Turn(f, s, {"waiting"}) /\ Sound
  <1>1. IsAt(at) /\ IsReply(reply) /\ ProcTypes
    BY TypesSplit
  <1>2. at' = Move(f, s) /\ reply' = [reply EXCEPT ![f] = "waiting"]
    BY DEF Await
  <1>3. IsAt(at') /\ at'[f] = s /\ \A g \in Flow : g # f => at'[g] = at[g]
    BY <1>1, <1>2 DEF Move, IsAt
  <1>4. IsReply(reply') /\ reply'[f] = "waiting" /\ \A g \in Flow : g # f => reply'[g] = reply[g]
    BY <1>1, <1>2 DEF Replies, IsReply
  <1>5. Queue'
    BY <1>2, <1>3, <1>4, QueueKept DEF procVars
  <1>6. QED
    BY <1>1, <1>3, <1>4, <1>5 DEF procVars, Turn, Sound, ProcTypes, Sleeping

LEMMA ShutDown ==
    ASSUME Types, Queue, Sleeping, NEW f \in {"update", "quit"}, reply[f] # "waiting", Shutdown(f)
    PROVE  /\ Turn(f, "shutdown", {"waiting"}) /\ Grows(f, "shutdown") /\ Sound
           /\ UNCHANGED <<proc, procPaused>>
  <1>1. IsAt(at) /\ IsReply(reply) /\ ProcTypes
    BY TypesSplit
  <1>2. /\ at' = Move(f, "shutdown") /\ reply' = [reply EXCEPT ![f] = "waiting"]
        /\ stopping' = TRUE /\ shutdownPending' = TRUE
        /\ calls' = Append(calls, Sent(f, "shutdown"))
        /\ UNCHANGED <<proc, procPaused>>
    BY DEF Shutdown, Await
  <1>3. f \in Flow /\ "shutdown" \in States[f] /\ "shutdown" \in Methods
    <2>1. f = "update" \/ f = "quit"
      OBVIOUS
    <2>2. QED
      BY <2>1, FlowNames, StateNames DEF Methods
  <1>4. IsAt(at') /\ at'[f] = "shutdown" /\ \A g \in Flow : g # f => at'[g] = at[g]
    BY <1>1, <1>2, <1>3 DEF Move, IsAt
  <1>5. IsReply(reply') /\ reply'[f] = "waiting" /\ \A g \in Flow : g # f => reply'[g] = reply[g]
    BY <1>1, <1>2, <1>3 DEF Replies, IsReply
  <1>6. Sends(f, at'[f], "shutdown")
    BY <1>4 DEF Sends
  <1>7. Queue'
    BY <1>2, <1>3, <1>4, <1>5, <1>6, QueueAsked
  <1>8. calls' \in Seq(Call)
    BY <1>1, <1>2, <1>3, SentType, Appended DEF ProcTypes
  <1>9. ~Resting(f, "shutdown")
    BY DEF Resting
  <1>10. Sleeping'
    BY <1>4, <1>5, <1>9 DEF Sleeping
  <1>11. QED
    BY <1>1, <1>2, <1>4, <1>5, <1>7, <1>8, <1>10 DEF Turn, Grows, Sound, ProcTypes

\* Nothing that resumes the collector gets behind the pause of an import.
LEMMA PausedGrows ==
    ASSUME IInv, NEW f \in Flow, NEW m \in Methods, Grows(f, m),
           Isolated' => Isolated /\ m # "resume",
           at'["import"] = "pausing" =>
               \/ at["import"] = "pausing" /\ m # "resume"
               \/ reply["import"] # "waiting"
    PROVE  Paused'
  <1>1. Types /\ calls \in Seq(Call) /\ Sent(f, m) \in Call
    BY SentType DEF IInv, Types, TypeOK
  <1>2. CASE calls' = calls
    BY <1>2, CallTypes, <1>1 DEF IInv, Paused, Grows, NoResume, Queue, Heard
  <1>3. CASE calls' = Append(calls, Sent(f, m))
    <2> DEFINE n == Len(calls) + 1
    <2>1. /\ n \in Nat /\ DOMAIN calls = 1 .. n - 1 /\ DOMAIN calls' = 1 .. n
          /\ calls'[n] = Sent(f, m)
          /\ \A k \in DOMAIN calls : calls'[k] = calls[k] /\ k < n
      BY <1>1, <1>3, Appended
    <2>2. calls'[n].by = f /\ calls'[n].method = m /\ calls'[n].answer = "none"
      BY <2>1, SentType
    <2> HIDE DEF n
    <2>3. \A k \in DOMAIN calls' : k = n \/ (k \in DOMAIN calls /\ calls'[k] = calls[k] /\ k < n)
      BY <2>1
    <2>4. Isolated' => procPaused' /\ NoResume'
      BY <2>2, <2>3 DEF IInv, Paused, Grows, NoResume
    <2>5. ASSUME at'["import"] = "pausing", NEW k \in DOMAIN calls',
                 calls'[k].heard, calls'[k].by = "import"
          PROVE  /\ \A j \in DOMAIN calls' : j > k => calls'[j].method # "resume"
                 /\ calls'[k].answer # "none" => procPaused'
      <3>1. CASE k = n
        BY <2>1, <2>2, <3>1
      <3>2. CASE k # n
        <4>1. k \in DOMAIN calls /\ calls'[k] = calls[k]
          BY <2>3, <3>2
        <4>2. reply["import"] = "waiting"
          BY <2>5, <4>1 DEF IInv, Queue, Heard
        <4>3. at["import"] = "pausing" /\ m # "resume"
          BY <2>5, <4>2
        <4>4. /\ \A j \in DOMAIN calls : j > k => calls[j].method # "resume"
              /\ calls[k].answer # "none" => procPaused
          BY <2>5, <4>1, <4>3 DEF IInv, Paused
        <4>5. QED
          BY <2>2, <2>3, <4>1, <4>3, <4>4 DEF Grows
      <3>3. QED
        BY <3>1, <3>2
    <2>6. QED
      BY <2>4, <2>5 DEF Paused
  <1>4. QED
    BY <1>2, <1>3 DEF Grows

\* Where the flows stand, one by one.
LEMMA Stands ==
    ASSUME IInv
    PROVE  /\ Types /\ Queue /\ Sleeping
           /\ \A f \in Flow : at[f] \in States[f] /\ reply[f] \in Replies
           /\ \A f \in Flow : Resting(f, at[f]) => reply[f] # "waiting"
  BY DEF IInv, Types, IsAt, IsReply, Sleeping

\* The step of a flow that keeps the flags keeps the invariant.
LEMMA Kept ==
    ASSUME IInv, NEW f \in Flow, NEW m \in Methods, Grows(f, m), Sound, Others', Flags',
           Isolated' => Isolated /\ m # "resume",
           at'["import"] = "pausing" =>
               \/ at["import"] = "pausing" /\ m # "resume"
               \/ reply["import"] # "waiting"
    PROVE  IInv'
  BY PausedGrows, TypesSplit DEF IInv, Sound

\* A step that leaves the queue alone.
LEMMA KeptStill ==
    ASSUME IInv, UNCHANGED procVars, Sound, Others', Flags', Isolated' => Isolated,
           at'["import"] = "pausing" =>
               at["import"] = "pausing" \/ reply["import"] # "waiting"
    PROVE  IInv'
  <1>1. "page" \in Flow /\ "snapshot" \in Methods
    BY FlowNames DEF Methods
  <1>2. Grows("page", "snapshot")
    BY DEF Grows, procVars
  <1>3. QED
    BY <1>1, <1>2, Kept

\* Nothing of the flows and of the queue changes.
LEMMA Unmoved ==
    ASSUME IInv, UNCHANGED <<procVars, at, reply>>, Others'
    PROVE  IInv'
  <1>1. Types /\ Queue /\ Sleeping /\ Flags
    BY DEF IInv
  <1>2. Sound
    BY <1>1, QueueKept, TypesSplit DEF Sound, procVars, ProcTypes, IsAt, IsReply, Sleeping
  <1>3. Flags'
    BY <1>1 DEF Flags, Apart, HandedOver, InstallerAlone, installingUpdate,
                migrationBusy, procVars
  <1>4. QED
    BY <1>2, <1>3, KeptStill DEF Isolated

LEMMA ScheduleType ==
    ASSUME scheduleCollectorRecovery
    PROVE  recoveryTimer' \in BOOLEAN
  BY DEF scheduleCollectorRecovery

-----------------------------------------------------------------------------
(* Startup and import.                                                     *)

LEMMA StartupStep ==
    ASSUME IInv, Startup, UNCHANGED <<saved, collectionState>>
    PROVE  IInv'
  <1> USE FlowNames, StateNames, Stands
      DEF Got, Methods, Replies, Resting, Idle, setPaused, migrationBusy,
          installingUpdate, startupSettled, recoveryFlight
  <1>1. CASE /\ Got("startup", {"importing"}, {"ok"})
           /\ Ask("startup", "resume", "resuming")
           /\ UNCHANGED <<migrationError, recoveryVars>>
    <2>1. Turn("startup", "resuming", {"failed", "waiting"}) /\ Grows("startup", "resume") /\ Sound
      BY <1>1, Asked DEF Sends
    <2>2. Flags'
      BY <1>1, <2>1
         DEF Turn, Grows, procVars, IInv, Flags, Apart, HandedOver,
             InstallerAlone
    <2>3. Others'
      BY <1>1, TypesSplit DEF Others, recoveryVars
    <2>4. QED
      BY <1>1, <2>1, <2>2, <2>3, Kept
         DEF IInv, Flags, Apart, Turn, Isolated
  <1>2. CASE /\ Got("startup", {"importing"}, {"refused"})
           /\ Ask("startup", "resume", "overlap")
           /\ migrationError' = TRUE /\ UNCHANGED recoveryVars
    <2>1. Turn("startup", "overlap", {"failed", "waiting"}) /\ Grows("startup", "resume") /\ Sound
      BY <1>2, Asked DEF Sends
    <2>2. Flags'
      BY <1>2, <2>1
         DEF Turn, Grows, procVars, IInv, Flags, Apart, HandedOver,
             InstallerAlone
    <2>3. Others'
      BY <1>2, TypesSplit DEF Others, recoveryVars
    <2>4. QED
      BY <1>2, <2>1, <2>2, <2>3, Kept
         DEF IInv, Flags, Apart, Turn, Isolated
  <1>3. CASE /\ Got("startup", {"importing", "resuming", "overlap"}, {"ok", "refused", "failed"})
           /\ migrationError' \in BOOLEAN
           /\ Stay("startup", "idle")
           /\ UNCHANGED <<collectorRecoveryNeeded, stableTimer, recoveryAttempts>>
           /\ scheduleCollectorRecovery
    <2>1. Turn("startup", "idle", {"none"}) /\ UNCHANGED procVars /\ Sound
      BY <1>3, Stayed
    <2>2. Flags'
      BY <1>3, <2>1
         DEF Turn, Grows, procVars, IInv, Flags, Apart, HandedOver,
             InstallerAlone
    <2>3. Others'
      BY <1>3, ScheduleType, TypesSplit DEF Others, recoveryVars
    <2>4. QED
      BY <1>3, <2>1, <2>2, <2>3, KeptStill
         DEF IInv, Flags, Apart, Turn, Isolated
  <1>4. QED
    BY <1>1, <1>2, <1>3 DEF Startup

LEMMA ImportStep ==
    ASSUME IInv, Import, UNCHANGED <<saved, collectionState>>
    PROVE  IInv'
  <1> USE FlowNames, StateNames, Stands
      DEF Got, Methods, Replies, Resting, Idle, setPaused, migrationBusy,
          installingUpdate, startupSettled, recoveryFlight
  <1>1. CASE /\ Got("import", {"hello"}, {"ok"}) /\ Ask("import", "pause", "pausing")
           /\ UNCHANGED <<migrationError, recoveryVars>>
    <2>1. Turn("import", "pausing", {"failed", "waiting"}) /\ Grows("import", "pause") /\ Sound
      BY <1>1, Asked DEF Sends
    <2>2. Flags'
      BY <1>1, <2>1
         DEF Turn, Grows, procVars, IInv, Flags, Apart, HandedOver,
             InstallerAlone
    <2>3. Others'
      BY <1>1, TypesSplit DEF Others, recoveryVars
    <2>4. QED
      BY <1>1, <2>1, <2>2, <2>3, Kept
         DEF IInv, Flags, Apart, Turn, Isolated
  <1>2. CASE /\ Got("import", {"pausing"}, {"ok"})
           /\ Ask("import", "importLegacy", "importing")
           /\ UNCHANGED <<migrationError, recoveryVars>>
    <2>1. Turn("import", "importing", {"failed", "waiting"}) /\ Grows("import", "importLegacy") /\ Sound
      BY <1>2, Asked DEF Sends
    <2>2. Flags'
      BY <1>2, <2>1
         DEF Turn, Grows, procVars, IInv, Flags, Apart, HandedOver,
             InstallerAlone
    <2>3. Others'
      BY <1>2, TypesSplit DEF Others, recoveryVars
    <2>4. QED
      BY <1>2, <2>1, <2>2, <2>3, Kept
         DEF IInv, Flags, Apart, Turn, Isolated
  <1>3. CASE /\ Got("import", {"importing"}, {"refused"}) /\ Stay("import", "overlap")
           /\ UNCHANGED <<migrationError, recoveryVars>>
    <2>1. Turn("import", "overlap", {"none"}) /\ UNCHANGED procVars /\ Sound
      BY <1>3, Stayed
    <2>2. Flags'
      BY <1>3, <2>1
         DEF Turn, Grows, procVars, IInv, Flags, Apart, HandedOver,
             InstallerAlone
    <2>3. Others'
      BY <1>3, TypesSplit DEF Others, recoveryVars
    <2>4. QED
      BY <1>3, <2>1, <2>2, <2>3, KeptStill
         DEF IInv, Flags, Apart, Turn, Isolated
  <1>4. CASE /\ Got("import", {"hello", "pausing", "importing", "restoring"}, {"refused", "failed"})
           /\ Ask("import", "pause", "giving up")
           /\ UNCHANGED <<migrationError, recoveryVars>>
    <2>1. Turn("import", "giving up", {"failed", "waiting"}) /\ Grows("import", "pause") /\ Sound
      BY <1>4, Asked DEF Sends
    <2>2. Flags'
      BY <1>4, <2>1
         DEF Turn, Grows, procVars, IInv, Flags, Apart, HandedOver,
             InstallerAlone
    <2>3. Others'
      BY <1>4, TypesSplit DEF Others, recoveryVars
    <2>4. QED
      BY <1>4, <2>1, <2>2, <2>3, Kept
         DEF IInv, Flags, Apart, Turn, Isolated
  <1>5. CASE /\ Got("import", {"importing"}, {"ok"})
           /\ migrationError' = FALSE /\ UNCHANGED recoveryVars
           /\ Ask("import", setPaused(saved["import"]), "restoring")
    <2>1. Turn("import", "restoring", {"failed", "waiting"}) /\ Grows("import", setPaused(saved["import"])) /\ Sound
      BY <1>5, Asked DEF Sends
    <2>2. Flags'
      BY <1>5, <2>1
         DEF Turn, Grows, procVars, IInv, Flags, Apart, HandedOver,
             InstallerAlone
    <2>3. Others'
      BY <1>5, TypesSplit DEF Others, recoveryVars
    <2>4. QED
      BY <1>5, <2>1, <2>2, <2>3, Kept
         DEF IInv, Flags, Apart, Turn, Isolated
  <1>6. CASE /\ Got("import", {"restoring", "giving up"}, {"ok", "failed"})
           /\ migrationError' \in {TRUE, migrationError}
           /\ EndImport
    <2>1. Turn("import", "idle", {"none"}) /\ UNCHANGED procVars /\ Sound
      BY <1>6, Stayed DEF EndImport
    <2>2. Flags'
      BY <1>6, <2>1
         DEF EndImport, Turn, Grows, procVars, IInv, Flags, Apart, HandedOver,
             InstallerAlone
    <2>3. Others'
      BY <1>6, ScheduleType, TypesSplit DEF EndImport, Others, recoveryVars
    <2>4. QED
      BY <1>6, <2>1, <2>2, <2>3, KeptStill
         DEF IInv, Flags, Apart, Turn, Isolated
  <1>7. QED
    BY <1>1, <1>2, <1>3, <1>4, <1>5, <1>6 DEF Import

LEMMA ImportAsksStep ==
    ASSUME IInv, ImportAsks
    PROVE  IInv'
  <1> USE FlowNames, StateNames, Stands
      DEF Got, Methods, Replies, Resting, Idle, setPaused, migrationBusy,
          installingUpdate, startupSettled, recoveryFlight
  <1>1. CASE ImportAsks
    <2>1. Turn("import", "directory", {reply["import"]}) /\ UNCHANGED procVars /\ Sound
      BY <1>1, Stepped DEF ImportAsks, Operation
    <2>2. Flags'
      BY <1>1, <2>1
         DEF ImportAsks, Operation, Dialog, Turn, Grows, procVars, IInv, Flags, Apart, HandedOver,
             InstallerAlone
    <2>3. Others'
      BY <1>1, TypesSplit DEF ImportAsks, Operation, Dialog, Others, recoveryVars
    <2>4. QED
      BY <1>1, <2>1, <2>2, <2>3, KeptStill
         DEF IInv, Flags, Apart, Turn, Isolated
  <1>2. QED
    BY <1>1 DEF ImportAsks

LEMMA ImportAnswersStep ==
    ASSUME IInv, ImportAnswers
    PROVE  IInv'
  <1> USE FlowNames, StateNames, Stands
      DEF Got, Methods, Replies, Resting, Idle, setPaused, migrationBusy,
          installingUpdate, startupSettled, recoveryFlight
  <1>1. CASE /\ at["import"] = "directory" /\ Idle
           /\ UNCHANGED <<migrationError, collectionState, saved>>
           /\ EndImport
    <2>1. Turn("import", "idle", {"none"}) /\ UNCHANGED procVars /\ Sound
      BY <1>1, Stayed DEF EndImport
    <2>2. Flags'
      BY <1>1, <2>1
         DEF EndImport, Turn, Grows, procVars, IInv, Flags, Apart, HandedOver,
             InstallerAlone
    <2>3. Others'
      BY <1>1, ScheduleType, TypesSplit DEF EndImport, Others, recoveryVars
    <2>4. QED
      BY <1>1, <2>1, <2>2, <2>3, KeptStill
         DEF IInv, Flags, Apart, Turn, Isolated
  <1>2. CASE /\ at["import"] = "directory" /\ Idle
           /\ UNCHANGED <<migrationError, recoveryVars, collectionState, saved>>
           /\ Ask("import", "hello", "hello")
    <2>1. Turn("import", "hello", {"failed", "waiting"}) /\ Grows("import", "hello") /\ Sound
      BY <1>2, Asked DEF Sends
    <2>2. Flags'
      BY <1>2, <2>1
         DEF Turn, Grows, procVars, IInv, Flags, Apart, HandedOver,
             InstallerAlone
    <2>3. Others'
      BY <1>2, TypesSplit DEF Others, recoveryVars
    <2>4. QED
      BY <1>2, <2>1, <2>2, <2>3, Kept
         DEF IInv, Flags, Apart, Turn, Isolated
  <1>3. CASE /\ at["import"] = "overlap" /\ Idle
           /\ UNCHANGED <<migrationError, recoveryVars, collectionState, saved>>
           /\ Ask("import", "importLegacy", "importing")
    <2>1. Turn("import", "importing", {"failed", "waiting"}) /\ Grows("import", "importLegacy") /\ Sound
      BY <1>3, Asked DEF Sends
    <2>2. Flags'
      BY <1>3, <2>1
         DEF Turn, Grows, procVars, IInv, Flags, Apart, HandedOver,
             InstallerAlone
    <2>3. Others'
      BY <1>3, TypesSplit DEF Others, recoveryVars
    <2>4. QED
      BY <1>3, <2>1, <2>2, <2>3, Kept
         DEF IInv, Flags, Apart, Turn, Isolated
  <1>4. CASE /\ at["import"] = "overlap" /\ Idle
           /\ UNCHANGED <<migrationError, recoveryVars, collectionState, saved>>
           /\ Ask("import", "pause", "giving up")
    <2>1. Turn("import", "giving up", {"failed", "waiting"}) /\ Grows("import", "pause") /\ Sound
      BY <1>4, Asked DEF Sends
    <2>2. Flags'
      BY <1>4, <2>1
         DEF Turn, Grows, procVars, IInv, Flags, Apart, HandedOver,
             InstallerAlone
    <2>3. Others'
      BY <1>4, TypesSplit DEF Others, recoveryVars
    <2>4. QED
      BY <1>4, <2>1, <2>2, <2>3, Kept
         DEF IInv, Flags, Apart, Turn, Isolated
  <1>5. QED
    BY <1>1, <1>2, <1>3, <1>4 DEF ImportAnswers

-----------------------------------------------------------------------------
(* The update and the exit.                                                *)

LEMMA UpdateAsksStep ==
    ASSUME IInv, UpdateAsks
    PROVE  IInv'
  <1> USE FlowNames, StateNames, Stands
      DEF Got, Methods, Replies, Resting, Idle, setPaused, migrationBusy,
          installingUpdate, startupSettled, recoveryFlight
  <1>1. CASE UpdateAsks
    <2>1. Turn("update", "prepare", {reply["update"]}) /\ UNCHANGED procVars /\ Sound
      BY <1>1, Stepped DEF UpdateAsks, Operation, ready
    <2>2. Flags'
      BY <1>1, <2>1
         DEF UpdateAsks, Operation, ready, Turn, Grows, procVars, IInv, Flags, Apart, HandedOver,
             InstallerAlone
    <2>3. Others'
      BY <1>1, TypesSplit DEF UpdateAsks, Operation, ready, Others, recoveryVars
    <2>4. QED
      BY <1>1, <2>1, <2>2, <2>3, KeptStill
         DEF IInv, Flags, Apart, Turn, Isolated
  <1>2. QED
    BY <1>1 DEF UpdateAsks

LEMMA UpdatePreparedStep ==
    ASSUME IInv, UpdatePrepared
    PROVE  IInv'
  <1> USE FlowNames, StateNames, Stands
      DEF Got, Methods, Replies, Resting, Idle, setPaused, migrationBusy,
          installingUpdate, startupSettled, recoveryFlight
  <1>1. CASE /\ at["update"] = "prepare" /\ Idle /\ ready
           /\ Ask("update", "hello", "hello")
           /\ UNCHANGED <<collectionState, saved, migrationError>>
           /\ recoveryTimer' = FALSE /\ stableTimer' = FALSE
           /\ UNCHANGED <<collectorRecoveryNeeded, recoveryAttempts>>
    <2>1. Turn("update", "hello", {"failed", "waiting"}) /\ Grows("update", "hello") /\ Sound
      BY <1>1, Asked DEF Sends
    <2>2. Flags'
      BY <1>1, <2>1
         DEF ready, Turn, Grows, procVars, IInv, Flags, Apart, HandedOver,
             InstallerAlone
    <2>3. Others'
      BY <1>1, TypesSplit DEF ready, Others, recoveryVars
    <2>4. QED
      BY <1>1, <2>1, <2>2, <2>3, Kept
         DEF IInv, Flags, Apart, Turn, Isolated
  <1>2. CASE /\ at["update"] = "prepare" /\ Idle
           /\ Stay("update", "idle")
           /\ UNCHANGED <<collectionState, saved, migrationError>> /\ UNCHANGED recoveryVars
    <2>1. Turn("update", "idle", {"none"}) /\ UNCHANGED procVars /\ Sound
      BY <1>2, Stayed
    <2>2. Flags'
      BY <1>2, <2>1
         DEF Turn, Grows, procVars, IInv, Flags, Apart, HandedOver,
             InstallerAlone
    <2>3. Others'
      BY <1>2, TypesSplit DEF Others, recoveryVars
    <2>4. QED
      BY <1>2, <2>1, <2>2, <2>3, KeptStill
         DEF IInv, Flags, Apart, Turn, Isolated
  <1>3. QED
    BY <1>1, <1>2 DEF UpdatePrepared, stillReady

\* The update gives up: it asks for what it paused to be restored, or waits.
LEMMA RecoverStep ==
    ASSUME IInv, at["update"] \in {"launching", "pausing", "shutdown", "exiting", "waiting", "apps", "protected"},
           reply["update"] # "waiting", Recover \/ Restore \/ restore,
           UNCHANGED <<collectionState, saved, migrationError, recoveryVars>>
    PROVE  IInv'
  <1> USE FlowNames, StateNames, Stands
      DEF Got, Methods, Replies, Resting, Idle, setPaused, migrationBusy,
          installingUpdate, startupSettled, recoveryFlight
  <1>1. CASE Ask("update", "setAppCollection", "apps")
    <2>1. Turn("update", "apps", {"failed", "waiting"}) /\ Grows("update", "setAppCollection") /\ Sound
      BY <1>1, Asked DEF Sends
    <2>2. Flags'
      BY <1>1, <2>1
         DEF Turn, Grows, procVars, IInv, Flags, Apart, HandedOver,
             InstallerAlone
    <2>3. Others'
      BY <1>1, TypesSplit DEF Others, recoveryVars
    <2>4. QED
      BY <1>1, <2>1, <2>2, <2>3, Kept
         DEF IInv, Flags, Apart, Turn, Isolated
  <1>2. CASE restore
    <2>1. Turn("update", "restoring", {"failed", "waiting"}) /\ Grows("update", setPaused(saved["update"])) /\ Sound
      BY <1>2, Asked DEF Sends, restore
    <2>2. Flags'
      BY <1>2, <2>1
         DEF Turn, Grows, procVars, IInv, Flags, Apart, HandedOver,
             InstallerAlone
    <2>3. Others'
      BY <1>2, TypesSplit DEF Others, recoveryVars
    <2>4. QED
      BY <1>2, <2>1, <2>2, <2>3, Kept
         DEF IInv, Flags, Apart, Turn, Isolated
  <1>3. CASE Await("update", "waiting") /\ UNCHANGED procVars
    <2>1. Turn("update", "waiting", {"waiting"}) /\ UNCHANGED procVars /\ Sound
      BY <1>3, Awaited
    <2>2. Flags'
      BY <1>3, <2>1
         DEF Turn, Grows, procVars, IInv, Flags, Apart, HandedOver,
             InstallerAlone
    <2>3. Others'
      BY <1>3, TypesSplit DEF Others, recoveryVars
    <2>4. QED
      BY <1>3, <2>1, <2>2, <2>3, KeptStill
         DEF IInv, Flags, Apart, Turn, Isolated
  <1>4. QED
    BY <1>1, <1>2, <1>3 DEF Recover, Restore

LEMMA UpdateLaunchedStep ==
    ASSUME IInv, UpdateLaunched
    PROVE  IInv'
  <1> USE FlowNames, StateNames, Stands
      DEF Got, Methods, Replies, Resting, Idle, setPaused, migrationBusy,
          installingUpdate, startupSettled, recoveryFlight
  <1>1. CASE /\ at["update"] = "launching" /\ Idle
           /\ Stay("update", "launched")
           /\ UNCHANGED <<collectionState, saved, migrationError, recoveryVars>>
    <2>1. Turn("update", "launched", {"none"}) /\ UNCHANGED procVars /\ Sound
      BY <1>1, Stayed
    <2>2. Flags'
      BY <1>1, <2>1
         DEF Turn, Grows, procVars, IInv, Flags, Apart, HandedOver,
             InstallerAlone
    <2>3. Others'
      BY <1>1, TypesSplit DEF Others, recoveryVars
    <2>4. QED
      BY <1>1, <2>1, <2>2, <2>3, KeptStill
         DEF IInv, Flags, Apart, Turn, Isolated
  <1>2. CASE /\ at["update"] = "launching"
             /\ Recover /\ UNCHANGED <<collectionState, saved, migrationError, recoveryVars>>
    BY <1>2, RecoverStep
  <1>3. QED
    BY <1>1, <1>2 DEF UpdateLaunched

LEMMA UpdateRecoveredStep ==
    ASSUME IInv, UpdateRecovered
    PROVE  IInv'
  <1>1. reply["update"] # "waiting"
    BY Stands, FlowNames DEF UpdateRecovered, Resting
  <1>2. QED
    BY <1>1, RecoverStep DEF UpdateRecovered

LEMMA UpdateStep ==
    ASSUME IInv, Update, UNCHANGED <<collectionState, saved, migrationError, recoveryVars>>
    PROVE  IInv'
  <1> USE FlowNames, StateNames, Stands
      DEF Got, Methods, Replies, Resting, Idle, setPaused, migrationBusy,
          installingUpdate, startupSettled, recoveryFlight
  <1>1. CASE Got("update", {"hello"}, {"ok"}) /\ Ask("update", "pause", "pausing")
    <2>1. Turn("update", "pausing", {"failed", "waiting"}) /\ Grows("update", "pause") /\ Sound
      BY <1>1, Asked DEF Sends
    <2>2. Flags'
      BY <1>1, <2>1
         DEF Turn, Grows, procVars, IInv, Flags, Apart, HandedOver,
             InstallerAlone
    <2>3. Others'
      BY <1>1, TypesSplit DEF Others, recoveryVars
    <2>4. QED
      BY <1>1, <2>1, <2>2, <2>3, Kept
         DEF IInv, Flags, Apart, Turn, Isolated
  <1>2. CASE Got("update", {"pausing"}, {"ok"}) /\ Shutdown("update")
    <2>1. Turn("update", "shutdown", {"waiting"}) /\ Grows("update", "shutdown") /\ Sound
      BY <1>2, ShutDown
    <2>2. Flags'
      BY <1>2, <2>1
         DEF Turn, Grows, procVars, IInv, Flags, Apart, HandedOver,
             InstallerAlone
    <2>3. Others'
      BY <1>2, TypesSplit DEF Others, recoveryVars
    <2>4. QED
      BY <1>2, <2>1, <2>2, <2>3, Kept
         DEF IInv, Flags, Apart, Turn, Isolated
  <1>3. CASE /\ Got("update", {"shutdown"}, {"ok"}) /\ proc = "none"
           /\ Stay("update", "launching")
    <2>1. Turn("update", "launching", {"none"}) /\ UNCHANGED procVars /\ Sound
      BY <1>3, Stayed
    <2>2. Flags'
      BY <1>3, <2>1
         DEF Turn, Grows, procVars, IInv, Flags, Apart, HandedOver,
             InstallerAlone
    <2>3. Others'
      BY <1>3, TypesSplit DEF Others, recoveryVars
    <2>4. QED
      BY <1>3, <2>1, <2>2, <2>3, KeptStill
         DEF IInv, Flags, Apart, Turn, Isolated
  <1>4. CASE /\ Got("update", {"shutdown"}, {"ok"})
           /\ Await("update", "exiting") /\ UNCHANGED procVars
    <2>1. Turn("update", "exiting", {"waiting"}) /\ UNCHANGED procVars /\ Sound
      BY <1>4, Awaited
    <2>2. Flags'
      BY <1>4, <2>1
         DEF Turn, Grows, procVars, IInv, Flags, Apart, HandedOver,
             InstallerAlone
    <2>3. Others'
      BY <1>4, TypesSplit DEF Others, recoveryVars
    <2>4. QED
      BY <1>4, <2>1, <2>2, <2>3, KeptStill
         DEF IInv, Flags, Apart, Turn, Isolated
  <1>5. CASE Got("update", {"exiting"}, {"ok"}) /\ Stay("update", "launching")
    <2>1. Turn("update", "launching", {"none"}) /\ UNCHANGED procVars /\ Sound
      BY <1>5, Stayed
    <2>2. Flags'
      BY <1>5, <2>1
         DEF Turn, Grows, procVars, IInv, Flags, Apart, HandedOver,
             InstallerAlone
    <2>3. Others'
      BY <1>5, TypesSplit DEF Others, recoveryVars
    <2>4. QED
      BY <1>5, <2>1, <2>2, <2>3, KeptStill
         DEF IInv, Flags, Apart, Turn, Isolated
  <1>6. CASE /\ Got("update", {"pausing", "shutdown", "exiting", "waiting", "apps"},
                      {"ok", "refused", "failed"})
             /\ Recover \/ Restore \/ restore
    BY <1>6, RecoverStep
  <1>7. CASE /\ Got("update", {"waiting", "apps", "restoring"}, {"refused", "failed"})
           /\ Stay("update", "protected")
    <2>1. Turn("update", "protected", {"none"}) /\ UNCHANGED procVars /\ Sound
      BY <1>7, Stayed
    <2>2. Flags'
      BY <1>7, <2>1
         DEF Turn, Grows, procVars, IInv, Flags, Apart, HandedOver,
             InstallerAlone
    <2>3. Others'
      BY <1>7, TypesSplit DEF Others, recoveryVars
    <2>4. QED
      BY <1>7, <2>1, <2>2, <2>3, KeptStill
         DEF IInv, Flags, Apart, Turn, Isolated
  <1>8. CASE /\ Got("update", {"restoring", "hello"}, {"ok", "failed"})
           /\ Stay("update", "idle")
    <2>1. Turn("update", "idle", {"none"}) /\ UNCHANGED procVars /\ Sound
      BY <1>8, Stayed
    <2>2. Flags'
      BY <1>8, <2>1
         DEF Turn, Grows, procVars, IInv, Flags, Apart, HandedOver,
             InstallerAlone
    <2>3. Others'
      BY <1>8, TypesSplit DEF Others, recoveryVars
    <2>4. QED
      BY <1>8, <2>1, <2>2, <2>3, KeptStill
         DEF IInv, Flags, Apart, Turn, Isolated
  <1>9. QED
    BY <1>1, <1>2, <1>3, <1>4, <1>5, <1>6, <1>7, <1>8 DEF Update

LEMMA QuitAsksStep ==
    ASSUME IInv, QuitAsks
    PROVE  IInv'
  <1> USE FlowNames, StateNames, Stands
      DEF Got, Methods, Replies, Resting, Idle, setPaused, migrationBusy,
          installingUpdate, startupSettled, recoveryFlight
  <1>1. CASE QuitAsks
    <2>1. Turn("quit", "confirm", {reply["quit"]}) /\ UNCHANGED procVars /\ Sound
      BY <1>1, Stepped DEF QuitAsks, Operation
    <2>2. Flags'
      BY <1>1, <2>1
         DEF QuitAsks, Operation, Turn, Grows, procVars, IInv, Flags, Apart, HandedOver,
             InstallerAlone
    <2>3. Others'
      BY <1>1, TypesSplit DEF QuitAsks, Operation, Others, recoveryVars
    <2>4. QED
      BY <1>1, <2>1, <2>2, <2>3, KeptStill
         DEF IInv, Flags, Apart, Turn, Isolated
  <1>2. QED
    BY <1>1 DEF QuitAsks

LEMMA QuitAnswersStep ==
    ASSUME IInv, QuitAnswers
    PROVE  IInv'
  <1> USE FlowNames, StateNames, Stands
      DEF Got, Methods, Replies, Resting, Idle, setPaused, migrationBusy,
          installingUpdate, startupSettled, recoveryFlight
  <1>1. CASE /\ at["quit"] = "confirm" /\ Idle
           /\ Stay("quit", "idle")
           /\ UNCHANGED <<collectionState, saved, migrationError>>
           /\ UNCHANGED <<collectorRecoveryNeeded, stableTimer, recoveryAttempts>>
           /\ scheduleCollectorRecovery
    <2>1. Turn("quit", "idle", {"none"}) /\ UNCHANGED procVars /\ Sound
      BY <1>1, Stayed
    <2>2. Flags'
      BY <1>1, <2>1
         DEF Turn, Grows, procVars, IInv, Flags, Apart, HandedOver,
             InstallerAlone
    <2>3. Others'
      BY <1>1, ScheduleType, TypesSplit DEF Others, recoveryVars
    <2>4. QED
      BY <1>1, <2>1, <2>2, <2>3, KeptStill
         DEF IInv, Flags, Apart, Turn, Isolated
  <1>2. CASE /\ at["quit"] = "confirm" /\ Idle
           /\ Stay("quit", "done")
           /\ UNCHANGED <<collectionState, saved, migrationError>>
           /\ recoveryTimer' = FALSE /\ stableTimer' = FALSE
           /\ UNCHANGED <<collectorRecoveryNeeded, recoveryAttempts>>
    <2>1. Turn("quit", "done", {"none"}) /\ UNCHANGED procVars /\ Sound
      BY <1>2, Stayed
    <2>2. Flags'
      BY <1>2, <2>1
         DEF Turn, Grows, procVars, IInv, Flags, Apart, HandedOver,
             InstallerAlone
    <2>3. Others'
      BY <1>2, TypesSplit DEF Others, recoveryVars
    <2>4. QED
      BY <1>2, <2>1, <2>2, <2>3, KeptStill
         DEF IInv, Flags, Apart, Turn, Isolated
  <1>3. CASE /\ at["quit"] = "confirm" /\ Idle
           /\ Shutdown("quit")
           /\ UNCHANGED <<collectionState, saved, migrationError>>
           /\ recoveryTimer' = FALSE /\ stableTimer' = FALSE
           /\ UNCHANGED <<collectorRecoveryNeeded, recoveryAttempts>>
    <2>1. Turn("quit", "shutdown", {"waiting"}) /\ Grows("quit", "shutdown") /\ Sound
      BY <1>3, ShutDown
    <2>2. Flags'
      BY <1>3, <2>1
         DEF Turn, Grows, procVars, IInv, Flags, Apart, HandedOver,
             InstallerAlone
    <2>3. Others'
      BY <1>3, TypesSplit DEF Others, recoveryVars
    <2>4. QED
      BY <1>3, <2>1, <2>2, <2>3, Kept
         DEF IInv, Flags, Apart, Turn, Isolated
  <1>4. QED
    BY <1>1, <1>2, <1>3 DEF QuitAnswers

LEMMA QuitStep ==
    ASSUME IInv, Quit, UNCHANGED <<collectionState, saved, migrationError, recoveryVars>>
    PROVE  IInv'
  <1> USE FlowNames, StateNames, Stands
      DEF Got, Methods, Replies, Resting, Idle, setPaused, migrationBusy,
          installingUpdate, startupSettled, recoveryFlight
  <1>1. CASE /\ Got("quit", {"shutdown", "exiting"}, {"ok", "refused", "failed"})
           /\ Stay("quit", "done")
    <2>1. Turn("quit", "done", {"none"}) /\ UNCHANGED procVars /\ Sound
      BY <1>1, Stayed
    <2>2. Flags'
      BY <1>1, <2>1
         DEF Turn, Grows, procVars, IInv, Flags, Apart, HandedOver,
             InstallerAlone
    <2>3. Others'
      BY <1>1, TypesSplit DEF Others, recoveryVars
    <2>4. QED
      BY <1>1, <2>1, <2>2, <2>3, KeptStill
         DEF IInv, Flags, Apart, Turn, Isolated
  <1>2. CASE /\ Got("quit", {"shutdown"}, {"ok", "refused", "failed"})
           /\ Await("quit", "exiting") /\ UNCHANGED procVars
    <2>1. Turn("quit", "exiting", {"waiting"}) /\ UNCHANGED procVars /\ Sound
      BY <1>2, Awaited
    <2>2. Flags'
      BY <1>2, <2>1
         DEF Turn, Grows, procVars, IInv, Flags, Apart, HandedOver,
             InstallerAlone
    <2>3. Others'
      BY <1>2, TypesSplit DEF Others, recoveryVars
    <2>4. QED
      BY <1>2, <2>1, <2>2, <2>3, KeptStill
         DEF IInv, Flags, Apart, Turn, Isolated
  <1>3. QED
    BY <1>1, <1>2 DEF Quit

-----------------------------------------------------------------------------
(* Recovery and the page.                                                  *)

LEMMA PageStayStep ==
    ASSUME IInv, reply["page"] # "waiting", Stay("page", "idle"),
           UNCHANGED <<collectionState, saved, migrationError, recoveryVars>>
    PROVE  IInv'
  <1> USE FlowNames, StateNames, Stands
      DEF Got, Methods, Replies, Resting, Idle, setPaused, migrationBusy,
          installingUpdate, startupSettled, recoveryFlight
  <1>1. CASE Stay("page", "idle")
    <2>1. Turn("page", "idle", {"none"}) /\ UNCHANGED procVars /\ Sound
      BY <1>1, Stayed
    <2>2. Flags'
      BY <1>1, <2>1
         DEF Turn, Grows, procVars, IInv, Flags, Apart, HandedOver,
             InstallerAlone
    <2>3. Others'
      BY <1>1, TypesSplit DEF Others, recoveryVars
    <2>4. QED
      BY <1>1, <2>1, <2>2, <2>3, KeptStill
         DEF IInv, Flags, Apart, Turn, Isolated
  <1>2. QED
    BY <1>1

LEMMA RecoverySettingsStep ==
    ASSUME IInv, Got("recovery", {"apps"}, {"ok"}), canRecoverCollector,
           Ask("recovery", setPaused(saved["recovery"]), "settings"),
           UNCHANGED <<collectionState, saved, migrationError, recoveryVars>>
    PROVE  IInv'
  <1> USE FlowNames, StateNames, Stands
      DEF Got, Methods, Replies, Resting, setPaused, migrationBusy, installingUpdate,
          startupSettled, recoveryFlight
  <1>1. Turn("recovery", "settings", {"failed", "waiting"}) /\ Grows("recovery", setPaused(saved["recovery"])) /\ Sound
    BY Asked DEF Sends
  <1>2. Flags'
    BY <1>1
       DEF canRecoverCollector, Turn, Grows, procVars, IInv, Flags, Apart, HandedOver,
           InstallerAlone
  <1>3. Others'
    BY TypesSplit DEF Others, recoveryVars
  <1>4. QED
    BY <1>1, <1>2, <1>3, Kept
       DEF canRecoverCollector, IInv, Flags, Apart, Turn, Isolated

LEMMA EndRecoveryStep ==
    ASSUME IInv, at["recovery"] # "idle", reply["recovery"] # "waiting",
           NEW answer \in {"failed", "released"}, EndRecovery(answer),
           UNCHANGED <<collectionState, saved>>,
           collectorRecoveryNeeded' \in BOOLEAN, stableTimer' \in BOOLEAN
    PROVE  IInv'
  <1> DEFINE taken == Taken("recovery")
             told  == IF taken["page"] = "held" THEN answer ELSE taken["page"]
  <1>1. /\ IsAt(at) /\ IsReply(reply) /\ ProcTypes /\ Types /\ Queue /\ Sleeping
        /\ "recovery" \in Flow /\ "page" \in Flow /\ "idle" \in States["recovery"]
    BY Stands, TypesSplit, FlowNames, StateNames
  <1>2. /\ IsAt(at') /\ at'["recovery"] = "idle"
        /\ \A g \in Flow : g # "recovery" => at'[g] = at[g]
    BY <1>1 DEF EndRecovery, Move, IsAt
  <1>3. /\ IsReply(taken) /\ taken["recovery"] = "none"
        /\ \A g \in Flow : g # "recovery" => taken[g] = reply[g]
    BY <1>1 DEF Taken, IsReply, Replies
  <1>4. reply' = [taken EXCEPT !["page"] = told] /\ UNCHANGED procVars
    BY DEF EndRecovery
  <1>5. told \in Replies /\ (told = "waiting" <=> taken["page"] = "waiting")
        /\ told # "held"
    BY <1>1, <1>3 DEF IsReply, Replies
  <1> HIDE DEF taken, told
  <1>6. /\ IsReply(reply') /\ reply'["page"] = told
        /\ \A g \in Flow : g # "page" => reply'[g] = taken[g]
    BY <1>1, <1>3, <1>4, <1>5 DEF IsReply
  <1>7. \A g \in Flow : g # "recovery" => (reply'[g] = "waiting" <=> reply[g] = "waiting")
    BY <1>1, <1>3, <1>5, <1>6
  <1>8. Queue'
    BY <1>1, <1>2, <1>4, <1>7, QueueKept DEF procVars
  <1>9. Sleeping'
    BY <1>1, <1>2, <1>3, <1>6, <1>7 DEF Sleeping
  <1>10. Sound
    BY <1>1, <1>2, <1>4, <1>6, <1>8, <1>9 DEF Sound, ProcTypes, procVars
  <1>11. Flags'
    BY <1>2, <1>3, <1>4, <1>5, <1>6, FlowNames
       DEF procVars, IInv, Flags, Apart, HandedOver, InstallerAlone, installingUpdate,
           migrationBusy
  <1>12. Others'
    BY <1>1, ScheduleType, TypesSplit DEF EndRecovery, Others
  <1>13. QED
    BY <1>2, <1>3, <1>4, <1>6, <1>10, <1>11, <1>12, KeptStill, FlowNames
       DEF IInv, Flags, Apart, Isolated, migrationBusy

LEMMA RecoveryStep ==
    ASSUME IInv, Recovery, UNCHANGED <<collectionState, saved>>
    PROVE  IInv'
  <1> USE FlowNames DEF Got
  <1>1. collectorRecoveryNeeded \in BOOLEAN /\ stableTimer \in BOOLEAN
    BY Stands, TypesSplit DEF Others
  <1>2. CASE /\ Got("recovery", {"apps"}, {"ok"}) /\ canRecoverCollector
             /\ Ask("recovery", setPaused(saved["recovery"]), "settings")
             /\ UNCHANGED <<migrationError, recoveryVars>>
    BY <1>2, RecoverySettingsStep
  <1>3. CASE /\ Got("recovery", {"apps", "settings"}, {"ok", "refused", "failed"})
             /\ collectorRecoveryNeeded' \in {FALSE, collectorRecoveryNeeded}
             /\ stableTimer' \in {TRUE, stableTimer}
             /\ EndRecovery("failed") \/ EndRecovery("released")
    BY <1>1, <1>3, EndRecoveryStep
  <1>4. QED
    BY <1>2, <1>3 DEF Recovery

\* recoverCollector, for itself or for a page that is held by it.
LEMMA BeginRecoveryStep ==
    ASSUME IInv, NEW where, IsAt(where), NEW replies, IsReply(replies),
           \A g \in Flow : g # "page" => where[g] = at[g] /\ replies[g] = reply[g],
           \/ where["page"] = at["page"] /\ replies["page"] = reply["page"]
           \/ reply["page"] # "waiting" /\ replies["page"] = "held",
           BeginRecovery(where, replies), UNCHANGED <<collectionState, migrationError>>
    PROVE  IInv'
  <1>1. /\ at["startup"] = "idle" /\ at["import"] = "idle" /\ at["recovery"] = "idle"
        /\ at["update"] \in {"idle", "prepare"} /\ recoveryAttempts < MaxAttempts
    BY DEF BeginRecovery, canRecoverCollector, mayTry, migrationBusy, installingUpdate,
           startupSettled, recoveryFlight
  <1>2. Others'
    <2>1. ProcTypes /\ Others
      BY Stands, TypesSplit
    <2>2. recoveryAttempts' \in 0 .. MaxAttempts
      BY <1>1, <2>1, AttemptsAssumption DEF Others, BeginRecovery
    <2>3. saved' \in [Flow -> BOOLEAN]
      BY <2>1 DEF Others, BeginRecovery
    <2>4. QED
      BY <2>1, <2>2, <2>3 DEF Others, BeginRecovery
  <1>3. ASSUME NEW s \in {"apps", "settings"}, NEW m \in Methods, Sends("recovery", s, m),
               request("recovery", m, [where EXCEPT !["recovery"] = s], replies)
        PROVE  IInv'
    <2> DEFINE there == [where EXCEPT !["recovery"] = s]
    <2>1. /\ IsAt(there) /\ there["recovery"] = s
          /\ \A g \in Flow : g # "recovery" => there[g] = where[g]
      BY FlowNames, StateNames DEF IsAt
    <2>2. /\ reply["recovery"] # "waiting" /\ "recovery" \in Flow /\ s \in States["recovery"]
          /\ \A g \in Flow : g # "recovery" /\ reply[g] = "waiting"
                                => there[g] = at[g] /\ replies[g] = "waiting"
          /\ \A g \in Flow : g # "recovery" /\ Resting(g, there[g]) => replies[g] # "waiting"
      <3>1. reply["recovery"] # "waiting" /\ s \in States["recovery"]
        BY <1>1, Stands, FlowNames, StateNames DEF Resting
      <3>2. ASSUME NEW g \in Flow, g # "recovery", reply[g] = "waiting"
            PROVE  there[g] = at[g] /\ replies[g] = "waiting"
        BY <2>1, <3>2
      <3>3. ASSUME NEW g \in Flow, g # "recovery", Resting(g, there[g])
            PROVE  replies[g] # "waiting"
        BY <2>1, <3>3, Stands
      <3>4. QED
        BY <3>1, <3>2, <3>3, FlowNames
    <2>3. request("recovery", m, there, replies)
      BY <1>3
    <2> HIDE DEF there
    <2>4. /\ at' = there /\ reply'["recovery"] \in {"failed", "waiting"}
          /\ \A g \in Flow : g # "recovery" => reply'[g] = replies[g]
          /\ Grows("recovery", m) /\ Sound
      BY <1>3, <2>1, <2>2, <2>3, Stands, Requested
    <2>5. /\ at'["recovery"] # "idle" /\ at'["startup"] = "idle" /\ at'["import"] = "idle"
          /\ at'["update"] \in {"idle", "prepare"}
      BY <1>1, <2>1, <2>4, FlowNames
    <2>6. Flags'
      BY <2>5 DEF Flags, Apart, HandedOver, InstallerAlone, installingUpdate, migrationBusy
    <2>7. QED
      BY <1>2, <2>2, <2>4, <2>5, <2>6, Kept DEF Isolated
  <1>4. \/ request("recovery", "setAppCollection", [where EXCEPT !["recovery"] = "apps"], replies)
        \/ request("recovery", setPaused(collectionState),
                   [where EXCEPT !["recovery"] = "settings"], replies)
    BY DEF BeginRecovery
  <1>5. QED
    BY <1>3, <1>4 DEF Methods, Sends, setPaused

LEMMA RecoveryTimerStep ==
    ASSUME IInv, RecoveryTimer
    PROVE  IInv'
  <1>1. CASE BeginRecovery(at, reply)
    BY <1>1, TypesSplit, Stands, BeginRecoveryStep DEF RecoveryTimer
  <1>2. CASE /\ recoveryTimer' = FALSE
             /\ UNCHANGED <<procVars, flowVars, collectorRecoveryNeeded, stableTimer,
                            recoveryAttempts>>
    <2>1. Others'
      BY <1>2, TypesSplit, Stands DEF Others, RecoveryTimer, flowVars
    <2>2. QED
      BY <1>2, <2>1, Unmoved DEF flowVars
  <1>3. QED
    BY <1>1, <1>2 DEF RecoveryTimer

LEMMA StableTimerStep ==
    ASSUME IInv, StableTimer
    PROVE  IInv'
  <1>1. Others'
    <2>1. Others
      BY Stands, TypesSplit
    <2>2. recoveryAttempts' \in {0, recoveryAttempts}
      BY DEF StableTimer
    <2>3. recoveryAttempts' \in 0 .. MaxAttempts
      BY <2>1, <2>2, AttemptsAssumption DEF Others
    <2>4. QED
      BY <2>1, <2>3 DEF Others, StableTimer, flowVars
  <1>2. QED
    BY <1>1, Unmoved DEF StableTimer, flowVars

LEMMA RequestBackendStep ==
    ASSUME IInv, NEW method \in {"pause", "resume", "snapshot"},
           at["page"] \in {"idle", "dialog"}, reply["page"] # "waiting",
           startupSettled, ~installingUpdate, method # "snapshot" => ~migrationBusy,
           requestBackend(method), UNCHANGED <<collectionState, migrationError>>
    PROVE  IInv'
  <1> USE Stands
  <1>1. /\ "page" \in Flow /\ method \in States["page"] /\ method \in Methods
        /\ Sends("page", method, method) /\ ~Resting("page", method)
        /\ "held" \in Replies /\ "idle" \in States["page"]
    BY FlowNames, StateNames DEF Sends, Methods, Replies, Resting
  <1> DEFINE where == Move("page", method)
             replies == [reply EXCEPT !["page"] = "held"]
  <1>2. /\ IsAt(where) /\ where["page"] = method
        /\ \A g \in Flow : g # "page" => where[g] = at[g]
    BY <1>1, TypesSplit DEF IsAt, Move
  <1>3. /\ IsReply(replies) /\ replies["page"] = "held"
        /\ \A g \in Flow : g # "page" => replies[g] = reply[g]
    BY <1>1, TypesSplit DEF IsReply
  <1>4. CASE BeginRecovery(Move("page", method), [reply EXCEPT !["page"] = "held"])
    <2>1. BeginRecovery(where, replies)
      BY <1>4
    <2> HIDE DEF where, replies
    <2>2. QED
      BY <1>2, <1>3, <2>1, BeginRecoveryStep
  <1>5. CASE /\ recoveryFlight /\ at' = Move("page", method)
             /\ reply' = [reply EXCEPT !["page"] = "held"]
             /\ UNCHANGED <<procVars, recoveryVars, saved>>
    <2>1. at' = where /\ reply' = replies
      BY <1>5
    <2> HIDE DEF where, replies
    <2>2. \A g \in Flow : reply[g] = "waiting" => reply'[g] = "waiting" /\ at'[g] = at[g]
      BY <1>2, <1>3, <2>1
    <2>3. Queue'
      BY <1>5, <2>2, QueueKept DEF procVars
    <2>4. Sleeping'
      BY <1>2, <1>3, <2>1 DEF Sleeping
    <2>5. Sound
      BY <1>2, <1>3, <1>5, <2>1, <2>3, <2>4, TypesSplit DEF Sound, ProcTypes, procVars
    <2>6. Flags'
      BY <1>2, <1>3, <1>5, <2>1, FlowNames
         DEF procVars, IInv, Flags, Apart, HandedOver, InstallerAlone, recoveryFlight,
             installingUpdate, startupSettled, migrationBusy
    <2>7. Others'
      BY <1>5, TypesSplit DEF Others, recoveryVars
    <2>8. QED
      BY <1>2, <1>3, <1>5, <2>1, <2>5, <2>6, <2>7, KeptStill, FlowNames DEF Isolated
  <1>6. CASE Stay("page", "idle") /\ UNCHANGED <<recoveryVars, saved>>
    BY <1>6, PageStayStep
  <1>7. CASE Ask("page", method, method) /\ UNCHANGED <<recoveryVars, saved>>
    <2>1. Turn("page", method, {"failed", "waiting"}) /\ Grows("page", method) /\ Sound
      BY <1>1, <1>7, Asked
    <2>2. Flags'
      BY <1>7, <2>1, FlowNames
         DEF Turn, Grows, IInv, Flags, Apart, HandedOver, InstallerAlone, installingUpdate,
             startupSettled, migrationBusy
    <2>3. Others'
      BY <1>7, TypesSplit DEF Others, recoveryVars
    <2>4. QED
      BY <1>1, <2>1, <2>2, <2>3, Kept, FlowNames
         DEF IInv, Flags, Apart, Turn, Isolated, migrationBusy, startupSettled
  <1>8. QED
    BY <1>4, <1>5, <1>6, <1>7 DEF requestBackend

LEMMA PageStep ==
    ASSUME IInv, Page, UNCHANGED <<collectionState, migrationError>>
    PROVE  IInv'
  <1>1. CASE Got("page", {"dialog", "idle", "pause", "resume", "snapshot"}, {"ok", "failed"})
             /\ Stay("page", "idle") /\ UNCHANGED <<saved, recoveryVars>>
    BY <1>1, PageStayStep DEF Got
  <1>2. CASE /\ Got("page", {"dialog"}, {"ok"}) /\ ~installingUpdate
             /\ requestBackend("resume")
    <2>1. startupSettled /\ ~migrationBusy
      BY <1>2 DEF Got, IInv, Flags, Apart, startupSettled
    <2>2. QED
      BY <1>2, <2>1, RequestBackendStep DEF Got
  <1>3. CASE /\ Got("page", {"pause", "resume", "snapshot"}, {"released"})
             /\ Ask("page", at["page"], at["page"]) /\ UNCHANGED <<saved, recoveryVars>>
    <2>1. PICK method \in {"pause", "resume", "snapshot"} : method = at["page"]
      BY <1>3 DEF Got
    <2>2. /\ "page" \in Flow /\ method \in States["page"] /\ method \in Methods
          /\ Sends("page", method, method) /\ reply["page"] = "released"
      BY <1>3, FlowNames, StateNames DEF Sends, Methods, Got
    <2>3. Ask("page", method, method)
      BY <1>3, <2>1
    <2>4. Turn("page", method, {"failed", "waiting"}) /\ Grows("page", method) /\ Sound
      BY <2>2, <2>3, Stands, Asked
    <2>5. at["page"] \notin {"idle", "dialog"} /\ ~installingUpdate /\ ~migrationBusy /\ startupSettled
      BY <2>1, <2>2 DEF IInv, Flags, Apart, startupSettled
    <2>6. Flags'
      BY <2>2, <2>4, <2>5, FlowNames
         DEF Turn, Grows, IInv, Flags, Apart, HandedOver, InstallerAlone, installingUpdate,
             startupSettled, migrationBusy
    <2>7. Others'
      BY <1>3, Stands, TypesSplit DEF Others, recoveryVars
    <2>8. QED
      BY <2>2, <2>4, <2>5, <2>6, <2>7, Kept, FlowNames
         DEF Turn, Isolated, migrationBusy, startupSettled
  <1>4. QED
    BY <1>1, <1>2, <1>3 DEF Page, Got

LEMMA PageAsksStep ==
    ASSUME IInv, PageAsks
    PROVE  IInv'
  <1>1. /\ at["page"] = "idle" /\ startupSettled /\ ~installingUpdate
        /\ UNCHANGED <<collectionState, migrationError>> /\ Idle
    BY DEF PageAsks, Operation
  <1>2. reply["page"] # "waiting" /\ "page" \in Flow /\ "dialog" \in States["page"]
    BY <1>1, Stands, FlowNames, StateNames DEF Resting
  <1>3. CASE /\ at' = Move("page", "dialog") /\ ~migrationBusy
             /\ UNCHANGED <<procVars, reply, saved, recoveryVars>>
    <2>1. Turn("page", "dialog", {reply["page"]}) /\ Sound
      BY <1>2, <1>3, Stands, Stepped
    <2>2. Flags'
      BY <1>1, <1>3, <2>1, FlowNames
         DEF Turn, procVars, IInv, Flags, Apart, HandedOver, InstallerAlone, installingUpdate,
             startupSettled, migrationBusy
    <2>3. Others'
      BY <1>1, <1>3, Stands, TypesSplit DEF Others, recoveryVars
    <2>4. QED
      BY <1>3, <2>1, <2>2, <2>3, KeptStill, FlowNames DEF Turn, Isolated
  <1>4. ASSUME NEW method \in {"pause", "resume", "snapshot"},
               method # "snapshot" => ~migrationBusy, requestBackend(method)
        PROVE  IInv'
    BY <1>1, <1>2, <1>4, RequestBackendStep
  <1>5. QED
    BY <1>3, <1>4 DEF PageAsks

LEMMA PageAnswersStep ==
    ASSUME IInv, PageAnswers
    PROVE  IInv'
  <1>1. /\ at["page"] = "dialog" /\ reply' = [reply EXCEPT !["page"] = "ok"]
        /\ at' = at \/ at' = Move("page", "idle")
        /\ migrationError' \in {FALSE, migrationError}
        /\ UNCHANGED <<procVars, collectionState, saved, recoveryVars>>
    BY DEF PageAnswers
  <1>2. /\ "page" \in Flow /\ "idle" \in States["page"] /\ reply["page"] # "waiting"
        /\ IsAt(at) /\ IsReply(reply) /\ ProcTypes /\ Others
    BY <1>1, Stands, FlowNames, StateNames, TypesSplit DEF Resting
  <1>3. /\ IsReply(reply') /\ reply'["page"] = "ok"
        /\ \A g \in Flow : g # "page" => reply'[g] = reply[g]
    BY <1>1, <1>2 DEF IsReply, Replies
  <1>4. /\ IsAt(at') /\ at'["page"] \in {"dialog", "idle"}
        /\ \A g \in Flow : g # "page" => at'[g] = at[g]
    BY <1>1, <1>2 DEF IsAt, Move
  <1>5. Queue'
    BY <1>1, <1>2, <1>3, <1>4, Stands, QueueKept DEF procVars
  <1>6. Sleeping'
    BY <1>3, <1>4, Stands DEF Sleeping
  <1>7. Sound
    BY <1>1, <1>2, <1>3, <1>4, <1>5, <1>6 DEF Sound, ProcTypes, procVars
  <1>8. Flags'
    BY <1>1, <1>3, <1>4, FlowNames
       DEF procVars, IInv, Flags, Apart, HandedOver, InstallerAlone, installingUpdate,
           migrationBusy
  <1>9. Others'
    BY <1>1, <1>2 DEF Others, recoveryVars
  <1>10. QED
    BY <1>1, <1>3, <1>4, <1>7, <1>8, <1>9, KeptStill, FlowNames DEF Isolated

-----------------------------------------------------------------------------
(* The process and its answers.                                            *)

LEMMA HandleStep ==
    ASSUME IInv, Handle
    PROVE  IInv'
  <1>1. PICK k \in DOMAIN calls, answer \in {"ok", "refused"} :
           /\ calls[k].answer = "none"
           /\ \A j \in 1 .. k - 1 : calls[j].answer # "none"
           /\ procPaused' = CASE calls[k].method = "pause"  -> TRUE
                              [] calls[k].method = "resume" -> FALSE
                              [] OTHER -> procPaused
           /\ calls' = [calls EXCEPT ![k].answer = answer, ![k].paused = procPaused']
           /\ proc' \in {"leaving", proc}
    BY DEF Handle
  <1>2. /\ Types /\ Queue /\ Sleeping /\ Flags /\ Paused
        /\ IsAt(at) /\ IsReply(reply) /\ ProcTypes /\ Others
    BY TypesSplit DEF IInv
  <1>3. /\ proc = "running"
        /\ UNCHANGED <<stopping, shutdownPending, collectionState, at, reply, saved,
                       migrationError, recoveryVars>>
    BY DEF Handle, flowVars
  <1>4. procPaused' \in BOOLEAN
    BY <1>1, <1>2 DEF ProcTypes
  <1>5. calls \in Seq(Call) /\ calls[k] \in Call
    BY <1>2, CallTypes DEF ProcTypes
  <1> DEFINE c == [calls[k] EXCEPT !.answer = answer, !.paused = procPaused']
  <1>6. /\ c \in Call /\ c.by = calls[k].by /\ c.method = calls[k].method
        /\ c.heard = calls[k].heard /\ c.answer = answer
    BY <1>4, <1>5 DEF Call
  <1>7. calls' = [calls EXCEPT ![k] = c]
    BY <1>1
  <1> HIDE DEF c
  <1>8. /\ calls' \in Seq(Call) /\ DOMAIN calls' = DOMAIN calls /\ DOMAIN calls \subseteq Nat
        /\ \A j \in DOMAIN calls : calls'[j] = IF j = k THEN c ELSE calls[j]
    BY <1>5, <1>6, <1>7
  <1>9. \A j \in DOMAIN calls :
           /\ calls'[j].by = calls[j].by /\ calls'[j].method = calls[j].method
           /\ calls'[j].heard = calls[j].heard
           /\ calls'[j].answer = IF j = k THEN answer ELSE calls[j].answer
    BY <1>6, <1>8
  <1>10. Heard' /\ Single'
    BY <1>2, <1>3, <1>8, <1>9 DEF Queue, Heard, Single
  <1>11. \A j \in DOMAIN calls : j < k => calls[j].answer # "none"
    BY <1>1, <1>5
  <1>12. \A j \in DOMAIN calls : j > k => calls[j].answer = "none"
    BY <1>1, <1>2 DEF Queue, Ordered
  <1>13. Ordered'
    <2> SUFFICES ASSUME NEW i \in DOMAIN calls, NEW j \in DOMAIN calls, i < j,
                        calls'[j].answer # "none"
                 PROVE  calls'[i].answer # "none"
      BY <1>8 DEF Ordered
    <2>1. j = k \/ calls[j].answer # "none"
      BY <1>9
    <2>2. j <= k
      BY <1>8, <1>12, <2>1
    <2>3. i < k
      BY <1>8, <2>2
    <2>4. QED
      BY <1>9, <1>11, <2>3, <1>8
  <1>14. Types'
    BY <1>1, <1>2, <1>3, <1>4, <1>8, TypesSplit
       DEF ProcTypes, Others, recoveryVars, IsAt, IsReply
  <1>15. Sleeping' /\ Flags'
    BY <1>2, <1>3
       DEF Sleeping, Flags, Apart, HandedOver, InstallerAlone, installingUpdate, migrationBusy
  <1>16. Paused'
    <2>1. NoResume => NoResume' /\ (procPaused => procPaused')
      BY <1>1, <1>8, <1>9 DEF NoResume
    <2>2. ASSUME at'["import"] = "pausing", NEW i \in DOMAIN calls, calls'[i].heard,
                 calls'[i].by = "import"
          PROVE  /\ \A j \in DOMAIN calls : j > i => calls'[j].method # "resume"
                 /\ calls'[i].answer # "none" => procPaused'
      <3>1. /\ calls[i].heard /\ calls[i].by = "import" /\ at["import"] = "pausing"
            /\ \A j \in DOMAIN calls : j > i => calls[j].method # "resume"
            /\ calls[i].answer # "none" => procPaused
        BY <1>2, <1>3, <1>9, <2>2 DEF Paused
      <3>2. calls[i].method = "pause"
        BY <1>2, <3>1 DEF Queue, Heard, Sends
      <3>3. CASE i = k
        BY <1>1, <1>9, <3>1, <3>2, <3>3
      <3>4. CASE i # k /\ calls[i].answer # "none"
        <4>1. i < k
          BY <1>8, <1>12, <3>4
        <4>2. calls[k].method # "resume"
          BY <3>1, <4>1
        <4>3. QED
          BY <1>1, <1>9, <3>1, <3>4, <4>2
      <3>5. CASE i # k /\ calls[i].answer = "none"
        BY <1>9, <3>1, <3>5
      <3>6. QED
        BY <3>3, <3>4, <3>5
    <2>3. Isolated' <=> Isolated
      BY <1>3 DEF Isolated
    <2>4. QED
      BY <1>2, <1>8, <2>1, <2>2, <2>3 DEF Paused
  <1>17. QED
    BY <1>10, <1>13, <1>14, <1>15, <1>16 DEF IInv, Queue

LEMMA DeliverStep ==
    ASSUME IInv, Deliver
    PROVE  IInv'
  <1> DEFINE call == Head(calls)
             f    == call.by
  <1>1. /\ calls # <<>> /\ call.answer # "none" /\ calls' = Tail(calls)
        /\ reply' = IF call.heard THEN [reply EXCEPT ![f] = call.answer] ELSE reply
        /\ collectionState' \in {call.paused, collectionState}
        /\ saved' = saved \/ saved' = [saved EXCEPT ![f] = call.paused]
        /\ shutdownPending' \in {FALSE, shutdownPending} /\ stopping' \in {FALSE, stopping}
        /\ UNCHANGED <<proc, procPaused, at, migrationError, recoveryVars>>
    BY DEF Deliver
  <1>2. /\ Types /\ Queue /\ Sleeping /\ Flags /\ Paused
        /\ IsAt(at) /\ IsReply(reply) /\ ProcTypes /\ Others
    BY TypesSplit DEF IInv
  <1>3. /\ calls' \in Seq(Call) /\ call = calls[1] /\ 1 \in DOMAIN calls
        /\ DOMAIN calls = 1 .. Len(calls) /\ Len(calls) \in Nat
        /\ DOMAIN calls' = 1 .. Len(calls) - 1
        /\ \A k \in DOMAIN calls' : k + 1 \in DOMAIN calls /\ calls'[k] = calls[k + 1]
    BY <1>1, <1>2, Tailed DEF ProcTypes
  <1>4. /\ f \in Flow /\ call.answer \in {"ok", "refused"} /\ call.paused \in BOOLEAN
        /\ call.heard \in BOOLEAN /\ call.method \in Methods
    BY <1>1, <1>2, <1>3, CallTypes
  <1>5. call.heard => reply[f] = "waiting" /\ Sends(f, at[f], call.method)
    BY <1>2, <1>3 DEF Queue, Heard
  <1> HIDE DEF f, call
  <1>6. /\ IsReply(reply')
        /\ reply'[f] = IF call.heard THEN call.answer ELSE reply[f]
        /\ \A g \in Flow : g # f => reply'[g] = reply[g]
    BY <1>1, <1>2, <1>4 DEF IsReply, Replies
  <1>7. Types'
    <2>1. ProcTypes'
      BY <1>1, <1>2, <1>3 DEF ProcTypes
    <2>2. Others'
      BY <1>1, <1>2, <1>4 DEF Others, recoveryVars
    <2>3. QED
      BY <1>1, <1>2, <1>6, <2>1, <2>2, TypesSplit DEF IsAt
  <1>8. ASSUME NEW k \in DOMAIN calls', calls'[k].heard
        PROVE  /\ reply'[calls'[k].by] = "waiting"
               /\ Sends(calls'[k].by, at'[calls'[k].by], calls'[k].method)
    <2>1. /\ calls[k + 1].heard /\ k + 1 \in DOMAIN calls /\ k + 1 # 1
          /\ calls'[k] = calls[k + 1]
      BY <1>3, <1>8
    <2>2. /\ reply[calls'[k].by] = "waiting" /\ calls'[k].by \in Flow
          /\ Sends(calls'[k].by, at[calls'[k].by], calls'[k].method)
      BY <1>2, <2>1, CallTypes DEF Queue, Heard
    <2>3. call.heard => calls'[k].by # f
      BY <1>2, <1>3, <2>1 DEF Queue, Single, f
    <2>4. reply'[calls'[k].by] = reply[calls'[k].by]
      BY <1>6, <2>2, <2>3
    <2>5. QED
      BY <1>1, <2>2, <2>4
  <1>9. Single'
    <2> SUFFICES ASSUME NEW j \in DOMAIN calls', NEW k \in DOMAIN calls',
                        calls'[j].heard, calls'[k].heard, calls'[j].by = calls'[k].by
                 PROVE  j = k
      BY DEF Single
    <2>1. j + 1 = k + 1
      BY <1>2, <1>3 DEF Queue, Single
    <2>2. QED
      BY <1>3, <2>1
  <1>10. Ordered'
    <2> SUFFICES ASSUME NEW j \in DOMAIN calls', NEW k \in DOMAIN calls', j < k,
                        calls'[k].answer # "none"
                 PROVE  calls'[j].answer # "none"
      BY DEF Ordered
    <2>1. j + 1 < k + 1
      BY <1>3
    <2>2. QED
      BY <1>2, <1>3, <2>1 DEF Queue, Ordered
  <1>11. Queue'
    BY <1>8, <1>9, <1>10 DEF Queue, Heard
  <1>12. Sleeping'
    BY <1>1, <1>2, <1>4, <1>6 DEF Sleeping
  <1>13. Flags'
    <2>1. \A g \in Flow :
              \/ reply'[g] = reply[g]
              \/ reply'[g] \in {"ok", "refused"} /\ Sends(g, at[g], call.method)
      BY <1>4, <1>5, <1>6
    <2>2. reply'["page"] \in {reply["page"], "ok", "refused"}
      BY <2>1, FlowNames
    <2>3. at["update"] = "exiting" => reply'["update"] = reply["update"]
      BY <2>1, FlowNames DEF Sends
    <2>4. QED
      BY <1>1, <1>2, <2>2, <2>3
         DEF Flags, Apart, HandedOver, InstallerAlone, installingUpdate, migrationBusy
  <1>14. Paused'
    <2>1. NoResume => NoResume'
      BY <1>3 DEF NoResume
    <2>2. ASSUME Isolated', ~Isolated
          PROVE  procPaused /\ NoResume'
      <3>1. /\ at["import"] = "pausing" /\ f = "import" /\ call.heard
        BY <1>1, <1>6, <2>2, FlowNames DEF Isolated
      <3>2. /\ \A j \in DOMAIN calls : j > 1 => calls[j].method # "resume"
            /\ calls[1].answer # "none" => procPaused
        BY <1>2, <1>3, <3>1 DEF Paused, f
      <3>3. \A k \in DOMAIN calls' : k + 1 > 1
        BY <1>3
      <3>4. QED
        BY <1>1, <1>3, <3>2, <3>3 DEF NoResume
    <2>3. ASSUME at'["import"] = "pausing", NEW k \in DOMAIN calls', calls'[k].heard,
                 calls'[k].by = "import"
          PROVE  /\ \A j \in DOMAIN calls' : j > k => calls'[j].method # "resume"
                 /\ calls'[k].answer # "none" => procPaused
      <3>1. /\ \A j \in DOMAIN calls : j > k + 1 => calls[j].method # "resume"
            /\ calls[k + 1].answer # "none" => procPaused
        BY <1>1, <1>2, <1>3, <2>3 DEF Paused
      <3>2. \A j \in DOMAIN calls' : j > k => j + 1 > k + 1
        BY <1>3
      <3>3. QED
        BY <1>3, <3>1, <3>2
    <2>4. QED
      BY <1>1, <1>2, <2>1, <2>2, <2>3 DEF Paused
  <1>15. QED
    BY <1>7, <1>11, <1>12, <1>13, <1>14 DEF IInv

LEMMA ExitedStep ==
    ASSUME IInv, NEW clean \in BOOLEAN, Exited(clean)
    PROVE  IInv'
  <1>1. /\ proc' = "none" /\ calls' = <<>> /\ shutdownPending' = FALSE
        /\ reply' = [f \in Flow |-> Told(f, clean)]
        /\ UNCHANGED <<at, migrationError, procPaused, stopping, collectionState, saved,
                       recoveryAttempts>>
        /\ collectorRecoveryNeeded' \in {TRUE, collectorRecoveryNeeded}
        /\ stableTimer' \in {FALSE, stableTimer} /\ recoveryTimer' \in BOOLEAN
    <2>1. ProcTypes /\ Others
      BY Stands, TypesSplit
    <2>2. recoveryTimer' \in BOOLEAN
      BY <2>1 DEF Exited, recoveryVars, Others
    <2>3. QED
      BY <2>2 DEF Exited, recoveryVars
  <1>2. /\ Types /\ Queue /\ Sleeping /\ Flags /\ Paused
        /\ IsAt(at) /\ IsReply(reply) /\ ProcTypes /\ Others
    BY TypesSplit DEF IInv
  <1>3. \A g \in Flow :
           \/ reply'[g] = reply[g]
           \/ reply'[g] = "failed"
           \/ reply'[g] = "ok" /\ at[g] \in {"exiting", "waiting"}
    BY <1>1 DEF Told
  <1>4. IsReply(reply')
    BY <1>1, <1>2, <1>3 DEF IsReply, Replies
  <1>5. Types'
    <2>1. calls' \in Seq(Call)
      BY <1>1
    <2>2. ProcTypes'
      BY <1>1, <1>2, <2>1 DEF ProcTypes
    <2>3. Others'
      BY <1>1, <1>2 DEF Others
    <2>4. QED
      BY <1>1, <1>2, <1>4, <2>2, <2>3, TypesSplit DEF IsAt
  <1>6. Queue' /\ NoResume'
    BY <1>1 DEF Queue, Heard, Single, Ordered, NoResume
  <1>7. Sleeping'
    BY <1>1, <1>2, <1>3 DEF Sleeping
  <1>8. Flags'
    <2>1. /\ reply'["page"] = reply["page"] \/ reply'["page"] \in {"failed", "ok"}
      BY <1>3, FlowNames
    <2>2. QED
      BY <1>1, <1>2, <2>1
         DEF Flags, Apart, HandedOver, InstallerAlone, installingUpdate, migrationBusy
  <1>9. Isolated' => Isolated
    BY <1>1, <1>3, FlowNames DEF Isolated
  <1>10. Paused'
    BY <1>1, <1>2, <1>6, <1>9 DEF Paused
  <1>11. QED
    BY <1>5, <1>6, <1>7, <1>8, <1>10 DEF IInv

LEMMA TimeoutStep ==
    ASSUME IInv, Timeout
    PROVE  IInv'
  <1>1. PICK f \in Flow :
          /\ reply[f] = "waiting"
          /\ reply' = [reply EXCEPT ![f] = "failed"]
          /\ calls' = [k \in DOMAIN calls |->
                          IF k \in Asking(f) THEN [calls[k] EXCEPT !.heard = FALSE]
                          ELSE calls[k]]
    BY DEF Timeout
  <1>2. /\ Types /\ Queue /\ Sleeping /\ Flags /\ Paused
        /\ IsAt(at) /\ IsReply(reply) /\ ProcTypes /\ Others
    BY TypesSplit DEF IInv
  <1>3. UNCHANGED <<proc, procPaused, stopping, shutdownPending, collectionState, at, saved,
                    migrationError, recoveryVars>>
    BY DEF Timeout
  <1>4. /\ IsReply(reply') /\ reply'[f] = "failed"
        /\ \A g \in Flow : g # f => reply'[g] = reply[g]
    BY <1>1, <1>2 DEF IsReply, Replies
  <1>5. /\ DOMAIN calls' = DOMAIN calls
        /\ \A k \in DOMAIN calls :
              /\ calls'[k] \in Call
              /\ calls'[k].by = calls[k].by /\ calls'[k].method = calls[k].method
              /\ calls'[k].answer = calls[k].answer
              /\ calls'[k].heard => calls[k].heard /\ calls[k].by # f
    <2>1. ASSUME NEW k \in DOMAIN calls
          PROVE  /\ calls'[k] \in Call
                 /\ calls'[k].by = calls[k].by /\ calls'[k].method = calls[k].method
                 /\ calls'[k].answer = calls[k].answer
                 /\ calls'[k].heard => calls[k].heard /\ calls[k].by # f
      <3>1. calls[k] \in Call
        BY <1>2, CallTypes
      <3>2. CASE k \in Asking(f)
        <4>1. calls'[k] = [calls[k] EXCEPT !.heard = FALSE]
          BY <1>1, <3>2
        <4>2. QED
          BY <3>1, <4>1 DEF Call
      <3>3. CASE k \notin Asking(f)
        BY <1>1, <3>1, <3>3 DEF Asking
      <3>4. QED
        BY <3>2, <3>3
    <2>2. QED
      BY <1>1, <2>1
  <1>6. calls' \in Seq(Call)
    <2>1. DOMAIN calls = 1 .. Len(calls) /\ Len(calls) \in Nat
      BY <1>2 DEF ProcTypes
    <2>2. calls' = [k \in 1 .. Len(calls) |-> calls'[k]]
      BY <1>1, <2>1
    <2>3. QED
      BY <1>5, <2>1, <2>2
  <1>7. Types'
    BY <1>2, <1>3, <1>4, <1>6, TypesSplit DEF ProcTypes, Others, recoveryVars, IsAt
  <1>8. Heard'
    <2> SUFFICES ASSUME NEW k \in DOMAIN calls, calls'[k].heard
                 PROVE  /\ reply'[calls'[k].by] = "waiting"
                        /\ Sends(calls'[k].by, at'[calls'[k].by], calls'[k].method)
      BY <1>5 DEF Heard
    <2>1. calls[k].by \in Flow /\ calls[k].by # f
      BY <1>2, <1>5, CallTypes
    <2>2. QED
      BY <1>2, <1>3, <1>4, <1>5, <2>1 DEF Queue, Heard
  <1>9. Single' /\ Ordered'
    BY <1>2, <1>5 DEF Queue, Single, Ordered
  <1>10. Sleeping'
    BY <1>2, <1>3, <1>4 DEF Sleeping
  <1>11. Flags'
    <2>1. reply'["page"] \in {reply["page"], "failed"} /\ reply'["update"] \in {reply["update"], "failed"}
      BY <1>4, FlowNames
    <2>2. QED
      BY <1>2, <1>3, <2>1
         DEF Flags, Apart, HandedOver, InstallerAlone, installingUpdate, migrationBusy
  <1>12. Paused'
    <2>1. Isolated' => Isolated
      BY <1>3, <1>4, FlowNames DEF Isolated
    <2>2. NoResume => NoResume'
      BY <1>5 DEF NoResume
    <2>3. QED
      BY <1>2, <1>3, <1>5, <2>1, <2>2 DEF Paused
  <1>13. QED
    BY <1>7, <1>8, <1>9, <1>10, <1>11, <1>12 DEF IInv, Queue

-----------------------------------------------------------------------------
(* The theorems.                                                           *)

LEMMA InitIInv ==
    ASSUME Init
    PROVE  IInv
  <1>1. PICK first \in {[state |-> "importing", method |-> "importLegacy"],
                        [state |-> "resuming", method |-> "resume"]} :
          /\ at = [f \in Flow |-> IF f = "startup" THEN first.state ELSE "idle"]
          /\ calls = <<Sent("startup", first.method)>>
    BY DEF Init
  <1>2. \/ first.state = "importing" /\ first.method = "importLegacy"
        \/ first.state = "resuming" /\ first.method = "resume"
    OBVIOUS
  <1>3. /\ IsAt(at) /\ at["startup"] = first.state
        /\ \A f \in Flow : f # "startup" => at[f] = "idle"
    BY <1>1, <1>2, FlowNames, StateNames DEF IsAt
  <1>4. /\ IsReply(reply) /\ reply["startup"] = "waiting"
        /\ \A f \in Flow : f # "startup" => reply[f] = "none"
    BY FlowNames DEF Init, IsReply, Replies
  <1>5. /\ calls \in Seq(Call) /\ DOMAIN calls = {1} /\ calls[1].by = "startup"
        /\ calls[1].method = first.method /\ calls[1].answer = "none"
    <2>1. "startup" \in Flow /\ first.method \in Methods
      BY <1>2, FlowNames DEF Methods
    <2>2. QED
      BY <1>1, <2>1, SentType
  <1>6. Types
    <2>1. ProcTypes
      <3>1. /\ proc = "running" /\ procPaused = TRUE
            /\ stopping = FALSE /\ shutdownPending = FALSE
        BY DEF Init
      <3>2. QED
        BY <1>5, <3>1 DEF ProcTypes
    <2>2. Others
      <3>1. /\ collectionState = TRUE /\ saved = [f \in Flow |-> TRUE]
            /\ migrationError = FALSE /\ collectorRecoveryNeeded = FALSE
            /\ recoveryTimer = FALSE /\ stableTimer = FALSE /\ recoveryAttempts = 0
        BY DEF Init
      <3>2. recoveryAttempts \in 0 .. MaxAttempts
        BY <3>1, AttemptsAssumption
      <3>3. saved \in [Flow -> BOOLEAN]
        BY <3>1
      <3>4. QED
        BY <3>1, <3>2, <3>3 DEF Others
    <2>3. QED
      BY <1>3, <1>4, <2>1, <2>2, TypesSplit
  <1>7. Queue
    BY <1>2, <1>3, <1>4, <1>5 DEF Queue, Heard, Single, Ordered, Sends
  <1>8. Sleeping
    BY <1>2, <1>3, <1>4 DEF Sleeping, Resting
  <1>9. Flags
    BY <1>3, <1>4, FlowNames
       DEF Flags, Apart, HandedOver, InstallerAlone, installingUpdate, migrationBusy
  <1>10. Paused
    BY <1>2, <1>3, <1>5, FlowNames DEF Paused, Isolated, NoResume, Init
  <1>11. QED
    BY <1>6, <1>7, <1>8, <1>9, <1>10 DEF IInv

LEMMA NextIInv ==
    ASSUME IInv, [Next]_vars
    PROVE  IInv'
  <1>1. CASE Exit \/ Crash
    BY <1>1, ExitedStep DEF Exit, Crash
  <1>2. CASE Continuation
    <2>1. UNCHANGED collectionState
      BY <1>2 DEF Continuation
    <2>2. CASE Page /\ UNCHANGED migrationError
      BY <2>1, <2>2, PageStep
    <2>3. CASE UNCHANGED saved /\ (Startup \/ Recovery \/ Import)
      BY <2>1, <2>3, StartupStep, RecoveryStep, ImportStep
    <2>4. CASE UNCHANGED <<saved, migrationError, recoveryVars>> /\ (Update \/ Quit)
      BY <2>1, <2>4, UpdateStep, QuitStep
    <2>5. QED
      BY <1>2, <2>2, <2>3, <2>4 DEF Continuation, Continue
  <1>3. CASE UNCHANGED vars
    <2>1. Others'
      BY <1>3, Stands, TypesSplit DEF Others, vars, flowVars, recoveryVars
    <2>2. QED
      BY <1>3, <2>1, Unmoved DEF vars, flowVars
  <1>4. QED
    BY <1>1, <1>2, <1>3, HandleStep, DeliverStep, TimeoutStep, RecoveryTimerStep,
       StableTimerStep, PageAsksStep, PageAnswersStep, ImportAsksStep, ImportAnswersStep,
       UpdateAsksStep, UpdatePreparedStep, UpdateLaunchedStep, UpdateRecoveredStep,
       QuitAsksStep, QuitAnswersStep
    DEF Next

THEOREM Invariance == Spec => []IInv
  BY InitIInv, NextIInv, PTL DEF Spec

\* The flows stand where they can, and every request is one of the requests.
THEOREM TypeCorrect == Spec => []TypeOK
  <1>1. IInv => TypeOK
    BY DEF IInv, Types
  <1>2. QED
    BY <1>1, Invariance, PTL

\* Nothing starts a collector from the moment the old one is gone until the
\* installer runs (main.cjs, launchInstaller).
THEOREM NoCollectorAtInstall == Spec => []InstallerAlone
  <1>1. IInv => InstallerAlone
    BY DEF IInv, Flags, HandedOver
  <1>2. QED
    BY <1>1, Invariance, PTL

\* An import that the host still waits for is executed by a paused collector,
\* whatever crashes, recoveries and requests surround it.
THEOREM ImportsIsolated == Spec => []ImportIsolated
  <1>1. IInv => ImportIsolated
    <2> SUFFICES ASSUME IInv, NEW k \in DOMAIN calls, calls[k].method = "importLegacy",
                        calls[k].heard
                 PROVE  procPaused
      BY DEF ImportIsolated
    <2>1. Sends(calls[k].by, at[calls[k].by], "importLegacy")
      BY DEF IInv, Queue, Heard
    <2>2. at["startup"] = "importing" \/ at["import"] = "importing"
      BY <2>1 DEF Sends
    <2>3. QED
      BY <2>2 DEF IInv, Paused, Isolated
  <1>2. QED
    BY <1>1, Invariance, PTL

-----------------------------------------------------------------------------
(* The settings that are kept.                                             *)

(***************************************************************************)
(* Obeys is about the requests: the process obeys them in order, and each  *)
(* answer says what it was then.  Intent is about the flows: what the host *)
(* believes of the process, what the user wants, what a flow will restore, *)
(* and what sees to a collector that is gone.                              *)
(***************************************************************************)

\* Nothing the promise leaves out has happened.
Regular == ~late /\ ~lost /\ ~quitting

Sets(c)     == c.method \in {"pause", "resume"}
Answered(c) == c.answer # "none"

\* No pause or resumption is forgotten.
Waited == \A k \in DOMAIN calls : Sets(calls[k]) => calls[k].heard

\* Each answer says what the process was then, and the last what it is now.
Chain ==
    /\ proc = "none" => calls = <<>>
    /\ \A k \in DOMAIN calls : Answered(calls[k]) =>
          /\ Sets(calls[k]) => calls[k].answer = "ok"
          /\ calls[k].method = "pause" => calls[k].paused
          /\ calls[k].method = "resume" => ~calls[k].paused
          /\ k > 1 /\ ~Sets(calls[k]) => calls[k].paused = calls[k - 1].paused
          /\ (k < Len(calls) => ~Answered(calls[k + 1])) => procPaused = calls[k].paused

\* What the host believes is what the process was before the first answer.
Linked ==
    IF calls # <<>> /\ Answered(calls[1])
    THEN ~Sets(calls[1]) => calls[1].paused = collectionState
    ELSE procPaused = collectionState

Healthy == proc # "none" /\ Linked

\* The states of an update that may have no process, or one that is leaving.
Stopped == {"shutdown", "exiting", "launching", "launched", "waiting", "protected"}

Stops ==
    /\ stopping => at["update"] \in Stopped /\ (proc # "none" => shutdownPending)
    /\ shutdownPending => stopping /\ proc # "none"
    /\ proc = "leaving" => shutdownPending
    /\ at["update"] = "waiting" /\ reply["update"] = "ok" => proc = "none"
    /\ \A k \in DOMAIN calls : calls[k].method = "shutdown" =>
          /\ shutdownPending
          /\ proc = "leaving" => calls[k].answer = "ok"
          /\ \A j \in DOMAIN calls : calls[j].method = "shutdown" => j = k

\* What keeps a recovery from being begun, and will see to it when it ends.
Updating == at["update"] \notin {"idle", "prepare", "hello"}

Busy ==
    \/ recoveryFlight \/ ~startupSettled \/ migrationBusy \/ migrationError
    \/ at["quit"] # "idle" \/ ~mayTry \/ at["update"] = "hello"

Blocked ==
    \/ Busy \/ recoveryTimer \/ missed
    \/ at["page"] = "dialog" /\ reply["page"] = "ok"

Health == Healthy \/ Updating \/ (collectorRecoveryNeeded /\ Blocked)

\* A flow whose pause or resumption succeeded has a process that obeyed.
Setting(f, s) == \E m \in {"pause", "resume"} : Sends(f, s, m)
Acknowledged  == \A f \in Flow : reply[f] = "ok" /\ Setting(f, at[f]) => Healthy

\* The pause state is not the user's while an import or an update needs its own.
Aside(f) ==
    /\ at[f] \notin {"idle", "directory", "prepare", "hello"}
    /\ ~(at[f] = "restoring" /\ reply[f] = "ok")

Obtained == reply["page"] = "ok" /\ at["page"] \in {"pause", "resume"}
Resumed  == reply["startup"] = "ok" /\ at["startup"] \in {"resuming", "overlap"}

Base ==
    /\ Obtained => (collectionState <=> at["page"] = "pause")
    /\ Resumed => ~collectionState
    /\ ~Obtained /\ ~Resumed /\ ~Aside("import") /\ ~Aside("update")
          => collectionState = wanted

\* A flow that will restore what it has read.
Remembers(f) ==
    /\ at[f] \notin {"idle", "directory", "prepare", "giving up"}
    /\ at[f] = "hello" => reply[f] = "ok"

Memory ==
    /\ Remembers("import") => saved["import"] = wanted
    /\ Remembers("update") => saved["update"] = wanted
    /\ recoveryFlight => saved["recovery"] = collectionState

\* What a flow restores is what it remembers.
Restores ==
    \A k \in DOMAIN calls :
        /\ calls[k].heard /\ Sets(calls[k])
        /\ calls[k].by = "recovery" \/ at[calls[k].by] = "restoring"
        => calls[k].method = setPaused(saved[calls[k].by])

\* Nothing else is remembered while the page sets the pause state.
PageSets(c) == c.by = "page" /\ Sets(c)
Nothing     == ~Remembers("import") /\ ~Remembers("update") /\ ~recoveryFlight

Alone ==
    /\ Obtained \/ reply["page"] = "released" => Nothing
    /\ \A k \in DOMAIN calls : PageSets(calls[k]) => Nothing

\* Nothing the page asks gets behind a question for the pause state.
Read ==
    \A k \in DOMAIN calls : calls[k].method = "hello" /\ calls[k].heard =>
        /\ ~collectorRecoveryNeeded
        /\ \A j \in DOMAIN calls : PageSets(calls[j]) => j < k

Timers ==
    /\ recoveryTimer => collectorRecoveryNeeded /\ ~recoveryFlight
    /\ recoveryFlight => collectorRecoveryNeeded

Obeys  == Waited /\ Chain /\ Stops /\ Acknowledged /\ Restores /\ Read
Intent == Health /\ Base /\ Memory /\ Alone /\ Timers
SettingsInv == Regular => Obeys /\ Intent

-----------------------------------------------------------------------------
(* The queue of requests.                                                  *)

\* The queue is left alone, or gets a request and a process to handle it.
Requests(f, m) ==
    \/ UNCHANGED procVars
    \/ /\ ~shutdownPending
       /\ calls' = Append(calls, Sent(f, m))
       /\ proc' = IF proc = "none" THEN "running" ELSE proc
       /\ procPaused' = (proc = "none" \/ procPaused)
       /\ stopping' = (proc # "none" /\ stopping)
       /\ UNCHANGED shutdownPending

\* Nobody who waits is disturbed, and nobody hears of a success.
Undisturbed(f) ==
    \A g \in Flow : reply[g] = "waiting" => g # f /\ reply'[g] = "waiting" /\ at'[g] = at[g]
NoNews ==
    \A g \in Flow : reply'[g] = "ok" =>
        (reply[g] = "ok" /\ at'[g] = at[g]) \/ ~Setting(g, at'[g])

\* A list of requests that got one more.
Longer(f, m) ==
    /\ DOMAIN calls = 1 .. Len(calls) /\ Len(calls) \in Nat
    /\ DOMAIN calls' = 1 .. Len(calls) + 1 /\ Len(calls') = Len(calls) + 1
    /\ \A k \in DOMAIN calls : calls'[k] = calls[k]
    /\ calls'[Len(calls) + 1].by = f /\ calls'[Len(calls) + 1].method = m
    /\ calls'[Len(calls) + 1].answer = "none" /\ calls'[Len(calls) + 1].heard

LEMMA Lengthened ==
    ASSUME Types, NEW f \in Flow, NEW m \in Methods, calls' = Append(calls, Sent(f, m))
    PROVE  Longer(f, m)
  <1>1. calls \in Seq(Call) /\ Sent(f, m) \in Call
    BY SentType DEF Types, TypeOK
  <1>2. Len(calls') = Len(calls) + 1
    BY <1>1
  <1>3. QED
    BY <1>1, <1>2, Appended, SentType DEF Longer

LEMMA OneMore ==
    ASSUME NEW f, NEW m, Longer(f, m)
    PROVE  \A k \in DOMAIN calls' :
              k = Len(calls) + 1 \/ (k \in DOMAIN calls /\ calls'[k] = calls[k] /\ k < Len(calls) + 1)
  <1> DEFINE n == Len(calls)
  <1>1. /\ n \in Nat /\ DOMAIN calls = 1 .. n /\ DOMAIN calls' = 1 .. n + 1
        /\ \A k \in DOMAIN calls : calls'[k] = calls[k]
    BY DEF Longer
  <1> HIDE DEF n
  <1>2. \A k \in DOMAIN calls' :
           k = n + 1 \/ (k \in DOMAIN calls /\ calls'[k] = calls[k] /\ k < n + 1)
    BY <1>1
  <1>3. QED
    BY <1>2 DEF n

LEMMA RequestCalls ==
    ASSUME Types, NEW f \in Flow, NEW m \in Methods, Requests(f, m)
    PROVE  calls' = calls \/ Longer(f, m)
  BY Lengthened DEF Requests, procVars

\* An answer stays where it is when the queue gets longer.
LEMMA ChainGrows ==
    ASSUME Types, Queue, Chain, NEW f \in Flow, NEW m \in Methods, Longer(f, m), proc' # "none",
           proc = "none" \/ procPaused' = procPaused
    PROVE  Chain'
  <1> DEFINE n == Len(calls)
  <1>1. /\ DOMAIN calls = 1 .. n /\ n \in Nat /\ DOMAIN calls' = 1 .. n + 1 /\ Len(calls') = n + 1
        /\ \A k \in 1 .. n : calls'[k] = calls[k]
        /\ calls'[n + 1].answer = "none"
    BY DEF Longer
  <1> SUFFICES ASSUME NEW k \in DOMAIN calls', Answered(calls'[k])
               PROVE  /\ Sets(calls'[k]) => calls'[k].answer = "ok"
                      /\ calls'[k].method = "pause" => calls'[k].paused
                      /\ calls'[k].method = "resume" => ~calls'[k].paused
                      /\ k > 1 /\ ~Sets(calls'[k]) => calls'[k].paused = calls'[k - 1].paused
                      /\ (k < Len(calls') => ~Answered(calls'[k + 1]))
                             => procPaused' = calls'[k].paused
    BY DEF Chain
  <1>2. k \in DOMAIN calls /\ k \in 1 .. n /\ calls'[k] = calls[k]
    BY <1>1 DEF Answered
  <1>3. procPaused' = procPaused
    BY <1>1, <1>2 DEF Chain
  <1>4. /\ Sets(calls[k]) => calls[k].answer = "ok"
        /\ calls[k].method = "pause" => calls[k].paused
        /\ calls[k].method = "resume" => ~calls[k].paused
        /\ k > 1 /\ ~Sets(calls[k]) => calls[k].paused = calls[k - 1].paused
        /\ (k < Len(calls) => ~Answered(calls[k + 1])) => procPaused = calls[k].paused
    BY <1>2 DEF Chain
  <1>5. k > 1 => k - 1 \in 1 .. n /\ calls'[k - 1] = calls[k - 1]
    BY <1>1, <1>2
  <1>6. k < n => k + 1 \in 1 .. n /\ calls'[k + 1] = calls[k + 1]
    BY <1>1, <1>2
  <1> HIDE DEF n
  <1>7. (k < Len(calls') => ~Answered(calls'[k + 1])) => (k < Len(calls) => ~Answered(calls[k + 1]))
    BY <1>1, <1>2, <1>6 DEF n
  <1>8. QED
    BY <1>2, <1>3, <1>4, <1>5, <1>7 DEF Sets

\* A request of a flow leaves the process as obedient as it was.
LEMMA HealthyGrows ==
    ASSUME Types, Healthy, NEW f \in Flow, NEW m \in Methods, Longer(f, m),
           UNCHANGED <<proc, procPaused, collectionState>>
    PROVE  Healthy'
  <1>1. calls \in Seq(Call)
    BY DEF Types, TypeOK
  <1>2. CASE calls = <<>>
    <2>1. Len(calls) = 0
      BY <1>2
    <2>2. calls'[1].answer = "none"
      BY <2>1 DEF Longer
    <2>3. QED
      BY <1>2, <2>2 DEF Healthy, Linked, Answered
  <1>3. CASE calls # <<>>
    <2>1. 1 \in DOMAIN calls
      BY <1>1, <1>3
    <2>2. calls'[1] = calls[1]
      BY <2>1 DEF Longer
    <2>3. calls' # <<>>
      <3>1. Len(calls') > 0
        BY DEF Longer
      <3>2. Len(<<>>) = 0
        OBVIOUS
      <3>3. QED
        BY <3>1, <3>2
    <2>4. QED
      BY <1>3, <2>2, <2>3 DEF Healthy, Linked, Answered, Sets
  <1>4. QED
    BY <1>2, <1>3

LEMMA ProcKept ==
    ASSUME IInv, Waited, Chain, NEW f \in Flow, NEW m \in Methods, Requests(f, m),
           UNCHANGED collectionState
    PROVE  Waited' /\ Chain' /\ (Healthy => Healthy')
  <1>1. Types /\ Queue /\ procPaused \in BOOLEAN
    BY Stands DEF Types, TypeOK
  <1>2. CASE UNCHANGED procVars
    BY <1>2 DEF procVars, Waited, Chain, Healthy, Linked, Answered, Sets
  <1>3. CASE ~UNCHANGED procVars
    <2>1. /\ calls' = Append(calls, Sent(f, m))
          /\ proc' = IF proc = "none" THEN "running" ELSE proc
          /\ procPaused' = (proc = "none" \/ procPaused)
      BY <1>3 DEF Requests
    <2>2. Longer(f, m)
      BY <1>1, <2>1, Lengthened
    <2>3. proc' # "none" /\ (proc # "none" => UNCHANGED <<proc, procPaused>>)
      BY <1>1, <2>1
    <2>4. Chain'
      BY <1>1, <2>2, <2>3, ChainGrows
    <2>5. Healthy => Healthy'
      BY <1>1, <2>2, <2>3, HealthyGrows DEF Healthy
    <2>6. Waited'
      <3> SUFFICES ASSUME NEW k \in DOMAIN calls', Sets(calls'[k]) PROVE calls'[k].heard
        BY DEF Waited
      <3>1. CASE k = Len(calls) + 1
        BY <2>2, <3>1 DEF Longer
      <3>2. CASE k # Len(calls) + 1
        <4>1. k \in DOMAIN calls /\ calls'[k] = calls[k]
          BY <2>2, <3>2 DEF Longer
        <4>2. QED
          BY <4>1 DEF Waited
      <3>3. QED
        BY <3>1, <3>2
    <2>7. QED
      BY <2>4, <2>5, <2>6
  <1>4. QED
    BY <1>2, <1>3

\* A request added to the queue says what its flow restores, and gets behind no
\* question for the pause state if it is the page's.
LEMMA CallsGrow ==
    ASSUME IInv, Restores, Read, NEW f \in Flow, NEW m \in Methods, calls' = calls \/ Longer(f, m),
           reply[f] # "waiting", Undisturbed(f), collectorRecoveryNeeded' => collectorRecoveryNeeded,
           \A g \in Flow : reply[g] = "waiting" => saved'[g] = saved[g],
           m \in {"pause", "resume"} /\ (f = "recovery" \/ at'[f] = "restoring")
               => m = setPaused(saved'[f]),
           m = "hello" => ~collectorRecoveryNeeded',
           f = "page" /\ m \in {"pause", "resume"} => at["import"] # "hello" /\ at["update"] # "hello"
    PROVE  Restores' /\ Read'
  <1>1. Types /\ Queue /\ \A k \in DOMAIN calls : calls[k].by \in Flow
    BY Stands, CallTypes
  <1>2. \A k \in DOMAIN calls : calls[k].heard =>
            /\ reply[calls[k].by] = "waiting" /\ calls[k].by # f
            /\ at'[calls[k].by] = at[calls[k].by] /\ saved'[calls[k].by] = saved[calls[k].by]
    BY <1>1 DEF Queue, Heard, Undisturbed
  <1>3. CASE calls' = calls
    <2>1. Restores'
      BY <1>2, <1>3 DEF Restores, Sets
    <2>2. Read'
      BY <1>3 DEF Read, PageSets, Sets
    <2>3. QED
      BY <2>1, <2>2
  <1>4. CASE Longer(f, m)
    <2> DEFINE n == Len(calls) + 1
    <2>2. /\ n \in Nat /\ DOMAIN calls' = 1 .. n /\ DOMAIN calls = 1 .. n - 1
          /\ \A k \in DOMAIN calls : calls'[k] = calls[k]
          /\ calls'[n].by = f /\ calls'[n].method = m
          /\ calls'[n].answer = "none" /\ calls'[n].heard
      BY <1>4 DEF Longer
    <2> HIDE DEF n
    <2>3. \A k \in DOMAIN calls' : k = n \/ (k \in DOMAIN calls /\ calls'[k] = calls[k] /\ k < n)
      BY <2>2
    <2>4. ASSUME NEW k \in DOMAIN calls', calls'[k].heard, Sets(calls'[k]),
                 calls'[k].by = "recovery" \/ at'[calls'[k].by] = "restoring"
          PROVE  calls'[k].method = setPaused(saved'[calls'[k].by])
      <3>1. CASE k = n
        BY <2>2, <2>4, <3>1 DEF Sets
      <3>2. CASE k # n
        <4>1. k \in DOMAIN calls /\ calls'[k] = calls[k]
          BY <2>3, <3>2
        <4>2. QED
          BY <1>2, <2>4, <4>1 DEF Restores
      <3>3. QED
        BY <3>1, <3>2
    <2>5. ASSUME NEW k \in DOMAIN calls', calls'[k].heard, calls'[k].method = "hello"
          PROVE  ~collectorRecoveryNeeded' /\ \A j \in DOMAIN calls' : PageSets(calls'[j]) => j < k
      <3>1. CASE k = n
        <4>1. m = "hello"
          BY <2>2, <2>5, <3>1
        <4>2. ~PageSets(calls'[n])
          BY <2>2, <4>1 DEF PageSets, Sets
        <4>3. QED
          BY <2>3, <3>1, <4>1, <4>2
      <3>2. CASE k # n
        <4>1. k \in DOMAIN calls /\ calls'[k] = calls[k] /\ k < n
          BY <2>3, <3>2
        <4>2. ~collectorRecoveryNeeded /\ \A j \in DOMAIN calls : PageSets(calls[j]) => j < k
          BY <2>5, <4>1 DEF Read
        <4>3. Sends(calls[k].by, at[calls[k].by], "hello")
          BY <1>1, <2>5, <4>1 DEF Queue, Heard
        <4>4. at["import"] = "hello" \/ at["update"] = "hello"
          BY <4>3 DEF Sends
        <4>5. ~PageSets(calls'[n])
          BY <2>2, <4>4 DEF PageSets, Sets
        <4>6. \A j \in DOMAIN calls' : PageSets(calls'[j]) => j < k
          BY <2>3, <4>2, <4>5
        <4>7. QED
          BY <4>2, <4>6
      <3>3. QED
        BY <3>1, <3>2
    <2>6. QED
      BY <2>4, <2>5 DEF Restores, Read
  <1>5. QED
    BY <1>3, <1>4

LEMMA StopsKept ==
    ASSUME IInv, Stops, NEW f \in Flow, NEW m \in Methods \ {"shutdown"}, Requests(f, m),
           stopping /\ UNCHANGED procVars => at'["update"] \in Stopped,
           at'["update"] = "waiting" /\ reply'["update"] = "ok"
               => UNCHANGED procVars /\ at["update"] = "waiting" /\ reply["update"] = "ok"
    PROVE  Stops'
  <1>1. Types
    BY Stands
  <1>2. CASE UNCHANGED procVars
    BY <1>2 DEF Stops, procVars
  <1>3. CASE ~UNCHANGED procVars
    <2>1. Longer(f, m)
      BY <1>1, <1>3, Lengthened DEF Requests
    <2>2. /\ ~shutdownPending /\ shutdownPending' = shutdownPending
          /\ proc' = IF proc = "none" THEN "running" ELSE proc
          /\ stopping' = (proc # "none" /\ stopping)
      BY <1>3 DEF Requests
    <2>3. ~stopping' /\ proc' # "leaving" /\ proc' # "none" /\ ~shutdownPending'
      BY <2>2 DEF Stops
    <2>4. \A k \in DOMAIN calls' : calls'[k].method # "shutdown"
      <3> SUFFICES ASSUME NEW k \in DOMAIN calls' PROVE calls'[k].method # "shutdown"
        OBVIOUS
      <3>1. k = Len(calls) + 1 \/ (k \in DOMAIN calls /\ calls'[k] = calls[k])
        BY <2>1 DEF Longer
      <3>2. QED
        BY <2>1, <2>2, <3>1 DEF Stops, Longer
    <2>5. QED
      BY <1>3, <2>2, <2>3, <2>4 DEF Stops
  <1>4. QED
    BY <1>2, <1>3

\* A step of a flow that asks for nothing but what it has to.
LEMMA ObeysKept ==
    ASSUME IInv, Obeys, NEW f \in Flow, NEW m \in Methods \ {"shutdown"}, Requests(f, m),
           UNCHANGED collectionState, reply[f] # "waiting", Undisturbed(f), NoNews,
           collectorRecoveryNeeded' => collectorRecoveryNeeded,
           stopping /\ UNCHANGED procVars => at'["update"] \in Stopped,
           at'["update"] = "waiting" /\ reply'["update"] = "ok"
               => UNCHANGED procVars /\ at["update"] = "waiting" /\ reply["update"] = "ok",
           \A g \in Flow : reply[g] = "waiting" => saved'[g] = saved[g],
           m \in {"pause", "resume"} /\ (f = "recovery" \/ at'[f] = "restoring")
               => m = setPaused(saved'[f]),
           m = "hello" => ~collectorRecoveryNeeded',
           f = "page" /\ m \in {"pause", "resume"} => at["import"] # "hello" /\ at["update"] # "hello"
    PROVE  Obeys' /\ (Healthy => Healthy')
  <1>1. Waited' /\ Chain' /\ (Healthy => Healthy')
    BY ProcKept DEF Obeys
  <1>2. Stops'
    BY StopsKept DEF Obeys
  <1>3. Restores' /\ Read'
    <2>1. calls' = calls \/ Longer(f, m)
      BY Stands, RequestCalls
    <2>2. QED
      BY <2>1, CallsGrow DEF Obeys
  <1>4. Acknowledged'
    BY <1>1 DEF Obeys, NoNews, Acknowledged
  <1>5. QED
    BY <1>1, <1>2, <1>3, <1>4 DEF Obeys

-----------------------------------------------------------------------------
(* What a step of a flow means for the settings.                           *)

LEMMA AskRequests ==
    ASSUME NEW f \in Flow, NEW m \in Methods, NEW s, Ask(f, m, s)
    PROVE  Requests(f, m)
  BY DEF Ask, request, Requests

LEMMA TurnQuiet ==
    ASSUME NEW f \in Flow, NEW s, NEW R, Turn(f, s, R), "ok" \notin R, reply[f] # "waiting"
    PROVE  Undisturbed(f) /\ NoNews
  BY DEF Turn, Undisturbed, NoNews

\* When no recovery may be begun, something else will see to the collector.
LEMMA Held ==
    /\ Stops /\ ~(canRecoverCollector /\ ~recoveryFlight /\ mayTry) => Updating \/ Busy
    /\ Stops' /\ ~(canRecoverCollector /\ ~recoveryFlight /\ mayTry)' => Updating' \/ Busy'
  BY DEF Stops, Stopped, canRecoverCollector, Updating, Busy, Over, installingUpdate,
         migrationBusy, startupSettled

\* A step that looks for a recovery to begin finds one, or need not.
LEMMA Scheduled ==
    ASSUME Stops', collectorRecoveryNeeded', UNCHANGED recoveryAttempts,
           scheduleCollectorRecovery
    PROVE  Updating' \/ Blocked'
  <1>1. mayTry' = mayTry
    BY DEF mayTry
  <1>2. CASE (canRecoverCollector /\ ~recoveryFlight /\ mayTry)'
    BY <1>1, <1>2 DEF scheduleCollectorRecovery, Blocked
  <1>3. QED
    BY <1>2, Held DEF Blocked

\* The page's requests leave nothing else remembered.
LEMMA AloneGrows ==
    ASSUME Types, Alone, NEW f \in Flow, NEW m \in Methods, calls' = calls \/ Longer(f, m),
           Nothing => Nothing', f = "page" /\ m \in {"pause", "resume"} => Nothing',
           Obtained' \/ reply'["page"] = "released" => Nothing'
    PROVE  Alone'
  <1>1. CASE calls' = calls
    BY <1>1 DEF Alone, PageSets, Sets
  <1>2. CASE Longer(f, m)
    <2>1. ASSUME NEW k \in DOMAIN calls', PageSets(calls'[k])
          PROVE  Nothing'
      <3>1. CASE k = Len(calls) + 1
        BY <1>2, <2>1, <3>1 DEF Longer, PageSets, Sets
      <3>2. CASE k # Len(calls) + 1
        <4>1. k \in DOMAIN calls /\ calls'[k] = calls[k]
          BY <1>2, <3>2 DEF Longer
        <4>2. QED
          BY <2>1, <4>1 DEF Alone
      <3>3. QED
        BY <3>1, <3>2
    <2>2. QED
      BY <2>1 DEF Alone
  <1>3. QED
    BY <1>1, <1>2

LEMMA AloneKept ==
    ASSUME Types, Alone, NEW f \in Flow, NEW m \in Methods, Requests(f, m), Nothing => Nothing',
           f = "page" /\ m \in {"pause", "resume"} => Nothing',
           Obtained' \/ reply'["page"] = "released" => Nothing'
    PROVE  Alone'
  BY RequestCalls, AloneGrows

-----------------------------------------------------------------------------
(* Startup and import.                                                     *)

LEMMA StartupSettings ==
    ASSUME IInv, Obeys, Intent, Startup, UNCHANGED <<saved, collectionState, missed>>
    PROVE  Obeys' /\ Intent'
  <1> USE FlowNames, StateNames, Stands
      DEF Got, Methods, Replies, Resting, migrationBusy,
          installingUpdate, startupSettled, recoveryFlight
  <1>0. /\ at["startup"] # "idle"
        /\ at["recovery"] = "idle" /\ at["import"] = "idle" /\ at["update"] = "idle"
        /\ at["page"] = "idle" /\ collectionState \in BOOLEAN
    BY DEF Startup, IInv, Flags, Apart, Types, TypeOK
  <1>1. ASSUME NEW s \in {"resuming", "overlap"}, Ask("startup", "resume", s),
               Got("startup", {"importing"}, {"ok", "refused"}),
               UNCHANGED <<recoveryVars, wanted>>
        PROVE  Obeys' /\ Intent'
    <2>1. Turn("startup", s, {"failed", "waiting"}) /\ Requests("startup", "resume")
      BY <1>1, Asked, AskRequests DEF Sends
    <2>2. Undisturbed("startup") /\ NoNews
      BY <1>1, <2>1, TurnQuiet
    <2>3. Obeys' /\ (Healthy => Healthy')
      BY <1>0, <1>1, <2>1, <2>2, ObeysKept DEF Turn, recoveryVars, Obeys, Stops
    <2>4. Health'
      BY <1>0, <1>1, <2>1, <2>3 DEF Turn, recoveryVars, Intent, Health, Updating, Blocked, Busy
    <2>5. Base'
      BY <1>0, <1>1, <2>1 DEF Turn, Intent, Base, Obtained, Resumed, Aside
    <2>6. Memory' /\ (Nothing => Nothing') /\ Timers'
      BY <1>0, <1>1, <2>1 DEF Turn, recoveryVars, Intent, Memory, Remembers, Nothing, Timers
    <2>7. Alone'
      BY <1>0, <1>1, <2>1, <2>6, AloneKept DEF Turn, Intent, Alone, Obtained
    <2>8. QED
      BY <2>3, <2>4, <2>5, <2>6, <2>7 DEF Intent
  <1>2. CASE /\ \/ Resumed /\ wanted' = FALSE
                \/ reply["startup"] \in {"refused", "failed"} /\ UNCHANGED wanted
             /\ Stay("startup", "idle")
             /\ UNCHANGED <<collectorRecoveryNeeded, stableTimer, recoveryAttempts>>
             /\ scheduleCollectorRecovery
    <2>0. reply["startup"] # "waiting"
      BY <1>2 DEF Resumed
    <2>1. Turn("startup", "idle", {"none"}) /\ UNCHANGED procVars
      BY <1>2, <2>0, Stayed
    <2>2. Undisturbed("startup") /\ NoNews /\ Requests("startup", "snapshot")
      BY <2>0, <2>1, TurnQuiet DEF Requests
    <2>3. Obeys' /\ (Healthy => Healthy')
      BY <1>0, <1>2, <2>0, <2>1, <2>2, ObeysKept DEF Turn, Obeys, Stops
    <2>4. Health'
      BY <1>0, <1>2, <2>1, <2>3, Scheduled DEF Obeys, Intent, Health, Updating
    <2>5. Base'
      BY <1>0, <1>2, <2>1 DEF Turn, Intent, Base, Obtained, Resumed, Aside
    <2>6. Memory' /\ (Nothing => Nothing') /\ Timers'
      BY <1>0, <1>2, <2>1 DEF Turn, Intent, Memory, Remembers, Nothing, Timers, scheduleCollectorRecovery
    <2>7. Alone'
      BY <1>0, <1>2, <2>1, <2>2, <2>6, AloneKept DEF Turn, Intent, Alone, Obtained
    <2>8. QED
      BY <2>3, <2>4, <2>5, <2>6, <2>7 DEF Intent
  <1>3. QED
    BY <1>1, <1>2 DEF Startup, Resumed

\* What else goes on during an import.
LEMMA ImportAlone ==
    ASSUME IInv, Obeys, at["import"] # "idle"
    PROVE  /\ at["recovery"] = "idle" /\ at["startup"] = "idle"
           /\ at["update"] \in {"idle", "prepare"} /\ at["page"] # "dialog"
           /\ reply["page"] \notin {"held", "released"}
           /\ ~stopping /\ ~Updating /\ ~Remembers("update") /\ ~Aside("update") /\ ~Resumed
  BY DEF IInv, Flags, Apart, migrationBusy, installingUpdate, Obeys, Stops, Stopped, Updating,
         Remembers, Aside, Resumed

LEMMA ImportSettings ==
    ASSUME IInv, Obeys, Intent, at["import"] # "idle", reply["import"] # "waiting",
           NEW s \in {"hello", "pausing", "importing", "restoring", "giving up"},
           NEW m \in Methods, Sends("import", s, m), Ask("import", m, s),
           s = "hello" => at["import"] = "directory" /\ ~collectorRecoveryNeeded,
           s \in {"pausing", "importing", "restoring"} => Remembers("import"),
           s = "restoring" => m = setPaused(saved["import"]),
           UNCHANGED <<saved, collectionState, recoveryVars, wanted, missed>>
    PROVE  Obeys' /\ Intent'
  <1> USE FlowNames, StateNames, Stands
      DEF Methods, Replies, Resting, migrationBusy, installingUpdate, startupSettled, recoveryFlight
  <1>0. /\ at["recovery"] = "idle" /\ at["startup"] = "idle"
        /\ at["update"] \in {"idle", "prepare"} /\ at["page"] # "dialog"
        /\ reply["page"] \notin {"held", "released"}
        /\ ~stopping /\ ~Updating /\ ~Remembers("update") /\ ~Aside("update") /\ ~Resumed
    BY ImportAlone
  <1>1. Turn("import", s, {"failed", "waiting"}) /\ Requests("import", m)
    BY Asked, AskRequests
  <1>2. Undisturbed("import") /\ NoNews
    BY <1>1, TurnQuiet
  <1>3. Obeys' /\ (Healthy => Healthy')
    <2>1. m # "shutdown" /\ (m = "hello" => s = "hello") /\ (m = "resume" => s = "restoring")
      BY DEF Sends
    <2>2. QED
      BY <1>0, <1>1, <1>2, <2>1, ObeysKept DEF Turn, recoveryVars
  <1>4. Health'
    BY <1>0, <1>1, <1>3 DEF Turn, recoveryVars, Intent, Health, Updating, Blocked, Busy
  <1>5. Base'
    BY <1>0, <1>1 DEF Turn, Intent, Base, Obtained, Resumed, Aside
  <1>6. Memory' /\ (Nothing => Nothing') /\ Timers'
    BY <1>0, <1>1 DEF Turn, recoveryVars, Intent, Memory, Remembers, Nothing, Timers
  <1>7. Alone'
    <2>1. Obtained' \/ reply'["page"] = "released" => Nothing'
      BY <1>1, <1>6 DEF Turn, Intent, Alone, Obtained
    <2>2. QED
      BY <1>1, <1>6, <2>1, AloneKept DEF Intent
  <1>8. QED
    BY <1>3, <1>4, <1>5, <1>6, <1>7 DEF Intent

\* The end of an import, which has given the user's pause state back or has made
\* its own the user's.
LEMMA EndImportSettings ==
    ASSUME IInv, Obeys, Intent, at["import"] # "idle", reply["import"] # "waiting", EndImport,
           \/ ~Aside("import") /\ UNCHANGED wanted
           \/ wanted' = collectionState,
           UNCHANGED <<saved, collectionState, missed>>
    PROVE  Obeys' /\ Intent'
  <1> USE FlowNames, StateNames, Stands
      DEF Methods, Replies, Resting, migrationBusy, installingUpdate, startupSettled, recoveryFlight
  <1>0. /\ at["recovery"] = "idle" /\ at["startup"] = "idle"
        /\ at["update"] \in {"idle", "prepare"} /\ at["page"] # "dialog"
        /\ reply["page"] \notin {"held", "released"}
        /\ ~stopping /\ ~Updating /\ ~Remembers("update") /\ ~Aside("update") /\ ~Resumed
    BY ImportAlone
  <1>1. Turn("import", "idle", {"none"}) /\ UNCHANGED procVars
    BY Stayed DEF EndImport
  <1>2. Undisturbed("import") /\ NoNews /\ Requests("import", "snapshot")
    BY <1>1, TurnQuiet DEF Requests
  <1>3. Obeys' /\ (Healthy => Healthy')
    BY <1>0, <1>1, <1>2, ObeysKept DEF Turn, EndImport
  <1>4. Health'
    BY <1>0, <1>1, <1>3, Scheduled DEF EndImport, Obeys, Intent, Health
  <1>5. Base'
    BY <1>0, <1>1 DEF Turn, Intent, Base, Obtained, Resumed, Aside
  <1>6. Memory' /\ (Nothing => Nothing') /\ Timers'
    BY <1>0, <1>1
       DEF Turn, EndImport, Intent, Memory, Remembers, Nothing, Timers, scheduleCollectorRecovery
  <1>7. Alone'
    BY <1>0, <1>1, <1>2, <1>6, AloneKept DEF Turn, Intent, Alone, Obtained
  <1>8. QED
    BY <1>3, <1>4, <1>5, <1>6, <1>7 DEF Intent

LEMMA ImportAsksSettings ==
    ASSUME IInv, Obeys, Intent, ImportAsks
    PROVE  Obeys' /\ Intent'
  <1> USE FlowNames, StateNames, Stands
      DEF Methods, Replies, Resting, Idle, migrationBusy, installingUpdate, startupSettled,
          recoveryFlight
  <1>0. /\ at["import"] = "idle" /\ at["startup"] = "idle" /\ at["recovery"] = "idle"
        /\ at["update"] \in {"idle", "prepare"} /\ ~collectorRecoveryNeeded
        /\ reply["import"] \notin {"waiting", "ok"}
        /\ UNCHANGED <<saved, collectionState, recoveryVars, wanted, missed>>
    BY DEF ImportAsks, Operation, historyVars
  <1>1. Turn("import", "directory", {reply["import"]}) /\ UNCHANGED procVars
    BY <1>0, Stepped DEF ImportAsks
  <1>2. Undisturbed("import") /\ NoNews /\ Requests("import", "snapshot")
    BY <1>0, <1>1, TurnQuiet DEF Requests
  <1>3. Obeys' /\ (Healthy => Healthy')
    BY <1>0, <1>1, <1>2, ObeysKept DEF Turn, recoveryVars, Obeys, Stops, Stopped
  <1>4. Health'
    BY <1>0, <1>1, <1>3 DEF Intent, Health, Updating
  <1>5. Base'
    BY <1>0, <1>1 DEF Turn, Intent, Base, Obtained, Resumed, Aside
  <1>6. Memory' /\ (Nothing => Nothing') /\ Timers'
    BY <1>0, <1>1 DEF Turn, recoveryVars, Intent, Memory, Remembers, Nothing, Timers
  <1>7. Alone'
    BY <1>0, <1>1, <1>2, <1>6, AloneKept DEF Turn, Intent, Alone, Obtained
  <1>8. QED
    BY <1>3, <1>4, <1>5, <1>6, <1>7 DEF Intent

LEMMA ImportAnswersSettings ==
    ASSUME IInv, Obeys, Intent, ImportAnswers, Regular'
    PROVE  Obeys' /\ Intent'
  <1> USE FlowNames, StateNames, Stands
      DEF Methods, Replies, Resting, Idle
  <1>0. /\ at["import"] # "idle" /\ reply["import"] \notin {"waiting", "ok"}
        /\ UNCHANGED <<saved, collectionState, wanted, missed>>
    BY DEF ImportAnswers
  <1>1. CASE at["import"] = "directory" /\ EndImport
    <2>1. ~Aside("import")
      BY <1>1 DEF Aside
    <2>2. QED
      BY <1>0, <1>1, <2>1, EndImportSettings
  <1>2. CASE /\ at["import"] = "directory" /\ Ask("import", "hello", "hello")
             /\ lost' = (lost \/ collectorRecoveryNeeded) /\ UNCHANGED recoveryVars
    <2>1. ~collectorRecoveryNeeded
      BY <1>2 DEF Regular
    <2>2. QED
      BY <1>0, <1>2, <2>1, ImportSettings DEF Sends
  <1>3. CASE /\ at["import"] = "overlap" /\ UNCHANGED recoveryVars
             /\ \/ Ask("import", "importLegacy", "importing")
                \/ Ask("import", "pause", "giving up")
    <2>1. Remembers("import")
      BY <1>3 DEF Remembers
    <2>2. QED
      BY <1>0, <1>3, <2>1, ImportSettings DEF Sends
  <1>4. QED
    BY <1>1, <1>2, <1>3 DEF ImportAnswers

LEMMA ImportContinues ==
    ASSUME IInv, Obeys, Intent, Import, UNCHANGED <<saved, collectionState, missed>>
    PROVE  Obeys' /\ Intent'
  <1> USE FlowNames, StateNames, Stands
      DEF Got, Methods, Replies, Resting
  <1>1. CASE /\ Got("import", {"hello"}, {"ok"}) /\ Ask("import", "pause", "pausing")
             /\ UNCHANGED <<recoveryVars, wanted>>
    BY <1>1, ImportSettings DEF Sends, Remembers
  <1>2. CASE /\ Got("import", {"pausing"}, {"ok"})
             /\ Ask("import", "importLegacy", "importing")
             /\ UNCHANGED <<recoveryVars, wanted>>
    BY <1>2, ImportSettings DEF Sends, Remembers
  <1>3. CASE /\ Got("import", {"importing"}, {"refused"}) /\ Stay("import", "overlap")
             /\ UNCHANGED <<migrationError, recoveryVars, wanted>>
    <2>0. /\ at["recovery"] = "idle" /\ at["startup"] = "idle"
          /\ at["update"] \in {"idle", "prepare"} /\ at["page"] # "dialog"
          /\ reply["page"] \notin {"held", "released"}
          /\ ~stopping /\ ~Updating /\ ~Remembers("update") /\ ~Aside("update") /\ ~Resumed
      BY <1>3, ImportAlone
    <2>1. Turn("import", "overlap", {"none"}) /\ UNCHANGED procVars
      BY <1>3, Stayed
    <2>2. Undisturbed("import") /\ NoNews /\ Requests("import", "snapshot")
      BY <1>3, <2>1, TurnQuiet DEF Requests
    <2>3. Obeys' /\ (Healthy => Healthy')
      BY <1>3, <2>0, <2>1, <2>2, ObeysKept DEF Turn, recoveryVars
    <2>4. Health'
      BY <1>3, <2>0, <2>1, <2>3
         DEF Turn, recoveryVars, Intent, Health, Updating, Blocked, Busy, migrationBusy
    <2>5. Base'
      BY <1>3, <2>0, <2>1 DEF Turn, Intent, Base, Obtained, Resumed, Aside
    <2>6. Memory' /\ (Nothing => Nothing') /\ Timers'
      BY <1>3, <2>0, <2>1
         DEF Turn, recoveryVars, Intent, Memory, Remembers, Nothing, Timers, recoveryFlight
    <2>7. Alone'
      BY <2>0, <2>1, <2>2, <2>6, AloneKept DEF Turn, Intent, Alone, Obtained
    <2>8. QED
      BY <2>3, <2>4, <2>5, <2>6, <2>7 DEF Intent
  <1>4. CASE /\ Got("import", {"hello", "pausing", "importing", "restoring"}, {"refused", "failed"})
             /\ Ask("import", "pause", "giving up")
             /\ UNCHANGED <<recoveryVars, wanted>>
    BY <1>4, ImportSettings DEF Sends
  <1>5. CASE /\ Got("import", {"importing"}, {"ok"})
             /\ Ask("import", setPaused(saved["import"]), "restoring")
             /\ UNCHANGED <<recoveryVars, wanted>>
    BY <1>5, ImportSettings DEF Sends, Remembers, setPaused
  <1>6. CASE Got("import", {"restoring"}, {"ok"}) /\ UNCHANGED wanted /\ EndImport
    <2>1. ~Aside("import")
      BY <1>6 DEF Aside
    <2>2. QED
      BY <1>6, <2>1, EndImportSettings
  <1>7. CASE /\ Got("import", {"giving up"}, {"ok", "failed"})
             /\ wanted' = collectionState /\ EndImport
    BY <1>7, EndImportSettings
  <1>8. QED
    BY <1>1, <1>2, <1>3, <1>4, <1>5, <1>6, <1>7 DEF Import

-----------------------------------------------------------------------------
(* Update and exit.                                                        *)

\* What else goes on during an update.
LEMMA UpdateAlone ==
    ASSUME IInv, at["update"] \notin {"idle", "prepare"}
    PROVE  /\ at["recovery"] = "idle" /\ at["startup"] = "idle" /\ at["import"] = "idle"
           /\ at["quit"] = "idle" /\ reply["page"] \notin {"held", "released"}
           /\ ~Remembers("import") /\ ~Resumed
  BY DEF IInv, Flags, Apart, installingUpdate, Remembers, Resumed

\* A request that is let in changes the queue.
LEMMA LetIn ==
    ASSUME Types, NEW f \in Flow, NEW m \in Methods, NEW s, Ask(f, m, s), ~shutdownPending
    PROVE  ~UNCHANGED procVars
  <1>1. calls' = Append(calls, Sent(f, m))
    BY DEF Ask, request
  <1>2. Longer(f, m)
    BY <1>1, Lengthened
  <1>3. Len(calls) + 1 \in DOMAIN calls' /\ Len(calls) + 1 \notin DOMAIN calls
    BY <1>2 DEF Longer
  <1>4. QED
    BY <1>3 DEF procVars

LEMMA UpdateSettings ==
    ASSUME IInv, Obeys, Intent, Remembers("update"), reply["update"] # "waiting",
           NEW s \in {"pausing", "apps", "restoring"}, NEW m \in Methods,
           Sends("update", s, m), Ask("update", m, s), ~stopping \/ ~shutdownPending,
           s = "restoring" => m = setPaused(saved["update"]),
           UNCHANGED <<saved, collectionState, recoveryVars, wanted>>
    PROVE  Obeys' /\ Intent'
  <1> USE FlowNames, StateNames, Stands
      DEF Methods, Replies, Resting, migrationBusy, installingUpdate, startupSettled, recoveryFlight
  <1>0. /\ at["recovery"] = "idle" /\ at["startup"] = "idle" /\ at["import"] = "idle"
        /\ at["quit"] = "idle" /\ reply["page"] \notin {"held", "released"}
        /\ ~Remembers("import") /\ ~Resumed
    BY UpdateAlone DEF Remembers
  <1>1. Turn("update", s, {"failed", "waiting"}) /\ Requests("update", m)
    BY Asked, AskRequests
  <1>2. Undisturbed("update") /\ NoNews
    BY <1>1, TurnQuiet
  <1>3. Obeys' /\ (Healthy => Healthy')
    <2>1. /\ m \notin {"shutdown", "hello"} /\ m \in Methods \ {"shutdown"}
          /\ (m = "resume" => s = "restoring")
          /\ (s = "pausing" => m = "pause") /\ (s = "apps" => m = "setAppCollection")
      BY DEF Sends
    <2>2. ~(stopping /\ UNCHANGED procVars)
      BY LetIn
    <2>3. at'["update"] # "waiting" /\ (at'["update"] = "restoring" => m = setPaused(saved'["update"]))
      BY <1>1 DEF Turn
    <2>4. m \in {"pause", "resume"} /\ at'["update"] = "restoring" => m = setPaused(saved'["update"])
      BY <2>3
    <2>5. QED
      BY <1>1, <1>2, <2>1, <2>2, <2>3, <2>4, ObeysKept DEF recoveryVars
  <1>4. Health'
    BY <1>1 DEF Turn, Health, Updating
  <1>5. Base'
    BY <1>0, <1>1 DEF Turn, Intent, Base, Obtained, Resumed, Aside
  <1>6. Memory' /\ (Nothing => Nothing') /\ Timers'
    BY <1>0, <1>1 DEF Turn, recoveryVars, Intent, Memory, Remembers, Nothing, Timers
  <1>7. Alone'
    <2>1. Obtained' \/ reply'["page"] = "released" => Nothing'
      BY <1>1, <1>6 DEF Turn, Intent, Alone, Obtained
    <2>2. QED
      BY <1>1, <1>6, <2>1, AloneKept DEF Intent
  <1>8. QED
    BY <1>3, <1>4, <1>5, <1>6, <1>7 DEF Intent

\* The update goes on without the process.
LEMMA UpdateStays ==
    ASSUME IInv, Obeys, Intent, Remembers("update"), reply["update"] # "waiting",
           NEW s \in Stopped \ {"shutdown"}, NEW r \in {"none", "waiting"},
           Turn("update", s, {r}), UNCHANGED procVars,
           UNCHANGED <<saved, collectionState, recoveryVars, wanted>>
    PROVE  Obeys' /\ Intent'
  <1> USE FlowNames, StateNames, Stands
      DEF Methods, Replies, Resting, migrationBusy, installingUpdate, startupSettled, recoveryFlight
  <1>0. /\ at["recovery"] = "idle" /\ at["startup"] = "idle" /\ at["import"] = "idle"
        /\ at["quit"] = "idle" /\ reply["page"] \notin {"held", "released"}
        /\ ~Remembers("import") /\ ~Resumed
    BY UpdateAlone DEF Remembers
  <1>1. Undisturbed("update") /\ NoNews /\ Requests("update", "snapshot")
    BY TurnQuiet DEF Requests
  <1>2. at'["update"] = s /\ reply'["update"] # "ok"
    BY DEF Turn
  <1>3. Obeys' /\ (Healthy => Healthy')
    BY <1>0, <1>1, <1>2, ObeysKept DEF recoveryVars
  <1>4. Health'
    BY <1>2 DEF Health, Updating, Stopped
  <1>5. Base'
    BY <1>0, <1>2 DEF Turn, Intent, Base, Obtained, Resumed, Aside, Stopped
  <1>6. Memory' /\ (Nothing => Nothing') /\ Timers'
    BY <1>0, <1>2 DEF Turn, recoveryVars, Intent, Memory, Remembers, Nothing, Timers
  <1>7. Alone'
    <2>1. Obtained' \/ reply'["page"] = "released" => Nothing'
      BY <1>6 DEF Turn, Intent, Alone, Obtained
    <2>2. QED
      BY <1>1, <1>6, <2>1, AloneKept DEF Intent
  <1>8. QED
    BY <1>3, <1>4, <1>5, <1>6, <1>7 DEF Intent

\* The update gives up.
LEMMA RecoverSettings ==
    ASSUME IInv, Obeys, Intent, reply["update"] # "waiting",
           at["update"] \in {"launching", "pausing", "shutdown", "exiting", "waiting", "apps", "protected"},
           Recover \/ (~shutdownPending /\ Restore) \/ (~stopping /\ restore),
           UNCHANGED <<saved, collectionState, recoveryVars, wanted>>
    PROVE  Obeys' /\ Intent'
  <1> USE FlowNames, StateNames, Stands DEF Methods
  <1>1. Remembers("update")
    BY DEF Remembers
  <1>2. CASE Ask("update", "setAppCollection", "apps") /\ ~shutdownPending
    BY <1>1, <1>2, UpdateSettings DEF Sends
  <1>3. CASE restore /\ (~stopping \/ ~shutdownPending)
    BY <1>1, <1>3, UpdateSettings DEF Sends, restore, setPaused
  <1>4. CASE Await("update", "waiting") /\ UNCHANGED procVars
    <2>1. Turn("update", "waiting", {"waiting"})
      BY <1>4, Awaited DEF Resting
    <2>2. QED
      BY <1>1, <1>4, <2>1, UpdateStays DEF Stopped
  <1>5. QED
    BY <1>2, <1>3, <1>4 DEF Recover, Restore

\* The shutdown is the only one.
LEMMA ShutdownStops ==
    ASSUME NEW f \in Flow, Longer(f, "shutdown"), at'["update"] = "shutdown",
           stopping' = TRUE, shutdownPending' = TRUE, UNCHANGED proc,
           proc # "none", proc # "leaving",
           \A k \in DOMAIN calls : calls[k].method # "shutdown"
    PROVE  Stops'
  <1> DEFINE n == Len(calls) + 1
  <1>1. \A k \in DOMAIN calls' : k = n \/ (k \in DOMAIN calls /\ calls'[k] = calls[k])
    BY OneMore
  <1> HIDE DEF n
  <1>2. \A k \in DOMAIN calls' : calls'[k].method = "shutdown" => k = n
    BY <1>1
  <1>3. QED
    BY <1>2 DEF Stops, Stopped

LEMMA ShutdownSettings ==
    ASSUME IInv, Obeys, Intent, Got("update", {"pausing"}, {"ok"}), Shutdown("update"),
           UNCHANGED <<saved, collectionState, recoveryVars, wanted>>
    PROVE  Obeys' /\ Intent'
  <1> USE FlowNames, StateNames, Stands
      DEF Got, Methods, Replies, migrationBusy, installingUpdate, startupSettled, recoveryFlight
  <1>0. /\ at["recovery"] = "idle" /\ at["startup"] = "idle" /\ at["import"] = "idle"
        /\ at["quit"] = "idle" /\ reply["page"] \notin {"held", "released"}
        /\ ~Remembers("import") /\ ~Resumed
    BY UpdateAlone
  <1>1. Turn("update", "shutdown", {"waiting"})
    BY ShutDown
  <1>2. /\ stopping' = TRUE /\ shutdownPending' = TRUE /\ UNCHANGED <<proc, procPaused>>
        /\ calls' = Append(calls, Sent("update", "shutdown"))
    BY DEF Shutdown
  <1>3. Longer("update", "shutdown")
    BY <1>2, Lengthened
  <1>4. Undisturbed("update") /\ NoNews
    BY <1>1, TurnQuiet
  <1>5. Healthy
    BY DEF Obeys, Acknowledged, Setting, Sends
  <1>6. Healthy' /\ Chain'
    BY <1>2, <1>3, <1>5, HealthyGrows, ChainGrows DEF Obeys, Healthy
  <1>7. ~stopping /\ ~shutdownPending /\ proc # "leaving" /\ proc # "none"
        /\ \A k \in DOMAIN calls : calls[k].method # "shutdown"
    BY <1>5 DEF Obeys, Stops, Stopped, Healthy
  <1>8. \A k \in DOMAIN calls' : k = Len(calls) + 1 \/ (k \in DOMAIN calls /\ calls'[k] = calls[k])
    BY <1>3, OneMore
  <1>9. Waited'
    BY <1>3, <1>8 DEF Longer, Obeys, Waited, Sets
  <1>10. Stops'
    BY <1>1, <1>2, <1>3, <1>7, ShutdownStops DEF Turn
  <1>11. Acknowledged'
    BY <1>4, <1>6 DEF NoNews, Obeys, Acknowledged
  <1>12. Restores' /\ Read'
    BY <1>1, <1>3, <1>4, CallsGrow DEF Turn, recoveryVars, Obeys
  <1>13. Health'
    BY <1>6 DEF Health
  <1>14. Base'
    BY <1>0, <1>1 DEF Turn, Intent, Base, Obtained, Resumed, Aside
  <1>15. Memory' /\ (Nothing => Nothing') /\ Timers'
    BY <1>0, <1>1 DEF Turn, recoveryVars, Intent, Memory, Remembers, Nothing, Timers
  <1>16. Alone'
    BY <1>1, <1>3, <1>15, AloneGrows DEF Turn, Intent, Alone, Obtained
  <1>17. QED
    BY <1>6, <1>9, <1>10, <1>11, <1>12, <1>13, <1>14, <1>15, <1>16 DEF Obeys, Intent

LEMMA UpdateAsksSettings ==
    ASSUME IInv, Obeys, Intent, UpdateAsks
    PROVE  Obeys' /\ Intent'
  <1> USE FlowNames, StateNames, Stands
      DEF Methods, Replies, Resting, Idle, migrationBusy, installingUpdate, startupSettled,
          recoveryFlight
  <1>0. /\ at["import"] = "idle" /\ at["startup"] = "idle" /\ at["recovery"] = "idle"
        /\ at["update"] = "idle" /\ ~collectorRecoveryNeeded
        /\ reply["update"] \notin {"waiting", "ok"}
        /\ UNCHANGED <<saved, collectionState, recoveryVars, wanted, missed>>
    BY DEF UpdateAsks, Operation, ready, historyVars
  <1>1. Turn("update", "prepare", {reply["update"]}) /\ UNCHANGED procVars
    BY <1>0, Stepped DEF UpdateAsks
  <1>2. Undisturbed("update") /\ NoNews /\ Requests("update", "snapshot")
    BY <1>0, <1>1, TurnQuiet DEF Requests
  <1>3. Obeys' /\ (Healthy => Healthy')
    BY <1>0, <1>1, <1>2, ObeysKept DEF Turn, recoveryVars, Obeys, Stops, Stopped
  <1>4. Health'
    BY <1>0, <1>1, <1>3 DEF Intent, Health, Updating
  <1>5. Base'
    BY <1>0, <1>1 DEF Turn, Intent, Base, Obtained, Resumed, Aside
  <1>6. Memory' /\ (Nothing => Nothing') /\ Timers'
    BY <1>0, <1>1 DEF Turn, recoveryVars, Intent, Memory, Remembers, Nothing, Timers
  <1>7. Alone'
    BY <1>0, <1>1, <1>2, <1>6, AloneKept DEF Turn, Intent, Alone, Obtained
  <1>8. QED
    BY <1>3, <1>4, <1>5, <1>6, <1>7 DEF Intent

LEMMA UpdatePreparedSettings ==
    ASSUME IInv, Obeys, Intent, UpdatePrepared
    PROVE  Obeys' /\ Intent'
  <1> USE FlowNames, StateNames, Stands
      DEF Methods, Replies, Resting, Idle, migrationBusy, installingUpdate, startupSettled,
          recoveryFlight
  <1>0. /\ at["update"] = "prepare" /\ reply["update"] \notin {"waiting", "ok"}
        /\ UNCHANGED <<saved, collectionState, migrationError, wanted, missed>>
        /\ ~stopping
    BY DEF UpdatePrepared, historyVars, Obeys, Stops, Stopped
  <1>1. CASE /\ ready /\ Ask("update", "hello", "hello")
             /\ recoveryTimer' = FALSE
             /\ UNCHANGED <<collectorRecoveryNeeded, recoveryAttempts>>
    <2>0. ~collectorRecoveryNeeded
      BY <1>1 DEF ready
    <2>1. Turn("update", "hello", {"failed", "waiting"}) /\ Requests("update", "hello")
      BY <1>0, <1>1, Asked, AskRequests DEF Sends
    <2>2. Undisturbed("update") /\ NoNews
      BY <1>0, <2>1, TurnQuiet
    <2>3. Obeys' /\ (Healthy => Healthy')
      BY <1>0, <1>1, <2>0, <2>1, <2>2, ObeysKept DEF Turn
    <2>4. Health'
      BY <1>0, <2>0, <2>3 DEF Intent, Health, Updating
    <2>5. Base'
      BY <1>0, <2>1 DEF Turn, Intent, Base, Obtained, Resumed, Aside
    <2>6. Memory' /\ (Nothing => Nothing') /\ Timers'
      BY <1>0, <1>1, <2>0, <2>1 DEF Turn, Intent, Memory, Remembers, Nothing, Timers
    <2>7. Alone'
      BY <1>0, <2>1, <2>6, AloneKept DEF Turn, Intent, Alone, Obtained
    <2>8. QED
      BY <2>3, <2>4, <2>5, <2>6, <2>7 DEF Intent
  <1>2. CASE Stay("update", "idle") /\ UNCHANGED recoveryVars
    <2>1. Turn("update", "idle", {"none"}) /\ UNCHANGED procVars
      BY <1>0, <1>2, Stayed
    <2>2. Undisturbed("update") /\ NoNews /\ Requests("update", "snapshot")
      BY <1>0, <2>1, TurnQuiet DEF Requests
    <2>3. Obeys' /\ (Healthy => Healthy')
      BY <1>0, <1>2, <2>1, <2>2, ObeysKept DEF Turn, recoveryVars
    <2>4. Health'
      BY <1>0, <1>2, <2>1, <2>3
         DEF Turn, recoveryVars, Intent, Health, Updating, Blocked, Busy, mayTry
    <2>5. Base'
      BY <1>0, <2>1 DEF Turn, Intent, Base, Obtained, Resumed, Aside
    <2>6. Memory' /\ (Nothing => Nothing') /\ Timers'
      BY <1>0, <1>2, <2>1 DEF Turn, recoveryVars, Intent, Memory, Remembers, Nothing, Timers
    <2>7. Alone'
      BY <1>0, <2>1, <2>2, <2>6, AloneKept DEF Turn, Intent, Alone, Obtained
    <2>8. QED
      BY <2>3, <2>4, <2>5, <2>6, <2>7 DEF Intent
  <1>3. QED
    BY <1>0, <1>1, <1>2 DEF UpdatePrepared, stillReady

LEMMA UpdateLaunchedSettings ==
    ASSUME IInv, Obeys, Intent, UpdateLaunched
    PROVE  Obeys' /\ Intent'
  <1>0. /\ at["update"] = "launching" /\ reply["update"] # "waiting"
        /\ Remembers("update") /\ UNCHANGED <<saved, collectionState, recoveryVars, wanted>>
    BY FlowNames, Stands DEF UpdateLaunched, Resting, Remembers, historyVars
  <1>1. CASE Stay("update", "launched")
    <2>1. Turn("update", "launched", {"none"}) /\ UNCHANGED procVars
      BY <1>0, <1>1, Stayed, Stands, FlowNames, StateNames
    <2>2. QED
      BY <1>0, <2>1, UpdateStays DEF Stopped
  <1>2. CASE Recover
    BY <1>0, <1>2, RecoverSettings
  <1>3. QED
    BY <1>1, <1>2 DEF UpdateLaunched

LEMMA UpdateRecoveredSettings ==
    ASSUME IInv, Obeys, Intent, UpdateRecovered
    PROVE  Obeys' /\ Intent'
  <1>1. reply["update"] # "waiting" /\ UNCHANGED wanted
    BY Stands, FlowNames DEF UpdateRecovered, Resting, historyVars
  <1>2. QED
    BY <1>1, RecoverSettings DEF UpdateRecovered

\* The update is over, or was given up before anything was paused.
LEMMA EndUpdateSettings ==
    ASSUME IInv, Obeys, Intent, Stay("update", "idle"),
           \/ Got("update", {"restoring"}, {"ok"}) /\ UNCHANGED missed
           \/ Got("update", {"hello"}, {"failed"}) /\ missed' = collectorRecoveryNeeded,
           UNCHANGED <<saved, collectionState, recoveryVars, wanted>>
    PROVE  Obeys' /\ Intent'
  <1> USE FlowNames, StateNames, Stands
      DEF Got, Methods, Replies, migrationBusy, installingUpdate, startupSettled, recoveryFlight
  <1>0. /\ at["recovery"] = "idle" /\ at["startup"] = "idle" /\ at["import"] = "idle"
        /\ at["quit"] = "idle" /\ reply["page"] \notin {"held", "released"}
        /\ ~Remembers("import") /\ ~Resumed
        /\ reply["update"] # "waiting" /\ ~stopping
    BY UpdateAlone DEF Obeys, Stops, Stopped
  <1>1. Turn("update", "idle", {"none"}) /\ UNCHANGED procVars
    BY <1>0, Stayed
  <1>2. Undisturbed("update") /\ NoNews /\ Requests("update", "snapshot")
    BY <1>0, <1>1, TurnQuiet DEF Requests
  <1>3. Obeys' /\ (Healthy => Healthy')
    BY <1>0, <1>1, <1>2, ObeysKept DEF Turn, recoveryVars
  <1>4. Health'
    <2>1. CASE Got("update", {"restoring"}, {"ok"})
      <3>1. Healthy
        BY <2>1 DEF Obeys, Acknowledged, Setting, Sends
      <3>2. QED
        BY <1>3, <3>1 DEF Health
    <2>2. CASE Got("update", {"hello"}, {"failed"}) /\ missed' = collectorRecoveryNeeded
      BY <1>3, <2>2 DEF Intent, Health, Updating, Blocked, recoveryVars
    <2>3. QED
      BY <2>1, <2>2
  <1>5. Base'
    BY <1>0, <1>1 DEF Turn, Intent, Base, Obtained, Resumed, Aside
  <1>6. Memory' /\ (Nothing => Nothing') /\ Timers'
    BY <1>0, <1>1 DEF Turn, recoveryVars, Intent, Memory, Remembers, Nothing, Timers
  <1>7. Alone'
    BY <1>0, <1>1, <1>2, <1>6, AloneKept DEF Turn, Intent, Alone, Obtained
  <1>8. QED
    BY <1>3, <1>4, <1>5, <1>6, <1>7 DEF Intent

LEMMA UpdateContinues ==
    ASSUME IInv, Obeys, Intent, Update, UNCHANGED <<saved, collectionState, recoveryVars, wanted>>
    PROVE  Obeys' /\ Intent'
  <1> USE FlowNames, StateNames, Stands DEF Got, Methods
  <1>1. CASE Got("update", {"hello"}, {"ok"}) /\ Ask("update", "pause", "pausing")
    BY <1>1, UpdateSettings DEF Sends, Remembers, Obeys, Stops, Stopped
  <1>2. CASE Got("update", {"pausing"}, {"ok"}) /\ Shutdown("update")
    BY <1>2, ShutdownSettings
  <1>3. ASSUME NEW s \in {"launching", "protected"}, Stay("update", s),
               Got("update", {"shutdown", "exiting", "waiting", "apps", "restoring"},
                   {"ok", "refused", "failed"})
        PROVE  Obeys' /\ Intent'
    <2>1. Turn("update", s, {"none"}) /\ UNCHANGED procVars
      BY <1>3, Stayed
    <2>2. QED
      BY <1>3, <2>1, UpdateStays DEF Stopped, Remembers
  <1>4. CASE /\ Got("update", {"shutdown"}, {"ok"})
             /\ Await("update", "exiting") /\ UNCHANGED procVars
    <2>1. Turn("update", "exiting", {"waiting"})
      BY <1>4, Awaited DEF Resting
    <2>2. QED
      BY <1>4, <2>1, UpdateStays DEF Stopped, Remembers
  <1>5. CASE Got("update", {"pausing", "shutdown", "exiting"}, {"refused", "failed"}) /\ Recover
    BY <1>5, RecoverSettings
  <1>6. CASE Got("update", {"waiting"}, {"ok"}) /\ Restore
    <2>1. ~shutdownPending
      BY <1>6 DEF Obeys, Stops
    <2>2. QED
      BY <1>6, <2>1, RecoverSettings
  <1>7. CASE Got("update", {"apps"}, {"ok"}) /\ restore
    <2>1. ~stopping
      BY <1>7 DEF Obeys, Stops, Stopped
    <2>2. QED
      BY <1>7, <2>1, RecoverSettings
  <1>8. CASE /\ Stay("update", "idle")
             /\ \/ Got("update", {"restoring"}, {"ok"}) /\ UNCHANGED missed
                \/ Got("update", {"hello"}, {"failed"}) /\ missed' = collectorRecoveryNeeded
    BY <1>8, EndUpdateSettings
  <1>9. QED
    BY <1>1, <1>2, <1>3, <1>4, <1>5, <1>6, <1>7, <1>8 DEF Update

LEMMA QuitAsksSettings ==
    ASSUME IInv, Obeys, Intent, QuitAsks
    PROVE  Obeys' /\ Intent'
  <1> USE FlowNames, StateNames, Stands
      DEF Methods, Replies, Resting, Idle, migrationBusy, installingUpdate, startupSettled,
          recoveryFlight
  <1>0. /\ at["quit"] = "idle" /\ reply["quit"] \notin {"waiting", "ok"}
        /\ UNCHANGED <<saved, collectionState, recoveryVars, wanted, missed>>
    BY DEF QuitAsks, Operation, historyVars
  <1>1. Turn("quit", "confirm", {reply["quit"]}) /\ UNCHANGED procVars
    BY <1>0, Stepped DEF QuitAsks
  <1>2. Undisturbed("quit") /\ NoNews /\ Requests("quit", "snapshot")
    BY <1>0, <1>1, TurnQuiet DEF Requests
  <1>3. Obeys' /\ (Healthy => Healthy')
    BY <1>0, <1>1, <1>2, ObeysKept DEF Turn, recoveryVars, Obeys, Stops
  <1>4. Health'
    BY <1>0, <1>1, <1>3 DEF Turn, recoveryVars, Intent, Health, Updating, Blocked, Busy
  <1>5. Base'
    BY <1>0, <1>1 DEF Turn, Intent, Base, Obtained, Resumed, Aside
  <1>6. Memory' /\ (Nothing => Nothing') /\ Timers'
    BY <1>0, <1>1 DEF Turn, recoveryVars, Intent, Memory, Remembers, Nothing, Timers
  <1>7. Alone'
    BY <1>0, <1>1, <1>2, <1>6, AloneKept DEF Turn, Intent, Alone, Obtained
  <1>8. QED
    BY <1>3, <1>4, <1>5, <1>6, <1>7 DEF Intent

LEMMA QuitAnswersSettings ==
    ASSUME IInv, Obeys, Intent, QuitAnswers, Regular'
    PROVE  Obeys' /\ Intent'
  <1> USE FlowNames, StateNames, Stands
      DEF Methods, Replies, Resting, Idle, migrationBusy, installingUpdate, startupSettled,
          recoveryFlight
  <1>0. /\ at["quit"] = "confirm" /\ reply["quit"] \notin {"waiting", "ok"}
        /\ UNCHANGED <<saved, collectionState, wanted, missed, migrationError>>
    BY DEF QuitAnswers, historyVars
  <1>1. CASE /\ Stay("quit", "idle")
             /\ UNCHANGED <<collectorRecoveryNeeded, recoveryAttempts>>
             /\ scheduleCollectorRecovery
    <2>1. Turn("quit", "idle", {"none"}) /\ UNCHANGED procVars
      BY <1>0, <1>1, Stayed
    <2>2. Undisturbed("quit") /\ NoNews /\ Requests("quit", "snapshot")
      BY <1>0, <2>1, TurnQuiet DEF Requests
    <2>3. Obeys' /\ (Healthy => Healthy')
      BY <1>0, <1>1, <2>1, <2>2, ObeysKept DEF Turn, Obeys, Stops
    <2>4. Health'
      BY <1>0, <1>1, <2>1, <2>3, Scheduled DEF Turn, Obeys, Intent, Health, Updating
    <2>5. Base'
      BY <1>0, <2>1 DEF Turn, Intent, Base, Obtained, Resumed, Aside
    <2>6. Memory' /\ (Nothing => Nothing') /\ Timers'
      BY <1>0, <1>1, <2>1
         DEF Turn, Intent, Memory, Remembers, Nothing, Timers, scheduleCollectorRecovery
    <2>7. Alone'
      BY <1>0, <2>1, <2>2, <2>6, AloneKept DEF Turn, Intent, Alone, Obtained
    <2>8. QED
      BY <2>3, <2>4, <2>5, <2>6, <2>7 DEF Intent
  <1>2. CASE Stay("quit", "done")
    <2>1. Turn("quit", "done", {"none"})
      BY <1>0, <1>2, Stayed
    <2>2. QED
      BY <2>1 DEF Turn, Regular, quitting
  <1>3. CASE Shutdown("quit")
    <2>1. Turn("quit", "shutdown", {"waiting"})
      BY <1>0, <1>3, ShutDown
    <2>2. QED
      BY <2>1 DEF Turn, Regular, quitting
  <1>4. QED
    BY <1>0, <1>1, <1>2, <1>3 DEF QuitAnswers

-----------------------------------------------------------------------------
(* Recovery.                                                               *)

LEMMA BeginRecoverySettings ==
    ASSUME IInv, Obeys, Intent, NEW where, IsAt(where), NEW replies, IsReply(replies),
           \A g \in Flow : g # "page" => where[g] = at[g] /\ replies[g] = reply[g],
           \/ where["page"] = at["page"] /\ replies["page"] = reply["page"]
           \/ reply["page"] # "waiting" /\ replies["page"] = "held",
           replies["page"] \notin {"ok", "released"}, ~Obtained,
           BeginRecovery(where, replies), collectorRecoveryNeeded, ~late',
           UNCHANGED <<collectionState, migrationError, wanted, missed>>
    PROVE  Obeys' /\ Intent'
  <1>0. /\ at["startup"] = "idle" /\ at["import"] = "idle" /\ at["recovery"] = "idle"
        /\ at["update"] \in {"idle", "prepare"} /\ reply["recovery"] # "waiting"
        /\ ~stopping /\ collectorRecoveryNeeded' = collectorRecoveryNeeded
        /\ recoveryTimer' = FALSE
    BY FlowNames, Stands
       DEF BeginRecovery, canRecoverCollector, migrationBusy, installingUpdate, startupSettled,
           recoveryFlight, Resting, Obeys, Stops, Stopped
  <1>1. PICK s \in {"apps", "settings"}, m \in {"setAppCollection", "pause", "resume"} :
           /\ request("recovery", m, [where EXCEPT !["recovery"] = s], replies)
           /\ Sends("recovery", s, m)
           /\ m \in {"pause", "resume"} => m = setPaused(collectionState)
    BY DEF BeginRecovery, Sends, setPaused
  <1> DEFINE there == [where EXCEPT !["recovery"] = s]
  <1>2. /\ IsAt(there) /\ there["recovery"] = s
        /\ \A g \in Flow : g # "recovery" => there[g] = where[g]
    BY FlowNames, StateNames DEF IsAt
  <1>3. request("recovery", m, there, replies)
    BY <1>1
  <1> HIDE DEF there
  <1>4. Requests("recovery", m) /\ at' = there
    BY <1>3 DEF request, Requests
  <1>5. /\ reply'["recovery"] \in {"failed", "waiting"}
        /\ \A g \in Flow : g # "recovery" => reply'[g] = replies[g]
    <2>1. \E r \in {"failed", "waiting"} : reply' = [replies EXCEPT !["recovery"] = r]
      BY <1>3 DEF request
    <2>2. replies = [g \in Flow |-> replies[g]] /\ "recovery" \in Flow
      BY FlowNames DEF IsReply
    <2>3. QED
      BY <2>1, <2>2
  <1>6. /\ \A g \in Flow : g \notin {"page", "recovery"} => at'[g] = at[g] /\ reply'[g] = reply[g]
        /\ reply'["page"] = replies["page"] /\ at'["page"] = where["page"]
        /\ reply["page"] = "waiting" => reply'["page"] = "waiting" /\ at'["page"] = at["page"]
        /\ at'["recovery"] = s
    BY <1>2, <1>4, <1>5, FlowNames
  <1>7. /\ saved'["recovery"] = collectionState
        /\ \A g \in Flow : g # "recovery" => saved'[g] = saved[g]
    <2>1. saved \in [Flow -> BOOLEAN]
      BY Stands DEF Types, TypeOK
    <2>2. QED
      BY <2>1, FlowNames DEF BeginRecovery
  <1>8. Undisturbed("recovery")
    BY <1>0, <1>6 DEF Undisturbed
  <1>9. NoNews
    BY <1>5, <1>6 DEF NoNews
  <1>10. Obeys' /\ (Healthy => Healthy')
    <2>1. m \in Methods \ {"shutdown"} /\ m # "hello"
      BY DEF Methods
    <2>2. m \in {"pause", "resume"} => m = setPaused(saved'["recovery"])
      BY <1>1, <1>7
    <2>3. at'["update"] # "waiting"
      BY <1>0, <1>6, FlowNames
    <2>4. \A g \in Flow : reply[g] = "waiting" => saved'[g] = saved[g]
      BY <1>0, <1>7
    <2>5. QED
      BY <1>0, <1>4, <1>8, <1>9, <2>1, <2>2, <2>3, <2>4, ObeysKept, FlowNames
  <1>11. /\ at'["recovery"] = s /\ at'["startup"] = "idle" /\ at'["import"] = "idle"
         /\ at'["update"] = at["update"]
         /\ reply'["page"] \notin {"ok", "released"}
    BY <1>0, <1>6, FlowNames
  <1>12. Health'
    BY <1>0, <1>11 DEF Health, Blocked, Busy, recoveryFlight
  <1>13. Base'
    BY <1>0, <1>6, <1>11, FlowNames DEF Intent, Base, Obtained, Resumed, Aside
  <1>14. Memory'
    BY <1>0, <1>6, <1>7, <1>11, FlowNames DEF Intent, Memory, Remembers
  <1>15. Timers'
    BY <1>0 DEF Timers
  <1>16. Alone'
    <2>1. \A k \in DOMAIN calls : ~Sets(calls[k])
      BY DEF BeginRecovery, Sets
    <2>2. calls' = calls \/ Longer("recovery", m)
      BY <1>4, RequestCalls, Stands, FlowNames DEF Methods
    <2>3. \A k \in DOMAIN calls' : ~PageSets(calls'[k])
      <3>1. CASE calls' = calls
        BY <2>1, <3>1 DEF PageSets
      <3>2. CASE Longer("recovery", m)
        BY <2>1, <3>2, OneMore DEF PageSets, Longer
      <3>3. QED
        BY <2>2, <3>1, <3>2
    <2>4. QED
      BY <1>11, <2>3 DEF Alone, Obtained
  <1>17. QED
    BY <1>10, <1>12, <1>13, <1>14, <1>15, <1>16 DEF Intent

LEMMA RecoveryTimerSettings ==
    ASSUME IInv, Obeys, Intent, RecoveryTimer, Regular'
    PROVE  Obeys' /\ Intent'
  <1>0. /\ UNCHANGED <<collectionState, migrationError, wanted, missed, lost>>
        /\ collectorRecoveryNeeded /\ ~recoveryFlight
        /\ reply["page"] \notin {"ok", "released"} /\ ~Obtained
    BY FlowNames, Stands DEF RecoveryTimer, Idle, Intent, Timers, Obtained
  <1>1. CASE BeginRecovery(at, reply)
    BY <1>0, <1>1, TypesSplit, Stands, BeginRecoverySettings DEF Regular
  <1>2. CASE /\ ~(canRecoverCollector /\ mayTry)
             /\ recoveryTimer' = FALSE
             /\ UNCHANGED <<procVars, flowVars, collectorRecoveryNeeded, recoveryAttempts>>
    <2>1. Updating \/ Busy
      BY <1>2, Held DEF Obeys
    <2>2. Updating' \/ Busy'
      BY <1>0, <1>2, <2>1
         DEF Updating, Busy, flowVars, recoveryFlight, startupSettled, migrationBusy, mayTry
    <2>3. Health'
      BY <1>0, <1>2, <2>2 DEF Health, Blocked
    <2>4. Obeys'
      BY <1>0, <1>2
         DEF Obeys, Waited, Chain, Stops, Acknowledged, Restores, Read, Healthy, Linked, Sets,
             Answered, PageSets, procVars, flowVars
    <2>5. Base' /\ Memory' /\ Alone' /\ Timers'
      BY <1>0, <1>2
         DEF Intent, Base, Memory, Alone, Timers, Obtained, Resumed, Aside, Remembers, Nothing,
             PageSets, Sets, recoveryFlight, procVars, flowVars
    <2>6. QED
      BY <2>3, <2>4, <2>5 DEF Intent
  <1>3. QED
    BY <1>1, <1>2 DEF RecoveryTimer

LEMMA StableTimerSettings ==
    ASSUME IInv, Obeys, Intent, StableTimer
    PROVE  Obeys' /\ Intent'
  <1>0. /\ UNCHANGED <<procVars, collectionState, flowVars, migrationError,
                       collectorRecoveryNeeded, recoveryTimer, wanted, missed>>
        /\ collectorRecoveryNeeded => recoveryAttempts' = recoveryAttempts
    BY DEF StableTimer, historyVars
  <1>1. Obeys'
    BY <1>0
       DEF Obeys, Waited, Chain, Stops, Acknowledged, Restores, Read, Healthy, Linked, Sets,
           Answered, PageSets, procVars, flowVars
  <1>2. Base' /\ Memory' /\ Alone' /\ Timers'
    <2>1. Base'
      BY <1>0 DEF Intent, Base, Obtained, Resumed, Aside, flowVars
    <2>2. Memory' /\ Timers'
      BY <1>0 DEF Intent, Memory, Timers, Remembers, recoveryFlight, flowVars
    <2>3. Alone'
      BY <1>0
         DEF Intent, Alone, Obtained, Remembers, Nothing, PageSets, Sets, recoveryFlight, procVars,
             flowVars
    <2>4. QED
      BY <2>1, <2>2, <2>3
  <1>3. Health'
    BY <1>0
       DEF Intent, Health, Healthy, Linked, Sets, Answered, Updating, Blocked, Busy, recoveryFlight,
           startupSettled, migrationBusy, mayTry, procVars, flowVars
  <1>4. QED
    BY <1>1, <1>2, <1>3 DEF Intent

LEMMA EndRecoverySettings ==
    ASSUME IInv, Obeys, Intent, at["recovery"] # "idle", reply["recovery"] # "waiting",
           NEW answer \in {"failed", "released"}, EndRecovery(answer),
           \/ UNCHANGED <<collectorRecoveryNeeded, missed>>
           \/ collectorRecoveryNeeded' = FALSE /\ Healthy,
           UNCHANGED <<collectionState, saved, wanted>>
    PROVE  Obeys' /\ Intent'
  <1> DEFINE taken == Taken("recovery")
             told  == IF taken["page"] = "held" THEN answer ELSE taken["page"]
  <1>0. /\ at["startup"] = "idle" /\ at["import"] = "idle" /\ at["update"] \in {"idle", "prepare"}
        /\ collectorRecoveryNeeded /\ ~recoveryTimer /\ ~stopping
    BY DEF IInv, Flags, Apart, migrationBusy, installingUpdate, Intent, Timers, recoveryFlight,
           Obeys, Stops, Stopped
  <1>1. /\ IsAt(at) /\ IsReply(reply) /\ "recovery" \in Flow /\ "page" \in Flow
    BY Stands, TypesSplit, FlowNames
  <1>2. /\ at'["recovery"] = "idle" /\ \A g \in Flow : g # "recovery" => at'[g] = at[g]
    BY <1>1 DEF EndRecovery, Move, IsAt
  <1>3. /\ IsReply(taken) /\ taken["recovery"] = "none"
        /\ \A g \in Flow : g # "recovery" => taken[g] = reply[g]
    BY <1>1 DEF Taken, IsReply, Replies
  <1>4. /\ reply' = [taken EXCEPT !["page"] = told]
        /\ UNCHANGED <<procVars, recoveryAttempts, migrationError>>
        /\ scheduleCollectorRecovery
    BY DEF EndRecovery
  <1>5. told = IF reply["page"] = "held" THEN answer ELSE reply["page"]
    BY <1>1, <1>3
  <1> HIDE DEF taken, told
  <1>6. /\ reply'["page"] = told
        /\ \A g \in Flow : g # "page" => reply'[g] = taken[g]
    BY <1>1, <1>3, <1>4 DEF IsReply
  <1>7. Undisturbed("recovery") /\ NoNews
    BY <1>1, <1>2, <1>3, <1>5, <1>6 DEF Undisturbed, NoNews
  <1>8. /\ at'["startup"] = "idle" /\ at'["import"] = "idle" /\ at'["update"] = at["update"]
        /\ at'["page"] = at["page"] /\ (reply'["page"] = "ok" <=> reply["page"] = "ok")
        /\ reply'["update"] = reply["update"]
    BY <1>0, <1>1, <1>2, <1>3, <1>5, <1>6, FlowNames
  <1>9. Requests("recovery", "snapshot")
    BY <1>4 DEF Requests
  <1>10. Obeys' /\ (Healthy => Healthy')
    <2>1. "snapshot" \in Methods \ {"shutdown"}
      BY DEF Methods
    <2>2. \A g \in Flow : reply[g] = "waiting" => saved'[g] = saved[g]
      OBVIOUS
    <2>3. QED
      BY <1>0, <1>1, <1>7, <1>8, <1>9, <2>1, <2>2, ObeysKept
  <1>11. Health'
    <2>1. CASE collectorRecoveryNeeded'
      BY <1>4, <1>10, <2>1, Scheduled DEF Obeys, Health
    <2>2. CASE ~collectorRecoveryNeeded'
      BY <1>0, <1>10, <2>2 DEF Health
    <2>3. QED
      BY <2>1, <2>2
  <1>12. Base'
    BY <1>0, <1>8 DEF Intent, Base, Obtained, Resumed, Aside
  <1>13. Nothing' /\ Memory'
    BY <1>0, <1>2, <1>8 DEF Nothing, Memory, Remembers, recoveryFlight
  <1>14. Alone'
    BY <1>13 DEF Alone
  <1>15. Timers'
    BY <1>0, <1>2, <1>4 DEF Timers, scheduleCollectorRecovery, recoveryFlight
  <1>16. QED
    BY <1>10, <1>11, <1>12, <1>13, <1>14, <1>15 DEF Intent

LEMMA RecoveryContinues ==
    ASSUME IInv, Obeys, Intent, Recovery, UNCHANGED <<collectionState, saved, wanted>>
    PROVE  Obeys' /\ Intent'
  <1> USE FlowNames, StateNames, Stands DEF Got
  <1>1. CASE /\ Got("recovery", {"apps"}, {"ok"})
             /\ Ask("recovery", setPaused(saved["recovery"]), "settings")
             /\ UNCHANGED <<migrationError, recoveryVars, missed>>
    <2>0. /\ at["startup"] = "idle" /\ at["import"] = "idle"
          /\ at["update"] \in {"idle", "prepare"} /\ collectorRecoveryNeeded /\ ~stopping
      BY <1>1
         DEF IInv, Flags, Apart, migrationBusy, installingUpdate, Intent, Timers, recoveryFlight,
             Obeys, Stops, Stopped
    <2>1. PICK m \in {"pause", "resume"} : m = setPaused(saved["recovery"])
      BY DEF setPaused
    <2>2. Turn("recovery", "settings", {"failed", "waiting"}) /\ Requests("recovery", m)
      <3>1. Ask("recovery", m, "settings") /\ m \in Methods /\ Sends("recovery", "settings", m)
        BY <1>1, <2>1 DEF Sends, Methods
      <3>2. reply["recovery"] # "waiting" /\ "settings" \in States["recovery"]
        BY <1>1
      <3>3. QED
        BY <3>1, <3>2, Asked, AskRequests
    <2>3. Undisturbed("recovery") /\ NoNews
      BY <1>1, <2>2, TurnQuiet
    <2>4. Obeys' /\ (Healthy => Healthy')
      BY <1>1, <2>0, <2>1, <2>2, <2>3, ObeysKept DEF Turn, recoveryVars, Methods
    <2>5. Health'
      BY <1>1, <2>0, <2>2 DEF Turn, recoveryVars, Health, Blocked, Busy, recoveryFlight
    <2>6. Base'
      BY <2>0, <2>2 DEF Turn, Intent, Base, Obtained, Resumed, Aside
    <2>7. Memory' /\ (Nothing => Nothing') /\ Timers'
      BY <1>1, <2>0, <2>2
         DEF Turn, recoveryVars, Intent, Memory, Remembers, Nothing, Timers, recoveryFlight
    <2>8. Alone'
      <3>1. Obtained' \/ reply'["page"] = "released" => Nothing'
        BY <2>2, <2>7 DEF Turn, Intent, Alone, Obtained
      <3>2. QED
        BY <2>2, <2>7, <3>1, AloneKept DEF Intent, Methods
    <2>9. QED
      BY <2>4, <2>5, <2>6, <2>7, <2>8 DEF Intent
  <1>2. CASE /\ Got("recovery", {"apps", "settings"}, {"ok", "refused", "failed"})
             /\ UNCHANGED <<collectorRecoveryNeeded, missed>> /\ EndRecovery("failed")
    BY <1>2, EndRecoverySettings
  <1>3. CASE /\ Got("recovery", {"settings"}, {"ok"})
             /\ collectorRecoveryNeeded' = FALSE /\ EndRecovery("released")
    <2>1. Healthy
      BY <1>3 DEF Obeys, Acknowledged, Setting, Sends
    <2>2. QED
      BY <1>3, <2>1, EndRecoverySettings
  <1>4. QED
    BY <1>1, <1>2, <1>3 DEF Recovery

-----------------------------------------------------------------------------
(* The page.                                                               *)

\* The page is not kept waiting for what nobody will see to.
LEMMA PageHealth ==
    ASSUME Obeys, Intent, Healthy => Healthy', NEW s, NEW R, Turn("page", s, R),
           at["page"] = "dialog" /\ reply["page"] = "ok" /\ collectorRecoveryNeeded => Updating \/ Busy,
           UNCHANGED <<recoveryVars, migrationError, missed>>
    PROVE  Health'
  <1>1. \A g \in Flow : g # "page" => at'[g] = at[g]
    BY DEF Turn
  <1>2. (Updating => Updating') /\ (Busy => Busy')
    BY <1>1, FlowNames
       DEF Updating, Busy, recoveryVars, recoveryFlight, startupSettled, migrationBusy, mayTry
  <1>3. QED
    BY <1>2 DEF Intent, Health, Blocked, recoveryVars

\* The page asks the process, which it may be first to start again.
LEMMA PageRequests ==
    ASSUME IInv, Obeys, Intent, NEW method \in {"pause", "resume", "snapshot"},
           reply["page"] # "waiting", Ask("page", method, method),
           at["startup"] = "idle", at["update"] \in {"idle", "prepare"}, ~Obtained,
           method # "snapshot" => Nothing /\ at["import"] # "hello",
           at["page"] = "dialog" /\ reply["page"] = "ok" /\ collectorRecoveryNeeded => Updating \/ Busy,
           UNCHANGED <<collectionState, saved, migrationError, recoveryVars, wanted, missed>>
    PROVE  Obeys' /\ Intent'
  <1>1. /\ "page" \in Flow /\ method \in States["page"] /\ method \in Methods \ {"shutdown"}
        /\ Sends("page", method, method)
    BY FlowNames, StateNames DEF Sends, Methods
  <1>2. Turn("page", method, {"failed", "waiting"}) /\ Requests("page", method)
    BY <1>1, Stands, Asked, AskRequests
  <1>3. Undisturbed("page") /\ NoNews
    BY <1>1, <1>2, TurnQuiet
  <1>4. /\ \A g \in Flow : g # "page" => at'[g] = at[g] /\ reply'[g] = reply[g]
        /\ reply'["page"] \in {"failed", "waiting"} /\ at'["page"] = method
    BY <1>2 DEF Turn
  <1>5. Obeys' /\ (Healthy => Healthy')
    <2>1. /\ method # "hello" /\ ~(at'["page"] = "restoring")
          /\ method \in {"pause", "resume"} => at["import"] # "hello" /\ at["update"] # "hello"
      BY <1>4 DEF Methods
    <2>2. at'["update"] = at["update"] /\ reply'["update"] = reply["update"] /\ "update" \in Flow
      BY <1>4, FlowNames
    <2>3. ~stopping
      BY DEF Obeys, Stops, Stopped
    <2>4. QED
      BY <1>1, <1>2, <1>3, <2>1, <2>2, <2>3, ObeysKept DEF recoveryVars
  <1>6. Health'
    BY <1>2, <1>5, PageHealth
  <1>7. Base'
    BY <1>4, FlowNames DEF Intent, Base, Obtained, Resumed, Aside
  <1>8. Memory' /\ (Nothing => Nothing') /\ Timers'
    BY <1>4, FlowNames
       DEF recoveryVars, Intent, Memory, Remembers, Nothing, Timers, recoveryFlight
  <1>9. Alone'
    <2>1. ~(Obtained' \/ reply'["page"] = "released")
      BY <1>4 DEF Obtained
    <2>2. method \in {"pause", "resume"} => Nothing'
      BY <1>8
    <2>3. QED
      BY <1>1, <1>2, <1>8, <2>1, <2>2, Stands, AloneKept DEF Intent
  <1>10. QED
    BY <1>5, <1>6, <1>7, <1>8, <1>9 DEF Intent

\* The page is told, or waits for a recovery or for its user.
LEMMA PageTurns ==
    ASSUME IInv, Obeys, Intent, NEW s \in States["page"], NEW R, Turn("page", s, R),
           reply["page"] # "waiting", reply'["page"] \notin {"ok", "released"},
           UNCHANGED <<procVars, collectionState, saved, migrationError, recoveryVars, missed>>,
           \/ UNCHANGED wanted /\ ~Obtained
           \/ Obtained /\ wanted' = (at["page"] = "pause"),
           at["page"] = "dialog" /\ reply["page"] = "ok" /\ collectorRecoveryNeeded => Updating \/ Busy
    PROVE  Obeys' /\ Intent'
  <1>1. /\ \A g \in Flow : g # "page" => at'[g] = at[g] /\ reply'[g] = reply[g]
        /\ "page" \in Flow /\ "update" \in Flow /\ "snapshot" \in Methods \ {"shutdown"}
    BY FlowNames DEF Turn, Methods
  <1>2. Undisturbed("page") /\ NoNews /\ Requests("page", "snapshot")
    BY <1>1 DEF Undisturbed, NoNews, Requests
  <1>3. Obeys' /\ (Healthy => Healthy')
    <2>1. at'["update"] = at["update"] /\ reply'["update"] = reply["update"]
      BY <1>1
    <2>2. stopping => at'["update"] \in Stopped
      BY <2>1 DEF Obeys, Stops
    <2>3. QED
      BY <1>1, <1>2, <2>1, <2>2, ObeysKept DEF recoveryVars
  <1>4. Health'
    BY <1>3, PageHealth
  <1>5. Base'
    BY <1>1, FlowNames, Stands
       DEF Intent, Base, Obtained, Resumed, Aside, Types, TypeOK
  <1>6. (Nothing => Nothing') /\ Timers' /\ Memory'
    <2>1. (Nothing => Nothing') /\ Timers'
      BY <1>1, FlowNames DEF recoveryVars, Intent, Remembers, Nothing, Timers, recoveryFlight
    <2>2. Memory'
      BY <1>1, FlowNames
         DEF recoveryVars, Intent, Memory, Alone, Remembers, Nothing, recoveryFlight
    <2>3. QED
      BY <2>1, <2>2
  <1>7. Alone'
    <2>1. ~(Obtained' \/ reply'["page"] = "released")
      BY DEF Obtained
    <2>2. QED
      BY <1>1, <1>2, <1>6, <2>1, Stands, AloneKept DEF Intent
  <1>8. QED
    BY <1>3, <1>4, <1>5, <1>6, <1>7 DEF Intent

LEMMA RequestBackendSettings ==
    ASSUME IInv, Obeys, Intent, NEW method \in {"pause", "resume", "snapshot"},
           at["page"] \in {"idle", "dialog"}, reply["page"] # "waiting",
           at["startup"] = "idle", at["update"] \in {"idle", "prepare"},
           method # "snapshot" => at["import"] = "idle",
           requestBackend(method), ~late',
           UNCHANGED <<collectionState, migrationError, wanted, missed>>
    PROVE  Obeys' /\ Intent'
  <1> USE Stands
  <1>1. /\ "page" \in Flow /\ method \in States["page"] /\ "idle" \in States["page"]
        /\ "held" \in Replies /\ ~Obtained
    BY FlowNames, StateNames DEF Replies, Obtained
  <1> DEFINE where   == Move("page", method)
             replies == [reply EXCEPT !["page"] = "held"]
  <1>2. /\ IsAt(where) /\ where["page"] = method
        /\ \A g \in Flow : g # "page" => where[g] = at[g]
    BY <1>1, TypesSplit DEF IsAt, Move
  <1>3. /\ IsReply(replies) /\ replies["page"] = "held"
        /\ \A g \in Flow : g # "page" => replies[g] = reply[g]
    BY <1>1, TypesSplit DEF IsReply
  <1>4. CASE collectorRecoveryNeeded /\ BeginRecovery(Move("page", method), [reply EXCEPT !["page"] = "held"])
    <2>1. BeginRecovery(where, replies)
      BY <1>4
    <2> HIDE DEF where, replies
    <2>2. QED
      BY <1>1, <1>2, <1>3, <1>4, <2>1, BeginRecoverySettings
  <1>5. CASE ~(collectorRecoveryNeeded /\ canRecoverCollector /\ ~recoveryFlight /\ mayTry)
    <2>1. collectorRecoveryNeeded => Updating \/ Busy
      BY <1>5, Held DEF Obeys
    <2>2. CASE /\ recoveryFlight /\ at' = Move("page", method)
               /\ reply' = [reply EXCEPT !["page"] = "held"]
               /\ UNCHANGED <<procVars, recoveryVars, saved>>
      <3>1. at' = where /\ reply' = replies
        BY <2>2
      <3> HIDE DEF where, replies
      <3>2. Turn("page", method, {"held"}) /\ reply'["page"] \notin {"ok", "released"}
        BY <1>2, <1>3, <3>1 DEF Turn
      <3>3. QED
        BY <1>1, <2>1, <2>2, <3>2, PageTurns
    <2>3. CASE Stay("page", "idle") /\ UNCHANGED <<recoveryVars, saved>>
      <3>1. Turn("page", "idle", {"none"}) /\ UNCHANGED procVars /\ reply'["page"] = "none"
        BY <1>1, <2>3, Stayed DEF Turn
      <3>2. QED
        BY <1>1, <2>1, <2>3, <3>1, PageTurns
    <2>4. CASE ~recoveryFlight /\ Ask("page", method, method) /\ UNCHANGED <<recoveryVars, saved>>
      <3>1. method # "snapshot" => Nothing /\ at["import"] # "hello"
        BY <2>4 DEF Nothing, Remembers
      <3>2. QED
        BY <1>1, <2>1, <2>4, <3>1, PageRequests
    <2>5. QED
      BY <1>5, <2>2, <2>3, <2>4 DEF requestBackend
  <1>6. QED
    BY <1>4, <1>5 DEF requestBackend

LEMMA PageAsksSettings ==
    ASSUME IInv, Obeys, Intent, PageAsks, Regular'
    PROVE  Obeys' /\ Intent'
  <1> USE FlowNames, StateNames, Stands
  <1>0. /\ at["page"] = "idle" /\ reply["page"] \notin {"ok", "released", "waiting"}
        /\ at["startup"] = "idle" /\ at["update"] \in {"idle", "prepare"} /\ ~Obtained
        /\ UNCHANGED <<collectionState, migrationError, wanted, missed>> /\ ~late'
    BY DEF PageAsks, Operation, Idle, Resting, startupSettled, installingUpdate, Obtained, Regular
  <1>1. CASE /\ at' = Move("page", "dialog")
             /\ UNCHANGED <<procVars, reply, saved, recoveryVars>>
    <2>1. Turn("page", "dialog", {reply["page"]}) /\ reply'["page"] \notin {"ok", "released"}
      BY <1>0, <1>1, Stepped
    <2>2. QED
      BY <1>0, <1>1, <2>1, PageTurns
  <1>2. ASSUME NEW method \in {"pause", "resume", "snapshot"}, requestBackend(method),
               method # "snapshot" => ~migrationBusy
        PROVE  Obeys' /\ Intent'
    BY <1>0, <1>2, RequestBackendSettings DEF migrationBusy
  <1>3. QED
    BY <1>1, <1>2 DEF PageAsks

LEMMA PageAnswersSettings ==
    ASSUME IInv, Obeys, Intent, PageAnswers
    PROVE  Obeys' /\ Intent'
  <1>0. /\ at["page"] = "dialog" /\ reply["page"] \notin {"ok", "waiting"} /\ ~Obtained
        /\ reply' = [reply EXCEPT !["page"] = "ok"]
        /\ \/ at' = Move("page", "idle") /\ UNCHANGED migrationError
           \/ UNCHANGED at
        /\ UNCHANGED <<procVars, collectionState, saved, recoveryVars, wanted, missed>>
    BY FlowNames, Stands DEF PageAnswers, Idle, Resting, Obtained, historyVars
  <1>1. /\ \A g \in Flow : g # "page" => at'[g] = at[g] /\ reply'[g] = reply[g]
        /\ "page" \in Flow /\ "update" \in Flow /\ "snapshot" \in Methods \ {"shutdown"}
        /\ reply'["page"] = "ok"
        /\ \/ at'["page"] = "idle" /\ UNCHANGED migrationError
           \/ at'["page"] = "dialog"
    <2>1. IsAt(at) /\ IsReply(reply)
      BY Stands, TypesSplit
    <2>2. QED
      BY <1>0, <2>1, FlowNames DEF IsAt, IsReply, Move, Methods
  <1>2. Undisturbed("page") /\ Requests("page", "snapshot")
    BY <1>0, <1>1 DEF Undisturbed, Requests
  <1>3. NoNews
    <2>1. ~Setting("page", at'["page"])
      BY <1>1 DEF Setting, Sends
    <2>2. QED
      BY <1>1, <2>1 DEF NoNews
  <1>4. Obeys' /\ (Healthy => Healthy')
    <2>1. at'["update"] = at["update"] /\ reply'["update"] = reply["update"]
      BY <1>1
    <2>2. stopping => at'["update"] \in Stopped
      BY <2>1 DEF Obeys, Stops
    <2>3. QED
      BY <1>0, <1>1, <1>2, <1>3, <2>1, <2>2, ObeysKept DEF recoveryVars
  <1>5. Health'
    <2>1. Updating => Updating'
      BY <1>1, FlowNames DEF Updating
    <2>2. Blocked => Blocked'
      BY <1>0, <1>1, FlowNames
         DEF Blocked, Busy, recoveryVars, recoveryFlight, startupSettled, migrationBusy, mayTry
    <2>3. QED
      BY <1>0, <1>4, <2>1, <2>2 DEF Intent, Health, recoveryVars
  <1>6. Base'
    BY <1>0, <1>1, FlowNames DEF Intent, Base, Obtained, Resumed, Aside
  <1>7. (Nothing => Nothing') /\ Timers' /\ Memory'
    BY <1>0, <1>1, FlowNames
       DEF recoveryVars, Intent, Memory, Remembers, Nothing, Timers, recoveryFlight
  <1>8. Alone'
    <2>1. ~(Obtained' \/ reply'["page"] = "released")
      BY <1>1 DEF Obtained
    <2>2. QED
      BY <1>1, <1>2, <1>7, <2>1, Stands, AloneKept DEF Intent
  <1>9. QED
    BY <1>4, <1>5, <1>6, <1>7, <1>8 DEF Intent

LEMMA PageContinues ==
    ASSUME IInv, Obeys, Intent, Page, Regular, Regular',
           UNCHANGED <<collectionState, migrationError, missed>>
    PROVE  Obeys' /\ Intent'
  <1> USE FlowNames, StateNames, Stands
  <1>1. CASE Got("page", {"dialog"}, {"ok"}) /\ UNCHANGED wanted
    <2>0. /\ at["page"] = "dialog" /\ reply["page"] = "ok" /\ ~Obtained
          /\ at["startup"] = "idle" /\ at["import"] = "idle"
      BY <1>1 DEF Got, Obtained, IInv, Flags, Apart, migrationBusy
    <2>1. CASE installingUpdate /\ Stay("page", "idle") /\ UNCHANGED <<saved, recoveryVars>>
      <3>1. Turn("page", "idle", {"none"}) /\ UNCHANGED procVars /\ reply'["page"] = "none"
        BY <2>0, <2>1, Stayed DEF Turn
      <3>2. Updating \/ Busy
        BY <2>1 DEF installingUpdate, Updating, Busy
      <3>3. QED
        BY <1>1, <2>0, <2>1, <3>1, <3>2, PageTurns
    <2>2. CASE ~installingUpdate /\ requestBackend("resume")
      <3>1. at["update"] \in {"idle", "prepare"} /\ ~late'
        BY <2>2 DEF installingUpdate, Regular
      <3>2. QED
        BY <1>1, <2>0, <2>2, <3>1, RequestBackendSettings
    <2>3. ~quitting
      BY DEF Regular
    <2>4. QED
      BY <2>0, <2>1, <2>2, <2>3 DEF Page, Got
  <1>2. CASE /\ Got("page", {"pause", "resume", "snapshot"}, {"released"})
             /\ Ask("page", at["page"], at["page"])
             /\ UNCHANGED <<saved, recoveryVars, wanted>>
    <2>1. /\ at["startup"] = "idle" /\ at["update"] \in {"idle", "prepare"} /\ at["import"] = "idle"
          /\ ~Obtained /\ Nothing
      BY <1>2
         DEF Got, Obtained, IInv, Flags, Apart, migrationBusy, installingUpdate, Intent, Alone
    <2>2. at["page"] \in {"pause", "resume", "snapshot"} /\ reply["page"] = "released"
      BY <1>2 DEF Got
    <2>3. QED
      BY <1>2, <2>1, <2>2, PageRequests
  <1>3. CASE /\ Got("page", {"idle", "pause", "resume", "snapshot"}, {"ok", "failed"})
             /\ Stay("page", "idle")
             /\ wanted' = IF reply["page"] = "ok" /\ at["page"] \in {"pause", "resume"}
                          THEN at["page"] = "pause" ELSE wanted
             /\ UNCHANGED <<saved, recoveryVars>>
    <2>1. Turn("page", "idle", {"none"}) /\ UNCHANGED procVars /\ reply'["page"] = "none"
      BY <1>3, Stayed DEF Turn, Got
    <2>2. at["page"] # "dialog" /\ reply["page"] # "waiting"
      BY <1>3 DEF Got
    <2>3. \/ UNCHANGED wanted /\ ~Obtained
          \/ Obtained /\ wanted' = (at["page"] = "pause")
      BY <1>3 DEF Obtained
    <2>4. QED
      BY <1>3, <2>1, <2>2, <2>3, PageTurns
  <1>4. QED
    BY <1>1, <1>2, <1>3 DEF Page

-----------------------------------------------------------------------------
(* The process answers, the answers arrive.                                *)

\* One request is answered, with what the process has been told up to it.
HandledAt(k, answer) ==
    /\ proc = "running"
    /\ calls[k].answer = "none"
    /\ \A j \in DOMAIN calls : j < k => calls[j].answer # "none"
    /\ \A j \in DOMAIN calls : j > k => calls[j].answer = "none"
    /\ calls[k].method = "pause" => procPaused'
    /\ calls[k].method = "resume" => ~procPaused'
    /\ ~Sets(calls[k]) => procPaused' = procPaused
    /\ Sets(calls[k]) => answer = "ok"
    /\ proc' = IF calls[k].method = "shutdown" /\ answer = "ok" THEN "leaving" ELSE proc
    /\ DOMAIN calls' = DOMAIN calls /\ Len(calls') = Len(calls)
    /\ calls'[k].answer = answer /\ calls'[k].paused = procPaused'
    /\ \A j \in DOMAIN calls :
          /\ calls'[j].by = calls[j].by /\ calls'[j].method = calls[j].method
          /\ calls'[j].heard = calls[j].heard
          /\ j # k => calls'[j] = calls[j]

LEMMA Handled ==
    ASSUME IInv, Handle
    PROVE  \E k \in DOMAIN calls, answer \in {"ok", "refused"} : HandledAt(k, answer)
  <1>1. PICK k \in DOMAIN calls, answer \in {"ok", "refused"} :
           /\ calls[k].answer = "none"
           /\ \A j \in 1 .. k - 1 : calls[j].answer # "none"
           /\ procPaused' = CASE calls[k].method = "pause"  -> TRUE
                              [] calls[k].method = "resume" -> FALSE
                              [] OTHER -> procPaused
           /\ answer = "refused" =>
                 calls[k].method \in {"importLegacy", "setAppCollection", "shutdown"}
           /\ calls' = [calls EXCEPT ![k].answer = answer, ![k].paused = procPaused']
           /\ proc' = IF calls[k].method = "shutdown" /\ answer = "ok"
                      THEN "leaving" ELSE proc
    BY DEF Handle
  <1>2. Queue /\ calls \in Seq(Call) /\ calls[k] \in Call /\ procPaused \in BOOLEAN
    BY Stands, CallTypes DEF Types, TypeOK
  <1>3. procPaused' \in BOOLEAN
    BY <1>1, <1>2
  <1> DEFINE c == [calls[k] EXCEPT !.answer = answer, !.paused = procPaused']
  <1>4. /\ c \in Call /\ c.by = calls[k].by /\ c.method = calls[k].method
        /\ c.heard = calls[k].heard /\ c.answer = answer /\ c.paused = procPaused'
    BY <1>2, <1>3 DEF Call
  <1>5. calls' = [calls EXCEPT ![k] = c]
    BY <1>1
  <1> HIDE DEF c
  <1>6. /\ DOMAIN calls' = DOMAIN calls /\ DOMAIN calls \subseteq Nat /\ Len(calls') = Len(calls)
        /\ \A j \in DOMAIN calls : calls'[j] = IF j = k THEN c ELSE calls[j]
    BY <1>2, <1>4, <1>5
  <1>7. \A j \in DOMAIN calls : j < k => calls[j].answer # "none"
    BY <1>1, <1>2
  <1>8. \A j \in DOMAIN calls : j > k => calls[j].answer = "none"
    BY <1>1, <1>2 DEF Queue, Ordered
  <1>9. HandledAt(k, answer)
    BY <1>1, <1>4, <1>6, <1>7, <1>8 DEF HandledAt, Handle, Sets
  <1>10. QED
    BY <1>9

LEMMA HandleSettings ==
    ASSUME IInv, Obeys, Intent, Handle
    PROVE  Obeys' /\ Intent'
  <1>1. PICK k \in DOMAIN calls, answer \in {"ok", "refused"} : HandledAt(k, answer)
    BY Handled
  <1>2. /\ UNCHANGED <<stopping, shutdownPending, collectionState, at, reply, saved,
                       migrationError, recoveryVars, wanted, missed>>
        /\ \A f \in Flow : reply[f] # "ok"
    BY DEF Handle, flowVars, historyVars, Idle
  <1>3. /\ DOMAIN calls = 1 .. Len(calls) /\ Len(calls) \in Nat /\ k \in Nat /\ k >= 1
        /\ calls # <<>> /\ calls' # <<>>
    <2>1. calls \in Seq(Call)
      BY Stands DEF Types, TypeOK
    <2>2. DOMAIN calls' # {}
      BY <1>1 DEF HandledAt
    <2>3. QED
      BY <2>1, <2>2
  <1>4. Chain'
    <2> SUFFICES ASSUME NEW j \in DOMAIN calls, Answered(calls'[j])
                 PROVE  /\ Sets(calls'[j]) => calls'[j].answer = "ok"
                        /\ calls'[j].method = "pause" => calls'[j].paused
                        /\ calls'[j].method = "resume" => ~calls'[j].paused
                        /\ j > 1 /\ ~Sets(calls'[j]) => calls'[j].paused = calls'[j - 1].paused
                        /\ (j < Len(calls') => ~Answered(calls'[j + 1]))
                               => procPaused' = calls'[j].paused
      BY <1>1 DEF Chain, HandledAt
    <2>1. CASE j = k
      <3>1. j > 1 /\ ~Sets(calls'[j]) => calls'[j].paused = calls'[j - 1].paused
        <4>1. SUFFICES ASSUME k > 1, ~Sets(calls[k])
                       PROVE  procPaused' = calls'[k - 1].paused
          BY <1>1, <2>1 DEF HandledAt, Sets
        <4>2. k - 1 \in DOMAIN calls /\ k - 1 < k /\ k - 1 # k /\ k = (k - 1) + 1
          BY <1>3, <4>1
        <4>3. Answered(calls[k - 1]) /\ ~Answered(calls[k]) /\ calls'[k - 1] = calls[k - 1]
          BY <1>1, <4>2 DEF HandledAt, Answered
        <4>4. procPaused = calls[k - 1].paused
          BY <4>2, <4>3 DEF Obeys, Chain
        <4>5. QED
          BY <1>1, <4>1, <4>3, <4>4 DEF HandledAt
      <3>2. QED
        BY <1>1, <2>1, <3>1 DEF HandledAt, Sets
    <2>2. CASE j # k
      <3>1. calls'[j] = calls[j] /\ Answered(calls[j]) /\ j < k
        BY <1>1, <1>3, <2>2 DEF HandledAt, Answered
      <3>2. j + 1 <= k /\ j + 1 \in DOMAIN calls /\ j < Len(calls)
        BY <1>3, <3>1
      <3>3. Answered(calls'[j + 1])
        BY <1>1, <1>3, <3>2 DEF HandledAt, Answered
      <3>4. /\ Sets(calls[j]) => calls[j].answer = "ok"
            /\ calls[j].method = "pause" => calls[j].paused
            /\ calls[j].method = "resume" => ~calls[j].paused
            /\ j > 1 /\ ~Sets(calls[j]) => calls[j].paused = calls[j - 1].paused
        BY <3>1 DEF Obeys, Chain
      <3>5. j > 1 => calls'[j - 1] = calls[j - 1]
        <4>1. j > 1 => j - 1 \in DOMAIN calls /\ j - 1 # k
          BY <1>3, <3>1
        <4>2. QED
          BY <1>1, <4>1 DEF HandledAt
      <3>6. Len(calls') = Len(calls)
        BY <1>1 DEF HandledAt
      <3>7. QED
        BY <3>1, <3>2, <3>3, <3>4, <3>5, <3>6 DEF Sets
    <2>3. QED
      BY <2>1, <2>2
  <1>5. Linked => Linked'
    <2>1. CASE k = 1
      BY <1>1, <1>2, <1>3, <2>1 DEF Linked, HandledAt, Answered, Sets
    <2>2. CASE k # 1
      <3>1. 1 \in DOMAIN calls /\ 1 < k
        BY <1>3, <2>2
      <3>2. calls'[1] = calls[1] /\ Answered(calls[1])
        BY <1>1, <3>1 DEF HandledAt, Answered
      <3>3. QED
        BY <1>2, <1>3, <3>2 DEF Linked
    <2>3. QED
      BY <2>1, <2>2
  <1>6. Healthy => Healthy'
    BY <1>1, <1>5 DEF Healthy, HandledAt
  <1>7. Waited' /\ Restores' /\ Read'
    BY <1>1, <1>2 DEF HandledAt, Obeys, Waited, Restores, Read, Sets, PageSets, recoveryVars
  <1>8. Stops'
    <2>1. \A j \in DOMAIN calls' : calls'[j].method = "shutdown" =>
             /\ shutdownPending
             /\ proc' = "leaving" => calls'[j].answer = "ok"
             /\ \A i \in DOMAIN calls' : calls'[i].method = "shutdown" => i = j
      BY <1>1 DEF HandledAt, Obeys, Stops
    <2>2. /\ proc' # "none" /\ proc # "none"
          /\ proc' = "leaving" => shutdownPending
      BY <1>1 DEF HandledAt, Obeys, Stops
    <2>3. QED
      BY <1>2, <2>1, <2>2, FlowNames DEF Obeys, Stops
  <1>9. Acknowledged'
    BY <1>2 DEF Acknowledged
  <1>10. Health'
    BY <1>2, <1>6
       DEF Intent, Health, Updating, Blocked, Busy, recoveryVars, recoveryFlight, startupSettled,
           migrationBusy, mayTry
  <1>11. Base' /\ Memory' /\ Timers'
    BY <1>2
       DEF Intent, Base, Memory, Timers, Obtained, Resumed, Aside, Remembers, recoveryFlight,
           recoveryVars
  <1>12. Alone'
    BY <1>1, <1>2
       DEF HandledAt, Intent, Alone, Obtained, Nothing, Remembers, PageSets, Sets, recoveryFlight
  <1>13. QED
    BY <1>4, <1>7, <1>8, <1>9, <1>10, <1>11, <1>12 DEF Obeys, Intent

\* The host hears the first answer.
Delivered(f, c) ==
    /\ 1 \in DOMAIN calls /\ calls # <<>> /\ calls[1] = c /\ c.by = f /\ f \in Flow
    /\ c.answer \in {"ok", "refused"} /\ Answered(c)
    /\ Len(calls) \in Nat /\ DOMAIN calls = 1 .. Len(calls)
    /\ DOMAIN calls' = 1 .. Len(calls) - 1 /\ Len(calls') = Len(calls) - 1
    /\ calls' # <<>> => 1 \in DOMAIN calls'
    /\ \A k \in DOMAIN calls' : k + 1 \in DOMAIN calls /\ k + 1 # 1 /\ calls'[k] = calls[k + 1]
    /\ c.heard => reply[f] = "waiting" /\ Sends(f, at[f], c.method)
    /\ reply'[f] = IF c.heard THEN c.answer ELSE reply[f]
    /\ \A g \in Flow : reply[g] # "ok" /\ (g # f => reply'[g] = reply[g])
    /\ collectionState' = IF c.heard /\ Sets(c) THEN c.paused ELSE collectionState
    /\ c.heard /\ c.method = "hello" => saved'[f] = c.paused
    /\ \A g \in Flow : g # f \/ ~(c.heard /\ c.method = "hello") => saved'[g] = saved[g]
    /\ IF f = "update" /\ c.heard /\ c.method = "shutdown" /\ c.answer = "refused"
       THEN ~shutdownPending' /\ ~stopping'
       ELSE UNCHANGED <<shutdownPending, stopping>>
    /\ UNCHANGED <<proc, procPaused, at, migrationError, recoveryVars, wanted, missed>>

LEMMA Delivering ==
    ASSUME IInv, Deliver
    PROVE  Delivered(Head(calls).by, Head(calls))
  <1> DEFINE c == Head(calls)
             f == c.by
  <1>1. /\ calls # <<>> /\ c.answer # "none" /\ calls' = Tail(calls)
        /\ reply' = IF c.heard THEN [reply EXCEPT ![f] = c.answer] ELSE reply
        /\ collectionState' = IF c.heard /\ Sets(c) THEN c.paused ELSE collectionState
        /\ saved' = IF c.heard /\ c.method = "hello" THEN [saved EXCEPT ![f] = c.paused] ELSE saved
        /\ IF f = "update" /\ c.heard /\ c.method = "shutdown" /\ c.answer = "refused"
           THEN ~shutdownPending' /\ ~stopping'
           ELSE UNCHANGED <<shutdownPending, stopping>>
        /\ UNCHANGED <<proc, procPaused, at, migrationError, recoveryVars, wanted, missed>>
    BY DEF Deliver, Sets, historyVars
  <1>2. Types /\ Queue /\ calls \in Seq(Call) /\ IsReply(reply) /\ saved \in [Flow -> BOOLEAN]
    BY Stands, TypesSplit DEF ProcTypes, Others
  <1>3. /\ c = calls[1] /\ 1 \in DOMAIN calls
        /\ DOMAIN calls = 1 .. Len(calls) /\ Len(calls) \in Nat
        /\ DOMAIN calls' = 1 .. Len(calls) - 1
        /\ \A k \in DOMAIN calls' : k + 1 \in DOMAIN calls /\ calls'[k] = calls[k + 1]
    BY <1>1, <1>2, Tailed
  <1>4. Len(calls') = Len(calls) - 1 /\ (calls' # <<>> => 1 \in DOMAIN calls')
    <2>1. calls' \in Seq(Call)
      BY <1>1, <1>2, Tailed
    <2>2. QED
      BY <1>1, <1>2, <2>1
  <1>5. \A k \in DOMAIN calls' : k + 1 # 1
    BY <1>3
  <1>6. f \in Flow /\ c.answer \in {"ok", "refused"}
    BY <1>1, <1>2, <1>3, CallTypes
  <1>7. c.heard => reply[f] = "waiting" /\ Sends(f, at[f], c.method)
    BY <1>2, <1>3 DEF Queue, Heard
  <1>8. \A g \in Flow : reply[g] # "ok"
    BY DEF Deliver, Idle
  <1> HIDE DEF f, c
  <1>9. /\ reply'[f] = IF c.heard THEN c.answer ELSE reply[f]
        /\ \A g \in Flow : g # f => reply'[g] = reply[g]
    BY <1>1, <1>2, <1>6 DEF IsReply
  <1>10. /\ c.heard /\ c.method = "hello" => saved'[f] = c.paused
         /\ \A g \in Flow : g # f \/ ~(c.heard /\ c.method = "hello") => saved'[g] = saved[g]
    BY <1>1, <1>2, <1>6
  <1>11. c.by = f
    BY DEF f
  <1>12. Answered(c)
    BY <1>1 DEF Answered
  <1>13. Delivered(f, c)
    BY <1>1, <1>3, <1>4, <1>5, <1>6, <1>7, <1>8, <1>9, <1>10, <1>11, <1>12 DEF Delivered
  <1>14. QED
    BY <1>13 DEF f, c

\* The host believes what the next answer will be about.
LEMMA DeliverChain ==
    ASSUME IInv, Obeys, NEW f, NEW c, Delivered(f, c)
    PROVE  /\ Chain' /\ proc # "none" /\ (Sets(c) => c.heard /\ c.answer = "ok")
           /\ c.method = "pause" => c.paused
           /\ c.method = "resume" => ~c.paused
           /\ Sets(c) \/ Linked => Linked'
  <1>1. /\ proc # "none" /\ proc' = proc /\ procPaused' = procPaused
        /\ Len(calls) \in Nat /\ DOMAIN calls = 1 .. Len(calls)
        /\ DOMAIN calls' = 1 .. Len(calls) - 1 /\ Len(calls') = Len(calls) - 1
        /\ \A k \in DOMAIN calls' : k + 1 \in DOMAIN calls /\ k + 1 # 1 /\ calls'[k] = calls[k + 1]
    BY DEF Delivered, Obeys, Chain
  <1>2. /\ Sets(c) => c.heard /\ c.answer = "ok"
        /\ c.method = "pause" => c.paused
        /\ c.method = "resume" => ~c.paused
        /\ (1 < Len(calls) => ~Answered(calls[1 + 1])) => procPaused = c.paused
    BY DEF Delivered, Obeys, Chain, Waited
  <1>3. Chain'
    <2> SUFFICES ASSUME NEW k \in DOMAIN calls', Answered(calls'[k])
                 PROVE  /\ Sets(calls'[k]) => calls'[k].answer = "ok"
                        /\ calls'[k].method = "pause" => calls'[k].paused
                        /\ calls'[k].method = "resume" => ~calls'[k].paused
                        /\ k > 1 /\ ~Sets(calls'[k]) => calls'[k].paused = calls'[k - 1].paused
                        /\ (k < Len(calls') => ~Answered(calls'[k + 1]))
                               => procPaused = calls'[k].paused
      BY <1>1 DEF Chain
    <2> DEFINE n == k + 1
    <2>1. n \in DOMAIN calls /\ calls'[k] = calls[n] /\ n - 1 = k /\ n > 1
      BY <1>1
    <2>2. /\ Sets(calls[n]) => calls[n].answer = "ok"
          /\ calls[n].method = "pause" => calls[n].paused
          /\ calls[n].method = "resume" => ~calls[n].paused
          /\ ~Sets(calls[n]) => calls[n].paused = calls[n - 1].paused
          /\ (n < Len(calls) => ~Answered(calls[n + 1])) => procPaused = calls[n].paused
      BY <2>1 DEF Obeys, Chain
    <2>3. k > 1 => calls'[k - 1] = calls[n - 1]
      <3>1. k > 1 => k - 1 \in DOMAIN calls' /\ (k - 1) + 1 = k
        BY <1>1
      <3>2. QED
        BY <1>1, <2>1, <3>1
    <2>4. n < Len(calls) => k < Len(calls') /\ calls'[k + 1] = calls[n + 1]
      <3>1. n < Len(calls) => k < Len(calls') /\ k + 1 \in DOMAIN calls'
        BY <1>1
      <3>2. QED
        BY <1>1, <3>1
    <2> HIDE DEF n
    <2>5. QED
      BY <2>1, <2>2, <2>3, <2>4
  <1>4. ASSUME Sets(c) \/ Linked
        PROVE  Linked'
    <2>1. collectionState' = c.paused
      <3>1. ~Sets(c) => c.paused = collectionState
        BY <1>4 DEF Linked, Delivered
      <3>2. QED
        BY <1>2, <3>1 DEF Delivered
    <2>2. CASE calls' # <<>> /\ Answered(calls'[1])
      <3>1. 1 \in DOMAIN calls' /\ calls'[1] = calls[2] /\ 2 \in DOMAIN calls /\ 2 > 1 /\ 2 - 1 = 1
        <4>2. 1 \in DOMAIN calls'
          BY <2>2 DEF Delivered
        <4>3. QED
          BY <1>1, <4>2
      <3>2. ~Sets(calls[2]) => calls[2].paused = calls[2 - 1].paused
        BY <2>2, <3>1 DEF Obeys, Chain
      <3>3. QED
        BY <2>1, <2>2, <3>1, <3>2 DEF Linked, Delivered
    <2>3. CASE ~(calls' # <<>> /\ Answered(calls'[1]))
      <3>1. 1 < Len(calls) => ~Answered(calls[1 + 1])
        <4>1. SUFFICES ASSUME 1 < Len(calls) PROVE ~Answered(calls[1 + 1])
          OBVIOUS
        <4>2. 1 \in DOMAIN calls'
          BY <1>1, <4>1
        <4>3. calls' # <<>>
          BY <4>2
        <4>4. QED
          BY <1>1, <2>3, <4>2, <4>3
      <3>2. QED
        BY <1>1, <1>2, <2>1, <2>3, <3>1 DEF Linked
    <2>4. QED
      BY <2>2, <2>3
  <1>5. QED
    BY <1>1, <1>2, <1>3, <1>4

\* A flow that waits for a pause or a resumption has sent nothing else.
LEMMA SettingSends ==
    ASSUME NEW f, NEW s, NEW m, Sends(f, s, m)
    PROVE  /\ Setting(f, s) => m \in {"pause", "resume"}
           /\ m = "hello" => f \in {"import", "update"} /\ s = "hello"
           /\ s = "hello" => m = "hello"
           /\ s = "restoring" => m \in {"pause", "resume"}
           /\ m \in {"pause", "resume"} =>
                 \/ f = "startup" /\ s \in {"resuming", "overlap"} /\ m = "resume"
                 \/ f = "recovery" /\ s = "settings"
                 \/ f = "import" /\ s \in {"pausing", "giving up", "restoring"}
                 \/ f = "update" /\ s \in {"pausing", "restoring"}
                 \/ f = "page" /\ s \in {"pause", "resume"} /\ m = s
  <1>1. ASSUME Setting(f, s)
        PROVE  m \in {"pause", "resume"}
    <2>1. PICK n \in {"pause", "resume"} : Sends(f, s, n)
      BY <1>1 DEF Setting
    <2>2. QED
      BY <2>1 DEF Sends
  <1>2. m = "hello" => f \in {"import", "update"} /\ s = "hello"
    BY DEF Sends
  <1>3. /\ s = "hello" => m = "hello"
        /\ s = "restoring" => m \in {"pause", "resume"}
    BY DEF Sends
  <1>4. m \in {"pause", "resume"} =>
           \/ f = "startup" /\ s \in {"resuming", "overlap"} /\ m = "resume"
           \/ f = "recovery" /\ s = "settings"
           \/ f = "import" /\ s \in {"pausing", "giving up", "restoring"}
           \/ f = "update" /\ s \in {"pausing", "restoring"}
           \/ f = "page" /\ s \in {"pause", "resume"} /\ m = s
    BY DEF Sends
  <1>5. QED
    BY <1>1, <1>2, <1>3, <1>4

LEMMA DeliverObeys ==
    ASSUME IInv, Obeys, NEW f, NEW c, Delivered(f, c)
    PROVE  Obeys'
  <1>1. /\ Chain' /\ proc # "none" /\ (Sets(c) => c.heard /\ c.answer = "ok")
        /\ Sets(c) \/ Linked => Linked'
    BY DeliverChain
  <1>2. /\ calls[1] = c /\ 1 \in DOMAIN calls /\ c.by = f /\ f \in Flow /\ c.method \in Methods
        /\ \A k \in DOMAIN calls : calls[k].by \in Flow
    BY Stands, CallTypes DEF Delivered
  <1>3. /\ DOMAIN calls = 1 .. Len(calls) /\ Len(calls) \in Nat
        /\ DOMAIN calls' = 1 .. Len(calls) - 1
        /\ \A k \in DOMAIN calls' : k + 1 \in DOMAIN calls /\ k + 1 # 1 /\ calls'[k] = calls[k + 1]
    BY DEF Delivered
  <1>4. /\ c.heard => reply[f] = "waiting" /\ Sends(f, at[f], c.method)
        /\ reply'[f] = IF c.heard THEN c.answer ELSE reply[f]
        /\ \A g \in Flow : reply[g] # "ok" /\ (g # f => reply'[g] = reply[g])
        /\ UNCHANGED <<proc, at, recoveryVars>>
    BY DEF Delivered
  <1>5. Waited'
    BY <1>3 DEF Obeys, Waited
  <1>6. Acknowledged'
    <2> SUFFICES ASSUME NEW g \in Flow, reply'[g] = "ok", Setting(g, at[g])
                 PROVE  Healthy'
      BY <1>4 DEF Acknowledged
    <2>1. g = f /\ c.heard
      BY <1>4
    <2>2. Sets(c)
      BY <1>2, <1>4, <2>1, SettingSends DEF Sets
    <2>3. QED
      BY <1>1, <1>4, <2>2 DEF Healthy
  <1>7. Stops'
    <2>1. \A k \in DOMAIN calls' : calls'[k].method = "shutdown" =>
             /\ c.method # "shutdown" /\ shutdownPending
             /\ proc = "leaving" => calls'[k].answer = "ok"
             /\ \A j \in DOMAIN calls' : calls'[j].method = "shutdown" => j = k
      <3> SUFFICES ASSUME NEW k \in DOMAIN calls', calls'[k].method = "shutdown"
                   PROVE  /\ c.method # "shutdown" /\ shutdownPending
                          /\ proc = "leaving" => calls'[k].answer = "ok"
                          /\ \A j \in DOMAIN calls' : calls'[j].method = "shutdown" => j = k
        OBVIOUS
      <3>1. k + 1 \in DOMAIN calls /\ k + 1 # 1 /\ calls[k + 1].method = "shutdown"
        BY <1>3
      <3>2. /\ shutdownPending
            /\ proc = "leaving" => calls[k + 1].answer = "ok"
            /\ \A j \in DOMAIN calls : calls[j].method = "shutdown" => j = k + 1
        BY <3>1 DEF Obeys, Stops
      <3>3. \A j \in DOMAIN calls' : j + 1 = k + 1 => j = k
        BY <1>3
      <3>4. QED
        BY <1>2, <1>3, <3>1, <3>2, <3>3
    <2>2. ~(at["update"] = "waiting" /\ reply'["update"] = "ok")
      <3> SUFFICES ASSUME at["update"] = "waiting", f = "update", c.heard PROVE FALSE
        BY <1>4, FlowNames
      <3>1. QED
        BY <1>4 DEF Sends
    <2>3. CASE f = "update" /\ c.heard /\ c.method = "shutdown" /\ c.answer = "refused"
      <3>1. ~shutdownPending' /\ ~stopping'
        BY <2>3 DEF Delivered
      <3>2. proc # "leaving"
        BY <1>2, <2>3 DEF Obeys, Stops
      <3>3. QED
        BY <1>4, <2>1, <2>2, <2>3, <3>1, <3>2 DEF Stops
    <2>4. CASE ~(f = "update" /\ c.heard /\ c.method = "shutdown" /\ c.answer = "refused")
      <3>1. UNCHANGED <<shutdownPending, stopping>>
        BY <2>4 DEF Delivered
      <3>2. QED
        BY <1>4, <2>1, <2>2, <3>1 DEF Obeys, Stops
    <2>5. QED
      BY <2>3, <2>4
  <1>8. Restores'
    <2> SUFFICES ASSUME NEW k \in DOMAIN calls', calls'[k].heard, Sets(calls'[k]),
                        calls'[k].by = "recovery" \/ at[calls'[k].by] = "restoring"
                 PROVE  calls'[k].method = setPaused(saved'[calls'[k].by])
      BY <1>4 DEF Restores
    <2>1. k + 1 \in DOMAIN calls /\ k + 1 # 1 /\ calls'[k] = calls[k + 1]
      BY <1>3
    <2>2. calls[k + 1].method = setPaused(saved[calls[k + 1].by])
      BY <2>1 DEF Obeys, Restores
    <2>3. ~(c.heard /\ calls[k + 1].by = f)
      BY <1>2, <2>1, Stands DEF Queue, Single
    <2>4. saved'[calls[k + 1].by] = saved[calls[k + 1].by]
      BY <1>2, <2>1, <2>3 DEF Delivered
    <2>5. QED
      BY <2>1, <2>2, <2>4
  <1>9. Read'
    <2> SUFFICES ASSUME NEW k \in DOMAIN calls', calls'[k].heard, calls'[k].method = "hello"
                 PROVE  /\ ~collectorRecoveryNeeded
                        /\ \A j \in DOMAIN calls' : PageSets(calls'[j]) => j < k
      BY <1>4 DEF Read, recoveryVars
    <2>1. ~collectorRecoveryNeeded /\ \A j \in DOMAIN calls : PageSets(calls[j]) => j < k + 1
      BY <1>3 DEF Obeys, Read
    <2>2. \A j \in DOMAIN calls' : j + 1 < k + 1 => j < k
      BY <1>3
    <2>3. QED
      BY <1>3, <2>1, <2>2
  <1>10. QED
    BY <1>1, <1>5, <1>6, <1>7, <1>8, <1>9 DEF Obeys

LEMMA DeliverSettings ==
    ASSUME IInv, Obeys, Intent, Deliver
    PROVE  Obeys' /\ Intent'
  <1>1. PICK f \in Flow, c \in {Head(calls)} : Delivered(f, c)
    BY Delivering DEF Delivered
  <1>2. /\ calls[1] = c /\ 1 \in DOMAIN calls /\ c.by = f /\ c.method \in Methods
        /\ c.paused \in BOOLEAN /\ collectionState \in BOOLEAN /\ wanted' = wanted
        /\ saved["recovery"] \in BOOLEAN
    BY <1>1, Stands, CallTypes, FlowNames DEF Delivered, Types, TypeOK
  <1>3. /\ proc # "none" /\ (Sets(c) => c.heard /\ c.answer = "ok")
        /\ c.method = "pause" => c.paused
        /\ c.method = "resume" => ~c.paused
        /\ Sets(c) \/ Linked => Linked'
    BY <1>1, DeliverChain
  <1>4. /\ c.heard => reply[f] = "waiting" /\ Sends(f, at[f], c.method)
        /\ reply'[f] = IF c.heard THEN c.answer ELSE reply[f]
        /\ \A g \in Flow : reply[g] # "ok" /\ (g # f => reply'[g] = reply[g])
        /\ collectionState' = IF Sets(c) THEN c.paused ELSE collectionState
        /\ \A g \in Flow : g # f \/ ~(c.heard /\ c.method = "hello") => saved'[g] = saved[g]
        /\ UNCHANGED <<proc, at, migrationError, recoveryVars, wanted, missed>>
    BY <1>1, <1>3 DEF Delivered
  <1>5. ASSUME c.heard
         PROVE  /\ c.method = "hello" => f \in {"import", "update"} /\ at[f] = "hello"
                /\ at[f] = "hello" => c.method = "hello"
                /\ at[f] = "restoring" => Sets(c)
                /\ Sets(c) =>
                      \/ f = "startup" /\ at[f] \in {"resuming", "overlap"}
                      \/ f = "recovery" /\ at[f] = "settings"
                      \/ f = "import" /\ at[f] \in {"pausing", "giving up", "restoring"}
                      \/ f = "update" /\ at[f] \in {"pausing", "restoring"}
                      \/ f = "page" /\ at[f] \in {"pause", "resume"}
    <2>1. Sends(f, at[f], c.method)
      BY <1>4, <1>5
    <2> DEFINE s == at[f]
               m == c.method
    <2>2. Sends(f, s, m)
      BY <2>1
    <2> HIDE DEF s, m
    <2>3. /\ m = "hello" => f \in {"import", "update"} /\ s = "hello"
          /\ s = "hello" => m = "hello"
          /\ s = "restoring" => m \in {"pause", "resume"}
          /\ m \in {"pause", "resume"} =>
                \/ f = "startup" /\ s \in {"resuming", "overlap"} /\ m = "resume"
                \/ f = "recovery" /\ s = "settings"
                \/ f = "import" /\ s \in {"pausing", "giving up", "restoring"}
                \/ f = "update" /\ s \in {"pausing", "restoring"}
                \/ f = "page" /\ s \in {"pause", "resume"} /\ m = s
      BY <2>2, SettingSends
    <2>4. QED
      BY <2>3 DEF s, m, Sets
  <1>6. Obeys'
    BY <1>1, DeliverObeys
  <1>7. Health'
    <2>1. Healthy => Healthy'
      BY <1>3, <1>4 DEF Healthy
    <2>2. Blocked => Blocked'
      BY <1>4, FlowNames
         DEF Blocked, Busy, recoveryVars, recoveryFlight, startupSettled, migrationBusy, mayTry
    <2>3. QED
      BY <1>4, <2>1, <2>2 DEF Intent, Health, Updating, recoveryVars
  <1>8. ~Obtained /\ ~Resumed
    BY <1>4, FlowNames DEF Obtained, Resumed
  \* What a recovery sets is what the host believes.
  <1>9. Sets(c) /\ f = "recovery" => collectionState' = collectionState
    <2> SUFFICES ASSUME Sets(c), f = "recovery" PROVE collectionState' = collectionState
      OBVIOUS
    <2>1. c.method = setPaused(saved["recovery"])
      BY <1>2, <1>3 DEF Obeys, Restores
    <2>2. at["recovery"] = "settings"
      BY <1>3, <1>5
    <2>3. saved["recovery"] = collectionState
      BY <2>2 DEF Intent, Memory, recoveryFlight
    <2>4. c.paused = collectionState
      BY <1>2, <1>3, <2>1, <2>3 DEF setPaused
    <2>5. QED
      BY <1>4, <2>4
  \* What an import or an update restores is what the user wants.
  <1>10. ASSUME Sets(c), f \in {"import", "update"}, at[f] = "restoring"
        PROVE  collectionState' = wanted
    <2>1. c.method = setPaused(saved[f])
      BY <1>2, <1>3, <1>10 DEF Obeys, Restores
    <2>2. saved[f] = wanted /\ saved[f] \in BOOLEAN
      BY <1>10, <1>1, Stands DEF Intent, Memory, Remembers, Types, TypeOK
    <2>3. c.paused = saved[f]
      BY <1>2, <1>3, <2>1, <2>2 DEF setPaused
    <2>4. QED
      BY <1>4, <1>10, <2>2, <2>3
  <1>11. \A g \in {"import", "update"} :
            Aside(g) => Aside(g)' \/ (g = f /\ Sets(c) /\ at[g] = "restoring")
    <2> SUFFICES ASSUME NEW g \in {"import", "update"}, Aside(g), ~Aside(g)'
                 PROVE  g = f /\ Sets(c) /\ at[g] = "restoring"
      OBVIOUS
    <2>1. g \in Flow /\ at[g] = "restoring" /\ reply'[g] = "ok"
      BY <1>4, FlowNames DEF Aside
    <2>2. g = f /\ c.heard
      BY <1>4, <2>1
    <2>3. QED
      BY <1>5, <2>1, <2>2
  <1>12. Base'
    <2>1. Obtained' => (collectionState' <=> at["page"] = "pause")
      <3> SUFFICES ASSUME Obtained' PROVE collectionState' <=> at["page"] = "pause"
        OBVIOUS
      <3>1. f = "page" /\ c.heard /\ at["page"] \in {"pause", "resume"}
        BY <1>4, FlowNames DEF Obtained
      <3>2. c.method = at["page"]
        BY <1>4, <3>1 DEF Sends
      <3>3. QED
        BY <1>3, <1>4, <3>1, <3>2 DEF Sets
    <2>2. Resumed' => ~collectionState'
      <3> SUFFICES ASSUME Resumed' PROVE ~collectionState'
        OBVIOUS
      <3>1. f = "startup" /\ c.heard /\ at["startup"] \in {"resuming", "overlap"}
        BY <1>4, FlowNames DEF Resumed
      <3>2. c.method = "resume"
        BY <1>4, <3>1 DEF Sends
      <3>3. QED
        BY <1>3, <1>4, <3>1, <3>2 DEF Sets
    <2>3. ASSUME ~Obtained', ~Resumed', ~Aside("import")', ~Aside("update")'
          PROVE  collectionState' = wanted
      <3>1. CASE Sets(c) /\ f \in {"import", "update"} /\ at[f] = "restoring"
        BY <1>10, <3>1
      <3>2. CASE ~(Sets(c) /\ f \in {"import", "update"} /\ at[f] = "restoring")
        <4>1. ~Aside("import") /\ ~Aside("update")
          BY <1>11, <2>3, <3>2
        <4>2. collectionState = wanted
          BY <1>8, <4>1 DEF Intent, Base
        <4>3. CASE Sets(c)
          <5>1. c.heard /\ c.answer = "ok" /\ reply'[f] = "ok"
            BY <1>3, <1>4, <4>3
          <5>2. \/ f = "startup" /\ at[f] \in {"resuming", "overlap"}
                \/ f = "recovery"
                \/ f \in {"import", "update"} /\ at[f] \in {"pausing", "giving up"}
                \/ f = "page" /\ at[f] \in {"pause", "resume"}
            BY <1>5, <3>2, <4>3, <5>1
          <5>3. f = "recovery"
            BY <1>4, <2>3, <5>1, <5>2 DEF Obtained, Resumed, Aside
          <5>4. QED
            BY <1>9, <4>2, <4>3, <5>3
        <4>4. QED
          BY <1>4, <4>2, <4>3
      <3>3. QED
        BY <3>1, <3>2
    <2>4. QED
      BY <1>2, <1>4, <2>1, <2>2, <2>3 DEF Base
  \* The answer to a question for the pause state is what the user wants.
  <1>13. ASSUME c.heard, c.method = "hello"
         PROVE  /\ f \in {"import", "update"} /\ at[f] = "hello" /\ saved'[f] = wanted
                /\ reply["page"] # "released"
    <2>1. f \in {"import", "update"} /\ at[f] = "hello"
      BY <1>13, <1>5
    <2>2. /\ at["update"] \in {"idle", "prepare", "hello"}
          /\ f = "update" => at["import"] = "idle"
          /\ f = "import" => at["update"] # "hello"
          /\ reply["page"] # "released"
      BY <2>1 DEF IInv, Flags, Apart, installingUpdate, migrationBusy
    <2>3. ~collectorRecoveryNeeded
      BY <1>2, <1>13 DEF Obeys, Read
    <2>4. Healthy
      BY <2>2, <2>3 DEF Intent, Health, Updating
    <2>5. c.paused = collectionState
      BY <1>1, <1>13, <2>4 DEF Healthy, Linked, Delivered, Sets
    <2>6. ~Aside("import") /\ ~Aside("update")
      BY <2>1, <2>2 DEF Aside
    <2>7. collectionState = wanted
      BY <1>8, <2>6 DEF Intent, Base
    <2>8. saved'[f] = c.paused
      BY <1>1, <1>13 DEF Delivered
    <2>9. QED
      BY <2>1, <2>2, <2>5, <2>7, <2>8
  <1>14. \A g \in {"import", "update"} : Remembers(g)' => saved'[g] = wanted
    <2> SUFFICES ASSUME NEW g \in {"import", "update"}, Remembers(g)'
                 PROVE  saved'[g] = wanted
      OBVIOUS
    <2>1. g \in Flow
      BY FlowNames
    <2>2. CASE f = g /\ c.heard /\ c.method = "hello"
      BY <1>13, <2>2
    <2>3. CASE ~(f = g /\ c.heard /\ c.method = "hello")
      <3>1. saved'[g] = saved[g]
        BY <1>4, <2>1, <2>3
      <3>2. at[g] # "hello"
        <4> SUFFICES ASSUME at[g] = "hello" PROVE FALSE
          OBVIOUS
        <4>1. reply'[g] = "ok"
          BY <1>4 DEF Remembers
        <4>2. f = g /\ c.heard
          BY <1>4, <2>1, <4>1
        <4>3. QED
          BY <1>4, <1>5, <2>3, <4>2
      <3>3. Remembers(g)
        BY <1>4, <3>2 DEF Remembers
      <3>4. QED
        BY <3>1, <3>3 DEF Intent, Memory
    <2>4. QED
      BY <2>2, <2>3
  <1>15. Memory'
    <2>1. recoveryFlight => saved'["recovery"] = collectionState'
      <3> SUFFICES ASSUME recoveryFlight PROVE saved'["recovery"] = collectionState'
        OBVIOUS
      <3>1. saved'["recovery"] = saved["recovery"]
        BY <1>4, <1>13, FlowNames
      <3>2. saved["recovery"] = collectionState
        BY DEF Intent, Memory
      <3>3. CASE Sets(c) /\ f # "recovery"
        <4>1. f # "page"
          BY <1>2, <3>3 DEF Intent, Alone, PageSets, Nothing
        <4>2. f \in {"startup", "import", "update"} /\ at[f] \notin {"idle", "prepare"}
          BY <1>3, <1>5, <3>3, <4>1
        <4>3. QED
          BY <4>2 DEF IInv, Flags, Apart, installingUpdate, migrationBusy, recoveryFlight
      <3>4. QED
        BY <1>4, <1>9, <3>1, <3>2, <3>3
    <2>2. QED
      BY <1>4, <1>14, <2>1 DEF Memory, recoveryFlight
  <1>16. Alone'
    <2>1. Nothing /\ ~(c.heard /\ c.method = "hello") => Nothing'
      <3> SUFFICES ASSUME Nothing, ~(c.heard /\ c.method = "hello") PROVE Nothing'
        OBVIOUS
      <3>1. ASSUME NEW g \in {"import", "update"}
            PROVE  ~Remembers(g)'
        <4> SUFFICES ASSUME Remembers(g)' PROVE FALSE
          OBVIOUS
        <4>1. ~Remembers(g) /\ g \in Flow
          BY FlowNames DEF Nothing
        <4>2. at[g] = "hello" /\ reply'[g] = "ok"
          BY <1>4, <4>1 DEF Remembers
        <4>3. g = f /\ c.heard
          BY <1>4, <4>1, <4>2
        <4>4. QED
          BY <1>4, <1>5, <4>2, <4>3
      <3>2. QED
        BY <1>4, <3>1 DEF Nothing, recoveryFlight
    <2>2. Obtained' => PageSets(c) /\ f = "page"
      <3> SUFFICES ASSUME Obtained' PROVE PageSets(c) /\ f = "page"
        OBVIOUS
      <3>1. f = "page" /\ c.heard /\ at["page"] \in {"pause", "resume"}
        BY <1>4, FlowNames DEF Obtained
      <3>2. c.method = at["page"]
        BY <1>4, <3>1 DEF Sends
      <3>3. QED
        BY <1>2, <3>1, <3>2 DEF PageSets, Sets
    <2>3. PageSets(c) => ~(c.heard /\ c.method = "hello")
      BY DEF PageSets, Sets
    <2>4. Obtained' => Nothing'
      BY <1>2, <2>1, <2>2, <2>3 DEF Intent, Alone
    <2>5. reply'["page"] = "released" => Nothing'
      <3> SUFFICES ASSUME reply'["page"] = "released" PROVE Nothing'
        OBVIOUS
      <3>1. c.answer # "released"
        BY <1>1 DEF Delivered
      <3>2. reply["page"] = "released"
        BY <1>4, <3>1, FlowNames
      <3>3. QED
        BY <1>13, <2>1, <3>2 DEF Intent, Alone
    <2>6. ASSUME NEW k \in DOMAIN calls', PageSets(calls'[k])
          PROVE  Nothing'
      <3>1. k + 1 \in DOMAIN calls /\ PageSets(calls[k + 1]) /\ ~(k + 1 < 1)
        <4>1. k + 1 \in DOMAIN calls /\ calls'[k] = calls[k + 1] /\ k \in 1 .. Len(calls) - 1
              /\ Len(calls) \in Nat
          BY <1>1 DEF Delivered
        <4>2. QED
          BY <2>6, <4>1 DEF PageSets, Sets
      <3>2. Nothing
        BY <3>1 DEF Intent, Alone
      <3>3. ~(c.heard /\ c.method = "hello")
        BY <1>2, <3>1 DEF Obeys, Read
      <3>4. QED
        BY <2>1, <3>2, <3>3
    <2>7. QED
      BY <2>4, <2>5, <2>6 DEF Alone
  <1>17. Timers'
    BY <1>4 DEF Intent, Timers, recoveryFlight, recoveryVars
  <1>18. QED
    BY <1>6, <1>7, <1>12, <1>15, <1>16, <1>17 DEF Intent

\* Nobody waits for the collector any longer; nothing is obtained by that.
LEMMA Disappointed ==
    ASSUME IInv, Intent, UNCHANGED <<at, collectionState, saved, wanted>>,
           \A g \in Flow : reply[g] # "ok",
           \A g \in Flow : \/ reply'[g] \in {reply[g], "failed"}
                           \/ reply'[g] = "ok" /\ at[g] \in {"exiting", "waiting"},
           \A k \in DOMAIN calls' : PageSets(calls'[k]) => k \in DOMAIN calls /\ PageSets(calls[k])
    PROVE  Base' /\ Memory' /\ Alone'
  <1>1. \A g \in {"startup", "import", "page"} : reply'[g] # "ok"
    <2>1. \A g \in {"startup", "import", "page"} :
             g \in Flow /\ at[g] \in States[g] /\ States[g] \cap {"exiting", "waiting"} = {}
      BY Stands, FlowNames, StateNames
    <2>2. QED
      BY <2>1
  <1>2. \A g \in {"import", "update"} :
           (Aside(g) => Aside(g)') /\ (Remembers(g)' => Remembers(g))
    BY FlowNames DEF Aside, Remembers
  <1>3. Base'
    BY <1>1, <1>2, FlowNames DEF Intent, Base, Obtained, Resumed
  <1>4. Memory'
    BY <1>2 DEF Intent, Memory, recoveryFlight
  <1>5. Nothing => Nothing'
    BY <1>2 DEF Nothing, recoveryFlight
  <1>6. reply'["page"] = "released" => reply["page"] = "released"
    BY FlowNames
  <1>7. Alone'
    BY <1>1, <1>5, <1>6 DEF Intent, Alone, Obtained
  <1>8. QED
    BY <1>3, <1>4, <1>7

LEMMA ExitedSettings ==
    ASSUME IInv, Obeys, Intent, Idle, NEW clean \in BOOLEAN, Exited(clean)
    PROVE  Obeys' /\ Intent'
  <1>1. /\ proc' = "none" /\ calls' = <<>> /\ ~shutdownPending'
        /\ UNCHANGED <<at, migrationError, stopping, collectionState, saved, recoveryAttempts,
                       wanted, missed>>
    BY DEF Exited, recoveryVars, historyVars
  <1>2. \A g \in Flow :
           /\ reply[g] # "ok"
           /\ \/ reply'[g] \in {reply[g], "failed"}
              \/ reply'[g] = "ok" /\ at[g] \in {"exiting", "waiting"}
    BY DEF Exited, Told, Idle
  <1>3. DOMAIN calls' = {}
    BY <1>1
  <1>4. Waited' /\ Chain' /\ Restores' /\ Read'
    BY <1>1, <1>3 DEF Waited, Chain, Restores, Read
  <1>5. Stops'
    BY <1>1, <1>3 DEF Obeys, Stops
  <1>6. Acknowledged'
    BY <1>1, <1>2 DEF Acknowledged, Setting, Sends
  <1>7. Base' /\ Memory' /\ Alone'
    BY <1>1, <1>2, <1>3, Disappointed
  <1>8. CASE stopping
    <2>1. UNCHANGED recoveryVars
      BY <1>8 DEF Exited
    <2>2. Updating'
      BY <1>1, <1>8 DEF Obeys, Stops, Stopped, Updating
    <2>3. Timers'
      BY <1>1, <2>1 DEF Intent, Timers, recoveryFlight, recoveryVars
    <2>4. QED
      BY <1>4, <1>5, <1>6, <1>7, <2>2, <2>3 DEF Obeys, Intent, Health
  <1>9. CASE ~stopping
    <2>1. /\ collectorRecoveryNeeded'
          /\ recoveryTimer' = (canRecoverCollector' /\ ~recoveryFlight /\ mayTry)
      BY <1>9 DEF Exited
    <2>2. recoveryFlight' = recoveryFlight /\ mayTry' = mayTry
      BY <1>1 DEF recoveryFlight, mayTry
    <2>3. Updating' \/ Blocked'
      <3>1. CASE recoveryTimer'
        BY <3>1 DEF Blocked
      <3>2. CASE ~recoveryTimer'
        BY <1>5, <2>1, <2>2, <3>2, Held DEF Blocked
      <3>3. QED
        BY <3>1, <3>2
    <2>4. Timers'
      BY <2>1, <2>2 DEF Timers
    <2>5. QED
      BY <1>4, <1>5, <1>6, <1>7, <2>1, <2>3, <2>4 DEF Obeys, Intent, Health
  <1>10. QED
    BY <1>8, <1>9

LEMMA TimeoutSettings ==
    ASSUME IInv, Obeys, Intent, Timeout, Regular'
    PROVE  Obeys' /\ Intent'
  <1>1. PICK f \in Flow :
          /\ reply[f] = "waiting"
          /\ reply' = [reply EXCEPT ![f] = "failed"]
          /\ calls' = [k \in DOMAIN calls |->
                          IF k \in Asking(f) THEN [calls[k] EXCEPT !.heard = FALSE]
                          ELSE calls[k]]
          /\ late' = (late \/ \E k \in Asking(f) : calls[k].method \in {"pause", "resume"})
    BY DEF Timeout
  <1>2. UNCHANGED <<proc, procPaused, stopping, shutdownPending, collectionState, at, saved,
                    migrationError, recoveryVars, wanted, missed>>
    BY DEF Timeout
  <1>3. /\ reply'[f] = "failed" /\ \A g \in Flow : reply[g] # "ok"
        /\ \A g \in Flow : g # f => reply'[g] = reply[g]
    <2>1. IsReply(reply)
      BY Stands DEF Types
    <2>2. QED
      BY <1>1, <2>1 DEF IsReply, Timeout, Idle
  <1>4. \A g \in Flow : reply'[g] # "ok"
    BY <1>3
  <1>5. /\ DOMAIN calls' = DOMAIN calls /\ Len(calls') = Len(calls)
        /\ DOMAIN calls = 1 .. Len(calls) /\ Len(calls) \in Nat
    <2>1. calls \in Seq(Call)
      BY Stands DEF Types, TypeOK
    <2>2. DOMAIN calls = 1 .. Len(calls) /\ Len(calls) \in Nat
      BY <2>1
    <2>3. DOMAIN calls' = 1 .. Len(calls)
      BY <1>1, <2>2
    <2>4. QED
      BY <2>2, <2>3
  <1>6. \A k \in DOMAIN calls :
           /\ calls'[k].by = calls[k].by /\ calls'[k].method = calls[k].method
           /\ calls'[k].answer = calls[k].answer /\ calls'[k].paused = calls[k].paused
           /\ calls'[k].heard => calls[k].heard
           /\ Sets(calls[k]) => calls'[k].heard = calls[k].heard
    <2> SUFFICES ASSUME NEW k \in DOMAIN calls
                 PROVE  /\ calls'[k].by = calls[k].by /\ calls'[k].method = calls[k].method
                        /\ calls'[k].answer = calls[k].answer /\ calls'[k].paused = calls[k].paused
                        /\ calls'[k].heard => calls[k].heard
                        /\ Sets(calls[k]) => calls'[k].heard = calls[k].heard
      OBVIOUS
    <2>1. calls[k] \in Call
      BY Stands, CallTypes
    <2>2. CASE k \in Asking(f)
      <3>1. calls'[k] = [calls[k] EXCEPT !.heard = FALSE]
        BY <1>1, <2>2
      <3>2. ~Sets(calls[k])
        BY <1>1, <2>2 DEF Regular, Sets
      <3>3. QED
        BY <2>1, <3>1, <3>2 DEF Call
    <2>3. CASE k \notin Asking(f)
      BY <1>1, <2>3
    <2>4. QED
      BY <2>2, <2>3
  <1>7. \A k \in DOMAIN calls :
           /\ Sets(calls'[k]) = Sets(calls[k]) /\ PageSets(calls'[k]) = PageSets(calls[k])
           /\ Answered(calls'[k]) = Answered(calls[k])
    BY <1>6 DEF Sets, PageSets, Answered
  <1>8. Waited' /\ Restores' /\ Read'
    BY <1>2, <1>5, <1>6, <1>7 DEF Obeys, Waited, Restores, Read, recoveryVars
  <1>9. Chain'
    <2>1. proc' = "none" => calls' = <<>>
      <3> SUFFICES ASSUME proc = "none" PROVE calls' = <<>>
        BY <1>2
      <3>1. calls = <<>>
        BY DEF Obeys, Chain
      <3>2. DOMAIN calls = {}
        BY <3>1
      <3>3. QED
        BY <1>1, <3>2
    <2>2. ASSUME NEW k \in DOMAIN calls, Answered(calls'[k])
          PROVE  /\ Sets(calls'[k]) => calls'[k].answer = "ok"
                 /\ calls'[k].method = "pause" => calls'[k].paused
                 /\ calls'[k].method = "resume" => ~calls'[k].paused
                 /\ k > 1 /\ ~Sets(calls'[k]) => calls'[k].paused = calls'[k - 1].paused
                 /\ (k < Len(calls') => ~Answered(calls'[k + 1])) => procPaused' = calls'[k].paused
      <3>1. /\ Sets(calls[k]) => calls[k].answer = "ok"
            /\ calls[k].method = "pause" => calls[k].paused
            /\ calls[k].method = "resume" => ~calls[k].paused
            /\ k > 1 /\ ~Sets(calls[k]) => calls[k].paused = calls[k - 1].paused
            /\ (k < Len(calls) => ~Answered(calls[k + 1])) => procPaused = calls[k].paused
        BY <1>7, <2>2 DEF Obeys, Chain
      <3>2. k > 1 => k - 1 \in DOMAIN calls
        BY <1>5
      <3>3. k < Len(calls) => k + 1 \in DOMAIN calls
        BY <1>5
      <3>4. QED
        BY <1>2, <1>5, <1>6, <1>7, <3>1, <3>2, <3>3
    <2>3. QED
      BY <1>5, <2>1, <2>2 DEF Chain
  <1>10. Healthy => Healthy'
    <2>1. calls # <<>> => 1 \in DOMAIN calls
      <3>1. calls \in Seq(Call)
        BY Stands DEF Types, TypeOK
      <3>2. QED
        BY <3>1
    <2>2. calls = <<>> => calls' = <<>>
      <3>1. calls = <<>> => DOMAIN calls = {}
        OBVIOUS
      <3>2. QED
        BY <1>1, <3>1
    <2>3. calls # <<>> => calls' # <<>>
      <3>1. calls' = <<>> => DOMAIN calls' = {}
        OBVIOUS
      <3>2. QED
        BY <1>5, <2>1, <3>1
    <2>4. QED
      BY <1>2, <1>6, <1>7, <2>1, <2>2, <2>3 DEF Healthy, Linked
  <1>11. Stops'
    BY <1>2, <1>4, <1>5, <1>6, FlowNames DEF Obeys, Stops
  <1>12. Acknowledged'
    BY <1>4 DEF Acknowledged
  <1>13. Base' /\ Memory' /\ Alone'
    <2>1. \A g \in Flow : reply'[g] \in {reply[g], "failed"}
      BY <1>3
    <2>2. \A k \in DOMAIN calls' : PageSets(calls'[k]) => k \in DOMAIN calls /\ PageSets(calls[k])
      BY <1>5, <1>7
    <2>3. QED
      BY <1>2, <1>3, <2>1, <2>2, Disappointed
  <1>14. Health'
    <2>1. Blocked => Blocked'
      BY <1>2, <1>3, FlowNames
         DEF Blocked, Busy, recoveryVars, recoveryFlight, startupSettled, migrationBusy, mayTry
    <2>2. QED
      BY <1>2, <1>10, <2>1 DEF Intent, Health, Updating, recoveryVars
  <1>15. Timers'
    BY <1>2 DEF Intent, Timers, recoveryFlight, recoveryVars
  <1>16. QED
    BY <1>8, <1>9, <1>11, <1>12, <1>13, <1>14, <1>15 DEF Obeys, Intent

-----------------------------------------------------------------------------
(* The promise about the settings.                                         *)

LEMMA InitSettings ==
    ASSUME Init
    PROVE  SettingsInv
  <1>1. PICK first \in {[state |-> "importing", method |-> "importLegacy"],
                        [state |-> "resuming", method |-> "resume"]} :
          /\ at = [f \in Flow |-> IF f = "startup" THEN first.state ELSE "idle"]
          /\ calls = <<Sent("startup", first.method)>>
    BY DEF Init
  <1>2. \/ first.state = "importing" /\ first.method = "importLegacy"
        \/ first.state = "resuming" /\ first.method = "resume"
    OBVIOUS
  <1>3. /\ at["startup"] = first.state /\ at["startup"] \notin {"idle", "restoring"}
        /\ \A f \in Flow : f # "startup" => at[f] = "idle"
        /\ \A f \in Flow : reply[f] \in {"none", "waiting"}
    BY <1>1, <1>2, FlowNames DEF Init
  <1>4. /\ DOMAIN calls = {1} /\ calls # <<>> /\ calls[1].by = "startup" /\ calls[1].heard
        /\ calls[1].answer = "none" /\ calls[1].method \in {"importLegacy", "resume"}
    BY <1>1, <1>2, FlowNames, SentType DEF Methods, Sent
  <1>5. /\ proc = "running" /\ procPaused = TRUE /\ collectionState = TRUE /\ wanted = TRUE
        /\ ~stopping /\ ~shutdownPending /\ ~collectorRecoveryNeeded /\ ~recoveryTimer
    BY DEF Init
  <1>6. Waited /\ Chain /\ Restores /\ Read
    BY <1>3, <1>4, <1>5 DEF Waited, Chain, Restores, Read, Answered, PageSets
  <1>7. Stops
    BY <1>3, <1>4, <1>5, FlowNames DEF Stops
  <1>8. Acknowledged
    BY <1>3 DEF Acknowledged
  <1>9. Healthy
    BY <1>4, <1>5 DEF Healthy, Linked, Answered
  <1>10. Base
    BY <1>3, <1>5, FlowNames DEF Base, Obtained, Resumed
  <1>11. Nothing /\ Memory /\ Timers
    BY <1>3, <1>5, FlowNames DEF Nothing, Memory, Timers, Remembers, recoveryFlight
  <1>12. Alone
    BY <1>11 DEF Alone
  <1>13. QED
    BY <1>6, <1>7, <1>8, <1>9, <1>10, <1>11, <1>12 DEF SettingsInv, Obeys, Intent, Health

LEMMA MovedAside ==
    ASSUME IInv
    PROVE  \A f \in Flow : \A s : f # "quit" => Move(f, s)["quit"] = at["quit"]
  BY Stands, FlowNames DEF Move, Types, IsAt

\* A step of another flow has no effect on the exit.
LEMMA QuitKept ==
    ASSUME IInv, NEW f \in Flow \ {"quit"}, NEW m, NEW s,
           \/ Ask(f, m, s) \/ Stay(f, s) \/ Await(f, s) \/ at' = Move(f, s)
    PROVE  at'["quit"] = at["quit"]
  <1>1. at' = Move(f, s)
    BY DEF Ask, request, Stay, Await
  <1>2. QED
    BY <1>1, MovedAside

LEMMA QuitKeptByRecovery ==
    ASSUME IInv, NEW where, IsAt(where), where["quit"] = at["quit"], NEW replies,
           BeginRecovery(where, replies)
    PROVE  at'["quit"] = at["quit"] /\ (late => late')
  <1>1. PICK s \in {"apps", "settings"} : at' = [where EXCEPT !["recovery"] = s]
    BY DEF BeginRecovery, request
  <1>2. QED
    BY <1>1, FlowNames DEF IsAt, BeginRecovery

LEMMA QuitKeptByPage ==
    ASSUME IInv, NEW m \in {"pause", "resume", "snapshot"}, requestBackend(m)
    PROVE  at'["quit"] = at["quit"] /\ (late => late')
  <1>1. "page" \in Flow \ {"quit"}
    BY FlowNames
  <1>2. CASE BeginRecovery(Move("page", m), [reply EXCEPT !["page"] = "held"])
    <2>1. IsAt(Move("page", m))
      BY <1>1, Stands, StateNames DEF IsAt, Move, Types
    <2>2. Move("page", m)["quit"] = at["quit"]
      BY <1>1, MovedAside
    <2>3. QED
      BY <1>2, <2>1, <2>2, QuitKeptByRecovery
  <1>3. CASE late' = late /\ (at' = Move("page", m) \/ Stay("page", "idle") \/ Ask("page", m, m))
    BY <1>1, <1>3, QuitKept
  <1>4. QED
    BY <1>2, <1>3 DEF requestBackend

\* What happened has happened.
LEMMA RegularBefore ==
    ASSUME IInv, [Next]_vars, Regular'
    PROVE  Regular
  <1> DEFINE Stood == (late => late') /\ (lost => lost') /\ at'["quit"] = at["quit"]
  <1>1. Stood => Regular
    BY DEF Regular, quitting
  <1>2. "page" \in Flow \ {"quit"} /\ "import" \in Flow \ {"quit"} /\ "update" \in Flow \ {"quit"}
        /\ "startup" \in Flow \ {"quit"} /\ "recovery" \in Flow \ {"quit"}
    BY FlowNames
  <1>3. CASE Handle
    BY <1>1, <1>3 DEF Handle, flowVars, historyVars
  <1>4. CASE Deliver
    BY <1>1, <1>4 DEF Deliver, historyVars
  <1>5. CASE Exit \/ Crash
    BY <1>1, <1>5 DEF Exit, Crash, Exited, historyVars
  <1>6. CASE Timeout
    <2>1. (late => late') /\ lost' = lost /\ at' = at
      BY <1>6 DEF Timeout
    <2>2. QED
      BY <1>1, <2>1
  <1>7. CASE StableTimer
    BY <1>1, <1>7 DEF StableTimer, flowVars, historyVars
  <1>8. CASE UNCHANGED vars
    BY <1>1, <1>8 DEF vars, flowVars, historyVars
  <1>9. CASE RecoveryTimer
    <2>1. CASE BeginRecovery(at, reply)
      BY <1>1, <1>9, <2>1, QuitKeptByRecovery, Stands DEF RecoveryTimer, Types
    <2>2. CASE UNCHANGED <<flowVars, late>>
      BY <1>1, <1>9, <2>2 DEF RecoveryTimer, flowVars
    <2>3. QED
      BY <1>9, <2>1, <2>2 DEF RecoveryTimer
  <1>10. CASE PageAsks
    <2>1. lost' = lost
      BY <1>10 DEF PageAsks
    <2>2. PICK m \in {"pause", "resume", "snapshot"} :
             (at' = Move("page", "dialog") /\ late' = late) \/ requestBackend(m)
      BY <1>10 DEF PageAsks
    <2>3. CASE requestBackend(m)
      BY <1>1, <2>1, <2>3, QuitKeptByPage
    <2>4. CASE at' = Move("page", "dialog") /\ late' = late
      BY <1>1, <1>2, <2>1, <2>4, QuitKept
    <2>5. QED
      BY <2>2, <2>3, <2>4
  <1>11. CASE PageAnswers
    <2>1. at' = Move("page", "idle") \/ at' = at
      BY <1>11 DEF PageAnswers
    <2>2. at'["quit"] = at["quit"]
      BY <1>2, <2>1, QuitKept
    <2>3. QED
      BY <1>1, <1>11, <2>2 DEF PageAnswers, historyVars
  <1>12. CASE ImportAsks
    <2>1. at'["quit"] = at["quit"]
      BY <1>2, <1>12, QuitKept DEF ImportAsks
    <2>2. QED
      BY <1>1, <1>12, <2>1 DEF ImportAsks, historyVars
  <1>13. CASE ImportAnswers
    <2>1. at'["quit"] = at["quit"]
      BY <1>2, <1>13, QuitKept DEF ImportAnswers, EndImport
    <2>2. late' = late /\ (lost' = lost \/ lost' = (lost \/ collectorRecoveryNeeded))
      BY <1>13 DEF ImportAnswers
    <2>3. QED
      BY <1>1, <2>1, <2>2
  <1>14. CASE UpdateAsks \/ UpdatePrepared \/ UpdateLaunched \/ UpdateRecovered
    <2>1. at'["quit"] = at["quit"]
      BY <1>2, <1>14, QuitKept
         DEF UpdateAsks, UpdatePrepared, UpdateLaunched, UpdateRecovered, Recover, Restore, restore
    <2>2. UNCHANGED historyVars
      BY <1>14 DEF UpdateAsks, UpdatePrepared, UpdateLaunched, UpdateRecovered
    <2>3. QED
      BY <1>1, <2>1, <2>2 DEF historyVars
  <1>15. CASE QuitAsks \/ QuitAnswers
    <2>1. at["quit"] \in {"idle", "confirm"} /\ UNCHANGED historyVars
      BY <1>15 DEF QuitAsks, QuitAnswers
    <2>2. QED
      BY <2>1 DEF Regular, quitting, historyVars
  <1>16. CASE Continuation
    <2>1. lost' = lost
      BY <1>16 DEF Continuation
    <2>2. CASE Page
      <3>1. CASE requestBackend("resume")
        BY <1>1, <2>1, <3>1, QuitKeptByPage
      <3>2. CASE late' = late /\ (Stay("page", "idle") \/ Ask("page", at["page"], at["page"]))
        BY <1>1, <1>2, <2>1, <3>2, QuitKept
      <3>3. QED
        BY <2>2, <3>1, <3>2 DEF Page
    <2>3. CASE UNCHANGED late /\ Startup
      <3>1. at'["quit"] = at["quit"]
        BY <1>2, <2>3, QuitKept DEF Startup
      <3>2. QED
        BY <1>1, <2>1, <2>3, <3>1
    <2>4. CASE UNCHANGED late /\ Recovery
      <3>1. at'["quit"] = at["quit"]
        BY <1>2, <2>4, QuitKept DEF Recovery, EndRecovery
      <3>2. QED
        BY <1>1, <2>1, <2>4, <3>1
    <2>5. CASE UNCHANGED late /\ Import
      <3>1. at'["quit"] = at["quit"]
        BY <1>2, <2>5, QuitKept DEF Import, EndImport
      <3>2. QED
        BY <1>1, <2>1, <2>5, <3>1
    <2>6. CASE UNCHANGED late /\ Update
      <3>1. at'["quit"] = at["quit"]
        <4>1. Shutdown("update") => Await("update", "shutdown")
          BY DEF Shutdown
        <4>2. QED
          BY <1>2, <2>6, <4>1, QuitKept DEF Update, Recover, Restore, restore
      <3>2. QED
        BY <1>1, <2>1, <2>6, <3>1
    <2>7. CASE UNCHANGED late /\ Quit
      <3>1. quitting'
        <4>1. \E s \in {"exiting", "done"} : at' = Move("quit", s)
          BY <2>7 DEF Quit, Stay, Await
        <4>2. at'["quit"] \in {"exiting", "done"}
          BY <4>1, Stands, FlowNames DEF Move, Types, IsAt
        <4>3. QED
          BY <4>2 DEF quitting
      <3>2. QED
        BY <3>1 DEF Regular
    <2>8. QED
      BY <1>16, <2>2, <2>3, <2>4, <2>5, <2>6, <2>7 DEF Continuation, Continue
  <1>17. QED
    BY <1>3, <1>4, <1>5, <1>6, <1>7, <1>8, <1>9, <1>10, <1>11, <1>12, <1>13, <1>14, <1>15, <1>16
       DEF Next

LEMMA NextSettings ==
    ASSUME IInv, SettingsInv, [Next]_vars
    PROVE  SettingsInv'
  <1> SUFFICES ASSUME Regular'
               PROVE  Obeys' /\ Intent'
    BY DEF SettingsInv
  <1>1. Regular /\ Obeys /\ Intent
    BY RegularBefore DEF SettingsInv
  <1>2. CASE Exit \/ Crash
    BY <1>1, <1>2, ExitedSettings DEF Exit, Crash
  <1>3. CASE Continuation
    <2>1. UNCHANGED collectionState
      BY <1>3 DEF Continuation
    <2>2. CASE Page /\ UNCHANGED <<migrationError, missed>>
      BY <1>1, <2>1, <2>2, PageContinues
    <2>3. CASE UNCHANGED saved /\ Startup /\ UNCHANGED missed
      BY <1>1, <2>1, <2>3, StartupSettings
    <2>4. CASE UNCHANGED saved /\ Recovery /\ UNCHANGED wanted
      BY <1>1, <2>1, <2>4, RecoveryContinues
    <2>5. CASE UNCHANGED saved /\ Import /\ UNCHANGED missed
      BY <1>1, <2>1, <2>5, ImportContinues
    <2>6. CASE UNCHANGED saved /\ Update /\ UNCHANGED <<recoveryVars, wanted>>
      BY <1>1, <2>1, <2>6, UpdateContinues
    <2>7. CASE Quit
      <3>1. at["quit"] \in {"shutdown", "exiting"}
        BY <2>7 DEF Quit, Got
      <3>2. QED
        BY <1>1, <3>1 DEF Regular, quitting
    <2>8. QED
      BY <1>3, <2>2, <2>3, <2>4, <2>5, <2>6, <2>7 DEF Continuation, Continue
  <1>4. CASE UNCHANGED vars
    <2>1. /\ UNCHANGED <<procVars, flowVars, collectionState, migrationError, recoveryVars, wanted,
                         missed>>
      BY <1>4 DEF vars, historyVars
    <2>2. Obeys'
      BY <1>1, <2>1
         DEF Obeys, Waited, Chain, Stops, Acknowledged, Restores, Read, Healthy, Linked, Sets,
             Answered, PageSets, procVars, flowVars, recoveryVars
    <2>3. Base' /\ Memory' /\ Timers'
      BY <1>1, <2>1
         DEF Intent, Base, Memory, Timers, Obtained, Resumed, Aside, Remembers, recoveryFlight,
             flowVars, recoveryVars
    <2>4. Alone'
      BY <1>1, <2>1
         DEF Intent, Alone, Obtained, Remembers, Nothing, PageSets, Sets, recoveryFlight, procVars,
             flowVars
    <2>5. Health'
      BY <1>1, <2>1
         DEF Intent, Health, Healthy, Linked, Sets, Answered, Updating, Blocked, Busy,
             recoveryFlight, startupSettled, migrationBusy, mayTry, procVars, flowVars, recoveryVars
    <2>6. QED
      BY <2>2, <2>3, <2>4, <2>5 DEF Intent
  <1>5. CASE \/ Handle \/ Deliver \/ Timeout \/ RecoveryTimer \/ StableTimer \/ PageAsks
             \/ PageAnswers \/ ImportAsks \/ ImportAnswers
    BY <1>1, <1>5, HandleSettings, DeliverSettings, TimeoutSettings, RecoveryTimerSettings,
       StableTimerSettings, PageAsksSettings, PageAnswersSettings, ImportAsksSettings,
       ImportAnswersSettings
  <1>6. CASE \/ UpdateAsks \/ UpdatePrepared \/ UpdateLaunched \/ UpdateRecovered \/ QuitAsks
             \/ QuitAnswers
    BY <1>1, <1>6, UpdateAsksSettings, UpdatePreparedSettings, UpdateLaunchedSettings,
       UpdateRecoveredSettings, QuitAsksSettings, QuitAnswersSettings
  <1>7. QED
    BY <1>2, <1>3, <1>4, <1>5, <1>6 DEF Next

\* The invariant is that of the requests with that of the settings.
THEOREM SettingsInvariance == Spec => [](IInv /\ SettingsInv)
  <1>1. Init => IInv /\ SettingsInv
    BY InitIInv, InitSettings
  <1>2. IInv /\ SettingsInv /\ [Next]_vars => (IInv /\ SettingsInv)'
    BY NextIInv, NextSettings
  <1>3. QED
    BY <1>1, <1>2, PTL DEF Spec

\* When the host comes to rest after crashes, imports, failed updates and
\* canceled exits, the collector runs and is paused exactly if the user left it
\* paused, with the exceptions the property names (main.cjs, recoverCollector,
\* restoreCollection and recoverAfterUpdateFailure).
THEOREM SettingsRestored == Spec => []SettingsKept
  <1>1. IInv /\ SettingsInv => SettingsKept
    <2> SUFFICES ASSUME IInv, SettingsInv, AtRest, ~migrationError, ~GaveUp, ~lost, ~missed, ~late
                 PROVE  proc = "running" /\ procPaused = wanted
      BY DEF SettingsKept
    <2>1. /\ \A f \in Flow : at[f] = "idle" /\ reply[f] # "ok"
          /\ calls = <<>> /\ ~recoveryTimer
      BY DEF AtRest, Idle
    <2>2. Obeys /\ Intent
      BY <2>1, FlowNames DEF SettingsInv, Regular, quitting
    <2>3. mayTry \/ ~collectorRecoveryNeeded
      <3>1. recoveryAttempts \in 0 .. MaxAttempts
        BY Stands DEF Types, TypeOK
      <3>2. QED
        BY <3>1, AttemptsAssumption DEF mayTry, GaveUp
    <2>4. ~Updating /\ ~Obtained /\ ~Resumed /\ ~Aside("import") /\ ~Aside("update")
      BY <2>1, FlowNames DEF Updating, Obtained, Resumed, Aside
    <2>5. mayTry => ~Blocked
      BY <2>1, FlowNames DEF Blocked, Busy, recoveryFlight, startupSettled, migrationBusy
    <2>6. Healthy
      BY <2>2, <2>3, <2>4, <2>5 DEF Intent, Health
    <2>7. procPaused = collectionState
      BY <2>1, <2>6 DEF Healthy, Linked
    <2>8. collectionState = wanted
      BY <2>2, <2>4 DEF Intent, Base
    <2>9. proc = "running"
      <3>1. proc \in {"none", "running", "leaving"}
        BY Stands DEF Types, TypeOK
      <3>2. proc # "leaving"
        BY <2>1, <2>2, FlowNames DEF Obeys, Stops, Stopped
      <3>3. QED
        BY <2>6, <3>1, <3>2 DEF Healthy
    <2>10. QED
      BY <2>7, <2>8, <2>9
  <1>2. QED
    BY <1>1, SettingsInvariance, PTL

-----------------------------------------------------------------------------
(* CoverageGaps.  Time units are compared one by one: which rows, deltas,  *)
(* batches and baselines have the unit.                                    *)

(* The inductive invariant.                                                *)

Before(t) == 0 .. (t - 1)

\* A row covers the unit u of the past; a row that is not stale does; a row does,
\* or one of a pause.
Covers(row, u) == row.start <= u /\ (row.end = Open \/ u < row.end)
Solid(table, u) == \E k \in DOMAIN table : ~table[k].stale /\ Covers(table[k], u)
InGap(table, u) == \E k \in DOMAIN table : Covers(table[k], u)
InPause(table, u) ==
    \E k \in DOMAIN table : table[k].reason = "paused" /\ Covers(table[k], u)

\* Rows of the past.
Timely(table, t) ==
    /\ table \in Seq(Row)
    /\ \A k \in DOMAIN table :
          /\ table[k].start <= t /\ table[k].end <= t
          /\ table[k].end = Open \/ table[k].start <= table[k].end

\* All rows that are open are stale; a pause is open.
OpenAreStale(table) == \A k \in DOMAIN table : table[k].end = Open => table[k].stale
PauseOpen(table) ==
    \E k \in DOMAIN table : table[k].reason = "paused" /\ table[k].end = Open

\* Tables as of time t.
Valid(table, stored, paid, t) ==
    /\ Timely(table, t)
    /\ stored \subseteq Before(t)
    /\ paid \subseteq Before(t)
    /\ \A u \in stored : ~Solid(table, u)
    /\ \A u \in paid : InPause(table, u)

ArchiveInv(t) ==
    \A filed \in archive :
        /\ Valid(filed.rows, filed.measured, filed.noted, t)
        /\ filed.owed \subseteq Before(t)
        /\ \A u \in filed.owed : u \in filed.measured \/ InGap(filed.rows, u)

\* A batch of the past: a first baseline takes no time.
Made(b) ==
    /\ b \in Batch
    /\ b.from <= b.to /\ b.to <= now
    /\ b.kind = "baseline" => b.from = b.to

\* Units of batches, and those since the baseline.
TimeOf(batches) == {u \in Time : \E b \in batches : b.from <= u /\ u < b.to}
Runs(u) == \E b \in baseline : b.seenAt <= u /\ u < now

TypeInv ==
    /\ now \in Time
    /\ alive \in BOOLEAN /\ paused \in BOOLEAN /\ announced \in BOOLEAN
    /\ \/ baseline = {}
       \/ \E b \in [network : Networks, seenAt : Time] : baseline = {b} /\ b.seenAt <= now
    /\ \/ pending = {}
       \/ \E b \in Batch : pending = {b} /\ Made(b)
    /\ \/ archive = {}
       \/ \E filed : archive = {filed}

\* Time is stored, waits or runs: one of the three.
TimeInv ==
    /\ Valid(rows, measured, noted, now)
    /\ owed \subseteq Before(now)
    /\ \A u \in Before(now) : u \in TimeOf(pending) => ~Solid(rows, u) /\ u \notin measured
    /\ \A u \in Before(now) : Runs(u) => ~Solid(rows, u) /\ u \notin measured /\ u \notin TimeOf(pending)
    /\ \A u \in owed : u \in measured \/ u \in TimeOf(pending) \/ InGap(rows, u)

PauseInv ==
    /\ alive /\ ~paused => OpenAreStale(rows)
    /\ baseline # {} => alive /\ ~paused
    /\ announced => alive /\ PauseOpen(rows)

GapsInv == TypeInv /\ TimeInv /\ PauseInv /\ ArchiveInv(now)

-----------------------------------------------------------------------------
(* What the functions on the table do.                                     *)

LEMMA MaxIn ==
    ASSUME NEW n \in Nat, NEW S, S \subseteq 1 .. n, S # {}
    PROVE  Max(S) \in S
  <1> DEFINE T == {n - k : k \in S}
  <1>1. /\ \A k \in S : k \in 1 .. n /\ n - k \in Nat
        /\ T \subseteq Nat /\ T # {}
    <2>1. \A k \in S : k \in 1 .. n /\ n - k \in Nat
      OBVIOUS
    <2>2. QED BY <2>1
  <1>2. IsWellFoundedOn(OpToRel(<, Nat), Nat)
    BY NatLessThanWellFounded
  <1>3. PICK d \in T : \A e \in T : ~ (<<e, d>> \in OpToRel(<, Nat))
    <2> HIDE DEF T
    <2> QED BY <1>1, <1>2, WFMin
  <1>4. \A e \in T : ~ (e < d)
    BY <1>1, <1>3 DEF OpToRel
  <1>5. PICK k \in S : d = n - k
    BY <1>3
  <1>6. \A j \in S : n - j \in T
    OBVIOUS
  <1>7. \A j \in S : k >= j
    <2> HIDE DEF T
    <2> TAKE j \in S
    <2>1. ~ (n - j < n - k)
      BY <1>4, <1>5, <1>6
    <2>2. QED BY <1>1, <2>1
  <1>8. QED
    BY <1>7 DEF Max

\* What a change of the table keeps: rows that cover a unit, open pauses, and that
\* all open rows are stale.
Keeps(old, new) ==
    /\ \A u \in Time : InGap(old, u) => InGap(new, u)
    /\ \A u \in Time : InPause(old, u) => InPause(new, u)
    /\ PauseOpen(old) => PauseOpen(new)

\* A gap is written over its own time, and nothing else changes.
LEMMA GapAdded ==
    ASSUME NEW table, NEW t \in Time, Timely(table, t),
           NEW network \in Networks \cup {AnyNetwork}, NEW reason \in Reasons,
           NEW from \in Time, NEW to \in Time, from <= to, to <= t
    PROVE  LET new == addGap(table, network, reason, from, to)
           IN  /\ Timely(new, t)
               /\ Keeps(table, new)
               /\ \A u \in Time : from <= u /\ u < to => InGap(new, u)
               /\ \A u \in Time : Solid(new, u) =>
                     \/ Solid(table, u)
                     \/ from <= u /\ u < to
                     \/ reason = "paused" /\ from <= u
               /\ reason # "paused" /\ OpenAreStale(table) => OpenAreStale(new)
               /\ reason = "paused" /\ from = to => PauseOpen(new)
  <1> DEFINE same == Continued(table, network, reason, from)
             new  == addGap(table, network, reason, from, to)
  <1>1. /\ table \in Seq(Row) /\ DOMAIN table = 1 .. Len(table) /\ Len(table) \in Nat
        /\ \A k \in DOMAIN table : table[k] \in Row
        /\ \A k \in DOMAIN table : table[k].start <= t /\ table[k].end <= t
        /\ \A k \in DOMAIN table : table[k].end = Open \/ table[k].start <= table[k].end
    BY DEF Timely
  <1>2. Time \subseteq Nat /\ Open = -1 /\ Open \notin Time
    BY BoundsAssumption DEF Time, Open
  <1>3. CASE to > from /\ same # {}
    <2> DEFINE m == Max(same)
    <2>1. m \in DOMAIN table /\ table[m].reason = reason /\ table[m].end = from
      BY <1>1, <1>3, MaxIn DEF Continued
    <2> HIDE DEF m
    <2>2. new = [table EXCEPT ![m].end = to]
      BY <1>3 DEF addGap, m
    <2> HIDE DEF new, same
    <2>3. /\ DOMAIN new = DOMAIN table
          /\ \A k \in DOMAIN table : k # m => new[k] = table[k]
          /\ new[m] = [table[m] EXCEPT !.end = to]
      BY <2>1, <2>2
    <2>4. /\ new[m] \in Row /\ new[m].start = table[m].start /\ new[m].end = to
          /\ new[m].reason = reason
      BY <1>1, <2>1, <2>3 DEF Row
    <2>5. new[m].stale <=> table[m].stale
      BY <1>1, <2>1, <2>3 DEF Row
    <2>6. table[m].start \in Nat /\ table[m].start <= from
      BY <1>1, <1>2, <2>1 DEF Row
    <2>7. Timely(new, t)
      <3>1. \A k \in DOMAIN table : new[k] \in Row
        BY <1>1, <2>3, <2>4
      <3>2. new = [k \in 1 .. Len(table) |-> new[k]]
        BY <1>1, <2>2, <2>3
      <3>3. new \in Seq(Row)
        BY <1>1, <3>1, <3>2, IsASeq
      <3>4. new[m].start <= t /\ new[m].end <= t /\ new[m].start <= new[m].end
        BY <1>1, <1>2, <1>3, <2>1, <2>4, <2>6
      <3>5. QED BY <1>1, <2>3, <3>3, <3>4 DEF Timely
    <2>8. \A k \in DOMAIN table : new[k].reason = table[k].reason
      BY <2>1, <2>3, <2>4
    <2>9. \A k \in DOMAIN table : new[k].stale <=> table[k].stale
      BY <2>3, <2>5
    <2>10. \A u \in Time : Covers(table[m], u) => Covers(new[m], u)
      <3>1. table[m].end # Open
        BY <1>2, <2>1
      <3>2. \A u \in Time : u < from => u < to
        BY <1>2
      <3>3. QED BY <2>1, <2>4, <3>1, <3>2 DEF Covers
    <2>11. \A u \in Time : from <= u /\ u < to => Covers(new[m], u)
      BY <1>2, <2>4, <2>6 DEF Covers
    <2>12. \A u \in Time : Covers(new[m], u) => Covers(table[m], u) \/ (from <= u /\ u < to)
      BY <1>2, <2>1, <2>4, <2>6 DEF Covers
    <2>13. new[m].end # Open
      BY <1>2, <2>4
    <2>14. Keeps(table, new)
      <3>1. \A u \in Time, k \in DOMAIN table : Covers(table[k], u) => Covers(new[k], u)
        BY <2>3, <2>10
      <3>2. \A k \in DOMAIN table : table[k].end = Open => new[k].end = Open
        BY <1>2, <2>1, <2>3
      <3>3. QED BY <2>3, <2>8, <3>1, <3>2 DEF Keeps, InGap, InPause, PauseOpen
    <2>15. \A u \in Time : Solid(new, u) => Solid(table, u) \/ (from <= u /\ u < to)
      BY <2>1, <2>3, <2>9, <2>12 DEF Solid
    <2>16. OpenAreStale(table) => OpenAreStale(new)
      BY <2>3, <2>9, <2>13 DEF OpenAreStale
    <2>17. \A u \in Time : from <= u /\ u < to => InGap(new, u)
      BY <2>1, <2>3, <2>11 DEF InGap
    <2>18. from # to
      BY <1>2, <1>3
    <2>19. QED BY <2>7, <2>14, <2>15, <2>16, <2>17, <2>18 DEF new
  <1>4. CASE ~(to > from /\ same # {})
    <2> DEFINE row == [network |-> network, reason |-> reason, start |-> from,
                       end |-> IF to > from THEN to ELSE Open,
                       stale |-> reason # "paused" /\ to = from]
    <2>1. new = Append(table, row)
      BY <1>4 DEF addGap
    <2>2. /\ row \in Row /\ row.start = from /\ row.reason = reason
          /\ to > from => row.end = to
          /\ ~(to > from) => row.end = Open
      BY DEF Row
    <2>3. row.stale <=> reason # "paused" /\ to = from
      OBVIOUS
    <2> HIDE DEF new, row, same
    <2> DEFINE last == Len(table) + 1
    <2>4. /\ new \in Seq(Row) /\ Len(new) = Len(table) + 1 /\ DOMAIN new = 1 .. Len(new)
          /\ \A k \in 1 .. Len(table) : new[k] = table[k]
          /\ new[Len(table) + 1] = row
      BY <1>1, <2>1, <2>2, AppendProperties, LenProperties
    <2>5. /\ DOMAIN new = DOMAIN table \cup {last} /\ new[last] = row
          /\ \A k \in DOMAIN table : new[k] = table[k]
      BY <1>1, <2>4
    <2> HIDE DEF last
    <2>6. row.start <= t /\ row.end <= t /\ (row.end = Open \/ row.start <= row.end)
      BY <1>2, <2>2
    <2>7. Timely(new, t)
      BY <1>1, <2>4, <2>5, <2>6 DEF Timely
    <2>8. Keeps(table, new)
      BY <2>5 DEF Keeps, InGap, InPause, PauseOpen
    <2>9. \A u \in Time : from <= u /\ u < to => Covers(row, u)
      BY <1>2, <2>2 DEF Covers
    <2>10. \A u \in Time : from <= u /\ u < to => InGap(new, u)
      BY <2>5, <2>9 DEF InGap
    <2>11. \A u \in Time : Covers(row, u) => from <= u
      BY <2>2 DEF Covers
    <2>12. \A u \in Time : Covers(row, u) /\ to > from => u < to
      BY <1>2, <2>2 DEF Covers
    <2>13. to > from \/ to = from
      BY <1>2
    <2>14. \A u \in Time : Covers(row, u) /\ ~row.stale =>
              (from <= u /\ u < to) \/ (reason = "paused" /\ from <= u)
      BY <2>3, <2>11, <2>12, <2>13
    <2>15. \A u \in Time : Solid(new, u) =>
              Solid(table, u) \/ (from <= u /\ u < to) \/ (reason = "paused" /\ from <= u)
      BY <2>5, <2>14 DEF Solid
    <2>16. row.end = Open => to = from
      BY <1>2, <2>2, <2>13
    <2>17. reason # "paused" /\ OpenAreStale(table) => OpenAreStale(new)
      BY <2>3, <2>5, <2>16 DEF OpenAreStale
    <2>18. from = to => row.end = Open
      BY <1>2, <2>2
    <2>19. reason = "paused" /\ from = to => PauseOpen(new)
      BY <2>2, <2>5, <2>18 DEF PauseOpen
    <2>20. QED BY <2>7, <2>8, <2>10, <2>15, <2>17, <2>19 DEF new
  <1>5. QED
    BY <1>3, <1>4

\* Closing, or failing to close, leaves each unit of the past in the rows that had
\* it, and no row open that is not stale.
LEMMA GapsClosed ==
    ASSUME NEW table, now \in Time, Timely(table, now),
           NEW new, new = closeOpenGaps(table) \/ new = LeftOpen(table)
    PROVE  /\ Timely(new, now)
           /\ \A u \in Before(now) : InGap(table, u) => InGap(new, u)
           /\ \A u \in Before(now) : InPause(table, u) => InPause(new, u)
           /\ \A u \in Before(now) : Solid(new, u) => Solid(table, u)
           /\ OpenAreStale(new)
  <1>1. /\ table \in Seq(Row) /\ DOMAIN table = 1 .. Len(table) /\ Len(table) \in Nat
        /\ \A k \in DOMAIN table : table[k] \in Row
        /\ \A k \in DOMAIN table : table[k].start <= now /\ table[k].end <= now
        /\ \A k \in DOMAIN table : table[k].end = Open \/ table[k].start <= table[k].end
    BY DEF Timely
  <1>2. Time \subseteq Nat /\ Open = -1 /\ Open \notin Time /\ Before(now) \subseteq Time
        /\ \A u \in Before(now) : u < now
    BY BoundsAssumption DEF Time, Open, Before
  <1>3. /\ DOMAIN new = 1 .. Len(table)
        /\ new = [k \in 1 .. Len(table) |-> new[k]]
        /\ \A k \in DOMAIN table :
              \/ table[k].end # Open /\ new[k] = table[k]
              \/ table[k].end = Open /\ new[k] = [table[k] EXCEPT !.end = now]
              \/ table[k].end = Open /\ new[k] = [table[k] EXCEPT !.stale = TRUE]
    BY <1>1 DEF closeOpenGaps, LeftOpen
  <1> DEFINE Same(k)   == table[k].end # Open /\ new[k] = table[k]
             Closed(k) == /\ table[k].end = Open /\ new[k].end = now
                          /\ (new[k].stale <=> table[k].stale)
             Left(k)   == table[k].end = Open /\ new[k].end = Open /\ new[k].stale
  <1>4. ASSUME NEW k \in DOMAIN table
        PROVE  /\ new[k] \in Row /\ new[k].start = table[k].start
               /\ new[k].reason = table[k].reason
               /\ Same(k) \/ Closed(k) \/ Left(k)
    <2>1. table[k] \in Row
      BY <1>1
    <2>2. CASE Same(k)
      BY <2>1, <2>2
    <2>3. CASE table[k].end = Open /\ new[k] = [table[k] EXCEPT !.end = now]
      <3>1. new[k].stale <=> table[k].stale
        BY <2>1, <2>3 DEF Row
      <3>2. QED BY <2>1, <2>3, <3>1 DEF Row
    <2>4. CASE table[k].end = Open /\ new[k] = [table[k] EXCEPT !.stale = TRUE]
      BY <2>1, <2>4 DEF Row
    <2>5. QED BY <1>3, <2>2, <2>3, <2>4
  <1>5. \A k \in DOMAIN table, u \in Before(now) : Covers(new[k], u) <=> Covers(table[k], u)
    BY <1>2, <1>4 DEF Covers
  <1>6. \A k \in DOMAIN table : ~new[k].stale => ~table[k].stale
    BY <1>4
  <1>7. \A k \in DOMAIN table : new[k].end = Open => new[k].stale
    BY <1>2, <1>4
  <1>8. \A k \in DOMAIN table : /\ new[k].start <= now /\ new[k].end <= now
                                /\ new[k].end = Open \/ new[k].start <= new[k].end
    BY <1>1, <1>2, <1>4
  <1>9. new \in Seq(Row)
    BY <1>1, <1>3, <1>4, IsASeq
  <1>10. DOMAIN new = DOMAIN table
    BY <1>1, <1>3
  <1> HIDE DEF Same, Closed, Left
  <1>11. Timely(new, now)
    BY <1>8, <1>9, <1>10 DEF Timely
  <1>12. \A k \in DOMAIN table : new[k].reason = table[k].reason
    BY <1>4
  <1>13. QED
    BY <1>5, <1>6, <1>7, <1>10, <1>11, <1>12 DEF InGap, InPause, Solid, OpenAreStale

\* Storing takes the tables old to new: the time W is measured or in a gap then,
\* and nothing else changes.
Extends(old, new, W) ==
    /\ Timely(new.rows, now) /\ Keeps(old.rows, new.rows)
    /\ new.measured \subseteq Time
    /\ \A u \in Time : u \in old.measured => u \in new.measured
    /\ \A u \in Time : u \in new.measured => u \in old.measured \/ u \in W
    /\ \A u \in W : u \in new.measured \/ InGap(new.rows, u)
    /\ \A u \in Time : Solid(new.rows, u) =>
          Solid(old.rows, u) \/ (u \in W /\ (u \in new.measured => u \in old.measured))
    /\ OpenAreStale(old.rows) => OpenAreStale(new.rows)

LEMMA BatchesStored ==
    ASSUME NEW tables, now \in Time, Timely(tables.rows, now), tables.measured \subseteq Time,
           NEW batches, batches = {} \/ \E b \in Batch : batches = {b} /\ Made(b)
    PROVE  Extends(tables, After(tables, batches), TimeOf(batches))
  <1>1. CASE batches = {}
    <2>1. After(tables, batches) = tables /\ TimeOf(batches) = {}
      BY <1>1 DEF After, TimeOf
    <2>2. QED BY <2>1 DEF Extends, Keeps
  <1>2. CASE batches # {}
    <2>1. PICK b \in Batch : batches = {b} /\ Made(b)
      BY <1>2
    <2>2. /\ b.network \in Networks \cup {AnyNetwork} /\ b.kind \in Kinds
          /\ b.from \in Time /\ b.to \in Time /\ b.from <= b.to /\ b.to <= now
          /\ b.kind = "baseline" => b.from = b.to
      BY <2>1 DEF Made, Batch
    <2>3. After(tables, batches) = [rows     |-> GapsWith(tables.rows, b),
                                    measured |-> tables.measured \cup MeasuredBy(b)]
      BY <2>1 DEF After, Stored
    <2>4. \A u \in Time : u \in TimeOf(batches) <=> b.from <= u /\ u < b.to
      BY <2>1 DEF TimeOf
    <2>5. Time \subseteq Nat /\ TimeOf(batches) \subseteq Time
      BY BoundsAssumption DEF Time, TimeOf
    <2>6. CASE b.kind = "delta"
      <3>1. \A u : u \in MeasuredBy(b) <=> u \in Time /\ b.from <= u /\ u < b.to
        BY <2>2, <2>6, BoundsAssumption DEF MeasuredBy, Units, Time
      <3>2. GapsWith(tables.rows, b) = tables.rows
        BY <2>6 DEF GapsWith
      <3>3. MeasuredBy(b) = TimeOf(batches)
        BY <2>4, <2>5, <3>1
      <3>4. /\ After(tables, batches).rows = tables.rows
            /\ After(tables, batches).measured = tables.measured \cup TimeOf(batches)
        BY <2>3, <3>2, <3>3
      <3>5. QED BY <2>5, <3>4 DEF Extends, Keeps
    <2>7. CASE b.kind = "baseline"
      <3>1. MeasuredBy(b) = {} /\ GapsWith(tables.rows, b) = tables.rows
        BY <2>7 DEF MeasuredBy, GapsWith
      <3>2. b.from = b.to /\ b.from \in Nat
        BY <2>2, <2>5, <2>7
      <3>3. \A u \in Nat : ~ (b.from <= u /\ u < b.to)
        BY <3>2
      <3>4. TimeOf(batches) = {}
        BY <2>4, <2>5, <3>3
      <3>5. /\ After(tables, batches).rows = tables.rows
            /\ After(tables, batches).measured = tables.measured
        BY <2>3, <3>1
      <3>6. QED BY <3>4, <3>5 DEF Extends, Keeps
    <2>8. CASE b.kind \notin {"delta", "baseline"}
      <3>1. MeasuredBy(b) = {} /\ GapsWith(tables.rows, b) = addGap(tables.rows, b.network, b.kind, b.from, b.to)
        BY <2>8 DEF MeasuredBy, GapsWith
      <3>2. b.kind \in Reasons /\ b.kind # "paused"
        BY <2>2, <2>8 DEF Kinds, Reasons
      <3> DEFINE new == addGap(tables.rows, b.network, b.kind, b.from, b.to)
      <3>3. /\ Timely(new, now)
            /\ Keeps(tables.rows, new)
            /\ \A u \in Time : b.from <= u /\ u < b.to => InGap(new, u)
            /\ \A u \in Time : Solid(new, u) => Solid(tables.rows, u) \/ (b.from <= u /\ u < b.to)
            /\ OpenAreStale(tables.rows) => OpenAreStale(new)
        BY <2>2, <3>2, GapAdded
      <3> HIDE DEF new
      <3>4. After(tables, batches).rows = new /\ After(tables, batches).measured = tables.measured
        BY <2>3, <3>1 DEF new
      <3>5. \A u \in TimeOf(batches) : u \in Time /\ b.from <= u /\ u < b.to
        BY <2>4, <2>5
      <3>6. \A u \in Time : Solid(new, u) => Solid(tables.rows, u) \/ u \in TimeOf(batches)
        BY <2>4, <3>3
      <3>7. QED BY <3>3, <3>4, <3>5, <3>6 DEF Extends
    <2>9. QED BY <2>6, <2>7, <2>8
  <1>3. QED
    BY <1>1, <1>2

-----------------------------------------------------------------------------
(* Rounds.                                                                 *)

\* What a round makes of the baseline: nothing, or a batch of the time since it
\* and a baseline of this moment, if any.
LEMMA RoundMakes ==
    ASSUME GapsInv, NEW report \in Reports, NEW batches \in Results(report), Sampled(report)
    PROVE  \/ batches = {} /\ baseline' = baseline
           \/ /\ \E b \in Batch :
                    /\ batches = {b} /\ b.to = now
                    /\ \/ baseline = {} /\ b.from = now
                       \/ \E c \in baseline :
                             baseline = {c} /\ b.from = c.seenAt /\ b.kind # "baseline"
              /\ \/ baseline' = {}
                 \/ \E n \in Networks : baseline' = {[network |-> n, seenAt |-> now]}
  <1> DEFINE n == report.network
  <1>1. /\ n \in Networks \cup {NoNetwork} /\ now \in Time
        /\ baseline' = NextBaseline(report)
    BY DEF Reports, GapsInv, TypeInv, Sampled
  <1>2. CASE baseline = {}
    <2>1. CASE n = NoNetwork
      <3>1. Missed(report.complete) = {} /\ baseline' = {}
        BY <1>1, <1>2, <2>1 DEF Missed, NextBaseline
      <3>2. batches = {}
        BY <2>1, <3>1 DEF Results
      <3>3. QED BY <1>2, <3>1, <3>2
    <2>2. CASE n # NoNetwork
      <3> DEFINE b == [kind |-> "baseline", network |-> n, from |-> now, to |-> now]
      <3>1. batches = {b} /\ baseline' = {[network |-> n, seenAt |-> now]}
        BY <1>1, <1>2, <2>2 DEF Results, NextBaseline
      <3>2. b \in Batch /\ n \in Networks /\ b.from = now /\ b.to = now
        BY <1>1, <2>2 DEF Batch, Kinds
      <3>3. QED BY <1>2, <3>1, <3>2
    <2>3. QED BY <2>1, <2>2
  <1>3. CASE baseline # {}
    <2>1. PICK c \in [network : Networks, seenAt : Time] : baseline = {c} /\ c.seenAt <= now
      BY <1>3 DEF GapsInv, TypeInv
    <2>2. CASE n = NoNetwork
      <3> DEFINE b == [kind |-> "detached", network |-> AnyNetwork, from |-> c.seenAt, to |-> now]
      <3>1. CASE Expired(c, report.complete)
        <4>1. Missed(report.complete) = {b} /\ baseline' = {}
          BY <1>1, <2>1, <2>2, <3>1 DEF Missed, NextBaseline
        <4>2. batches = {b}
          BY <2>2, <4>1 DEF Results
        <4>3. b \in Batch /\ b.to = now /\ b.from = c.seenAt /\ b.kind # "baseline"
          BY <1>1 DEF Batch, Kinds
        <4>4. QED BY <2>1, <4>1, <4>2, <4>3
      <3>2. CASE ~Expired(c, report.complete)
        <4>1. Missed(report.complete) = {} /\ baseline' = baseline
          BY <1>1, <2>1, <2>2, <3>2 DEF Missed, NextBaseline
        <4>2. batches = {}
          BY <2>2, <4>1 DEF Results
        <4>3. QED BY <4>1, <4>2
      <3>3. QED BY <3>1, <3>2
    <2>3. CASE n # NoNetwork
      <3>1. UNION {Resighted(d, n) : d \in baseline} = Resighted(c, n)
        BY <2>1
      <3>2. \E b \in Resighted(c, n) : batches = {b}
        <4>1. Resighted(c, n) # {}
          BY DEF Resighted
        <4>2. QED BY <1>3, <2>3, <3>1, <4>1 DEF Results
      <3>3. PICK b \in Resighted(c, n) : batches = {b}
        BY <3>2
      <3>4. n \in Networks /\ c.seenAt \in Time
        BY <1>1, <2>3
      <3>5. b \in Batch /\ b.to = now /\ b.from = c.seenAt /\ b.kind # "baseline"
        BY <1>1, <3>3, <3>4 DEF Resighted, Batch, Kinds
      <3>6. baseline' = {[network |-> n, seenAt |-> now]}
        BY <1>1, <2>3 DEF NextBaseline
      <3>7. QED BY <2>1, <3>3, <3>4, <3>5, <3>6
    <2>4. QED BY <2>2, <2>3
  <1>4. QED
    BY <1>2, <1>3

\* What follows for the units.
LEMMA RoundTime ==
    ASSUME GapsInv, NEW report \in Reports, NEW batches \in Results(report), Sampled(report)
    PROVE  /\ \/ baseline' = {}
              \/ \E b \in [network : Networks, seenAt : Time] : baseline' = {b} /\ b.seenAt <= now
           /\ batches = {} \/ \E b \in Batch : batches = {b} /\ Made(b)
           /\ TimeOf(batches) \subseteq Before(now)
           /\ \A u \in TimeOf(batches) : Runs(u)
           /\ owed' \subseteq Before(now)
           /\ \A u \in owed' : u \in owed \/ u \in TimeOf(batches)
           /\ \A b \in baseline', u \in Before(now) : b.seenAt <= u => Runs(u) /\ u \notin TimeOf(batches)
  <1>1. /\ now \in Time /\ Time \subseteq Nat /\ now \in Nat
        /\ \A u : u \in Before(now) <=> u \in Time /\ u < now
        /\ \A u \in Time : ~ (now <= u /\ u < now)
    BY BoundsAssumption DEF GapsInv, TypeInv, Time, Before
  <1>2. owed \subseteq Before(now)
    BY DEF GapsInv, TimeInv
  <1>3. owed' = owed \cup UNION {Units(b.seenAt, now) : b \in baseline \ baseline'}
    BY DEF Sampled
  <1>4. CASE batches = {} /\ baseline' = baseline
    <2>1. TimeOf(batches) = {} /\ owed' = owed
      BY <1>3, <1>4 DEF TimeOf
    <2>2. \A b \in baseline', u \in Before(now) : b.seenAt <= u => Runs(u)
      BY <1>1, <1>4 DEF Runs
    <2>3. QED BY <1>2, <1>4, <2>1, <2>2 DEF GapsInv, TypeInv
  <1>5. CASE ~ (batches = {} /\ baseline' = baseline)
    <2>1. PICK b \in Batch : /\ batches = {b} /\ b.to = now
                             /\ \/ baseline = {} /\ b.from = now
                                \/ \E c \in baseline :
                                      baseline = {c} /\ b.from = c.seenAt /\ b.kind # "baseline"
      BY <1>5, RoundMakes
    <2>2. \/ baseline' = {}
          \/ \E n \in Networks : baseline' = {[network |-> n, seenAt |-> now]}
      BY <1>5, RoundMakes
    <2>3. \A u : u \in TimeOf(batches) <=> u \in Time /\ b.from <= u /\ u < now
      BY <2>1 DEF TimeOf
    <2>4. \A c \in baseline' : c.seenAt = now
      BY <2>2
    <2>5. \A c \in baseline', u \in Before(now) : ~ (c.seenAt <= u)
      BY <1>1, <2>4
    <2>6. \/ baseline' = {}
          \/ \E c \in [network : Networks, seenAt : Time] : baseline' = {c} /\ c.seenAt <= now
      BY <1>1, <2>2
    <2>7. CASE baseline = {}
      <3>1. owed' = owed /\ b.from = now
        BY <1>3, <2>1, <2>7
      <3>2. TimeOf(batches) = {}
        BY <1>1, <2>3, <3>1
      <3>3. Made(b)
        BY <1>1, <2>1, <3>1 DEF Made
      <3>4. QED BY <1>2, <2>1, <2>5, <2>6, <3>1, <3>2, <3>3
    <2>8. CASE baseline # {}
      <3>1. PICK c \in baseline : baseline = {c} /\ b.from = c.seenAt /\ b.kind # "baseline"
        BY <2>1, <2>8
      <3>2. c.seenAt \in Time /\ c.seenAt <= now
        BY <3>1 DEF GapsInv, TypeInv
      <3>3. Made(b)
        BY <1>1, <2>1, <3>1, <3>2 DEF Made
      <3>4. \A u : u \in TimeOf(batches) <=> u \in Before(now) /\ c.seenAt <= u
        BY <1>1, <2>3, <3>1
      <3>5. \A u \in TimeOf(batches) : Runs(u)
        BY <1>1, <2>3, <3>1 DEF Runs
      <3>6. \A u \in owed' : u \in owed \/ u \in Units(c.seenAt, now)
        BY <1>3, <3>1
      <3>7. \A u \in Units(c.seenAt, now) : u \in TimeOf(batches)
        <4>1. c.seenAt \in Nat
          BY <1>1, <3>2
        <4>2. \A u \in Units(c.seenAt, now) : u \in 0 .. (now - 1) /\ c.seenAt <= u
          BY <1>1, <4>1 DEF Units
        <4>3. QED BY <3>4, <4>2 DEF Before
      <3>8. QED BY <1>2, <2>1, <2>5, <2>6, <3>3, <3>4, <3>5, <3>6, <3>7
    <2>9. QED BY <2>7, <2>8
  <1>6. QED
    BY <1>4, <1>5

LEMMA PastUnits ==
    ASSUME now \in Time
    PROVE  /\ Time \subseteq Nat /\ now \in Nat /\ Before(now) \subseteq Time
           /\ \A u \in Time : u \in Before(now) <=> u < now
  BY BoundsAssumption DEF Time, Before

\* Storing time that neither table had keeps the tables sound, and leaves units that
\* are in neither where they are.
LEMMA SoundExtended ==
    ASSUME now \in Time, NEW old, NEW new, NEW W \in SUBSET Before(now), NEW paid,
           Extends(old, new, W), Valid(old.rows, old.measured, paid, now),
           \A u \in W : ~Solid(old.rows, u) /\ u \notin old.measured
    PROVE  /\ Valid(new.rows, new.measured, paid, now)
           /\ \A u \in Before(now) : u \notin W /\ ~Solid(old.rows, u) /\ u \notin old.measured
                 => ~Solid(new.rows, u) /\ u \notin new.measured
  <1>1. Before(now) \subseteq Time
    BY PastUnits
  <1>2. Timely(new.rows, now) /\ new.measured \subseteq Before(now) /\ paid \subseteq Before(now)
    BY <1>1 DEF Extends, Valid
  <1>3. \A u \in new.measured : ~Solid(new.rows, u)
    BY <1>1, <1>2 DEF Extends, Valid
  <1>4. \A u \in paid : InPause(new.rows, u)
    BY <1>1, <1>2 DEF Extends, Keeps, Valid
  <1>5. QED
    BY <1>1, <1>2, <1>3, <1>4 DEF Extends, Valid

\* The pending batch is stored.
LEMMA PendingStored ==
    ASSUME GapsInv
    PROVE  LET after == After(Tables, pending)
           IN  /\ Valid(after.rows, after.measured, noted, now)
               /\ \A u \in Before(now) : Runs(u) => ~Solid(after.rows, u) /\ u \notin after.measured
               /\ \A u \in owed : u \in after.measured \/ InGap(after.rows, u)
               /\ OpenAreStale(rows) => OpenAreStale(after.rows)
               /\ PauseOpen(rows) => PauseOpen(after.rows)
               /\ after.measured \subseteq Time
  <1> DEFINE after == After(Tables, pending)
             W     == TimeOf(pending)
  <1>1. now \in Time /\ Before(now) \subseteq Time
    BY PastUnits DEF GapsInv, TypeInv
  <1>2. /\ Tables.rows = rows /\ Tables.measured = measured
        /\ Valid(rows, measured, noted, now)
        /\ Timely(rows, now) /\ measured \subseteq Time
    BY <1>1 DEF Tables, GapsInv, TimeInv, Valid
  <1>3. pending = {} \/ \E b \in Batch : pending = {b} /\ Made(b)
    BY DEF GapsInv, TypeInv
  <1>4. Extends(Tables, after, W)
    BY <1>1, <1>2, <1>3, BatchesStored
  <1>5. W \subseteq Before(now)
    <2>1. \A b \in pending : b.to \in Time /\ b.to <= now
      BY <1>3 DEF Made, Batch
    <2>2. \A b \in pending, u \in Time : u < b.to => u < now
      BY <1>1, <2>1, PastUnits
    <2>3. QED BY <1>1, <2>2, PastUnits DEF TimeOf
  <1>6. \A u \in W : ~Solid(rows, u) /\ u \notin measured
    BY <1>5 DEF GapsInv, TimeInv
  <1> HIDE DEF after, W
  <1>7. /\ Valid(after.rows, after.measured, noted, now)
        /\ \A u \in Before(now) : u \notin W /\ ~Solid(rows, u) /\ u \notin measured
                 => ~Solid(after.rows, u) /\ u \notin after.measured
    BY <1>1, <1>2, <1>4, <1>5, <1>6, SoundExtended
  <1>8. \A u \in Before(now) : Runs(u) => ~Solid(after.rows, u) /\ u \notin after.measured
    BY <1>7 DEF GapsInv, TimeInv, W
  <1>9. \A u \in owed : u \in after.measured \/ InGap(after.rows, u)
    <2>1. \A u \in owed : u \in Time /\ (u \in measured \/ u \in W \/ InGap(rows, u))
      BY <1>1 DEF GapsInv, TimeInv, W
    <2>2. QED BY <1>2, <1>4, <2>1 DEF Extends, Keeps
  <1>10. /\ OpenAreStale(rows) => OpenAreStale(after.rows)
         /\ PauseOpen(rows) => PauseOpen(after.rows)
         /\ after.measured \subseteq Time
    BY <1>2, <1>4 DEF Extends, Keeps
  <1>11. QED
    BY <1>7, <1>8, <1>9, <1>10 DEF after

LEMMA FlushStep == ASSUME GapsInv, FlushPending PROVE GapsInv'
  <1> DEFINE after == After(Tables, pending)
  <1>1. /\ rows' = after.rows /\ measured' = after.measured /\ pending' = {}
        /\ UNCHANGED <<now, alive, paused, baseline, archive, owed, announced, noted>>
    BY DEF FlushPending, Store, gapHistoryVars
  <1>2. /\ Valid(after.rows, after.measured, noted, now)
        /\ \A u \in Before(now) : Runs(u) => ~Solid(after.rows, u) /\ u \notin after.measured
        /\ \A u \in owed : u \in after.measured \/ InGap(after.rows, u)
        /\ OpenAreStale(rows) => OpenAreStale(after.rows)
        /\ PauseOpen(rows) => PauseOpen(after.rows)
    BY PendingStored
  <1> HIDE DEF after
  <1>3. TypeInv'
    BY <1>1 DEF GapsInv, TypeInv, Made
  <1>4. TimeOf(pending') = {} /\ \A u : Runs(u)' <=> Runs(u)
    BY <1>1 DEF TimeOf, Runs
  <1>5. TimeInv'
    BY <1>1, <1>2, <1>4 DEF GapsInv, TimeInv
  <1>6. PauseInv'
    BY <1>1, <1>2 DEF GapsInv, PauseInv
  <1>7. ArchiveInv(now)'
    BY <1>1 DEF GapsInv, ArchiveInv
  <1>8. QED
    BY <1>3, <1>5, <1>6, <1>7 DEF GapsInv

LEMMA RoundSteps ==
    ASSUME GapsInv, NEW report \in Reports, NEW batches \in Results(report),
           RoundStored(report, batches) \/ RoundDeferred(report, batches)
    PROVE  GapsInv'
  <1> DEFINE after == After(Tables, pending)
  <1>1. /\ Sampled(report) /\ alive /\ ~paused
        /\ UNCHANGED <<now, alive, paused, archive, announced, noted>>
    BY DEF RoundStored, RoundDeferred, Collecting
  <1>2. /\ Valid(after.rows, after.measured, noted, now)
        /\ \A u \in Before(now) : Runs(u) => ~Solid(after.rows, u) /\ u \notin after.measured
        /\ \A u \in owed : u \in after.measured \/ InGap(after.rows, u)
        /\ OpenAreStale(rows) => OpenAreStale(after.rows)
        /\ PauseOpen(rows) => PauseOpen(after.rows)
        /\ after.measured \subseteq Time
    BY PendingStored
  <1>3. /\ \/ baseline' = {}
           \/ \E b \in [network : Networks, seenAt : Time] : baseline' = {b} /\ b.seenAt <= now
        /\ batches = {} \/ \E b \in Batch : batches = {b} /\ Made(b)
        /\ TimeOf(batches) \subseteq Before(now)
        /\ \A u \in TimeOf(batches) : Runs(u)
        /\ owed' \subseteq Before(now)
        /\ \A u \in owed' : u \in owed \/ u \in TimeOf(batches)
        /\ \A b \in baseline', u \in Before(now) : b.seenAt <= u => Runs(u) /\ u \notin TimeOf(batches)
    BY <1>1, RoundTime
  <1>4. now \in Time /\ Before(now) \subseteq Time
    BY PastUnits DEF GapsInv, TypeInv
  <1>5. OpenAreStale(rows)
    BY <1>1 DEF GapsInv, PauseInv
  <1>6. \A u \in Before(now) : Runs(u)' => Runs(u) /\ u \notin TimeOf(batches)
    BY <1>1, <1>3 DEF Runs
  <1>7. ArchiveInv(now)'
    BY <1>1 DEF GapsInv, ArchiveInv
  <1> HIDE DEF after
  <1>8. CASE RoundStored(report, batches)
    <2> DEFINE both == After(after, batches)
    <2>1. rows' = both.rows /\ measured' = both.measured /\ pending' = {}
      BY <1>8 DEF RoundStored, Store, after
    <2>2. Extends(after, both, TimeOf(batches))
      BY <1>2, <1>3, <1>4, BatchesStored DEF Valid
    <2> HIDE DEF both
    <2>3. /\ Valid(both.rows, both.measured, noted, now)
          /\ \A u \in Before(now) : /\ u \notin TimeOf(batches)
                                    /\ ~Solid(after.rows, u) /\ u \notin after.measured
                => ~Solid(both.rows, u) /\ u \notin both.measured
      BY <1>2, <1>3, <1>4, <2>2, SoundExtended
    <2>4. \A u \in owed' : u \in both.measured \/ InGap(both.rows, u)
      BY <1>2, <1>3, <1>4, <2>2 DEF Extends, Keeps
    <2>5. OpenAreStale(both.rows) /\ (PauseOpen(rows) => PauseOpen(both.rows))
      BY <1>2, <1>5, <2>2 DEF Extends, Keeps
    <2>6. TypeInv'
      BY <1>1, <1>3, <2>1 DEF GapsInv, TypeInv, Made
    <2>7. TimeOf(pending') = {}
      BY <2>1 DEF TimeOf
    <2>8. \A u \in Before(now) : Runs(u)' => ~Solid(both.rows, u) /\ u \notin both.measured
      BY <1>2, <1>6, <2>3
    <2>9. TimeInv'
      BY <1>1, <1>3, <2>1, <2>3, <2>4, <2>7, <2>8 DEF TimeInv
    <2>10. PauseInv'
      BY <1>1, <2>1, <2>5 DEF GapsInv, PauseInv
    <2>11. QED
      BY <1>7, <2>6, <2>9, <2>10 DEF GapsInv
  <1>9. CASE RoundDeferred(report, batches)
    <2>1. rows' = after.rows /\ measured' = after.measured /\ pending' = batches
      BY <1>9 DEF RoundDeferred, Store, after
    <2>2. TypeInv'
      BY <1>1, <1>3, <2>1 DEF GapsInv, TypeInv, Made
    <2>3. \A u \in owed' : u \in after.measured \/ u \in TimeOf(batches) \/ InGap(after.rows, u)
      BY <1>2, <1>3
    <2>4. \A u \in Before(now) : u \in TimeOf(batches) => ~Solid(after.rows, u) /\ u \notin after.measured
      BY <1>2, <1>3
    <2>5. \A u \in Before(now) : Runs(u)' =>
             ~Solid(after.rows, u) /\ u \notin after.measured /\ u \notin TimeOf(batches)
      BY <1>2, <1>6
    <2>6. TimeOf(pending') = TimeOf(batches)
      BY <2>1
    <2>7. TimeInv'
      BY <1>1, <1>2, <1>3, <2>1, <2>3, <2>4, <2>5, <2>6 DEF TimeInv
    <2>8. PauseInv'
      BY <1>1, <1>2, <1>5, <2>1 DEF GapsInv, PauseInv
    <2>9. QED
      BY <1>7, <2>2, <2>7, <2>8 DEF GapsInv
  <1>10. QED
    BY <1>8, <1>9

-----------------------------------------------------------------------------
(* Time, pauses, requests, crashes.                                        *)

LEMMA SoundLater ==
    ASSUME NEW t \in Nat, NEW table, NEW stored, NEW paid, Valid(table, stored, paid, t)
    PROVE  Valid(table, stored, paid, t + 1) /\ Before(t) \subseteq Before(t + 1)
  <1>1. Before(t) \subseteq Before(t + 1)
    BY DEF Before
  <1>2. Timely(table, t + 1)
    <2>1. \A k \in DOMAIN table : table[k].start \in Int /\ table[k].end \in Int
      <3>1. \A k \in DOMAIN table : table[k] \in Row
        BY LenProperties DEF Valid, Timely
      <3>2. QED BY <3>1, BoundsAssumption DEF Row, Open, Time
    <2>2. \A k \in DOMAIN table : table[k].start <= t + 1 /\ table[k].end <= t + 1
      BY <2>1 DEF Valid, Timely
    <2>3. QED BY <2>2 DEF Valid, Timely
  <1>3. QED
    BY <1>1, <1>2 DEF Valid

LEMMA TickStep == ASSUME GapsInv, Tick PROVE GapsInv'
  <1>1. /\ now \in Time /\ now < MaxTime /\ now' = now + 1
        /\ noted' = IF announced /\ alive THEN noted \cup {now} ELSE noted
        /\ UNCHANGED <<alive, paused, baseline, pending, rows, measured, archive, owed, announced>>
    BY DEF Tick, GapsInv, TypeInv, processVars, tableVars
  <1>2. now \in Nat /\ now + 1 \in Time /\ Before(now') = Before(now) \cup {now} /\ now \notin Before(now)
    BY <1>1, BoundsAssumption DEF Time, Before
  <1>3. Valid(rows, measured, noted, now') /\ owed \subseteq Before(now')
    BY <1>1, <1>2, SoundLater DEF GapsInv, TimeInv
  <1>4. announced /\ alive => InPause(rows, now)
    <2>1. \A k \in DOMAIN rows : rows[k].start <= now
      BY DEF GapsInv, TimeInv, Valid, Timely
    <2>2. QED BY <2>1 DEF GapsInv, PauseInv, PauseOpen, InPause, Covers
  <1>5. Valid(rows, measured, noted', now')
    <2>1. noted' \subseteq Before(now')
      BY <1>1, <1>2, <1>3 DEF Valid
    <2>2. \A u \in noted' : InPause(rows, u)
      BY <1>1, <1>3, <1>4 DEF Valid
    <2>3. QED BY <1>3, <2>1, <2>2 DEF Valid
  <1>6. TimeOf(pending)' = TimeOf(pending) /\ now \notin TimeOf(pending)
    <2>1. \A b \in pending : b.to \in Time /\ b.to <= now
      BY DEF GapsInv, TypeInv, Made, Batch
    <2>2. \A b \in pending : ~ (now < b.to)
      BY <1>2, <2>1, BoundsAssumption DEF Time
    <2>3. QED BY <1>1, <2>2 DEF TimeOf
  <1>7. now \notin measured
    BY <1>2 DEF GapsInv, TimeInv, Valid
  <1>8. baseline # {} => ~Solid(rows, now)
    <2> SUFFICES ASSUME baseline # {}, NEW k \in DOMAIN rows, ~rows[k].stale, Covers(rows[k], now)
                 PROVE  FALSE
      BY DEF Solid
    <2>1. OpenAreStale(rows)
      BY DEF GapsInv, PauseInv
    <2>2. rows[k].end # Open
      BY <2>1 DEF OpenAreStale
    <2>3. now < rows[k].end /\ rows[k].end <= now /\ rows[k] \in Row
      BY <2>2, LenProperties DEF Covers, GapsInv, TimeInv, Valid, Timely
    <2>4. rows[k].end \in Int
      BY <2>3, BoundsAssumption DEF Row, Time, Open
    <2>5. QED BY <1>2, <2>3, <2>4
  <1>9. \A u \in Before(now) : Runs(u)' => Runs(u)
    BY <1>1, <1>2 DEF Runs, Before
  <1>10. \A u \in Before(now') : Runs(u)' => ~Solid(rows, u) /\ u \notin measured /\ u \notin TimeOf(pending)
    <2>1. \A u : Runs(u)' => baseline # {}
      BY <1>1 DEF Runs
    <2>2. baseline # {} => ~Solid(rows, now) /\ now \notin measured /\ now \notin TimeOf(pending)
      BY <1>6, <1>7, <1>8
    <2>3. \A u \in Before(now) : Runs(u)' => ~Solid(rows, u) /\ u \notin measured /\ u \notin TimeOf(pending)
      BY <1>9 DEF GapsInv, TimeInv
    <2>4. ASSUME NEW u \in Before(now'), Runs(u)'
          PROVE  ~Solid(rows, u) /\ u \notin measured /\ u \notin TimeOf(pending)
      <3>1. CASE u = now
        BY <2>1, <2>2, <2>4, <3>1
      <3>2. CASE u \in Before(now)
        BY <2>3, <2>4, <3>2
      <3>3. QED BY <1>2, <3>1, <3>2
    <2>5. QED BY <2>4
  <1>11. TimeInv'
    <2>1. \A u \in Before(now') : u \in TimeOf(pending) => ~Solid(rows, u) /\ u \notin measured
      BY <1>2, <1>6 DEF GapsInv, TimeInv
    <2>2. \A u \in owed : u \in measured \/ u \in TimeOf(pending) \/ InGap(rows, u)
      BY DEF GapsInv, TimeInv
    <2>3. QED BY <1>1, <1>3, <1>5, <1>6, <1>10, <2>1, <2>2 DEF TimeInv
  <1>12. TypeInv'
    <2>1. \A b \in pending : b.to <= now => b.to <= now'
      BY <1>1, <1>2, BoundsAssumption DEF GapsInv, TypeInv, Batch, Time
    <2>2. \A b \in baseline : b.seenAt <= now => b.seenAt <= now'
      BY <1>1, <1>2, BoundsAssumption DEF GapsInv, TypeInv, Time
    <2>3. QED BY <1>1, <1>2, <2>1, <2>2 DEF GapsInv, TypeInv, Made
  <1>13. PauseInv'
    BY <1>1 DEF GapsInv, PauseInv
  <1>14. ArchiveInv(now)'
    BY <1>1, <1>2, SoundLater DEF GapsInv, ArchiveInv
  <1>15. QED
    BY <1>11, <1>12, <1>13, <1>14 DEF GapsInv

\* The row of a pause covers nothing of the past.
LEMMA PauseRowAdded ==
    ASSUME now \in Time, NEW table, Timely(table, now)
    PROVE  /\ Timely(PauseRow(table), now) /\ Keeps(table, PauseRow(table))
           /\ \A u \in Before(now) : Solid(PauseRow(table), u) => Solid(table, u)
           /\ PauseOpen(PauseRow(table))
  <1>1. now <= now /\ now \in Nat
    BY PastUnits
  <1>2. \A u \in Before(now) : u \in Time /\ ~ (now <= u)
    BY <1>1, PastUnits DEF Before
  <1>3. QED
    BY <1>1, <1>2, GapAdded DEF PauseRow, Reasons

LEMMA PauseStep == ASSUME GapsInv, Pause PROVE GapsInv'
  <1>1. /\ alive /\ paused' = TRUE /\ baseline' = {}
        /\ \/ rows' = PauseRow(rows) /\ announced' = TRUE
           \/ UNCHANGED <<rows, announced>>
        /\ UNCHANGED <<now, alive, pending, measured, archive, owed, noted>>
    BY DEF Pause
  <1>2. now \in Time /\ Timely(rows, now) /\ Before(now) \subseteq Time
    BY PastUnits DEF GapsInv, TypeInv, TimeInv, Valid
  <1>3. /\ Timely(rows', now)
        /\ \A u \in Before(now) : InGap(rows, u) => InGap(rows', u)
        /\ \A u \in Before(now) : InPause(rows, u) => InPause(rows', u)
        /\ \A u \in Before(now) : Solid(rows', u) => Solid(rows, u)
        /\ announced' => PauseOpen(rows')
    BY <1>1, <1>2, PauseRowAdded DEF Keeps, GapsInv, PauseInv
  <1>4. TimeInv'
    <2>1. Valid(rows', measured, noted, now)
      BY <1>3 DEF GapsInv, TimeInv, Valid
    <2>2. \A u : ~Runs(u)'
      BY <1>1 DEF Runs
    <2>3. TimeOf(pending') = TimeOf(pending)
      BY <1>1
    <2>4. QED BY <1>1, <1>3, <2>1, <2>2, <2>3 DEF GapsInv, TimeInv
  <1>5. TypeInv'
    BY <1>1 DEF GapsInv, TypeInv, Made
  <1>6. PauseInv'
    BY <1>1, <1>3 DEF GapsInv, PauseInv
  <1>7. ArchiveInv(now)'
    BY <1>1 DEF GapsInv, ArchiveInv
  <1>8. QED
    BY <1>4, <1>5, <1>6, <1>7 DEF GapsInv

\* Resuming and starting close the rows, or fail to.
LEMMA CloseSteps == ASSUME GapsInv, Resume \/ Start PROVE GapsInv'
  <1>1. /\ rows' = closeOpenGaps(rows) \/ rows' = LeftOpen(rows)
        /\ alive' \in BOOLEAN /\ alive' /\ paused' \in BOOLEAN
        /\ baseline' = {} /\ announced' = FALSE
        /\ UNCHANGED <<now, pending, measured, archive, owed, noted>>
    BY DEF Resume, Start, TryToClose, gapHistoryVars, GapsInv, TypeInv, PauseInv
  <1>2. now \in Time /\ Timely(rows, now)
    BY DEF GapsInv, TypeInv, TimeInv, Valid
  <1>3. /\ Timely(rows', now)
        /\ \A u \in Before(now) : InGap(rows, u) => InGap(rows', u)
        /\ \A u \in Before(now) : InPause(rows, u) => InPause(rows', u)
        /\ \A u \in Before(now) : Solid(rows', u) => Solid(rows, u)
        /\ OpenAreStale(rows')
    BY <1>1, <1>2, GapsClosed
  <1>4. TimeInv'
    <2>1. Valid(rows', measured, noted, now)
      BY <1>3 DEF GapsInv, TimeInv, Valid
    <2>2. \A u : ~Runs(u)'
      BY <1>1 DEF Runs
    <2>3. TimeOf(pending') = TimeOf(pending)
      BY <1>1
    <2>4. QED BY <1>1, <1>3, <2>1, <2>2, <2>3 DEF GapsInv, TimeInv
  <1>5. TypeInv'
    BY <1>1 DEF GapsInv, TypeInv, Made
  <1>6. PauseInv'
    BY <1>1, <1>3 DEF GapsInv, PauseInv
  <1>7. ArchiveInv(now)'
    BY <1>1 DEF GapsInv, ArchiveInv
  <1>8. QED
    BY <1>4, <1>5, <1>6, <1>7 DEF GapsInv

LEMMA ClearStep == ASSUME GapsInv, ClearUsage PROVE GapsInv'
  <1>1. /\ rows' = <<>> /\ measured' = {} /\ pending' = {} /\ baseline' = {}
        /\ paused' \in BOOLEAN /\ owed' = {} /\ noted' = {} /\ announced' = FALSE
        /\ UNCHANGED <<now, alive, archive>>
    BY DEF ClearUsage, GapsInv, TypeInv
  <1>2. rows' \in Seq(Row) /\ DOMAIN rows' = {}
    BY <1>1
  <1>3. TypeInv'
    BY <1>1 DEF GapsInv, TypeInv, Made
  <1>4. TimeInv'
    <2>1. Valid(rows', measured', noted', now')
      BY <1>1, <1>2 DEF Valid, Timely
    <2>2. \A u : ~Runs(u)'
      BY <1>1 DEF Runs
    <2>3. TimeOf(pending') = {}
      BY <1>1 DEF TimeOf
    <2>4. QED BY <1>1, <2>1, <2>2, <2>3 DEF TimeInv
  <1>5. PauseInv'
    BY <1>1, <1>2 DEF PauseInv, OpenAreStale
  <1>6. ArchiveInv(now)'
    BY <1>1 DEF GapsInv, ArchiveInv
  <1>7. QED
    BY <1>3, <1>4, <1>5, <1>6 DEF GapsInv

\* The units of the pending batch are PendingTime.
LEMMA PendingUnits ==
    ASSUME GapsInv, NEW u \in TimeOf(pending)
    PROVE  u \in PendingTime
  <1>1. PICK b \in pending : b.from <= u /\ u < b.to
    BY DEF TimeOf
  <1>2. b.from \in Nat /\ b.to \in Nat /\ u \in Nat
    BY <1>1, BoundsAssumption DEF GapsInv, TypeInv, Batch, TimeOf, Time
  <1>3. u \in Units(b.from, b.to)
    BY <1>1, <1>2 DEF Units
  <1>4. QED
    BY <1>3 DEF PendingTime

LEMMA CrashStep == ASSUME GapsInv, BackendKilled PROVE GapsInv'
  <1>1. /\ alive' = FALSE /\ owed' = owed \ PendingTime /\ pending' = {} /\ baseline' = {}
        /\ announced' = FALSE
        /\ UNCHANGED <<now, paused, rows, measured, archive, noted>>
    BY DEF BackendKilled, tableVars
  <1>2. TypeInv'
    BY <1>1 DEF GapsInv, TypeInv, Made
  <1>3. TimeInv'
    <2>1. \A u : ~Runs(u)'
      BY <1>1 DEF Runs
    <2>2. TimeOf(pending') = {}
      BY <1>1 DEF TimeOf
    <2>3. \A u \in owed' : u \in measured \/ InGap(rows, u)
      BY <1>1, PendingUnits DEF GapsInv, TimeInv
    <2>4. QED BY <1>1, <2>1, <2>2, <2>3 DEF GapsInv, TimeInv
  <1>4. PauseInv'
    BY <1>1 DEF GapsInv, PauseInv
  <1>5. ArchiveInv(now)'
    BY <1>1 DEF GapsInv, ArchiveInv
  <1>6. QED
    BY <1>2, <1>3, <1>4, <1>5 DEF GapsInv

LEMMA BackupStep == ASSUME GapsInv, Backup PROVE GapsInv'
  <1> DEFINE filed == [rows |-> rows, measured |-> measured, owed |-> owed \ PendingTime,
                       noted |-> noted]
  <1>1. archive' = {filed}
        /\ UNCHANGED <<now, alive, paused, baseline, pending, rows, measured, owed, announced, noted>>
    BY DEF Backup, processVars, tableVars, gapHistoryVars
  <1>2. TypeInv'
    BY <1>1 DEF GapsInv, TypeInv, Made
  <1>3. TimeInv'
    BY <1>1 DEF GapsInv, TimeInv, TimeOf, Runs
  <1>4. PauseInv'
    BY <1>1 DEF GapsInv, PauseInv
  <1>5. ArchiveInv(now)'
    <2>1. \A u \in filed.owed : u \in filed.measured \/ InGap(filed.rows, u)
      BY PendingUnits DEF GapsInv, TimeInv
    <2>2. QED BY <1>1, <2>1 DEF GapsInv, TimeInv, ArchiveInv
  <1>6. QED
    BY <1>2, <1>3, <1>4, <1>5 DEF GapsInv

LEMMA RestoreStep == ASSUME GapsInv, RestoreBackup PROVE GapsInv'
  <1>1. PICK filed \in archive :
            rows' = PauseRow(filed.rows) /\ measured' = filed.measured /\ owed' = filed.owed
            /\ noted' = filed.noted
    BY DEF RestoreBackup
  <1>2. /\ alive /\ paused' = TRUE /\ pending' = {} /\ baseline' = {} /\ announced' = TRUE
        /\ UNCHANGED <<now, alive, archive>>
    BY DEF RestoreBackup
  <1>3. /\ Valid(filed.rows, filed.measured, filed.noted, now)
        /\ filed.owed \subseteq Before(now)
        /\ \A u \in filed.owed : u \in filed.measured \/ InGap(filed.rows, u)
    BY DEF GapsInv, ArchiveInv
  <1>4. now \in Time /\ Before(now) \subseteq Time
    BY PastUnits DEF GapsInv, TypeInv
  <1>5. /\ Timely(rows', now)
        /\ \A u \in Before(now) : InGap(filed.rows, u) => InGap(rows', u)
        /\ \A u \in Before(now) : InPause(filed.rows, u) => InPause(rows', u)
        /\ \A u \in Before(now) : Solid(rows', u) => Solid(filed.rows, u)
        /\ PauseOpen(rows')
    BY <1>1, <1>3, <1>4, PauseRowAdded DEF Keeps, Valid
  <1>6. TypeInv'
    BY <1>2 DEF GapsInv, TypeInv, Made
  <1>7. TimeInv'
    <2>1. Valid(rows', measured', noted', now')
      BY <1>1, <1>2, <1>3, <1>5 DEF Valid
    <2>2. \A u : ~Runs(u)'
      BY <1>2 DEF Runs
    <2>3. TimeOf(pending') = {}
      BY <1>2 DEF TimeOf
    <2>4. QED BY <1>1, <1>2, <1>3, <1>5, <2>1, <2>2, <2>3 DEF TimeInv
  <1>8. PauseInv'
    BY <1>2, <1>5 DEF PauseInv
  <1>9. ArchiveInv(now)'
    BY <1>2 DEF GapsInv, ArchiveInv
  <1>10. QED
    BY <1>6, <1>7, <1>8, <1>9 DEF GapsInv

-----------------------------------------------------------------------------
(* The invariant and what follows from it.                                 *)

LEMMA GapsBegin == GapsInit => GapsInv
  <1> SUFFICES ASSUME GapsInit PROVE GapsInv
    OBVIOUS
  <1>1. /\ now = 0 /\ alive /\ paused \in BOOLEAN /\ baseline = {} /\ pending = {} /\ rows = <<>>
        /\ measured = {} /\ archive = {} /\ owed = {} /\ announced = FALSE /\ noted = {}
    BY DEF GapsInit
  <1>2. TypeInv
    <2>1. now \in Time
      BY <1>1, BoundsAssumption DEF Time
    <2>2. QED BY <1>1, <2>1 DEF TypeInv
  <1>3. rows \in Seq(Row) /\ DOMAIN rows = {}
    BY <1>1
  <1>4. TimeInv
    BY <1>1, <1>3 DEF TimeInv, Valid, Timely, TimeOf, Runs
  <1>5. PauseInv /\ ArchiveInv(now)
    BY <1>1, <1>3 DEF PauseInv, OpenAreStale, ArchiveInv
  <1>6. QED
    BY <1>2, <1>4, <1>5 DEF GapsInv

LEMMA GapsStep == GapsInv /\ [GapsNext]_gapsVars => GapsInv'
  <1> SUFFICES ASSUME GapsInv, [GapsNext]_gapsVars PROVE GapsInv'
    OBVIOUS
  <1>1. CASE UNCHANGED gapsVars
    <2>1. UNCHANGED <<now, alive, paused, baseline, pending, rows, measured, archive, owed, announced, noted>>
      BY <1>1 DEF gapsVars, processVars, tableVars, gapHistoryVars
    <2>2. TypeInv' /\ TimeInv'
      BY <2>1 DEF GapsInv, TypeInv, Made, TimeInv, TimeOf, Runs
    <2>3. PauseInv' /\ ArchiveInv(now)'
      BY <2>1 DEF GapsInv, PauseInv, ArchiveInv
    <2>4. QED BY <2>2, <2>3 DEF GapsInv
  <1>2. CASE Events
    BY <1>2, TickStep, RoundSteps, FlushStep, PauseStep, CloseSteps, ClearStep, BackupStep,
       RestoreStep, CrashStep DEF Events
  <1>3. QED
    BY <1>1, <1>2 DEF GapsNext

THEOREM GapsInvariant == GapsSpec => []GapsInv
  BY GapsBegin, GapsStep, PTL DEF GapsSpec

\* A unit of the past is one of those of a row exactly if the row covers it.
LEMMA RowUnits ==
    ASSUME GapsInv, NEW k \in DOMAIN rows
    PROVE  /\ \A u \in UnitsOf(rows[k]) : Covers(rows[k], u)
           /\ \A u \in Before(now) : Covers(rows[k], u) => u \in UnitsOf(rows[k])
  <1>1. rows[k] \in Row /\ now \in Nat
    BY LenProperties, PastUnits DEF GapsInv, TypeInv, TimeInv, Valid, Timely
  <1>2. rows[k].start \in Nat /\ (rows[k].end = Open \/ rows[k].end \in Nat)
    BY <1>1, BoundsAssumption DEF Row, Time
  <1>3. \A u \in Before(now) : u \in Nat /\ u < now
    BY <1>1 DEF Before
  <1>4. CASE rows[k].end = Open
    <2>1. UnitsOf(rows[k]) = rows[k].start .. (now - 1)
      BY <1>4 DEF UnitsOf, Units
    <2>2. QED BY <1>1, <1>2, <1>3, <1>4, <2>1 DEF Covers, Before
  <1>5. CASE rows[k].end # Open
    <2>1. UnitsOf(rows[k]) = rows[k].start .. (rows[k].end - 1)
      BY <1>5 DEF UnitsOf, Units
    <2>2. QED BY <1>1, <1>2, <1>3, <1>5, <2>1 DEF Covers
  <1>6. QED
    BY <1>4, <1>5

\* No time is both measured and missing (Store::applyUsage, UsageRepository::addGap
\* and closeOpenGaps), but for gaps left open by mistake.
THEOREM NoOverlap == GapsSpec => []GapsAreUnmeasured
  <1>1. GapsInv => GapsAreUnmeasured
    BY RowUnits DEF GapsInv, TimeInv, Valid, Solid, GapsAreUnmeasured
  <1>2. QED
    BY GapsInvariant, <1>1, PTL

\* Time taken from a baseline is measured, pending or in a gap.
THEOREM TimeExplained == GapsSpec => []NoTimeUnexplained
  <1>1. GapsInv => NoTimeUnexplained
    <2> SUFFICES ASSUME GapsInv, NEW u \in owed
                 PROVE  u \in measured \cup PendingTime \cup GapTime(Reasons)
      BY DEF NoTimeUnexplained
    <2>1. u \in Before(now) /\ (u \in measured \/ u \in TimeOf(pending) \/ InGap(rows, u))
      BY DEF GapsInv, TimeInv
    <2>2. ASSUME InGap(rows, u) PROVE u \in GapTime(Reasons)
      <3>1. PICK k \in DOMAIN rows : Covers(rows[k], u)
        BY <2>2 DEF InGap
      <3>2. rows[k] \in Row
        BY LenProperties DEF GapsInv, TimeInv, Valid, Timely
      <3>3. u \in UnitsOf(rows[k]) /\ rows[k].reason \in Reasons
        BY <2>1, <3>1, <3>2, RowUnits DEF Row
      <3>4. QED BY <3>3 DEF GapTime
    <2>3. QED BY <2>1, <2>2, PendingUnits
  <1>2. QED
    BY GapsInvariant, <1>1, PTL

\* A pause is covered by gaps of that reason, across kills, starts and restores.
THEOREM PausesShown == GapsSpec => []PauseIsCovered
  <1>1. GapsInv => PauseIsCovered
    <2> SUFFICES ASSUME GapsInv, NEW u \in noted PROVE u \in GapTime({"paused"})
      BY DEF PauseIsCovered
    <2>1. u \in Before(now) /\ InPause(rows, u)
      BY DEF GapsInv, TimeInv, Valid
    <2>2. PICK k \in DOMAIN rows : rows[k].reason = "paused" /\ Covers(rows[k], u)
      BY <2>1 DEF InPause
    <2>3. u \in UnitsOf(rows[k])
      BY <2>1, <2>2, RowUnits
    <2>4. QED BY <2>2, <2>3 DEF GapTime
  <1>2. QED
    BY GapsInvariant, <1>1, PTL

\* At most one baseline, pending batch and archive; rows and times have their types.
THEOREM GapsTypeCorrect == GapsSpec => []GapsTypeOK
  <1>1. GapsInv => GapsTypeOK
    <2> SUFFICES ASSUME GapsInv PROVE GapsTypeOK
      OBVIOUS
    <2>1. measured \cup owed \cup noted \subseteq Time
      BY PastUnits DEF GapsInv, TypeInv, TimeInv, Valid
    <2>2. Cardinality(baseline) <= 1 /\ Cardinality(pending) <= 1 /\ Cardinality(archive) <= 1
      <3>1. 0 <= 1 /\ 1 <= 1 /\ Cardinality({}) = 0 /\ \A x : Cardinality({x}) = 1
        BY FS_EmptySet, FS_Singleton
      <3>2. baseline = {} \/ \E b : baseline = {b}
        BY DEF GapsInv, TypeInv
      <3>3. pending = {} \/ \E b : pending = {b}
        BY DEF GapsInv, TypeInv
      <3>4. archive = {} \/ \E b : archive = {b}
        BY DEF GapsInv, TypeInv
      <3>5. \A S : S = {} \/ (\E x : S = {x}) => Cardinality(S) <= 1
        BY <3>1, Zenon
      <3>6. QED BY <3>2, <3>3, <3>4, <3>5
    <2>3. baseline \subseteq [network : Networks, seenAt : Time] /\ pending \subseteq Batch
      BY DEF GapsInv, TypeInv
    <2>4. QED BY <2>1, <2>2, <2>3 DEF GapsInv, TypeInv, TimeInv, Valid, Timely, GapsTypeOK
  <1>2. QED
    BY GapsInvariant, <1>1, PTL
=============================================================================
