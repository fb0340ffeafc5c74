------------------------------ MODULE AppControl ------------------------------
(***************************************************************************)
(* Blocking and throttling programs: the page's model                      *)
(* (renderer/data/desktop-actions.js), the host (host/app-control.cjs) and *)
(* its list of limited programs (host/app-network-records.cjs).  The list  *)
(* is what the user lifts limits from: the system is only asked when the   *)
(* user acts.  The helper that changes the system's policy is external; it *)
(* may outlive the host's patience.                                        *)
(*                                                                         *)
(* The five flags of a state are abstracted to limited, free or unknown.   *)
(***************************************************************************)
EXTENDS Naturals

CONSTANTS Apps, Nothing, MaxOps, MaxFaults \* programs; bounds: operations and faults

VARIABLES
    policy,      \* external: the system's rules for each program
    late,        \* external: programs a helper still works on unobserved
    file,        \* app-network-records.json
    records,     \* the host's copy, Nothing before the first read
    op,          \* the operation of the page (model.busy), Nothing when idle
    listing,     \* rulesRequest: how far it is, and the list it returns
    path, state, error,   \* the program selected, its state, what went wrong
    rules, rulesError,    \* the list on the page
    doubtful,    \* history: programs whose last operation did not end well
    ops, faults

vars == <<policy, late, file, records, op, listing, path, state, error, rules, rulesError, doubtful, ops, faults>>
pageVars == <<path, state, error, rules, rulesError>>
hostVars == <<file, records>>
systemVars == <<policy, late>>

States == {"limited", "free", "unknown"}
Actions == {"read", "limit", "lift"}
Response == [kind : {"succeeded", "failed", "cancelled", "none"}, state : States \cup {Nothing}, saved : BOOLEAN]
Listings == [at : {"idle", "sent", "failed", "served"}, listed : SUBSET Apps]
Listing(at, listed) == [at |-> at, listed |-> listed]
Ops == [app : Apps, action : Actions, at : {"helper", "remember", "answer", "rules", "reload"}, response : Response]

\* Type invariant.
TypeOK ==
    /\ policy \in [Apps -> {"limited", "free"}] /\ late \subseteq Apps
    /\ file \subseteq Apps /\ records \in SUBSET Apps \cup {Nothing}
    /\ op \in Ops \cup {Nothing} /\ listing \in Listings
    /\ path \in Apps \cup {Nothing} /\ state \in States \cup {Nothing} /\ error \in BOOLEAN
    /\ rules \subseteq Apps /\ rulesError \in BOOLEAN /\ doubtful \subseteq Apps
    /\ ops \in 0..MaxOps /\ faults \in 0..MaxFaults

Init ==
    /\ policy = [a \in Apps |-> "free"] /\ late = {} /\ file = {} /\ records = Nothing
    /\ op = Nothing /\ listing = Listing("sent", {}) /\ path = Nothing /\ state = Nothing /\ error = FALSE
    /\ rules = {} /\ rulesError = FALSE /\ doubtful = {} /\ ops = 0 /\ faults = 0

Known == IF records = Nothing THEN file ELSE records
Fault == faults < MaxFaults /\ faults' = faults + 1

\* loadRules: one request at a time; a second caller waits for the first.
LoadRules == IF listing.at = "idle" THEN listing' = Listing("sent", {}) /\ rulesError' = FALSE
                                    ELSE UNCHANGED <<listing, rulesError>>
RefreshRules ==
    /\ op = Nothing /\ listing.at = "idle" /\ LoadRules
    /\ UNCHANGED <<systemVars, hostVars, op, path, state, error, rules, doubtful, ops, faults>>

\* list: the host reads its file once.
ListServed ==
    /\ listing.at = "sent" /\ records' = Known /\ listing' = Listing("served", Known)
    /\ UNCHANGED <<systemVars, file, op, pageVars, doubtful, ops, faults>>
ListFails ==
    /\ listing.at = "sent" /\ records = Nothing /\ Fault /\ listing' = Listing("failed", {})
    /\ UNCHANGED <<systemVars, hostVars, op, pageVars, doubtful, ops>>
ListAnswered ==
    /\ listing.at \in {"failed", "served"} /\ listing' = Listing("idle", {})
    /\ IF listing.at = "failed" THEN rulesError' = TRUE /\ UNCHANGED rules
                             ELSE rules' = listing.listed /\ UNCHANGED rulesError
    /\ UNCHANGED <<systemVars, hostVars, op, path, state, error, doubtful, ops, faults>>

\* select, run and choose; choose reads the state of the program chosen.
Select(a) ==
    /\ op = Nothing /\ path # a
    /\ path' = a /\ state' = Nothing /\ error' = FALSE
    /\ UNCHANGED <<systemVars, hostVars, op, listing, rules, rulesError, doubtful, ops, faults>>
NoResponse == [kind |-> "none", state |-> Nothing, saved |-> TRUE]
Operate(a, action) ==
    /\ op = Nothing /\ ops < MaxOps /\ ops' = ops + 1
    /\ path = a \/ action = "read"
    /\ op' = [app |-> a, action |-> action, at |-> "helper", response |-> NoResponse]
    /\ error' = FALSE
    /\ UNCHANGED <<systemVars, hostVars, listing, path, state, rules, rulesError, doubtful, faults>>

\* The helper changes the policy and reports what it reads afterwards.  Lifting
\* one direction may leave the other limited.
Effects(action, before) ==
    IF action = "limit" THEN {"limited"} ELSE IF action = "read" THEN {before} ELSE {"free", before}
Helper(kind, after, read) ==
    /\ op # Nothing /\ op.at = "helper"
    /\ after \in Effects(op.action, policy[op.app]) \cup (IF kind = "failed" THEN {policy[op.app]} ELSE {})
    /\ kind = "cancelled" => after = policy[op.app]
    /\ read \in {after, "unknown"}
    /\ policy' = [policy EXCEPT ![op.app] = after]
    /\ op' = [op EXCEPT !.at = IF kind = "cancelled" THEN "answer" ELSE "remember",
                        !.response = [kind |-> kind, state |-> read, saved |-> TRUE]]
    /\ IF kind = "succeeded" THEN UNCHANGED faults ELSE Fault
    /\ doubtful' = IF kind = "succeeded" /\ read # "unknown" THEN doubtful \ {op.app} ELSE doubtful \cup {op.app}
    /\ UNCHANGED <<late, hostVars, listing, pageVars, ops>>

\* request refuses an input that is not valid, or a program that is gone.
Refuse ==
    /\ op # Nothing /\ op.at = "helper" /\ Fault
    /\ op' = [op EXCEPT !.at = "answer"]
    /\ UNCHANGED <<systemVars, hostVars, listing, pageVars, doubtful, ops>>

\* The host gives up after three minutes, or the answer cannot be used; the
\* helper may still be at work.
HelperLost(working) ==
    /\ op # Nothing /\ op.at = "helper" /\ Fault
    /\ op' = [op EXCEPT !.at = "answer"]
    /\ late' = IF working THEN late \cup {op.app} ELSE late
    /\ doubtful' = doubtful \cup {op.app}
    /\ UNCHANGED <<policy, hostVars, listing, pageVars, ops>>
HelperEnds(a, after) ==
    /\ a \in late /\ late' = late \ {a}
    /\ policy' = [policy EXCEPT ![a] = after]
    /\ doubtful' = doubtful \cup {a}
    /\ UNCHANGED <<hostVars, op, listing, pageVars, ops, faults>>

\* remember: what the list becomes, saved before it is kept.
Remembered(a, action, response, listed) ==
    LET succeeded == response.kind = "succeeded"
        added == response.state = "limited" /\ (succeeded \/ action # "read")
    IN  IF a \notin listed THEN (IF added THEN listed \cup {a} ELSE listed)
        ELSE IF succeeded /\ response.state = "free" THEN listed \ {a} ELSE listed
Remember ==
    /\ op # Nothing /\ op.at = "remember"
    /\ records' = Remembered(op.app, op.action, op.response, Known) /\ file' = records'
    /\ op' = [op EXCEPT !.at = "answer"]
    /\ UNCHANGED <<systemVars, listing, pageVars, doubtful, ops, faults>>
RememberFails ==
    /\ op # Nothing /\ op.at = "remember" /\ Fault
    /\ op' = [op EXCEPT !.at = "answer", !.response.saved = FALSE]
    /\ doubtful' = doubtful \cup {op.app}
    /\ UNCHANGED <<systemVars, hostVars, listing, pageVars, ops>>

\* operate: shows the result, waits for a list that was asked for before the
\* result, then asks for the list again and shows it.
Answered ==
    /\ op # Nothing /\ op.at = "answer" /\ op' = [op EXCEPT !.at = "rules"]
    /\ path' = IF op.response.kind = "none" THEN path ELSE op.app
    /\ state' = op.response.state
    /\ error' = (op.response.kind # "succeeded")
    /\ UNCHANGED <<systemVars, hostVars, listing, rules, rulesError, doubtful, ops, faults>>

\* Mutant of MayReload: the list asked for before the result is taken.
MayReloadAlways == TRUE

\* A list that was asked for before the result is awaited, not joined.
MayReload == listing.at = "idle"
ReloadRules ==
    /\ op # Nothing /\ op.at = "rules" /\ MayReload
    /\ LoadRules /\ op' = [op EXCEPT !.at = "reload"]
    /\ UNCHANGED <<systemVars, hostVars, path, state, error, rules, doubtful, ops, faults>>
Done ==
    /\ op # Nothing /\ op.at = "reload" /\ listing.at = "idle" /\ op' = Nothing
    /\ rulesError' = (rulesError \/ ~op.response.saved)
    /\ UNCHANGED <<systemVars, hostVars, listing, path, state, error, rules, doubtful, ops, faults>>

\* The application ends, with its download limits, and starts again.
Restart(ended) ==
    /\ Fault
    /\ policy' = [a \in Apps |-> IF a \in ended THEN "free" ELSE policy[a]]
    /\ late' = IF op = Nothing \/ op.at # "helper" THEN late ELSE late \cup {op.app}
    /\ doubtful' = IF op = Nothing \/ op.at \notin {"helper", "remember"} THEN doubtful ELSE doubtful \cup {op.app}
    /\ records' = Nothing /\ op' = Nothing /\ listing' = Listing("sent", {})
    /\ path' = Nothing /\ state' = Nothing /\ error' = FALSE /\ rules' = {} /\ rulesError' = FALSE
    /\ UNCHANGED <<file, ops>>

Next ==
    \/ RefreshRules \/ ListServed \/ ListFails \/ ListAnswered
    \/ \E a \in Apps : Select(a) \/ (\E action \in Actions : Operate(a, action))
    \/ \E kind \in {"succeeded", "failed", "cancelled"}, after \in {"limited", "free"}, read \in States :
           Helper(kind, after, read)
    \/ Refuse \/ \E working \in BOOLEAN : HelperLost(working)
    \/ \E a \in Apps, after \in {"limited", "free"} : HelperEnds(a, after)
    \/ Remember \/ RememberFails \/ Answered \/ ReloadRules \/ Done
    \/ \E ended \in SUBSET Apps : Restart(ended)

Spec == Init /\ [][Next]_vars

-----------------------------------------------------------------------------
\* Every program known to be limited is in the list the user lifts limits from,
\* once the page is idle and shows no error of the list: no list asked for
\* before the operation hides its outcome, and no restart forgets it.
LimitedIsListed ==
    op = Nothing /\ listing.at = "idle" /\ ~rulesError =>
        \A a \in Apps \ doubtful : policy[a] = "limited" => a \in rules

==============================================================================
