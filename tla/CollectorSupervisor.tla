------------------------ MODULE CollectorSupervisor ------------------------
(***************************************************************************)
(* The desktop host as the supervisor of the collector process: it starts  *)
(* the process paused, resumes it when the startup import is over, starts  *)
(* it again when it dies, and stops it for an update or on exit.  Each of  *)
(* these is an asynchronous function of main.cjs; here it is a flow with   *)
(* the await it stands at.  The event loop handles one event at a time and *)
(* runs every continuation an event releases before it takes the next one, *)
(* so every action that is an event waits until the event loop is Idle.    *)
(***************************************************************************)
EXTENDS Integers, Sequences

CONSTANTS
    MaxAttempts,                            \* RECOVERY_DELAYS.length
    MaxCrashes, MaxTimeouts, MaxOperations  \* bounds

ASSUME AttemptsAssumption == MaxAttempts \in Nat

VARIABLES
    \* The collector process and the pipes to it
    proc, procPaused,
    calls,          \* the requests sent and not yet answered to the host
    \* BackendClient
    stopping,
    shutdownPending,
    collectionState,    \* the pause state last acknowledged
    \* The flows of main.cjs
    at,             \* where each stands
    reply,          \* what the await it stands at returned
    saved,          \* the pause state it means to restore
    migrationError,
    collectorRecoveryNeeded, recoveryTimer, stableTimer, recoveryAttempts,
    crashes, timeouts, operations,
    \* History
    wanted,         \* the pause state the user last obtained
    lost,           \* an import began with a process that had died unnoticed
    missed,         \* an update was given up over a process that had died
    late            \* a pause request was given up and may still be executed,
                    \* or a recovery began before its answer

procVars     == <<proc, procPaused, calls, stopping, shutdownPending>>
flowVars     == <<at, reply, saved>>
recoveryVars == <<collectorRecoveryNeeded, recoveryTimer, stableTimer,
                  recoveryAttempts>>
budgetVars   == <<crashes, timeouts, operations>>
historyVars  == <<wanted, lost, missed, late>>
vars == <<procVars, collectionState, flowVars, migrationError, recoveryVars,
          budgetVars, historyVars>>

States ==
    [startup  |-> {"idle", "importing", "overlap", "resuming"},
     recovery |-> {"idle", "apps", "settings"},
     import   |-> {"idle", "directory", "hello", "pausing", "importing",
                   "overlap", "restoring", "giving up"},
     update   |-> {"idle", "prepare", "hello", "pausing", "shutdown", "exiting",
                   "launching", "launched", "waiting", "apps", "restoring",
                   "protected"},
     page     |-> {"idle", "dialog", "pause", "resume", "snapshot"},
     quit     |-> {"idle", "confirm", "shutdown", "exiting", "done"}]

Flow    == DOMAIN States
Methods == {"importLegacy", "pause", "resume", "setAppCollection", "hello",
            "snapshot", "shutdown"}
Replies == {"none", "waiting", "held", "ok", "refused", "failed", "released"}
Call    == [by : Flow, method : Methods, answer : {"none", "ok", "refused"},
            paused : BOOLEAN, heard : BOOLEAN]

setPaused(paused) == IF paused THEN "pause" ELSE "resume"

Sent(flow, method) ==
    [by |-> flow, method |-> method, answer |-> "none", paused |-> FALSE,
     heard |-> TRUE]

Init ==
    /\ proc = "running" /\ procPaused = TRUE
    /\ stopping = FALSE /\ shutdownPending = FALSE
    /\ collectionState = TRUE
    /\ \E first \in {[state |-> "importing", method |-> "importLegacy"],
                     [state |-> "resuming", method |-> "resume"]} :
          /\ at = [f \in Flow |-> IF f = "startup" THEN first.state ELSE "idle"]
          /\ calls = <<Sent("startup", first.method)>>
    /\ reply = [f \in Flow |-> IF f = "startup" THEN "waiting" ELSE "none"]
    /\ saved = [f \in Flow |-> TRUE]
    /\ migrationError = FALSE
    /\ collectorRecoveryNeeded = FALSE
    /\ recoveryTimer = FALSE /\ stableTimer = FALSE
    /\ recoveryAttempts = 0
    /\ crashes = 0 /\ timeouts = 0 /\ operations = 0
    /\ wanted = TRUE
    /\ lost = FALSE /\ missed = FALSE /\ late = FALSE

-----------------------------------------------------------------------------
(* The flags of main.cjs that follow from where the flows stand.           *)

migrationBusy    == at["import"] # "idle"
installingUpdate == at["update"] \notin {"idle", "prepare"}
startupSettled   == at["startup"] = "idle"
recoveryFlight   == at["recovery"] # "idle"
quitting         == at["quit"] \notin {"idle", "confirm"}

Over == at["quit"] = "done" \/ at["update"] = "launched"
Idle == ~Over /\ \A f \in Flow : reply[f] \in {"none", "waiting", "held"}
Dialog == at["import"] \in {"directory", "overlap"} \/ at["page"] = "dialog"

\* Mutant: an import does not hold recovery back.
recoverDuringImport ==
    /\ startupSettled /\ ~Over /\ ~shutdownPending /\ ~migrationError
    /\ ~installingUpdate /\ at["quit"] = "idle"

canRecoverCollector ==
    /\ startupSettled
    /\ ~Over
    /\ ~shutdownPending
    /\ ~migrationBusy
    /\ ~migrationError
    /\ ~installingUpdate
    /\ at["quit"] = "idle"

\* Mutant: the attempts are not counted.
mayTryAgain == TRUE

mayTry == recoveryAttempts < MaxAttempts

\* After everything else the step does.
scheduleCollectorRecovery ==
    recoveryTimer' = (recoveryTimer \/
        (collectorRecoveryNeeded' /\ canRecoverCollector' /\ ~recoveryFlight' /\ mayTry))

-----------------------------------------------------------------------------
(* BackendClient: request, dispatch, failAll and the exit of the process.  *)

\* Only a shutdown is sent while one is pending; a request starts the process
\* when there is none.
request(flow, method, where, replies) ==
    /\ at' = where
    /\ IF shutdownPending
       THEN /\ reply' = [replies EXCEPT ![flow] = "failed"]
            /\ UNCHANGED procVars
       ELSE /\ reply' = [replies EXCEPT ![flow] = "waiting"]
            /\ calls' = Append(calls, Sent(flow, method))
            /\ proc' = IF proc = "none" THEN "running" ELSE proc
            /\ procPaused' = (proc = "none" \/ procPaused)
            /\ stopping' = (proc # "none" /\ stopping)
            /\ UNCHANGED shutdownPending

Move(flow, state) == [at EXCEPT ![flow] = state]
Taken(flow) == [reply EXCEPT ![flow] = "none"]

Ask(flow, method, state) ==
    request(flow, method, Move(flow, state), Taken(flow))

Stay(flow, state) ==
    /\ at' = Move(flow, state)
    /\ reply' = Taken(flow)
    /\ UNCHANGED procVars

Await(flow, state) ==
    /\ at' = Move(flow, state)
    /\ reply' = [reply EXCEPT ![flow] = "waiting"]

\* stopGracefully and stop: the shutdown is the last request that is let in.
Shutdown(flow) ==
    /\ Await(flow, "shutdown")
    /\ stopping' = TRUE /\ shutdownPending' = TRUE
    /\ calls' = Append(calls, Sent(flow, "shutdown"))
    /\ UNCHANGED <<proc, procPaused>>

\* The process handles its requests in order.
Handle ==
    /\ Idle
    /\ proc = "running"
    /\ \E k \in DOMAIN calls :
          /\ calls[k].answer = "none"
          /\ \A j \in 1 .. k - 1 : calls[j].answer # "none"
          /\ procPaused' = CASE calls[k].method = "pause"  -> TRUE
                             [] calls[k].method = "resume" -> FALSE
                             [] OTHER -> procPaused
          /\ \E answer \in {"ok", "refused"} :
                /\ answer = "refused" =>
                      calls[k].method \in {"importLegacy", "setAppCollection", "shutdown"}
                /\ calls' = [calls EXCEPT ![k].answer = answer,
                                          ![k].paused = procPaused']
                /\ proc' = IF calls[k].method = "shutdown" /\ answer = "ok"
                           THEN "leaving" ELSE proc
    /\ UNCHANGED <<stopping, shutdownPending, collectionState, flowVars,
                   migrationError, recoveryVars, budgetVars, historyVars>>

\* dispatch: an answer nobody waits for is dropped.  A process that refuses to
\* shut down for an update (it could not save) is kept.
Deliver ==
    /\ Idle
    /\ calls # <<>>
    /\ LET call == Head(calls)
       IN  /\ call.answer # "none"
           /\ calls' = Tail(calls)
           /\ reply' = IF call.heard THEN [reply EXCEPT ![call.by] = call.answer]
                       ELSE reply
           /\ collectionState' = IF call.heard /\ call.method \in {"pause", "resume"}
                                 THEN call.paused ELSE collectionState
           /\ saved' = IF call.heard /\ call.method = "hello"
                       THEN [saved EXCEPT ![call.by] = call.paused] ELSE saved
           /\ IF call.by = "update" /\ call.heard
                    /\ call.method = "shutdown" /\ call.answer = "refused"
              THEN shutdownPending' = FALSE /\ stopping' = FALSE
              ELSE UNCHANGED <<shutdownPending, stopping>>
    /\ UNCHANGED <<proc, procPaused, at, migrationError, recoveryVars,
                   budgetVars, historyVars>>

Asking(flow) == {k \in DOMAIN calls : calls[k].by = flow /\ calls[k].heard}

\* What an exit tells the flow: its request fails, its wait for the exit ends.
Told(flow, clean) ==
    CASE Asking(flow) # {} -> "failed"
      [] Asking(flow) = {} /\ at[flow] \in {"exiting", "waiting"} ->
            IF clean \/ at[flow] = "waiting" \/ flow = "quit" THEN "ok" ELSE "failed"
      [] OTHER -> reply[flow]

Exited(clean) ==
    /\ proc' = "none"
    /\ calls' = <<>>
    /\ shutdownPending' = FALSE
    /\ reply' = [f \in Flow |-> Told(f, clean)]
    /\ UNCHANGED <<at, migrationError>>
    /\ IF stopping
       THEN UNCHANGED recoveryVars
       ELSE /\ collectorRecoveryNeeded' = TRUE
            /\ stableTimer' = FALSE
            /\ UNCHANGED recoveryAttempts
            /\ recoveryTimer' = (canRecoverCollector' /\ ~recoveryFlight /\ mayTry)
    /\ UNCHANGED <<procPaused, stopping, collectionState, saved, timeouts,
                   operations, historyVars>>

Exit ==
    /\ Idle
    /\ proc = "leaving"
    /\ Exited(TRUE)
    /\ UNCHANGED crashes

Crash ==
    /\ Idle
    /\ proc # "none"
    /\ crashes < MaxCrashes
    /\ crashes' = crashes + 1
    /\ Exited(FALSE)

\* A request that timed out is no longer waited for, but is still executed.
Timeout ==
    /\ Idle
    /\ timeouts < MaxTimeouts
    /\ timeouts' = timeouts + 1
    /\ \E f \in Flow :
          /\ reply[f] = "waiting"
          /\ reply' = [reply EXCEPT ![f] = "failed"]
          /\ calls' = [k \in DOMAIN calls |->
                          IF k \in Asking(f) THEN [calls[k] EXCEPT !.heard = FALSE]
                          ELSE calls[k]]
          /\ late' = (late \/ \E k \in Asking(f) : calls[k].method \in {"pause", "resume"})
    /\ UNCHANGED <<proc, procPaused, stopping, shutdownPending, collectionState,
                   at, saved, migrationError, recoveryVars, crashes, operations,
                   wanted, lost, missed>>

-----------------------------------------------------------------------------
(* Startup.                                                                *)

Got(flow, states, answers) == at[flow] \in states /\ reply[flow] \in answers

Startup ==
    \/ /\ Got("startup", {"importing"}, {"ok"})
       /\ Ask("startup", "resume", "resuming")
       /\ UNCHANGED <<migrationError, recoveryVars, wanted>>
    \* Records that overlap with old ones do not stop collection.
    \/ /\ Got("startup", {"importing"}, {"refused"})
       /\ Ask("startup", "resume", "overlap")
       /\ migrationError' = TRUE
       /\ UNCHANGED <<recoveryVars, wanted>>
    \/ /\ \/ /\ Got("startup", {"resuming", "overlap"}, {"ok"})
             /\ migrationError' = FALSE
             /\ wanted' = FALSE
          \/ /\ Got("startup", {"importing"}, {"refused", "failed"})
                   \/ Got("startup", {"resuming", "overlap"}, {"failed"})
             /\ migrationError' = TRUE
             /\ UNCHANGED wanted
       /\ Stay("startup", "idle")
       /\ UNCHANGED <<collectorRecoveryNeeded, stableTimer, recoveryAttempts>>
       /\ scheduleCollectorRecovery

(* Recovery.                                                               *)

\* recoverCollector, up to its first await, with the flows where they are.
BeginRecovery(where, replies) ==
    /\ canRecoverCollector /\ mayTry /\ ~recoveryFlight
    /\ recoveryTimer' = FALSE
    /\ recoveryAttempts' = recoveryAttempts + 1
    /\ saved' = [saved EXCEPT !["recovery"] = collectionState]
    /\ \/ request("recovery", "setAppCollection",
                  [where EXCEPT !["recovery"] = "apps"], replies)
       \/ request("recovery", setPaused(collectionState),
                  [where EXCEPT !["recovery"] = "settings"], replies)
    /\ late' = (late \/ \E k \in DOMAIN calls : calls[k].method \in {"pause", "resume"})
    /\ UNCHANGED <<collectorRecoveryNeeded, stableTimer>>

RecoveryTimer ==
    /\ Idle
    /\ recoveryTimer
    /\ IF canRecoverCollector /\ mayTry
       THEN BeginRecovery(at, reply)
       ELSE /\ recoveryTimer' = FALSE
            /\ UNCHANGED <<procVars, flowVars, collectorRecoveryNeeded,
                           stableTimer, recoveryAttempts, late>>
    /\ UNCHANGED <<collectionState, migrationError, budgetVars, wanted, lost,
                   missed>>

\* A collector that stays up for 30 s has earned all its attempts back.
StableTimer ==
    /\ Idle
    /\ stableTimer
    /\ stableTimer' = FALSE
    /\ recoveryAttempts' = IF proc # "none" /\ ~collectorRecoveryNeeded THEN 0
                           ELSE recoveryAttempts
    /\ UNCHANGED <<procVars, collectionState, flowVars, migrationError,
                   collectorRecoveryNeeded, recoveryTimer, budgetVars,
                   historyVars>>

\* The flight is over, and with it the wait of a page that joined it.
EndRecovery(answer) ==
    /\ at' = Move("recovery", "idle")
    /\ reply' = [Taken("recovery") EXCEPT !["page"] =
                    IF @ = "held" THEN answer ELSE @]
    /\ UNCHANGED <<procVars, recoveryAttempts, migrationError>>
    /\ scheduleCollectorRecovery

Recovery ==
    \/ /\ Got("recovery", {"apps"}, {"ok"})
       /\ canRecoverCollector
       /\ Ask("recovery", setPaused(saved["recovery"]), "settings")
       /\ UNCHANGED <<migrationError, recoveryVars, missed>>
    \/ /\ \/ Got("recovery", {"apps", "settings"}, {"refused", "failed"})
          \/ Got("recovery", {"apps"}, {"ok"}) /\ ~canRecoverCollector
       /\ UNCHANGED <<collectorRecoveryNeeded, stableTimer, missed>>
       /\ EndRecovery("failed")
    \/ /\ Got("recovery", {"settings"}, {"ok"})
       /\ collectorRecoveryNeeded' = FALSE
       /\ stableTimer' = TRUE
       /\ missed' = FALSE
       /\ EndRecovery("released")

-----------------------------------------------------------------------------
(* The page: backend:request and requestBackend.                           *)

Operation == Idle /\ operations < MaxOperations /\ operations' = operations + 1

\* requestBackend.  A page is held by a recovery, its own or one under way.
requestBackend(method) ==
    IF collectorRecoveryNeeded /\ canRecoverCollector /\ ~recoveryFlight /\ mayTry
    THEN BeginRecovery(Move("page", method), [reply EXCEPT !["page"] = "held"])
    ELSE /\ UNCHANGED <<recoveryVars, saved, late>>
         /\ IF recoveryFlight
            THEN /\ at' = Move("page", method)
                 /\ reply' = [reply EXCEPT !["page"] = "held"]
                 /\ UNCHANGED procVars
            ELSE IF collectorRecoveryNeeded /\ (canRecoverCollector \/ proc = "none")
            THEN Stay("page", "idle")
            ELSE Ask("page", method, method)

PageAsks ==
    /\ Operation
    /\ at["page"] = "idle"
    /\ startupSettled /\ ~installingUpdate /\ ~quitting
    /\ \E method \in {"pause", "resume", "snapshot"} :
          /\ method # "snapshot" => ~migrationBusy /\ ~Dialog
          /\ IF method = "resume" /\ migrationError
             THEN /\ at' = Move("page", "dialog")
                  /\ UNCHANGED <<procVars, reply, saved, recoveryVars, late>>
             ELSE requestBackend(method)
    /\ UNCHANGED <<collectionState, migrationError, crashes, timeouts, wanted,
                   lost, missed>>

\* Resume without the old data?
PageAnswers ==
    /\ Idle
    /\ at["page"] = "dialog"
    /\ reply' = [reply EXCEPT !["page"] = "ok"]
    /\ \/ at' = Move("page", "idle") /\ UNCHANGED migrationError
       \/ migrationError' = FALSE /\ UNCHANGED at
    /\ UNCHANGED <<procVars, collectionState, saved, recoveryVars, budgetVars,
                   historyVars>>

Page ==
    \/ /\ Got("page", {"dialog"}, {"ok"})
       /\ IF installingUpdate \/ quitting
          THEN Stay("page", "idle") /\ UNCHANGED <<saved, recoveryVars, late>>
          ELSE requestBackend("resume")
       /\ UNCHANGED wanted
    \/ /\ Got("page", {"pause", "resume", "snapshot"}, {"released"})
       /\ Ask("page", at["page"], at["page"])
       /\ UNCHANGED <<saved, recoveryVars, wanted, late>>
    \/ /\ Got("page", {"idle", "pause", "resume", "snapshot"}, {"ok", "failed"})
       /\ Stay("page", "idle")
       /\ wanted' = IF reply["page"] = "ok" /\ at["page"] \in {"pause", "resume"}
                    THEN at["page"] = "pause" ELSE wanted
       /\ UNCHANGED <<saved, recoveryVars, late>>

-----------------------------------------------------------------------------
(* legacy:import.                                                          *)

ImportAsks ==
    /\ Operation
    /\ ~Dialog
    /\ startupSettled /\ ~installingUpdate
    /\ ~recoveryFlight /\ ~collectorRecoveryNeeded
    /\ ~migrationBusy
    /\ at' = Move("import", "directory")
    /\ UNCHANGED <<procVars, collectionState, reply, saved, migrationError,
                   recoveryVars, crashes, timeouts, historyVars>>

EndImport ==
    /\ Stay("import", "idle")
    /\ UNCHANGED <<collectorRecoveryNeeded, stableTimer, recoveryAttempts>>
    /\ scheduleCollectorRecovery

\* The directory is chosen, or the question about overlaps is answered.
ImportAnswers ==
    /\ Idle
    /\ \/ /\ at["import"] = "directory"
          /\ UNCHANGED migrationError
          /\ \/ EndImport /\ UNCHANGED lost
             \/ /\ Ask("import", "hello", "hello")
                /\ lost' = (lost \/ collectorRecoveryNeeded)
                /\ UNCHANGED recoveryVars
       \/ /\ at["import"] = "overlap"
          /\ \/ Ask("import", "importLegacy", "importing")
             \/ Ask("import", "pause", "giving up")
          /\ UNCHANGED <<migrationError, recoveryVars, lost>>
    /\ UNCHANGED <<collectionState, saved, budgetVars, wanted, missed, late>>

Import ==
    \/ /\ \/ Got("import", {"hello"}, {"ok"}) /\ Ask("import", "pause", "pausing")
          \/ /\ Got("import", {"pausing"}, {"ok"})
             /\ Ask("import", "importLegacy", "importing")
          \/ Got("import", {"importing"}, {"refused"}) /\ Stay("import", "overlap")
          \/ /\ Got("import", {"hello", "pausing", "importing", "restoring"},
                    {"refused", "failed"})
             /\ Ask("import", "pause", "giving up")
       /\ UNCHANGED <<migrationError, recoveryVars, wanted>>
    \/ /\ Got("import", {"importing"}, {"ok"})
       /\ migrationError' = FALSE
       /\ Ask("import", setPaused(saved["import"]), "restoring")
       /\ UNCHANGED <<recoveryVars, wanted>>
    \/ /\ Got("import", {"restoring"}, {"ok"})
       /\ UNCHANGED <<migrationError, wanted>>
       /\ EndImport
    \/ /\ Got("import", {"giving up"}, {"ok", "failed"})
       /\ migrationError' = TRUE
       /\ wanted' = collectionState
       /\ EndImport

-----------------------------------------------------------------------------
(* The update: beforeInstall, launchInstaller, recoverAfterUpdateFailure.  *)

\* assertReady
ready ==
    /\ at["quit"] = "idle"
    /\ ~recoveryFlight /\ ~collectorRecoveryNeeded
    /\ ~migrationBusy /\ ~migrationError

UpdateAsks ==
    /\ Operation
    /\ ~Dialog
    /\ startupSettled
    /\ at["update"] = "idle"
    /\ ready
    /\ at' = Move("update", "prepare")
    /\ UNCHANGED <<procVars, collectionState, reply, saved, migrationError,
                   recoveryVars, crashes, timeouts, historyVars>>

\* Mutant of stillReady: what happened while the settings were being saved is
\* not looked at.
readyBefore == TRUE

stillReady == ready

\* The settings are saved.
UpdatePrepared ==
    /\ Idle
    /\ at["update"] = "prepare"
    /\ \/ /\ stillReady
          /\ Ask("update", "hello", "hello")
          /\ recoveryTimer' = FALSE /\ stableTimer' = FALSE
          /\ UNCHANGED <<collectorRecoveryNeeded, recoveryAttempts>>
       \/ Stay("update", "idle") /\ UNCHANGED recoveryVars
    /\ UNCHANGED <<collectionState, saved, migrationError, budgetVars,
                   historyVars>>

\* Mutant of restore: the collector is resumed whatever it did before.
restoreRunning == Ask("update", "resume", "restoring")

restore == Ask("update", setPaused(saved["update"]), "restoring")

\* Application collection comes first if it was enabled.
Restore == Ask("update", "setAppCollection", "apps") \/ restore

\* recoverAfterUpdateFailure: not before the old process is gone.
Recover ==
    \/ shutdownPending /\ Await("update", "waiting") /\ UNCHANGED procVars
    \/ ~shutdownPending /\ Restore

\* The installer is launched, or the hand-over fails.
UpdateLaunched ==
    /\ Idle
    /\ at["update"] = "launching"
    /\ Stay("update", "launched") \/ Recover
    /\ UNCHANGED <<collectionState, saved, migrationError, recoveryVars,
                   budgetVars, historyVars>>

\* The user asks for the recovery again.
UpdateRecovered ==
    /\ Operation
    /\ at["update"] = "protected"
    /\ Recover
    /\ UNCHANGED <<collectionState, saved, migrationError, recoveryVars,
                   crashes, timeouts, historyVars>>

Update ==
    \/ /\ \/ Got("update", {"hello"}, {"ok"}) /\ Ask("update", "pause", "pausing")
          \/ Got("update", {"pausing"}, {"ok"}) /\ Shutdown("update")
          \/ /\ Got("update", {"shutdown"}, {"ok"})
             /\ IF proc = "none" THEN Stay("update", "launching")
                ELSE Await("update", "exiting") /\ UNCHANGED procVars
          \/ Got("update", {"exiting"}, {"ok"}) /\ Stay("update", "launching")
          \/ /\ Got("update", {"pausing", "shutdown", "exiting"}, {"refused", "failed"})
             /\ Recover
          \/ Got("update", {"waiting"}, {"ok"}) /\ Restore
          \/ Got("update", {"apps"}, {"ok"}) /\ restore
          \/ /\ Got("update", {"waiting", "apps", "restoring"}, {"refused", "failed"})
             /\ Stay("update", "protected")
          \/ Got("update", {"restoring"}, {"ok"}) /\ Stay("update", "idle")
       /\ UNCHANGED missed
    \* Nothing was paused yet.
    \/ /\ Got("update", {"hello"}, {"failed"})
       /\ Stay("update", "idle")
       /\ missed' = collectorRecoveryNeeded

-----------------------------------------------------------------------------
(* before-quit, and BackendClient.stop.                                    *)

QuitAsks ==
    /\ Operation
    /\ ~installingUpdate
    /\ at["quit"] = "idle"
    /\ at' = Move("quit", "confirm")
    /\ UNCHANGED <<procVars, collectionState, reply, saved, migrationError,
                   recoveryVars, crashes, timeouts, historyVars>>

QuitAnswers ==
    /\ Idle
    /\ at["quit"] = "confirm"
    /\ UNCHANGED migrationError
    /\ \/ /\ Stay("quit", "idle")
          /\ UNCHANGED <<collectorRecoveryNeeded, stableTimer, recoveryAttempts>>
          /\ scheduleCollectorRecovery
       \/ /\ IF proc = "none" THEN Stay("quit", "done") ELSE Shutdown("quit")
          /\ recoveryTimer' = FALSE /\ stableTimer' = FALSE
          /\ UNCHANGED <<collectorRecoveryNeeded, recoveryAttempts>>
    /\ UNCHANGED <<collectionState, saved, budgetVars, historyVars>>

\* Whatever the answer, the exit is awaited, and in the end forced.
Quit ==
    \/ /\ Got("quit", {"shutdown"}, {"ok", "refused", "failed"})
       /\ IF proc = "none" THEN Stay("quit", "done")
          ELSE Await("quit", "exiting") /\ UNCHANGED procVars
    \/ Got("quit", {"exiting"}, {"ok", "failed"}) /\ Stay("quit", "done")

-----------------------------------------------------------------------------
Continue ==
    \/ Page /\ UNCHANGED <<migrationError, missed>>
    \/ /\ UNCHANGED <<saved, late>>
       /\ \/ Startup  /\ UNCHANGED missed
          \/ Recovery /\ UNCHANGED wanted
          \/ Import   /\ UNCHANGED missed
          \/ Update   /\ UNCHANGED <<migrationError, recoveryVars, wanted>>
          \/ Quit     /\ UNCHANGED <<migrationError, recoveryVars, wanted, missed>>

Continuation ==
    /\ ~Over
    /\ Continue
    /\ UNCHANGED <<collectionState, budgetVars, lost>>

Next ==
    \/ Handle
    \/ Deliver
    \/ Exit
    \/ Crash
    \/ Timeout
    \/ RecoveryTimer
    \/ StableTimer
    \/ PageAsks
    \/ PageAnswers
    \/ ImportAsks
    \/ ImportAnswers
    \/ UpdateAsks
    \/ UpdatePrepared
    \/ UpdateLaunched
    \/ UpdateRecovered
    \/ QuitAsks
    \/ QuitAnswers
    \/ Continuation

Spec == Init /\ [][Next]_vars

-----------------------------------------------------------------------------
TypeOK ==
    /\ proc \in {"none", "running", "leaving"} /\ procPaused \in BOOLEAN
    /\ calls \in Seq(Call)
    /\ stopping \in BOOLEAN /\ shutdownPending \in BOOLEAN
    /\ collectionState \in BOOLEAN
    /\ \A f \in Flow : at[f] \in States[f] /\ reply[f] \in Replies
    /\ saved \in [Flow -> BOOLEAN]
    /\ migrationError \in BOOLEAN
    /\ recoveryTimer \in BOOLEAN /\ stableTimer \in BOOLEAN
    /\ collectorRecoveryNeeded \in BOOLEAN
    /\ recoveryAttempts \in 0 .. MaxAttempts

(***************************************************************************)
(* An import is executed only by a collector that is paused, whatever      *)
(* dies, is recovered or asked for while the import goes on.               *)
(***************************************************************************)
ImportIsolated ==
    \A k \in DOMAIN calls :
        calls[k].method = "importLegacy" /\ calls[k].answer = "none"
                /\ proc = "running" /\ (\A j \in 1 .. k - 1 : calls[j].answer # "none")
                /\ calls[k].heard
            => procPaused

\* Nothing goes on, and nothing is going to happen of itself.
AtRest ==
    /\ Idle
    /\ calls = <<>>
    /\ \A f \in Flow : at[f] = "idle"
    /\ ~recoveryTimer

GaveUp == collectorRecoveryNeeded /\ recoveryAttempts = MaxAttempts

(***************************************************************************)
(* When the host comes to rest after crashes, imports, failed updates and  *)
(* canceled exits, the collector runs again and is paused exactly if the   *)
(* user left it paused, unless the attempts are used up or the import of   *)
(* old data failed and collection waits for the user.  The two exceptions  *)
(* are a process that dies while an import asks for its directory (lost)   *)
(* or while an update asks for the pause state (missed).                   *)
(***************************************************************************)
SettingsKept ==
    AtRest /\ ~migrationError /\ ~GaveUp /\ ~lost /\ ~missed /\ ~late
        => proc = "running" /\ procPaused = wanted

(***************************************************************************)
(* From the exit of the collector until the installer is launched nothing  *)
(* starts a collector again.                                               *)
(***************************************************************************)
InstallerAlone == at["update"] \in {"launching", "launched"} => proc = "none"

-----------------------------------------------------------------------------
\* process-lifecycle.test.js: a collector crash restores the last successful
\* collection settings.  Not if it happens while an import asks for its
\* directory: the import takes the pause of the new process for the user's.
RestoresLastSettings ==
    AtRest /\ ~migrationError /\ ~collectorRecoveryNeeded /\ ~late
        => procPaused = wanted
=============================================================================
