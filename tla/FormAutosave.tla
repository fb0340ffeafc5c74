---------------------------- MODULE FormAutosave ----------------------------
(***************************************************************************)
(* Saving a settings form while it is edited (renderer/ui/autosave.js and  *)
(* form-autosave.js): every field has its own debounce, one batch is       *)
(* written at a time, a failed batch waits for a retry.  Shortening the    *)
(* retention asks the user first and is followed by pruning the records    *)
(* and reloading them; those follow-ups survive a failed save.             *)
(*                                                                         *)
(* "unit" stands for the settings without follow-up.  Callers discard a    *)
(* form after flushing it, while no batch is being written.                *)
(***************************************************************************)
EXTENDS Naturals

CONSTANTS
    Retentions, \* days, 0 keeps everything
    Units, Bad, \* values of the other field, and an invalid input
    Nothing,    \* no batch, no follow-up
    MaxEdits, MaxFailures \* bounds

VARIABLES
    shown,          \* what the inputs of the form show
    settings,       \* the page's copy of the settings
    stored,         \* the settings in the database
    kept,           \* the retention the records were last pruned to
    pendingFields, errors, running, failure, \* createAutosave
    followup,       \* pendingRetentionFollowup: the value and the stage it is in
    refused,        \* history: the user refused the retention shown before
    confirmed,      \* history: retentions the user confirmed
    promised,       \* history: the confirmed retention in force, if any
    edits, failures

vars == <<shown, settings, stored, kept, pendingFields, errors, running, failure,
          followup, refused, confirmed, promised, edits, failures>>
dataVars == <<settings, stored, kept>>
historyVars == <<refused, confirmed, promised>>

Fields == {"retention", "unit"}
Values == [retention : Retentions, unit : Units]
Inputs(f) == IF f = "unit" THEN Units \cup {Bad} ELSE Retentions
\* A patch waiting to be written; task: "settings" was confirmed, "followup"
\* is the pending follow-up.
Entry == [value : Retentions \cup Units, ready : BOOLEAN, task : {"none", "settings", "followup"}]
Waiting == UNION {[S -> Entry] : S \in SUBSET Fields}
Steps == {"confirm", "settings", "prune", "reload"}

\* Type invariant.
TypeOK ==
    /\ shown \in [retention : Retentions, unit : Units \cup {Bad}]
    /\ settings \in Values /\ stored \in Values /\ kept \in Retentions
    /\ pendingFields \in Waiting /\ errors \subseteq Fields
    /\ running = Nothing \/ running \in [batch : Waiting, skip : BOOLEAN, step : Steps]
    /\ followup = Nothing \/ followup \in [value : Retentions, stage : {"prune", "reload"}]
    /\ {failure, refused} \subseteq BOOLEAN /\ confirmed \subseteq Retentions
    /\ promised \in Retentions \cup {Nothing}
    /\ edits \in 0..MaxEdits /\ failures \in 0..MaxFailures

Init ==
    /\ stored \in Values /\ settings = stored /\ shown = stored
    /\ kept = 0
    /\ pendingFields = <<>> /\ errors = {} /\ running = Nothing /\ failure = FALSE
    /\ followup = Nothing /\ refused = FALSE /\ confirmed = {} /\ promised = Nothing
    /\ edits = 0 /\ failures = 0

-----------------------------------------------------------------------------
(* autosave.js *)

dirty == running # Nothing \/ pendingFields # <<>> \/ errors # {}
Has(f) == f \in DOMAIN pendingFields \cup errors \/ (running # Nothing /\ f \in DOMAIN running.batch)
Put(waiting, f, entry) == [g \in DOMAIN waiting \cup {f} |-> IF g = f THEN entry ELSE waiting[g]]
Without(waiting, S) == [g \in DOMAIN waiting \ S |-> waiting[g]]

\* A shorter retention deletes records.
Shorter(new, old) == new > 0 /\ (old = 0 \/ new < old)

\* writeSettings, up to its first await: which follow-up the retention of
\* the batch belongs to, and whether the user must confirm it.
Begin(batch, data, pending) ==
    LET live == IF pending # Nothing /\ data.retention # pending.value THEN Nothing ELSE pending
        entry == batch.retention
        task == IF entry.task # "none" THEN entry.task
                ELSE IF live # Nothing /\ entry.value = live.value THEN "followup" ELSE "none"
    IN  IF "retention" \notin DOMAIN batch
        THEN [batch |-> batch, skip |-> TRUE, step |-> "settings"]
        ELSE [batch |-> Put(batch, "retention", [entry EXCEPT !.task = task]),
              skip |-> task = "followup",
              step |-> IF task = "none" /\ Shorter(entry.value, data.retention)
                       THEN "confirm" ELSE "settings"]

\* drain(): the ready fields become the next batch, unless one is being
\* written or has failed.
Drain(waiting, busy, failed, data, pending) ==
    LET ready == {f \in DOMAIN waiting : waiting[f].ready}
    IN  IF busy # Nothing \/ failed \/ ready = {}
        THEN pendingFields' = waiting /\ running' = busy /\ followup' = pending
        ELSE /\ pendingFields' = Without(waiting, ready)
             /\ running' = Begin(Without(waiting, DOMAIN waiting \ ready), data, pending)
             /\ followup' = IF pending # Nothing /\ data.retention # pending.value
                            THEN Nothing ELSE pending

Asking == running # Nothing /\ running.step = "confirm"

\* edit(): an input changed, or was left (immediate).
Edit(f, value, immediate) ==
    /\ ~Asking /\ edits < MaxEdits /\ value # shown[f]
    /\ edits' = edits + 1
    /\ shown' = [shown EXCEPT ![f] = value]
    /\ refused' = (refused /\ f # "retention")
    /\ IF value = Bad
       THEN /\ errors' = errors \cup {f}
            /\ pendingFields' = Without(pendingFields, {f})
            /\ UNCHANGED <<running, followup>>
       ELSE IF ~Has(f) /\ settings[f] = value
       THEN UNCHANGED <<errors, pendingFields, running, followup>>
       ELSE /\ errors' = errors \ {f}
            /\ Drain(Put(pendingFields, f, [value |-> value, ready |-> immediate, task |-> "none"]),
                     running, failure \/ ~immediate, settings, followup)
    /\ UNCHANGED <<dataVars, failure, confirmed, promised, failures>>

\* The debounce of 400 ms ends, or the input loses the focus.
Expedite(f) ==
    /\ ~Asking /\ f \in DOMAIN pendingFields /\ ~pendingFields[f].ready
    /\ Drain([pendingFields EXCEPT ![f].ready = TRUE], running, failure, settings, followup)
    /\ UNCHANGED <<shown, dataVars, errors, failure, historyVars, edits, failures>>

\* flush(): by the retry button, before leaving the form, or before an exit.
Flush ==
    /\ ~Asking /\ pendingFields # <<>>
    /\ failure' = FALSE
    /\ Drain([f \in DOMAIN pendingFields |-> [pendingFields[f] EXCEPT !.ready = TRUE]],
             running, FALSE, settings, followup)
    /\ UNCHANGED <<shown, dataVars, errors, historyVars, edits, failures>>

\* discard(): the form is drawn again from the settings.
Discard ==
    /\ running = Nothing /\ dirty
    /\ pendingFields' = <<>> /\ errors' = {} /\ failure' = FALSE /\ followup' = Nothing
    /\ shown' = settings /\ refused' = FALSE
    /\ confirmed' = {} /\ promised' = Nothing
    /\ UNCHANGED <<dataVars, running, edits, failures>>

-----------------------------------------------------------------------------
(* writeSettings, from await to await. *)

\* Mutant of Failed: the fields of the batch are forgotten.
FailedForgetting ==
    /\ failures < MaxFailures /\ failures' = failures + 1
    /\ failure' = TRUE /\ running' = Nothing
    /\ UNCHANGED <<pendingFields, shown, errors, refused, edits>>

\* The batch failed: its fields wait again unless they were edited meanwhile.
Failed ==
    /\ failures < MaxFailures /\ failures' = failures + 1
    /\ failure' = TRUE /\ running' = Nothing
    /\ pendingFields' = [f \in DOMAIN pendingFields \cup (DOMAIN running.batch \ errors) |->
                            IF f \in DOMAIN pendingFields THEN pendingFields[f] ELSE running.batch[f]]
    /\ UNCHANGED <<shown, errors, refused, edits>>

\* The user answers; while an update prepares to exit, asking fails.
Confirm ==
    /\ running # Nothing /\ running.step = "confirm"
    /\ LET entry == running.batch.retention
       IN  \/ /\ running' = [running EXCEPT !.step = "settings", !.batch.retention.task = "settings"]
              /\ confirmed' = confirmed \cup {entry.value}
              /\ UNCHANGED <<shown, refused, promised, failure, pendingFields, errors, edits, failures>>
           \/ /\ running' = [running EXCEPT !.step = "settings", !.skip = TRUE]
              /\ IF shown.retention = entry.value
                 THEN shown' = [shown EXCEPT !.retention = settings.retention] /\ refused' = TRUE
                 ELSE UNCHANGED <<shown, refused>>
              /\ promised' = Nothing
              /\ UNCHANGED <<confirmed, failure, pendingFields, errors, edits, failures>>
           \/ Failed /\ UNCHANGED <<confirmed, promised>>
    /\ UNCHANGED <<dataVars, followup>>

\* The settings the batch changes; none when all was skipped.
Patched(old) ==
    [f \in Fields |-> IF f \in DOMAIN running.batch /\ (f # "retention" \/ ~running.skip)
                      THEN running.batch[f].value ELSE old[f]]

WriteSettings ==
    /\ running # Nothing /\ running.step = "settings"
    /\ \/ LET task == IF "retention" \in DOMAIN running.batch THEN running.batch.retention.task ELSE "none"
          IN  /\ promised' = IF "retention" \notin DOMAIN running.batch \/ running.skip THEN promised
                             ELSE IF task = "settings" THEN running.batch.retention.value ELSE Nothing
              /\ stored' = Patched(stored) /\ settings' = Patched(settings)
              /\ followup' = IF task = "settings" /\ ~running.skip
                             THEN [value |-> running.batch.retention.value, stage |-> "prune"]
                             ELSE IF followup # Nothing /\ ~running.skip /\ settings'.retention # followup.value
                             THEN Nothing ELSE followup
              /\ running' = IF task = "settings" /\ ~running.skip
                            THEN [running EXCEPT !.step = "prune", !.batch.retention.task = "followup"]
                            ELSE IF task = "followup"
                            THEN [running EXCEPT !.step = followup.stage]
                            ELSE [running EXCEPT !.step = "reload"]
              /\ UNCHANGED <<shown, pendingFields, errors, refused, failure, edits, failures>>
       \* the request fails, or its answer is lost
       \/ Failed /\ stored' \in {stored, Patched(stored)} /\ UNCHANGED <<settings, followup, promised>>
    /\ UNCHANGED <<kept, confirmed>>

Prune ==
    /\ running # Nothing /\ running.step = "prune"
    /\ LET pruned == IF Shorter(stored.retention, kept) THEN stored.retention ELSE kept
       IN  \/ /\ kept' = pruned
              /\ followup' = [followup EXCEPT !.stage = "reload"]
              /\ running' = [running EXCEPT !.step = "reload"]
              /\ UNCHANGED <<shown, pendingFields, errors, refused, failure, edits, failures>>
           \/ Failed /\ kept' \in {kept, pruned} /\ UNCHANGED followup
    /\ UNCHANGED <<settings, stored, confirmed, promised>>

\* The reload that ends a follow-up; a batch without one ends at once.
Finish ==
    /\ running # Nothing /\ running.step = "reload"
    /\ LET follows == "retention" \in DOMAIN running.batch /\ running.batch.retention.task = "followup"
       IN  \/ /\ Drain(pendingFields, Nothing, failure, settings, IF follows THEN Nothing ELSE followup)
              /\ UNCHANGED <<shown, errors, refused, failure, edits, failures>>
           \/ follows /\ Failed /\ UNCHANGED followup
    /\ UNCHANGED <<dataVars, confirmed, promised>>

Next ==
    \/ \E f \in Fields, immediate \in BOOLEAN : \E value \in Inputs(f) : Edit(f, value, immediate)
    \/ \E f \in Fields : Expedite(f)
    \/ Flush \/ Discard
    \/ Confirm \/ WriteSettings \/ Prune \/ Finish

Spec == Init /\ [][Next]_vars

-----------------------------------------------------------------------------
(* Properties. *)

\* When the form no longer reports unsaved edits, what it shows is what the
\* database has, whichever edits, failures, retries and refusals came before.
\* (A refused retention can return with a failed batch and be asked for again
\* while the input shows the older one; a page that missed the answer to a
\* save, settings # stored, does not know better until a later save.)
ShownIsStored ==
    ~dirty /\ settings = stored =>
        \A f \in Fields : shown[f] = stored[f] \/ (f = "retention" /\ refused)

\* A shortening that was confirmed and saved is not forgotten half-way: once
\* the form reports everything saved, the records are pruned to it, whatever
\* failed, was retried or edited in between.  (The promise ends when another
\* retention is saved without asking, when a newer shortening is refused, and
\* when the form is discarded: the code drops the pending prune in each case.)
ShorteningIsPruned ==
    ~dirty /\ settings = stored /\ promised # Nothing => ~Shorter(promised, kept)

\* No more records are deleted than the user confirmed for this form.
PruneWasConfirmed ==
    [][kept' # kept => \E retention \in confirmed : ~Shorter(kept', retention)]_vars
=============================================================================
