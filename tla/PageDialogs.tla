---------------------------- MODULE PageDialogs ----------------------------
(***************************************************************************)
(* The one modal dialog of the page, and who waits for it (renderer/app.js). *)
(* Forms save themselves and some of their changes ask first; leaving a    *)
(* page or the drawer, replacing the records and exiting for an update     *)
(* flush the forms and then ask, refuse or go on.  All of them use the     *)
(* same dialog: confirmModal overwrites the callbacks of the dialog before. *)
(*                                                                         *)
(* Of a form (see FormAutosave) only what is unsaved is kept: whether it   *)
(* waits or is being written, and whether it needs a question.  A draft    *)
(* that is invalid behaves like one whose writing failed.  Each of the     *)
(* flows runs once at a time, and the host asks for one update at a time.  *)
(***************************************************************************)
EXTENDS Naturals

CONSTANTS
    Nothing,
    MaxEdits, MaxFailures, MaxActs \* bounds: edits, failed writes, flows and dialogs started

VARIABLES
    pending, running, failed, \* the autosave of each form
    dialog,     \* the modal shown; what its confirm button calls (pendingConfirm), the form
                \* that closing it refuses (pendingAutosaveCancel); history: the forms whose
                \* open question another dialog replaced
    drawer,
    waits,      \* how many batches of each form a flow still waits for
    choosing,   \* restore() waits for the file dialog
    preparingUpdate, updateExitPrepared,
    update,     \* where the host is with an update
    late,       \* history: the host gave up while the page was saving
    edits, failures, acts

vars == <<pending, running, failed, dialog, drawer, waits, choosing, preparingUpdate,
          updateExitPrepared, update, late, edits, failures, acts>>
formVars == <<pending, running, failed>>
updateVars == <<preparingUpdate, updateExitPrepared, update, late>>
countVars == <<edits, failures, acts>>

Forms == {"settings", "total", "network"} \* settingsForm, totalQuotaForm, networkForm
Flows == {"navigate", "drawer", "clear", "replace", "prepare"}
FormsOf(flow) == IF flow = "drawer" THEN {"network"} ELSE Forms
Idle == [f \in Forms |-> 3] \* the flow is not running
NoBatch == [f \in Forms |-> 0]

\* Type invariant.
TypeOK ==
    /\ pending \in [Forms -> {"none", "edit", "question"}]
    /\ running \in [Forms -> {"no", "writing", "asking", "asked"}]
    /\ failed \in [Forms -> BOOLEAN]
    /\ dialog \in [modal : {"none", "confirm", "plain"},
                   confirm : Forms \cup {"navigate", "drawer", "clear", "update", Nothing},
                   cancel : Forms \cup {Nothing}, overwritten : SUBSET Forms]
    /\ waits \in [Flows -> [Forms -> 0..3]]
    /\ {drawer, choosing, preparingUpdate, updateExitPrepared, late} \subseteq BOOLEAN
    /\ update \in {"idle", "checking", "install", "asked"}
    /\ edits \in 0..MaxEdits /\ failures \in 0..MaxFailures /\ acts \in 0..MaxActs

Init ==
    /\ pending = [f \in Forms |-> "none"] /\ running = [f \in Forms |-> "no"]
    /\ failed = [f \in Forms |-> FALSE]
    /\ dialog = [modal |-> "none", confirm |-> Nothing, cancel |-> Nothing, overwritten |-> {}]
    /\ drawer = FALSE /\ waits = [flow \in Flows |-> Idle] /\ choosing = FALSE
    /\ preparingUpdate = FALSE /\ updateExitPrepared = FALSE /\ update = "idle" /\ late = FALSE
    /\ edits = 0 /\ failures = 0 /\ acts = 0

dirty(f) == running[f] # "no" \/ pending[f] # "none"
AllSaved == \A f \in Forms : ~dirty(f)
Asking(f) == running[f] = "asking"

\* syncInert: what can be clicked.  The Escape key works even so.
Inert == preparingUpdate \/ updateExitPrepared
Clickable == dialog.modal = "none" /\ ~Inert
Act == acts < MaxActs /\ acts' = acts + 1

-----------------------------------------------------------------------------
(* The dialog. *)

\* The forms whose question goes on but can no longer be answered by "confirm".
Replaced(d) == {f \in Forms : d.confirm = f /\ Asking(f)}

\* confirmModal.
confirmModal(d, fn) ==
    [d EXCEPT !.modal = "confirm", !.confirm = fn, !.overwritten = @ \cup Replaced(d)]

\* confirmAutosave of several forms in some order: each replaces the one before.
confirmAutosave(d, askers) ==
    IF askers = {} THEN {d}
    ELSE {[modal |-> "confirm", confirm |-> last, cancel |-> last,
           overwritten |-> (d.overwritten \cup askers \cup Replaced(d)) \ {last}] : last \in askers}

\* The dialog without its callback and its refusal.
Cleared(d) == [d EXCEPT !.modal = "none", !.cancel = Nothing]

\* drain() of the forms in S: what waits is written next, or asked for; while
\* an update prepares to exit, asking fails the batch.
Drain(S, waiting, busy, failure, preparing, d) ==
    LET next == {f \in S : busy[f] = "no" /\ ~failure[f] /\ waiting[f] # "none"}
        asking == {f \in next : waiting[f] = "question"}
        refused == IF preparing THEN asking ELSE {}
    IN  /\ pending' = [f \in Forms |-> IF f \in next \ refused THEN "none" ELSE waiting[f]]
        /\ running' = [f \in Forms |-> IF f \in refused \/ f \notin next THEN busy[f]
                                       ELSE IF f \in asking THEN "asking" ELSE "writing"]
        /\ failed' = [f \in Forms |-> failure[f] \/ f \in refused]
        /\ dialog' \in confirmAutosave(d, asking \ refused)

\* flush() of the forms in S.
Flush(S, preparing, d) ==
    Drain(S, pending, running, [f \in Forms |-> failed[f] /\ f \notin S], preparing, d)

\* A flow flushes its forms and waits for the batches written then.
Begin(flow, preparing, d) ==
    /\ waits[flow] = Idle
    /\ Flush(FormsOf(flow), preparing, d)
    /\ waits' = [waits EXCEPT ![flow] =
                    [f \in Forms |-> IF f \in FormsOf(flow) /\ running'[f] # "no" THEN 1 ELSE 0]]

\* discardAutosaves: a batch that is being written goes on.
Discard(S) ==
    /\ pending' = [f \in Forms |-> IF f \in S THEN "none" ELSE pending[f]]
    /\ failed' = [f \in Forms |-> failed[f] /\ f \notin S]

\* The form that asked goes on, with or without the change.
Answered(f) == IF f # Nothing /\ Asking(f) THEN [running EXCEPT ![f] = "asked"] ELSE running

\* What closing the dialog does to the form that asked: its change is dropped.
Refused(d) == Answered(d.cancel)

\* closeModal: by its button, by Escape, or by an export that ended.
CloseModal ==
    /\ dialog.modal # "none"
    /\ running' = Refused(dialog)
    /\ dialog' = [Cleared(dialog) EXCEPT !.overwritten = @ \ {dialog.cancel}]
    /\ UNCHANGED <<pending, failed, drawer, waits, choosing, updateVars, countVars>>

\* showModal of a dialog without a question.
ShowModal ==
    /\ Clickable /\ ~drawer /\ Act /\ dialog' = [dialog EXCEPT !.modal = "plain"]
    /\ UNCHANGED <<formVars, drawer, waits, choosing, updateVars, edits, failures>>

\* The confirm button: the callback of the last confirmModal is called, and
\* pendingAutosaveCancel forgotten.
Confirm ==
    /\ dialog.modal = "confirm" /\ ~Inert
    /\ LET fn == dialog.confirm
           d == [Cleared(dialog) EXCEPT !.confirm = Nothing, !.overwritten = @ \ {fn}]
       IN  \/ /\ fn \in Forms /\ running' = Answered(fn) /\ dialog' = d
              /\ UNCHANGED <<pending, failed, drawer, waits, update>>
           \/ /\ fn \in {"navigate", "drawer"} /\ Discard(FormsOf(fn)) /\ drawer' = FALSE /\ dialog' = d
              /\ UNCHANGED <<running, waits, update>>
           \* saveBeforeDataChange, once more
           \/ /\ fn = "clear" /\ Begin("replace", FALSE, d)
              /\ UNCHANGED <<drawer, update>>
           \* updateAction, which refuses while changes are unsaved
           \/ /\ fn = "update" /\ dialog' = d
              /\ update' = IF update = "idle" /\ AllSaved THEN "install" ELSE update
              /\ UNCHANGED <<formVars, drawer, waits>>
    /\ UNCHANGED <<choosing, preparingUpdate, updateExitPrepared, late, countVars>>

-----------------------------------------------------------------------------
(* The forms. *)

\* A field is changed; those of the drawer's form are behind no other page.
Edit(f, kind) ==
    /\ Clickable /\ drawer = (f = "network") /\ edits < MaxEdits /\ edits' = edits + 1
    /\ Drain({f}, [pending EXCEPT ![f] = IF @ = "question" THEN @ ELSE kind], running, failed, FALSE, dialog)
    /\ UNCHANGED <<drawer, waits, choosing, updateVars, failures, acts>>

\* The retry button of a form.
Retry(f) ==
    /\ Clickable /\ drawer = (f = "network") /\ failed[f]
    /\ Flush({f}, FALSE, dialog)
    /\ UNCHANGED <<drawer, waits, choosing, updateVars, countVars>>

\* flush() goes on after the first batch with the one started meanwhile.
AfterBatch(f) ==
    [flow \in Flows |->
        IF waits[flow] = Idle THEN Idle
        ELSE [waits[flow] EXCEPT ![f] = IF @ = 1 /\ running'[f] # "no" THEN 2 ELSE 0]]

\* A batch is written, or fails and waits again: a confirmed retention does
\* not ask twice, the other questions do.
BatchEnds(f) ==
    /\ running[f] \in {"writing", "asked"}
    /\ \/ /\ Drain({f}, pending, [running EXCEPT ![f] = "no"], failed, preparingUpdate, dialog)
          /\ UNCHANGED failures
       \/ /\ failures < MaxFailures /\ failures' = failures + 1
          /\ \E kind \in IF running[f] = "asked" THEN {"edit", "question"} ELSE {"edit"} :
                pending' = [pending EXCEPT ![f] = IF @ = "none" THEN kind ELSE "question"]
          /\ running' = [running EXCEPT ![f] = "no"] /\ failed' = [failed EXCEPT ![f] = TRUE]
          /\ UNCHANGED dialog
    /\ waits' = AfterBatch(f)
    /\ UNCHANGED <<drawer, choosing, updateVars, edits, acts>>

-----------------------------------------------------------------------------
(* The flows. *)

Flushed(flow) == waits[flow] = NoBatch
Ended(flow) == waits' = [waits EXCEPT ![flow] = Idle]

\* detail: the drawer of a network opens.
OpenDrawer ==
    /\ Clickable /\ ~drawer /\ Act /\ drawer' = TRUE
    /\ UNCHANGED <<formVars, dialog, waits, choosing, updateVars, edits, failures>>

\* navigate() and saveBeforeDataChange() of clearRecords and restore, by a
\* click; requestCloseDrawer() or another tab, also by the Escape key.
Start(flow) ==
    /\ IF flow = "drawer" THEN drawer /\ dialog.modal = "none" ELSE Clickable /\ ~drawer
    /\ Act /\ Begin(flow, preparingUpdate, dialog)
    /\ UNCHANGED <<drawer, choosing, updateVars, edits, failures>>

\* The page, or the drawer, is left, or the user asked what to do with unsaved changes.
Leave(flow) ==
    /\ Flushed(flow) /\ Ended(flow)
    /\ IF \E f \in FormsOf(flow) : dirty(f)
       THEN dialog' = confirmModal(dialog, flow) /\ UNCHANGED drawer
       ELSE drawer' = FALSE /\ UNCHANGED dialog
    /\ UNCHANGED <<formVars, choosing, updateVars, countVars>>

\* clearRecords and restore ask when all is saved; restore opens a file first.
AskClear ==
    /\ Flushed("clear") /\ Ended("clear")
    /\ \/ /\ ~AllSaved /\ UNCHANGED <<dialog, choosing>>
       \/ /\ AllSaved /\ dialog' = confirmModal(dialog, "clear") /\ UNCHANGED choosing
       \/ /\ AllSaved /\ choosing' = TRUE /\ UNCHANGED dialog
    /\ UNCHANGED <<formVars, drawer, updateVars, countVars>>

Chosen ==
    /\ choosing /\ choosing' = FALSE
    /\ dialog' \in {dialog, confirmModal(dialog, "clear")}
    /\ UNCHANGED <<formVars, drawer, waits, updateVars, countVars>>

\* The records are replaced if all is saved still; a restore closes the drawer.
Replace ==
    /\ Flushed("replace") /\ Ended("replace")
    /\ drawer' \in IF AllSaved THEN {drawer, FALSE} ELSE {drawer}
    /\ UNCHANGED <<formVars, dialog, choosing, updateVars, countVars>>

CheckUpdates ==
    /\ Clickable /\ ~drawer /\ update = "idle" /\ Act /\ update' = "checking"
    /\ UNCHANGED <<formVars, dialog, drawer, waits, choosing, preparingUpdate, updateExitPrepared,
                   late, edits, failures>>

\* confirmUpdate, unless a dialog is open.
Checked ==
    /\ update = "checking" /\ update' = "idle"
    /\ dialog' \in {dialog} \cup
          (IF dialog.modal = "none" THEN {confirmModal(dialog, "update")} ELSE {})
    /\ UNCHANGED <<formVars, drawer, waits, choosing, preparingUpdate, updateExitPrepared, late, countVars>>

\* wifimeterPrepareUpdate: refused while a form asks.
PrepareUpdate ==
    /\ update = "install" /\ waits["prepare"] = Idle
    /\ IF dialog.cancel # Nothing
       THEN update' = "idle" /\ UNCHANGED <<formVars, dialog, waits, preparingUpdate, late>>
       ELSE /\ update' = "asked" /\ preparingUpdate' = TRUE /\ late' = FALSE
            /\ Begin("prepare", TRUE, dialog)
    /\ UNCHANGED <<drawer, choosing, updateExitPrepared, countVars>>

\* Its answer; a refusal ends in an error, which the host tells the page.
Prepared ==
    /\ Flushed("prepare") /\ Ended("prepare")
    /\ preparingUpdate' = FALSE /\ updateExitPrepared' = AllSaved
    /\ update' = IF update = "asked" /\ ~AllSaved THEN "idle" ELSE update
    /\ UNCHANGED <<formVars, dialog, drawer, choosing, late, countVars>>

\* The host's call times out after 30 s, or a later step of the update fails:
\* its status lets the page go (renderUpdates).
HostGivesUp ==
    /\ update = "asked" /\ update' = "idle" /\ updateExitPrepared' = FALSE
    /\ late' = (waits["prepare"] # Idle)
    /\ UNCHANGED <<formVars, dialog, drawer, waits, choosing, preparingUpdate, countVars>>

Next ==
    \/ \E f \in Forms : Retry(f) \/ BatchEnds(f) \/ \E kind \in {"edit", "question"} : Edit(f, kind)
    \/ CloseModal \/ ShowModal \/ Confirm \/ OpenDrawer
    \/ \E flow \in {"navigate", "drawer", "clear"} : Start(flow)
    \/ \E flow \in {"navigate", "drawer"} : Leave(flow)
    \/ AskClear \/ Chosen \/ Replace
    \/ CheckUpdates \/ Checked \/ PrepareUpdate \/ Prepared \/ HostGivesUp

Spec == Init /\ [][Next]_vars

-----------------------------------------------------------------------------
(* Properties. *)

\* A form that asks can be answered, and its batch ends, whatever other
\* dialogs come: closing the dialog refuses it.  (Except when another dialog
\* replaced its question: two forms that are flushed at once ask at once, and
\* confirming a later dialog forgets the refusal.  That form then saves no
\* more, and leaving the page waits for it.)
QuestionsAnswered ==
    \A f \in Forms :
        Asking(f) => (dialog.modal # "none" /\ dialog.cancel = f) \/ f \in dialog.overwritten

\* Saving before an update never waits for the user, who cannot click then
\* (the same exception).
SavingAsksNobody ==
    preparingUpdate => \A f \in Forms : Asking(f) => f \in dialog.overwritten

\* A page prepared to exit for an update has nothing unsaved.
PreparedIsSaved == updateExitPrepared => AllSaved

\* The page takes no clicks only while the host is at an update.  (Except
\* when the host gave up before the page had saved: the page does not learn
\* it and declares itself prepared afterwards.)
InertForUpdate == Inert => update = "asked" \/ late
=============================================================================
