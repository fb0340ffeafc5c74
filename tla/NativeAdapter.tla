---------------------------- MODULE NativeAdapter ----------------------------
(***************************************************************************)
(* Leaving the application: the adapter of the desktop host                *)
(* (apps/desktop/tauri/native-adapter.cjs, host.cjs), the handlers of      *)
(* host/main.cjs it calls, the shell (src-tauri/src/host.rs, main.rs) and  *)
(* the page's bridge (tauri/bridge.js).  The host asks the shell, the      *)
(* shell asks the page, the page says whether it has unsaved edits, and    *)
(* the user may be asked; a call without answer ends after 30 s.           *)
(***************************************************************************)
EXTENDS Naturals

CONSTANTS NoCall, MaxCalls \* bound: native calls

VARIABLES
    nextId, pending,      \* calls of the host; pending: their methods
    exitFlight,           \* the call of confirmExit that is under way
    exitConfirmed, quitRequested, quitStarted, stopped,
    quitSent,             \* the adapter's "quitting": quit was sent to the shell
    flow,                 \* main.cjs: what it is doing
    closeAction,          \* shell: the question the page has to answer
    dialog,               \* shell: the question the user has to answer
    answers,              \* native results on their way to the host
    dirty,                \* page: there are unsaved edits
    agreed                \* history: an exit was agreed to and not given up since

vars == <<nextId, pending, exitFlight, exitConfirmed, quitRequested, quitStarted,
          stopped, quitSent, flow, closeAction, dialog, answers, dirty, agreed>>
callVars == <<nextId, pending>>
shellVars == <<closeAction, dialog, answers>>
quitVars == <<exitFlight, exitConfirmed, quitRequested, quitStarted, quitSent, flow, agreed>>

Ids == 1..MaxCalls
Methods == {"app:confirmQuit", "app:prepareUpdateQuit"}
Question == [id : Ids, method : Methods]

\* Type invariant.
TypeOK ==
    /\ nextId \in 1..(MaxCalls + 1)
    /\ pending \subseteq Question /\ closeAction \in Question \cup {NoCall}
    /\ dialog \subseteq Question
    /\ answers \subseteq [id : Ids, result : BOOLEAN]
    /\ exitFlight \in Ids \cup {NoCall}
    /\ flow \in {"running", "prepareUpdate", "installing", "stopping", "quitting"}
    /\ {exitConfirmed, quitRequested, quitStarted, stopped, quitSent, dirty, agreed} \subseteq BOOLEAN

Init ==
    /\ nextId = 1 /\ pending = {} /\ exitFlight = NoCall
    /\ exitConfirmed = FALSE /\ quitRequested = FALSE /\ quitStarted = FALSE
    /\ stopped = FALSE /\ quitSent = FALSE /\ flow = "running"
    /\ closeAction = NoCall /\ dialog = {} /\ answers = {}
    /\ dirty = FALSE /\ agreed = FALSE

-----------------------------------------------------------------------------
(* The host. *)

\* call(): the shell keeps one question at a time; request_close drops others.
Call(method) ==
    /\ nextId <= MaxCalls
    /\ nextId' = nextId + 1
    /\ LET question == [id |-> nextId, method |-> method]
       IN  /\ pending' = pending \cup {question}
           /\ closeAction' = IF closeAction = NoCall THEN question ELSE closeAction

\* Mutant of FinishQuit: an exit that an update prevents stays confirmed.
FinishQuitConfirmed(f, confirmed, consent) ==
    IF f = "installing"
    THEN /\ quitStarted' = FALSE /\ exitConfirmed' = confirmed /\ agreed' = FALSE
         /\ flow' = f /\ UNCHANGED quitSent
    ELSE /\ quitStarted' = TRUE /\ exitConfirmed' = confirmed /\ agreed' = consent
         /\ flow' = IF f \in {"running", "prepareUpdate"} THEN "stopping" ELSE f
         /\ quitSent' = (quitSent \/ f \in {"stopping", "quitting"})

\* finishQuit and the before-quit handler, when f is what main.cjs does: an
\* update that installs prevents the exit, the first exit stops the collector,
\* a later one (quitting is set) sends quit.
FinishQuit(f, confirmed, consent) ==
    IF f = "installing"
    THEN /\ quitStarted' = FALSE /\ exitConfirmed' = FALSE /\ agreed' = FALSE
         /\ flow' = f /\ UNCHANGED quitSent
    ELSE /\ quitStarted' = TRUE /\ exitConfirmed' = confirmed /\ agreed' = consent
         /\ flow' = IF f \in {"running", "prepareUpdate"} THEN "stopping" ELSE f
         /\ quitSent' = (quitSent \/ f \in {"stopping", "quitting"})

\* app.quit(): at once, after a question, or not at all.
QuitDuring(f) ==
    \/ /\ ~quitStarted /\ (stopped \/ exitConfirmed)
       /\ FinishQuit(f, exitConfirmed, agreed)
       /\ UNCHANGED <<callVars, exitFlight, quitRequested, closeAction>>
    \/ /\ ~quitStarted /\ ~stopped /\ ~exitConfirmed /\ ~quitRequested
       /\ quitRequested' = TRUE
       /\ Call("app:confirmQuit")
       /\ exitFlight' = nextId /\ flow' = f
       /\ UNCHANGED <<exitConfirmed, quitStarted, quitSent, agreed>>

\* A window closes, or the tray's menu is used.
Quit ==
    /\ QuitDuring(flow)
    /\ UNCHANGED <<stopped, dialog, answers, dirty>>

\* beforeInstall asks whether everything is saved.
PrepareUpdate ==
    /\ flow = "running" /\ ~stopped
    /\ flow' = "prepareUpdate"
    /\ Call("app:prepareUpdateQuit")
    /\ UNCHANGED <<exitFlight, exitConfirmed, quitRequested, quitStarted, quitSent,
                   agreed, stopped, dialog, answers, dirty>>

\* The promise of a call settles; a rejected one is accepted = FALSE.
Settle(question, accepted) ==
    /\ pending' = pending \ {question}
    /\ IF question.id = exitFlight
       THEN /\ exitFlight' = NoCall /\ quitRequested' = FALSE
            /\ IF accepted /\ ~quitStarted
               THEN FinishQuit(flow, TRUE, TRUE)
               ELSE /\ exitConfirmed' = (exitConfirmed \/ accepted)
                    /\ agreed' = (agreed \/ accepted)
                    /\ UNCHANGED <<quitStarted, quitSent, flow>>
       ELSE \* prepareUpdateExit; an exit may have begun meanwhile
            /\ IF accepted /\ flow = "prepareUpdate"
               THEN exitConfirmed' = TRUE /\ agreed' = TRUE /\ flow' = "installing" /\ UNCHANGED quitStarted
               ELSE IF accepted
               THEN exitConfirmed' = FALSE /\ quitStarted' = FALSE /\ UNCHANGED <<agreed, flow>>
               ELSE /\ flow' = IF flow = "prepareUpdate" THEN "running" ELSE flow
                    /\ UNCHANGED <<exitConfirmed, agreed, quitStarted>>
            /\ UNCHANGED <<exitFlight, quitRequested, quitSent>>

\* receive(native-result): late answers find no entry.
Receive ==
    \E answer \in answers :
        /\ answers' = answers \ {answer}
        /\ IF \E q \in pending : q.id = answer.id
           THEN \E q \in pending : q.id = answer.id /\ Settle(q, answer.result)
           ELSE UNCHANGED <<pending, quitVars>>
        /\ UNCHANGED <<nextId, stopped, closeAction, dialog, dirty>>

Timeout ==
    /\ \E q \in pending : Settle(q, FALSE)
    /\ UNCHANGED <<nextId, stopped, shellVars, dirty>>

\* The update gives up (recovery calls cancelQuit), or the helper took over.
InstallEnds ==
    /\ flow = "installing"
    /\ \/ /\ flow' = "running"
          /\ quitStarted' = FALSE /\ exitConfirmed' = FALSE /\ agreed' = FALSE
          /\ UNCHANGED <<callVars, closeAction, exitFlight, quitRequested, quitSent>>
       \/ QuitDuring("quitting")
       \/ /\ quitStarted \/ (quitRequested /\ ~exitConfirmed /\ ~stopped)
          /\ flow' = "quitting"
          /\ UNCHANGED <<callVars, closeAction, exitFlight, exitConfirmed, quitRequested,
                         quitStarted, quitSent, agreed>>
    /\ UNCHANGED <<stopped, dialog, answers, dirty>>

\* The collector has stopped: finishQuit.
StopEnds ==
    /\ flow = "stopping"
    /\ flow' = "quitting" /\ quitSent' = TRUE
    /\ UNCHANGED <<callVars, exitFlight, exitConfirmed, quitRequested, quitStarted,
                   agreed, stopped, shellVars, dirty>>

\* The pipe to the shell breaks: every call fails and the host quits.
Disconnect ==
    /\ ~stopped
    /\ stopped' = TRUE
    /\ pending' = {} /\ exitFlight' = NoCall /\ quitRequested' = FALSE
    /\ IF quitStarted
       THEN UNCHANGED <<quitStarted, exitConfirmed, agreed, flow, quitSent>>
       ELSE FinishQuit(flow, exitConfirmed, agreed)
    /\ UNCHANGED <<nextId, shellVars, dirty>>

-----------------------------------------------------------------------------
(* The shell and the page. *)

\* The page answers the question: an update first saves what is edited.
PageConfirms ==
    /\ closeAction # NoCall
    /\ closeAction' = NoCall
    /\ LET automatic == closeAction.method = "app:prepareUpdateQuit"
       IN  IF automatic
           THEN /\ dirty' \in {dirty, FALSE}
                /\ answers' = answers \cup {[id |-> closeAction.id, result |-> ~dirty']}
                /\ UNCHANGED dialog
           ELSE /\ IF dirty
                   THEN dialog' = dialog \cup {closeAction} /\ UNCHANGED answers
                   ELSE answers' = answers \cup {[id |-> closeAction.id, result |-> TRUE]} /\ UNCHANGED dialog
                /\ UNCHANGED dirty
    /\ UNCHANGED <<callVars, quitVars, stopped>>

\* "Discard and exit" or "keep editing", however long the user takes.
UserAnswers ==
    \E question \in dialog, accepted \in BOOLEAN :
        /\ dialog' = dialog \ {question}
        /\ answers' = answers \cup {[id |-> question.id, result |-> accepted]}
        /\ UNCHANGED <<callVars, quitVars, stopped, closeAction, dirty>>

\* While an update installs the page is inert.
Edit ==
    /\ flow # "installing" /\ ~quitSent
    /\ dirty' = ~dirty
    /\ UNCHANGED <<callVars, quitVars, stopped, shellVars>>

Next ==
    \/ Quit \/ PrepareUpdate \/ Receive \/ Timeout \/ InstallEnds \/ StopEnds \/ Disconnect
    \/ PageConfirms \/ UserAnswers \/ Edit

Spec == Init /\ [][Next]_vars

-----------------------------------------------------------------------------
(* Properties. *)

\* The application leaves (or begins to stop its collector for that) only
\* when the page was clean or the user discarded its edits, in a question not
\* given up since: a failed update or an interrupted exit leaves no consent
\* behind with which a later close would drop edits unasked.
ExitWasAgreed == flow = "stopping" \/ quitSent => stopped \/ agreed
=============================================================================
