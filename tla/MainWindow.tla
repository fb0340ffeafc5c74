----------------------------- MODULE MainWindow -----------------------------
(***************************************************************************)
(* The main window: closing it (host/window-controls.cjs onMainClose,      *)
(* host/system.cjs), whether it can be seen, as the host                   *)
(* (tauri/native-adapter.cjs BrowserWindow) and the page (renderer/app.js) *)
(* are told, and the painting that depends on it                           *)
(* (renderer/data/render-scheduler.js).                                    *)
(*                                                                         *)
(* Orders to the shell and its reports are each in order, except that the  *)
(* thread that samples the windows every 100 ms sends what it saw later.   *)
(* A report of a move or of a new size carries the visibility too.         *)
(***************************************************************************)
EXTENDS Naturals, Sequences

CONSTANTS Nothing, MaxActs \* bound: acts of the user

VARIABLES
    window,                  \* the shell's window
    previous, sampled,       \* shell: last sample, and the one still to be sent
    orders, reports, told,   \* on their way to the shell, to the host, to the page
    hostWindow,              \* what the adapter keeps of the window
    nativeHidden, documentHidden, frame, dirty, \* page
    closeAction, saves, flight, behind, \* preference, its updates, closeFlight: updates it awaits
    quitRequested, quitting,
    asked, obeyed,           \* history: the action the running close has to take; every close did
    swallowed,               \* history: a change was in a report that tells the page nothing
    acts

windowVars == <<window, previous, sampled>>
hostVars == <<hostWindow, orders, told, swallowed>>
pageVars == <<nativeHidden, documentHidden, frame, dirty>>
closeVars == <<closeAction, saves, flight, behind, quitRequested, quitting, asked, obeyed>>
vars == <<windowVars, reports, hostVars, pageVars, closeVars, acts>>

Windows == [shown : BOOLEAN, minimized : BOOLEAN]
Visible(w) == w.shown /\ ~w.minimized
CloseActions == {"ask", "tray", "exit"}
Report(event, w) == [event |-> event, state |-> w]

\* Type invariant.
TypeOK ==
    /\ window \in Windows /\ hostWindow \in Windows
    /\ previous \in Windows \cup {Nothing} /\ sampled \in Windows \cup {Nothing}
    /\ orders \in Seq({"restore", "show", "hide", "focus"})
    /\ reports \in Seq([event : {"visibility", "restore", "show", "hide", "bounds", "close"}, state : Windows])
    /\ told \in Seq(BOOLEAN)
    /\ {nativeHidden, documentHidden, frame, dirty, quitRequested, quitting, obeyed, swallowed} \subseteq BOOLEAN
    /\ closeAction \in CloseActions /\ saves \in Seq(CloseActions) /\ asked \in CloseActions
    /\ flight \in {"none", "waiting", "asking", "hidden", "leaving"}
    /\ behind \in 0..Len(saves) /\ acts \in 0..MaxActs

Init ==
    /\ window = [shown |-> TRUE, minimized |-> FALSE] /\ hostWindow = window
    /\ previous = Nothing /\ sampled = Nothing
    /\ orders = <<>> /\ reports = <<>> /\ told = <<>> /\ swallowed = FALSE
    /\ nativeHidden = FALSE /\ documentHidden = FALSE /\ frame = FALSE /\ dirty = FALSE
    /\ closeAction = "tray" /\ saves = <<>> /\ flight = "none" /\ behind = 0
    /\ quitRequested = FALSE /\ quitting = FALSE /\ asked = "tray" /\ obeyed = TRUE
    /\ acts = 0

Act == acts < MaxActs /\ acts' = acts + 1

-----------------------------------------------------------------------------
(* The shell. *)

\* The first order takes effect and is reported.
Execute ==
    /\ orders # <<>>
    /\ orders' = Tail(orders)
    /\ LET order == Head(orders)
       IN  /\ window' = CASE order = "restore" -> [window EXCEPT !.minimized = FALSE]
                          [] order = "show" -> [window EXCEPT !.shown = TRUE]
                          [] order = "hide" -> [window EXCEPT !.shown = FALSE]
                          [] OTHER -> window
           /\ reports' = Append(reports, Report(IF order = "focus" THEN "bounds" ELSE order, window'))
    /\ UNCHANGED <<previous, sampled, hostWindow, told, swallowed, pageVars, closeVars, acts>>

\* The user minimises and restores; a second start of the program shows the
\* window.  The user is slower than the samples: a change that is undone
\* between two of them would be reported to nobody.
ByUser ==
    /\ Act /\ previous = window
    /\ \/ window.shown /\ window' = [window EXCEPT !.minimized = ~@]
       \/ window' = [shown |-> TRUE, minimized |-> FALSE]
    /\ UNCHANGED <<previous, sampled, reports, hostVars, pageVars, closeVars>>

\* Moved and Resized.
Moves ==
    /\ Act
    /\ reports' = Append(reports, Report("bounds", window))
    /\ UNCHANGED <<windowVars, hostVars, pageVars, closeVars>>

CloseRequested ==
    /\ Act /\ window.shown
    /\ reports' = Append(reports, Report("close", window))
    /\ UNCHANGED <<windowVars, hostVars, pageVars, closeVars>>

\* The thread looks at the window, ...
Sample ==
    /\ sampled = Nothing /\ previous # window
    /\ previous' = window /\ sampled' = window
    /\ UNCHANGED <<window, reports, hostVars, pageVars, closeVars, acts>>

\* ... and sends a change it saw, behind whatever was sent since.
SendSample ==
    /\ sampled # Nothing
    /\ reports' = Append(reports, Report("visibility", sampled))
    /\ sampled' = Nothing
    /\ UNCHANGED <<window, previous, hostVars, pageVars, closeVars, acts>>

-----------------------------------------------------------------------------
(* The host. *)

\* Listeners of hide, show, minimize and restore tell the page.
SendVisibility(w) == told' = Append(told, Visible(w))

\* showWindow (tray) and mini:open-main.
ShowWindow ==
    /\ Act
    /\ hostWindow' = [shown |-> TRUE, minimized |-> FALSE]
    /\ orders' = orders \o (IF hostWindow.minimized THEN <<"restore">> ELSE <<>>) \o <<"show", "focus">>
    /\ SendVisibility(hostWindow')
    /\ UNCHANGED <<windowVars, reports, swallowed, pageVars, closeVars>>

HideToTray ==
    /\ hostWindow' = [hostWindow EXCEPT !.shown = FALSE]
    /\ orders' = Append(orders, "hide")
    /\ SendVisibility(hostWindow')
    /\ UNCHANGED swallowed

\* app.quit() asks the page (module NativeAdapter); the answer comes later.
RequestQuit == quitRequested' = TRUE

OnMainClose ==
    IF quitting THEN RequestQuit /\ UNCHANGED <<flight, behind, asked>>
    ELSE /\ UNCHANGED quitRequested
         /\ IF flight # "none" THEN UNCHANGED <<flight, behind, asked>>
            ELSE /\ flight' = "waiting" /\ behind' = Len(saves)
                 /\ asked' = IF saves = <<>> THEN closeAction ELSE saves[Len(saves)]

\* What a report says is kept; the page hears of a change only in the events
\* that are about visibility.
Receive ==
    /\ reports # <<>>
    /\ reports' = Tail(reports)
    /\ LET report == Head(reports)
           changed == report.state # hostWindow
       IN  IF report.event = "close"
           THEN /\ OnMainClose
                /\ UNCHANGED <<hostVars, closeAction, saves, quitting, obeyed>>
           ELSE /\ hostWindow' = report.state
                /\ IF report.event \in {"show", "hide", "restore"} \/ (report.event = "visibility" /\ changed)
                   THEN SendVisibility(report.state) /\ UNCHANGED swallowed
                   ELSE UNCHANGED told /\ swallowed' = (swallowed \/ changed)
                /\ UNCHANGED <<orders, closeVars>>
    /\ UNCHANGED <<windowVars, pageVars, acts>>

\* The rest of onMainClose, when the action is known.
Close(action, remember) ==
    /\ IF remember
       THEN /\ saves' = Append(saves, action) /\ behind' = Len(saves) + 1
            /\ flight' = IF action = "tray" THEN "hidden" ELSE "leaving"
       ELSE flight' = "none" /\ UNCHANGED <<saves, behind>>
    /\ IF action = "tray" THEN HideToTray ELSE UNCHANGED hostVars
    /\ IF action = "exit" /\ ~remember THEN RequestQuit ELSE UNCHANGED quitRequested

GivesUp == flight' = "none" /\ UNCHANGED <<saves, behind, quitRequested, hostVars>>

\* "await queue": the preference is read when the updates before are done.
Awaited ==
    /\ flight = "waiting" /\ behind = 0
    /\ IF quitting THEN GivesUp /\ UNCHANGED obeyed
       ELSE /\ obeyed' = (obeyed /\ closeAction = asked)
            /\ IF closeAction = "ask"
               THEN flight' = "asking" /\ UNCHANGED <<saves, behind, quitRequested, hostVars>>
               ELSE Close(closeAction, FALSE)
    /\ UNCHANGED <<windowVars, reports, pageVars, closeAction, quitting, asked, acts>>

Answer(choice, remember) ==
    /\ flight = "asking"
    /\ IF choice = "cancel" \/ quitting THEN GivesUp ELSE Close(choice, remember)
    /\ UNCHANGED <<windowVars, reports, pageVars, closeAction, quitting, asked, obeyed, acts>>

UpdateCloseAction(action) ==
    /\ Act
    /\ saves' = Append(saves, action)
    /\ UNCHANGED <<windowVars, reports, hostVars, pageVars, closeAction, flight, behind,
                   quitRequested, quitting, asked, obeyed>>

\* Mutant of Awaits: the close counts updates that are done.
AwaitsStill(n) == n

\* Updates the close still waits for when one more is done.
Awaits(n) == IF n = 0 THEN 0 ELSE n - 1

\* The first update is saved or fails.  The close that waits for it as its own
\* ends; leaving needs it to succeed.
Saved(ok) ==
    /\ saves # <<>> /\ ~(flight = "waiting" /\ behind = 0)
    /\ saves' = Tail(saves)
    /\ closeAction' = IF ok THEN Head(saves) ELSE closeAction
    /\ behind' = Awaits(behind)
    /\ asked' = IF ~ok /\ flight = "waiting" /\ behind = 1 THEN closeAction ELSE asked
    /\ flight' = IF behind = 1 /\ flight \in {"hidden", "leaving"} THEN "none" ELSE flight
    /\ IF ok /\ behind = 1 /\ flight = "leaving" /\ ~quitting THEN RequestQuit ELSE UNCHANGED quitRequested
    /\ UNCHANGED <<windowVars, reports, hostVars, pageVars, quitting, obeyed, acts>>

QuitAnswered(accepted) ==
    /\ quitRequested
    /\ quitRequested' = FALSE /\ quitting' = (quitting \/ accepted)
    /\ UNCHANGED <<windowVars, reports, hostVars, pageVars, closeAction, saves, flight, behind,
                   asked, obeyed, acts>>

-----------------------------------------------------------------------------
(* The page. *)

hidden == documentHidden \/ nativeHidden

\* schedule().
Schedule == dirty' = TRUE /\ frame' = (frame \/ ~hidden)

\* visibilityChanged(), which schedules a painting when the page can be seen.
VisibilityChanged(now) ==
    IF now THEN frame' = FALSE /\ UNCHANGED dirty ELSE frame' = TRUE /\ dirty' = TRUE

Told ==
    /\ told # <<>>
    /\ told' = Tail(told)
    /\ nativeHidden' = ~Head(told)
    /\ VisibilityChanged(documentHidden \/ nativeHidden')
    /\ UNCHANGED <<windowVars, reports, hostWindow, orders, swallowed, documentHidden, closeVars, acts>>

DocumentVisibility ==
    /\ documentHidden' = ~documentHidden
    /\ VisibilityChanged(documentHidden' \/ nativeHidden)
    /\ UNCHANGED <<windowVars, reports, hostVars, nativeHidden, closeVars, acts>>

\* A sample of the backend, or the page's own timer.
RefreshLive ==
    /\ Schedule
    /\ UNCHANGED <<windowVars, reports, hostVars, nativeHidden, documentHidden, closeVars, acts>>

Flush ==
    /\ frame
    /\ frame' = FALSE
    /\ dirty' = (dirty /\ hidden)
    /\ UNCHANGED <<windowVars, reports, hostVars, nativeHidden, documentHidden, closeVars, acts>>

Next ==
    \/ Execute \/ ByUser \/ Moves \/ CloseRequested \/ Sample \/ SendSample
    \/ ShowWindow \/ Receive \/ Awaited
    \/ \E choice \in {"cancel", "tray", "exit"}, remember \in BOOLEAN : Answer(choice, remember)
    \/ \E action \in CloseActions : UpdateCloseAction(action)
    \/ \E ok \in BOOLEAN : Saved(ok) \/ QuitAnswered(ok)
    \/ Told \/ DocumentVisibility \/ RefreshLive \/ Flush

Spec == Init /\ [][Next]_vars

-----------------------------------------------------------------------------
(* Properties. *)

Settled ==
    /\ orders = <<>> /\ reports = <<>> /\ told = <<>>
    /\ sampled = Nothing /\ previous = window

\* When nothing is on its way, the host and the page know whether the window
\* can be seen, however orders, late samples and acts of the user overtook
\* each other - unless a report of a move or of a size told the host of a
\* change, which it then does not pass on.
PageKnowsVisibility ==
    Settled /\ ~swallowed => hostWindow = window /\ nativeHidden = ~Visible(window)

\* New data are painted: a page that is not hidden has a frame on its way for
\* them, also when they came while it was hidden.
DataGetPainted == (dirty /\ ~hidden => frame) /\ (frame => ~hidden)

\* Closing takes the action the user chose last before it, also when that was
\* still being saved; if it cannot be saved, the one before.
ClosesAsChosen == obeyed
=============================================================================
