---------------------------- MODULE UpdateHandoff ----------------------------
(***************************************************************************)
(* Handing a verified installer over (apps/desktop/host/update-handoff.cjs *)
(* and update-bridge.cjs): the host hashes the file again and starts a     *)
(* detached helper; the helper opens the file so that nobody can replace   *)
(* it, hashes it, says READY, waits for GO, then for the host and the      *)
(* window to exit, and starts the installer.  The bridge only forwards     *)
(* pipes and the exit code, so helper and bridge are one process here.     *)
(***************************************************************************)

CONSTANT Nobody \* no installer was started

VARIABLES
    parent,     \* the promise of launchUpdateHandoff
    helper,     \* the helper process
    stdin,      \* what the helper will read: nothing yet, GO, or the end
    host, gui,  \* the two processes of the application are alive
    file,       \* content of the installer's file
    started,    \* content of the file the helper started
    gaveUp      \* history: rejected before GO was written

vars == <<parent, helper, stdin, host, gui, file, started, gaveUp>>

\* Type invariant.
TypeOK ==
    /\ parent \in {"hashing", "waiting", "authorized", "resolved", "rejected"}
    /\ helper \in {"none", "started", "ready", "authorized", "alone", "exited"}
    /\ stdin \in {"open", "GO", "end"}
    /\ file \in {"verified", "other"} /\ started \in {"verified", "other", Nobody}
    /\ {host, gui, gaveUp} \subseteq BOOLEAN

Init ==
    /\ parent = "hashing" /\ helper = "none" /\ stdin = "open"
    /\ host = TRUE /\ gui = TRUE
    /\ file \in {"verified", "other"}
    /\ started = Nobody /\ gaveUp = FALSE

-----------------------------------------------------------------------------
(* The host. *)

\* The hash is read before the helper is spawned; the file is not yet locked.
Spawn ==
    /\ host /\ parent = "hashing"
    /\ IF file = "verified"
       THEN parent' = "waiting" /\ helper' = "started" /\ UNCHANGED gaveUp
       ELSE parent' = "rejected" /\ gaveUp' = TRUE /\ UNCHANGED helper
    /\ UNCHANGED <<stdin, host, gui, file, started>>

\* finish(error): listeners are removed and the pipe is ended, unless GO was
\* written to it already.
Reject ==
    /\ parent' = "rejected"
    /\ stdin' = IF parent = "waiting" THEN "end" ELSE stdin
    /\ gaveUp' = (gaveUp \/ parent = "waiting")

OnReady ==
    /\ host /\ parent = "waiting" /\ helper = "ready"
    /\ \/ parent' = "authorized" /\ stdin' = "GO" /\ UNCHANGED gaveUp
       \/ Reject \* an answer that is not READY
    /\ UNCHANGED <<helper, host, gui, file, started>>

\* The callback of the write, which may come after the helper acted on GO.
GoWritten ==
    /\ host /\ parent = "authorized"
    /\ parent' = "resolved"
    /\ UNCHANGED <<helper, stdin, host, gui, file, started, gaveUp>>

\* 15 s without a result, counted to the callback of the write.
ReadyTimeout ==
    /\ host /\ parent \in {"waiting", "authorized"}
    /\ Reject
    /\ UNCHANGED <<helper, host, gui, file, started>>

HelperExited ==
    /\ host /\ parent \in {"waiting", "authorized"} /\ helper = "exited"
    /\ Reject
    /\ UNCHANGED <<helper, host, gui, file, started>>

\* The host quits after the hand-over, is quit by the user later, or dies; its
\* end of the pipe closes.
HostExits ==
    /\ host
    /\ host' = FALSE
    /\ stdin' = IF stdin = "GO" THEN "GO" ELSE "end"
    /\ UNCHANGED <<parent, helper, gui, file, started, gaveUp>>

GuiExits ==
    /\ gui
    /\ gui' = FALSE
    /\ UNCHANGED <<parent, helper, stdin, host, file, started, gaveUp>>

-----------------------------------------------------------------------------
(* The helper. *)

\* The host is looked up, the file opened for reading only and hashed.
Open ==
    /\ helper = "started"
    /\ helper' = IF host /\ file = "verified" THEN "ready" ELSE "exited"
    /\ UNCHANGED <<parent, stdin, host, gui, file, started, gaveUp>>

ReadLine ==
    /\ helper = "ready" /\ stdin # "open"
    /\ helper' = IF stdin = "GO" THEN "authorized" ELSE "exited"
    /\ UNCHANGED <<parent, stdin, host, gui, file, started, gaveUp>>

\* WaitForExit of the host; "alone" waits for the window.
WaitForHost ==
    /\ helper = "authorized" /\ ~host
    /\ helper' = "alone"
    /\ UNCHANGED <<parent, stdin, host, gui, file, started, gaveUp>>

StartProcess ==
    /\ helper = "alone" /\ ~gui
    /\ started' = file /\ helper' = "exited"
    /\ UNCHANGED <<parent, stdin, host, gui, file, gaveUp>>

\* 60 s passed, powershell could not start, or the helper was killed.
HelperFails ==
    /\ helper \notin {"none", "exited"}
    /\ helper' = "exited"
    /\ UNCHANGED <<parent, stdin, host, gui, file, started, gaveUp>>

\* Mutant of Locked: the file is closed after it was hashed, until GO is read.
LockedLate == helper \in {"authorized", "alone"}

\* FileShare.Read denies writing and deleting while the helper holds the file.
Locked == helper \in {"ready", "authorized", "alone"}

ReplaceFile ==
    /\ ~Locked /\ started = Nobody
    /\ file' \in {"verified", "other"} \ {file}
    /\ UNCHANGED <<parent, helper, stdin, host, gui, started, gaveUp>>

Next ==
    \/ Spawn \/ OnReady \/ GoWritten \/ ReadyTimeout \/ HelperExited
    \/ HostExits \/ GuiExits
    \/ Open \/ ReadLine \/ WaitForHost \/ StartProcess \/ HelperFails
    \/ ReplaceFile

Spec == Init /\ [][Next]_vars

-----------------------------------------------------------------------------
(* Properties. *)

\* An installer that starts is the verified file, although files may be
\* replaced at any time, and starts only when both processes have exited.
VerifiedInstallerOnly == started # Nobody => started = "verified" /\ ~host /\ ~gui

\* A hand-over reported as failed before GO was written starts nothing later,
\* however late the helper becomes ready and whenever the application exits.
GivenUpStartsNothing == gaveUp => helper \notin {"authorized", "alone"} /\ started = Nobody

\* Both: the helper starts the verified installer once the application is gone,
\* and a hand-over that was reported as failed stays one.
HandoverHonoured == VerifiedInstallerOnly /\ GivenUpStartsNothing

(* The strengthening of it that every step preserves. *)

\* A file the helper has open cannot be replaced; what it started is final.
FileInv ==
    /\ Locked => file = "verified"
    /\ started # Nobody => file = "verified" /\ ~gui
    /\ helper = "alone" \/ started # Nobody => ~host

\* GO is written once, by a host that has not given the hand-over up.
GoInv ==
    /\ helper \in {"authorized", "alone"} \/ started # Nobody => stdin = "GO"
    /\ stdin = "GO" => ~gaveUp /\ parent \notin {"hashing", "waiting"}
    /\ gaveUp => parent = "rejected"

HInv == TypeOK /\ HandoverHonoured /\ FileInv /\ GoInv
=============================================================================
