------------------------------ MODULE Autostart ------------------------------
(***************************************************************************)
(* Starting at login on Windows (apps/desktop/host/windows-autostart.cjs,  *)
(* system.cjs).  A login start is a value under the Run key and, in        *)
(* another key, the user's approval of it.  An earlier version registered  *)
(* under another name; synchronising moves that entry to the name in use.  *)
(* Each reg.exe call may fail, which ends the synchronisation, and other   *)
(* programs and the user change the registry between two of them.          *)
(***************************************************************************)
CONSTANTS Nothing

VARIABLES
    run,        \* the Run key
    approved,   \* the StartupApproved key
    sync,       \* setLoginItemSettings under way
    result,     \* the login state it returned last, until someone else changes it
    expected    \* history: the state a move of entries has to keep

vars == <<run, approved, sync, result, expected>>

Names == {"canonical", "legacy"}
\* "command" is the one written now, "old" one an earlier version wrote for
\* this executable, "foreign" belongs to another path or other arguments.
Commands == {"command", "old", "foreign"}
Approvals == {"on", "off"}
owned(value) == value \in {"command", "old"}
enabled(approval) == approval \in {"on", Nothing}
Active(commands, approvals) == \E name \in Names : owned(commands[name]) /\ enabled(approvals[name])

\* What setLoginItemSettings has read and decided.
Sync == [commands : [Names -> Commands \cup {Nothing}], desired : Approvals \cup {Nothing},
         removing : SUBSET Names,
         step : {"approve", "register", "verify", "remove", "delete", "forget"}, active : BOOLEAN]

\* Type invariant.
TypeOK ==
    /\ run \in [Names -> Commands \cup {Nothing}]
    /\ approved \in [Names -> Approvals \cup {Nothing}]
    /\ sync = Nothing \/ sync \in Sync
    /\ {result, expected} \subseteq BOOLEAN \cup {Nothing}

Init ==
    /\ run \in [Names -> Commands \cup {Nothing}]
    /\ approved \in [Names -> Approvals \cup {Nothing}]
    /\ sync = Nothing /\ result = Nothing /\ expected = Nothing

\* Another program, the user in the task manager, or a policy.
External ==
    /\ \E name \in Names :
          \/ /\ \E command \in {"foreign", Nothing} : run' = [run EXCEPT ![name] = command]
             /\ UNCHANGED approved
          \/ /\ \E approval \in Approvals : approved' = [approved EXCEPT ![name] = approval]
             /\ UNCHANGED run
    /\ result' = Nothing /\ expected' = Nothing
    /\ UNCHANGED sync

\* Mutant of Desired: a withdrawn approval is given again.
DesiredOn(force, commands, approvals) == "on"

\* When entries are merged the program starts at login afterwards exactly if it
\* did before: approvals that were all withdrawn are not given again.
Desired(force, commands, approvals) ==
    LET matched == {name \in Names : owned(commands[name])}
        active == \E name \in matched : enabled(approvals[name])
    IN  IF force THEN "on"
        ELSE IF matched = {} \/ (active <=> enabled(approvals["canonical"])) THEN approvals["canonical"]
        ELSE IF active THEN "on"
        ELSE IF "canonical" \in matched THEN approvals["canonical"] ELSE approvals["legacy"]

\* setLoginItemSettings up to its first change.  A name that others use stays
\* theirs, and nothing is written when all is as it should be.
Enable(force) ==
    /\ sync = Nothing
    /\ LET desired == Desired(force, run, approved)
           changed == desired # Nothing /\ desired # approved["canonical"]
           taken == run["canonical"] = "foreign"
       IN  /\ sync' = IF taken \/ (run["canonical"] = "command" /\ ~owned(run["legacy"]) /\ ~changed) THEN Nothing
                      ELSE [commands |-> run, desired |-> desired,
                            removing |-> IF owned(run["legacy"]) THEN {"legacy"} ELSE {},
                            step |-> IF changed THEN "approve" ELSE "register", active |-> enabled(desired)]
           /\ result' = IF taken \/ sync' # Nothing THEN Nothing ELSE enabled(desired)
           /\ expected' = IF ~force /\ ~taken /\ (\E name \in Names : owned(run[name]))
                          THEN Active(run, approved) ELSE Nothing
    /\ UNCHANGED <<run, approved>>

Disable ==
    /\ sync = Nothing
    /\ sync' = [commands |-> run, desired |-> Nothing, step |-> "remove", active |-> FALSE,
                removing |-> {name \in Names : owned(run[name])}]
    /\ result' = Nothing /\ expected' = Nothing
    /\ UNCHANGED <<run, approved>>

Approve ==
    /\ sync # Nothing /\ sync.step = "approve"
    /\ approved' = [approved EXCEPT !["canonical"] = sync.desired]
    /\ sync' = [sync EXCEPT !.step = "register"]
    /\ UNCHANGED <<run, result, expected>>

Register ==
    /\ sync # Nothing /\ sync.step = "register"
    /\ run' = IF sync.commands["canonical"] = "command" THEN run ELSE [run EXCEPT !["canonical"] = "command"]
    /\ sync' = [sync EXCEPT !.step = "verify"]
    /\ UNCHANGED <<approved, result, expected>>

\* The entry in use is read back before the old one is given up.
Verify ==
    /\ sync # Nothing /\ sync.step = "verify"
    /\ sync' = IF run["canonical"] = "command" /\ enabled(approved["canonical"]) = sync.active
               THEN [sync EXCEPT !.step = "remove"] ELSE Nothing
    /\ UNCHANGED <<run, approved, result, expected>>

First(names) == IF "canonical" \in names THEN "canonical" ELSE "legacy"

\* remove(): an entry that is no longer what was read is left alone; others may
\* still write it before it is deleted.
Remove ==
    /\ sync # Nothing /\ sync.step = "remove" /\ sync.removing # {}
    /\ LET name == First(sync.removing)
       IN  sync' = IF run[name] # sync.commands[name] THEN Nothing ELSE [sync EXCEPT !.step = "delete"]
    /\ UNCHANGED <<run, approved, result, expected>>

Delete ==
    /\ sync # Nothing /\ sync.step = "delete"
    /\ run' = [run EXCEPT ![First(sync.removing)] = Nothing]
    /\ sync' = [sync EXCEPT !.step = "forget"]
    /\ UNCHANGED <<approved, result, expected>>

Forget ==
    /\ sync # Nothing /\ sync.step = "forget"
    /\ LET name == First(sync.removing)
       IN  IF run[name] # Nothing THEN sync' = Nothing /\ UNCHANGED approved
           ELSE /\ approved' = [approved EXCEPT ![name] = Nothing]
                /\ sync' = [sync EXCEPT !.step = "remove", !.removing = @ \ {name}]
    /\ UNCHANGED <<run, result, expected>>

Finish ==
    /\ sync # Nothing /\ sync.step = "remove" /\ sync.removing = {}
    /\ sync' = Nothing
    /\ result' = IF expected = Nothing /\ Active(run, approved) # sync.active THEN Nothing ELSE sync.active
    /\ UNCHANGED <<run, approved, expected>>

\* A call of reg.exe fails; applySettings then reports what it can read.
Fail ==
    /\ sync # Nothing /\ sync' = Nothing
    /\ result' \in {Nothing, Active(run, approved)}
    /\ UNCHANGED <<run, approved, expected>>

Next ==
    \/ External
    \/ (\E force \in BOOLEAN : Enable(force)) \/ Disable
    \/ Approve \/ Register \/ Verify \/ Remove \/ Delete \/ Forget \/ Finish \/ Fail

Spec == Init /\ [][Next]_vars

-----------------------------------------------------------------------------
(* Properties. *)

\* Moving an entry to the name in use neither stops nor restores the login
\* start, whichever call fails on the way.
MoveKeepsLoginStart == expected # Nothing => Active(run, approved) = expected
=============================================================================
