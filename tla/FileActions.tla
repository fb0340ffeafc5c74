------------------------------ MODULE FileActions ------------------------------
(***************************************************************************)
(* Writing an export or a backup to a file the user chose, and reading a   *)
(* backup for a restore (host/files.cjs).  A document is written to a      *)
(* temporary file of its own, which then takes the place of the target;    *)
(* two windows may save to the same target at once, any step may fail, and *)
(* the computer may lose power.                                            *)
(***************************************************************************)
EXTENDS Naturals

CONSTANTS Nothing, Saves, MaxChanges \* Saves: the calls of saveFile, each with its document

VARIABLES
    target,    \* the chosen file
    temporary, \* by save: its temporary file
    step,      \* by save: where it is, or what it reported
    littered,  \* history: saves whose temporary file could not be removed
    opening,   \* openBackup: where it is, and the body it read
    changes    \* by other programs, to the target

vars == <<target, temporary, step, littered, opening, changes>>

\* A file: whose document, whether all of it is there, whether it is on the
\* disk already, whether it is below the limit of 512 MiB.
Documents == Saves \cup {"old", "foreign"}
Contents == [document : Documents, whole : BOOLEAN, synced : BOOLEAN, small : BOOLEAN]
Document(d) == [document |-> d, whole |-> TRUE, synced |-> TRUE, small |-> TRUE]

Active == {"open", "write", "sync", "close", "rename", "unlink"}

\* Type invariant.
TypeOK ==
    /\ target \in Contents /\ temporary \in [Saves -> Contents \cup {Nothing}]
    /\ step \in [Saves -> Active \cup {"idle", "saved", "failed", "canceled"}]
    /\ littered \subseteq Saves
    /\ opening \in [step : {"stat", "read", "check", "given", "error"}, body : Contents \cup {Nothing}]
    /\ changes \in 0..MaxChanges

Init ==
    /\ target = Document("old") /\ temporary = [s \in Saves |-> Nothing]
    /\ step = [s \in Saves |-> "idle"] /\ littered = {}
    /\ opening = [step |-> "stat", body |-> Nothing] /\ changes = 0

-----------------------------------------------------------------------------
(* saveFile. *)

At(s, from, to) == step[s] = from /\ step' = [step EXCEPT ![s] = to]
WriteTemporary(s, whole, synced) ==
    temporary' = [temporary EXCEPT ![s] = [document |-> s, whole |-> whole, synced |-> synced, small |-> TRUE]]
elsewhere == <<target, littered, opening, changes>>

\* The dialog, after the name and the size of a backup were checked.
Choose(s) ==
    /\ At(s, "idle", "open") \/ At(s, "idle", "canceled") \/ At(s, "idle", "failed")
    /\ UNCHANGED <<temporary, elsewhere>>
Open(s) == At(s, "open", "write") /\ WriteTemporary(s, FALSE, FALSE) /\ UNCHANGED elsewhere
Write(s) == At(s, "write", "sync") /\ WriteTemporary(s, TRUE, FALSE) /\ UNCHANGED elsewhere
Sync(s) == At(s, "sync", "close") /\ WriteTemporary(s, TRUE, TRUE) /\ UNCHANGED elsewhere
Close(s) == At(s, "close", "rename") /\ UNCHANGED <<temporary, elsewhere>>
Rename(s) ==
    /\ At(s, "rename", "saved")
    /\ target' = temporary[s]
    /\ temporary' = [temporary EXCEPT ![s] = Nothing]
    /\ UNCHANGED <<littered, opening, changes>>

\* A step fails: what was written is removed, the target is left alone.
Fails(s) ==
    /\ \/ At(s, "open", "failed")
       \/ \E from \in {"write", "sync", "close", "rename"} : At(s, from, "unlink")
    /\ UNCHANGED <<temporary, elsewhere>>
Unlink(s) ==
    /\ At(s, "unlink", "failed")
    /\ \/ temporary' = [temporary EXCEPT ![s] = Nothing] /\ UNCHANGED littered
       \/ littered' = littered \cup {s} /\ UNCHANGED temporary
    /\ UNCHANGED <<target, opening, changes>>

-----------------------------------------------------------------------------
(* openBackup: the size is looked at before and after the body is read. *)

Stat ==
    /\ opening.step = "stat"
    /\ opening' = [opening EXCEPT !.step = IF target.small THEN "read" ELSE "error"]
    /\ UNCHANGED <<target, temporary, step, littered, changes>>
Read ==
    /\ opening.step = "read"
    /\ \/ opening' = [step |-> "check", body |-> target]
       \/ opening' = [opening EXCEPT !.step = "error"]
    /\ UNCHANGED <<target, temporary, step, littered, changes>>
CheckBody ==
    /\ opening.step = "check"
    /\ opening' = [opening EXCEPT !.step = IF opening.body.small THEN "given" ELSE "error"]
    /\ UNCHANGED <<target, temporary, step, littered, changes>>

-----------------------------------------------------------------------------
(* external *)

\* Another program replaces the file by one of any size.
Change ==
    /\ changes < MaxChanges /\ changes' = changes + 1
    /\ \E small \in BOOLEAN : target' = [Document("foreign") EXCEPT !.small = small]
    /\ UNCHANGED <<temporary, step, littered, opening>>

\* Power is lost: a file that is not on the disk yet may be cut short.
PowerLoss ==
    LET lost(f) == IF f # Nothing /\ ~f.synced THEN [f EXCEPT !.whole = FALSE] ELSE f
    IN  /\ target' = lost(target)
        /\ temporary' = [s \in Saves |-> lost(temporary[s])]
        /\ step' = [s \in Saves |-> IF step[s] \in Active THEN "failed" ELSE step[s]]
        /\ littered' = littered \cup {s \in Saves : temporary[s] # Nothing}
        /\ opening' = [opening EXCEPT !.step = "error"]
        /\ UNCHANGED changes

Next ==
    \/ \E s \in Saves : Choose(s) \/ Open(s) \/ Write(s) \/ Sync(s) \/ Close(s) \/ Rename(s) \/ Fails(s) \/ Unlink(s)
    \/ Stat \/ Read \/ CheckBody \/ Change \/ PowerLoss

Spec == Init /\ [][Next]_vars

-----------------------------------------------------------------------------
\* Whatever fails, and if power is lost, the target holds all of one document,
\* never that of a save that reported an error; a reported save is there unless
\* a later one replaced it; and what is over leaves no temporary file behind
\* that could be removed.
TargetIsWhole ==
    /\ target.whole
    /\ \A s \in Saves : step[s] = "failed" => target.document # s
    /\ (\E s \in Saves : step[s] = "saved") => target.document # "old"
    /\ \A s \in Saves : step[s] \notin Active /\ temporary[s] # Nothing => s \in littered

\* A body handed to the restore is one whole document within the limit, although
\* the file can be replaced between the look at its size and the reading.
BodyWithinLimit == opening.step = "given" => opening.body.small /\ opening.body.whole
==============================================================================
