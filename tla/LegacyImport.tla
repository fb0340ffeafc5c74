----------------------------- MODULE LegacyImport -----------------------------
(***************************************************************************)
(* Importing the data of the previous WiFiMeter (host/legacy.cjs): its     *)
(* files are read one by one, archived with a backup of the database, read *)
(* again, and only then handed to the backend, which merges them in one    *)
(* transaction.  The old collector may be rewriting its files meanwhile:   *)
(* the lock file that tells is only honoured where opening it fails.       *)
(*                                                                         *)
(* A file is a number, its version; each write of the old collector makes  *)
(* a new one.  "state.json" has a backup copy that is used when the file   *)
(* is missing or damaged.  The archive of records that are only kept is    *)
(* left out.                                                               *)
(***************************************************************************)
EXTENDS Naturals

CONSTANTS Nothing, Damaged, MaxWrites, MaxImports \* bounds: writes, imports

VARIABLES
    disk,      \* the old directory: state, bak and settings
    history,   \* history: every content the directory had
    database,  \* what the database holds: "own" records or the legacy ones too
    completed, \* the backend remembers that this directory was imported
    run,       \* the import under way: its step and what it read
    archive,   \* what the last archive holds, Nothing for none
    imported,  \* history: the files imported, with the archive made before
    writes, imports

vars == <<disk, history, database, completed, run, archive, imported, writes, imports>>

Versions == 0..MaxWrites
Contents == Versions \cup {Damaged, Nothing}
Directories == [state : Contents, bak : Contents, settings : Contents]
Steps == {"idle", "state", "bak", "settings", "status", "backup", "archive", "recheck", "recheckBak",
          "recheckSettings", "import"}
Reads == [state : Contents, source : {"state", "bak"}, primary : Contents, settings : Contents]
NoReads == [state |-> Nothing, source |-> "state", primary |-> Nothing, settings |-> Nothing]
Archives == [backup : {"own", "merged"}, primary : Contents, state : Contents, settings : Contents]

\* Type invariant.
TypeOK ==
    /\ disk \in Directories /\ history \subseteq Directories /\ database \in {"own", "merged"}
    /\ completed \in BOOLEAN /\ run \in [step : Steps, read : Reads, backup : {"own", "merged", "none"}]
    /\ archive = Nothing \/ archive \in Archives
    /\ imported = Nothing \/ imported \in [read : Reads, archive : Archives]
    /\ writes \in Versions /\ imports \in 0..MaxImports

Init ==
    /\ disk \in [state : {0, Damaged, Nothing}, bak : {0, Nothing}, settings : {0, Nothing}]
    /\ history = {disk} /\ database = "own" /\ completed = FALSE
    /\ run = [step |-> "idle", read |-> NoReads, backup |-> "none"]
    /\ archive = Nothing /\ imported = Nothing /\ writes = 0 /\ imports = 0

outside == <<disk, history, writes>>
results == <<database, completed, archive, imported>>

\* external: the old collector writes a file anew, keeping the state before in
\* the backup copy, or dies while it writes.
Write(next) ==
    /\ writes < MaxWrites /\ writes' = writes + 1
    /\ disk' = next /\ history' = history \cup {next}
    /\ UNCHANGED <<results, run, imports>>
OldCollector ==
    \/ Write([disk EXCEPT !.bak = IF disk.state \in Versions THEN disk.state ELSE disk.bak, !.state = writes + 1])
    \/ \E f \in {"state", "settings"} : Write([disk EXCEPT ![f] = Damaged])
    \/ Write([disk EXCEPT !.settings = writes + 1])

\* importLegacyDirectory, one file operation or request a step.  An import that
\* fails anywhere leaves what was archived.
Goto(next) == run' = [run EXCEPT !.step = next]
Read(next, files) == run' = [run EXCEPT !.step = next, !.read = files]
Stop == run' = [step |-> "idle", read |-> NoReads, backup |-> "none"]

Begin ==
    /\ run.step = "idle" /\ imports < MaxImports /\ imports' = imports + 1
    /\ Goto("state") /\ UNCHANGED <<outside, results>>

\* readStateCandidate: the backup copy only when the file is missing or is not
\* JSON.
ReadState ==
    /\ run.step = "state"
    /\ IF disk.state \in Versions
         THEN Read("settings", [run.read EXCEPT !.state = disk.state, !.primary = disk.state])
         ELSE Read("bak", [run.read EXCEPT !.source = "bak", !.primary = disk.state])
    /\ UNCHANGED <<outside, results, imports>>
ReadBackup ==
    /\ run.step = "bak"
    /\ IF disk.bak \in Versions THEN Read("settings", [run.read EXCEPT !.state = disk.bak]) ELSE Stop
    /\ UNCHANGED <<outside, results, imports>>
ReadSettings ==
    /\ run.step = "settings"
    /\ IF disk.settings = Damaged THEN Stop ELSE Read("status", [run.read EXCEPT !.settings = disk.settings])
    /\ UNCHANGED <<outside, results, imports>>

\* An earlier import of this directory is only repeated to be reported.
AskStatus ==
    /\ run.step = "status"
    /\ IF completed THEN Stop ELSE Goto("backup")
    /\ UNCHANGED <<outside, results, imports>>
Backup ==
    /\ run.step = "backup"
    /\ run' = [run EXCEPT !.step = "archive", !.backup = database]
    /\ UNCHANGED <<outside, results, imports>>
Archive ==
    /\ run.step = "archive" /\ Goto("recheck")
    /\ archive' = [backup |-> run.backup, primary |-> run.read.primary, state |-> run.read.state,
                   settings |-> run.read.settings]
    /\ UNCHANGED <<outside, database, completed, imported, imports>>

\* Mutant of AfterCheck: a difference is ignored.
AfterAnyCheck(same, next) == Goto(next)

\* Every file is read again and compared.
AfterCheck(same, next) == IF same THEN Goto(next) ELSE Stop
CheckState ==
    /\ run.step = "recheck"
    /\ AfterCheck(disk.state = run.read.primary, IF run.read.source = "bak" THEN "recheckBak" ELSE "recheckSettings")
    /\ UNCHANGED <<outside, results, imports>>
CheckBackup ==
    /\ run.step = "recheckBak" /\ AfterCheck(disk.bak = run.read.state, "recheckSettings")
    /\ UNCHANGED <<outside, results, imports>>
CheckSettings ==
    /\ run.step = "recheckSettings" /\ AfterCheck(disk.settings = run.read.settings, "import")
    /\ UNCHANGED <<outside, results, imports>>

\* external: the backend imports in one transaction, or refuses.
Import ==
    /\ run.step = "import" /\ Stop
    /\ database' = "merged" /\ completed' = TRUE
    /\ imported' = [read |-> run.read, archive |-> archive]
    /\ UNCHANGED <<outside, archive, imports>>
Fails == run.step # "idle" /\ Stop /\ UNCHANGED <<outside, results, imports>>

Next ==
    \/ OldCollector \/ Begin \/ ReadState \/ ReadBackup \/ ReadSettings \/ AskStatus \/ Backup \/ Archive
    \/ CheckState \/ CheckBackup \/ CheckSettings \/ Import \/ Fails

Spec == Init /\ [][Next]_vars

-----------------------------------------------------------------------------
\* The files imported stood together in the old directory at one moment, with
\* the file they stand in for, and the archive holds them and the database from
\* before, although they were read one at a time while they could change.
ImportedTogether ==
    imported # Nothing =>
        LET read == imported.read
            kept == imported.archive
        IN  /\ \E d \in history :
                   /\ d.state = read.primary /\ d.settings = read.settings
                   /\ read.source = "bak" => d.bak = read.state
            /\ kept.state = read.state /\ kept.settings = read.settings /\ kept.primary = read.primary
            /\ kept.backup = "own"

==============================================================================
