---------------------------- MODULE UpdateService ----------------------------
(***************************************************************************)
(* The update service of the desktop host (apps/desktop/host/updates.cjs): *)
(* check() looks a release up, download() fetches and verifies its         *)
(* installer, install() verifies it again, stops collection and hands it   *)
(* over.  The calls exclude one another (busy) and run in one queue, so at *)
(* most one of them is between its awaits: "operation".  Other programs    *)
(* may replace files of the update directory at any time.                  *)
(*                                                                         *)
(* An asset is a file name and a digest: a release published again keeps   *)
(* its name.  A file stands for its digest.                                *)
(***************************************************************************)
EXTENDS Naturals

CONSTANTS
    Files, Digests, \* names and digests of installers
    Unknown,        \* no value yet: preferences, asset, answer
    Damaged,        \* an unreadable preference file
    MaxReplaced,    \* bound: replacements of files by other programs
    MaxChecks       \* bound: checks for updates

VARIABLES
    preferences, preferenceFailure, preferenceFile,
    selectedAsset, downloadedCandidates, snapshot, operation,
    updates,        \* content of each file of the update directory
    rejected,       \* history: assets found changed since their last download
    replaced, checks

vars == <<preferences, preferenceFailure, preferenceFile, selectedAsset,
          downloadedCandidates, snapshot, operation, updates, rejected,
          replaced, checks>>
preferenceVars == <<preferences, preferenceFailure, preferenceFile>>
assetVars == <<selectedAsset, downloadedCandidates>>
boundVars == <<replaced, checks>>

Assets == [file : Files, digest : Digests]
Contents == Digests \cup {"absent", "other", "link"}
Preferences == [checkOnStartup : BOOLEAN, recent : BOOLEAN]
DefaultPreferences == [checkOnStartup |-> TRUE, recent |-> FALSE]
States == {"unchecked", "checking", "latest", "available", "downloaded", "verifying",
           "downloading", "preparing", "installing", "manual", "error"}
Idle == [kind |-> "none", asset |-> Unknown, automatic |-> FALSE]

\* Type invariant.
TypeOK ==
    /\ preferences \in Preferences \cup {Unknown}
    /\ preferenceFile \in Preferences \cup {Unknown, Damaged}
    /\ preferenceFailure \in BOOLEAN
    /\ selectedAsset \in Assets \cup {Unknown}
    /\ downloadedCandidates \subseteq Assets
    /\ snapshot \in [state : States, downloaded : BOOLEAN, canInstall : BOOLEAN, manual : BOOLEAN]
    /\ operation \in [kind : {"none", "check", "cache", "download", "verify", "prepare", "launch"},
                      asset : Assets \cup {Unknown}, automatic : BOOLEAN]
    /\ updates \in [Files -> Contents]
    /\ rejected \subseteq Assets
    /\ replaced \in 0..MaxReplaced /\ checks \in 0..MaxChecks

NotChecked == [state |-> "unchecked", downloaded |-> FALSE, canInstall |-> FALSE, manual |-> FALSE]

Init ==
    /\ preferences = Unknown /\ preferenceFailure = FALSE
    /\ selectedAsset = Unknown /\ downloadedCandidates = {}
    /\ snapshot = NotChecked /\ operation = Idle
    /\ preferenceFile \in {Unknown, Damaged, DefaultPreferences}
    /\ updates = [f \in Files |-> "absent"]
    /\ rejected = {} /\ replaced = 0 /\ checks = 0

-----------------------------------------------------------------------------
(* Preferences. *)

\* The preferences loadPreferences leaves in memory; Unknown when it fails.
LoadedPreferences ==
    IF preferences # Unknown THEN preferences
    ELSE IF preferenceFile \in Preferences THEN preferenceFile
    ELSE IF preferenceFile = Unknown /\ ~preferenceFailure THEN DefaultPreferences
    ELSE Unknown

loadPreferences ==
    /\ preferences' = LoadedPreferences
    /\ preferenceFailure' = CASE LoadedPreferences = Unknown -> TRUE
                              [] preferences = Unknown /\ preferenceFile # Unknown -> FALSE
                              [] OTHER -> preferenceFailure

\* The rename that ends a save either happens, or memory forgets the value.
savePreferences(next) ==
    \/ preferences' = next /\ preferenceFile' = next /\ preferenceFailure' = FALSE
    \/ preferences' = Unknown /\ preferenceFailure' = TRUE /\ UNCHANGED preferenceFile

Settings ==
    /\ operation = Idle
    /\ loadPreferences
    /\ UNCHANGED <<preferenceFile, assetVars, snapshot, operation, updates, rejected, boundVars>>

setCheckOnStartup(value) ==
    /\ operation = Idle
    /\ IF LoadedPreferences = Unknown
       THEN loadPreferences /\ UNCHANGED preferenceFile
       ELSE savePreferences([LoadedPreferences EXCEPT !.checkOnStartup = value])
    /\ UNCHANGED <<assetVars, snapshot, operation, updates, rejected, boundVars>>

-----------------------------------------------------------------------------
\* One request at a time: while one is under way the host (updateRequestBusy,
\* installingUpdate) and the service answer "busy" and change nothing.
Free == operation = Idle

(* check(): metadata only. *)

CheckFailed ==
    /\ selectedAsset' = Unknown
    /\ snapshot' = [state |-> "error", downloaded |-> FALSE, canInstall |-> FALSE, manual |-> FALSE]
    /\ operation' = Idle
    /\ UNCHANGED downloadedCandidates

\* An automatic check is skipped when disabled, or after a recent "latest".
Skipped(automatic) ==
    /\ automatic
    /\ \/ ~LoadedPreferences.checkOnStartup
       \/ snapshot.state # "error" /\ LoadedPreferences.recent

Check(automatic) ==
    /\ Free /\ checks < MaxChecks
    /\ checks' = checks + 1
    /\ loadPreferences
    /\ \/ LoadedPreferences = Unknown /\ CheckFailed
       \/ /\ LoadedPreferences # Unknown /\ Skipped(automatic)
          /\ UNCHANGED <<assetVars, snapshot, operation>>
       \/ /\ LoadedPreferences # Unknown /\ ~Skipped(automatic)
          /\ selectedAsset' = Unknown
          /\ snapshot' = [snapshot EXCEPT !.state = "checking"]
          /\ operation' = [kind |-> "check", asset |-> Unknown, automatic |-> automatic]
          /\ UNCHANGED downloadedCandidates
    /\ UNCHANGED <<preferenceFile, updates, rejected, replaced>>

\* The release is newer, with a supported asset or without.
Release(newer, asset) ==
    LET downloaded == asset # Unknown /\ asset \in downloadedCandidates
    IN  /\ selectedAsset' = asset
        /\ snapshot' = [state |-> IF ~newer THEN "latest"
                                  ELSE IF downloaded THEN "downloaded" ELSE "available",
                        downloaded |-> downloaded, canInstall |-> asset # Unknown,
                        manual |-> newer /\ asset = Unknown]
        /\ operation' = Idle
        /\ UNCHANGED downloadedCandidates

CheckAnswer ==
    /\ operation.kind = "check"
    /\ \/ CheckFailed /\ UNCHANGED preferenceVars
       \/ /\ \E asset \in Assets \cup {Unknown} : Release(TRUE, asset)
          /\ UNCHANGED preferenceVars
       \/ /\ ~operation.automatic
          /\ Release(FALSE, Unknown) /\ UNCHANGED preferenceVars
       \/ /\ operation.automatic
          /\ savePreferences([preferences EXCEPT !.recent = TRUE])
          /\ IF preferenceFailure' THEN CheckFailed ELSE Release(FALSE, Unknown)
    /\ UNCHANGED <<updates, rejected, boundVars>>

-----------------------------------------------------------------------------
(* download(): at the user's request only. *)

Download ==
    /\ Free /\ selectedAsset # Unknown
    /\ snapshot' = [snapshot EXCEPT !.downloaded = FALSE]
    /\ operation' = [kind |-> "cache", asset |-> selectedAsset, automatic |-> FALSE]
    /\ UNCHANGED <<preferenceVars, assetVars, updates, rejected, boundVars>>

Failed(downloaded) ==
    /\ snapshot' = [snapshot EXCEPT !.state = "error", !.downloaded = downloaded]
    /\ operation' = Idle

DownloadFailed ==
    /\ downloadedCandidates' = downloadedCandidates \ {operation.asset}
    /\ Failed(FALSE)
    /\ UNCHANGED <<updates, rejected>>

DownloadDone ==
    /\ downloadedCandidates' = downloadedCandidates \cup {operation.asset}
    /\ snapshot' = [snapshot EXCEPT !.state = "downloaded", !.downloaded = TRUE]
    /\ rejected' = rejected \ {operation.asset}
    /\ operation' = Idle

\* verifiedCache: a good file of an earlier download is used as it is.
DownloadFromCache ==
    /\ operation.kind = "cache"
    /\ LET content == updates[operation.asset.file]
       IN  \/ content # "absent" /\ content = operation.asset.digest
              /\ DownloadDone /\ UNCHANGED updates
           \/ DownloadFailed \* a link, or a file that cannot be read
           \/ /\ content \notin {operation.asset.digest, "link"}
              /\ snapshot' = [snapshot EXCEPT !.state = "downloading"]
              /\ operation' = [operation EXCEPT !.kind = "download"]
              /\ UNCHANGED <<downloadedCandidates, updates, rejected>>
    /\ UNCHANGED <<selectedAsset, preferenceVars, boundVars>>

\* What was received into the temporary file is hashed before it is renamed.
DownloadReceived ==
    /\ operation.kind = "download"
    /\ \/ \E content \in Digests \cup {"other"} :
              IF content = operation.asset.digest
              THEN /\ updates' = [updates EXCEPT ![operation.asset.file] = content]
                   /\ DownloadDone
              ELSE DownloadFailed
       \/ DownloadFailed \* redirects, lengths, time limit, writing
    /\ UNCHANGED <<selectedAsset, preferenceVars, boundVars>>

-----------------------------------------------------------------------------
(* install(): verify again, stop collection, hand over. *)

notDownloaded ==
    /\ snapshot' = [snapshot EXCEPT !.state = IF selectedAsset # Unknown THEN "available" ELSE @,
                                    !.downloaded = FALSE]
    /\ UNCHANGED operation

InstallWithoutAsset ==
    /\ Free /\ selectedAsset = Unknown
    /\ snapshot.state \notin {"latest", "error"}
    /\ \/ ~snapshot.manual /\ notDownloaded
       \/ /\ snapshot.manual
          /\ snapshot' \in {[snapshot EXCEPT !.state = "manual"],
                            [snapshot EXCEPT !.state = "error"]}
          /\ UNCHANGED operation
    /\ UNCHANGED <<preferenceVars, assetVars, updates, rejected, boundVars>>

Install ==
    /\ Free /\ selectedAsset # Unknown
    /\ IF selectedAsset \in downloadedCandidates
       THEN /\ operation' = [kind |-> "verify", asset |-> selectedAsset, automatic |-> FALSE]
            /\ UNCHANGED snapshot
       ELSE notDownloaded
    /\ UNCHANGED <<preferenceVars, assetVars, updates, rejected, boundVars>>

\* Mutant of InstallRefused: the changed installer still counts as downloaded.
InstallRefusedOnce ==
    /\ UNCHANGED downloadedCandidates
    /\ rejected' = rejected \cup {operation.asset}
    /\ Failed(FALSE)

InstallRefused ==
    /\ downloadedCandidates' = downloadedCandidates \ {operation.asset}
    /\ rejected' = rejected \cup {operation.asset}
    /\ Failed(FALSE)

InstallVerified ==
    /\ operation.kind = "verify"
    /\ \/ /\ updates[operation.asset.file] = operation.asset.digest
          /\ snapshot' = [snapshot EXCEPT !.state = "preparing"]
          /\ operation' = [operation EXCEPT !.kind = "prepare"]
          /\ UNCHANGED <<downloadedCandidates, rejected>>
       \/ InstallRefused \* another content, or it cannot be read
    /\ UNCHANGED <<selectedAsset, preferenceVars, updates, boundVars>>

\* beforeInstall: the data are saved and the collector is stopped, or not.
Prepared ==
    /\ operation.kind = "prepare"
    /\ \/ /\ snapshot' = [snapshot EXCEPT !.state = "installing"]
          /\ operation' = [operation EXCEPT !.kind = "launch"]
       \/ Failed(snapshot.downloaded)
    /\ UNCHANGED <<preferenceVars, assetVars, updates, rejected, boundVars>>

\* launchInstaller: the helper accepts, or the installer stays for a retry.
Launched ==
    /\ operation.kind = "launch"
    /\ \/ operation' = Idle /\ UNCHANGED snapshot
       \/ Failed(snapshot.downloaded)
    /\ UNCHANGED <<preferenceVars, assetVars, updates, rejected, boundVars>>

-----------------------------------------------------------------------------
(* The surroundings. *)

ReplaceFile(f, content) ==
    /\ replaced < MaxReplaced
    /\ updates' = [updates EXCEPT ![f] = content]
    /\ replaced' = replaced + 1
    /\ UNCHANGED <<preferenceVars, assetVars, snapshot, operation, rejected, checks>>

\* An hour after the last automatic check found nothing.
HourPasses ==
    /\ LET Old(p) == IF p \in Preferences THEN [p EXCEPT !.recent = FALSE] ELSE p
       IN  preferences' = Old(preferences) /\ preferenceFile' = Old(preferenceFile)
    /\ UNCHANGED <<preferenceFailure, assetVars, snapshot, operation, updates, rejected, boundVars>>

\* The application ends at any time and is started again.
Restart ==
    /\ preferences' = Unknown /\ preferenceFailure' = FALSE
    /\ selectedAsset' = Unknown /\ downloadedCandidates' = {}
    /\ snapshot' = NotChecked /\ operation' = Idle
    /\ rejected' = {}
    /\ UNCHANGED <<preferenceFile, updates, boundVars>>

Next ==
    \/ Settings \/ \E value \in BOOLEAN : setCheckOnStartup(value)
    \/ \E automatic \in BOOLEAN : Check(automatic)
    \/ CheckAnswer
    \/ Download \/ DownloadFromCache \/ DownloadReceived
    \/ InstallWithoutAsset \/ Install \/ InstallVerified \/ Prepared \/ Launched
    \/ \E f \in Files, content \in Contents : ReplaceFile(f, content)
    \/ HourPasses \/ Restart

Spec == Init /\ [][Next]_vars

-----------------------------------------------------------------------------
(* Properties. *)

\* Between two calls the status a page shows as downloaded (from which it
\* offers to install) and the verified downloads in memory agree, whatever
\* sequence of checks, downloads, refused and failed installations led there.
DownloadedIsInstallable ==
    operation = Idle => (snapshot.downloaded <=> selectedAsset \in downloadedCandidates)

\* An installer whose file was once found changed does not stop collection
\* or start again, although the file may be good again, until the user
\* downloads the update again (within one run of the application).
ChangedNeedsDownload ==
    operation.kind \in {"prepare", "launch"} => operation.asset \notin rejected

\* Both: the page offers to install what verification will accept, and a file
\* found changed is not used again.
DownloadsVerified == DownloadedIsInstallable /\ ChangedNeedsDownload

\* A preference file that could not be read is never overwritten.
DamagedFileKept == [][preferenceFile = Damaged => preferenceFile' = Damaged]_vars

(* Their strengthening, which every step preserves. *)

\* What an operation works on is what was selected when it began.
OperationInv ==
    /\ operation.kind = "none" => operation = Idle
    /\ operation.kind \notin {"none", "check"} => operation.asset = selectedAsset /\ selectedAsset \in Assets
    /\ operation.kind \in {"verify", "prepare", "launch"} =>
          selectedAsset \in downloadedCandidates /\ snapshot.downloaded
    /\ downloadedCandidates \cap rejected = {}

AssetTypes ==
    /\ selectedAsset \in Assets \cup {Unknown} /\ downloadedCandidates \subseteq Assets
    /\ snapshot \in [state : States, downloaded : BOOLEAN, canInstall : BOOLEAN, manual : BOOLEAN]
    /\ operation \in [kind : {"none", "check", "cache", "download", "verify", "prepare", "launch"},
                      asset : Assets \cup {Unknown}, automatic : BOOLEAN]

UInv == AssetTypes /\ OperationInv /\ DownloadsVerified

\* Preferences in memory were read, or replaced a file that could be read.
PInv ==
    /\ preferences \in Preferences \cup {Unknown}
    /\ preferenceFile \in Preferences \cup {Unknown, Damaged}
    /\ preferences # Unknown => preferenceFile # Damaged
    /\ operation.kind = "check" => preferences # Unknown
=============================================================================
