---------------------------- MODULE DesktopProofs ----------------------------
(***************************************************************************)
(* The components of the desktop application keep their invariants in      *)
(* every behaviour of MCDesktop: in a step, the component that moves takes *)
(* a step of its own and the others none.                                  *)
(***************************************************************************)
EXTENDS MCDesktop, TLAPS, Sequences

-----------------------------------------------------------------------------
(* The hand-over of an update keeps its promises (update-handoff.cjs),     *)
(* whatever is replaced, killed or late.                                   *)

LEMMA HandoverInit == Handoff!Init => Handoff!HInv
  BY DEF Handoff!Init, Handoff!HInv, Handoff!TypeOK, Handoff!HandoverHonoured,
         Handoff!VerifiedInstallerOnly, Handoff!GivenUpStartsNothing,
         Handoff!FileInv, Handoff!GoInv, Handoff!Locked

\* A step of the host or of the window leaves the helper and the file alone.
LEMMA HostSteps ==
    ASSUME Handoff!HInv,
           Handoff!Spawn \/ Handoff!OnReady \/ Handoff!GoWritten
              \/ Handoff!ReadyTimeout \/ Handoff!HelperExited
                 \/ Handoff!HostExits \/ Handoff!GuiExits
    PROVE  Handoff!HInv'
  <1> USE DEF Handoff!HInv, Handoff!TypeOK, Handoff!HandoverHonoured,
              Handoff!VerifiedInstallerOnly, Handoff!GivenUpStartsNothing,
              Handoff!FileInv, Handoff!GoInv, Handoff!Locked
  <1>1. CASE Handoff!Spawn
    BY <1>1 DEF Handoff!Spawn
  <1>2. CASE Handoff!OnReady
    <2>1. CASE parent' = "authorized"
      BY <1>2, <2>1 DEF Handoff!OnReady, Handoff!Reject
    <2>2. CASE Handoff!Reject
      BY <1>2, <2>2 DEF Handoff!OnReady, Handoff!Reject
    <2>3. QED
      BY <1>2, <2>1, <2>2 DEF Handoff!OnReady
  <1>3. CASE Handoff!GoWritten
    BY <1>3 DEF Handoff!GoWritten
  <1>4. CASE Handoff!ReadyTimeout \/ Handoff!HelperExited
    BY <1>4 DEF Handoff!ReadyTimeout, Handoff!HelperExited, Handoff!Reject
  <1>5. CASE Handoff!HostExits
    BY <1>5 DEF Handoff!HostExits
  <1>6. CASE Handoff!GuiExits
    BY <1>6 DEF Handoff!GuiExits
  <1>7. QED
    BY <1>1, <1>2, <1>3, <1>4, <1>5, <1>6

\* A step of the helper, or of a program that replaces the file.
LEMMA HelperSteps ==
    ASSUME Handoff!HInv, Handoff!Open \/ Handoff!ReadLine \/ Handoff!WaitForHost
              \/ Handoff!StartProcess \/ Handoff!HelperFails \/ Handoff!ReplaceFile
    PROVE  Handoff!HInv'
  <1> USE DEF Handoff!HInv, Handoff!TypeOK, Handoff!HandoverHonoured,
              Handoff!VerifiedInstallerOnly, Handoff!GivenUpStartsNothing,
              Handoff!FileInv, Handoff!GoInv, Handoff!Locked
  <1>1. CASE Handoff!Open
    BY <1>1 DEF Handoff!Open
  <1>2. CASE Handoff!ReadLine
    BY <1>2 DEF Handoff!ReadLine
  <1>3. CASE Handoff!WaitForHost
    BY <1>3 DEF Handoff!WaitForHost
  <1>4. CASE Handoff!StartProcess
    BY <1>4 DEF Handoff!StartProcess
  <1>5. CASE Handoff!HelperFails
    BY <1>5 DEF Handoff!HelperFails
  <1>6. CASE Handoff!ReplaceFile
    BY <1>6 DEF Handoff!ReplaceFile
  <1>7. QED
    BY <1>1, <1>2, <1>3, <1>4, <1>5, <1>6

LEMMA HandoverStep ==
    ASSUME Handoff!HInv, Handoff!Next \/ UNCHANGED handoffVars
    PROVE  Handoff!HInv'
  <1>1. CASE Handoff!Next
    BY <1>1, HostSteps, HelperSteps DEF Handoff!Next
  <1>2. CASE UNCHANGED handoffVars
    BY <1>2 DEF handoffVars, Handoff!HInv, Handoff!TypeOK, Handoff!HandoverHonoured,
                Handoff!VerifiedInstallerOnly, Handoff!GivenUpStartsNothing,
                Handoff!FileInv, Handoff!GoInv, Handoff!Locked
  <1>3. QED
    BY <1>1, <1>2

\* Only the verified installer is started, only after the host and the window
\* have exited, and none after a hand-over the host reported as failed before
\* it wrote GO.
THEOREM HandoverKept == Spec => []HandoverHonoured
  <1>1. Init => Handoff!HInv
    BY HandoverInit DEF Init
  <1>2. Handoff!HInv /\ [Next]_desktopVars => Handoff!HInv'
    BY HandoverStep DEF Next, desktopVars
  <1>3. Handoff!HInv => HandoverHonoured
    BY DEF Handoff!HInv, HandoverHonoured
  <1>4. QED
    BY <1>1, <1>2, <1>3, PTL DEF Spec

-----------------------------------------------------------------------------
(* What the update service offers to install is verified, and a damaged    *)
(* preference file survives (updates.cjs), for any names and digests.      *)

-----------------------------------------------------------------------------
LEMMA ServiceInit == Updates!Init => Updates!UInv
  BY DEF Updates!Init, Updates!UInv, Updates!AssetTypes, Updates!OperationInv,
         Updates!DownloadsVerified, Updates!DownloadedIsInstallable,
         Updates!ChangedNeedsDownload, Updates!NotChecked, Updates!Idle, Updates!States

\* Checks for an update.
LEMMA CheckSteps ==
    ASSUME Updates!UInv, (\E automatic \in BOOLEAN : Updates!Check(automatic))
              \/ Updates!CheckAnswer
    PROVE  Updates!UInv'
  <1> USE DEF Updates!UInv, Updates!AssetTypes, Updates!OperationInv, Updates!DownloadsVerified,
              Updates!DownloadedIsInstallable,
              Updates!ChangedNeedsDownload, Updates!Idle, Updates!States, Updates!boundVars,
                 Updates!assetVars
  <1>1. CASE Updates!CheckFailed /\ UNCHANGED rejected
    BY <1>1, NamesAssumption DEF Updates!CheckFailed
  <1>2. ASSUME NEW newer \in BOOLEAN, NEW asset \in Updates!Assets \cup {Unknown},
               Updates!Release(newer, asset), UNCHANGED rejected
        PROVE  Updates!UInv'
    <2> DEFINE downloaded == asset # Unknown /\ asset \in downloadedCandidates
    <2>1. /\ selectedAsset' = asset /\ operation' = Updates!Idle /\ UNCHANGED downloadedCandidates
          /\ snapshot'.downloaded = downloaded
          /\ snapshot' \in [state : Updates!States, downloaded : BOOLEAN, canInstall : BOOLEAN, manual : BOOLEAN]
      BY <1>2 DEF Updates!Release
    <2>2. QED
      BY <1>2, <2>1, NamesAssumption
  <1>3. ASSUME NEW automatic \in BOOLEAN, Updates!Check(automatic)
        PROVE  Updates!UInv'
    <2>1. CASE UNCHANGED <<Updates!assetVars, snapshot, operation>>
      BY <1>3, <2>1 DEF Updates!Check
    <2>2. CASE /\ selectedAsset' = Unknown
               /\ snapshot' = [snapshot EXCEPT !.state = "checking"]
               /\ operation' = [kind |-> "check", asset |-> Unknown, automatic |-> automatic]
               /\ UNCHANGED downloadedCandidates
      BY <1>3, <2>2 DEF Updates!Check
    <2>3. QED
      BY <1>1, <1>3, <2>1, <2>2 DEF Updates!Check
  <1>4. CASE Updates!CheckAnswer
    <2>1. UNCHANGED rejected /\ (Updates!CheckFailed \/ Updates!Release(FALSE, Unknown)
              \/ \E asset \in Updates!Assets \cup {Unknown} : Updates!Release(TRUE, asset))
      BY <1>4 DEF Updates!CheckAnswer
    <2>2. QED
      BY <1>1, <1>2, <2>1
  <1>5. QED
    BY <1>3, <1>4

\* Downloads.
LEMMA DownloadSteps ==
    ASSUME Updates!UInv, Updates!Download \/ Updates!DownloadFromCache
              \/ Updates!DownloadReceived
    PROVE  Updates!UInv'
  <1> USE DEF Updates!UInv, Updates!AssetTypes, Updates!OperationInv, Updates!DownloadsVerified,
              Updates!DownloadedIsInstallable,
              Updates!ChangedNeedsDownload, Updates!Idle, Updates!States, Updates!boundVars,
                 Updates!assetVars
  <1>1. CASE Updates!Download
    BY <1>1 DEF Updates!Download, Updates!Free
  <1>2. CASE operation.kind \in {"cache", "download"} /\ Updates!DownloadDone
                /\ UNCHANGED selectedAsset
    BY <1>2 DEF Updates!DownloadDone
  <1>3. CASE operation.kind \in {"cache", "download"} /\ Updates!DownloadFailed
                /\ UNCHANGED selectedAsset
    BY <1>3 DEF Updates!DownloadFailed, Updates!Failed
  <1>4. CASE Updates!DownloadFromCache
    <2>1. CASE /\ snapshot' = [snapshot EXCEPT !.state = "downloading"]
               /\ operation' = [operation EXCEPT !.kind = "download"]
               /\ UNCHANGED <<downloadedCandidates, updates, rejected>>
      BY <1>4, <2>1 DEF Updates!DownloadFromCache
    <2>2. QED
      BY <1>2, <1>3, <1>4, <2>1 DEF Updates!DownloadFromCache
  <1>5. CASE Updates!DownloadReceived
    BY <1>2, <1>3, <1>5 DEF Updates!DownloadReceived
  <1>6. QED
    BY <1>1, <1>4, <1>5

\* Installations.
LEMMA InstallSteps ==
    ASSUME Updates!UInv,
           Updates!InstallWithoutAsset \/ Updates!Install \/ Updates!InstallVerified
              \/ Updates!Prepared \/ Updates!Launched
    PROVE  Updates!UInv'
  <1> USE DEF Updates!UInv, Updates!AssetTypes, Updates!OperationInv, Updates!DownloadsVerified,
              Updates!DownloadedIsInstallable,
              Updates!ChangedNeedsDownload, Updates!Idle, Updates!States, Updates!boundVars,
                 Updates!assetVars
  <1>1. CASE Updates!InstallWithoutAsset
    BY <1>1, NamesAssumption DEF Updates!InstallWithoutAsset, Updates!notDownloaded, Updates!Free
  <1>2. CASE Updates!Install
    <2>1. CASE selectedAsset \in downloadedCandidates
      <3>1. snapshot.downloaded
        BY <1>2, <2>1 DEF Updates!Install, Updates!Free
      <3>2. /\ operation' = [kind |-> "verify", asset |-> selectedAsset, automatic |-> FALSE]
            /\ UNCHANGED <<snapshot, selectedAsset, downloadedCandidates, rejected>>
            /\ selectedAsset \in Updates!Assets
        BY <1>2, <2>1 DEF Updates!Install, Updates!Free
      <3>3. operation'.kind = "verify" /\ operation'.asset = selectedAsset
               /\ operation' # Updates!Idle
        BY <3>2
      <3>4. QED
        BY <2>1, <3>1, <3>2, <3>3
    <2>2. CASE selectedAsset \notin downloadedCandidates
      BY <1>2, <2>2 DEF Updates!Install, Updates!notDownloaded, Updates!Free
    <2>3. QED
      BY <2>1, <2>2
  <1>3. CASE Updates!InstallVerified
    <2>1. CASE Updates!InstallRefused
      BY <1>3, <2>1 DEF Updates!InstallVerified, Updates!InstallRefused, Updates!Failed
    <2>2. CASE /\ snapshot' = [snapshot EXCEPT !.state = "preparing"]
               /\ operation' = [operation EXCEPT !.kind = "prepare"]
               /\ UNCHANGED <<downloadedCandidates, rejected>>
      BY <1>3, <2>2 DEF Updates!InstallVerified
    <2>3. QED
      BY <1>3, <2>1, <2>2 DEF Updates!InstallVerified
  <1>4. CASE Updates!Prepared
    <2>1. CASE operation' = [operation EXCEPT !.kind = "launch"]
      <3>1. /\ operation.kind = "prepare"
            /\ UNCHANGED <<selectedAsset, downloadedCandidates, rejected>>
        BY <1>4 DEF Updates!Prepared
      <3>2. snapshot' = [snapshot EXCEPT !.state = "installing"]
        BY <1>4, <2>1 DEF Updates!Prepared, Updates!Failed
      <3>3. operation'.kind = "launch" /\ operation'.asset = operation.asset
               /\ operation' # Updates!Idle
        BY <2>1
      <3>4. QED
        BY <2>1, <3>1, <3>2, <3>3
    <2>2. CASE Updates!Failed(snapshot.downloaded)
      BY <1>4, <2>2 DEF Updates!Prepared, Updates!Failed
    <2>3. QED
      BY <1>4, <2>1, <2>2 DEF Updates!Prepared
  <1>5. CASE Updates!Launched
    <2>1. CASE operation' = Updates!Idle /\ UNCHANGED snapshot
      BY <1>5, <2>1 DEF Updates!Launched
    <2>2. CASE Updates!Failed(snapshot.downloaded)
      BY <1>5, <2>2 DEF Updates!Launched, Updates!Failed
    <2>3. QED
      BY <1>5, <2>1, <2>2 DEF Updates!Launched
  <1>6. QED
    BY <1>1, <1>2, <1>3, <1>4, <1>5

LEMMA ServiceStep ==
    ASSUME Updates!UInv, Updates!Next \/ UNCHANGED updatesVars
    PROVE  Updates!UInv'
  <1>1. CASE UNCHANGED <<Updates!assetVars, snapshot, operation, rejected>>
    BY <1>1 DEF Updates!UInv, Updates!AssetTypes, Updates!OperationInv, Updates!DownloadsVerified,
                Updates!DownloadedIsInstallable, Updates!ChangedNeedsDownload, Updates!assetVars
  <1>2. CASE Updates!Settings \/ \E value \in BOOLEAN : Updates!setCheckOnStartup(value)
    BY <1>1, <1>2 DEF Updates!Settings, Updates!setCheckOnStartup
  <1>3. CASE \/ Updates!HourPasses
             \/ \E f \in Files, content \in Updates!Contents : Updates!ReplaceFile(f, content)
    BY <1>1, <1>3 DEF Updates!HourPasses, Updates!ReplaceFile
  <1>4. CASE Updates!Restart
    BY <1>4 DEF Updates!Restart, Updates!UInv, Updates!AssetTypes, Updates!OperationInv,
                Updates!DownloadsVerified, Updates!DownloadedIsInstallable,
                Updates!ChangedNeedsDownload, Updates!NotChecked, Updates!Idle, Updates!States
  <1>5. CASE UNCHANGED updatesVars
    BY <1>1, <1>5 DEF updatesVars, Updates!assetVars
  <1>6. QED
    BY <1>2, <1>3, <1>4, <1>5, CheckSteps, DownloadSteps, InstallSteps DEF Updates!Next

\* An update shown as downloaded can be installed, and an installer once found
\* changed is not prepared or started before it is downloaded again, whatever
\* files are replaced and whichever calls fail.
THEOREM OfferedIsVerified == Spec => []DownloadsVerified
  <1>1. Init => Updates!UInv
    BY ServiceInit DEF Init
  <1>2. Updates!UInv /\ [Next]_desktopVars => Updates!UInv'
    BY ServiceStep DEF Next, desktopVars
  <1>3. Updates!UInv => DownloadsVerified
    BY DEF Updates!UInv, DownloadsVerified
  <1>4. QED
    BY <1>1, <1>2, <1>3, PTL DEF Spec

-----------------------------------------------------------------------------
(* Updates!Preferences. *)

Kept == preferenceFile = Damaged => preferenceFile' = Damaged

LEMMA PreferencesInit == Updates!Init => Updates!PInv
  <1>1. Updates!DefaultPreferences \in Updates!Preferences /\ Updates!Idle.kind # "check"
    BY DEF Updates!Preferences, Updates!DefaultPreferences, Updates!Idle
  <1>2. QED
    BY <1>1 DEF Updates!Init, Updates!PInv

\* What is loaded is known only if the file can be read, or was never written.
LEMMA Loading ==
    ASSUME Updates!PInv
    PROVE  /\ Updates!LoadedPreferences \in Updates!Preferences \cup {Unknown}
           /\ Updates!LoadedPreferences # Unknown => preferenceFile # Damaged
  BY NamesAssumption DEF Updates!LoadedPreferences, Updates!PInv, Updates!Preferences,
         Updates!DefaultPreferences

LEMMA Saving ==
    ASSUME Updates!PInv, preferenceFile # Damaged, NEW next \in Updates!Preferences,
              Updates!savePreferences(next)
    PROVE  /\ preferences' \in Updates!Preferences \cup {Unknown}
           /\ preferenceFile' \in Updates!Preferences \cup {Unknown, Damaged}
           /\ preferences' # Unknown => preferenceFile' # Damaged
           /\ Kept
  BY NamesAssumption DEF Updates!savePreferences, Updates!PInv, Kept

LEMMA Changing ==
    ASSUME NEW p \in Updates!Preferences, NEW value \in BOOLEAN
    PROVE  /\ [p EXCEPT !.checkOnStartup = value] \in Updates!Preferences
           /\ [p EXCEPT !.recent = value] \in Updates!Preferences
  BY DEF Updates!Preferences

\* A step keeps the invariant, and keeps a damaged file.
LEMMA PreferencesStep ==
    ASSUME Updates!AssetTypes, Updates!PInv, Updates!Next \/ UNCHANGED updatesVars
    PROVE  Updates!PInv' /\ Kept
  <1>1. CASE UNCHANGED Updates!preferenceVars /\ operation'.kind # "check"
    BY <1>1 DEF Updates!PInv, Kept, Updates!preferenceVars
  <1>2. CASE UNCHANGED <<Updates!preferenceVars, operation>>
    BY <1>2 DEF Updates!PInv, Kept, Updates!preferenceVars
  <1>3. CASE preferences' = Updates!LoadedPreferences /\ UNCHANGED preferenceFile /\
             (operation'.kind = "check" => Updates!LoadedPreferences # Unknown)
    BY <1>3, Loading DEF Updates!PInv, Kept
  <1>4. CASE Updates!Settings
    BY <1>3, <1>4 DEF Updates!Settings, Updates!loadPreferences, Updates!Idle
  <1>5. ASSUME NEW value \in BOOLEAN, Updates!setCheckOnStartup(value)
        PROVE  Updates!PInv' /\ Kept
    <2>1. operation'.kind = "none"
      BY <1>5 DEF Updates!setCheckOnStartup, Updates!Idle
    <2>2. CASE Updates!LoadedPreferences = Unknown
      BY <1>3, <1>5, <2>1, <2>2 DEF Updates!setCheckOnStartup, Updates!loadPreferences
    <2>3. CASE Updates!LoadedPreferences # Unknown
      <3>1. Updates!savePreferences([Updates!LoadedPreferences EXCEPT !.checkOnStartup = value])
        BY <1>5, <2>3 DEF Updates!setCheckOnStartup
      <3>2. QED
        BY <2>1, <2>3, <3>1, Loading, Changing, Saving DEF Updates!PInv
    <2>4. QED
      BY <2>2, <2>3
  <1>6. ASSUME NEW automatic \in BOOLEAN, Updates!Check(automatic)
        PROVE  Updates!PInv' /\ Kept
    <2>1. preferences' = Updates!LoadedPreferences /\ UNCHANGED preferenceFile
      BY <1>6 DEF Updates!Check, Updates!loadPreferences
    <2>2. operation'.kind = "check" => Updates!LoadedPreferences # Unknown
      BY <1>6 DEF Updates!Check, Updates!CheckFailed, Updates!Free, Updates!Idle
    <2>3. QED
      BY <1>3, <2>1, <2>2
  <1>7. CASE Updates!CheckAnswer
    <2>1. operation'.kind = "none" /\ preferences \in Updates!Preferences
             /\ preferenceFile # Damaged
      BY <1>7 DEF Updates!CheckAnswer, Updates!CheckFailed, Updates!Release, Updates!Idle,
                  Updates!PInv
    <2>2. UNCHANGED Updates!preferenceVars
             \/ Updates!savePreferences([preferences EXCEPT !.recent = TRUE])
      BY <1>7 DEF Updates!CheckAnswer
    <2>3. CASE Updates!savePreferences([preferences EXCEPT !.recent = TRUE])
      BY <2>1, <2>3, Changing, Saving DEF Updates!PInv
    <2>4. QED
      BY <1>1, <2>1, <2>2, <2>3
  <1>8. CASE Updates!Download \/ Updates!DownloadFromCache \/ Updates!DownloadReceived
    <2>1. UNCHANGED Updates!preferenceVars
      BY <1>8 DEF Updates!Download, Updates!DownloadFromCache, Updates!DownloadReceived
    <2>2. operation'.kind # "check"
      BY <1>8 DEF Updates!Download, Updates!DownloadFromCache, Updates!DownloadReceived,
                  Updates!DownloadDone, Updates!DownloadFailed, Updates!Failed,
                  Updates!Idle, Updates!AssetTypes
    <2>3. QED
      BY <1>1, <2>1, <2>2
  <1>9. CASE Updates!InstallWithoutAsset \/ Updates!Install \/ Updates!InstallVerified
                \/ Updates!Prepared \/ Updates!Launched
    <2>1. UNCHANGED Updates!preferenceVars
      BY <1>9 DEF Updates!InstallWithoutAsset, Updates!Install, Updates!InstallVerified,
                  Updates!Prepared, Updates!Launched
    <2>2. UNCHANGED operation \/ operation'.kind # "check"
      BY <1>9 DEF Updates!InstallWithoutAsset, Updates!Install, Updates!InstallVerified,
                  Updates!InstallRefused, Updates!Prepared, Updates!Launched,
                  Updates!notDownloaded, Updates!Failed, Updates!Idle, Updates!AssetTypes
    <2>3. QED
      BY <1>1, <1>2, <2>1, <2>2
  <1>10. CASE \E f \in Files, content \in Updates!Contents : Updates!ReplaceFile(f, content)
    BY <1>2, <1>10 DEF Updates!ReplaceFile
  <1>11. CASE Updates!HourPasses
    <2> DEFINE Old(p) == IF p \in Updates!Preferences THEN [p EXCEPT !.recent = FALSE] ELSE p
    <2>1. preferences' = Old(preferences) /\ preferenceFile' = Old(preferenceFile)
             /\ UNCHANGED operation
      BY <1>11 DEF Updates!HourPasses
    <2>2. ASSUME NEW p
          PROVE  /\ p \in Updates!Preferences => Old(p) \in Updates!Preferences
                 /\ p \notin Updates!Preferences => Old(p) = p
      BY Changing
    <2> HIDE DEF Old
    <2>3. QED
      BY <2>1, <2>2, NamesAssumption DEF Updates!PInv, Kept
  <1>12. CASE Updates!Restart
    BY <1>12 DEF Updates!Restart, Updates!PInv, Kept, Updates!Idle, Updates!boundVars
  <1>13. CASE UNCHANGED updatesVars
    BY <1>2, <1>13 DEF updatesVars, Updates!preferenceVars
  <1>14. QED
    BY <1>4, <1>5, <1>6, <1>7, <1>8, <1>9, <1>10, <1>11, <1>12, <1>13 DEF Updates!Next

\* A preference file that cannot be read is never overwritten, whichever
\* settings, checks and installations follow.
THEOREM DamagedFileSurvives == Spec => [][preferenceFile = Damaged => preferenceFile' = Damaged]_desktopVars
  <1>1. Init => Updates!UInv /\ Updates!PInv
    BY ServiceInit, PreferencesInit DEF Init
  <1>2. Updates!UInv /\ Updates!PInv /\ [Next]_desktopVars => (Updates!UInv /\ Updates!PInv)'
    BY ServiceStep, PreferencesStep DEF Next, desktopVars, Updates!UInv
  <1>3. Updates!UInv /\ Updates!PInv /\ [Next]_desktopVars =>
           [preferenceFile = Damaged => preferenceFile' = Damaged]_desktopVars
    BY PreferencesStep DEF Kept, Next, desktopVars, Updates!UInv
  <1>4. QED
    BY <1>1, <1>2, <1>3, PTL DEF Spec
-----------------------------------------------------------------------------
(* No more records are deleted than the user confirmed (form-autosave.js), *)
(* for any retentions and any order of edits, failures and retries.        *)

\* A retention whose pruning deletes no more than a confirmed one.
Covered(v) == \E retention \in confirmed : ~Form!Shorter(v, retention)
Tasks == {"none", "settings", "followup"}
HasTask(batch, task) == "retention" \in DOMAIN batch /\ batch["retention"].task = task

\* Batches have entries of retentions for the retention.
IsBatch(batch) ==
    batch \in Form!Waiting
       /\ ("retention" \in DOMAIN batch => batch["retention"].value \in Retentions)
FTypes ==
    /\ IsBatch(pendingFields) /\ failure \in BOOLEAN
    /\ running # Nothing => running \in [batch : Form!Waiting, skip : BOOLEAN, step : Form!Steps]
                            /\ IsBatch(running.batch)
    /\ followup # Nothing => followup \in [value : Retentions, stage : {"prune", "reload"}]

\* A follow-up was confirmed; while the page has its retention, so is what an
\* unanswered save may have left in the database.
Follows(unfinished) == unfinished # Nothing /\ unfinished.value = settings.retention
FollowupInv(unfinished) ==
    /\ unfinished # Nothing => unfinished.value \in confirmed
    /\ Follows(unfinished) => Covered(stored.retention)

\* A confirmation is remembered with the entry it was given for.
Confirmed(batch) == HasTask(batch, "settings") => batch["retention"].value \in confirmed

\* The retention of a follow-up only waits after a failure.
PendingInv ==
    /\ Confirmed(pendingFields)
    /\ HasTask(pendingFields, "followup") => running = Nothing /\ failure /\ Follows(followup)

RunningInv(begun, unfinished) ==
    /\ Confirmed(begun.batch)
    /\ HasTask(begun.batch, "followup") => Follows(unfinished)
          /\ (begun.step = "settings" => begun.skip)
    /\ begun.step = "settings" /\ ~begun.skip /\ HasTask(begun.batch, "none") =>
          ~Form!Shorter(begun.batch["retention"].value, settings.retention)
    /\ begun.step = "prune" => HasTask(begun.batch, "followup")
    /\ begun.step = "confirm" => HasTask(begun.batch, "none")

FInv ==
    FTypes /\ FollowupInv(followup) /\ PendingInv /\ (running # Nothing => RunningInv(running,
       followup))

-----------------------------------------------------------------------------
(* Batches. *)

LEMMA BatchEntries ==
    ASSUME NEW batch \in Form!Waiting
    PROVE  /\ DOMAIN batch \subseteq Form!Fields /\ \A f \in DOMAIN batch : batch[f] \in Form!Entry
           /\ batch \in [DOMAIN batch -> Form!Entry]
  BY DEF Form!Waiting

LEMMA ChangedEntry ==
    ASSUME NEW item \in Form!Entry, NEW task \in {"none", "settings", "followup"}
    PROVE  /\ [item EXCEPT !.task = task] \in Form!Entry /\ [item EXCEPT !.task = task].task = task
           /\ [item EXCEPT !.task = task].value = item.value
           /\ [item EXCEPT !.ready = TRUE] \in Form!Entry
           /\ [item EXCEPT !.ready = TRUE].ready = TRUE
           /\ [item EXCEPT !.ready = TRUE].value = item.value
           /\ [item EXCEPT !.ready = TRUE].task = item.task
  BY DEF Form!Entry

LEMMA BatchOf ==
    ASSUME NEW S \in SUBSET Form!Fields, NEW batch \in [S -> Form!Entry]
    PROVE  batch \in Form!Waiting
  BY DEF Form!Waiting

\* A part of a batch is a batch.
LEMMA WithoutType ==
    ASSUME NEW batch, IsBatch(batch), NEW S
    PROVE  /\ IsBatch(Form!Without(batch, S)) /\ DOMAIN Form!Without(batch, S) = DOMAIN batch \ S
           /\ \A f \in DOMAIN batch \ S : Form!Without(batch, S)[f] = batch[f]
  <1>1. DOMAIN batch \ S \in SUBSET Form!Fields /\ Form!Without(batch,
           S) \in [DOMAIN batch \ S -> Form!Entry]
    BY BatchEntries DEF Form!Without, IsBatch
  <1>2. QED
    BY <1>1, BatchOf DEF Form!Without, IsBatch

\* A batch with one more entry, or a newer one.
LEMMA PutType ==
    ASSUME NEW batch, IsBatch(batch), NEW f \in Form!Fields, NEW item \in Form!Entry,
           f = "retention" => item.value \in Retentions
    PROVE  /\ IsBatch(Form!Put(batch, f, item)) /\ DOMAIN Form!Put(batch, f,
                 item) = DOMAIN batch \cup {f}
           /\ Form!Put(batch, f, item)[f] = item
           /\ \A g \in DOMAIN batch \ {f} : Form!Put(batch, f, item)[g] = batch[g]
  <1>1. /\ DOMAIN batch \cup {f} \in SUBSET Form!Fields
        /\ Form!Put(batch, f, item) \in [DOMAIN batch \cup {f} -> Form!Entry]
    BY BatchEntries DEF Form!Put, IsBatch
  <1>2. QED
    BY <1>1, BatchOf DEF Form!Put, IsBatch

\* writeSettings starts with what a batch says of its retention.
LEMMA BeginType ==
    ASSUME NEW batch, IsBatch(batch), NEW unfinished, Confirmed(batch),
           HasTask(batch, "followup") => Follows(unfinished)
    PROVE  LET begun == Form!Begin(batch, settings, unfinished)
           IN  /\ begun \in [batch : Form!Waiting, skip : BOOLEAN, step : Form!Steps]
               /\ IsBatch(begun.batch)
               /\ RunningInv(begun, IF unfinished # Nothing /\ settings.retention # unfinished.value
                                  THEN Nothing ELSE unfinished)
  <1> DEFINE begun == Form!Begin(batch, settings, unfinished)
  <1>1. CASE "retention" \notin DOMAIN batch
    BY <1>1 DEF Form!Begin, RunningInv, Confirmed, HasTask, IsBatch, Form!Steps
  <1>2. CASE "retention" \in DOMAIN batch
    <2> DEFINE live == IF unfinished # Nothing /\ settings.retention # unfinished.value
                       THEN Nothing ELSE unfinished
               item == batch["retention"]
               task == IF item.task # "none" THEN item.task
                       ELSE IF live # Nothing /\ item.value = live.value THEN "followup" ELSE "none"
               next == [item EXCEPT !.task = task]
               first == IF task = "none" /\ Form!Shorter(item.value, settings.retention)
                        THEN "confirm" ELSE "settings"
    <2>1. item \in Form!Entry /\ task \in {"none", "settings", "followup"}
             /\ item.value \in Retentions
      BY <1>2, BatchEntries DEF Form!Entry, IsBatch
    <2>2. next \in Form!Entry /\ next.task = task /\ next.value = item.value
      BY <2>1 DEF Form!Entry
    <2>3. begun = [batch |-> Form!Put(batch, "retention", next), skip |-> task = "followup",
                    step |-> first]
      BY <1>2 DEF Form!Begin
    <2>4. task = "followup" => Follows(live)
      BY <1>2, <2>1 DEF HasTask, Follows, Form!Entry
    <2>5. task = "settings" => item.value \in confirmed
      BY <1>2 DEF Confirmed, HasTask
    <2> HIDE DEF next, task, item, live
    <2>6. /\ IsBatch(begun.batch) /\ "retention" \in DOMAIN begun.batch
          /\ begun.batch["retention"] = next
      <3>1. /\ IsBatch(Form!Put(batch, "retention", next))
            /\ "retention" \in DOMAIN Form!Put(batch, "retention", next)
            /\ Form!Put(batch, "retention", next)["retention"] = next
        <4>1. next.value \in Retentions /\ "retention" \in Form!Fields
          BY <2>1, <2>2 DEF Form!Fields
        <4>2. /\ IsBatch(Form!Put(batch, "retention", next))
              /\ DOMAIN Form!Put(batch, "retention", next) = DOMAIN batch \cup {"retention"}
              /\ Form!Put(batch, "retention", next)["retention"] = next
          BY <2>2, <4>1, PutType
        <4>3. QED
          BY <4>2
      <3>2. begun.batch = Form!Put(batch, "retention", next)
        BY <2>3
      <3> HIDE DEF begun
      <3>3. QED
        BY <3>1, <3>2
    <2>7. begun \in [batch : Form!Waiting, skip : BOOLEAN, step : Form!Steps]
      BY <2>3, <2>6 DEF IsBatch, Form!Steps
    <2>8. RunningInv(begun, live)
      <3>1. begun.skip = (task = "followup") /\ begun.step = first
        BY <2>3
      <3> HIDE DEF begun
      <3>2. first = "confirm" => task = "none"
        OBVIOUS
      <3>3. first = "settings" /\ task = "none" => ~Form!Shorter(item.value, settings.retention)
        OBVIOUS
      <3>4. first # "prune"
        OBVIOUS
      <3> HIDE DEF first
      <3>5. QED
        BY <2>2, <2>4, <2>5, <2>6, <3>1, <3>2, <3>3, <3>4 DEF RunningInv, Confirmed, HasTask
    <2>9. QED
      BY <2>6, <2>7, <2>8 DEF live
  <1>3. QED
    BY <1>1, <1>2

\* drain() keeps the invariant of what waits and what is written.
LEMMA DrainKeeps ==
    ASSUME UNCHANGED <<settings, stored, confirmed>>, failure' \in BOOLEAN,
           NEW batched, IsBatch(batched), Confirmed(batched),
           NEW busy, busy # Nothing =>
              /\ busy \in [batch : Form!Waiting, skip : BOOLEAN, step : Form!Steps]
                                       /\ IsBatch(busy.batch),
           NEW unfinished,
              unfinished # Nothing => unfinished \in [value : Retentions, stage : {"prune", "reload"}],
           busy # Nothing => RunningInv(busy, unfinished),
           FollowupInv(unfinished), NEW halted \in BOOLEAN,
           HasTask(batched, "followup") =>
              /\ busy = Nothing /\ Follows(unfinished)
              /\ (halted /\ failure') \/ (~halted /\ batched["retention"].ready),
           Form!Drain(batched, busy, halted, settings, unfinished)
    PROVE  FInv'
  <1> DEFINE ready == {f \in DOMAIN batched : batched[f].ready}
  <1>1. CASE busy # Nothing \/ halted \/ ready = {}
    <2>1. pendingFields' = batched /\ running' = busy /\ followup' = unfinished
      BY <1>1 DEF Form!Drain
    <2>2. HasTask(batched, "followup") => failure'
      BY <1>1 DEF HasTask
    <2>3. QED
      BY <2>1, <2>2 DEF FInv, FTypes, FollowupInv, PendingInv, RunningInv, Follows, Confirmed,
                        HasTask,
                        Covered, IsBatch
  <1>2. CASE ~(busy # Nothing \/ halted \/ ready = {})
    <2> DEFINE live == IF unfinished # Nothing
       /\ settings.retention # unfinished.value THEN Nothing ELSE unfinished
               batch == Form!Without(batched, DOMAIN batched \ ready)
    <2>1. /\ pendingFields' = Form!Without(batched, ready) /\ running' = Form!Begin(batch,
                settings, unfinished)
          /\ followup' = live
      BY <1>2 DEF Form!Drain
    <2>2. /\ IsBatch(batch) /\ Confirmed(batch)
          /\ HasTask(batch, "followup") => Follows(unfinished)
      <3>1. /\ IsBatch(batch) /\ DOMAIN batch \subseteq DOMAIN batched
            /\ \A f \in DOMAIN batch : batch[f] = batched[f]
        <4> DEFINE unready == DOMAIN batched \ ready
        <4> HIDE DEF unready, ready
        <4>1. /\ IsBatch(Form!Without(batched, unready)) /\ DOMAIN Form!Without(batched,
                    unready) = DOMAIN batched \ unready
              /\ \A f \in DOMAIN batched \ unready : Form!Without(batched, unready)[f] = batched[f]
          BY WithoutType
        <4>2. QED
          BY <4>1 DEF unready
      <3> HIDE DEF batch
      <3>2. QED
        BY <3>1 DEF Confirmed, HasTask
    <2>3. /\ IsBatch(pendingFields') /\ Confirmed(pendingFields') /\ ~HasTask(pendingFields',
                "followup")
      <3> DEFINE rest == Form!Without(batched, ready)
      <3>1. /\ IsBatch(rest) /\ DOMAIN rest = DOMAIN batched \ ready
            /\ \A f \in DOMAIN rest : rest[f] = batched[f]
        <4> HIDE DEF ready
        <4>1. /\ IsBatch(Form!Without(batched, ready)) /\ DOMAIN Form!Without(batched,
                    ready) = DOMAIN batched \ ready
              /\ \A f \in DOMAIN batched \ ready : Form!Without(batched, ready)[f] = batched[f]
          BY WithoutType
        <4>2. QED
          BY <4>1
      <3>2. pendingFields' = rest
        BY <2>1
      <3> HIDE DEF rest
      <3>3. QED
        BY <1>2, <3>1, <3>2 DEF Confirmed, HasTask
    <2> HIDE DEF batch
    <2>4. /\ running' \in [batch : Form!Waiting, skip : BOOLEAN, step : Form!Steps]
          /\ IsBatch(running'.batch)
          /\ RunningInv(running', live)
      BY <2>1, <2>2, BeginType
    <2>5. FollowupInv(live) /\ (live # Nothing => live = unfinished)
      BY DEF FollowupInv, Follows
    <2> HIDE DEF live
    <2>6. QED
      BY <2>1, <2>3, <2>4, <2>5 DEF FInv, FTypes, FollowupInv, PendingInv, RunningInv, Follows,
                                    Confirmed,
                                   HasTask, Covered, IsBatch
  <1>3. QED
    BY <1>1, <1>2

\* A failed batch waits again with what it was confirmed for.
LEMMA FailedKeeps ==
    ASSUME FInv, running # Nothing, Form!Failed, UNCHANGED <<settings, confirmed, followup>>,
           Follows(followup) => Covered(stored'["retention"])
    PROVE  FInv'
  <1> DEFINE both == DOMAIN pendingFields \cup (DOMAIN running.batch \ errors)
  <1>1. /\ IsBatch(pendingFields) /\ IsBatch(running.batch) /\ RunningInv(running, followup)
        /\ PendingInv
        /\ FollowupInv(followup)
    BY DEF FInv, FTypes
  <1>2. /\ pendingFields' = [f \in both |-> IF f \in DOMAIN pendingFields THEN pendingFields[f]
                                             ELSE running.batch[f]]
        /\ running' = Nothing /\ failure' = TRUE
    BY DEF Form!Failed
  <1>3. both \in SUBSET Form!Fields /\ pendingFields' \in [both -> Form!Entry]
    BY <1>1, <1>2, BatchEntries DEF IsBatch
  <1> HIDE DEF both
  <1>4. pendingFields' \in Form!Waiting /\ DOMAIN pendingFields' = both
    BY <1>2, <1>3, BatchOf
  <1>5. "retention" \in both =>
           \/ "retention" \in DOMAIN pendingFields
                 /\ pendingFields'["retention"] = pendingFields["retention"]
           \/ "retention" \in DOMAIN running.batch
                 /\ pendingFields'["retention"] = running.batch["retention"]
    BY <1>2 DEF both
  <1>6. IsBatch(pendingFields')
    BY <1>1, <1>4, <1>5 DEF IsBatch
  <1>7. Confirmed(pendingFields)' /\ (HasTask(pendingFields', "followup") => Follows(followup))
    BY <1>1, <1>4, <1>5 DEF Confirmed, HasTask, PendingInv, RunningInv
  <1>8. FTypes' /\ FollowupInv(followup)'
    BY <1>1, <1>2, <1>6 DEF FInv, FTypes, IsBatch, FollowupInv, Follows, Covered
  <1>9. PendingInv'
    BY <1>2, <1>7 DEF PendingInv, Follows, HasTask
  <1>10. QED
    BY <1>2, <1>8, <1>9 DEF FInv

-----------------------------------------------------------------------------
(* The actions of the form. *)

LEMMA EmptyBatch == IsBatch(<<>>) /\ DOMAIN <<>> = {}
  <1>1. <<>> \in [{} -> Form!Entry] /\ DOMAIN <<>> = {} /\ {} \in SUBSET Form!Fields
    OBVIOUS
  <1>2. QED
    BY <1>1, BatchOf DEF IsBatch

LEMMA FormInit == Form!Init => FInv
  BY EmptyBatch DEF Form!Init, FInv, FTypes, FollowupInv, PendingInv, Follows, Confirmed, HasTask

LEMMA DiscardKeeps ==
    ASSUME FInv, Form!Discard
    PROVE  FInv'
  BY EmptyBatch DEF Form!Discard, FInv, FTypes, FollowupInv, PendingInv, Follows, Confirmed,
                    HasTask, IsBatch

LEMMA EditKeeps ==
    ASSUME FInv, NEW f \in Form!Fields, NEW immediate \in BOOLEAN,
              NEW value \in Form!Inputs(f),
           Form!Edit(f, value, immediate)
    PROVE  FInv'
  <1>1. /\ IsBatch(pendingFields) /\ failure \in BOOLEAN /\ failure' = failure
        /\ UNCHANGED <<settings, stored, confirmed>>
    BY DEF FInv, FTypes, Form!Edit, Form!dataVars
  <1>2. CASE UNCHANGED <<running, followup, pendingFields>>
    BY <1>1, <1>2 DEF FInv, FTypes, FollowupInv, PendingInv, RunningInv, Follows, Confirmed,
                      HasTask,
                      Covered, IsBatch
  <1>3. CASE UNCHANGED <<running, followup>> /\ pendingFields' = Form!Without(pendingFields, {f})
    <2> DEFINE rest == Form!Without(pendingFields, {f})
    <2>1. /\ IsBatch(rest) /\ DOMAIN rest = DOMAIN pendingFields \ {f}
          /\ \A g \in DOMAIN rest : rest[g] = pendingFields[g]
      <3> DEFINE edited == {f}
      <3> HIDE DEF edited
      <3>1. /\ IsBatch(Form!Without(pendingFields, edited))
            /\ DOMAIN Form!Without(pendingFields, edited) = DOMAIN pendingFields \ edited
            /\ \A g \in DOMAIN pendingFields \ edited : Form!Without(pendingFields,
                  edited)[g] = pendingFields[g]
        BY <1>1, WithoutType
      <3>2. QED
        BY <3>1 DEF edited
    <2> HIDE DEF rest
    <2>2. Confirmed(rest) /\ (HasTask(rest, "followup") => HasTask(pendingFields, "followup"))
      BY <2>1 DEF FInv, PendingInv, Confirmed, HasTask
    <2>3. pendingFields' = rest
      BY <1>3 DEF rest
    <2>4. QED
      BY <1>1, <1>3, <2>1, <2>2, <2>3
      DEF FInv, FTypes, FollowupInv, PendingInv, RunningInv, Follows, Confirmed, HasTask, Covered,
          IsBatch
  <1>4. CASE value # Bad /\ Form!Drain(Form!Put(pendingFields, f,
                [value |-> value, ready |-> immediate, task |-> "none"]),
                                  running, failure \/ ~immediate, settings, followup)
    <2> DEFINE item == [value |-> value, ready |-> immediate, task |-> "none"]
               batched == Form!Put(pendingFields, f, item)
    <2>1. item \in Form!Entry /\ item.task = "none"
             /\ (f = "retention" => item.value \in Retentions)
      BY <1>4 DEF Form!Entry, Form!Inputs
    <2> HIDE DEF item
    <2>2. /\ IsBatch(batched) /\ DOMAIN batched = DOMAIN pendingFields \cup {f} /\ batched[f] = item
          /\ \A g \in DOMAIN pendingFields \ {f} : batched[g] = pendingFields[g]
      BY <1>1, <2>1, PutType
    <2> HIDE DEF batched
    <2>3. /\ Confirmed(batched)
          /\ HasTask(batched, "followup") => HasTask(pendingFields, "followup")
      BY <2>1, <2>2 DEF FInv, PendingInv, Confirmed, HasTask
    <2>4. Form!Drain(batched, running, failure \/ ~immediate, settings, followup)
      BY <1>4 DEF batched, item
    <2>5. HasTask(batched, "followup") => running = Nothing /\ Follows(followup) /\ failure
      BY <2>3 DEF FInv, PendingInv
    <2> DEFINE halted == failure \/ ~immediate
    <2>6. halted \in BOOLEAN /\ (failure => halted) /\ (failure => failure')
      BY <1>1
    <2> HIDE DEF halted
    <2>7. Form!Drain(batched, running, halted, settings, followup)
      BY <2>4 DEF halted
    <2>8. HasTask(batched, "followup") => running = Nothing /\ Follows(followup) /\ halted
             /\ failure'
      BY <2>5, <2>6
    <2>9. QED
      BY <1>1, <2>2, <2>3, <2>6, <2>7, <2>8, DrainKeeps DEF FInv, FTypes
  <1>5. QED
    BY <1>2, <1>3, <1>4 DEF Form!Edit

\* The batch that waits, with some entries made ready.
LEMMA ReadyKeeps ==
    ASSUME FInv, UNCHANGED <<settings, stored, confirmed>>, failure' \in BOOLEAN,
           NEW batched, IsBatch(batched), DOMAIN batched = DOMAIN pendingFields,
           "retention" \in DOMAIN batched =>
              /\ batched["retention"].value = pendingFields["retention"].value
              /\ batched["retention"].task = pendingFields["retention"].task,
           NEW halted \in BOOLEAN,
           \/ halted = failure /\ failure' = failure
           \/ halted = FALSE /\ ("retention" \in DOMAIN batched => batched["retention"].ready),
           Form!Drain(batched, running, halted, settings, followup)
    PROVE  FInv'
  <1>1. Confirmed(batched)
    BY DEF Confirmed, HasTask, FInv, PendingInv
  <1>2. HasTask(batched, "followup") =>
           /\ running = Nothing /\ Follows(followup)
           /\ (halted /\ failure') \/ (~halted /\ batched["retention"].ready)
    BY DEF HasTask, FInv, PendingInv
  <1>3. QED
    BY <1>1, <1>2, DrainKeeps DEF FInv, FTypes

LEMMA ExpediteKeeps ==
    ASSUME FInv, NEW f \in Form!Fields, Form!Expedite(f)
    PROVE  FInv'
  <1> DEFINE batched == [pendingFields EXCEPT ![f].ready = TRUE]
  <1>1. IsBatch(pendingFields) /\ failure \in BOOLEAN /\ f \in DOMAIN pendingFields
    BY DEF FInv, FTypes, Form!Expedite
  <1>2. \A g \in DOMAIN pendingFields :
           /\ batched[g] \in Form!Entry /\ batched[g].value = pendingFields[g].value
           /\ batched[g].task = pendingFields[g].task
    BY <1>1, BatchEntries DEF IsBatch, Form!Entry
  <1>3. DOMAIN batched = DOMAIN pendingFields /\ batched \in [DOMAIN pendingFields -> Form!Entry]
    BY <1>1, <1>2, BatchEntries DEF IsBatch
  <1> HIDE DEF batched
  <1>4. IsBatch(batched)
    BY <1>1, <1>2, <1>3, BatchEntries, BatchOf DEF IsBatch
  <1>5. Form!Drain(batched, running, failure, settings, followup)
    BY DEF Form!Expedite, batched
  <1>6. UNCHANGED <<settings, stored, confirmed, failure>>
    BY DEF Form!Expedite, Form!dataVars, Form!historyVars
  <1>7. QED
    BY <1>1, <1>2, <1>3, <1>4, <1>5, <1>6, ReadyKeeps

LEMMA FlushKeeps ==
    ASSUME FInv, Form!Flush
    PROVE  FInv'
  <1> DEFINE batched == [f \in DOMAIN pendingFields |-> [pendingFields[f] EXCEPT !.ready = TRUE]]
  <1>1. IsBatch(pendingFields)
    BY DEF FInv, FTypes
  <1>2. \A g \in DOMAIN pendingFields :
           /\ batched[g] \in Form!Entry /\ batched[g].value = pendingFields[g].value
           /\ batched[g].task = pendingFields[g].task /\ batched[g].ready
    BY <1>1, BatchEntries, ChangedEntry DEF IsBatch
  <1>3. DOMAIN batched = DOMAIN pendingFields /\ batched \in [DOMAIN pendingFields -> Form!Entry]
    BY <1>1, <1>2, BatchEntries DEF IsBatch
  <1> HIDE DEF batched
  <1>4. IsBatch(batched)
    BY <1>1, <1>2, <1>3, BatchEntries, BatchOf DEF IsBatch
  <1>5. Form!Drain(batched, running, FALSE, settings, followup)
    BY DEF Form!Flush, batched
  <1>6. UNCHANGED <<settings, stored, confirmed>> /\ failure' = FALSE
    BY DEF Form!Flush, Form!dataVars, Form!historyVars
  <1>7. QED
    BY <1>1, <1>2, <1>3, <1>4, <1>5, <1>6, ReadyKeeps

-----------------------------------------------------------------------------
(* The steps of a write. *)

\* A batch whose retention gets another entry.
LEMMA ReplacedEntry ==
    ASSUME NEW batch, IsBatch(batch), NEW f \in DOMAIN batch, NEW item \in Form!Entry,
           item.value \in Retentions
    PROVE  /\ IsBatch([batch EXCEPT ![f] = item]) /\ f \in DOMAIN [batch EXCEPT ![f] = item]
           /\ [batch EXCEPT ![f] = item][f] = item
  <1>1. DOMAIN batch \in SUBSET Form!Fields /\ batch \in [DOMAIN batch -> Form!Entry]
    BY BatchEntries DEF IsBatch
  <1>2. [batch EXCEPT ![f] = item] \in [DOMAIN batch -> Form!Entry]
    BY <1>1
  <1>3. QED
    BY <1>1, <1>2, BatchOf DEF IsBatch

\* A step after which nothing else waits, and the write goes on.
LEMMA GoesOn ==
    ASSUME FInv, UNCHANGED <<pendingFields, failure>>, running # Nothing,
           running' \in [batch : Form!Waiting, skip : BOOLEAN, step : Form!Steps],
              IsBatch(running.batch)',
           followup' # Nothing => followup' \in [value : Retentions, stage : {"prune", "reload"}],
           FollowupInv(followup)', RunningInv(running, followup)',
           \A r \in confirmed : r \in confirmed'
    PROVE  FInv'
  <1>1. FTypes'
    BY DEF FInv, FTypes, IsBatch
  <1>2. PendingInv'
    BY DEF FInv, PendingInv, Confirmed, HasTask
  <1>3. QED
    BY <1>1, <1>2 DEF FInv

LEMMA ConfirmKeeps ==
    ASSUME FInv, Form!Confirm
    PROVE  FInv'
  <1> DEFINE item == running.batch["retention"]
  <1>1. /\ running \in [batch : Form!Waiting, skip : BOOLEAN, step : Form!Steps]
        /\ IsBatch(running.batch)
        /\ RunningInv(running, followup) /\ FollowupInv(followup) /\ PendingInv
        /\ followup # Nothing => followup \in [value : Retentions, stage : {"prune", "reload"}]
        /\ running # Nothing /\ running.step = "confirm"
        /\ UNCHANGED <<settings, stored, followup>>
    BY DEF FInv, FTypes, Form!Confirm, Form!dataVars
  <1>2. HasTask(running.batch, "none")
    BY <1>1 DEF RunningInv
  <1>3. CASE /\ running' = [running EXCEPT !.step = "settings", !.batch["retention"].task = "settings"]
             /\ confirmed' = confirmed \cup {item.value} /\ UNCHANGED <<pendingFields, failure>>
    <2> DEFINE answered == [item EXCEPT !.task = "settings"]
               batch == [running.batch EXCEPT !["retention"] = answered]
               next == [running EXCEPT !.step = "settings", !.batch = batch]
    <2>1. /\ next \in [batch : Form!Waiting, skip : BOOLEAN, step : Form!Steps]
          /\ IsBatch(next.batch)
          /\ next.step = "settings" /\ HasTask(next.batch, "settings")
          /\ next.batch["retention"].value = item.value
      <3>1. "retention" \in DOMAIN running.batch /\ item \in Form!Entry /\ item.value \in Retentions
        BY <1>1, <1>2, BatchEntries DEF HasTask, IsBatch
      <3>2. answered \in Form!Entry /\ answered.task = "settings" /\ answered.value = item.value
        BY <3>1 DEF Form!Entry
      <3> HIDE DEF answered
      <3>3. IsBatch(batch) /\ "retention" \in DOMAIN batch /\ batch["retention"] = answered
        <4> DEFINE field == "retention" old == running.batch new == [old EXCEPT ![field] = answered]
        <4>1. IsBatch(old) /\ field \in DOMAIN old
          BY <1>1, <3>1
        <4>2. answered \in Form!Entry /\ answered.value \in Retentions
          BY <3>1, <3>2
        <4> HIDE DEF field, old
        <4>3. IsBatch(new) /\ field \in DOMAIN new /\ new[field] = answered
          BY <4>1, <4>2, ReplacedEntry
        <4>4. QED
          BY <4>3 DEF field, old
      <3> HIDE DEF batch
      <3>4. QED
        BY <1>1, <3>2, <3>3 DEF HasTask, Form!Steps, IsBatch
    <2>2. running' = next
      BY <1>3
    <2> HIDE DEF next
    <2>3. RunningInv(running, followup)'
      BY <1>3, <2>1, <2>2 DEF RunningInv, Confirmed, HasTask
    <2>4. FollowupInv(followup)'
      BY <1>1, <1>3 DEF FollowupInv, Follows, Covered
    <2>5. IsBatch(running.batch)'
      BY <2>1, <2>2 DEF IsBatch
    <2>6. \A r \in confirmed : r \in confirmed'
      BY <1>3
    <2>7. QED
      BY <1>1, <1>3, <2>1, <2>2, <2>3, <2>4, <2>5, <2>6, GoesOn
  <1>4. CASE /\ running' = [running EXCEPT !.step = "settings", !.skip = TRUE]
             /\ UNCHANGED <<confirmed, pendingFields, failure>>
    <2> DEFINE next == [running EXCEPT !.step = "settings", !.skip = TRUE]
    <2>1. /\ next \in [batch : Form!Waiting, skip : BOOLEAN, step : Form!Steps]
          /\ next.batch = running.batch
          /\ next.step = "settings" /\ next.skip
      BY <1>1 DEF Form!Steps
    <2>2. running' = next
      BY <1>4
    <2> HIDE DEF next
    <2>3. RunningInv(running, followup)'
      BY <1>1, <1>2, <1>4, <2>1, <2>2 DEF RunningInv, Confirmed, HasTask
    <2>4. FollowupInv(followup)'
      BY <1>1, <1>4 DEF FollowupInv, Follows, Covered
    <2>5. IsBatch(running.batch)'
      BY <1>1, <2>1, <2>2 DEF IsBatch
    <2>6. QED
      BY <1>1, <1>4, <2>1, <2>2, <2>3, <2>4, <2>5, GoesOn
  <1>5. CASE Form!Failed /\ UNCHANGED confirmed
    BY <1>1, <1>5, FailedKeeps DEF FollowupInv
  <1>6. QED
    BY <1>1, <1>3, <1>4, <1>5 DEF Form!Confirm

\* What a write leaves in the database, whether it is answered or not.
LEMMA WrittenCovered ==
    ASSUME FInv, running # Nothing, running.step = "settings", Follows(followup),
           NEW data, data["retention"] = stored["retention"] \/ data = Form!Patched(stored)
    PROVE  Covered(data["retention"])
  <1>1. /\ Covered(stored["retention"]) /\ followup.value \in confirmed /\ IsBatch(running.batch)
        /\ RunningInv(running, followup)
    BY DEF FInv, FTypes, FollowupInv, Follows
  <1>2. CASE data["retention"] = stored["retention"]
    BY <1>1, <1>2
  <1>3. CASE "retention" \in DOMAIN running.batch /\ ~running.skip /\ data = Form!Patched(stored)
    <2> DEFINE value == running.batch["retention"].value
    <2>1. data["retention"] = value
      BY <1>3 DEF Form!Patched, Form!Fields
    <2>2. value \in Nat /\ (HasTask(running.batch, "settings") \/ HasTask(running.batch, "none"))
      BY <1>1, <1>3, BatchEntries, RetentionsAssumption DEF IsBatch, HasTask, Form!Entry, RunningInv
    <2>3. ~Form!Shorter(value, value)
      BY <2>2 DEF Form!Shorter
    <2>4. Covered(value)
      BY <1>1, <1>3, <2>2, <2>3 DEF Covered, RunningInv, Confirmed, Follows
    <2>5. QED
      BY <2>1, <2>4
  <1>4. CASE data = Form!Patched(stored) /\ ("retention" \notin DOMAIN running.batch
                \/ running.skip)
    BY <1>1, <1>4 DEF Form!Patched, Form!Fields
  <1>5. QED
    BY <1>2, <1>3, <1>4

\* What a saved batch leaves in the two copies of the retention.
LEMMA WrittenRetention ==
    ASSUME NEW old
    PROVE  /\ "retention" \in DOMAIN running.batch /\ ~running.skip =>
                 Form!Patched(old)["retention"] = running.batch["retention"].value
           /\ "retention" \notin DOMAIN running.batch \/ running.skip =>
                 Form!Patched(old)["retention"] = old["retention"]
  BY DEF Form!Patched, Form!Fields

LEMMA WriteKeeps ==
    ASSUME FInv, Form!WriteSettings
    PROVE  FInv'
  <1> DEFINE value == running.batch["retention"].value
             saved == HasTask(running.batch, "settings") /\ ~running.skip
  <1>1. /\ running \in [batch : Form!Waiting, skip : BOOLEAN, step : Form!Steps]
        /\ IsBatch(running.batch)
        /\ RunningInv(running, followup) /\ FollowupInv(followup) /\ PendingInv
        /\ followup # Nothing => followup \in [value : Retentions, stage : {"prune", "reload"}]
        /\ running # Nothing /\ running.step = "settings"
        /\ UNCHANGED confirmed
    BY DEF FInv, FTypes, Form!WriteSettings
  <1>2. CASE Form!Failed /\ stored' \in {stored, Form!Patched(stored)}
                /\ UNCHANGED <<settings, followup>>
    <2>1. Follows(followup) => Covered(stored'["retention"])
      BY <1>1, <1>2, WrittenCovered
    <2>2. QED
      BY <1>1, <1>2, <2>1, FailedKeeps
  <1>3. CASE /\ stored' = Form!Patched(stored) /\ settings' = Form!Patched(settings) /\ saved
             /\ followup' = [value |-> value, stage |-> "prune"]
             /\ running' = [running EXCEPT !.step = "prune", !.batch["retention"].task = "followup"]
             /\ UNCHANGED <<pendingFields, failure>>
    <2> DEFINE old == running.batch["retention"]
               answered == [old EXCEPT !.task = "followup"]
               batch == [running.batch EXCEPT !["retention"] = answered]
               next == [running EXCEPT !.step = "prune", !.batch = batch]
    <2>1. "retention" \in DOMAIN running.batch /\ old \in Form!Entry /\ old.value \in Retentions
      BY <1>1, <1>3, BatchEntries DEF HasTask, IsBatch
    <2>2. answered \in Form!Entry /\ answered.task = "followup" /\ answered.value = value
      BY <2>1 DEF Form!Entry
    <2>3. IsBatch(batch) /\ "retention" \in DOMAIN batch /\ batch["retention"] = answered
      <3> DEFINE field == "retention" was == running.batch new == [was EXCEPT ![field] = answered]
      <3>1. IsBatch(was) /\ field \in DOMAIN was
        BY <1>1, <2>1
      <3>2. answered \in Form!Entry /\ answered.value \in Retentions
        BY <2>1, <2>2
      <3> HIDE DEF field, was, answered
      <3>3. IsBatch(new) /\ field \in DOMAIN new /\ new[field] = answered
        BY <3>1, <3>2, ReplacedEntry
      <3>4. QED
        BY <3>3 DEF field, was
    <2> HIDE DEF answered, batch
    <2>4. /\ next \in [batch : Form!Waiting, skip : BOOLEAN, step : Form!Steps]
          /\ next.step = "prune"
          /\ next.batch = batch
      BY <1>1, <2>3 DEF Form!Steps, IsBatch
    <2>5. running' = next
      BY <1>3 DEF batch, answered
    <2> HIDE DEF next
    <2>6. HasTask(batch, "followup") /\ ~HasTask(batch, "settings")
      BY <2>2, <2>3 DEF HasTask
    <2>7. /\ value \in confirmed /\ value \in Nat
          /\ settings'["retention"] = value /\ stored'["retention"] = value
      BY <1>1, <1>3, <2>1, WrittenRetention, RetentionsAssumption DEF RunningInv, Confirmed, HasTask
    <2>8. Covered(stored["retention"])'
      BY <1>1, <2>7 DEF Covered, Form!Shorter
    <2>9. followup' \in [value : Retentions, stage : {"prune", "reload"}] /\ followup' # Nothing
      BY <1>3, <2>1, RetentionsAssumption
    <2>10. FollowupInv(followup)' /\ Follows(followup)'
      BY <1>1, <1>3, <2>7, <2>8, <2>9 DEF FollowupInv, Follows
    <2>11. RunningInv(running, followup)'
      BY <2>4, <2>5, <2>6, <2>10 DEF RunningInv, Confirmed, HasTask
    <2>12. QED
      BY <1>1, <1>3, <2>3, <2>4, <2>5, <2>9, <2>10, <2>11, GoesOn DEF IsBatch
  <1>4. CASE /\ stored' = Form!Patched(stored) /\ settings' = Form!Patched(settings) /\ ~saved
             /\ followup' = IF followup # Nothing /\ ~running.skip
                               /\ settings'["retention"] # followup.value
                            THEN Nothing ELSE followup
             /\ running' = IF HasTask(running.batch, "followup")
                           THEN [running EXCEPT !.step = followup.stage]
                           ELSE [running EXCEPT !.step = "reload"]
             /\ UNCHANGED <<pendingFields, failure>>
    <2>1. HasTask(running.batch, "followup") =>
             /\ running.skip /\ Follows(followup) /\ followup' = followup
             /\ settings'["retention"] = settings["retention"]
      BY <1>1, <1>4, WrittenRetention DEF RunningInv
    <2>2. /\ running' \in [batch : Form!Waiting, skip : BOOLEAN, step : Form!Steps]
          /\ running'.batch = running.batch
          /\ running'.step = "reload" \/ (running'.step = "prune" /\ HasTask(running.batch,
                "followup"))
      BY <1>1, <1>4, <2>1 DEF Form!Steps, Follows
    <2>3. followup' # Nothing => followup' = followup
      BY <1>4
    <2>4. followup' # Nothing
             /\ followup.value = settings'["retention"] => Covered(stored'["retention"])
      <3>1. CASE "retention" \notin DOMAIN running.batch \/ running.skip
        BY <1>1, <1>4, <2>3, <3>1, WrittenRetention, WrittenCovered DEF Follows
      <3>2. CASE "retention" \in DOMAIN running.batch /\ ~running.skip
        <4>1. stored'["retention"] = value /\ settings'["retention"] = value /\ value \in Nat
          BY <1>1, <1>4, <3>2, WrittenRetention, RetentionsAssumption DEF IsBatch
        <4>2. followup' # Nothing => followup.value \in confirmed
          BY <1>1, <2>3 DEF FollowupInv
        <4>3. QED
          BY <4>1, <4>2 DEF Covered, Form!Shorter
      <3>3. QED
        BY <3>1, <3>2
    <2>5. FollowupInv(followup)'
      BY <1>1, <2>3, <2>4 DEF FollowupInv, Follows, Covered
    <2>6. HasTask(running.batch, "followup") => Follows(followup)'
      BY <2>1 DEF Follows
    <2>7. RunningInv(running, followup)'
      BY <1>1, <2>2, <2>6 DEF RunningInv, Confirmed, HasTask
    <2>8. IsBatch(running.batch)'
      BY <1>1, <2>2 DEF IsBatch
    <2>9. QED
      BY <1>1, <1>4, <2>2, <2>3, <2>5, <2>7, <2>8, GoesOn
  <1>5. QED
    BY <1>1, <1>2, <1>3, <1>4 DEF Form!WriteSettings, HasTask

LEMMA PruneKeeps ==
    ASSUME FInv, Form!Prune
    PROVE  FInv' /\ (kept' # kept => Covered(kept'))
  <1>1. /\ running \in [batch : Form!Waiting, skip : BOOLEAN, step : Form!Steps]
        /\ IsBatch(running.batch)
        /\ RunningInv(running, followup) /\ FollowupInv(followup) /\ Follows(followup)
        /\ followup \in [value : Retentions, stage : {"prune", "reload"}]
        /\ running # Nothing /\ running.step = "prune" /\ HasTask(running.batch, "followup")
        /\ UNCHANGED <<settings, stored, confirmed>>
    BY DEF FInv, FTypes, Form!Prune, RunningInv, Follows
  <1>2. Covered(stored["retention"])
    BY <1>1 DEF FollowupInv
  <1>3. kept' # kept => kept' = stored["retention"]
    BY DEF Form!Prune
  <1>4. CASE Form!Failed /\ UNCHANGED followup
    BY <1>1, <1>2, <1>3, <1>4, FailedKeeps
  <1>5. CASE /\ followup' = [followup EXCEPT !.stage = "reload"]
             /\ running' = [running EXCEPT !.step = "reload"]
             /\ UNCHANGED <<pendingFields, failure>>
    <2>1. /\ followup' \in [value : Retentions, stage : {"prune", "reload"}]
          /\ followup' # Nothing /\ followup'.value = followup.value
      BY <1>1, <1>5, RetentionsAssumption
    <2>2. /\ running' \in [batch : Form!Waiting, skip : BOOLEAN, step : Form!Steps]
          /\ running'.batch = running.batch /\ running'.step = "reload"
      BY <1>1, <1>5 DEF Form!Steps
    <2>3. FollowupInv(followup)' /\ Follows(followup)'
      BY <1>1, <2>1 DEF FollowupInv, Follows, Covered
    <2>4. RunningInv(running, followup)'
      BY <1>1, <2>2, <2>3 DEF RunningInv, Confirmed, HasTask
    <2>5. IsBatch(running.batch)'
      BY <1>1, <2>2 DEF IsBatch
    <2>6. FInv'
      BY <1>1, <1>5, <2>1, <2>2, <2>3, <2>4, <2>5, GoesOn
    <2>7. QED
      BY <1>2, <1>3, <2>6
  <1>6. QED
    BY <1>4, <1>5 DEF Form!Prune

LEMMA FinishKeeps ==
    ASSUME FInv, Form!Finish
    PROVE  FInv'
  <1> DEFINE follows == HasTask(running.batch, "followup")
             unfinished == IF follows THEN Nothing ELSE followup
  <1>1. /\ IsBatch(pendingFields) /\ failure \in BOOLEAN
        /\ RunningInv(running, followup) /\ FollowupInv(followup) /\ PendingInv
        /\ followup # Nothing => followup \in [value : Retentions, stage : {"prune", "reload"}]
        /\ running # Nothing /\ UNCHANGED <<settings, stored, confirmed>>
    BY DEF FInv, FTypes, Form!Finish, Form!dataVars
  <1>2. CASE Form!Failed /\ UNCHANGED followup
    <2>1. Follows(followup) => Covered(stored'["retention"])
      BY <1>1 DEF FollowupInv
    <2>2. QED
      BY <1>1, <1>2, <2>1, FailedKeeps
  <1>3. CASE Form!Drain(pendingFields, Nothing, failure, settings, unfinished) /\ UNCHANGED failure
    <2>1. unfinished # Nothing => unfinished \in [value : Retentions, stage : {"prune", "reload"}]
      BY <1>1
    <2>2. FollowupInv(unfinished)
      BY <1>1 DEF FollowupInv, Follows
    <2>3. Confirmed(pendingFields) /\ ~HasTask(pendingFields, "followup")
      BY <1>1 DEF PendingInv
    <2> DEFINE busy == Nothing
    <2>4. Form!Drain(pendingFields, busy, failure, settings, unfinished) /\ busy = Nothing
      BY <1>3
    <2> HIDE DEF unfinished, busy
    <2>5. QED
      BY <1>1, <1>3, <2>1, <2>2, <2>3, <2>4, DrainKeeps
  <1>4. QED
    BY <1>2, <1>3 DEF Form!Finish, HasTask

-----------------------------------------------------------------------------
(* The form. *)

LEMMA FormStep ==
    ASSUME FInv, Form!Next \/ UNCHANGED formVars
    PROVE  FInv' /\ (kept' # kept => Covered(kept'))
  <1>1. CASE UNCHANGED formVars
    <2>1. FInv'
      BY <1>1 DEF FInv, FTypes, FollowupInv, PendingInv, RunningInv, Follows, Confirmed, HasTask,
                  Covered, IsBatch, formVars
    <2>2. QED
      BY <1>1, <2>1 DEF formVars
  <1>2. ASSUME NEW f \in Form!Fields, NEW immediate \in BOOLEAN, NEW value \in Form!Inputs(f),
                  Form!Edit(f, value, immediate)
        PROVE  FInv' /\ kept' = kept
    BY <1>2, EditKeeps DEF Form!Edit, Form!dataVars
  <1>3. ASSUME NEW f \in Form!Fields, Form!Expedite(f)
        PROVE  FInv' /\ kept' = kept
    BY <1>3, ExpediteKeeps DEF Form!Expedite, Form!dataVars
  <1>4. CASE Form!Flush
    BY <1>4, FlushKeeps DEF Form!Flush, Form!dataVars
  <1>5. CASE Form!Discard
    BY <1>5, DiscardKeeps DEF Form!Discard, Form!dataVars
  <1>6. CASE Form!Confirm
    BY <1>6, ConfirmKeeps DEF Form!Confirm, Form!dataVars
  <1>7. CASE Form!WriteSettings
    BY <1>7, WriteKeeps DEF Form!WriteSettings
  <1>8. CASE Form!Prune
    BY <1>8, PruneKeeps
  <1>9. CASE Form!Finish
    BY <1>9, FinishKeeps DEF Form!Finish, Form!dataVars
  <1>10. QED
    BY <1>1, <1>2, <1>3, <1>4, <1>5, <1>6, <1>7, <1>8, <1>9 DEF Form!Next

\* Whatever is edited, refused, retried or fails, a step that prunes records
\* deletes no more of them than the user confirmed for this form.
THEOREM PrunesConfirmed ==
    Spec => [][kept' # kept => \E retention \in confirmed : ~Form!Shorter(kept', retention)]_desktopVars
  <1>1. Init => FInv
    BY FormInit DEF Init
  <1>2. FInv /\ [Next]_desktopVars => FInv'
    BY FormStep DEF Next, desktopVars
  <1>3. FInv /\ [Next]_desktopVars =>
           [kept' # kept => \E retention \in confirmed : ~Form!Shorter(kept', retention)]_desktopVars
    BY FormStep DEF Next, desktopVars, Covered
  <1>4. QED
    BY <1>1, <1>2, <1>3, PTL DEF Spec

-----------------------------------------------------------------------------
(* Leaving the application: nobody's edits are dropped unasked             *)
(* (native-adapter.cjs, main.cjs).                                         *)

\* A confirmed exit was agreed to, and "quit" is only sent by a host that is
\* stopping or has stopped its collector; so consent that is given up leaves
\* no confirmation behind.
ExitInv ==
    /\ {exitConfirmed, agreed, quitSent, stopped} \subseteq BOOLEAN
    /\ \A answer \in answers : answer.result \in BOOLEAN
    /\ Exit!ExitWasAgreed
    /\ exitConfirmed => stopped \/ agreed
    /\ quitSent => flow \in {"stopping", "quitting"}

LEMMA ExitInit == Exit!Init => ExitInv
  BY DEF Exit!Init, ExitInv, Exit!ExitWasAgreed

\* The exit of the host, whatever it is doing (f), if it was agreed to.
LEMMA FinishQuitKeeps ==
    ASSUME ExitInv, NEW f, quitSent => f \in {"stopping", "quitting"},
           NEW confirming \in BOOLEAN, NEW consent \in BOOLEAN, stopped' \in BOOLEAN,
           stopped => stopped', confirming => stopped' \/ consent, stopped' \/ confirming,
           Exit!FinishQuit(f, confirming, consent), answers' \subseteq answers
    PROVE  ExitInv'
  <1>1. CASE f = "installing"
    BY <1>1 DEF ExitInv, Exit!ExitWasAgreed, Exit!FinishQuit
  <1>2. CASE f # "installing"
    BY <1>2 DEF ExitInv, Exit!ExitWasAgreed, Exit!FinishQuit
  <1>3. QED
    BY <1>1, <1>2

LEMMA QuitKeeps ==
    ASSUME ExitInv, NEW f, quitSent => f \in {"stopping", "quitting"},
           f = "stopping" => flow = "stopping", UNCHANGED <<stopped, answers>>,
           Exit!QuitDuring(f)
    PROVE  ExitInv'
  <1>1. CASE Exit!FinishQuit(f, exitConfirmed, agreed) /\ (stopped \/ exitConfirmed)
    <2>1. /\ exitConfirmed \in BOOLEAN /\ agreed \in BOOLEAN /\ stopped' \in BOOLEAN
          /\ stopped => stopped'
          /\ exitConfirmed => stopped' \/ agreed
          /\ stopped' \/ exitConfirmed
      BY <1>1 DEF ExitInv
    <2>2. QED
      BY <1>1, <2>1, FinishQuitKeeps
  <1>2. CASE flow' = f /\ UNCHANGED <<exitConfirmed, quitSent, agreed>>
    BY <1>2 DEF ExitInv, Exit!ExitWasAgreed
  <1>3. QED
    BY <1>1, <1>2 DEF Exit!QuitDuring

\* An answer, or the end of the wait for one (accepted = FALSE).
LEMMA SettleKeeps ==
    ASSUME ExitInv, NEW question, NEW accepted \in BOOLEAN, UNCHANGED stopped,
           answers' \subseteq answers, Exit!Settle(question, accepted)
    PROVE  ExitInv'
  <1>1. CASE accepted /\ Exit!FinishQuit(flow, TRUE, TRUE)
    <2>1. stopped' \in BOOLEAN /\ (stopped => stopped') /\ (quitSent => flow \in {"stopping", "quitting"})
      BY DEF ExitInv
    <2>2. QED
      BY <1>1, <2>1, FinishQuitKeeps
  <1>2. CASE /\ exitConfirmed' = (exitConfirmed \/ accepted) /\ agreed' = (agreed \/ accepted)
             /\ UNCHANGED <<quitSent, flow>>
    BY <1>2 DEF ExitInv, Exit!ExitWasAgreed
  <1>3. CASE /\ flow = "prepareUpdate" /\ flow' = "installing" /\ UNCHANGED quitSent
             /\ exitConfirmed' = TRUE /\ agreed' = TRUE
    BY <1>3 DEF ExitInv, Exit!ExitWasAgreed
  <1>4. CASE exitConfirmed' = FALSE /\ UNCHANGED <<agreed, flow, quitSent>>
    BY <1>4 DEF ExitInv, Exit!ExitWasAgreed
  <1>5. CASE /\ flow' = IF flow = "prepareUpdate" THEN "running" ELSE flow
             /\ UNCHANGED <<exitConfirmed, agreed, quitSent>>
    BY <1>5 DEF ExitInv, Exit!ExitWasAgreed
  <1>6. QED
    BY <1>1, <1>2, <1>3, <1>4, <1>5 DEF Exit!Settle

LEMMA ExitStep ==
    ASSUME ExitInv, Exit!Next \/ UNCHANGED exitVars
    PROVE  ExitInv'
  <1>1. ASSUME UNCHANGED <<exitConfirmed, agreed, quitSent, stopped, flow>>,
               \A answer \in answers' : answer.result \in BOOLEAN
        PROVE  ExitInv'
    BY <1>1 DEF ExitInv, Exit!ExitWasAgreed
  <1>2. CASE Exit!Quit
    BY <1>2, QuitKeeps DEF Exit!Quit, ExitInv
  <1>3. CASE Exit!PrepareUpdate
    BY <1>3 DEF Exit!PrepareUpdate, ExitInv, Exit!ExitWasAgreed
  <1>4. CASE Exit!Receive
    <2>1. PICK answer \in answers :
              /\ UNCHANGED stopped /\ answers' \subseteq answers /\ answer.result \in BOOLEAN
              /\ \/ \E q \in calls : q.id = answer.id /\ Exit!Settle(q, answer.result)
                 \/ UNCHANGED <<calls, Exit!quitVars>>
      BY <1>4 DEF Exit!Receive, ExitInv
    <2>2. CASE \E q \in calls : q.id = answer.id /\ Exit!Settle(q, answer.result)
      BY <2>1, <2>2, SettleKeeps
    <2>3. CASE UNCHANGED <<calls, Exit!quitVars>>
      BY <1>1, <2>1, <2>3 DEF Exit!quitVars, ExitInv
    <2>4. QED
      BY <2>1, <2>2, <2>3
  <1>5. CASE Exit!Timeout
    <2>1. PICK q \in calls : Exit!Settle(q, FALSE)
      BY <1>5 DEF Exit!Timeout
    <2>2. UNCHANGED <<stopped, answers>>
      BY <1>5 DEF Exit!Timeout, Exit!shellVars
    <2>3. QED
      BY <2>1, <2>2, SettleKeeps
  <1>6. CASE Exit!InstallEnds
    <2>1. UNCHANGED <<stopped, answers>> /\ flow = "installing" /\ ~quitSent
      BY <1>6 DEF Exit!InstallEnds, ExitInv
    <2>2. CASE flow' = "running" /\ exitConfirmed' = FALSE /\ agreed' = FALSE /\ UNCHANGED quitSent
      BY <2>1, <2>2 DEF ExitInv, Exit!ExitWasAgreed
    <2>3. CASE Exit!QuitDuring("quitting")
      BY <2>1, <2>3, QuitKeeps
    <2>4. CASE flow' = "quitting" /\ UNCHANGED <<exitConfirmed, quitSent, agreed>>
      BY <2>1, <2>4 DEF ExitInv, Exit!ExitWasAgreed
    <2>5. QED
      BY <1>6, <2>2, <2>3, <2>4 DEF Exit!InstallEnds
  <1>7. CASE Exit!StopEnds
    <2>1. stopped \/ agreed
      BY <1>7 DEF Exit!StopEnds, ExitInv, Exit!ExitWasAgreed
    <2>2. flow' = "quitting" /\ quitSent' = TRUE /\ UNCHANGED <<exitConfirmed, agreed, stopped, answers>>
      BY <1>7 DEF Exit!StopEnds, Exit!shellVars
    <2>3. QED
      BY <2>1, <2>2 DEF ExitInv, Exit!ExitWasAgreed
  <1>8. CASE Exit!Disconnect
    <2>1. stopped' = TRUE /\ UNCHANGED answers
      BY <1>8 DEF Exit!Disconnect, Exit!shellVars
    <2>2. CASE UNCHANGED <<exitConfirmed, agreed, flow, quitSent>>
      BY <2>1, <2>2 DEF ExitInv, Exit!ExitWasAgreed
    <2>3. CASE Exit!FinishQuit(flow, exitConfirmed, agreed)
      <3>1. /\ exitConfirmed \in BOOLEAN /\ agreed \in BOOLEAN
            /\ quitSent => flow \in {"stopping", "quitting"}
        BY DEF ExitInv
      <3>2. QED
        BY <2>1, <2>3, <3>1, FinishQuitKeeps
    <2>4. QED
      BY <1>8, <2>2, <2>3 DEF Exit!Disconnect
  <1>9. CASE Exit!PageConfirms \/ Exit!UserAnswers \/ Exit!Edit
    <2>1. ASSUME NEW id, NEW accepted \in BOOLEAN,
                 answers' \in {answers, answers \cup {[id |-> id, result |-> accepted]}}
          PROVE  \A answer \in answers' : answer.result \in BOOLEAN
      BY <2>1 DEF ExitInv
    <2>2. UNCHANGED <<exitConfirmed, agreed, quitSent, stopped, flow>>
      BY <1>9 DEF Exit!PageConfirms, Exit!UserAnswers, Exit!Edit, Exit!quitVars
    <2>3. CASE Exit!PageConfirms
      <3>1. (~dirty') \in BOOLEAN /\ TRUE \in BOOLEAN
        OBVIOUS
      <3>2. \/ answers' = answers \cup {[id |-> closeAction.id, result |-> ~dirty']}
            \/ answers' = answers \cup {[id |-> closeAction.id, result |-> TRUE]}
            \/ answers' = answers
        BY <2>3 DEF Exit!PageConfirms
      <3>3. QED
        BY <1>1, <2>1, <2>2, <3>1, <3>2
    <2>4. CASE Exit!UserAnswers \/ Exit!Edit
      BY <1>1, <2>1, <2>2, <2>4 DEF Exit!UserAnswers, Exit!Edit, Exit!shellVars
    <2>5. QED
      BY <1>9, <2>3, <2>4
  <1>10. CASE UNCHANGED exitVars
    BY <1>1, <1>10 DEF exitVars, ExitInv
  <1>11. QED
    BY <1>2, <1>3, <1>4, <1>5, <1>6, <1>7, <1>8, <1>9, <1>10 DEF Exit!Next

\* The application leaves, or stops its collector for that, only when nothing
\* was unsaved or the user gave the edits up, and has not withdrawn that since.
THEOREM NoEditsDropped == Spec => []ExitWasAgreed
  <1>1. Init => ExitInv
    BY ExitInit DEF Init
  <1>2. ExitInv /\ [Next]_desktopVars => ExitInv'
    BY ExitStep DEF Next, desktopVars
  <1>3. ExitInv => ExitWasAgreed
    BY DEF ExitInv, ExitWasAgreed
  <1>4. QED
    BY <1>1, <1>2, <1>3, PTL DEF Spec

-----------------------------------------------------------------------------
(* Moving the entry of the login start (windows-autostart.cjs).            *)

\* Until the entry is registered the name in use keeps what was read there;
\* then its command and its approval stand for the login start, whatever
\* happens to the old entry.  An approval is only given before the entry is
\* registered if it was in force.
Moving ==
    /\ sync.active <=> expected
    /\ sync.removing \subseteq {"legacy"}
    /\ sync.step \in {"approve", "register"} => login["canonical"] = sync.commands["canonical"]
    /\ sync.step = "approve" =>
          (Login!enabled(sync.desired) <=> expected) /\ (Login!owned(login["canonical"]) => expected)
    /\ sync.step # "approve" => (Login!enabled(approved["canonical"]) <=> expected)
    /\ sync.step \notin {"approve", "register"} => login["canonical"] = "command"
MoveInv ==
    /\ login \in [Login!Names -> Login!Commands \cup {Nothing}]
    /\ approved \in [Login!Names -> Login!Approvals \cup {Nothing}]
    /\ sync # Nothing => sync \in Login!Sync
    /\ expected \in BOOLEAN \cup {Nothing}
    /\ expected # Nothing => (Login!Active(login, approved) <=> expected)
    /\ expected # Nothing /\ sync # Nothing => Moving

\* The login start, name by name.
LEMMA ActiveNames ==
    ASSUME NEW commands, NEW approvals
    PROVE  Login!Active(commands, approvals) <=>
              \/ Login!owned(commands["canonical"]) /\ Login!enabled(approvals["canonical"])
              \/ Login!owned(commands["legacy"]) /\ Login!enabled(approvals["legacy"])
  BY DEF Login!Active, Login!Names

LEMMA LoginInit == Login!Init => MoveInv
  BY DEF Login!Init, MoveInv

\* What is decided keeps the login start.
LEMMA DesiredKeeps ==
    ASSUME NEW commands, NEW approvals,
           Login!owned(commands["canonical"]) \/ Login!owned(commands["legacy"])
    PROVE  LET desired == Login!Desired(FALSE, commands, approvals)
           IN  /\ Login!enabled(desired) <=> Login!Active(commands, approvals)
               /\ desired = Nothing => approvals["canonical"] = Nothing
               /\ desired # approvals["canonical"] /\ Login!owned(commands["canonical"]) =>
                     Login!Active(commands, approvals)
  <1> DEFINE desired == Login!Desired(FALSE, commands, approvals)
             matched == {name \in Login!Names : Login!owned(commands[name])}
             active1 == \E name \in matched : Login!enabled(approvals[name])
             same == active1 <=> Login!enabled(approvals["canonical"])
  <1>1. desired = IF matched = {} \/ same THEN approvals["canonical"]
                  ELSE IF active1 THEN "on"
                  ELSE IF "canonical" \in matched THEN approvals["canonical"] ELSE approvals["legacy"]
    BY DEF Login!Desired
  <1>2. matched # {} /\ (active1 <=> Login!Active(commands, approvals))
    BY DEF Login!Names, Login!Active
  <1>3. /\ "canonical" \in matched <=> Login!owned(commands["canonical"])
        /\ "legacy" \in matched <=> Login!owned(commands["legacy"])
    BY DEF Login!Names
  <1>4. same <=> (active1 <=> Login!enabled(approvals["canonical"]))
    OBVIOUS
  <1>5. \A name \in matched : Login!enabled(approvals[name]) => active1
    OBVIOUS
  <1>6. Login!enabled("on") /\ Login!enabled(Nothing) /\ Nothing # "on"
    BY NothingAssumption DEF Login!enabled
  <1> HIDE DEF desired, matched, active1, same
  <1>7. CASE active1 <=> Login!enabled(approvals["canonical"])
    BY <1>1, <1>2, <1>4, <1>7 DEF desired
  <1>8. CASE active1 /\ ~Login!enabled(approvals["canonical"])
    <2>1. desired = "on"
      BY <1>1, <1>2, <1>4, <1>8
    <2>2. QED
      BY <1>2, <1>6, <1>8, <2>1 DEF desired
  <1>9. CASE ~active1 /\ Login!enabled(approvals["canonical"])
    <2>1. "canonical" \notin matched /\ "legacy" \in matched
      BY <1>3, <1>5, <1>9
    <2>2. desired = approvals["legacy"] /\ ~Login!enabled(approvals["legacy"])
      BY <1>1, <1>2, <1>4, <1>5, <1>9, <2>1
    <2>3. QED
      BY <1>2, <1>3, <1>6, <1>9, <2>1, <2>2 DEF desired
  <1>10. QED
    BY <1>7, <1>8, <1>9

\* One step of a synchronisation, with the state it leaves.
LEMMA EnableKeeps ==
    ASSUME MoveInv, NEW force \in BOOLEAN, Login!Enable(force)
    PROVE  MoveInv'
  <1> DEFINE desired == Login!Desired(force, login, approved)
             changed == desired # Nothing /\ desired # approved["canonical"]
             merges == ~force /\ login["canonical"] # "foreign" /\ \E name \in Login!Names : Login!owned(login[name])
  <1>1. /\ sync' = Nothing \/
              sync' = [commands |-> login, desired |-> desired,
                       removing |-> IF Login!owned(login["legacy"]) THEN {"legacy"} ELSE {},
                       step |-> IF changed THEN "approve" ELSE "register",
                       active |-> Login!enabled(desired)]
        /\ expected' = IF merges THEN Login!Active(login, approved) ELSE Nothing
        /\ UNCHANGED <<login, approved>>
    BY DEF Login!Enable
  <1> HIDE DEF changed
  <1>2. sync' # Nothing => sync' \in Login!Sync
    <2>1. desired \in Login!Approvals \cup {Nothing}
      BY DEF MoveInv, Login!Desired, Login!Names, Login!Approvals
    <2>2. Login!enabled(desired) \in BOOLEAN
      BY DEF Login!enabled
    <2> HIDE DEF desired
    <2>3. QED
      BY <1>1, <2>1, <2>2 DEF MoveInv, Login!Sync, Login!Names
  <1>3. CASE ~merges
    BY <1>1, <1>3, <1>2 DEF MoveInv
  <1>4. CASE merges
    <2>1. /\ Login!enabled(desired) <=> Login!Active(login, approved)
          /\ desired = Nothing => approved["canonical"] = Nothing
          /\ desired # approved["canonical"] /\ Login!owned(login["canonical"]) =>
                Login!Active(login, approved)
      BY <1>4, DesiredKeeps DEF Login!Names
    <2>2. Login!Active(login, approved) \in BOOLEAN
      BY DEF Login!Active
    <2>3. expected' \in BOOLEAN /\ (expected' <=> Login!Active(login, approved))
      BY <1>1, <1>4, <2>2
    <2>4. ~changed => (Login!enabled(desired) <=> Login!enabled(approved["canonical"]))
      BY <2>1 DEF changed
    <2>5. changed => desired # approved["canonical"]
      BY DEF changed
    <2>6. sync' # Nothing => Moving'
      <3>1. /\ Login!enabled(desired) <=> expected'
            /\ changed => (Login!owned(login'["canonical"]) => expected')
            /\ ~changed => (Login!enabled(approved'["canonical"]) <=> expected')
        BY <1>1, <2>1, <2>3, <2>4, <2>5
      <3> HIDE DEF desired, merges
      <3>2. QED
        BY <1>1, <3>1 DEF Moving
    <2>7. Login!Active(login, approved)' <=> expected'
      BY <1>1, <2>3
    <2> HIDE DEF merges, desired
    <2>8. QED
      BY <1>1, <1>2, <2>3, <2>6, <2>7 DEF MoveInv
  <1>5. QED
    BY <1>3, <1>4


\* The approval is given, or the entry registered.
LEMMA RegisterKeeps ==
    ASSUME MoveInv, Login!Approve \/ Login!Register
    PROVE  MoveInv'
  <1>1. CASE Login!Approve
    <2>1. /\ sync # Nothing /\ sync.step = "approve" /\ sync \in Login!Sync
          /\ approved' = [approved EXCEPT !["canonical"] = sync.desired]
          /\ sync' = [sync EXCEPT !.step = "register"]
          /\ UNCHANGED <<login, expected>>
      BY <1>1 DEF Login!Approve, MoveInv
    <2>2. /\ approved'["canonical"] = sync.desired /\ approved'["legacy"] = approved["legacy"]
          /\ approved' \in [Login!Names -> Login!Approvals \cup {Nothing}]
      BY <2>1 DEF MoveInv, Login!Names, Login!Sync
    <2>3. /\ sync' \in Login!Sync /\ sync'.step = "register" /\ sync'.removing = sync.removing
          /\ sync'.commands = sync.commands /\ sync'.active = sync.active
      BY <2>1 DEF Login!Sync
    <2>4. expected # Nothing => (Login!Active(login, approved') <=> expected)
      BY <2>1, <2>2, ActiveNames DEF MoveInv, Moving
    <2>5. expected # Nothing => Moving'
      BY <2>1, <2>2, <2>3 DEF MoveInv, Moving
    <2>6. QED
      BY <2>1, <2>2, <2>3, <2>4, <2>5 DEF MoveInv
  <1>2. CASE Login!Register
    <2>1. /\ sync # Nothing /\ sync.step = "register" /\ sync \in Login!Sync
          /\ sync' = [sync EXCEPT !.step = "verify"]
          /\ login' = IF sync.commands["canonical"] = "command" THEN login
                      ELSE [login EXCEPT !["canonical"] = "command"]
          /\ UNCHANGED <<approved, expected>>
      BY <1>2 DEF Login!Register, MoveInv
    <2>2. /\ login' \in [Login!Names -> Login!Commands \cup {Nothing}]
          /\ login'["legacy"] = login["legacy"]
          /\ expected # Nothing => login'["canonical"] = "command"
      BY <2>1 DEF MoveInv, Moving, Login!Names, Login!Commands
    <2>3. /\ sync' \in Login!Sync /\ sync'.step = "verify" /\ sync'.removing = sync.removing
          /\ sync'.active = sync.active
      BY <2>1 DEF Login!Sync
    <2>4. expected # Nothing => (Login!Active(login', approved) <=> expected)
      BY <2>1, <2>2, ActiveNames DEF MoveInv, Moving, Login!owned
    <2>5. expected # Nothing => Moving'
      BY <2>1, <2>2, <2>3 DEF MoveInv, Moving
    <2>6. QED
      BY <2>1, <2>2, <2>3, <2>4, <2>5 DEF MoveInv
  <1>3. QED
    BY <1>1, <1>2

\* The old entry is given up; the one in use stands for the login start.
LEMMA RemoveKeeps ==
    ASSUME MoveInv, Login!Verify \/ Login!Remove \/ Login!Delete \/ Login!Forget
    PROVE  MoveInv'
  <1> DEFINE name == Login!First(sync.removing)
  <1>1. sync # Nothing /\ sync \in Login!Sync /\ UNCHANGED expected
    BY DEF Login!Verify, Login!Remove, Login!Delete, Login!Forget, MoveInv
  <1>2. /\ name \in Login!Names
        /\ sync.removing \subseteq {"legacy"} => name = "legacy"
    BY DEF Login!First, Login!Names
  <1> HIDE DEF name
  <1>3. CASE sync' = Nothing /\ UNCHANGED <<login, approved>>
    BY <1>1, <1>3 DEF MoveInv
  <1>4. ASSUME NEW next \in {"remove", "delete"}, sync.step \in {"verify", "remove"},
               sync' = [sync EXCEPT !.step = next], UNCHANGED <<login, approved>>,
               sync.step = "verify" => login["canonical"] = "command"
        PROVE  MoveInv'
    <2>1. /\ sync' \in Login!Sync /\ sync'.step = next /\ sync'.removing = sync.removing
          /\ sync'.active = sync.active
      BY <1>1, <1>4 DEF Login!Sync
    <2>2. QED
      BY <1>1, <1>4, <2>1 DEF MoveInv, Moving
  <1>5. CASE Login!Delete
    <2>1. /\ sync.step = "delete" /\ sync' = [sync EXCEPT !.step = "forget"]
          /\ login' = [login EXCEPT ![name] = Nothing] /\ UNCHANGED approved
      BY <1>5 DEF Login!Delete, name
    <2>2. /\ login' \in [Login!Names -> Login!Commands \cup {Nothing}]
          /\ name = "legacy" => login'["canonical"] = login["canonical"] /\ login'["legacy"] = Nothing
      BY <1>2, <2>1 DEF MoveInv, Login!Names
    <2>3. /\ sync' \in Login!Sync /\ sync'.step = "forget" /\ sync'.removing = sync.removing
          /\ sync'.active = sync.active
      BY <1>1, <2>1 DEF Login!Sync
    <2>4. expected # Nothing => (Login!Active(login', approved) <=> expected)
      BY <1>1, <1>2, <2>1, <2>2, ActiveNames, NothingAssumption DEF MoveInv, Moving, Login!owned
    <2>5. expected # Nothing => Moving'
      BY <1>1, <1>2, <2>1, <2>2, <2>3 DEF MoveInv, Moving
    <2>6. QED
      BY <1>1, <2>1, <2>2, <2>3, <2>4, <2>5 DEF MoveInv
  <1>6. CASE /\ sync.step = "forget" /\ login[name] = Nothing /\ UNCHANGED login
             /\ approved' = [approved EXCEPT ![name] = Nothing]
             /\ sync' = [sync EXCEPT !.step = "remove", !.removing = @ \ {name}]
    <2>1. /\ approved' \in [Login!Names -> Login!Approvals \cup {Nothing}]
          /\ name = "legacy" => approved'["canonical"] = approved["canonical"]
      BY <1>2, <1>6 DEF MoveInv, Login!Names
    <2>2. /\ sync' \in Login!Sync /\ sync'.step = "remove" /\ sync'.removing \subseteq sync.removing
          /\ sync'.active = sync.active
      BY <1>1, <1>6 DEF Login!Sync
    <2>3. expected # Nothing => (Login!Active(login, approved') <=> expected)
      BY <1>1, <1>2, <1>6, <2>1, ActiveNames, NothingAssumption DEF MoveInv, Moving, Login!owned
    <2>4. expected # Nothing => Moving'
      BY <1>1, <1>2, <1>6, <2>1, <2>2 DEF MoveInv, Moving
    <2>5. QED
      BY <1>1, <1>6, <2>1, <2>2, <2>3, <2>4 DEF MoveInv
  <1>7. QED
    BY <1>3, <1>4, <1>5, <1>6 DEF Login!Verify, Login!Remove, Login!Forget, name

LEMMA LoginStep ==
    ASSUME MoveInv, Login!Next \/ UNCHANGED loginVars
    PROVE  MoveInv'
  <1>1. CASE UNCHANGED <<login, approved, expected>> /\ (sync' = sync \/ sync' = Nothing)
    BY <1>1 DEF MoveInv, Moving
  <1>2. CASE Login!External
    BY <1>2 DEF Login!External, MoveInv, Login!Names, Login!Commands, Login!Approvals
  <1>3. CASE Login!Disable
    BY <1>3 DEF Login!Disable, MoveInv, Login!Sync
  <1>4. CASE Login!Finish \/ Login!Fail
    BY <1>1, <1>4 DEF Login!Finish, Login!Fail
  <1>5. CASE UNCHANGED loginVars
    BY <1>1, <1>5 DEF loginVars
  <1>6. QED
    BY <1>2, <1>3, <1>4, <1>5, EnableKeeps, RegisterKeeps, RemoveKeeps DEF Login!Next

\* Whichever call fails while the entry is moved to the name in use, the
\* program starts at login exactly if it did before.
THEOREM LoginStartKept == Spec => []MoveKeepsLoginStart
  <1>1. Init => MoveInv
    BY LoginInit DEF Init
  <1>2. MoveInv /\ [Next]_desktopVars => MoveInv'
    BY LoginStep DEF Next, desktopVars
  <1>3. MoveInv => MoveKeepsLoginStart
    <2>1. Login!Active(login, approved) \in BOOLEAN
      BY DEF Login!Active
    <2>2. QED
      BY <2>1 DEF MoveInv, MoveKeepsLoginStart, Login!MoveKeepsLoginStart
  <1>4. QED
    BY <1>1, <1>2, <1>3, PTL DEF Spec

-----------------------------------------------------------------------------
(* Limiting programs: the list limits are lifted from is complete          *)
(* (app-control.cjs, desktop-actions.js).                                  *)

\* Every program known to be limited is in the file, as soon as the host has
\* remembered what the helper reported; between an answer and the list that
\* is asked for after it, the page's list may be older.
LimitedIn(listed) == \A a \in Apps \ doubtful : policy[a] = "limited" => a \in listed
Remembering(a) == op # Nothing /\ op.at = "remember" /\ op.app = a
FileInv ==
    \A a \in Apps \ doubtful :
        IF Remembering(a) THEN op.response.kind = "succeeded" /\ op.response.state = policy[a]
        ELSE policy[a] = "limited" => a \in file
ListInv ==
    op = Nothing \/ op.at = "reload" =>
        /\ listing.at = "served" => LimitedIn(listing.listed)
        /\ listing.at = "idle" /\ ~rulesError => LimitedIn(rules)
LimitsInv ==
    /\ policy \in [Apps -> {"limited", "free"}]
    /\ op # Nothing => op \in Limits!Ops
    /\ records \in {Nothing, file}
    /\ FileInv /\ ListInv

LEMMA LimitsInit == Limits!Init => LimitsInv
  BY DEF Limits!Init, LimitsInv, FileInv, ListInv, Remembering, Limits!Listing

\* The page asks for the list, is served and shows it.
LEMMA ListSteps ==
    ASSUME LimitsInv, Limits!RefreshRules \/ Limits!ListServed \/ Limits!ListFails \/ Limits!ListAnswered
    PROVE  LimitsInv'
  <1>1. /\ UNCHANGED <<policy, file, op, doubtful>>
        /\ \/ listing.at = "idle" /\ listing' = Limits!Listing("sent", {}) /\ UNCHANGED records
           \/ listing.at = "sent" /\ records' = Limits!Known /\ listing' = Limits!Listing("served", Limits!Known)
           \/ listing' = Limits!Listing("failed", {}) /\ UNCHANGED records
           \/ /\ listing' = Limits!Listing("idle", {}) /\ UNCHANGED records
              /\ rulesError' \/ (listing.at = "served" /\ rules' = listing.listed)
    BY DEF Limits!RefreshRules, Limits!LoadRules, Limits!ListServed, Limits!ListFails, Limits!ListAnswered,
           Limits!hostVars, Limits!systemVars, Limits!pageVars
  <1>2. FileInv' /\ Limits!Known = file
    BY <1>1 DEF LimitsInv, FileInv, Remembering, Limits!Known
  <1>3. op = Nothing \/ op.at = "reload" => LimitedIn(file)
    BY DEF LimitsInv, FileInv, Remembering, LimitedIn
  <1>4. ListInv'
    BY <1>1, <1>2, <1>3 DEF LimitsInv, ListInv, LimitedIn, Limits!Listing
  <1>5. QED
    BY <1>1, <1>2, <1>4 DEF LimitsInv

\* An operation begins, its answer is shown, and the list is asked for again.
LEMMA OperationSteps ==
    ASSUME LimitsInv,
           \/ \E a \in Apps : Limits!Select(a) \/ \E action \in Limits!Actions : Limits!Operate(a, action)
           \/ Limits!Answered \/ Limits!ReloadRules \/ Limits!Done
    PROVE  LimitsInv'
  <1> USE DEF LimitsInv, FileInv, ListInv, Remembering, LimitedIn
  <1>1. ASSUME NEW a \in Apps, Limits!Select(a)
        PROVE  LimitsInv'
    BY <1>1 DEF Limits!Select, Limits!systemVars, Limits!hostVars
  <1>2. ASSUME NEW a \in Apps, NEW action \in Limits!Actions, Limits!Operate(a, action)
        PROVE  LimitsInv'
    <2>1. /\ op = Nothing /\ op' \in Limits!Ops /\ op'.at = "helper"
          /\ UNCHANGED <<policy, records, file, doubtful>>
      BY <1>2 DEF Limits!Operate, Limits!NoResponse, Limits!Ops, Limits!Response, Limits!systemVars,
                  Limits!hostVars
    <2>2. QED
      BY <2>1, NothingAssumption
  <1>3. CASE Limits!Answered
    <2>1. /\ op' \in Limits!Ops /\ op'.at = "rules" /\ op.at = "answer"
          /\ UNCHANGED <<policy, records, file, doubtful>>
      BY <1>3 DEF Limits!Answered, Limits!Ops, Limits!systemVars, Limits!hostVars
    <2>2. QED
      BY <2>1, NothingAssumption
  <1>4. CASE Limits!ReloadRules
    <2>1. /\ op' \in Limits!Ops /\ op'.at = "reload" /\ op.at = "rules" /\ listing'.at = "sent"
          /\ UNCHANGED <<policy, records, file, doubtful>>
      BY <1>4 DEF Limits!ReloadRules, Limits!MayReload, Limits!LoadRules, Limits!Listing, Limits!Ops,
                  Limits!systemVars, Limits!hostVars
    <2>2. QED
      BY <2>1, NothingAssumption
  <1>5. CASE Limits!Done
    BY <1>5 DEF Limits!Done, Limits!systemVars, Limits!hostVars
  <1>6. QED
    BY <1>1, <1>2, <1>3, <1>4, <1>5

\* The helper answers, or is not waited for any longer.
LEMMA HelperAnswers ==
    ASSUME LimitsInv, NEW kind \in {"succeeded", "failed", "cancelled"}, NEW after \in {"limited", "free"},
           NEW read \in Limits!States, Limits!Helper(kind, after, read)
    PROVE  LimitsInv'
  <1>1. /\ op \in Limits!Ops /\ op # Nothing /\ op.at = "helper" /\ op.app \in Apps
        /\ policy' = [policy EXCEPT ![op.app] = after]
        /\ UNCHANGED <<records, file>>
    BY DEF LimitsInv, Limits!Helper, Limits!Ops, Limits!hostVars
  <1> DEFINE at == IF kind = "cancelled" THEN "answer" ELSE "remember"
             answer == [kind |-> kind, state |-> read, saved |-> TRUE]
  <1>2. /\ op' \in Limits!Ops /\ op'.at = at /\ op'.response = answer /\ op'.app = op.app
    BY <1>1 DEF Limits!Helper, Limits!Ops, Limits!Response
  <1>3. /\ \A a \in Apps : a # op.app => policy'[a] = policy[a]
        /\ policy'[op.app] = after /\ policy' \in [Apps -> {"limited", "free"}]
    BY <1>1 DEF LimitsInv
  <1>4. /\ op.app \notin doubtful' => kind = "succeeded" /\ read = after
        /\ \A a \in Apps : a # op.app => (a \in doubtful' <=> a \in doubtful)
    BY <1>1 DEF Limits!Helper
  <1>5. op' # Nothing /\ op'.at \in {"answer", "remember"}
    BY <1>2, NothingAssumption
  <1>6. FileInv'
    BY <1>1, <1>2, <1>3, <1>4, <1>5 DEF LimitsInv, FileInv, Remembering
  <1>7. QED
    BY <1>1, <1>2, <1>3, <1>5, <1>6 DEF LimitsInv, ListInv

LEMMA HelperUnanswered ==
    ASSUME LimitsInv,
           \/ Limits!Refuse \/ \E working \in BOOLEAN : Limits!HelperLost(working)
           \/ \E a \in Apps, after \in {"limited", "free"} : Limits!HelperEnds(a, after)
    PROVE  LimitsInv'
  <1>1. CASE Limits!Refuse \/ \E working \in BOOLEAN : Limits!HelperLost(working)
    <2>1. /\ op \in Limits!Ops /\ op # Nothing /\ op.at = "helper"
          /\ op' = [op EXCEPT !.at = "answer"] /\ doubtful \subseteq doubtful'
          /\ UNCHANGED <<policy, records, file>>
      BY <1>1 DEF LimitsInv, Limits!Refuse, Limits!HelperLost, Limits!systemVars, Limits!hostVars
    <2>2. op' \in Limits!Ops /\ op'.at = "answer" /\ op' # Nothing
      BY <2>1, NothingAssumption DEF Limits!Ops
    <2>3. QED
      BY <2>1, <2>2 DEF LimitsInv, FileInv, ListInv, Remembering
  <1>2. ASSUME NEW a \in Apps, NEW after \in {"limited", "free"}, Limits!HelperEnds(a, after)
        PROVE  LimitsInv'
    <2>1. /\ policy' = [policy EXCEPT ![a] = after] /\ doubtful' = doubtful \cup {a}
          /\ UNCHANGED <<records, file, op, listing, rules, rulesError>>
      BY <1>2 DEF Limits!HelperEnds, Limits!hostVars, Limits!pageVars
    <2>2. /\ policy' \in [Apps -> {"limited", "free"}]
          /\ \A b \in Apps \ doubtful' : b \notin doubtful /\ policy'[b] = policy[b]
      BY <2>1 DEF LimitsInv
    <2>3. FileInv' /\ ListInv'
      BY <2>1, <2>2 DEF LimitsInv, FileInv, ListInv, Remembering, LimitedIn
    <2>4. QED
      BY <2>1, <2>2, <2>3 DEF LimitsInv
  <1>3. QED
    BY <1>1, <1>2

\* The host remembers what the helper reported, or cannot save it.
LEMMA RememberSteps ==
    ASSUME LimitsInv, Limits!Remember \/ Limits!RememberFails
    PROVE  LimitsInv'
  <1>1. /\ op \in Limits!Ops /\ op # Nothing /\ op.at = "remember" /\ op.app \in Apps
        /\ UNCHANGED <<policy, listing, rules, rulesError>>
    BY DEF LimitsInv, Limits!Remember, Limits!RememberFails, Limits!Ops, Limits!systemVars, Limits!pageVars
  <1>2. CASE Limits!Remember
    <2> DEFINE listed == Limits!Remembered(op.app, op.action, op.response, file)
    <2>1. records' = listed /\ file' = listed /\ op' = [op EXCEPT !.at = "answer"] /\ UNCHANGED doubtful
      BY <1>2 DEF Limits!Remember, Limits!Known, LimitsInv
    <2>2. op' \in Limits!Ops /\ op'.at = "answer" /\ op' # Nothing
      BY <1>1, <2>1, NothingAssumption DEF Limits!Ops
    <2>3. \A a \in file : a # op.app => a \in listed
      BY DEF Limits!Remembered
    <2>4. op.response.kind = "succeeded" /\ op.response.state = "limited" => op.app \in listed
      BY DEF Limits!Remembered
    <2> HIDE DEF listed
    <2>5. FileInv'
      BY <1>1, <2>1, <2>2, <2>3, <2>4 DEF LimitsInv, FileInv, Remembering
    <2>6. QED
      BY <1>1, <2>1, <2>2, <2>5 DEF LimitsInv, ListInv
  <1>3. CASE Limits!RememberFails
    <2>1. /\ op' = [op EXCEPT !.at = "answer", !.response.saved = FALSE]
          /\ doubtful' = doubtful \cup {op.app} /\ UNCHANGED <<records, file>>
      BY <1>3 DEF Limits!RememberFails, Limits!hostVars
    <2> DEFINE answer == [op.response EXCEPT !.saved = FALSE]
    <2>2. answer \in Limits!Response
      BY <1>1 DEF Limits!Ops, Limits!Response
    <2>3. op' = [op EXCEPT !.at = "answer", !.response = answer]
      BY <1>1, <2>1 DEF Limits!Ops, Limits!Response
    <2> HIDE DEF answer
    <2>4. op' \in Limits!Ops /\ op'.at = "answer" /\ op' # Nothing
      BY <1>1, <2>2, <2>3, NothingAssumption DEF Limits!Ops
    <2>5. FileInv'
      BY <1>1, <2>1, <2>4 DEF LimitsInv, FileInv, Remembering
    <2>6. QED
      BY <1>1, <2>1, <2>4, <2>5 DEF LimitsInv, ListInv
  <1>4. QED
    BY <1>2, <1>3

LEMMA LimitsRestart ==
    ASSUME LimitsInv, NEW ended \in SUBSET Apps, Limits!Restart(ended)
    PROVE  LimitsInv'
  <1>1. /\ policy' = [a \in Apps |-> IF a \in ended THEN "free" ELSE policy[a]]
        /\ doubtful' = IF op = Nothing \/ op.at \notin {"helper", "remember"} THEN doubtful
                       ELSE doubtful \cup {op.app}
        /\ records' = Nothing /\ op' = Nothing /\ listing'.at = "sent" /\ UNCHANGED file
    BY DEF Limits!Restart, Limits!Listing
  <1>2. FileInv'
    BY <1>1 DEF LimitsInv, FileInv, Remembering
  <1>3. QED
    BY <1>1, <1>2 DEF LimitsInv, ListInv

LEMMA LimitsStep ==
    ASSUME LimitsInv, Limits!Next \/ UNCHANGED limitsVars
    PROVE  LimitsInv'
  <1>1. CASE UNCHANGED limitsVars
    BY <1>1 DEF limitsVars, LimitsInv, FileInv, ListInv, Remembering, LimitedIn
  <1>2. QED
    BY <1>1, ListSteps, OperationSteps, HelperAnswers, HelperUnanswered, RememberSteps, LimitsRestart
    DEF Limits!Next

\* A program whose limit the user knows of can be found in the list, whenever
\* that list is shown without an error.
THEOREM LimitsListed == Spec => []LimitedIsListed
  <1>1. Init => LimitsInv
    BY LimitsInit DEF Init
  <1>2. LimitsInv /\ [Next]_desktopVars => LimitsInv'
    BY LimitsStep DEF Next, desktopVars
  <1>3. LimitsInv => LimitedIsListed
    BY DEF LimitsInv, ListInv, LimitedIn, LimitedIsListed, Limits!LimitedIsListed
  <1>4. QED
    BY <1>1, <1>2, <1>3, PTL DEF Spec

-----------------------------------------------------------------------------
(* Importing the old data: what is imported stood together (legacy.cjs).   *)

\* The backup copy was written before the file, and once the copy stood in for
\* the file, a file that is there again is newer than what was read.
Upto(content) == content \in Import!Versions => content <= writes
DiskInv ==
    /\ writes \in Import!Versions /\ disk \in Import!Directories /\ disk \in history
    /\ Upto(disk.state) /\ Upto(disk.bak) /\ Upto(disk.settings)
    /\ disk.state \in Import!Versions /\ disk.bak \in Import!Versions =>
          disk.state = 0 \/ disk.bak < disk.state

FromCopy == run.read.source = "bak"
Chosen == {"settings", "status", "backup", "archive", "recheck", "recheckBak", "recheckSettings", "import"}
Complete == Chosen \ {"settings"}
Rechecked == {"recheckBak", "recheckSettings", "import"}

\* What was read, and what can no longer come back once it is replaced.
ReadInv ==
    /\ run.step \in {"idle", "state"} => run.read = Import!NoReads
    /\ FromCopy => disk.state # 0
    /\ FromCopy /\ run.step \in Chosen =>
          /\ run.read.state \in Import!Versions /\ run.read.state <= writes
          /\ disk.state # run.read.state
    /\ run.step \in Complete =>
          run.read.settings = Nothing \/ run.read.settings \in 0..writes

\* The directory as it was when the file itself was read again.  What changed
\* since then, or before, fails one of the later comparisons.
Stood(d) ==
    /\ d.state = run.read.primary
    /\ d.settings = run.read.settings \/ (disk.settings # run.read.settings /\ run.step # "import")
    /\ run.read.source = "bak" =>
          d.bak = run.read.state \/ (disk.bak # run.read.state /\ run.step = "recheckBak")

ArchiveInv ==
    /\ run.step \in Complete \ {"status"} => ~completed
    /\ ~completed => database = "own"
    /\ run.step \in Complete \ {"status", "backup"} => run.backup = "own"
    /\ run.step \in Rechecked \cup {"recheck"} =>
          archive = [backup |-> "own", primary |-> run.read.primary, state |-> run.read.state,
                     settings |-> run.read.settings]

Runs == [step : Import!Steps, read : Import!Reads, backup : {"own", "merged", "none"}]
ImportInv ==
    /\ run \in Runs
    /\ DiskInv /\ ReadInv /\ ArchiveInv
    /\ run.step \in Rechecked => \E d \in history : Stood(d)
    /\ Import!ImportedTogether


LEMMA ImportInit == Import!Init => ImportInv
  BY DocumentsAssumption
  DEF Import!Init, ImportInv, Runs, DiskInv, ReadInv, ArchiveInv, Upto, FromCopy, Chosen, Complete, Rechecked,
      Import!ImportedTogether, Import!Directories, Import!Contents, Import!Versions, Import!Steps, Import!Reads,
      Import!NoReads

\* The old collector writes its files: no content that is gone comes back.
LEMMA CollectorWrites ==
    ASSUME ImportInv, Import!OldCollector
    PROVE  ImportInv'
  <1>1. /\ writes' = writes + 1 /\ writes' \in Import!Versions /\ history' = history \cup {disk'}
        /\ UNCHANGED <<database, completed, archive, imported, run, imports>>
    BY DocumentsAssumption DEF Import!OldCollector, Import!Write, Import!results, ImportInv, DiskInv, Import!Versions
  <1>2. /\ disk' \in Import!Directories
        /\ disk'.state \in {disk.state, Damaged, writes + 1}
        /\ disk'.settings \in {disk.settings, Damaged, writes + 1}
        /\ \/ disk'.bak = disk.bak
           \/ disk'.bak = disk.state /\ disk.state \in Import!Versions /\ disk'.state = writes + 1
    BY <1>1 DEF Import!OldCollector, Import!Write, ImportInv, DiskInv, Import!Directories, Import!Contents
  <1>3. DiskInv'
    BY <1>1, <1>2, DocumentsAssumption DEF ImportInv, DiskInv, Upto, Import!Versions
  <1>4. ReadInv'
    BY <1>1, <1>2, DocumentsAssumption
    DEF ImportInv, DiskInv, ReadInv, FromCopy, Chosen, Complete, Import!Versions
  <1>5. ArchiveInv'
    BY <1>1 DEF ImportInv, ArchiveInv
  <1>6. ASSUME NEW d \in history, run.step \in Rechecked, Stood(d)
        PROVE  Stood(d)'
    <2>1. disk.settings # run.read.settings => disk'.settings # run.read.settings
      BY <1>1, <1>2, <1>6, DocumentsAssumption
      DEF ImportInv, DiskInv, ReadInv, Chosen, Complete, Rechecked, Import!Versions
    <2>2. run.read.source = "bak" /\ disk.bak # run.read.state => disk'.bak # run.read.state
      BY <1>1, <1>2, <1>6 DEF ImportInv, ReadInv, FromCopy, Chosen, Complete, Rechecked
    <2>3. QED
      BY <1>1, <1>6, <2>1, <2>2 DEF Stood
  <1>7. run'.step \in Rechecked => \E d \in history' : Stood(d)'
    BY <1>1, <1>6 DEF ImportInv
  <1>8. Import!ImportedTogether'
    BY <1>1 DEF ImportInv, Import!ImportedTogether
  <1>9. QED
    BY <1>1, <1>3, <1>4, <1>5, <1>7, <1>8 DEF ImportInv

\* The files are read.
LEMMA ReadsKeep ==
    ASSUME ImportInv, Import!Begin \/ Import!ReadState \/ Import!ReadBackup \/ Import!ReadSettings
    PROVE  ImportInv'
  <1> USE DEF FromCopy, Chosen, Complete, Rechecked
  <1>1. UNCHANGED <<disk, history, writes, database, completed, archive, imported>>
    BY DEF Import!Begin, Import!ReadState, Import!ReadBackup, Import!ReadSettings, Import!outside, Import!results
  <1>2. DiskInv' /\ Import!ImportedTogether'
    BY <1>1 DEF ImportInv, DiskInv, Upto, Import!ImportedTogether
  <1>3. /\ run \in Runs /\ disk \in Import!Directories
        /\ Import!NoReads \in Import!Reads /\ Import!NoReads.source = "state"
    BY DEF ImportInv, DiskInv, Import!NoReads, Import!Reads, Import!Contents
  <1>4. /\ run' \in Runs /\ run'.step \in {"idle", "state", "bak", "settings", "status"}
        /\ ReadInv'
    <2>1. CASE Import!Begin
      <3>1. run'.step = "state" /\ run'.read = run.read /\ run.step = "idle" /\ run' \in Runs
        BY <1>3, <2>1 DEF Import!Begin, Import!Goto, Runs, Import!Steps
      <3>2. QED
        BY <1>1, <3>1 DEF ImportInv, ReadInv
    <2>2. CASE Import!ReadState
      <3>1. CASE disk.state \in Import!Versions
        <4> DEFINE files == [run.read EXCEPT !.state = disk.state, !.primary = disk.state]
        <4>1. files \in Import!Reads /\ files.source = run.read.source
          BY <1>3 DEF Runs, Import!Reads, Import!Directories
        <4>2. run' = [run EXCEPT !.step = "settings", !.read = files]
          BY <2>2, <3>1 DEF Import!ReadState, Import!Read
        <4> HIDE DEF files
        <4>3. run'.step = "settings" /\ run'.read = files /\ run' \in Runs /\ run.step = "state"
          BY <1>3, <2>2, <4>1, <4>2 DEF Import!ReadState, Runs, Import!Steps
        <4>4. QED
          BY <1>1, <1>3, <4>1, <4>3 DEF ImportInv, ReadInv
      <3>2. CASE disk.state \notin Import!Versions
        <4> DEFINE files == [run.read EXCEPT !.source = "bak", !.primary = disk.state]
        <4>1. files \in Import!Reads
          BY <1>3 DEF Runs, Import!Reads, Import!Directories
        <4>2. run' = [run EXCEPT !.step = "bak", !.read = files]
          BY <2>2, <3>2 DEF Import!ReadState, Import!Read
        <4> HIDE DEF files
        <4>3. run'.step = "bak" /\ run' \in Runs
          BY <1>3, <4>1, <4>2 DEF Runs, Import!Steps
        <4>4. disk.state # 0
          BY <3>2, DocumentsAssumption DEF Import!Versions
        <4>5. QED
          BY <1>1, <4>3, <4>4 DEF ReadInv
      <3>3. QED
        BY <3>1, <3>2
    <2>3. CASE Import!ReadBackup
      <3>1. CASE disk.bak \in Import!Versions
        <4> DEFINE files == [run.read EXCEPT !.state = disk.bak]
        <4>1. files \in Import!Reads /\ files.source = run.read.source /\ files.state = disk.bak
          BY <1>3, <3>1 DEF Runs, Import!Reads, Import!Contents
        <4>2. run' = [run EXCEPT !.step = "settings", !.read = files]
          BY <2>3, <3>1 DEF Import!ReadBackup, Import!Read
        <4> HIDE DEF files
        <4>3. run'.step = "settings" /\ run'.read = files /\ run' \in Runs
          BY <1>3, <4>1, <4>2 DEF Runs, Import!Steps
        <4>4. FromCopy => disk.state # disk.bak
          BY <3>1, DocumentsAssumption DEF ImportInv, DiskInv, ReadInv, Import!Versions
        <4>5. QED
          BY <1>1, <3>1, <4>1, <4>3, <4>4 DEF ImportInv, DiskInv, Upto, ReadInv
      <3>2. CASE Import!Stop
        BY <1>1, <1>3, <3>2 DEF Import!Stop, Runs, Import!Steps, ReadInv
      <3>3. QED
        BY <2>3, <3>1, <3>2 DEF Import!ReadBackup
    <2>4. CASE Import!ReadSettings
      <3> DEFINE files == [run.read EXCEPT !.settings = disk.settings]
      <3>1. CASE disk.settings # Damaged /\ Import!Read("status", files)
        <4>1. /\ files \in Import!Reads /\ files.settings = disk.settings
              /\ files.source = run.read.source /\ files.state = run.read.state
          BY <1>3 DEF Runs, Import!Reads, Import!Directories
        <4> HIDE DEF files
        <4>2. run'.step = "status" /\ run' \in Runs /\ run'.read = files
          BY <1>3, <3>1, <4>1 DEF Import!Read, Runs, Import!Steps
        <4>3. disk.settings = Nothing \/ disk.settings \in 0..writes
          BY <1>3, <3>1, DocumentsAssumption
          DEF ImportInv, DiskInv, Upto, Import!Directories, Import!Contents, Import!Versions
        <4>4. run.step = "settings"
          BY <2>4 DEF Import!ReadSettings
        <4>5. QED
          BY <1>1, <4>1, <4>2, <4>3, <4>4 DEF ImportInv, ReadInv
      <3>2. CASE Import!Stop
        BY <1>1, <1>3, <3>2 DEF Import!Stop, Runs, Import!Steps, ReadInv
      <3>3. QED
        BY <2>4, <3>1, <3>2 DEF Import!ReadSettings
    <2>5. QED
      BY <2>1, <2>2, <2>3, <2>4
  <1>5. ArchiveInv'
    BY <1>1, <1>4 DEF ImportInv, ArchiveInv
  <1>6. QED
    BY <1>2, <1>4, <1>5 DEF ImportInv

\* What was read is archived with the database, which is as before.
LEMMA ArchiveKeeps ==
    ASSUME ImportInv, Import!AskStatus \/ Import!Backup \/ Import!Archive \/ Import!Fails
    PROVE  ImportInv'
  <1> USE DEF FromCopy, Chosen, Complete, Rechecked
  <1>1. UNCHANGED <<disk, history, writes, database, completed, imported>>
    BY DEF Import!AskStatus, Import!Backup, Import!Archive, Import!Fails, Import!outside, Import!results
  <1>2. DiskInv' /\ Import!ImportedTogether'
    BY <1>1 DEF ImportInv, DiskInv, Upto, Import!ImportedTogether
  <1>3. run \in Runs /\ Import!NoReads \in Import!Reads /\ Import!NoReads.source = "state"
    BY DEF ImportInv, Import!NoReads, Import!Reads, Import!Contents
  <1>4. run' \in Runs /\ ReadInv' /\ ArchiveInv' /\ run'.step \notin Rechecked
    <2>1. CASE Import!Stop /\ UNCHANGED archive
      BY <1>1, <1>3, <2>1 DEF Import!Stop, Runs, Import!Steps, ReadInv, ArchiveInv, ImportInv
    <2>2. CASE Import!AskStatus /\ ~completed
      <3>1. /\ run'.step = "backup" /\ run'.read = run.read /\ run' \in Runs /\ run.step = "status"
        BY <1>3, <2>2 DEF Import!AskStatus, Import!Goto, Runs, Import!Steps
      <3>2. QED
        BY <1>1, <2>2, <3>1 DEF ImportInv, ReadInv, ArchiveInv
    <2>3. CASE Import!Backup
      <3>1. ~completed /\ database = "own"
        BY <2>3 DEF Import!Backup, ImportInv, ArchiveInv
      <3>2. /\ run'.step = "archive" /\ run'.read = run.read /\ run' \in Runs /\ run.step = "backup"
            /\ run'.backup = "own"
        BY <1>3, <2>3, <3>1 DEF Import!Backup, Runs, Import!Steps
      <3>3. QED
        BY <1>1, <3>1, <3>2 DEF ImportInv, ReadInv, ArchiveInv
    <2>4. CASE Import!Archive
      <3>1. /\ run'.step = "recheck" /\ run'.read = run.read /\ run' \in Runs /\ run.step = "archive"
            /\ run'.backup = run.backup
        BY <1>3, <2>4 DEF Import!Archive, Import!Goto, Runs, Import!Steps
      <3>2. QED
        BY <1>1, <2>4, <3>1 DEF Import!Archive, ImportInv, ReadInv, ArchiveInv
    <2>5. QED
      BY <2>1, <2>2, <2>3, <2>4 DEF Import!AskStatus, Import!Fails, Import!results
  <1>5. QED
    BY <1>2, <1>4 DEF ImportInv

\* They are read again: from the first comparison on there is a moment they
\* stood together, or a later comparison fails.
LEMMA ChecksKeep ==
    ASSUME ImportInv, Import!CheckState \/ Import!CheckBackup \/ Import!CheckSettings
    PROVE  ImportInv'
  <1> USE DEF FromCopy, Chosen, Complete, Rechecked
  <1>1. UNCHANGED <<disk, history, writes, database, completed, archive, imported>>
    BY DEF Import!CheckState, Import!CheckBackup, Import!CheckSettings, Import!outside, Import!results
  <1>2. DiskInv' /\ Import!ImportedTogether'
    BY <1>1 DEF ImportInv, DiskInv, Upto, Import!ImportedTogether
  <1>3. run \in Runs /\ Import!NoReads \in Import!Reads /\ Import!NoReads.source = "state"
    BY DEF ImportInv, Import!NoReads, Import!Reads, Import!Contents
  <1>4. \/ Import!Stop
        \/ /\ run'.read = run.read /\ run'.backup = run.backup /\ run' \in Runs
           /\ run'.step \in Rechecked /\ run.step \in {"recheck", "recheckBak", "recheckSettings"}
    <2>1. \A same \in BOOLEAN, next \in Rechecked : Import!AfterCheck(same, next) =>
             \/ Import!Stop
             \/ /\ same /\ run'.read = run.read /\ run'.backup = run.backup /\ run' \in Runs /\ run'.step = next
      BY <1>3 DEF Import!AfterCheck, Import!Goto, Runs, Import!Steps
    <2>2. QED
      BY <2>1 DEF Import!CheckState, Import!CheckBackup, Import!CheckSettings
  <1>5. run' \in Runs /\ ReadInv' /\ ArchiveInv'
    <2>1. CASE Import!Stop
      BY <1>1, <1>3, <2>1 DEF Import!Stop, Runs, Import!Steps, ReadInv, ArchiveInv, ImportInv
    <2>2. QED
      BY <1>1, <1>4, <2>1 DEF ImportInv, ReadInv, ArchiveInv
  <1>6. run'.step \in Rechecked => \E d \in history' : Stood(d)'
    <2>1. CASE Import!CheckState
      <3>1. ASSUME NEW d \in history, d = disk, run'.step \in Rechecked
            PROVE  Stood(d)'
        <4>1. run'.step # "import" /\ run'.read = run.read /\ disk.state = run.read.primary
              /\ (run.read.source = "bak" => run'.step = "recheckBak")
          BY <1>3, <2>1, <3>1 DEF Import!CheckState, Import!AfterCheck, Import!Goto, Import!Stop, Runs
        <4>2. QED
          BY <1>1, <3>1, <4>1 DEF Stood
      <3>2. QED
        BY <1>1, <3>1 DEF ImportInv, DiskInv
    <2>2. CASE Import!CheckBackup \/ Import!CheckSettings
      <3>1. SUFFICES ASSUME run'.step \in Rechecked PROVE \E d \in history' : Stood(d)'
        OBVIOUS
      <3>2. PICK d \in history : Stood(d)
        BY <2>2 DEF Import!CheckBackup, Import!CheckSettings, ImportInv
      <3>3. Stood(d)'
        <4>1. CASE Import!CheckBackup
          <5>1. run'.read = run.read /\ run'.step = "recheckSettings" /\ disk.bak = run.read.state
            BY <1>3, <3>1, <4>1 DEF Import!CheckBackup, Import!AfterCheck, Import!Goto, Import!Stop, Runs
          <5>2. QED
            BY <1>1, <3>2, <5>1 DEF Stood
        <4>2. CASE Import!CheckSettings
          <5>1. /\ run'.read = run.read /\ run.step = "recheckSettings" /\ disk.settings = run.read.settings
            BY <1>3, <3>1, <4>2 DEF Import!CheckSettings, Import!AfterCheck, Import!Goto, Import!Stop, Runs
          <5>2. QED
            BY <1>1, <3>2, <5>1 DEF Stood
        <4>3. QED
          BY <2>2, <4>1, <4>2
      <3>4. QED
        BY <1>1, <3>3
    <2>3. QED
      BY <2>1, <2>2
  <1>7. QED
    BY <1>2, <1>5, <1>6 DEF ImportInv

LEMMA MergeKeeps ==
    ASSUME ImportInv, Import!Import
    PROVE  ImportInv'
  <1> USE DEF FromCopy, Chosen, Complete, Rechecked
  <1>1. /\ run.step = "import" /\ run' = [step |-> "idle", read |-> Import!NoReads, backup |-> "none"]
        /\ imported' = [read |-> run.read, archive |-> archive] /\ completed' = TRUE
        /\ UNCHANGED <<disk, history, writes, archive>>
    BY DEF Import!Import, Import!Stop, Import!outside
  <1>2. DiskInv' /\ ReadInv' /\ ArchiveInv'
    BY <1>1 DEF ImportInv, DiskInv, Upto, ReadInv, ArchiveInv, Import!NoReads
  <1>3. run' \in Runs
    BY <1>1 DEF Runs, Import!Steps, Import!NoReads, Import!Reads, Import!Contents
  <1>4. Import!ImportedTogether'
    BY <1>1 DEF ImportInv, ArchiveInv, Stood, Import!ImportedTogether
  <1>5. QED
    BY <1>1, <1>2, <1>3, <1>4 DEF ImportInv

LEMMA ImportStep ==
    ASSUME ImportInv, Import!Next \/ UNCHANGED importVars
    PROVE  ImportInv'
  <1>1. CASE UNCHANGED importVars
    BY <1>1 DEF importVars, ImportInv, DiskInv, ReadInv, ArchiveInv, Upto, FromCopy, Stood, Import!ImportedTogether
  <1>2. QED
    BY <1>1, CollectorWrites, ReadsKeep, ArchiveKeeps, ChecksKeep, MergeKeeps DEF Import!Next

-----------------------------------------------------------------------------
(* Saving to a chosen file and reading it (files.cjs).                     *)

SaveInv(s) ==
    /\ step[s] \in {"idle", "open"} => temporary[s] = Nothing
    /\ step[s] = "close" \/ step[s] = "rename" => temporary[s] = Actions!Document(s)
    /\ step[s] \notin Actions!Active /\ temporary[s] # Nothing => s \in littered
    /\ target.document = s => step[s] = "saved"
    /\ step[s] = "saved" => target.document # "old"
TargetInv ==
    /\ target \in Actions!Contents /\ target.whole /\ target.synced
    /\ opening.step = "check" => opening.body.whole
    /\ Actions!BodyWithinLimit
FilesInv ==
    /\ temporary \in [Saves -> Actions!Contents \cup {Nothing}]
    /\ step \in [Saves -> Actions!Active \cup {"idle", "saved", "failed", "canceled"}]
    /\ opening \in [step : {"stat", "read", "check", "given", "error"}, body : Actions!Contents \cup {Nothing}]
    /\ TargetInv /\ \A s \in Saves : SaveInv(s)

LEMMA FilesInit == Actions!Init => FilesInv
  BY DocumentsAssumption
  DEF Actions!Init, FilesInv, TargetInv, SaveInv, Actions!BodyWithinLimit, Actions!Document, Actions!Contents,
      Actions!Documents, Actions!Active

\* A step of a save, up to the one that replaces the target.
LEMMA SaveSteps ==
    ASSUME FilesInv, NEW s \in Saves,
           \/ Actions!Choose(s) \/ Actions!Open(s) \/ Actions!Write(s) \/ Actions!Sync(s) \/ Actions!Close(s)
           \/ Actions!Fails(s) \/ Actions!Unlink(s)
    PROVE  FilesInv'
  <1> USE DEF Actions!Active
  <1>1. UNCHANGED <<target, opening>>
    BY DEF Actions!Choose, Actions!Open, Actions!Write, Actions!Sync, Actions!Close, Actions!Fails,
           Actions!Unlink, Actions!elsewhere
  <1>2. /\ temporary' \in [Saves -> Actions!Contents \cup {Nothing}]
        /\ step' \in [Saves -> Actions!Active \cup {"idle", "saved", "failed", "canceled"}]
    <2>1. \A from, to \in Actions!Active \cup {"idle", "saved", "failed", "canceled"} : Actions!At(s, from, to)
             => step' \in [Saves -> Actions!Active \cup {"idle", "saved", "failed", "canceled"}]
      BY DEF Actions!At, FilesInv
    <2>2. \A whole, synced \in BOOLEAN : Actions!WriteTemporary(s, whole, synced)
             => temporary' \in [Saves -> Actions!Contents \cup {Nothing}]
      <3>1. TAKE whole, synced \in BOOLEAN
      <3>2. [document |-> s, whole |-> whole, synced |-> synced, small |-> TRUE] \in Actions!Contents
        BY DEF Actions!Contents, Actions!Documents
      <3>3. QED
        BY <3>2 DEF Actions!WriteTemporary, FilesInv
    <2>3. step' \in [Saves -> Actions!Active \cup {"idle", "saved", "failed", "canceled"}]
      BY <2>1 DEF Actions!Choose, Actions!Open, Actions!Write, Actions!Sync, Actions!Close, Actions!Fails,
                  Actions!Unlink
    <2>4. temporary' \in [Saves -> Actions!Contents \cup {Nothing}]
      <3>1. CASE Actions!Open(s) \/ Actions!Write(s) \/ Actions!Sync(s)
        BY <2>2, <3>1 DEF Actions!Open, Actions!Write, Actions!Sync
      <3>2. CASE Actions!Unlink(s)
        BY <3>2 DEF Actions!Unlink, FilesInv
      <3>3. CASE Actions!Choose(s) \/ Actions!Close(s) \/ Actions!Fails(s)
        BY <3>3 DEF Actions!Choose, Actions!Close, Actions!Fails, FilesInv
      <3>4. QED
        BY <3>1, <3>2, <3>3
    <2>5. QED
      BY <2>3, <2>4
  <1>3. ASSUME NEW r \in Saves, r # s PROVE SaveInv(r)'
    <2>1. step'[r] = step[r] /\ temporary'[r] = temporary[r] /\ (r \in littered => r \in littered')
      BY <1>3 DEF Actions!Choose, Actions!Open, Actions!Write, Actions!Sync, Actions!Close, Actions!Fails,
             Actions!Unlink, Actions!At, Actions!WriteTemporary, Actions!elsewhere, FilesInv
    <2>2. QED
      BY <1>1, <2>1 DEF FilesInv, SaveInv
  <1>4. SaveInv(s)'
    <2>1. step[s] # "saved" /\ step'[s] # "saved"
      BY DEF Actions!Choose, Actions!Open, Actions!Write, Actions!Sync, Actions!Close, Actions!Fails,
             Actions!Unlink, Actions!At, FilesInv
    <2>2. target'.document # s
      BY <1>1, <2>1 DEF FilesInv, SaveInv
    <2>3. step'[s] = "close" \/ step'[s] = "rename" => temporary'[s] = Actions!Document(s)
      BY DEF Actions!Choose, Actions!Open, Actions!Write, Actions!Sync, Actions!Close, Actions!Fails,
             Actions!Unlink, Actions!At, Actions!WriteTemporary, Actions!Document, FilesInv, SaveInv
    <2>4. /\ step'[s] \in {"idle", "open"} => temporary'[s] = Nothing
          /\ step'[s] \notin Actions!Active /\ temporary'[s] # Nothing => s \in littered'
      BY DEF Actions!Choose, Actions!Open, Actions!Write, Actions!Sync, Actions!Close, Actions!Fails,
             Actions!Unlink, Actions!At, Actions!WriteTemporary, Actions!elsewhere, FilesInv, SaveInv
    <2>5. QED
      BY <2>1, <2>2, <2>3, <2>4 DEF SaveInv
  <1>5. TargetInv'
    BY <1>1 DEF FilesInv, TargetInv, Actions!BodyWithinLimit
  <1>6. QED
    BY <1>1, <1>2, <1>3, <1>4, <1>5 DEF FilesInv

LEMMA RenameKeeps ==
    ASSUME FilesInv, NEW s \in Saves, Actions!Rename(s)
    PROVE  FilesInv'
  <1> USE DEF Actions!Active
  <1>1. /\ step[s] = "rename" /\ step' = [step EXCEPT ![s] = "saved"]
        /\ target' = Actions!Document(s) /\ temporary' = [temporary EXCEPT ![s] = Nothing]
        /\ UNCHANGED <<littered, opening>>
    BY DEF Actions!Rename, Actions!At, FilesInv, SaveInv
  <1>2. \A r \in Saves : SaveInv(r)'
    BY <1>1, DocumentsAssumption DEF FilesInv, SaveInv, Actions!Document
  <1>3. TargetInv'
    BY <1>1 DEF FilesInv, TargetInv, Actions!BodyWithinLimit, Actions!Document, Actions!Contents, Actions!Documents
  <1>4. QED
    BY <1>1, <1>2, <1>3 DEF FilesInv

\* A backup is opened, and another program replaces the target.
LEMMA OpenSteps ==
    ASSUME FilesInv, Actions!Stat \/ Actions!Read \/ Actions!CheckBody \/ Actions!Change
    PROVE  FilesInv'
  <1>1. UNCHANGED <<temporary, step, littered>>
    BY DEF Actions!Stat, Actions!Read, Actions!CheckBody, Actions!Change
  <1>2. TargetInv' /\ opening' \in [step : {"stat", "read", "check", "given", "error"},
                                    body : Actions!Contents \cup {Nothing}]
    <2> USE DEF FilesInv, TargetInv, Actions!BodyWithinLimit
    <2>1. CASE Actions!Stat
      BY <2>1 DEF Actions!Stat
    <2>2. CASE Actions!Read
      BY <2>2 DEF Actions!Read
    <2>3. CASE Actions!CheckBody
      <3>1. UNCHANGED target /\ opening'.body = opening.body /\ opening.body.whole
        BY <2>3 DEF Actions!CheckBody
      <3>2. opening'.step = IF opening.body.small THEN "given" ELSE "error"
        BY <2>3 DEF Actions!CheckBody
      <3>3. opening' \in [step : {"stat", "read", "check", "given", "error"}, body : Actions!Contents \cup {Nothing}]
        BY <2>3 DEF Actions!CheckBody
      <3>4. QED
        BY <3>1, <3>2, <3>3
    <2>4. CASE Actions!Change
      <3>1. target' \in Actions!Contents /\ target'.whole /\ target'.synced /\ UNCHANGED opening
        BY <2>4 DEF Actions!Change, Actions!Document, Actions!Contents, Actions!Documents
      <3>2. QED
        BY <3>1
    <2>5. QED
      BY <2>1, <2>2, <2>3, <2>4
  <1>3. target' = target \/ target'.document = "foreign"
    BY DEF Actions!Stat, Actions!Read, Actions!CheckBody, Actions!Change, Actions!Document
  <1>4. \A s \in Saves : SaveInv(s)'
    BY <1>1, <1>3, DocumentsAssumption DEF FilesInv, SaveInv
  <1>5. QED
    BY <1>1, <1>2, <1>4 DEF FilesInv

\* Power is lost: the target was on the disk before it took its place.
LEMMA PowerLossKeeps ==
    ASSUME FilesInv, Actions!PowerLoss
    PROVE  FilesInv'
  <1> DEFINE lost(f) == IF f # Nothing /\ ~f.synced THEN [f EXCEPT !.whole = FALSE] ELSE f
  <1>1. /\ target' = lost(target) /\ temporary' = [s \in Saves |-> lost(temporary[s])]
        /\ step' = [s \in Saves |-> IF step[s] \in Actions!Active THEN "failed" ELSE step[s]]
        /\ littered' = littered \cup {s \in Saves : temporary[s] # Nothing}
        /\ opening' = [opening EXCEPT !.step = "error"]
    BY DEF Actions!PowerLoss
  <1>2. target' = target
    BY <1>1 DEF FilesInv, TargetInv
  <1>3. \A f \in Actions!Contents \cup {Nothing} :
           lost(f) \in Actions!Contents \cup {Nothing} /\ (f = Nothing => lost(f) = Nothing)
    BY DEF Actions!Contents
  <1> HIDE DEF lost
  <1>4. /\ temporary' \in [Saves -> Actions!Contents \cup {Nothing}]
        /\ step' \in [Saves -> Actions!Active \cup {"idle", "saved", "failed", "canceled"}]
    BY <1>1, <1>3 DEF FilesInv
  <1>5. \A s \in Saves : SaveInv(s)'
    BY <1>1, <1>2, <1>3 DEF FilesInv, SaveInv, Actions!Active
  <1>6. TargetInv' /\ opening' \in [step : {"stat", "read", "check", "given", "error"},
                                    body : Actions!Contents \cup {Nothing}]
    BY <1>1, <1>2 DEF FilesInv, TargetInv, Actions!BodyWithinLimit
  <1>7. QED
    BY <1>4, <1>5, <1>6 DEF FilesInv

LEMMA FilesStep ==
    ASSUME FilesInv, Actions!Next \/ UNCHANGED filesVars
    PROVE  FilesInv'
  <1>1. CASE UNCHANGED filesVars
    BY <1>1 DEF filesVars, FilesInv, TargetInv, SaveInv, Actions!BodyWithinLimit
  <1>2. QED
    BY <1>1, SaveSteps, RenameKeeps, OpenSteps, PowerLossKeeps DEF Actions!Next

\* What is imported stood together in the old directory and is archived with
\* the database of before; a chosen file holds all of one document, whatever
\* fails and if power is lost; a backup is handed on whole and within the limit.
THEOREM FilesStayWhole == Spec => []FilesWhole
  <1>1. Init => ImportInv /\ FilesInv
    BY ImportInit, FilesInit DEF Init
  <1>2. ImportInv /\ FilesInv /\ [Next]_desktopVars => ImportInv' /\ FilesInv'
    <2>1. ImportInv /\ [Next]_desktopVars => ImportInv'
      BY ImportStep DEF Next, desktopVars
    <2>2. FilesInv /\ [Next]_desktopVars => FilesInv'
      BY FilesStep DEF Next, desktopVars
    <2>3. QED
      BY <2>1, <2>2
  <1>3. ImportInv /\ FilesInv => FilesWhole
    <2>1. FilesInv => Actions!TargetIsWhole
      BY DEF FilesInv, TargetInv, SaveInv, Actions!TargetIsWhole
    <2>2. QED
      BY <2>1 DEF ImportInv, FilesInv, TargetInv, FilesWhole
  <1>4. QED
    BY <1>1, <1>2, <1>3, PTL DEF Spec

-----------------------------------------------------------------------------
(* The dialogs of the page: questions are answered, updates exit only when *)
(* all is saved (app.js).                                                  *)

\* A form asks in a dialog of its own, or its question was replaced.
Modals == [modal : {"none", "confirm", "plain"},
           confirm : Dialogs!Forms \cup {"navigate", "drawer", "clear", "update", Nothing},
           cancel : Dialogs!Forms \cup {Nothing}, overwritten : SUBSET Dialogs!Forms]
OwnQuestion(d, f) == d.modal # "none" /\ d.cancel = f /\ d.confirm = f
Answerable(busy, d) ==
    /\ \A f \in Dialogs!Forms : busy[f] = "asking" => OwnQuestion(d, f) \/ f \in d.overwritten
    /\ d.modal = "none" => d.cancel = Nothing

\* While an update prepares, the page waits for the forms.
DialogsInv ==
    /\ Dialogs!TypeOK /\ Answerable(writing, dialogShown)
    /\ Dialogs!SavingAsksNobody /\ Dialogs!PreparedIsSaved /\ Dialogs!InertForUpdate
    /\ (preparingUpdate <=> waits["prepare"] # Dialogs!Idle)

LEMMA DialogsInit == Dialogs!Init => DialogsInv
  <1> HAVE Dialogs!Init
  <1>1. Dialogs!TypeOK
    <2>1. Dialogs!Idle \in [Dialogs!Forms -> 0..3]
      BY DEF Dialogs!Idle
    <2>2. 0 \in 0..MaxEdits /\ 0 \in 0..MaxFailures /\ 0 \in 0..MaxDialogs
      BY BoundsAssumption
    <2>3. QED
      BY <2>1, <2>2 DEF Dialogs!Init, Dialogs!TypeOK
  <1>2. Answerable(writing, dialogShown)
    BY DEF Dialogs!Init, Answerable
  <1>3. waits["prepare"] = Dialogs!Idle
    BY DEF Dialogs!Init, Dialogs!Flows
  <1>4. QED
    BY <1>1, <1>2, <1>3 DEF Dialogs!Init, DialogsInv, Dialogs!SavingAsksNobody, Dialogs!PreparedIsSaved,
       Dialogs!InertForUpdate, Dialogs!Inert

\* What a flush may be called with, and what it leaves: questions stay answerable,
\* none is asked while an update prepares, and forms with nothing to do stay so.
Pendings == [Dialogs!Forms -> {"none", "edit", "question"}]
Workings == [Dialogs!Forms -> {"no", "writing", "asking", "asked"}]
Flushing(S, unwritten, busy, failing, d) ==
    /\ S \subseteq Dialogs!Forms /\ unwritten \in Pendings /\ busy \in Workings
    /\ failing \in [Dialogs!Forms -> BOOLEAN] /\ d \in Modals /\ Answerable(busy, d)
    /\ \A f \in Dialogs!Forms : busy[f] = "asking" => writing[f] = "asking"
Flushed(unwritten, busy, preparing, d) ==
    /\ unsaved' \in Pendings /\ writing' \in Workings /\ refusedWrites' \in [Dialogs!Forms -> BOOLEAN]
    /\ dialogShown' \in Modals /\ Answerable(writing', dialogShown')
    /\ \A f \in Dialogs!Forms : unwritten[f] = "none" /\ busy[f] = "no" => unsaved'[f] = "none" /\ writing'[f] = "no"
    /\ preparing = TRUE =>
          dialogShown' = d /\ \A f \in Dialogs!Forms : writing'[f] = "asking" => busy[f] = "asking"

LEMMA Draining ==
    ASSUME NEW S, NEW unwritten, NEW busy, NEW failing, NEW preparing \in BOOLEAN, NEW d,
           Flushing(S, unwritten, busy, failing, d),
           Dialogs!Drain(S, unwritten, busy, failing, preparing, d)
    PROVE  Flushed(unwritten, busy, preparing, d)
  <1> DEFINE next == {f \in S : busy[f] = "no" /\ ~failing[f] /\ unwritten[f] # "none"}
             asking == {f \in next : unwritten[f] = "question"}
             refusing == IF preparing THEN asking ELSE {}
  <1>1. /\ unsaved' = [f \in Dialogs!Forms |-> IF f \in next \ refusing THEN "none" ELSE unwritten[f]]
        /\ writing' = [f \in Dialogs!Forms |-> IF f \in refusing \/ f \notin next THEN busy[f]
                                               ELSE IF f \in asking THEN "asking" ELSE "writing"]
        /\ refusedWrites' = [f \in Dialogs!Forms |-> failing[f] \/ f \in refusing]
        /\ dialogShown' \in Dialogs!confirmAutosave(d, asking \ refusing)
    BY DEF Dialogs!Drain
  <1>2. next \subseteq Dialogs!Forms /\ asking \subseteq next /\ refusing \in {{}, asking}
        /\ (preparing => asking \ refusing = {}) /\ \A f \in next : busy[f] = "no" /\ unwritten[f] # "none"
    BY DEF Flushing
  <1>3. /\ unsaved' \in Pendings
        /\ writing' \in Workings
        /\ refusedWrites' \in [Dialogs!Forms -> BOOLEAN]
        /\ \A f \in Dialogs!Forms : unwritten[f] = "none" /\ busy[f] = "no" => unsaved'[f] = "none" /\ writing'[f] = "no"
        /\ \A f \in Dialogs!Forms : writing'[f] = "asking" => busy[f] = "asking" \/ f \in asking \ refusing
    BY <1>1, <1>2 DEF Flushing, Pendings, Workings
  <1> HIDE DEF next, asking, refusing
  <1>4. CASE asking \ refusing = {}
    BY <1>1, <1>3, <1>4 DEF Dialogs!confirmAutosave, Answerable, Flushing, Flushed
  <1>5. CASE asking \ refusing # {}
    <2>1. PICK last \in asking \ refusing :
             dialogShown' = [modal |-> "confirm", confirm |-> last, cancel |-> last,
                             overwritten |-> (d.overwritten \cup (asking \ refusing) \cup Dialogs!Replaced(d)) \ {last}]
      BY <1>1, <1>5 DEF Dialogs!confirmAutosave
    <2>2. Dialogs!Replaced(d) \subseteq Dialogs!Forms
          /\ \A f \in Dialogs!Forms : busy[f] = "asking" /\ d.confirm = f => f \in Dialogs!Replaced(d)
      BY DEF Dialogs!Replaced, Dialogs!Asking, Flushing
    <2>3. dialogShown' \in Modals
      BY <1>2, <2>1, <2>2 DEF Modals, Flushing
    <2>4. \A f \in Dialogs!Forms : writing'[f] = "asking" =>
              OwnQuestion(dialogShown', f) \/ f \in dialogShown'.overwritten
      BY <1>2, <1>3, <2>1, <2>2 DEF Answerable, OwnQuestion, Flushing
    <2>5. QED
      BY <1>2, <1>3, <1>5, <2>1, <2>3, <2>4 DEF Answerable, Flushed
  <1>6. QED
    BY <1>4, <1>5

\* A flow flushes its forms and waits for what they write.
Began(route, preparing, d) ==
    /\ Flushed(unsaved, writing, preparing, d) /\ (Dialogs!AllSaved => Dialogs!AllSaved')
    /\ waits' \in [Dialogs!Flows -> [Dialogs!Forms -> 0..3]]
    /\ waits[route] = Dialogs!Idle /\ waits'[route] # Dialogs!Idle
    /\ route # "prepare" => waits'["prepare"] = waits["prepare"]

LEMMA Beginning ==
    ASSUME DialogsInv, NEW route \in Dialogs!Flows, NEW preparing \in BOOLEAN, NEW d \in Modals,
           Answerable(writing, d), Dialogs!Begin(route, preparing, d)
    PROVE  Began(route, preparing, d)
  <1> DEFINE failing == [f \in Dialogs!Forms |-> refusedWrites[f] /\ f \notin Dialogs!FormsOf(route)]
  <1>1. /\ Dialogs!FormsOf(route) \subseteq Dialogs!Forms
        /\ unsaved \in Pendings /\ writing \in Workings
        /\ failing \in [Dialogs!Forms -> BOOLEAN]
    BY DEF DialogsInv, Dialogs!TypeOK, Dialogs!FormsOf, Dialogs!Forms, Pendings, Workings
  <1>2. Dialogs!Drain(Dialogs!FormsOf(route), unsaved, writing, failing, preparing, d)
    BY DEF Dialogs!Begin, Dialogs!Flush
  <1> HIDE DEF failing
  <1>3. Flushing(Dialogs!FormsOf(route), unsaved, writing, failing, d)
    BY <1>1 DEF Flushing
  <1>4. Flushed(unsaved, writing, preparing, d)
    BY <1>2, <1>3, Draining
  <1>5. Dialogs!AllSaved => Dialogs!AllSaved'
    BY <1>4 DEF Dialogs!AllSaved, Dialogs!dirty, Flushed
  <1> DEFINE counts == [f \in Dialogs!Forms |-> IF f \in Dialogs!FormsOf(route) /\ writing'[f] # "no" THEN 1 ELSE 0]
  <1>6. waits' = [waits EXCEPT ![route] = counts] /\ waits[route] = Dialogs!Idle
    BY DEF Dialogs!Begin
  <1>7. counts \in [Dialogs!Forms -> 0..3] /\ counts["settings"] # 3 /\ "settings" \in Dialogs!Forms
        /\ Dialogs!Idle["settings"] = 3 /\ waits \in [Dialogs!Flows -> [Dialogs!Forms -> 0..3]]
    BY DEF Dialogs!Forms, Dialogs!Idle, DialogsInv, Dialogs!TypeOK
  <1> HIDE DEF counts
  <1>8. QED
    BY <1>4, <1>5, <1>6, <1>7 DEF Dialogs!Flows, Began

\* The dialog is closed, which refuses the form that asks, or shows something else.
LEMMA ClosingKeeps ==
    ASSUME DialogsInv, Dialogs!CloseModal \/ Dialogs!ShowModal
    PROVE  DialogsInv'
  <1>1. CASE Dialogs!CloseModal
    <2>1. /\ dialogShown.modal # "none" /\ dialogShown \in Modals /\ writing \in Workings
          /\ writing' = Dialogs!Answered(dialogShown.cancel)
          /\ dialogShown' = [modal |-> "none", confirm |-> dialogShown.confirm, cancel |-> Nothing,
                             overwritten |-> dialogShown.overwritten \ {dialogShown.cancel}]
          /\ UNCHANGED <<unsaved, refusedWrites, drawer, waits, choosing, Dialogs!updateVars, Dialogs!countVars>>
      BY <1>1 DEF Dialogs!CloseModal, Dialogs!Refused, Dialogs!Cleared, DialogsInv, Dialogs!TypeOK, Modals, Workings
    <2>2. /\ writing' \in Workings /\ dialogShown' \in Modals
          /\ dialogShown'.modal = "none" /\ dialogShown'.cancel = Nothing
          /\ dialogShown'.overwritten = dialogShown.overwritten \ {dialogShown.cancel}
      BY <2>1 DEF Dialogs!Answered, Workings, Modals, Dialogs!Asking, Dialogs!Forms
    <2>8. ASSUME NEW f \in Dialogs!Forms
          PROVE  /\ writing'[f] = "asking" => writing[f] = "asking" /\ f # dialogShown.cancel
                 /\ writing[f] = "no" => writing'[f] = "no"
      BY <2>1, NothingAssumption DEF Dialogs!Answered, Workings, Dialogs!Asking
    <2>3. Answerable(writing', dialogShown')
      BY <2>2, <2>8 DEF Answerable, DialogsInv, OwnQuestion
    <2>9. unsaved' = unsaved /\ UNCHANGED Dialogs!updateVars
      BY <2>1
    <2>4. Dialogs!AllSaved => Dialogs!AllSaved'
      BY <2>8, <2>9 DEF Dialogs!AllSaved, Dialogs!dirty
    <2>5. Dialogs!TypeOK'
      BY <2>1, <2>2 DEF Dialogs!TypeOK, DialogsInv, Dialogs!updateVars, Dialogs!countVars, Workings, Modals
    <2>6. Dialogs!SavingAsksNobody'
      BY <2>2, <2>8, <2>9 DEF Dialogs!SavingAsksNobody, DialogsInv, Dialogs!updateVars, Dialogs!Asking
    <2>7. QED
      BY <2>1, <2>3, <2>4, <2>5, <2>6
         DEF DialogsInv, Dialogs!PreparedIsSaved, Dialogs!InertForUpdate, Dialogs!Inert, Dialogs!updateVars
  <1>2. CASE Dialogs!ShowModal
    <2>1. /\ dialogShown.modal = "none" /\ dialogShown \in Modals /\ ~preparingUpdate
          /\ dialogShown' = [modal |-> "plain", confirm |-> dialogShown.confirm, cancel |-> dialogShown.cancel,
                             overwritten |-> dialogShown.overwritten]
          /\ UNCHANGED <<unsaved, writing, refusedWrites, drawer, waits, choosing, Dialogs!updateVars, typed, lostWrites>>
          /\ dialogs < MaxDialogs /\ dialogs' = dialogs + 1
      BY <1>2 DEF Dialogs!ShowModal, Dialogs!Clickable, Dialogs!Inert, Dialogs!Act, Dialogs!formVars, DialogsInv,
                  Dialogs!TypeOK, Modals
    <2>2. dialogShown' \in Modals
      BY <2>1 DEF Modals
    <2>3. Dialogs!TypeOK'
      BY <2>1, <2>2, BoundsAssumption DEF Dialogs!TypeOK, DialogsInv, Dialogs!updateVars, Modals
    <2>4. Answerable(writing', dialogShown')
      BY <2>1 DEF Answerable, DialogsInv, OwnQuestion
    <2>5. QED
      BY <2>1, <2>3, <2>4
         DEF DialogsInv, Dialogs!PreparedIsSaved, Dialogs!InertForUpdate, Dialogs!Inert, Dialogs!updateVars,
             Dialogs!SavingAsksNobody, Dialogs!Asking, Dialogs!AllSaved, Dialogs!dirty
  <1>3. QED
    BY <1>1, <1>2

\* No update is asked for or ended, and what is counted stays within its bounds.
Calm ==
    /\ waits' \in [Dialogs!Flows -> [Dialogs!Forms -> 0..3]]
    /\ (waits'["prepare"] = Dialogs!Idle <=> waits["prepare"] = Dialogs!Idle)
    /\ drawer' \in BOOLEAN /\ choosing' \in BOOLEAN
    /\ UNCHANGED <<preparingUpdate, updateExitPrepared, tooLate>>
    /\ (update' = update \/ (update # "asked" /\ update' \in {"idle", "checking", "install"}))
    /\ typed' \in 0..MaxEdits /\ lostWrites' \in 0..MaxFailures /\ dialogs' \in 0..MaxDialogs

\* What a change of the forms and of the dialog must leave, when no update is asked for.
LEMMA Staying ==
    ASSUME DialogsInv, NEW preparing \in BOOLEAN, preparingUpdate => preparing = TRUE,
           NEW unwritten, NEW busy, NEW d,
           Flushed(unwritten, busy, preparing, d),
           preparing = TRUE => d = dialogShown,
           \A f \in Dialogs!Forms : busy[f] = "asking" => writing[f] = "asking",
           Dialogs!AllSaved /\ updateExitPrepared =>
               \A f \in Dialogs!Forms : unwritten[f] = "none" /\ busy[f] = "no",
           Calm
    PROVE  DialogsInv'
  <1>1. Dialogs!TypeOK'
    BY DEF Calm, DialogsInv, Dialogs!TypeOK, Flushed, Pendings, Workings, Modals
  <1>2. Dialogs!SavingAsksNobody'
    BY DEF Calm, DialogsInv, Dialogs!SavingAsksNobody, Flushed, Dialogs!Asking
  <1>3. Dialogs!AllSaved /\ updateExitPrepared => Dialogs!AllSaved'
    BY DEF Dialogs!AllSaved, Dialogs!dirty, Flushed
  <1>4. QED
    BY <1>1, <1>2, <1>3 DEF Calm, DialogsInv, Dialogs!PreparedIsSaved, Dialogs!InertForUpdate, Dialogs!Inert, Flushed

\* A form is edited or written again, or a batch of it ends.
LEMMA FormsKeep ==
    ASSUME DialogsInv, NEW form \in Dialogs!Forms,
           \/ Dialogs!Retry(form) \/ Dialogs!BatchEnds(form)
           \/ \E kind \in {"edit", "question"} : Dialogs!Edit(form, kind)
    PROVE  DialogsInv'
  <1>1. CASE Dialogs!Retry(form)
    <2> DEFINE failing == [f \in Dialogs!Forms |-> refusedWrites[f] /\ f \notin {form}]
    <2>1. /\ Dialogs!Drain({form}, unsaved, writing, failing, FALSE, dialogShown)
          /\ ~preparingUpdate /\ ~updateExitPrepared
          /\ UNCHANGED <<drawer, waits, choosing, Dialogs!updateVars, Dialogs!countVars>>
      BY <1>1 DEF Dialogs!Retry, Dialogs!Flush, Dialogs!Clickable, Dialogs!Inert
    <2>2. failing \in [Dialogs!Forms -> BOOLEAN]
      BY DEF DialogsInv, Dialogs!TypeOK
    <2> HIDE DEF failing
    <2>3. Flushing({form}, unsaved, writing, failing, dialogShown)
      BY <2>2 DEF Flushing, DialogsInv, Dialogs!TypeOK, Pendings, Workings, Modals
    <2>4. Flushed(unsaved, writing, FALSE, dialogShown)
      BY <2>1, <2>3, Draining
    <2>5. Calm
      BY <2>1 DEF Calm, DialogsInv, Dialogs!TypeOK, Dialogs!countVars, Dialogs!updateVars
    <2>6. QED
      BY <2>1, <2>4, <2>5, Staying
  <1>2. ASSUME NEW kind \in {"edit", "question"}, Dialogs!Edit(form, kind) PROVE DialogsInv'
    <2> DEFINE after == [unsaved EXCEPT ![form] = IF @ = "question" THEN @ ELSE kind]
    <2>1. /\ Dialogs!Drain({form}, after, writing, refusedWrites, FALSE, dialogShown)
          /\ ~preparingUpdate /\ ~updateExitPrepared
          /\ typed < MaxEdits /\ typed' = typed + 1
          /\ UNCHANGED <<drawer, waits, choosing, Dialogs!updateVars, lostWrites, dialogs>>
      BY <1>2 DEF Dialogs!Edit, Dialogs!Clickable, Dialogs!Inert
    <2>2. after \in Pendings
      BY DEF DialogsInv, Dialogs!TypeOK, Pendings
    <2> HIDE DEF after
    <2>3. Flushing({form}, after, writing, refusedWrites, dialogShown)
      BY <2>2 DEF Flushing, DialogsInv, Dialogs!TypeOK, Workings, Modals
    <2>4. Flushed(after, writing, FALSE, dialogShown)
      BY <2>1, <2>3, Draining
    <2>5. Calm
      BY <2>1, BoundsAssumption DEF Calm, DialogsInv, Dialogs!TypeOK, Dialogs!updateVars
    <2>6. QED
      BY <2>1, <2>4, <2>5, Staying
  <1>3. CASE Dialogs!BatchEnds(form)
    <2>1. /\ writing[form] \in {"writing", "asked"} /\ waits' = Dialogs!AfterBatch(form)
          /\ UNCHANGED <<drawer, choosing, Dialogs!updateVars, typed, dialogs>>
      BY <1>3 DEF Dialogs!BatchEnds
    <2>2. /\ waits' \in [Dialogs!Flows -> [Dialogs!Forms -> 0..3]]
          /\ waits'["prepare"] = Dialogs!Idle <=> waits["prepare"] = Dialogs!Idle
      <3>1. \A route \in Dialogs!Flows : waits[route] = Dialogs!Idle => waits'[route] = Dialogs!Idle
        BY <2>1 DEF Dialogs!AfterBatch
      <3>2. ASSUME NEW route \in Dialogs!Flows, waits[route] # Dialogs!Idle
            PROVE  waits'[route] \in [Dialogs!Forms -> 0..3] /\ waits'[route] # Dialogs!Idle
        <4>1. waits'[route] = [waits[route] EXCEPT ![form] = IF @ = 1 /\ writing'[form] # "no" THEN 2 ELSE 0]
          BY <2>1, <3>2 DEF Dialogs!AfterBatch
        <4>2. waits[route] \in [Dialogs!Forms -> 0..3] /\ Dialogs!Idle[form] = 3
          BY DEF DialogsInv, Dialogs!TypeOK, Dialogs!Idle
        <4>3. waits'[route][form] \in {0, 2}
          BY <4>1, <4>2
        <4>4. QED
          BY <4>1, <4>2, <4>3
      <3>3. Dialogs!Idle \in [Dialogs!Forms -> 0..3] /\ "prepare" \in Dialogs!Flows
        BY DEF Dialogs!Idle, Dialogs!Flows
      <3>4. DOMAIN waits' = Dialogs!Flows /\ waits' = [route \in Dialogs!Flows |-> waits'[route]]
        BY <2>1 DEF Dialogs!AfterBatch
      <3>5. QED
        BY <3>1, <3>2, <3>3, <3>4
    <2> DEFINE after == [writing EXCEPT ![form] = "no"]
    <2>3. /\ after \in Workings /\ \A f \in Dialogs!Forms : after[f] = "asking" => writing[f] = "asking"
          /\ Answerable(after, dialogShown) /\ ~Dialogs!AllSaved
      BY <2>1 DEF DialogsInv, Dialogs!TypeOK, Workings, Answerable, Dialogs!AllSaved, Dialogs!dirty
    <2>4. CASE Dialogs!Drain({form}, unsaved, after, refusedWrites, preparingUpdate, dialogShown) /\ UNCHANGED lostWrites
      <3> HIDE DEF after
      <3>1. Flushing({form}, unsaved, after, refusedWrites, dialogShown)
        BY <2>3 DEF Flushing, DialogsInv, Dialogs!TypeOK, Pendings, Modals
      <3>2. Flushed(unsaved, after, preparingUpdate, dialogShown)
        BY <2>4, <3>1, Draining DEF DialogsInv, Dialogs!TypeOK
      <3>3. Calm /\ preparingUpdate \in BOOLEAN
        BY <2>1, <2>2, <2>4 DEF Calm, DialogsInv, Dialogs!TypeOK, Dialogs!updateVars
      <3>4. QED
        BY <2>3, <3>2, <3>3, Staying
    <2>5. ASSUME lostWrites < MaxFailures /\ lostWrites' = lostWrites + 1,
                 NEW kind \in {"edit", "question"},
                 unsaved' = [unsaved EXCEPT ![form] = IF @ = "none" THEN kind ELSE "question"],
                 writing' = after /\ refusedWrites' = [refusedWrites EXCEPT ![form] = TRUE], UNCHANGED dialogShown
          PROVE  DialogsInv'
      <3> DEFINE unwritten == [unsaved EXCEPT ![form] = IF @ = "none" THEN kind ELSE "question"]
      <3>1. unwritten \in Pendings /\ refusedWrites' \in [Dialogs!Forms -> BOOLEAN] /\ unsaved' = unwritten
        BY <2>5 DEF DialogsInv, Dialogs!TypeOK, Pendings
      <3> HIDE DEF unwritten, after
      <3>2. Flushed(unwritten, after, preparingUpdate, dialogShown)
        BY <2>3, <2>5, <3>1 DEF Flushed, DialogsInv, Dialogs!TypeOK, Modals
      <3>3. Calm /\ preparingUpdate \in BOOLEAN
        BY <2>1, <2>2, <2>5, BoundsAssumption DEF Calm, DialogsInv, Dialogs!TypeOK, Dialogs!updateVars
      <3>4. QED
        BY <2>3, <3>2, <3>3, Staying
    <2>6. QED
      BY <1>3, <2>4, <2>5 DEF Dialogs!BatchEnds
  <1>4. QED
    BY <1>1, <1>2, <1>3

\* Another dialog is shown, or none: it keeps the questions it replaces in mind.
LEMMA Showing ==
    ASSUME DialogsInv, NEW fn \in {"navigate", "drawer", "clear", "update"},
           dialogShown' \in {dialogShown, Dialogs!confirmModal(dialogShown, fn)},
           UNCHANGED Dialogs!formVars, Calm
    PROVE  DialogsInv'
  <1>1. /\ dialogShown' \in Modals /\ Answerable(writing, dialogShown')
        /\ dialogShown.overwritten \subseteq dialogShown'.overwritten
    <2>1. CASE dialogShown' = dialogShown
      BY <2>1 DEF DialogsInv, Dialogs!TypeOK, Modals
    <2>2. CASE dialogShown' = Dialogs!confirmModal(dialogShown, fn)
      <3>1. dialogShown' = [modal |-> "confirm", confirm |-> fn, cancel |-> dialogShown.cancel,
                            overwritten |-> dialogShown.overwritten \cup Dialogs!Replaced(dialogShown)]
            /\ dialogShown \in Modals
        BY <2>2 DEF Dialogs!confirmModal, DialogsInv, Dialogs!TypeOK, Modals
      <3>2. Dialogs!Replaced(dialogShown) \subseteq Dialogs!Forms
            /\ \A f \in Dialogs!Forms :
                  writing[f] = "asking" /\ dialogShown.confirm = f => f \in Dialogs!Replaced(dialogShown)
        BY DEF Dialogs!Replaced, Dialogs!Asking
      <3>3. dialogShown' \in Modals
        BY <3>1, <3>2 DEF Modals
      <3>4. QED
        BY <3>1, <3>2, <3>3 DEF Answerable, DialogsInv, OwnQuestion
    <2>3. QED
      BY <2>1, <2>2
  <1>2. Dialogs!TypeOK'
    BY <1>1 DEF Calm, Dialogs!TypeOK, DialogsInv, Dialogs!formVars, Modals
  <1>3. Dialogs!SavingAsksNobody'
    BY <1>1 DEF Calm, DialogsInv, Dialogs!SavingAsksNobody, Dialogs!Asking, Dialogs!formVars
  <1>4. Dialogs!AllSaved => Dialogs!AllSaved'
    BY DEF Dialogs!AllSaved, Dialogs!dirty, Dialogs!formVars
  <1>5. Answerable(writing', dialogShown')
    BY <1>1 DEF Dialogs!formVars
  <1>6. QED
    BY <1>2, <1>3, <1>4, <1>5 DEF Calm, DialogsInv, Dialogs!PreparedIsSaved, Dialogs!InertForUpdate, Dialogs!Inert

LEMMA Settling ==
    ASSUME DialogsInv, ~preparingUpdate, ~updateExitPrepared, NEW d, Flushed(unsaved, writing, FALSE, d), Calm
    PROVE  DialogsInv'
  BY Staying

\* The confirm button.
LEMMA ConfirmDialogKeeps ==
    ASSUME DialogsInv, Dialogs!Confirm
    PROVE  DialogsInv'
  <1> DEFINE fn == dialogShown.confirm
             closed == Dialogs!Cleared(dialogShown)
             d == [closed EXCEPT !.confirm = Nothing, !.overwritten = @ \ {fn}]
  <1>1. /\ ~preparingUpdate /\ ~updateExitPrepared /\ dialogShown \in Modals
        /\ UNCHANGED <<choosing, preparingUpdate, updateExitPrepared, tooLate, typed, lostWrites, dialogs>>
        /\ \/ /\ fn \in Dialogs!Forms /\ writing' = Dialogs!Answered(fn) /\ dialogShown' = d
              /\ UNCHANGED <<unsaved, refusedWrites, drawer, waits, update>>
           \/ /\ fn \in {"navigate", "drawer"} /\ Dialogs!Discard(Dialogs!FormsOf(fn)) /\ drawer' = FALSE
              /\ dialogShown' = d /\ UNCHANGED <<writing, waits, update>>
           \/ fn = "clear" /\ Dialogs!Begin("replace", FALSE, d) /\ UNCHANGED <<drawer, update>>
           \/ /\ fn = "update" /\ dialogShown' = d /\ update' \in {update, "install"}
              /\ (update' = update \/ update # "asked") /\ UNCHANGED <<Dialogs!formVars, drawer, waits>>
    BY DEF Dialogs!Confirm, Dialogs!Inert, Dialogs!countVars, DialogsInv, Dialogs!TypeOK, Modals
  <1>0. closed \in Modals /\ closed.modal = "none" /\ closed.cancel = Nothing
        /\ closed.overwritten = dialogShown.overwritten
    BY <1>1 DEF Dialogs!Cleared, Modals
  <1> HIDE DEF closed
  <1>2. /\ d \in Modals /\ d.modal = "none" /\ d.cancel = Nothing /\ d.overwritten = dialogShown.overwritten \ {fn}
        /\ Nothing \notin Dialogs!Forms
    BY <1>0, NothingAssumption DEF Modals
  <1> HIDE DEF d
  <1>3. /\ typed' \in 0..MaxEdits /\ lostWrites' \in 0..MaxFailures /\ dialogs' \in 0..MaxDialogs
        /\ choosing' \in BOOLEAN
        /\ drawer \in BOOLEAN /\ waits \in [Dialogs!Flows -> [Dialogs!Forms -> 0..3]]
        /\ unsaved \in Pendings /\ writing \in Workings /\ refusedWrites \in [Dialogs!Forms -> BOOLEAN]
    BY <1>1 DEF DialogsInv, Dialogs!TypeOK, Pendings, Workings
  \* closing the question of a form answers it; closing any other one answers none
  <1>4. ASSUME NEW busy, \A f \in Dialogs!Forms : busy[f] = "asking" => writing[f] = "asking" /\ f # fn
        PROVE  Answerable(busy, d)
    BY <1>2, <1>4 DEF DialogsInv, Answerable, OwnQuestion
  <1>6. CASE /\ fn \in Dialogs!Forms /\ writing' = Dialogs!Answered(fn) /\ dialogShown' = d
             /\ UNCHANGED <<unsaved, refusedWrites, drawer, waits, update>>
    <2> HIDE DEF fn
    <2>1. writing' \in Workings
      BY <1>3, <1>6 DEF Dialogs!Answered, Workings
    <2>2. \A f \in Dialogs!Forms : writing'[f] = "asking" => writing[f] = "asking" /\ f # fn
      BY <1>2, <1>3, <1>6 DEF Dialogs!Answered, Workings, Dialogs!Asking
    <2>6. \A f \in Dialogs!Forms : writing[f] = "no" => writing'[f] = "no"
      BY <1>2, <1>3, <1>6 DEF Dialogs!Answered, Workings, Dialogs!Asking
    <2>3. Flushed(unsaved, writing, FALSE, dialogShown)
      <3>1. Answerable(writing', d)
        BY <1>4, <2>2
      <3>2. unsaved' = unsaved /\ refusedWrites' = refusedWrites /\ dialogShown' = d
        BY <1>6
      <3>3. QED
        BY <1>2, <1>3, <2>1, <2>6, <3>1, <3>2 DEF Flushed
    <2>4. Calm
      BY <1>1, <1>3, <1>6 DEF Calm
    <2>5. QED
      BY <1>1, <2>3, <2>4, Settling
  <1>7. CASE /\ fn \in {"navigate", "drawer"} /\ Dialogs!Discard(Dialogs!FormsOf(fn)) /\ drawer' = FALSE
             /\ dialogShown' = d /\ UNCHANGED <<writing, waits, update>>
    <2>1. fn \notin Dialogs!Forms
      BY <1>7 DEF Dialogs!Forms
    <2> HIDE DEF fn
    <2>2. /\ unsaved' \in Pendings /\ refusedWrites' \in [Dialogs!Forms -> BOOLEAN]
          /\ \A f \in Dialogs!Forms : unsaved[f] = "none" => unsaved'[f] = "none"
      BY <1>3, <1>7 DEF Dialogs!Discard, Pendings
    <2>3. Answerable(writing', d)
      BY <1>4, <1>7, <2>1
    <2>4. Flushed(unsaved, writing, FALSE, dialogShown)
      BY <1>2, <1>3, <1>7, <2>2, <2>3 DEF Flushed
    <2>5. Calm
      BY <1>1, <1>3, <1>7 DEF Calm
    <2>6. QED
      BY <1>1, <2>4, <2>5, Settling
  <1>8. CASE fn = "clear" /\ Dialogs!Begin("replace", FALSE, d) /\ UNCHANGED <<drawer, update>>
    <2>1. fn \notin Dialogs!Forms /\ "replace" \in Dialogs!Flows
      BY <1>8 DEF Dialogs!Forms, Dialogs!Flows
    <2> HIDE DEF fn
    <2>2. Answerable(writing, d)
      BY <1>4, <2>1
    <2>3. Began("replace", FALSE, d)
      BY <1>2, <1>8, <2>1, <2>2, Beginning
    <2>4. Calm /\ Flushed(unsaved, writing, FALSE, d)
      BY <1>1, <1>3, <1>8, <2>3 DEF Calm, Began
    <2>5. QED
      BY <1>1, <2>4, Settling
  <1>9. CASE /\ fn = "update" /\ dialogShown' = d /\ update' \in {update, "install"}
             /\ (update' = update \/ update # "asked") /\ UNCHANGED <<Dialogs!formVars, drawer, waits>>
    <2>1. fn \notin Dialogs!Forms
      BY <1>9 DEF Dialogs!Forms
    <2> HIDE DEF fn
    <2>2. Answerable(writing', d) /\ UNCHANGED <<unsaved, writing, refusedWrites, drawer, waits>>
      BY <1>4, <1>9, <2>1 DEF Dialogs!formVars
    <2>3. Flushed(unsaved, writing, FALSE, dialogShown)
      BY <1>2, <1>3, <1>9, <2>2 DEF Flushed
    <2>4. Calm
      BY <1>1, <1>3, <1>9, <2>2 DEF Calm
    <2>5. QED
      BY <1>1, <2>3, <2>4, Settling
  <1>10. QED
    BY <1>1, <1>6, <1>7, <1>8, <1>9

\* The flows, beside those of an update.
LEMMA FlowsKeep ==
    ASSUME DialogsInv,
           \/ Dialogs!OpenDrawer \/ \E route \in {"navigate", "drawer", "clear"} : Dialogs!Start(route)
           \/ \E route \in {"navigate", "drawer"} : Dialogs!Leave(route)
           \/ Dialogs!AskClear \/ Dialogs!Chosen \/ Dialogs!Replace \/ Dialogs!CheckUpdates \/ Dialogs!Checked
    PROVE  DialogsInv'
  <1>1. /\ typed \in 0..MaxEdits /\ lostWrites \in 0..MaxFailures /\ dialogs \in 0..MaxDialogs
        /\ {drawer, choosing} \subseteq BOOLEAN /\ waits \in [Dialogs!Flows -> [Dialogs!Forms -> 0..3]]
        /\ preparingUpdate \in BOOLEAN /\ dialogShown \in Modals /\ update \in {"idle", "checking", "install", "asked"}
    BY DEF DialogsInv, Dialogs!TypeOK, Modals
  <1>2. ASSUME Dialogs!Act PROVE dialogs' \in 0..MaxDialogs
    BY <1>1, <1>2, BoundsAssumption DEF Dialogs!Act
  <1>3. ASSUME NEW route \in Dialogs!Flows \ {"prepare"}, Dialogs!Ended(route)
        PROVE  waits' \in [Dialogs!Flows -> [Dialogs!Forms -> 0..3]] /\ waits'["prepare"] = waits["prepare"]
    <2>1. Dialogs!Idle \in [Dialogs!Forms -> 0..3]
      BY DEF Dialogs!Idle
    <2>2. QED
      BY <1>1, <1>3, <2>1 DEF Dialogs!Ended
  <1>4. CASE Dialogs!OpenDrawer
    <2>1. Calm
      BY <1>1, <1>2, <1>4 DEF Dialogs!OpenDrawer, Dialogs!updateVars, Calm
    <2>2. UNCHANGED Dialogs!formVars /\ dialogShown' \in {dialogShown, Dialogs!confirmModal(dialogShown, "clear")}
      BY <1>4 DEF Dialogs!OpenDrawer
    <2>3. QED
      BY <2>1, <2>2, Showing
  <1>5. ASSUME NEW route \in {"navigate", "drawer", "clear"}, Dialogs!Start(route) PROVE DialogsInv'
    <2>1. /\ Dialogs!Act /\ Dialogs!Begin(route, preparingUpdate, dialogShown)
          /\ UNCHANGED <<drawer, choosing, Dialogs!updateVars, typed, lostWrites>>
          /\ route \in Dialogs!Flows /\ route # "prepare"
      BY <1>5 DEF Dialogs!Start, Dialogs!Flows
    <2>2. Began(route, preparingUpdate, dialogShown)
      BY <1>1, <2>1, Beginning DEF DialogsInv
    <2>3. Dialogs!AllSaved => \A f \in Dialogs!Forms : unsaved[f] = "none" /\ writing[f] = "no"
      BY DEF Dialogs!AllSaved, Dialogs!dirty
    <2>4. Calm /\ Flushed(unsaved, writing, preparingUpdate, dialogShown)
      BY <1>1, <1>2, <2>1, <2>2 DEF Began, Dialogs!updateVars, Calm
    <2>5. QED
      BY <1>1, <2>3, <2>4, Staying
  <1>6. ASSUME NEW route \in {"navigate", "drawer"}, Dialogs!Leave(route) PROVE DialogsInv'
    <2>1. route \in Dialogs!Flows \ {"prepare"} /\ Dialogs!Ended(route)
      BY <1>6 DEF Dialogs!Leave, Dialogs!Flows
    <2>2. waits' \in [Dialogs!Flows -> [Dialogs!Forms -> 0..3]] /\ waits'["prepare"] = waits["prepare"]
      BY <1>3, <2>1
    <2>3. Calm
      BY <1>1, <1>6, <2>2 DEF Dialogs!Leave, Dialogs!updateVars, Dialogs!countVars, Calm
    <2>4. UNCHANGED Dialogs!formVars /\ dialogShown' \in {dialogShown, Dialogs!confirmModal(dialogShown, route)}
      BY <1>6 DEF Dialogs!Leave
    <2>5. QED
      BY <2>3, <2>4, Showing
  <1>7. CASE Dialogs!AskClear
    <2>1. "clear" \in Dialogs!Flows \ {"prepare"} /\ Dialogs!Ended("clear")
      BY <1>7 DEF Dialogs!AskClear, Dialogs!Flows
    <2>2. waits' \in [Dialogs!Flows -> [Dialogs!Forms -> 0..3]] /\ waits'["prepare"] = waits["prepare"]
      BY <1>3, <2>1
    <2>3. Calm
      BY <1>1, <1>7, <2>2 DEF Dialogs!AskClear, Dialogs!updateVars, Dialogs!countVars, Calm
    <2>4. UNCHANGED Dialogs!formVars /\ dialogShown' \in {dialogShown, Dialogs!confirmModal(dialogShown, "clear")}
      BY <1>7 DEF Dialogs!AskClear
    <2>5. QED
      BY <2>3, <2>4, Showing
  <1>8. CASE Dialogs!Chosen
    <2>1. Calm
      BY <1>1, <1>8 DEF Dialogs!Chosen, Dialogs!updateVars, Dialogs!countVars, Calm
    <2>2. UNCHANGED Dialogs!formVars /\ dialogShown' \in {dialogShown, Dialogs!confirmModal(dialogShown, "clear")}
      BY <1>8 DEF Dialogs!Chosen
    <2>3. QED
      BY <2>1, <2>2, Showing
  <1>9. CASE Dialogs!Replace
    <2>1. "replace" \in Dialogs!Flows \ {"prepare"} /\ Dialogs!Ended("replace")
      BY <1>9 DEF Dialogs!Replace, Dialogs!Flows
    <2>2. waits' \in [Dialogs!Flows -> [Dialogs!Forms -> 0..3]] /\ waits'["prepare"] = waits["prepare"]
      BY <1>3, <2>1
    <2>3. Calm
      BY <1>1, <1>9, <2>2 DEF Dialogs!Replace, Dialogs!updateVars, Dialogs!countVars, Calm
    <2>4. UNCHANGED Dialogs!formVars /\ dialogShown' \in {dialogShown, Dialogs!confirmModal(dialogShown, "clear")}
      BY <1>9 DEF Dialogs!Replace
    <2>5. QED
      BY <2>3, <2>4, Showing
  <1>10. CASE Dialogs!CheckUpdates
    <2>1. Calm
      BY <1>1, <1>2, <1>10 DEF Dialogs!CheckUpdates, Calm
    <2>2. UNCHANGED Dialogs!formVars /\ dialogShown' \in {dialogShown, Dialogs!confirmModal(dialogShown, "clear")}
      BY <1>10 DEF Dialogs!CheckUpdates
    <2>3. QED
      BY <2>1, <2>2, Showing
  <1>11. CASE Dialogs!Checked
    <2>1. Calm
      BY <1>1, <1>11 DEF Dialogs!Checked, Dialogs!countVars, Calm
    <2>2. UNCHANGED Dialogs!formVars /\ dialogShown' \in {dialogShown, Dialogs!confirmModal(dialogShown, "update")}
      BY <1>11 DEF Dialogs!Checked
    <2>3. QED
      BY <2>1, <2>2, Showing
  <1>12. QED
    BY <1>4, <1>5, <1>6, <1>7, <1>8, <1>9, <1>10, <1>11

\* An update: the page saves its forms, answers, and the host goes on or gives up.
LEMMA UpdateKeeps ==
    ASSUME DialogsInv, Dialogs!PrepareUpdate \/ Dialogs!Prepared \/ Dialogs!HostGivesUp
    PROVE  DialogsInv'
  <1>1. CASE Dialogs!PrepareUpdate
    <2>1. CASE dialogShown.cancel # Nothing
      <3>1. Calm /\ UNCHANGED Dialogs!formVars /\ dialogShown' = dialogShown
        BY <1>1, <2>1 DEF Dialogs!PrepareUpdate, DialogsInv, Dialogs!TypeOK, Dialogs!countVars, Calm
      <3>2. QED
        BY <3>1, Showing
    <2>2. CASE dialogShown.cancel = Nothing
      <3>1. /\ update = "install" /\ waits["prepare"] = Dialogs!Idle /\ update' = "asked"
            /\ preparingUpdate' = TRUE /\ tooLate' = FALSE /\ Dialogs!Begin("prepare", TRUE, dialogShown)
            /\ UNCHANGED <<drawer, choosing, updateExitPrepared, Dialogs!countVars>>
        BY <1>1, <2>2 DEF Dialogs!PrepareUpdate
      <3>2. Began("prepare", TRUE, dialogShown)
        BY <3>1, Beginning DEF DialogsInv, Dialogs!TypeOK, Modals, Dialogs!Flows
      <3>3. Dialogs!TypeOK'
        BY <3>1, <3>2 DEF Began, Flushed, Pendings, Workings, Modals, DialogsInv, Dialogs!TypeOK, Dialogs!countVars
      <3>4. Dialogs!SavingAsksNobody'
        BY <2>2, <3>2, NothingAssumption
           DEF Began, Flushed, Dialogs!SavingAsksNobody, DialogsInv, Answerable, OwnQuestion, Dialogs!Asking
      <3>5. QED
        BY <3>1, <3>2, <3>3, <3>4
           DEF Began, Flushed, DialogsInv, Dialogs!PreparedIsSaved, Dialogs!InertForUpdate, Dialogs!Inert
    <2>3. QED
      BY <2>1, <2>2
  <1>2. CASE Dialogs!Prepared
    <2>1. /\ waits["prepare"] = Dialogs!NoBatch /\ waits' = [waits EXCEPT !["prepare"] = Dialogs!Idle]
          /\ preparingUpdate' = FALSE /\ updateExitPrepared' = Dialogs!AllSaved
          /\ update' = IF update = "asked" /\ ~Dialogs!AllSaved THEN "idle" ELSE update
          /\ UNCHANGED <<Dialogs!formVars, dialogShown, drawer, choosing, tooLate, Dialogs!countVars>>
      BY <1>2 DEF Dialogs!Prepared, Dialogs!Flushed, Dialogs!Ended
    <2>2. Dialogs!NoBatch # Dialogs!Idle /\ Dialogs!Idle \in [Dialogs!Forms -> 0..3] /\ "prepare" \in Dialogs!Flows
      <3>1. Dialogs!NoBatch["total"] = 0 /\ Dialogs!Idle["total"] = 3
        BY DEF Dialogs!NoBatch, Dialogs!Idle, Dialogs!Forms
      <3>2. QED
        BY <3>1 DEF Dialogs!Idle, Dialogs!Flows
    <2>3. Dialogs!AllSaved \in BOOLEAN /\ Dialogs!AllSaved' = Dialogs!AllSaved
      BY <2>1 DEF Dialogs!AllSaved, Dialogs!dirty, Dialogs!formVars
    <2>4. preparingUpdate /\ (update = "asked" \/ tooLate)
      BY <2>1, <2>2 DEF DialogsInv, Dialogs!InertForUpdate, Dialogs!Inert
    <2>5. Dialogs!TypeOK'
      BY <2>1, <2>2, <2>3 DEF DialogsInv, Dialogs!TypeOK, Dialogs!formVars, Dialogs!countVars
    <2>6. Answerable(writing', dialogShown') /\ waits'["prepare"] = Dialogs!Idle
      BY <2>1, <2>2 DEF DialogsInv, Dialogs!TypeOK, Dialogs!formVars
    <2>7. Dialogs!PreparedIsSaved'
      BY <2>1, <2>3 DEF Dialogs!PreparedIsSaved
    <2>8. Dialogs!InertForUpdate'
      BY <2>1, <2>3, <2>4 DEF Dialogs!InertForUpdate, Dialogs!Inert
    <2>9. QED
      BY <2>1, <2>5, <2>6, <2>7, <2>8 DEF DialogsInv, Dialogs!SavingAsksNobody
  <1>3. CASE Dialogs!HostGivesUp
    <2>1. /\ update' = "idle" /\ updateExitPrepared' = FALSE /\ tooLate' = (waits["prepare"] # Dialogs!Idle)
          /\ UNCHANGED <<unsaved, writing, refusedWrites, dialogShown, drawer, waits, choosing, preparingUpdate,
                         typed, lostWrites, dialogs>>
      BY <1>3 DEF Dialogs!HostGivesUp, Dialogs!formVars, Dialogs!countVars
    <2>2. Dialogs!TypeOK'
      BY <2>1 DEF DialogsInv, Dialogs!TypeOK
    <2>3. Answerable(writing', dialogShown') /\ (preparingUpdate' <=> waits'["prepare"] # Dialogs!Idle)
      BY <2>1 DEF DialogsInv
    <2>4. Dialogs!SavingAsksNobody'
      BY <2>1 DEF DialogsInv, Dialogs!SavingAsksNobody, Dialogs!Asking
    <2>5. QED
      BY <2>1, <2>2, <2>3, <2>4
         DEF DialogsInv, Dialogs!PreparedIsSaved, Dialogs!InertForUpdate, Dialogs!Inert
  <1>4. QED
    BY <1>1, <1>2, <1>3

LEMMA DialogsStep ==
    ASSUME DialogsInv, Dialogs!Next \/ UNCHANGED dialogVars
    PROVE  DialogsInv'
  <1>1. CASE UNCHANGED dialogVars
    BY <1>1 DEF dialogVars, DialogsInv, Dialogs!TypeOK, Answerable, OwnQuestion, Dialogs!SavingAsksNobody, Dialogs!PreparedIsSaved,
       Dialogs!InertForUpdate, Dialogs!Inert, Dialogs!Asking, Dialogs!AllSaved, Dialogs!dirty
  <1>2. QED
    BY <1>1, ClosingKeeps, ConfirmDialogKeeps, FormsKeep, FlowsKeep, UpdateKeeps DEF Dialogs!Next

-----------------------------------------------------------------------------
(* A form without unsaved edits shows what is stored, and a promised       *)
(* pruning is done (form-autosave.js).                                     *)

\* What an input shows, unless the user refused it; days are those of the
\* settings of the page.
Excused == IF refused THEN {"retention"} ELSE {}
Holds(busy, f) == busy # Nothing /\ f \in DOMAIN busy.batch
ShownInv(shows, excused, wrong, data, batched, busy) ==
    /\ \A f \in Form!Fields : f \notin DOMAIN batched /\ f \notin wrong /\ ~Holds(busy, f) =>
          shows[f] = data[f] \/ f \in excused
    /\ \A f \in DOMAIN batched : f \notin wrong /\ (shows[f] = batched[f].value \/ f \in excused)
    /\ busy # Nothing => \A f \in DOMAIN busy.batch : f \notin DOMAIN batched /\ f \notin wrong =>
          /\ shows[f] = busy.batch[f].value \/ f \in excused
          /\ busy.step \in {"prune", "reload"} \/ (f = "retention" /\ busy.skip) =>
                shows[f] = data[f] \/ f \in excused

\* What was confirmed shortens the retention; what follows up is the retention.
UnitsIn(batch) == "unit" \in DOMAIN batch => batch["unit"].value \in Units
TasksOf(days, batch) ==
    /\ HasTask(batch, "followup") => batch["retention"].value = days
    /\ HasTask(batch, "settings") => Form!Shorter(batch["retention"].value, days)

\* A batch that is written without its retention has none, was refused, or follows up.
WritingInv(days, promise, begun, unfinished) ==
    /\ UnitsIn(begun.batch)
    /\ "retention" \notin DOMAIN begun.batch => begun.skip
    /\ begun.step = "confirm" => ~begun.skip /\ Form!Shorter(begun.batch["retention"].value, days)
    /\ begun.step = "settings" => TasksOf(days, begun.batch)
    /\ HasTask(begun.batch, "followup") => begun.batch["retention"].value = days
    /\ begun.step = "settings" /\ HasTask(begun.batch, "none") /\ begun.batch["retention"].value = days =>
          unfinished = Nothing
    /\ "retention" \in DOMAIN begun.batch /\ begun.skip /\ ~HasTask(begun.batch, "followup") => promise = Nothing
    /\ begun.step = "reload" /\ HasTask(begun.batch, "followup") => unfinished.stage = "reload"

\* The promise is the retention; until the records are pruned to it, the retention
\* is still to be written, or the database has another one.
PromiseInv(days, promise, base, pruned, batched, busy, unfinished) ==
    /\ unfinished # Nothing => unfinished.value = days
    /\ promise # Nothing => promise = days
    /\ promise # Nothing /\ Form!Shorter(promise, pruned) /\ base = days =>
          /\ unfinished # Nothing => unfinished.stage = "prune"
          /\ "retention" \in DOMAIN batched \/ (Holds(busy, "retention") /\ busy.step # "reload")

KeepsInv ==
    /\ UnitsIn(pendingFields) /\ TasksOf(settings["retention"], pendingFields)
    /\ HasTask(pendingFields, "settings") => running = Nothing /\ failure
    /\ ShownInv(inputs, Excused, errors, settings, pendingFields, running)
    /\ running # Nothing => WritingInv(settings["retention"], promised, running, followup)
    /\ PromiseInv(settings["retention"], promised, stored["retention"], kept, pendingFields, running, followup)
KInv == FInv /\ Form!TypeOK /\ errors \subseteq {"unit"} /\ KeepsInv

-----------------------------------------------------------------------------
(* A batch begins. *)

BegunFrom(batch, data, promise, begun, unfinished) ==
    /\ begun \in [batch : Form!Waiting, skip : BOOLEAN, step : Form!Steps]
    /\ DOMAIN begun.batch = DOMAIN batch /\ begun.step \in {"confirm", "settings"}
    /\ \A f \in DOMAIN batch : begun.batch[f].value = batch[f].value
    /\ "retention" \in DOMAIN batch /\ begun.skip => batch["retention"].value = data["retention"]
    /\ WritingInv(data["retention"], promise, begun, unfinished)

LEMMA BeginHolds ==
    ASSUME NEW batch, IsBatch(batch), UnitsIn(batch), NEW data, TasksOf(data["retention"], batch),
           NEW promise, NEW unfinished, unfinished # Nothing => unfinished.value = data["retention"]
    PROVE  BegunFrom(batch, data, promise, Form!Begin(batch, data, unfinished), unfinished)
  <1> DEFINE begun == Form!Begin(batch, data, unfinished)
  <1>1. CASE "retention" \notin DOMAIN batch
    <2>1. begun = [batch |-> batch, skip |-> TRUE, step |-> "settings"]
      BY <1>1 DEF Form!Begin
    <2>2. BegunFrom(batch, data, promise, [batch |-> batch, skip |-> TRUE, step |-> "settings"], unfinished)
      BY <1>1 DEF BegunFrom, WritingInv, TasksOf, HasTask, UnitsIn, IsBatch, Form!Steps
    <2>3. QED
      BY <2>1, <2>2
  <1>2. CASE "retention" \in DOMAIN batch
    <2> DEFINE item == batch["retention"]
               task == IF item.task # "none" THEN item.task
                       ELSE IF unfinished # Nothing /\ item.value = unfinished.value THEN "followup" ELSE "none"
               next == [item EXCEPT !.task = task]
               first == IF task = "none" /\ Form!Shorter(item.value, data["retention"])
                        THEN "confirm" ELSE "settings"
    <2>1. item \in Form!Entry /\ task \in Tasks /\ item.value \in Retentions
      BY <1>2, BatchEntries DEF Form!Entry, IsBatch, Tasks
    <2>2. next \in Form!Entry /\ next.task = task /\ next.value = item.value
      BY <2>1 DEF Form!Entry, Tasks
    <2>3. begun = [batch |-> Form!Put(batch, "retention", next), skip |-> task = "followup", step |-> first]
      BY <1>2 DEF Form!Begin
    <2>4. /\ task = "followup" => item.value = data["retention"]
          /\ task = "settings" => Form!Shorter(item.value, data["retention"])
          /\ task = "none" /\ item.value = data["retention"] => unfinished = Nothing
      BY <1>2, <2>1 DEF TasksOf, HasTask, Form!Entry
    <2> DEFINE after == Form!Put(batch, "retention", next)
    <2>5. /\ IsBatch(after) /\ DOMAIN after = DOMAIN batch \cup {"retention"} /\ after["retention"] = next
          /\ \A g \in DOMAIN batch \ {"retention"} : after[g] = batch[g]
      <3> HIDE DEF next, task, item
      <3> DEFINE field == "retention"
      <3>1. next.value \in Retentions /\ field \in Form!Fields
        BY <2>1, <2>2 DEF Form!Fields
      <3> HIDE DEF field
      <3>2. /\ IsBatch(Form!Put(batch, field, next)) /\ DOMAIN Form!Put(batch, field, next) = DOMAIN batch \cup {field}
            /\ Form!Put(batch, field, next)[field] = next
            /\ \A g \in DOMAIN batch \ {field} : Form!Put(batch, field, next)[g] = batch[g]
        BY <2>2, <3>1, PutType
      <3>3. QED
        BY <3>2 DEF field
    <2>6. /\ first \in {"confirm", "settings"}
          /\ first = "confirm" => task = "none" /\ Form!Shorter(item.value, data["retention"])
      OBVIOUS
    <2>7. begun.batch = after /\ begun.skip = (task = "followup") /\ begun.step = first
          /\ begun = [batch |-> after, skip |-> begun.skip, step |-> first]
      BY <2>3
    <2>8. BegunFrom(batch, data, promise, begun, unfinished)
      <3> HIDE DEF begun, after, next, task, item, first
      <3>1. /\ DOMAIN begun.batch = DOMAIN batch /\ begun.step \in {"confirm", "settings"}
            /\ \A f \in DOMAIN batch : begun.batch[f].value = batch[f].value
            /\ begun.batch["retention"] = next
        BY <1>2, <2>2, <2>5, <2>6, <2>7 DEF item
      <3>2. WritingInv(data["retention"], promise, begun, unfinished)
        BY <1>2, <2>1, <2>2, <2>4, <2>6, <2>7, <3>1 DEF WritingInv, TasksOf, HasTask, UnitsIn, Tasks
      <3>3. begun \in [batch : Form!Waiting, skip : BOOLEAN, step : Form!Steps]
        BY <2>5, <2>6, <2>7 DEF IsBatch, Form!Steps
      <3>4. QED
        BY <2>4, <2>7, <3>1, <3>2, <3>3 DEF item, BegunFrom
    <2>9. QED
      BY <2>8
  <1>3. QED
    BY <1>1, <1>2

\* drain(): what waits is shown, and the promise is not forgotten.
LEMMA DrainHolds ==
    ASSUME NEW data, NEW shows, NEW excused, NEW wrong, NEW promise, NEW base, NEW pruned,
           NEW batched, IsBatch(batched), UnitsIn(batched), TasksOf(data["retention"], batched),
           NEW busy, NEW unfinished, NEW halted \in BOOLEAN,
           ShownInv(shows, excused, wrong, data, batched, busy),
           busy # Nothing => WritingInv(data["retention"], promise, busy, unfinished),
           PromiseInv(data["retention"], promise, base, pruned, batched, busy, unfinished),
           HasTask(batched, "settings") => busy = Nothing /\ (halted \/ batched["retention"].ready),
           Form!Drain(batched, busy, halted, data, unfinished)
    PROVE  /\ UnitsIn(pendingFields') /\ TasksOf(data["retention"], pendingFields')
           /\ HasTask(pendingFields', "settings") => HasTask(batched, "settings") /\ running' = Nothing /\ halted
           /\ ShownInv(shows, excused, wrong, data, pendingFields', running')
           /\ running' # Nothing => WritingInv(data["retention"], promise, running', followup')
           /\ PromiseInv(data["retention"], promise, base, pruned, pendingFields', running', followup')
  <1> DEFINE ready == {f \in DOMAIN batched : batched[f].ready}
  <1>1. CASE busy # Nothing \/ halted \/ ready = {}
    <2>1. pendingFields' = batched /\ running' = busy /\ followup' = unfinished
      BY <1>1 DEF Form!Drain
    <2>2. HasTask(batched, "settings") => halted
      BY <1>1 DEF HasTask
    <2>3. QED
      BY <2>1, <2>2
  <1>2. CASE ~(busy # Nothing \/ halted \/ ready = {})
    <2> DEFINE rest == Form!Without(batched, ready)
               unready == DOMAIN batched \ ready
               batch == Form!Without(batched, unready)
               begun == Form!Begin(batch, data, unfinished)
    <2>1. pendingFields' = rest /\ running' = begun /\ followup' = unfinished /\ busy = Nothing
      BY <1>2 DEF Form!Drain, PromiseInv
    <2>2. ready \subseteq DOMAIN batched /\ (HasTask(batched, "settings") => "retention" \in ready)
      BY <1>2 DEF HasTask
    <2> HIDE DEF ready
    <2>3. /\ IsBatch(rest) /\ DOMAIN rest = unready
          /\ \A f \in DOMAIN batched \ ready : rest[f] = batched[f]
      BY WithoutType
    <2> DEFINE left == unready
    <2> HIDE DEF left, rest
    <2>4. /\ IsBatch(Form!Without(batched, left)) /\ DOMAIN Form!Without(batched, left) = DOMAIN batched \ left
          /\ \A f \in DOMAIN batched \ left : Form!Without(batched, left)[f] = batched[f]
      BY WithoutType
    <2>5. IsBatch(batch) /\ DOMAIN batch = ready /\ \A f \in ready : batch[f] = batched[f]
      BY <2>2, <2>4 DEF left
    <2> HIDE DEF batch
    <2>6. UnitsIn(batch) /\ TasksOf(data["retention"], batch)
      BY <2>2, <2>5 DEF UnitsIn, TasksOf, HasTask
    <2>7. BegunFrom(batch, data, promise, begun, unfinished)
      BY <2>5, <2>6, BeginHolds DEF PromiseInv
    <2> HIDE DEF begun
    <2>8. begun # Nothing
      BY <2>7, RetentionsAssumption DEF BegunFrom
    <2>9. UnitsIn(rest) /\ TasksOf(data["retention"], rest) /\ ~HasTask(rest, "settings")
      BY <2>2, <2>3 DEF UnitsIn, TasksOf, HasTask
    <2>10. ShownInv(shows, excused, wrong, data, rest, begun)
      BY <2>1, <2>2, <2>3, <2>5, <2>7, <2>8 DEF ShownInv, Holds, BegunFrom
    <2>11. PromiseInv(data["retention"], promise, base, pruned, rest, begun, unfinished)
      BY <2>1, <2>2, <2>3, <2>5, <2>7, <2>8 DEF PromiseInv, Holds, BegunFrom
    <2>12. QED
      BY <2>1, <2>7, <2>9, <2>10, <2>11 DEF BegunFrom
  <1>3. QED
    BY <1>1, <1>2

-----------------------------------------------------------------------------
(* The edits. *)

LEMMA KeepsInit == Form!Init => KInv
  <1> HAVE Form!Init
  <1>1. FInv
    BY FormInit
  <1>2. /\ IsBatch(pendingFields) /\ DOMAIN pendingFields = {} /\ running = Nothing /\ followup = Nothing
        /\ promised = Nothing /\ inputs = settings /\ errors = {}
    BY EmptyBatch DEF Form!Init
  <1>3. Form!TypeOK
    <2>1. stored \in Form!Values /\ settings = stored /\ inputs = stored
      BY DEF Form!Init
    <2>2. inputs \in [retention : Retentions, unit : Units \cup {Bad}]
      BY <2>1 DEF Form!Values
    <2>3. 0 \in 0..MaxEdits /\ 0 \in 0..MaxWriteFailures /\ 0 \in Retentions
      BY BoundsAssumption, RetentionsAssumption
    <2>4. QED
      BY <1>2, <2>1, <2>2, <2>3 DEF Form!Init, Form!TypeOK, IsBatch
  <1>4. KeepsInv
    BY <1>2 DEF KeepsInv, UnitsIn, TasksOf, HasTask, ShownInv, PromiseInv, Holds
  <1>5. QED
    BY <1>1, <1>2, <1>3, <1>4 DEF KInv

LEMMA DiscardHolds ==
    ASSUME KInv, Form!Discard
    PROVE  KeepsInv' /\ Form!TypeOK' /\ errors' \subseteq {"unit"}
  <1>1. /\ IsBatch(pendingFields') /\ DOMAIN pendingFields' = {} /\ running' = Nothing /\ followup' = Nothing
        /\ promised' = Nothing /\ inputs' = settings /\ errors' = {} /\ refused' = FALSE /\ failure' = FALSE
        /\ confirmed' = {} /\ UNCHANGED <<settings, stored, kept, edits, writeFailures>>
    BY EmptyBatch DEF Form!Discard, Form!dataVars
  <1>2. Form!TypeOK'
    BY <1>1 DEF KInv, Form!TypeOK, Form!Values, IsBatch
  <1>3. KeepsInv'
    BY <1>1 DEF KeepsInv, UnitsIn, TasksOf, HasTask, ShownInv, PromiseInv, Holds
  <1>4. QED
    BY <1>1, <1>2, <1>3

\* What drain() leaves is what the invariant asks for.
LEMMA Drained ==
    ASSUME KInv, UNCHANGED <<settings, stored, kept, promised>>, failure' \in BOOLEAN,
           NEW batched, IsBatch(batched), UnitsIn(batched), TasksOf(settings["retention"], batched),
           NEW busy, NEW unfinished, NEW halted \in BOOLEAN,
           ShownInv(inputs', Excused', errors', settings, batched, busy),
           busy # Nothing => WritingInv(settings["retention"], promised, busy, unfinished),
           PromiseInv(settings["retention"], promised, stored["retention"], kept, batched, busy, unfinished),
           HasTask(batched, "settings") =>
               busy = Nothing /\ ((halted /\ failure') \/ (~halted /\ batched["retention"].ready)),
           Form!Drain(batched, busy, halted, settings, unfinished)
    PROVE  KeepsInv'
  <1>1. /\ UnitsIn(pendingFields') /\ TasksOf(settings["retention"], pendingFields')
        /\ HasTask(pendingFields', "settings") => HasTask(batched, "settings") /\ running' = Nothing /\ halted
        /\ ShownInv(inputs', Excused', errors', settings, pendingFields', running')
        /\ running' # Nothing => WritingInv(settings["retention"], promised, running', followup')
        /\ PromiseInv(settings["retention"], promised, stored["retention"], kept, pendingFields', running', followup')
    BY DrainHolds
  <1>2. HasTask(pendingFields', "settings") => running' = Nothing /\ failure'
    BY <1>1
  <1>3. QED
    BY <1>1, <1>2 DEF KeepsInv

LEMMA EditHolds ==
    ASSUME KInv, FInv', NEW f \in Form!Fields, NEW immediate \in BOOLEAN, NEW value \in Form!Inputs(f),
           Form!Edit(f, value, immediate)
    PROVE  KeepsInv' /\ Form!TypeOK' /\ errors' \subseteq {"unit"}
  <1>1. /\ edits < MaxEdits /\ edits' = edits + 1 /\ inputs' = [inputs EXCEPT ![f] = value]
        /\ refused' = (refused /\ f # "retention")
        /\ UNCHANGED <<settings, stored, kept, failure, confirmed, promised, writeFailures>>
    BY DEF Form!Edit, Form!dataVars
  <1>2. /\ inputs \in [retention : Retentions, unit : Units \cup {Bad}] /\ refused \in BOOLEAN
        /\ errors \subseteq {"unit"} /\ KeepsInv /\ edits \in 0..MaxEdits /\ failure \in BOOLEAN
        /\ IsBatch(pendingFields)
    BY DEF KInv, Form!TypeOK, FInv, FTypes
  <1>3. /\ inputs' \in [retention : Retentions, unit : Units \cup {Bad}] /\ inputs'[f] = value
        /\ \A g \in Form!Fields \ {f} : inputs'[g] = inputs[g]
    BY <1>1, <1>2 DEF Form!Inputs, Form!Fields
  <1>4. \A g \in Excused : g # f => g \in Excused'
    BY <1>1, <1>2 DEF Excused
  <1>5. errors' \subseteq {"unit"}
    BY <1>2, RetentionsAssumption DEF Form!Edit, Form!Inputs, Form!Fields
  <1>6. Form!TypeOK'
    <2>1. edits' \in 0..MaxEdits
      BY <1>1, <1>2, BoundsAssumption
    <2>2. refused' \in BOOLEAN
      BY <1>1, <1>2
    <2>3. QED
      BY <1>1, <1>3, <1>5, <2>1, <2>2 DEF KInv, Form!TypeOK, FInv, FTypes, IsBatch, Form!Fields
  <1>7. CASE value = Bad
    <2>1. /\ errors' = errors \cup {f} /\ pendingFields' = Form!Without(pendingFields, {f})
          /\ UNCHANGED <<running, followup>>
      BY <1>7 DEF Form!Edit
    <2>2. /\ DOMAIN pendingFields' = DOMAIN pendingFields \ {f}
          /\ \A g \in DOMAIN pendingFields \ {f} : pendingFields'[g] = pendingFields[g]
      <3> DEFINE edited == {f}
      <3> HIDE DEF edited
      <3>1. /\ DOMAIN Form!Without(pendingFields, edited) = DOMAIN pendingFields \ edited
            /\ \A g \in DOMAIN pendingFields \ edited : Form!Without(pendingFields, edited)[g] = pendingFields[g]
        BY <1>2, WithoutType
      <3>2. QED
        BY <2>1, <3>1 DEF edited
    <2>3. f = "unit" /\ DOMAIN pendingFields \subseteq Form!Fields
      BY <1>2, <1>7, RetentionsAssumption, BatchEntries DEF Form!Inputs, Form!Fields, IsBatch
    <2>4. UnitsIn(pendingFields') /\ TasksOf(settings["retention"], pendingFields')
          /\ (HasTask(pendingFields', "settings") => HasTask(pendingFields, "settings"))
      BY <1>2, <2>2, <2>3 DEF KeepsInv, UnitsIn, TasksOf, HasTask
    <2>5. ShownInv(inputs', Excused', errors', settings, pendingFields', running)
      <3>1. running # Nothing => DOMAIN running.batch \subseteq Form!Fields
        BY BatchEntries DEF KInv, FInv, FTypes, IsBatch
      <3>2. QED
        BY <1>2, <1>3, <1>4, <2>1, <2>2, <2>3, <3>1 DEF KeepsInv, ShownInv
    <2>6. PromiseInv(settings["retention"], promised, stored["retention"], kept, pendingFields', running, followup)
      BY <1>2, <2>2, <2>3 DEF KeepsInv, PromiseInv
    <2>7. KeepsInv'
      BY <1>1, <1>2, <2>1, <2>4, <2>5, <2>6 DEF KeepsInv
    <2>8. QED
      BY <1>5, <1>6, <2>7
  <1>8. CASE ~Form!Has(f) /\ settings[f] = value /\ UNCHANGED <<errors, pendingFields, running, followup>>
    <2>1. ShownInv(inputs', Excused', errors', settings, pendingFields', running')
      <3>1. running # Nothing => DOMAIN running.batch \subseteq Form!Fields
        BY BatchEntries DEF KInv, FInv, FTypes, IsBatch
      <3>2. DOMAIN pendingFields \subseteq Form!Fields
        BY <1>2, BatchEntries DEF IsBatch
      <3>3. QED
        BY <1>2, <1>3, <1>4, <1>8, <3>1, <3>2 DEF KeepsInv, ShownInv, Form!Has, Holds
    <2>2. KeepsInv'
      BY <1>1, <1>2, <1>8, <2>1 DEF KeepsInv
    <2>3. QED
      BY <1>5, <1>6, <2>2
  <1>9. CASE /\ value # Bad /\ errors' = errors \ {f}
             /\ Form!Drain(Form!Put(pendingFields, f, [value |-> value, ready |-> immediate, task |-> "none"]),
                           running, failure \/ ~immediate, settings, followup)
    <2> DEFINE item == [value |-> value, ready |-> immediate, task |-> "none"]
               batched == Form!Put(pendingFields, f, item)
               halted == failure \/ ~immediate
    <2>1. /\ item \in Form!Entry /\ item.task = "none" /\ item.value = value
          /\ (f = "retention" => item.value \in Retentions) /\ (f = "unit" => item.value \in Units)
      BY <1>9 DEF Form!Entry, Form!Inputs
    <2> HIDE DEF item
    <2>2. /\ IsBatch(batched) /\ DOMAIN batched = DOMAIN pendingFields \cup {f} /\ batched[f] = item
          /\ \A g \in DOMAIN pendingFields \ {f} : batched[g] = pendingFields[g]
      BY <1>2, <2>1, PutType
    <2> HIDE DEF batched
    <2>3. UnitsIn(batched) /\ TasksOf(settings["retention"], batched)
          /\ (HasTask(batched, "settings") => HasTask(pendingFields, "settings"))
      BY <1>2, <2>1, <2>2 DEF KeepsInv, UnitsIn, TasksOf, HasTask, Form!Fields
    <2>4. ShownInv(inputs', Excused', errors', settings, batched, running)
      <3>1. running # Nothing => DOMAIN running.batch \subseteq Form!Fields
        BY BatchEntries DEF KInv, FInv, FTypes, IsBatch
      <3>2. DOMAIN pendingFields \subseteq Form!Fields
        BY <1>2, BatchEntries DEF IsBatch
      <3>3. \A g \in Form!Fields : g \notin DOMAIN batched => g # f /\ g \notin DOMAIN pendingFields
        BY <2>2
      <3>4. \A g \in DOMAIN batched : g \notin errors' /\ (inputs'[g] = batched[g].value \/ g \in Excused')
        BY <1>2, <1>3, <1>4, <1>9, <2>1, <2>2, <3>2 DEF KeepsInv, ShownInv
      <3>5. QED
        BY <1>2, <1>3, <1>4, <1>9, <3>1, <3>3, <3>4 DEF KeepsInv, ShownInv
    <2>5. PromiseInv(settings["retention"], promised, stored["retention"], kept, batched, running, followup)
      BY <1>2, <2>2 DEF KeepsInv, PromiseInv
    <2>6. halted \in BOOLEAN /\ (failure => halted)
      BY <1>2
    <2>7. Form!Drain(batched, running, halted, settings, followup)
      BY <1>9 DEF batched, item
    <2> HIDE DEF halted
    <2>8. HasTask(batched, "settings") => running = Nothing /\ halted /\ failure'
      BY <1>1, <1>2, <2>3, <2>6 DEF KeepsInv
    <2>9. running # Nothing => WritingInv(settings["retention"], promised, running, followup)
      BY <1>2 DEF KeepsInv
    <2>10. KeepsInv'
      BY <1>1, <1>2, <2>2, <2>3, <2>4, <2>5, <2>6, <2>7, <2>8, <2>9, Drained
    <2>11. QED
      BY <1>5, <1>6, <2>10
  <1>10. QED
    BY <1>7, <1>8, <1>9 DEF Form!Edit

\* The batch that waits, with some entries made ready.
LEMMA ReadyHolds ==
    ASSUME KInv, UNCHANGED <<settings, stored, kept, promised, inputs, refused, errors>>, failure' \in BOOLEAN,
           NEW batched, IsBatch(batched), DOMAIN batched = DOMAIN pendingFields,
           \A f \in DOMAIN batched : /\ batched[f].value = pendingFields[f].value
                                    /\ batched[f].task = pendingFields[f].task,
           NEW halted \in BOOLEAN,
           \/ halted = failure /\ failure' = failure
           \/ halted = FALSE /\ ("retention" \in DOMAIN batched => batched["retention"].ready),
           Form!Drain(batched, running, halted, settings, followup)
    PROVE  KeepsInv'
  <1>1. UnitsIn(batched) /\ TasksOf(settings["retention"], batched)
    BY DEF KInv, KeepsInv, UnitsIn, TasksOf, HasTask
  <1>2. ShownInv(inputs', Excused', errors', settings, batched, running)
    <2>1. Excused' = Excused
      BY DEF Excused
    <2>2. QED
      BY <2>1 DEF KInv, KeepsInv, ShownInv
  <1>3. PromiseInv(settings["retention"], promised, stored["retention"], kept, batched, running, followup)
    BY DEF KInv, KeepsInv, PromiseInv
  <1>4. HasTask(batched, "settings") =>
           running = Nothing /\ ((halted /\ failure') \/ (~halted /\ batched["retention"].ready))
    BY DEF KInv, KeepsInv, HasTask
  <1>5. running # Nothing => WritingInv(settings["retention"], promised, running, followup)
    BY DEF KInv, KeepsInv
  <1>6. QED
    BY <1>1, <1>2, <1>3, <1>4, <1>5, Drained

LEMMA ExpediteHolds ==
    ASSUME KInv, FInv', NEW f \in Form!Fields, Form!Expedite(f)
    PROVE  KeepsInv' /\ Form!TypeOK' /\ errors' \subseteq {"unit"}
  <1> DEFINE batched == [pendingFields EXCEPT ![f].ready = TRUE]
  <1>1. IsBatch(pendingFields) /\ failure \in BOOLEAN /\ f \in DOMAIN pendingFields
    BY DEF KInv, FInv, FTypes, Form!Expedite
  <1>2. \A g \in DOMAIN pendingFields :
           /\ batched[g] \in Form!Entry /\ batched[g].value = pendingFields[g].value
           /\ batched[g].task = pendingFields[g].task
    BY <1>1, BatchEntries DEF IsBatch, Form!Entry
  <1>3. DOMAIN batched = DOMAIN pendingFields /\ batched \in [DOMAIN pendingFields -> Form!Entry]
    BY <1>1, <1>2, BatchEntries DEF IsBatch
  <1> HIDE DEF batched
  <1>4. IsBatch(batched)
    BY <1>1, <1>2, <1>3, BatchEntries, BatchOf DEF IsBatch
  <1>5. Form!Drain(batched, running, failure, settings, followup)
    BY DEF Form!Expedite, batched
  <1>6. UNCHANGED <<settings, stored, kept, promised, inputs, refused, errors, failure, confirmed, edits, writeFailures>>
    BY DEF Form!Expedite, Form!dataVars, Form!historyVars
  <1>7. KeepsInv'
    BY <1>1, <1>2, <1>3, <1>4, <1>5, <1>6, ReadyHolds
  <1>8. QED
    BY <1>6, <1>7 DEF KInv, Form!TypeOK, FInv, FTypes, IsBatch

LEMMA FlushHolds ==
    ASSUME KInv, FInv', Form!Flush
    PROVE  KeepsInv' /\ Form!TypeOK' /\ errors' \subseteq {"unit"}
  <1> DEFINE batched == [f \in DOMAIN pendingFields |-> [pendingFields[f] EXCEPT !.ready = TRUE]]
  <1>1. IsBatch(pendingFields)
    BY DEF KInv, FInv, FTypes
  <1>2. \A g \in DOMAIN pendingFields :
           /\ batched[g] \in Form!Entry /\ batched[g].value = pendingFields[g].value
           /\ batched[g].task = pendingFields[g].task /\ batched[g].ready
    BY <1>1, BatchEntries, ChangedEntry DEF IsBatch
  <1>3. DOMAIN batched = DOMAIN pendingFields /\ batched \in [DOMAIN pendingFields -> Form!Entry]
    BY <1>1, <1>2, BatchEntries DEF IsBatch
  <1> HIDE DEF batched
  <1>4. IsBatch(batched)
    BY <1>1, <1>2, <1>3, BatchEntries, BatchOf DEF IsBatch
  <1>5. Form!Drain(batched, running, FALSE, settings, followup)
    BY DEF Form!Flush, batched
  <1>6. UNCHANGED <<settings, stored, kept, promised, inputs, refused, errors, confirmed, edits, writeFailures>>
        /\ failure' = FALSE
    BY DEF Form!Flush, Form!dataVars, Form!historyVars
  <1>7. KeepsInv'
    BY <1>1, <1>2, <1>3, <1>4, <1>5, <1>6, ReadyHolds
  <1>8. QED
    BY <1>6, <1>7 DEF KInv, Form!TypeOK, FInv, FTypes, IsBatch

-----------------------------------------------------------------------------
(* The steps of a write. *)

\* The batch that is written, with another task for its retention.
LEMMA Marked ==
    ASSUME KInv, running # Nothing, "retention" \in DOMAIN running.batch,
           NEW task \in Tasks, NEW at \in Form!Steps,
           running' = [running EXCEPT !.step = at, !.batch["retention"].task = task]
    PROVE  /\ running'.step = at /\ running'.skip = running.skip /\ running' # Nothing
           /\ DOMAIN running'.batch = DOMAIN running.batch /\ running'.batch["retention"].task = task
           /\ \A f \in DOMAIN running.batch : running'.batch[f].value = running.batch[f].value
  <1> DEFINE item == running.batch["retention"]
             answered == [item EXCEPT !.task = task]
             batch == [running.batch EXCEPT !["retention"] = answered]
             next == [running EXCEPT !.step = at, !.batch = batch]
  <1>1. /\ running \in [batch : Form!Waiting, skip : BOOLEAN, step : Form!Steps]
        /\ IsBatch(running.batch) /\ item \in Form!Entry
    BY BatchEntries DEF KInv, FInv, FTypes, IsBatch
  <1>2. answered.task = task /\ answered.value = item.value /\ answered \in Form!Entry
    BY <1>1 DEF Form!Entry, Tasks
  <1>3. running' = next
    OBVIOUS
  <1> HIDE DEF answered
  <1>4. /\ DOMAIN batch = DOMAIN running.batch /\ batch["retention"] = answered
        /\ \A f \in DOMAIN running.batch : f # "retention" => batch[f] = running.batch[f]
        /\ batch \in [DOMAIN running.batch -> Form!Entry]
    BY <1>1, <1>2, BatchEntries DEF IsBatch
  <1> HIDE DEF batch
  <1>8. batch \in Form!Waiting
    BY <1>1, <1>4, BatchEntries, BatchOf DEF IsBatch
  <1>5. next.step = at /\ next.skip = running.skip /\ next.batch = batch /\ next # Nothing
    BY <1>1, <1>8, RetentionsAssumption
  <1> HIDE DEF next
  <1>6. \A f \in DOMAIN running.batch : batch[f].value = running.batch[f].value
    BY <1>2, <1>4
  <1>7. QED
    BY <1>2, <1>3, <1>4, <1>5, <1>6

\* A failed batch waits again.
LEMMA FailedHolds ==
    ASSUME KInv, FInv', running # Nothing, Form!Failed, UNCHANGED <<settings, followup, promised>>,
           running.step = "reload" => HasTask(running.batch, "followup"),
           promised # Nothing /\ Form!Shorter(promised, kept') /\ stored'["retention"] = settings["retention"] =>
              /\ followup # Nothing => followup.stage = "prune"
              /\ "retention" \in DOMAIN pendingFields \/ "retention" \in DOMAIN running.batch
    PROVE  KeepsInv'
  <1> DEFINE both == DOMAIN pendingFields \cup (DOMAIN running.batch \ errors)
  <1>1. /\ IsBatch(pendingFields) /\ IsBatch(running.batch) /\ RunningInv(running, followup)
        /\ WritingInv(settings["retention"], promised, running, followup) /\ KeepsInv /\ errors \subseteq {"unit"}
        /\ running.step \in Form!Steps
    BY DEF KInv, KeepsInv, FInv, FTypes
  <1>2. /\ pendingFields' = [f \in both |-> IF f \in DOMAIN pendingFields THEN pendingFields[f]
                                             ELSE running.batch[f]]
        /\ running' = Nothing /\ failure' = TRUE /\ UNCHANGED <<inputs, errors, refused>>
    BY DEF Form!Failed
  <1>3. /\ DOMAIN pendingFields' = both
        /\ \A f \in both : \/ f \in DOMAIN pendingFields /\ pendingFields'[f] = pendingFields[f]
                          \/ /\ f \in DOMAIN running.batch /\ f \notin DOMAIN pendingFields /\ f \notin errors
                             /\ pendingFields'[f] = running.batch[f]
    BY <1>2
  <1>4. DOMAIN running.batch \subseteq both \cup errors /\ DOMAIN pendingFields \subseteq both
    OBVIOUS
  <1> HIDE DEF both
  <1>5. UnitsIn(pendingFields')
    BY <1>1, <1>3 DEF KeepsInv, UnitsIn, WritingInv
  <1>6. TasksOf(settings["retention"], pendingFields')
    <2>1. HasTask(running.batch, "followup") => running.batch["retention"].value = settings["retention"]
      BY <1>1 DEF WritingInv
    <2>2. HasTask(running.batch, "settings") =>
              Form!Shorter(running.batch["retention"].value, settings["retention"])
      BY <1>1 DEF WritingInv, RunningInv, HasTask, TasksOf, Form!Steps
    <2>3. QED
      BY <1>1, <1>3, <2>1, <2>2 DEF KeepsInv, TasksOf, HasTask
  <1>7. ShownInv(inputs', Excused', errors', settings', pendingFields', running')
    <2>1. Excused' = Excused
      BY <1>2 DEF Excused
    <2>2. \A f \in Form!Fields : f \notin both /\ f \notin errors => f \notin DOMAIN pendingFields /\ ~Holds(running, f)
      BY <1>4 DEF Holds
    <2>3. QED
      BY <1>1, <1>2, <1>3, <2>1, <2>2 DEF KeepsInv, ShownInv
  <1>8. PromiseInv(settings["retention"], promised, stored'["retention"], kept', pendingFields', Nothing, followup)
    <2>1. "retention" \in DOMAIN pendingFields \/ "retention" \in DOMAIN running.batch =>
              "retention" \in DOMAIN pendingFields'
      BY <1>1, <1>3, <1>4
    <2>2. QED
      BY <1>1, <2>1 DEF KeepsInv, PromiseInv
  <1>9. QED
    BY <1>2, <1>5, <1>6, <1>7, <1>8 DEF KeepsInv

\* What a failed batch leaves has its type.
LEMMA FailedTypes ==
    ASSUME KInv, FInv', Form!Failed, settings' \in Form!Values, stored' \in Form!Values, kept' \in Retentions,
           promised' \in Retentions \cup {Nothing}, confirmed' \subseteq Retentions
    PROVE  Form!TypeOK' /\ errors' \subseteq {"unit"}
  <1>1. /\ writeFailures < MaxWriteFailures /\ writeFailures' = writeFailures + 1
        /\ UNCHANGED <<inputs, errors, refused, edits>>
    BY DEF Form!Failed
  <1>2. writeFailures' \in 0..MaxWriteFailures
    BY <1>1, BoundsAssumption DEF KInv, Form!TypeOK
  <1>3. QED
    BY <1>1, <1>2 DEF KInv, Form!TypeOK, FInv, FTypes, IsBatch

LEMMA AnswerHolds ==
    ASSUME KInv, FInv', Form!Confirm
    PROVE  KeepsInv' /\ Form!TypeOK' /\ errors' \subseteq {"unit"}
  <1> DEFINE item == running.batch["retention"]
  <1>1. /\ running \in [batch : Form!Waiting, skip : BOOLEAN, step : Form!Steps] /\ IsBatch(running.batch)
        /\ HasTask(running.batch, "none") /\ KeepsInv /\ Form!TypeOK /\ errors \subseteq {"unit"}
        /\ WritingInv(settings["retention"], promised, running, followup)
        /\ running # Nothing /\ running.step = "confirm"
        /\ UNCHANGED <<settings, stored, kept, followup>>
    BY DEF KInv, KeepsInv, FInv, FTypes, RunningInv, Form!Confirm, Form!dataVars
  <1>2. /\ "retention" \in DOMAIN running.batch /\ item.value \in Retentions /\ ~running.skip
        /\ Form!Shorter(item.value, settings["retention"]) /\ ~HasTask(running.batch, "followup")
    BY <1>1 DEF HasTask, IsBatch, WritingInv
  <1>3. CASE /\ running' = [running EXCEPT !.step = "settings", !.batch["retention"].task = "settings"]
             /\ confirmed' = confirmed \cup {item.value}
             /\ UNCHANGED <<inputs, refused, promised, failure, pendingFields, errors, edits, writeFailures>>
    <2>1. /\ running'.step = "settings" /\ running'.skip = running.skip /\ running' # Nothing
          /\ DOMAIN running'.batch = DOMAIN running.batch /\ running'.batch["retention"].task = "settings"
          /\ \A f \in DOMAIN running.batch : running'.batch[f].value = running.batch[f].value
      BY <1>1, <1>2, <1>3, Marked DEF Tasks, Form!Steps
    <2>3. WritingInv(settings["retention"], promised, running', followup)
      BY <1>1, <1>2, <2>1 DEF WritingInv, UnitsIn, TasksOf, HasTask
    <2>4. ShownInv(inputs', Excused', errors', settings', pendingFields', running')
      <3>1. Excused' = Excused
        BY <1>3 DEF Excused
      <3>2. QED
        BY <1>1, <1>2, <1>3, <2>1, <3>1 DEF KeepsInv, ShownInv, Holds
    <2>5. PromiseInv(settings["retention"], promised, stored["retention"], kept, pendingFields, running', followup)
      BY <1>1, <1>2, <2>1 DEF KeepsInv, PromiseInv, Holds
    <2>6. KeepsInv'
      BY <1>1, <1>3, <2>3, <2>4, <2>5 DEF KeepsInv
    <2>7. Form!TypeOK'
      BY <1>1, <1>2, <1>3 DEF Form!TypeOK, FInv, FTypes, IsBatch
    <2>8. QED
      BY <1>1, <1>3, <2>6, <2>7
  <1>4. CASE /\ running' = [running EXCEPT !.step = "settings", !.skip = TRUE]
             /\ IF inputs.retention = item.value
                THEN inputs' = [inputs EXCEPT !.retention = settings.retention] /\ refused' = TRUE
                ELSE UNCHANGED <<inputs, refused>>
             /\ promised' = Nothing
             /\ UNCHANGED <<confirmed, failure, pendingFields, errors, edits, writeFailures>>
    <2>1. running'.batch = running.batch /\ running'.step = "settings" /\ running'.skip /\ running' # Nothing
      <3>1. running' \in [batch : Form!Waiting, skip : BOOLEAN, step : Form!Steps]
            /\ running'.batch = running.batch /\ running'.step = "settings" /\ running'.skip = TRUE
        BY <1>1, <1>4 DEF Form!Steps
      <3>2. QED
        BY <3>1, RetentionsAssumption
    <2>2. WritingInv(settings["retention"], promised', running', followup)
      BY <1>1, <1>2, <1>4, <2>1, RetentionsAssumption DEF WritingInv, UnitsIn, TasksOf, HasTask, Form!Shorter, Form!TypeOK, Form!Values
    <2>3. inputs' \in [retention : Retentions, unit : Units \cup {Bad}] /\ refused' \in BOOLEAN
      BY <1>1, <1>4 DEF Form!TypeOK, Form!Values
    <2>4. /\ inputs'["unit"] = inputs["unit"] /\ Excused \subseteq Excused' /\ Excused' \subseteq {"retention"}
          /\ "retention" \in Excused' \/ (inputs'["retention"] = inputs["retention"] /\ inputs["retention"] # item.value)
      BY <1>1, <1>4 DEF Excused, Form!TypeOK
    <2>5. ShownInv(inputs', Excused', errors', settings', pendingFields', running')
      <3>1. DOMAIN pendingFields \subseteq Form!Fields /\ DOMAIN running.batch \subseteq Form!Fields
        BY <1>1, BatchEntries DEF KInv, FInv, FTypes, IsBatch
      <3>2. \A f \in Form!Fields : f = "unit" \/ f = "retention"
        BY DEF Form!Fields
      <3>3. CASE "retention" \in Excused'
        BY <1>1, <1>4, <2>1, <2>4, <3>1, <3>2, <3>3 DEF KeepsInv, ShownInv, Holds
      <3>4. CASE "retention" \notin Excused'
        <4>1. "retention" \notin Excused /\ inputs'["retention"] = inputs["retention"]
              /\ inputs["retention"] # item.value
          BY <2>4, <3>4
        <4>2. "retention" \in DOMAIN pendingFields \/ "retention" \in errors
          BY <1>1, <1>2, <4>1 DEF KeepsInv, ShownInv
        <4>3. QED
          BY <1>1, <1>4, <2>1, <2>4, <3>1, <3>2, <4>1, <4>2 DEF KeepsInv, ShownInv, Holds
      <3>5. QED
        BY <3>3, <3>4
    <2>6. PromiseInv(settings["retention"], promised', stored["retention"], kept, pendingFields, running', followup)
      BY <1>1, <1>4 DEF KeepsInv, PromiseInv
    <2>7. KeepsInv'
      BY <1>1, <1>4, <2>2, <2>5, <2>6 DEF KeepsInv
    <2>8. Form!TypeOK'
      BY <1>1, <1>4, <2>3 DEF Form!TypeOK, FInv, FTypes, IsBatch
    <2>9. QED
      BY <1>1, <1>4, <2>7, <2>8
  <1>5. CASE Form!Failed /\ UNCHANGED <<confirmed, promised>>
    <2>1. KeepsInv'
      BY <1>1, <1>5, FailedHolds DEF KeepsInv, PromiseInv, Holds
    <2>2. QED
      BY <1>1, <1>5, <2>1, FailedTypes DEF Form!TypeOK
  <1>6. QED
    BY <1>3, <1>4, <1>5 DEF Form!Confirm

\* What a saved batch leaves of the settings, and in their two copies.
LEMMA WrittenValues ==
    ASSUME KInv, running # Nothing, NEW old \in Form!Values
    PROVE  /\ Form!Patched(old) \in Form!Values
           /\ \A f \in Form!Fields :
                 Form!Patched(old)[f] = IF f \in DOMAIN running.batch /\ (f # "retention" \/ ~running.skip)
                                        THEN running.batch[f].value ELSE old[f]
  <1>1. UnitsIn(running.batch) /\ IsBatch(running.batch)
    BY DEF KInv, KeepsInv, WritingInv, FInv, FTypes
  <1>2. \A f \in Form!Fields :
           Form!Patched(old)[f] = IF f \in DOMAIN running.batch /\ (f # "retention" \/ ~running.skip)
                                  THEN running.batch[f].value ELSE old[f]
    BY DEF Form!Patched
  <1>3. DOMAIN Form!Patched(old) = {"retention", "unit"}
        /\ Form!Patched(old) = [f \in {"retention", "unit"} |-> Form!Patched(old)[f]]
    BY DEF Form!Patched, Form!Fields
  <1>4. Form!Patched(old)["retention"] \in Retentions /\ Form!Patched(old)["unit"] \in Units
    BY <1>1, <1>2 DEF Form!Values, Form!Fields, UnitsIn, IsBatch
  <1> DEFINE new == Form!Patched(old)
  <1> HIDE DEF new
  <1>5. Form!Patched(old) \in Form!Values
    BY <1>3, <1>4 DEF Form!Values
  <1>6. QED
    BY <1>2, <1>5

LEMMA WriteHolds ==
    ASSUME KInv, FInv', Form!WriteSettings
    PROVE  KeepsInv' /\ Form!TypeOK' /\ errors' \subseteq {"unit"}
  <1> DEFINE value == running.batch["retention"].value
             saved == HasTask(running.batch, "settings") /\ ~running.skip
  <1>1. /\ running \in [batch : Form!Waiting, skip : BOOLEAN, step : Form!Steps] /\ IsBatch(running.batch)
        /\ KeepsInv /\ Form!TypeOK /\ errors \subseteq {"unit"}
        /\ WritingInv(settings["retention"], promised, running, followup) /\ RunningInv(running, followup)
        /\ running # Nothing /\ running.step = "settings"
        /\ followup # Nothing => followup \in [value : Retentions, stage : {"prune", "reload"}]
        /\ UNCHANGED <<kept, confirmed>>
    BY DEF KInv, KeepsInv, FInv, FTypes, Form!WriteSettings
  <1>2. /\ settings \in Form!Values /\ stored \in Form!Values /\ kept \in Retentions
        /\ settings["retention"] \in Nat /\ kept \in Nat
    BY <1>1, RetentionsAssumption DEF Form!TypeOK, Form!Values
  <1>3. /\ Form!Patched(stored) \in Form!Values /\ Form!Patched(settings) \in Form!Values
        /\ \A f \in Form!Fields : f \in DOMAIN running.batch /\ (f # "retention" \/ ~running.skip) =>
              Form!Patched(stored)[f] = running.batch[f].value /\ Form!Patched(settings)[f] = running.batch[f].value
        /\ \A f \in Form!Fields : ~(f \in DOMAIN running.batch /\ (f # "retention" \/ ~running.skip)) =>
              Form!Patched(stored)[f] = stored[f] /\ Form!Patched(settings)[f] = settings[f]
    BY <1>1, <1>2, WrittenValues
  <1>4. /\ "retention" \in DOMAIN running.batch /\ ~running.skip =>
              HasTask(running.batch, "settings") \/ HasTask(running.batch, "none")
        /\ "retention" \in DOMAIN running.batch => value \in Retentions
        /\ "retention" \in Form!Fields
    BY <1>1, BatchEntries DEF HasTask, Form!Entry, RunningInv, Form!Fields, IsBatch
  <1>5. CASE Form!Failed /\ stored' \in {stored, Form!Patched(stored)} /\ UNCHANGED <<settings, followup, promised>>
    <2>1. promised # Nothing /\ Form!Shorter(promised, kept') /\ stored'["retention"] = settings["retention"] =>
              /\ followup # Nothing => followup.stage = "prune"
              /\ "retention" \in DOMAIN pendingFields \/ "retention" \in DOMAIN running.batch
      <3>1. CASE stored'["retention"] = stored["retention"]
        BY <1>1, <3>1 DEF KeepsInv, PromiseInv, Holds
      <3>2. CASE "retention" \in DOMAIN running.batch /\ ~running.skip /\ value = settings["retention"]
        <4>1. ~Form!Shorter(value, settings["retention"])
          BY <1>2, <3>2 DEF Form!Shorter
        <4>2. HasTask(running.batch, "none")
          BY <1>1, <1>4, <3>2, <4>1 DEF WritingInv, TasksOf
        <4>3. followup = Nothing
          BY <1>1, <3>2, <4>2 DEF WritingInv
        <4>4. QED
          BY <3>2, <4>3
      <3>3. QED
        BY <1>3, <1>4, <1>5, <3>1, <3>2
    <2>2. KeepsInv'
      BY <1>1, <1>5, <2>1, FailedHolds
    <2>3. QED
      BY <1>1, <1>2, <1>3, <1>5, <2>2, FailedTypes DEF Form!TypeOK
  <1>6. ASSUME settings' = Form!Patched(settings), UNCHANGED <<inputs, refused, errors, pendingFields, failure>>,
               running' # Nothing, DOMAIN running'.batch = DOMAIN running.batch, running'.skip = running.skip,
               \A f \in DOMAIN running.batch : running'.batch[f].value = running.batch[f].value
        PROVE  ShownInv(inputs', Excused', errors', settings', pendingFields', running')
    <2>1. Excused' = Excused
      BY <1>6 DEF Excused
    <2>2. DOMAIN running.batch \subseteq Form!Fields
      BY <1>1, BatchEntries DEF IsBatch
    <2>3. \A f \in Form!Fields : f \notin DOMAIN running.batch => settings'[f] = settings[f]
      BY <1>3, <1>6
    <2>4. \A f \in DOMAIN running.batch : f \notin DOMAIN pendingFields /\ f \notin errors =>
              inputs[f] = settings'[f] \/ f \in Excused
      <3>1. ASSUME NEW f \in DOMAIN running.batch, f \notin DOMAIN pendingFields, f \notin errors
            PROVE  inputs[f] = settings'[f] \/ f \in Excused
        <4>1. CASE f = "retention" /\ running.skip
          BY <1>1, <1>3, <1>6, <2>2, <3>1, <4>1 DEF KeepsInv, ShownInv
        <4>2. CASE ~(f = "retention" /\ running.skip)
          BY <1>1, <1>3, <1>6, <2>2, <3>1, <4>2 DEF KeepsInv, ShownInv
        <4>3. QED
          BY <4>1, <4>2
      <3>2. QED
        BY <3>1
    <2>5. QED
      BY <1>1, <1>6, <2>1, <2>3, <2>4 DEF KeepsInv, ShownInv, Holds
  <1>7. ASSUME UNCHANGED <<inputs, refused, errors, pendingFields, failure, edits, writeFailures>>,
               settings' = Form!Patched(settings), stored' = Form!Patched(stored), promised' \in Retentions \cup {Nothing}
        PROVE  Form!TypeOK'
    BY <1>1, <1>2, <1>3, <1>7 DEF Form!TypeOK, FInv, FTypes, IsBatch
  <1>8. HasTask(pendingFields, "settings") \/ HasTask(pendingFields, "followup") => FALSE
    BY <1>1 DEF KInv, FInv, PendingInv, KeepsInv
  <1>9. CASE /\ stored' = Form!Patched(stored) /\ settings' = Form!Patched(settings) /\ saved /\ promised' = value
             /\ followup' = [value |-> value, stage |-> "prune"]
             /\ running' = [running EXCEPT !.step = "prune", !.batch["retention"].task = "followup"]
             /\ UNCHANGED <<inputs, pendingFields, errors, refused, failure, edits, writeFailures>>
    <2>1. "retention" \in DOMAIN running.batch /\ value \in Retentions /\ settings'["retention"] = value
      BY <1>3, <1>4, <1>9 DEF HasTask
    <2>2. /\ running'.step = "prune" /\ running'.skip = running.skip /\ running' # Nothing
          /\ DOMAIN running'.batch = DOMAIN running.batch /\ running'.batch["retention"].task = "followup"
          /\ \A f \in DOMAIN running.batch : running'.batch[f].value = running.batch[f].value
      BY <1>1, <1>9, <2>1, Marked DEF Tasks, Form!Steps
    <2>3. WritingInv(settings'["retention"], promised', running', followup')
      BY <1>1, <1>9, <2>1, <2>2 DEF WritingInv, UnitsIn, HasTask
    <2>4. followup'.value = value /\ followup'.stage = "prune"
      BY <1>9
    <2>5. PromiseInv(settings'["retention"], promised', stored'["retention"], kept', pendingFields', running', followup')
      BY <1>9, <2>1, <2>2, <2>4 DEF PromiseInv, Holds
    <2>6. UnitsIn(pendingFields') /\ TasksOf(settings'["retention"], pendingFields')
          /\ ~HasTask(pendingFields', "settings")
      BY <1>1, <1>8, <1>9 DEF KeepsInv, TasksOf, UnitsIn, HasTask
    <2>7. KeepsInv'
      BY <1>6, <1>9, <2>2, <2>3, <2>5, <2>6 DEF KeepsInv
    <2>8. QED
      BY <1>1, <1>7, <1>9, <2>1, <2>7
  <1>10. CASE /\ stored' = Form!Patched(stored) /\ settings' = Form!Patched(settings) /\ ~saved
              /\ promised' = IF "retention" \notin DOMAIN running.batch \/ running.skip THEN promised ELSE Nothing
              /\ followup' = IF followup # Nothing /\ ~running.skip
                                /\ settings'["retention"] # followup.value
                             THEN Nothing ELSE followup
              /\ running' = IF HasTask(running.batch, "followup")
                            THEN [running EXCEPT !.step = followup.stage]
                            ELSE [running EXCEPT !.step = "reload"]
              /\ UNCHANGED <<inputs, pendingFields, errors, refused, failure, edits, writeFailures>>
    <2>1. HasTask(running.batch, "followup") =>
             /\ running.skip /\ followup # Nothing /\ followup' = followup
             /\ followup.stage \in {"prune", "reload"}
      BY <1>1, <1>10 DEF RunningInv, Follows
    <2>2. /\ running' \in [batch : Form!Waiting, skip : BOOLEAN, step : Form!Steps]
          /\ running'.batch = running.batch /\ running'.skip = running.skip
          /\ HasTask(running.batch, "followup") => running'.step = followup.stage
          /\ ~HasTask(running.batch, "followup") => running'.step = "reload"
      BY <1>1, <1>10, <2>1 DEF Form!Steps
    <2>3. running' # Nothing /\ running'.step \in {"prune", "reload"}
      BY <2>1, <2>2, RetentionsAssumption
    <2>4. "retention" \notin DOMAIN running.batch \/ running.skip =>
             promised' = promised /\ settings'["retention"] = settings["retention"]
             /\ stored'["retention"] = stored["retention"] /\ followup' = followup
      BY <1>1, <1>3, <1>4, <1>10 DEF WritingInv
    <2>5. "retention" \in DOMAIN running.batch /\ ~running.skip =>
             promised' = Nothing /\ (followup' # Nothing => followup'.value = settings'["retention"])
      BY <1>10
    <2>6. WritingInv(settings'["retention"], promised', running', followup')
      BY <1>1, <2>1, <2>2, <2>3, <2>4, <2>5 DEF WritingInv, UnitsIn, HasTask
    <2>7. PromiseInv(settings'["retention"], promised', stored'["retention"], kept', pendingFields', running', followup')
      <3>1. CASE "retention" \in DOMAIN running.batch /\ ~running.skip
        BY <2>5, <3>1 DEF PromiseInv
      <3>2. CASE "retention" \notin DOMAIN running.batch
        BY <1>1, <1>10, <2>2, <2>4, <3>2 DEF KeepsInv, PromiseInv, Holds
      <3>3. CASE HasTask(running.batch, "followup")
        BY <1>1, <1>10, <2>1, <2>2, <2>3, <2>4, <3>3 DEF KeepsInv, PromiseInv, Holds, HasTask
      <3>4. CASE "retention" \in DOMAIN running.batch /\ running.skip /\ ~HasTask(running.batch, "followup")
        BY <1>1, <2>4, <3>4 DEF KeepsInv, PromiseInv, WritingInv
      <3>5. QED
        BY <3>1, <3>2, <3>3, <3>4
    <2>8. UnitsIn(pendingFields') /\ TasksOf(settings'["retention"], pendingFields')
          /\ ~HasTask(pendingFields', "settings")
      BY <1>1, <1>8, <1>10 DEF KeepsInv, TasksOf, UnitsIn, HasTask
    <2>9. KeepsInv'
      BY <1>6, <1>10, <2>2, <2>3, <2>6, <2>7, <2>8 DEF KeepsInv
    <2>10. promised' \in Retentions \cup {Nothing}
      BY <1>1, <1>10 DEF Form!TypeOK
    <2>11. QED
      BY <1>1, <1>7, <1>10, <2>9, <2>10
  <1>11. QED
    BY <1>1, <1>4, <1>5, <1>9, <1>10 DEF Form!WriteSettings, HasTask

LEMMA PruneHolds ==
    ASSUME KInv, FInv', Form!Prune
    PROVE  KeepsInv' /\ Form!TypeOK' /\ errors' \subseteq {"unit"}
  <1> DEFINE pruned == IF Form!Shorter(stored["retention"], kept) THEN stored["retention"] ELSE kept
  <1>1. /\ running \in [batch : Form!Waiting, skip : BOOLEAN, step : Form!Steps] /\ IsBatch(running.batch)
        /\ KeepsInv /\ Form!TypeOK /\ errors \subseteq {"unit"}
        /\ WritingInv(settings["retention"], promised, running, followup)
        /\ HasTask(running.batch, "followup") /\ running # Nothing /\ running.step = "prune"
        /\ followup \in [value : Retentions, stage : {"prune", "reload"}] /\ followup # Nothing
        /\ UNCHANGED <<settings, stored, confirmed, promised>>
    BY DEF KInv, KeepsInv, FInv, FTypes, RunningInv, Follows, Form!Prune
  <1>2. /\ settings \in Form!Values /\ stored \in Form!Values /\ kept \in Retentions
        /\ settings["retention"] \in Nat /\ stored["retention"] \in Nat /\ kept \in Nat /\ pruned \in Retentions
    BY <1>1, RetentionsAssumption DEF Form!TypeOK, Form!Values
  <1>3. promised # Nothing /\ stored["retention"] = settings["retention"] =>
           promised = stored["retention"] /\ ~Form!Shorter(promised, pruned)
    BY <1>1, <1>2 DEF KeepsInv, PromiseInv, Form!Shorter
  <1>4. CASE Form!Failed /\ kept' \in {kept, pruned} /\ UNCHANGED followup
    <2>1. promised # Nothing /\ Form!Shorter(promised, kept') /\ stored'["retention"] = settings["retention"] =>
              /\ followup # Nothing => followup.stage = "prune"
              /\ "retention" \in DOMAIN pendingFields \/ "retention" \in DOMAIN running.batch
      BY <1>1, <1>3, <1>4 DEF KeepsInv, PromiseInv, Holds
    <2>2. KeepsInv'
      BY <1>1, <1>4, <2>1, FailedHolds
    <2>3. kept' \in Retentions /\ settings' \in Form!Values /\ stored' \in Form!Values
          /\ promised' \in Retentions \cup {Nothing} /\ confirmed' \subseteq Retentions
      BY <1>1, <1>2, <1>4 DEF Form!TypeOK
    <2>4. QED
      BY <1>4, <2>2, <2>3, FailedTypes
  <1>5. CASE /\ kept' = pruned /\ followup' = [followup EXCEPT !.stage = "reload"]
             /\ running' = [running EXCEPT !.step = "reload"]
             /\ UNCHANGED <<inputs, pendingFields, errors, refused, failure, edits, writeFailures>>
    <2>1. followup'.value = followup.value /\ followup'.stage = "reload"
      BY <1>1, <1>5
    <2>2. /\ running' \in [batch : Form!Waiting, skip : BOOLEAN, step : Form!Steps]
          /\ running'.batch = running.batch /\ running'.skip = running.skip /\ running'.step = "reload"
      BY <1>1, <1>5 DEF Form!Steps
    <2>3. running' # Nothing
      BY <2>2, RetentionsAssumption
    <2>4. ShownInv(inputs', Excused', errors', settings', pendingFields', running')
      <3>1. Excused' = Excused
        BY <1>5 DEF Excused
      <3>2. QED
        BY <1>1, <1>5, <2>2, <2>3, <3>1 DEF KeepsInv, ShownInv, Holds
    <2>5. WritingInv(settings'["retention"], promised', running', followup')
      BY <1>1, <2>1, <2>2 DEF WritingInv, UnitsIn, HasTask
    <2>6. PromiseInv(settings'["retention"], promised', stored'["retention"], kept', pendingFields', running', followup')
      BY <1>1, <1>3, <1>5, <2>1 DEF KeepsInv, PromiseInv
    <2>7. UnitsIn(pendingFields') /\ TasksOf(settings'["retention"], pendingFields')
          /\ (HasTask(pendingFields', "settings") => FALSE)
      BY <1>1, <1>5 DEF KeepsInv, TasksOf, UnitsIn, HasTask
    <2>8. KeepsInv'
      BY <2>4, <2>5, <2>6, <2>7 DEF KeepsInv
    <2>9. Form!TypeOK'
      BY <1>1, <1>2, <1>5 DEF Form!TypeOK, FInv, FTypes, IsBatch
    <2>10. QED
      BY <1>1, <1>5, <2>8, <2>9
  <1>6. QED
    BY <1>4, <1>5 DEF Form!Prune

LEMMA FinishHolds ==
    ASSUME KInv, FInv', Form!Finish
    PROVE  KeepsInv' /\ Form!TypeOK' /\ errors' \subseteq {"unit"}
  <1> DEFINE follows == HasTask(running.batch, "followup")
             unfinished == IF follows THEN Nothing ELSE followup
  <1>1. /\ running \in [batch : Form!Waiting, skip : BOOLEAN, step : Form!Steps] /\ IsBatch(running.batch)
        /\ KeepsInv /\ Form!TypeOK /\ errors \subseteq {"unit"} /\ IsBatch(pendingFields) /\ failure \in BOOLEAN
        /\ WritingInv(settings["retention"], promised, running, followup)
        /\ running # Nothing /\ running.step = "reload"
        /\ UNCHANGED <<settings, stored, kept, confirmed, promised>>
    BY DEF KInv, KeepsInv, FInv, FTypes, Form!Finish, Form!dataVars
  <1>2. CASE follows /\ Form!Failed /\ UNCHANGED followup
    <2>1. promised # Nothing /\ Form!Shorter(promised, kept') /\ stored'["retention"] = settings["retention"] =>
              /\ followup # Nothing => followup.stage = "prune"
              /\ "retention" \in DOMAIN pendingFields \/ "retention" \in DOMAIN running.batch
      BY <1>1 DEF KeepsInv, PromiseInv, Holds
    <2>2. KeepsInv'
      BY <1>1, <1>2, <2>1, FailedHolds
    <2>3. QED
      BY <1>1, <1>2, <2>2, FailedTypes DEF Form!TypeOK
  <1>3. CASE /\ Form!Drain(pendingFields, Nothing, failure, settings, unfinished)
             /\ UNCHANGED <<inputs, errors, refused, failure, edits, writeFailures>>
    <2> DEFINE busy == Nothing
    <2>1. Form!Drain(pendingFields, busy, failure, settings, unfinished) /\ busy = Nothing
      BY <1>3
    <2> HIDE DEF busy
    <2>2. ShownInv(inputs', Excused', errors', settings, pendingFields, busy)
      <3>1. Excused' = Excused
        BY <1>3 DEF Excused
      <3>2. QED
        BY <1>1, <1>3, <2>1, <3>1 DEF KeepsInv, ShownInv, Holds
    <2>3. PromiseInv(settings["retention"], promised, stored["retention"], kept, pendingFields, busy, unfinished)
      <3>1. follows => followup.stage = "reload" /\ "retention" \in DOMAIN running.batch
        BY <1>1 DEF WritingInv, HasTask
      <3>2. CASE follows
        <4>1. unfinished = Nothing /\ (followup # Nothing => followup.stage # "prune")
          BY <3>1, <3>2
        <4> HIDE DEF unfinished
        <4>2. QED
          BY <1>1, <2>1, <4>1 DEF KeepsInv, PromiseInv, Holds
      <3>3. CASE ~follows
        <4>1. unfinished = followup
          BY <3>3
        <4> HIDE DEF unfinished
        <4>2. QED
          BY <1>1, <2>1, <4>1 DEF KeepsInv, PromiseInv, Holds
      <3>4. QED
        BY <3>2, <3>3
    <2>4. UnitsIn(pendingFields) /\ TasksOf(settings["retention"], pendingFields) /\ ~HasTask(pendingFields, "settings")
      BY <1>1 DEF KeepsInv
    <2> HIDE DEF unfinished
    <2>5. KeepsInv'
      BY <1>1, <1>3, <2>1, <2>2, <2>3, <2>4, Drained
    <2>6. Form!TypeOK'
      BY <1>1, <1>3 DEF Form!TypeOK, FInv, FTypes, IsBatch
    <2>7. QED
      BY <1>1, <1>3, <2>5, <2>6
  <1>4. QED
    BY <1>2, <1>3 DEF Form!Finish, HasTask

LEMMA KeepsStep ==
    ASSUME KInv, Form!Next \/ UNCHANGED formVars
    PROVE  KInv'
  <1>1. FInv'
    BY FormStep DEF KInv
  <1>2. CASE UNCHANGED formVars
    <2>1. Excused' = Excused
      BY <1>2 DEF Excused, formVars
    <2>2. KeepsInv' /\ Form!TypeOK' /\ errors' = errors
      BY <1>2, <2>1 DEF KInv, KeepsInv, Form!TypeOK, formVars
    <2>3. QED
      BY <1>1, <2>2 DEF KInv
  <1>3. QED
    BY <1>1, <1>2, EditHolds, ExpediteHolds, FlushHolds, DiscardHolds, AnswerHolds, WriteHolds, PruneHolds, FinishHolds
       DEF Form!Next, KInv

\* A form without unsaved edits shows what is stored and has pruned what a saved
\* retention promised; a dialog that a form asks in is one it can be answered in;
\* an update neither exits over unsaved changes nor takes the page away for good.
THEOREM FormKeeps == Spec => []FormKeepsItsWord
  <1>1. Init => KInv /\ DialogsInv
    BY KeepsInit, DialogsInit DEF Init
  <1>2. KInv /\ DialogsInv /\ [Next]_desktopVars => KInv' /\ DialogsInv'
    BY KeepsStep, DialogsStep DEF Next, desktopVars
  <1>3. KInv => Form!ShownIsStored /\ Form!ShorteningIsPruned
    BY EmptyBatch DEF KInv, KeepsInv, ShownInv, PromiseInv, Holds, Excused, Form!dirty, Form!ShownIsStored, Form!ShorteningIsPruned
  <1>4. DialogsInv => Dialogs!QuestionsAnswered /\ Dialogs!SavingAsksNobody
                      /\ Dialogs!PreparedIsSaved /\ Dialogs!InertForUpdate
    BY DEF DialogsInv, Answerable, OwnQuestion, Dialogs!QuestionsAnswered, Dialogs!Asking
  <1>5. KInv /\ DialogsInv => FormKeepsItsWord
    BY <1>3, <1>4 DEF FormKeepsItsWord
  <1>6. QED
    BY <1>1, <1>2, <1>5, PTL DEF Spec

\* What is queued by a page, and the answers on their way to it, are those of the
\* page there is; it asked for none of them after more events than it has seen.
AskedInv(asks, given, subject) ==
    /\ subject = Nothing => given = {} /\ \A i \in DOMAIN asks : asks[i].from = "main"
    /\ subject # Nothing =>
          /\ \A i \in DOMAIN asks : asks[i].from = "mini" => asks[i].revision <= subject.revision
          /\ \A a \in given : a.revision <= subject.revision

\* The last preferences on their way are the host's; when none are, what the page
\* knows, and what an answer it will believe says, are the host's too.
Coming(sent) == \E i \in DOMAIN sent : sent[i] \in Windows!ShownPreferences
LastIs(sent, now) ==
    \A i \in DOMAIN sent : sent[i] \in Windows!ShownPreferences /\ sent[i] # now =>
        \E j \in DOMAIN sent : j > i /\ sent[j] \in Windows!ShownPreferences
KnownInv(subject, given, sent, phase, now) ==
    /\ sent # <<>> => phase = "loaded"
    /\ LastIs(sent, now)
    /\ subject # Nothing =>
          /\ phase # "none"
          /\ subject.known # Nothing => subject.known = subject.preferences
          /\ subject.known = Nothing => subject.revision = 0
          /\ phase = "loaded" /\ ~Coming(sent) =>
                /\ subject.known # Nothing => subject.known = now
                /\ \A a \in given : a.revision = subject.revision => a.value = now

\* Rows belong to the range they name: the flight's query is that of its revision.
Belongs(list) == list.rows \in {Nothing, list.range}
RowsBelong(sent) == \A i \in DOMAIN sent : sent[i] \in Windows!Rows => Belongs(sent[i])
RowsInv(flying, version, selected, list, sent, subject) ==
    /\ flying # Nothing => flying.revision <= version /\ (flying.revision = version => flying.range = selected)
    /\ list \in {Nothing, selected}
    /\ RowsBelong(sent)
    /\ subject # Nothing /\ subject.result # Nothing =>
          Belongs(subject.result) /\ subject.result.range = subject.preferences.miniRange

WindowsInv ==
    /\ Windows!TypeOK
    /\ mini = "none" <=> ~windowPreferences.miniWindow
    /\ AskedInv(saves, replies, miniPage)
    /\ KnownInv(miniPage, replies, messages, mini, Windows!Shown(windowPreferences))
    /\ RowsInv(miniFlight, miniRevision, windowPreferences.miniRange, miniSnapshot, messages, miniPage)

LEMMA EventsDiffer == Windows!ShownPreferences \cap Windows!Rows = {}
  <1>1. \A e \in Windows!ShownPreferences : DOMAIN e = {"miniExpanded", "miniRange"}
    BY DEF Windows!ShownPreferences
  <1>2. \A e \in Windows!Rows : DOMAIN e = {"range", "rows"}
    BY DEF Windows!Rows
  <1>3. QED
    BY <1>1, <1>2

LEMMA SendShown ==
    ASSUME NEW sent \in Seq(Windows!ShownPreferences \cup Windows!Rows), NEW now \in Windows!ShownPreferences
    PROVE  LET more == Append(sent, now)
           IN  more \in Seq(Windows!ShownPreferences \cup Windows!Rows) /\ LastIs(more, now) /\ Coming(more)
  BY DEF LastIs, Coming

LEMMA SendRows ==
    ASSUME NEW sent \in Seq(Windows!ShownPreferences \cup Windows!Rows), NEW list \in Windows!Rows, NEW now,
           LastIs(sent, now)
    PROVE  LET more == Append(sent, list)
           IN  more \in Seq(Windows!ShownPreferences \cup Windows!Rows) /\ LastIs(more, now) /\ (Coming(more) <=> Coming(sent))
  <1> DEFINE more == Append(sent, list)
  <1>1. list \notin Windows!ShownPreferences
    BY EventsDiffer
  <1>2. /\ more \in Seq(Windows!ShownPreferences \cup Windows!Rows) /\ Len(more) = Len(sent) + 1
        /\ \A i \in DOMAIN sent : i \in DOMAIN more /\ more[i] = sent[i]
        /\ \A i \in DOMAIN more : (i \in DOMAIN sent) \/ more[i] = list
    OBVIOUS
  <1> HIDE DEF more
  <1>3. Coming(more) <=> Coming(sent)
    BY <1>1, <1>2 DEF Coming
  <1>4. LastIs(more, now)
    BY <1>1, <1>2 DEF LastIs
  <1>5. QED
    BY <1>2, <1>3, <1>4 DEF more

LEMMA ListHeard ==
    ASSUME NEW sent \in Seq(Windows!ShownPreferences \cup Windows!Rows), sent # <<>>, NEW now, LastIs(sent, now)
    PROVE  LET rest == Tail(sent)
           IN  /\ rest \in Seq(Windows!ShownPreferences \cup Windows!Rows) /\ LastIs(rest, now)
               /\ Head(sent) \in Windows!ShownPreferences \cup Windows!Rows
               /\ Head(sent) \in Windows!Rows => (Coming(rest) <=> Coming(sent))
               /\ Head(sent) \in Windows!ShownPreferences /\ ~Coming(rest) => Head(sent) = now
  <1> DEFINE rest == Tail(sent)
  <1>1. /\ rest \in Seq(Windows!ShownPreferences \cup Windows!Rows) /\ Len(rest) = Len(sent) - 1 /\ Head(sent) = sent[1]
        /\ \A i \in DOMAIN rest : i + 1 \in DOMAIN sent /\ rest[i] = sent[i + 1]
        /\ \A i \in DOMAIN sent : i # 1 => i - 1 \in DOMAIN rest /\ sent[i] = rest[i - 1]
        /\ 1 \in DOMAIN sent /\ DOMAIN rest \subseteq Nat /\ DOMAIN sent \subseteq Nat
    OBVIOUS
  <1> HIDE DEF rest
  <1>2. LastIs(rest, now)
    <2> SUFFICES ASSUME NEW i \in DOMAIN rest, rest[i] \in Windows!ShownPreferences, rest[i] # now
                 PROVE  \E j \in DOMAIN rest : j > i /\ rest[j] \in Windows!ShownPreferences
      BY DEF LastIs
    <2>1. i \in Nat /\ i + 1 \in DOMAIN sent /\ sent[i + 1] \in Windows!ShownPreferences /\ sent[i + 1] # now
      BY <1>1
    <2>2. PICK j \in DOMAIN sent : j > i + 1 /\ sent[j] \in Windows!ShownPreferences
      BY <2>1 DEF LastIs
    <2>3. j \in Nat /\ j # 1
      BY <1>1, <2>1, <2>2
    <2>4. j - 1 \in DOMAIN rest /\ rest[j - 1] \in Windows!ShownPreferences /\ j - 1 > i
      BY <1>1, <2>1, <2>2, <2>3
    <2>5. QED
      BY <2>4
  <1>3. Head(sent) \in Windows!Rows => (Coming(rest) <=> Coming(sent))
    BY <1>1, EventsDiffer DEF Coming
  <1>4. Head(sent) \in Windows!ShownPreferences /\ ~Coming(rest) => Head(sent) = now
    <2> SUFFICES ASSUME Head(sent) \in Windows!ShownPreferences, ~Coming(rest), Head(sent) # now
                 PROVE  FALSE
      OBVIOUS
    <2>1. PICK j \in DOMAIN sent : j > 1 /\ sent[j] \in Windows!ShownPreferences
      BY <1>1 DEF LastIs
    <2>2. j - 1 \in DOMAIN rest /\ rest[j - 1] \in Windows!ShownPreferences
      BY <1>1, <2>1
    <2>3. QED
      BY <2>2 DEF Coming
  <1>5. Head(sent) \in Windows!ShownPreferences \cup Windows!Rows
    BY <1>1
  <1>6. QED
    BY <1>1, <1>2, <1>3, <1>4, <1>5 DEF rest

\* What applicationUsage does: at most one list is sent and one flight started.
Sent(p, list, phase, sent, more) ==
    more = sent \/ (phase = "loaded" /\ more = Append(sent, Windows!Model(p, list)))
LEMMA Publishing ==
    ASSUME NEW p, NEW revision, NEW list, NEW phase, NEW sent, NEW refresh, NEW online,
           Windows!ApplicationUsage(p, revision, list, phase, sent, refresh, online)
    PROVE  /\ Sent(p, list, phase, sent, messages')
           /\ miniFlight' \in {miniFlight, Windows!Flight(p, revision)}
  BY DEF Windows!ApplicationUsage, Windows!Publish, Sent

LEMMA SendingKeeps ==
    ASSUME NEW p \in Windows!Preferences, NEW list \in {Nothing, p.miniRange}, NEW phase, NEW more, NEW now,
           NEW sent \in Seq(Windows!ShownPreferences \cup Windows!Rows), Sent(p, list, phase, sent, more)
    PROVE  /\ more \in Seq(Windows!ShownPreferences \cup Windows!Rows)
           /\ (sent # <<>> => phase = "loaded") => (more # <<>> => phase = "loaded")
           /\ LastIs(sent, now) => LastIs(more, now) /\ (Coming(more) <=> Coming(sent))
           /\ RowsBelong(sent) => RowsBelong(more)
  <1>1. CASE more = sent
    BY <1>1
  <1>2. CASE phase = "loaded" /\ more = Append(sent, Windows!Model(p, list))
    <2> DEFINE model == Windows!Model(p, list)
    <2>1. model \in Windows!Rows /\ Belongs(model)
      BY DEF Windows!Model, Windows!Rows, Windows!Preferences, Belongs
    <2> HIDE DEF model
    <2>2. more = Append(sent, model)
      BY <1>2 DEF model
    <2>3. \A i \in DOMAIN more : more[i] = model \/ (i \in DOMAIN sent /\ more[i] = sent[i])
      BY <2>2, <2>1
    <2>4. RowsBelong(sent) => RowsBelong(more)
      BY <2>1, <2>3 DEF RowsBelong
    <2>5. more \in Seq(Windows!ShownPreferences \cup Windows!Rows)
      BY <2>1, <2>2
    <2>6. LastIs(sent, now) => LastIs(more, now) /\ (Coming(more) <=> Coming(sent))
      BY <2>1, <2>2, SendRows
    <2>7. QED
      BY <1>2, <2>4, <2>5, <2>6
  <1>3. QED
    BY <1>1, <1>2 DEF Sent

LEMMA ShownOf ==
    ASSUME NEW p \in Windows!Preferences
    PROVE  /\ Windows!Shown(p) \in Windows!ShownPreferences /\ Windows!Shown(p).miniRange = p.miniRange
           /\ p.miniRange \in MiniRanges /\ p.miniExpanded \in BOOLEAN /\ p.miniWindow \in BOOLEAN
  BY DEF Windows!Shown, Windows!ShownPreferences, Windows!Preferences

LEMMA WindowsInit ==
    ASSUME Windows!Init
    PROVE  WindowsInv
  <1>1. /\ windowPreferences \in Windows!Preferences /\ mini = IF windowPreferences.miniWindow THEN "loading" ELSE "none"
        /\ saves = <<>> /\ miniSnapshot = Nothing /\ miniFlight = Nothing /\ miniRevision = 0
        /\ miniSnapshotRevision = -1 /\ miniPage = Nothing /\ messages = <<>> /\ replies = {} /\ requests = 0
    BY DEF Windows!Init
  <1>2. Windows!TypeOK
    BY <1>1, ShownOf, BoundsAssumption DEF Windows!TypeOK
  <1>3. AskedInv(saves, replies, miniPage)
    BY <1>1 DEF AskedInv
  <1>4. KnownInv(miniPage, replies, messages, mini, Windows!Shown(windowPreferences))
    BY <1>1 DEF KnownInv, LastIs
  <1>5. RowsInv(miniFlight, miniRevision, windowPreferences.miniRange, miniSnapshot, messages, miniPage)
    BY <1>1 DEF RowsInv, RowsBelong
  <1>6. QED
    BY <1>1, <1>2, <1>3, <1>4, <1>5, ShownOf DEF WindowsInv

LEMMA ListKeeps ==
    ASSUME WindowsInv,
           (\E ok, online \in BOOLEAN : Windows!FlightEnds(ok, online))
             \/ (\E stale, online \in BOOLEAN : Windows!PublishLive(stale, online))
    PROVE  WindowsInv'
  <1> DEFINE aim == windowPreferences.miniRange
  <1>1. /\ UNCHANGED <<windowPreferences, saves, mini, miniRevision, miniPage, replies, requests>>
        /\ miniSnapshot' \in {miniSnapshot, Nothing, aim}
        /\ miniSnapshotRevision' \in {miniSnapshotRevision, miniRevision}
        /\ miniFlight' \in {miniFlight, Nothing, Windows!Flight(windowPreferences, miniRevision)}
        /\ Sent(windowPreferences, miniSnapshot', mini, messages, messages')
    <2>1. CASE \E ok, online \in BOOLEAN : Windows!FlightEnds(ok, online)
      <3>1. PICK ok \in BOOLEAN, online \in BOOLEAN : Windows!FlightEnds(ok, online)
        BY <2>1
      <3>2. miniFlight.revision = miniRevision => miniFlight.range = aim
        BY <3>1 DEF Windows!FlightEnds, WindowsInv, RowsInv
      <3>3. messages' \in {messages, Windows!Publish(windowPreferences, miniSnapshot', mini, messages)}
        BY <3>1 DEF Windows!FlightEnds
      <3>4. Sent(windowPreferences, miniSnapshot', mini, messages, messages')
        BY <3>3 DEF Sent, Windows!Publish
      <3>5. QED
        BY <3>1, <3>2, <3>4 DEF Windows!FlightEnds
    <2>2. CASE \E stale, online \in BOOLEAN : Windows!PublishLive(stale, online)
      BY <2>2, Publishing DEF Windows!PublishLive
    <2>3. QED
      BY <2>1, <2>2
  <1>2. /\ windowPreferences \in Windows!Preferences /\ messages \in Seq(Windows!ShownPreferences \cup Windows!Rows)
        /\ miniSnapshot' \in {Nothing, aim} /\ aim \in MiniRanges /\ miniRevision \in Nat
    BY <1>1, ShownOf DEF WindowsInv, Windows!TypeOK, RowsInv
  <1>3. /\ messages' \in Seq(Windows!ShownPreferences \cup Windows!Rows)
        /\ messages' # <<>> => mini = "loaded"
        /\ LastIs(messages', Windows!Shown(windowPreferences)) /\ (Coming(messages') <=> Coming(messages))
        /\ RowsBelong(messages')
    <2> DEFINE list == miniSnapshot'
               more == messages'
               now == Windows!Shown(windowPreferences)
    <2>1. (messages # <<>> => mini = "loaded") /\ LastIs(messages, now) /\ RowsBelong(messages)
      BY DEF WindowsInv, KnownInv, RowsInv
    <2>2. list \in {Nothing, aim} /\ Sent(windowPreferences, list, mini, messages, more)
      BY <1>1, <1>2
    <2> HIDE DEF list, more, now
    <2>3. messages \in Seq(Windows!ShownPreferences \cup Windows!Rows) /\ windowPreferences \in Windows!Preferences
      BY <1>2
    <2>4. /\ more \in Seq(Windows!ShownPreferences \cup Windows!Rows)
          /\ (messages # <<>> => mini = "loaded") => (more # <<>> => mini = "loaded")
          /\ LastIs(messages, now) => LastIs(more, now) /\ (Coming(more) <=> Coming(messages))
          /\ RowsBelong(messages) => RowsBelong(more)
      BY <2>2, <2>3, SendingKeeps
    <2>5. QED
      BY <2>1, <2>4 DEF more, now
  <1>4. /\ Windows!Flight(windowPreferences, miniRevision) \in [revision : Nat, range : MiniRanges]
        /\ Windows!Flight(windowPreferences, miniRevision).revision = miniRevision
        /\ Windows!Flight(windowPreferences, miniRevision).range = aim
    BY <1>2 DEF Windows!Flight
  <1>5. Windows!TypeOK'
    BY <1>1, <1>2, <1>3, <1>4 DEF WindowsInv, Windows!TypeOK
  <1>6. AskedInv(saves, replies, miniPage)'
    BY <1>1 DEF WindowsInv, AskedInv
  <1>7. KnownInv(miniPage, replies, messages, mini, Windows!Shown(windowPreferences))'
    BY <1>1, <1>3 DEF WindowsInv, KnownInv, Windows!Shown
  <1>8. RowsInv(miniFlight, miniRevision, aim, miniSnapshot, messages, miniPage)'
    BY <1>1, <1>2, <1>3, <1>4 DEF WindowsInv, RowsInv
  <1>9. QED
    BY <1>1, <1>5, <1>6, <1>7, <1>8 DEF WindowsInv

LEMMA Starting ==
    ASSUME Windows!PageStarts
    PROVE  /\ UNCHANGED <<windowPreferences, mini, miniSnapshot, miniFlight, miniRevision, miniSnapshotRevision, messages,
                          replies, requests>>
           /\ miniPage = Nothing /\ mini # "none" /\ miniPage' \in Windows!Pages /\ miniPage' # Nothing
           /\ miniPage'.known = Nothing /\ miniPage'.revision = 0 /\ miniPage'.result = Nothing
           /\ saves' = Append(saves, [from |-> "mini", patch |-> <<>>, revision |-> 0])
  <1> DEFINE blank == [preferences |-> [miniExpanded |-> FALSE, miniRange |-> CHOOSE range \in MiniRanges : TRUE],
                       known |-> Nothing, revision |-> 0, result |-> Nothing]
  <1>1. (CHOOSE range \in MiniRanges : TRUE) \in MiniRanges
    BY NothingAssumption
  <1>2. blank \in Windows!Pages /\ blank.known = Nothing /\ blank.revision = 0 /\ blank.result = Nothing
    BY <1>1 DEF Windows!Pages, Windows!ShownPreferences
  <1>3. miniPage' = blank
    BY DEF Windows!PageStarts
  <1> HIDE DEF blank
  <1>4. QED
    BY <1>2, <1>3, NothingAssumption DEF Windows!PageStarts, Windows!usageVars

LEMMA AskKeeps ==
    ASSUME WindowsInv,
           Windows!PageStarts \/ (\E from \in {"mini", "main"} : \E patch \in Windows!Patches(from) : Windows!Request(from, patch))
    PROVE  WindowsInv'
  <1>1. /\ UNCHANGED <<windowPreferences, mini, miniSnapshot, miniFlight, miniRevision, miniSnapshotRevision, messages, replies>>
        /\ requests' \in {requests, requests + 1} /\ requests' \in 0..MaxRequests
        /\ miniPage # Nothing => miniPage' = miniPage
        /\ miniPage = Nothing /\ miniPage' # Nothing =>
               /\ mini # "none" /\ miniPage'.known = Nothing /\ miniPage'.revision = 0
               /\ miniPage'.result = Nothing /\ miniPage' \in Windows!Pages
    <2>1. CASE Windows!PageStarts
      BY <2>1, Starting DEF WindowsInv, Windows!TypeOK
    <2>2. CASE \E from \in {"mini", "main"} : \E patch \in Windows!Patches(from) : Windows!Request(from, patch)
      <3>1. PICK from \in {"mini", "main"} : \E patch \in Windows!Patches(from) : Windows!Request(from, patch)
        BY <2>2
      <3>2. /\ UNCHANGED <<windowPreferences, mini, miniSnapshot, miniFlight, miniRevision, miniSnapshotRevision, messages, replies>>
            /\ requests < MaxRequests /\ requests' = requests + 1 /\ miniPage' = miniPage
        BY <3>1 DEF Windows!Request, Windows!usageVars, Windows!pageVars
      <3>3. requests \in Nat /\ MaxRequests \in Nat
        BY BoundsAssumption DEF WindowsInv, Windows!TypeOK
      <3>4. requests' \in 0..MaxRequests
        BY <3>2, <3>3
      <3>5. QED
        BY <3>2, <3>4
    <2>3. QED
      BY <2>1, <2>2
  <1>2. PICK o \in Windows!Operation :
            saves' = Append(saves, o) /\ (o.from = "mini" => miniPage' # Nothing /\ o.revision = miniPage'.revision)
    <2>1. CASE Windows!PageStarts
      <3> DEFINE o == [from |-> "mini", patch |-> <<>>, revision |-> 0]
      <3>1. saves' = Append(saves, o) /\ miniPage' # Nothing /\ miniPage'.revision = 0
        BY <2>1, Starting
      <3>2. o \in Windows!Operation
        BY DEF Windows!Operation
      <3>3. QED
        BY <3>1, <3>2
    <2>2. CASE \E from \in {"mini", "main"} : \E patch \in Windows!Patches(from) : Windows!Request(from, patch)
      <3>1. PICK from \in {"mini", "main"} : \E patch \in Windows!Patches(from) : Windows!Request(from, patch)
        BY <2>2
      <3>2. PICK patch \in Windows!Patches(from) : Windows!Request(from, patch)
        BY <3>1
      <3>3. CASE from = "mini"
        <4> DEFINE o == [from |-> "mini", patch |-> patch, revision |-> miniPage.revision]
        <4>1. miniPage # Nothing /\ saves' = Append(saves, o) /\ miniPage' = miniPage
          BY <3>2, <3>3 DEF Windows!Request, Windows!pageVars
        <4>2. miniPage.revision \in Nat
          BY <4>1 DEF WindowsInv, Windows!TypeOK, Windows!Pages
        <4>3. o \in Windows!Operation
          BY <3>3, <4>2 DEF Windows!Operation
        <4>4. QED
          BY <4>1, <4>3
      <3>4. CASE from = "main"
        <4> DEFINE o == [from |-> "main", patch |-> patch]
        <4>1. saves' = Append(saves, o)
          BY <3>2, <3>4 DEF Windows!Request
        <4>2. o \in Windows!Operation /\ o.from = "main"
          BY <3>4 DEF Windows!Operation
        <4>3. QED
          BY <4>1, <4>2
      <3>5. QED
        BY <3>1, <3>3, <3>4
    <2>3. QED
      BY <2>1, <2>2
  <1>3. saves \in Seq(Windows!Operation) /\ saves' \in Seq(Windows!Operation)
    BY <1>2 DEF WindowsInv, Windows!TypeOK
  <1>4. \A i \in DOMAIN saves' : saves'[i] = o \/ (i \in DOMAIN saves /\ saves'[i] = saves[i])
    BY <1>2, <1>3
  <1>5. Windows!TypeOK'
    BY <1>1, <1>3 DEF WindowsInv, Windows!TypeOK
  <1>6. AskedInv(saves, replies, miniPage)'
    <2>1. CASE miniPage' = Nothing
      <3>1. \A i \in DOMAIN saves : saves[i] \in Windows!Operation
        BY <1>3
      <3>2. o.from \in {"mini", "main"}
        BY DEF Windows!Operation
      <3>3. QED
        BY <1>1, <1>2, <1>4, <2>1, <3>2 DEF WindowsInv, AskedInv
    <2>2. CASE miniPage' # Nothing
      <3>1. miniPage'.revision \in Nat
        BY <1>5, <2>2 DEF Windows!TypeOK, Windows!Pages
      <3>2. CASE miniPage = Nothing
        BY <1>1, <1>2, <1>4, <2>2, <3>1, <3>2 DEF WindowsInv, AskedInv
      <3>3. CASE miniPage # Nothing
        BY <1>1, <1>2, <1>4, <2>2, <3>1, <3>3 DEF WindowsInv, AskedInv
      <3>4. QED
        BY <3>2, <3>3
    <2>3. QED
      BY <2>1, <2>2
  <1>7. KnownInv(miniPage, replies, messages, mini, Windows!Shown(windowPreferences))'
    BY <1>1 DEF WindowsInv, AskedInv, KnownInv, Windows!Shown
  <1>8. RowsInv(miniFlight, miniRevision, windowPreferences.miniRange, miniSnapshot, messages, miniPage)'
    BY <1>1 DEF WindowsInv, RowsInv
  <1>9. QED
    BY <1>1, <1>5, <1>6, <1>7, <1>8 DEF WindowsInv

LEMMA HeadAsked ==
    ASSUME WindowsInv, saves # <<>>
    PROVE  /\ Head(saves) \in Windows!Operation /\ Tail(saves) \in Seq(Windows!Operation)
           /\ Head(saves).from = "mini" => miniPage # Nothing /\ Head(saves).revision <= miniPage.revision
           /\ \A i \in DOMAIN Tail(saves) : i + 1 \in DOMAIN saves /\ Tail(saves)[i] = saves[i + 1]
  <1>1. saves \in Seq(Windows!Operation)
    BY DEF WindowsInv, Windows!TypeOK
  <1>2. Head(saves) = saves[1] /\ 1 \in DOMAIN saves
    BY <1>1
  <1>3. Tail(saves) \in Seq(Windows!Operation) /\ (\A i \in DOMAIN Tail(saves) : i + 1 \in DOMAIN saves /\ Tail(saves)[i] = saves[i + 1])
    BY <1>1
  <1>4. Head(saves) \in Windows!Operation
    BY <1>1, <1>2
  <1>5. Head(saves).from = "mini" => miniPage # Nothing /\ Head(saves).revision <= miniPage.revision
    BY <1>2 DEF WindowsInv, AskedInv
  <1>6. QED
    BY <1>3, <1>4, <1>5

LEMMA ReadKeeps ==
    ASSUME WindowsInv, Windows!UpdateFails \/ Windows!Read
    PROVE  WindowsInv'
  <1>1. /\ UNCHANGED <<windowPreferences, mini, miniSnapshot, miniFlight, miniRevision, miniSnapshotRevision, messages, miniPage,
                       requests>>
        /\ saves # <<>> /\ saves' = Tail(saves)
        /\ \/ replies' = replies
           \/ /\ Head(saves).from # "main"
              /\ replies' = replies \cup {[revision |-> Head(saves).revision, value |-> Windows!Shown(windowPreferences)]}
    BY DEF Windows!UpdateFails, Windows!Read, Windows!usageVars, Windows!pageVars
  <1>2. /\ windowPreferences \in Windows!Preferences
        /\ miniPage # Nothing => miniPage.revision \in Nat /\ miniPage.known \in Windows!ShownPreferences \cup {Nothing}
    BY DEF WindowsInv, Windows!TypeOK, Windows!Pages
  <1>3. Head(saves).from # "main" => Head(saves).from = "mini" /\ Head(saves).revision \in Nat
    BY <1>1, HeadAsked DEF Windows!Operation
  <1>4. Windows!TypeOK'
    BY <1>1, <1>2, <1>3, HeadAsked, ShownOf DEF WindowsInv, Windows!TypeOK
  <1>5. AskedInv(saves, replies, miniPage)'
    <2>1. \A i \in DOMAIN saves' : i + 1 \in DOMAIN saves /\ saves'[i] = saves[i + 1]
      BY <1>1, HeadAsked
    <2>2. miniPage = Nothing => replies' = {}
      BY <1>1, <1>3, HeadAsked DEF WindowsInv, AskedInv
    <2>3. miniPage # Nothing => \A a \in replies' : a.revision <= miniPage.revision
      BY <1>1, <1>3, HeadAsked DEF WindowsInv, AskedInv
    <2>4. QED
      BY <1>1, <2>1, <2>2, <2>3 DEF WindowsInv, AskedInv
  <1>6. KnownInv(miniPage, replies, messages, mini, Windows!Shown(windowPreferences))'
    BY <1>1, <1>2, <1>3, HeadAsked DEF WindowsInv, KnownInv, Windows!Shown
  <1>7. RowsInv(miniFlight, miniRevision, windowPreferences.miniRange, miniSnapshot, messages, miniPage)'
    BY <1>1 DEF WindowsInv, RowsInv
  <1>8. QED
    BY <1>1, <1>4, <1>5, <1>6, <1>7 DEF WindowsInv

LEMMA LoadKeeps ==
    ASSUME WindowsInv, Windows!Load
    PROVE  WindowsInv'
  <1> DEFINE now == Windows!Shown(windowPreferences)
             told1 == Append(messages, now)
  <1>1. /\ UNCHANGED <<windowPreferences, saves, miniSnapshot, miniRevision, miniSnapshotRevision, miniPage, replies, requests>>
        /\ mini = "loading" /\ mini' = "loaded"
        /\ Sent(windowPreferences, miniSnapshot, "loaded", told1, messages')
        /\ miniFlight' \in {miniFlight, Windows!Flight(windowPreferences, miniRevision)}
    <2>1. mini' = "loaded"
      BY DEF Windows!Load
    <2>2. PICK online \in BOOLEAN :
              Windows!ApplicationUsage(windowPreferences, miniRevision, miniSnapshot, "loaded", told1, FALSE, online)
      BY <2>1 DEF Windows!Load
    <2>3. QED
      BY <2>2, Publishing DEF Windows!Load
  <1>2. /\ windowPreferences \in Windows!Preferences /\ messages = <<>> /\ now \in Windows!ShownPreferences
        /\ miniSnapshot \in {Nothing, windowPreferences.miniRange} /\ windowPreferences.miniRange \in MiniRanges
        /\ miniRevision \in Nat
    BY <1>1, ShownOf DEF WindowsInv, KnownInv, Windows!TypeOK, RowsInv
  <1>3. /\ told1 \in Seq(Windows!ShownPreferences \cup Windows!Rows) /\ LastIs(told1, now) /\ Coming(told1)
        /\ RowsBelong(told1)
    <2>1. messages \in Seq(Windows!ShownPreferences \cup Windows!Rows)
      BY <1>2
    <2>2. told1[1] = now /\ DOMAIN told1 = {1}
      BY <1>2
    <2>3. QED
      BY <1>2, <2>1, <2>2, SendShown, EventsDiffer DEF RowsBelong
  <1> HIDE DEF now, told1
  <1>4. /\ messages' \in Seq(Windows!ShownPreferences \cup Windows!Rows) /\ LastIs(messages', now) /\ Coming(messages')
        /\ RowsBelong(messages')
    BY <1>1, <1>2, <1>3, SendingKeeps
  <1>5. /\ Windows!Flight(windowPreferences, miniRevision) \in [revision : Nat, range : MiniRanges]
        /\ Windows!Flight(windowPreferences, miniRevision).revision = miniRevision
        /\ Windows!Flight(windowPreferences, miniRevision).range = windowPreferences.miniRange
    BY <1>2 DEF Windows!Flight
  <1>6. Windows!TypeOK'
    BY <1>1, <1>4, <1>5 DEF WindowsInv, Windows!TypeOK
  <1>7. AskedInv(saves, replies, miniPage)'
    BY <1>1 DEF WindowsInv, AskedInv
  <1>8. KnownInv(miniPage, replies, messages, mini, Windows!Shown(windowPreferences))'
    BY <1>1, <1>4 DEF WindowsInv, KnownInv, Windows!Shown, now
  <1>9. RowsInv(miniFlight, miniRevision, windowPreferences.miniRange, miniSnapshot, messages, miniPage)'
    BY <1>1, <1>2, <1>4, <1>5 DEF WindowsInv, RowsInv
  <1>10. QED
    BY <1>1, <1>6, <1>7, <1>8, <1>9 DEF WindowsInv

LEMMA PatchedOf ==
    ASSUME NEW p \in Windows!Preferences, NEW o \in Windows!Operation
    PROVE  Windows!Patched(p, o.patch) \in Windows!Preferences
  <1>1. DOMAIN p = {"miniWindow", "miniExpanded", "miniRange"} /\ p.miniWindow \in BOOLEAN /\ p.miniExpanded \in BOOLEAN
        /\ p.miniRange \in MiniRanges
    BY DEF Windows!Preferences
  <1>2. o.patch \in [miniWindow : BOOLEAN] \cup [miniExpanded : BOOLEAN] \cup [miniRange : MiniRanges] \cup {<<>>}
    BY DEF Windows!Operation, Windows!Patches
  <1> DEFINE q == Windows!Patched(p, o.patch)
  <1>3. /\ "miniWindow" \in DOMAIN o.patch => o.patch["miniWindow"] \in BOOLEAN
        /\ "miniExpanded" \in DOMAIN o.patch => o.patch["miniExpanded"] \in BOOLEAN
        /\ "miniRange" \in DOMAIN o.patch => o.patch["miniRange"] \in MiniRanges
    <2>1. CASE o.patch = <<>>
      BY <2>1
    <2>2. CASE o.patch # <<>>
      BY <1>2, <2>2
    <2>3. QED
      BY <2>1, <2>2
  <1>4. q = [f \in {"miniWindow", "miniExpanded", "miniRange"} |-> IF f \in DOMAIN o.patch THEN o.patch[f] ELSE p[f]]
    BY <1>1 DEF Windows!Patched
  <1> HIDE DEF q
  <1>5. q["miniWindow"] \in BOOLEAN /\ q["miniExpanded"] \in BOOLEAN /\ q["miniRange"] \in MiniRanges
    BY <1>1, <1>3, <1>4
  <1>6. q = [miniWindow |-> q["miniWindow"], miniExpanded |-> q["miniExpanded"], miniRange |-> q["miniRange"]]
    BY <1>4
  <1>7. q \in Windows!Preferences
    BY <1>5, <1>6 DEF Windows!Preferences
  <1>8. QED
    BY <1>7 DEF q

LEMMA OrphanedOf ==
    ASSUME NEW asks \in Seq(Windows!Operation)
    PROVE  /\ Windows!Orphaned(asks) \in Seq(Windows!Operation)
           /\ \A i \in DOMAIN Windows!Orphaned(asks) : Windows!Orphaned(asks)[i].from = "main"
  <1> DEFINE left == Windows!Orphaned(asks)
             mains == [from : {"main"}, patch : Windows!Patches("main") \cup Windows!Patches("mini") \cup {<<>>}]
  <1>1. left = [i \in 1..Len(asks) |-> [from |-> "main", patch |-> asks[i].patch]] /\ Len(asks) \in Nat
    BY DEF Windows!Orphaned
  <1>2. \A i \in 1..Len(asks) : asks[i].patch \in Windows!Patches("main") \cup Windows!Patches("mini") \cup {<<>>}
    <2>1. \A i \in 1..Len(asks) : asks[i] \in Windows!Operation
      OBVIOUS
    <2>2. QED
      BY <2>1 DEF Windows!Operation
  <1>3. \A i \in 1..Len(asks) : left[i] \in mains /\ left[i].from = "main"
    BY <1>1, <1>2
  <1>4. mains \subseteq Windows!Operation
    BY DEF Windows!Operation
  <1>5. DOMAIN left = 1..Len(asks) /\ left = [i \in 1..Len(asks) |-> left[i]]
    BY <1>1
  <1> HIDE DEF left, mains
  <1>6. left \in Seq(Windows!Operation)
    BY <1>1, <1>3, <1>4, <1>5
  <1>7. QED
    BY <1>3, <1>5, <1>6 DEF left

\* What an update leaves of the window, and what is sent to it before the list.
WindowOf(p) == IF ~p.miniWindow THEN "none" ELSE IF mini = "none" THEN "loading" ELSE mini
Announced(p) ==
    IF WindowOf(p) = "none" THEN <<>>
    ELSE IF WindowOf(p) = "loaded" THEN Append(messages, Windows!Shown(p)) ELSE messages

LEMMA Updating ==
    ASSUME Windows!Update
    PROVE  LET o == Head(saves)
               next == Windows!Patched(windowPreferences, o.patch)
               changed == next.miniRange # windowPreferences.miniRange
               list == IF changed THEN Nothing ELSE miniSnapshot
           IN  /\ saves # <<>> /\ UNCHANGED <<miniSnapshotRevision, requests>>
               /\ windowPreferences' = next /\ mini' = WindowOf(next) /\ miniSnapshot' = list
               /\ miniRevision' = miniRevision + (IF changed THEN 1 ELSE 0)
               /\ Sent(next, list, WindowOf(next), Announced(next), messages')
               /\ miniFlight' \in {miniFlight, Windows!Flight(next, miniRevision')}
               /\ miniPage' = IF WindowOf(next) = "none" THEN Nothing ELSE miniPage
               /\ saves' = IF WindowOf(next) = "none" THEN Windows!Orphaned(Tail(saves)) ELSE Tail(saves)
               /\ replies' = IF WindowOf(next) = "none" THEN {}
                             ELSE IF o.from = "mini" /\ miniPage # Nothing
                             THEN replies \cup {[revision |-> o.revision, value |-> Windows!Shown(next)]} ELSE replies
  <1> DEFINE o == Head(saves)
             next == Windows!Patched(windowPreferences, o.patch)
             changed == next.miniRange # windowPreferences.miniRange
             list == IF changed THEN Nothing ELSE miniSnapshot
  <1>1. PICK online \in BOOLEAN :
            IF next.miniExpanded
            THEN Windows!ApplicationUsage(next, miniRevision', list, WindowOf(next), Announced(next), TRUE, online)
            ELSE messages' = Announced(next) /\ UNCHANGED miniFlight
    BY DEF Windows!Update, WindowOf, Announced
  <1>2. Sent(next, list, WindowOf(next), Announced(next), messages')
        /\ miniFlight' \in {miniFlight, Windows!Flight(next, miniRevision')}
    <2>1. CASE next.miniExpanded
      BY <1>1, <2>1, Publishing
    <2>2. CASE ~next.miniExpanded
      BY <1>1, <2>2 DEF Sent
    <2>3. QED
      BY <2>1, <2>2
  <1>3. QED
    BY <1>2 DEF Windows!Update, WindowOf

LEMMA UpdatingKeeps ==
    ASSUME WindowsInv, Windows!Update
    PROVE  WindowsInv'
  <1> DEFINE o == Head(saves)
             next == Windows!Patched(windowPreferences, o.patch)
             changed == next.miniRange # windowPreferences.miniRange
             list == IF changed THEN Nothing ELSE miniSnapshot
             phase == WindowOf(next)
             first == Announced(next)
             now == Windows!Shown(next)
  <1>1. /\ saves # <<>> /\ UNCHANGED <<miniSnapshotRevision, requests>>
        /\ windowPreferences' = next /\ mini' = phase /\ miniSnapshot' = list
        /\ miniRevision' = miniRevision + (IF changed THEN 1 ELSE 0)
        /\ Sent(next, list, phase, first, messages')
        /\ miniFlight' \in {miniFlight, Windows!Flight(next, miniRevision')}
        /\ miniPage' = IF phase = "none" THEN Nothing ELSE miniPage
        /\ saves' = IF phase = "none" THEN Windows!Orphaned(Tail(saves)) ELSE Tail(saves)
        /\ replies' = IF phase = "none" THEN {}
                      ELSE IF o.from = "mini" /\ miniPage # Nothing
                      THEN replies \cup {[revision |-> o.revision, value |-> now]} ELSE replies
    BY Updating
  <1>2. /\ o \in Windows!Operation /\ Tail(saves) \in Seq(Windows!Operation)
        /\ o.from = "mini" => miniPage # Nothing /\ o.revision <= miniPage.revision /\ o.revision \in Nat
        /\ \A i \in DOMAIN Tail(saves) : i + 1 \in DOMAIN saves /\ Tail(saves)[i] = saves[i + 1]
    BY <1>1, HeadAsked DEF Windows!Operation
  <1>3. windowPreferences \in Windows!Preferences /\ next \in Windows!Preferences
    BY <1>2, PatchedOf DEF WindowsInv, Windows!TypeOK
  <1>4. /\ now \in Windows!ShownPreferences /\ next.miniRange \in MiniRanges /\ next.miniWindow \in BOOLEAN
        /\ miniRevision \in Nat /\ miniRevision' \in Nat /\ list \in {Nothing, next.miniRange}
        /\ messages \in Seq(Windows!ShownPreferences \cup Windows!Rows)
    BY <1>1, <1>3, ShownOf DEF WindowsInv, Windows!TypeOK, RowsInv
  <1>5. /\ phase \in {"none", "loading", "loaded"} /\ (phase = "none" <=> ~next.miniWindow)
        /\ phase = "loaded" => mini = "loaded"
        /\ phase # "loaded" => mini # "loaded" \/ phase = "none"
    BY <1>4 DEF WindowOf, WindowsInv, Windows!TypeOK
  <1>6. /\ first \in Seq(Windows!ShownPreferences \cup Windows!Rows) /\ LastIs(first, now) /\ RowsBelong(first)
        /\ IF phase = "loaded" THEN Coming(first) ELSE first = <<>>
    <2>1. CASE phase = "loaded"
      <3>1. first = Append(messages, now)
        BY <2>1 DEF Announced
      <3> HIDE DEF first
      <3>2. RowsBelong(messages) /\ now \notin Windows!Rows
        BY <1>4, EventsDiffer DEF WindowsInv, RowsInv
      <3> HIDE DEF now
      <3>3. \A i \in DOMAIN first : first[i] = now \/ (i \in DOMAIN messages /\ first[i] = messages[i])
        BY <1>4, <3>1
      <3>4. RowsBelong(first)
        BY <3>2, <3>3 DEF RowsBelong
      <3>5. QED
        BY <1>4, <2>1, <3>1, <3>4, SendShown
    <2>2. CASE phase # "loaded"
      <3>1. first = <<>>
        BY <1>5, <2>2 DEF Announced, WindowsInv, KnownInv
      <3> HIDE DEF first, phase, now
      <3>2. QED
        BY <2>2, <3>1 DEF LastIs, RowsBelong
    <2>3. QED
      BY <2>1, <2>2
  <1>7. /\ messages' \in Seq(Windows!ShownPreferences \cup Windows!Rows) /\ LastIs(messages', now) /\ RowsBelong(messages')
        /\ IF phase = "loaded" THEN Coming(messages') ELSE messages' = <<>>
    <2>1. first # <<>> => phase = "loaded"
      BY <1>6
    <2> HIDE DEF first, now, list, next, phase
    <2>2. /\ messages' \in Seq(Windows!ShownPreferences \cup Windows!Rows) /\ LastIs(messages', now) /\ RowsBelong(messages')
          /\ (Coming(messages') <=> Coming(first))
      BY <1>1, <1>3, <1>4, <1>6, SendingKeeps
    <2>3. phase # "loaded" => messages' = first
      BY <1>1 DEF Sent
    <2>4. QED
      BY <1>6, <2>2, <2>3
  <1>8. /\ Windows!Flight(next, miniRevision') \in [revision : Nat, range : MiniRanges]
        /\ Windows!Flight(next, miniRevision').revision = miniRevision'
        /\ Windows!Flight(next, miniRevision').range = next.miniRange
    BY <1>4 DEF Windows!Flight
  <1>9. saves' \in Seq(Windows!Operation) /\ (phase = "none" => \A i \in DOMAIN saves' : saves'[i].from = "main")
    BY <1>1, <1>2, OrphanedOf
  <1>10. replies' \subseteq [revision : Nat, value : Windows!ShownPreferences]
    BY <1>1, <1>2, <1>4 DEF WindowsInv, Windows!TypeOK
  <1>11. Windows!TypeOK'
    BY <1>1, <1>3, <1>4, <1>5, <1>7, <1>8, <1>9, <1>10 DEF WindowsInv, Windows!TypeOK
  <1>12. AskedInv(saves, replies, miniPage)'
    <2>1. CASE phase = "none"
      BY <1>1, <1>9, <2>1 DEF AskedInv
    <2>2. CASE phase # "none"
      <3>1. miniPage' = miniPage /\ saves' = Tail(saves)
        BY <1>1, <2>2
      <3>2. miniPage = Nothing => replies' = {}
        BY <1>1, <2>2 DEF WindowsInv, AskedInv
      <3>3. miniPage # Nothing => \A a \in replies' : a.revision <= miniPage.revision
        BY <1>1, <1>2, <2>2 DEF WindowsInv, AskedInv
      <3>4. QED
        BY <1>2, <3>1, <3>2, <3>3 DEF WindowsInv, AskedInv
    <2>3. QED
      BY <2>1, <2>2
  <1>13. KnownInv(miniPage, replies, messages, mini, Windows!Shown(windowPreferences))'
    <2>1. /\ messages' # <<>> => mini' = "loaded"
          /\ mini' = "loaded" => Coming(messages')
          /\ LastIs(messages', now)
          /\ miniPage' # Nothing => mini' # "none" /\ miniPage' = miniPage
      BY <1>1, <1>7
    <2>2. Windows!Shown(windowPreferences)' = now
      BY <1>1 DEF Windows!Shown
    <2> HIDE DEF now
    <2>3. QED
      BY <2>1, <2>2 DEF WindowsInv, KnownInv
  <1>14. RowsInv(miniFlight, miniRevision, windowPreferences.miniRange, miniSnapshot, messages, miniPage)'
    <2>1. miniFlight' # Nothing => miniFlight'.revision <= miniRevision'
                                  /\ (miniFlight'.revision = miniRevision' => miniFlight'.range = next.miniRange)
      <3>1. CASE miniFlight' = miniFlight
        <4>1. miniFlight # Nothing => miniFlight.revision \in Nat
          BY DEF WindowsInv, Windows!TypeOK
        <4>2. QED
          BY <1>1, <1>4, <3>1, <4>1 DEF WindowsInv, RowsInv
      <3>2. CASE miniFlight' = Windows!Flight(next, miniRevision')
        BY <1>4, <1>8, <3>2
      <3>3. QED
        BY <1>1, <3>1, <3>2
    <2>2. miniPage' \in {miniPage, Nothing}
      BY <1>1
    <2>3. QED
      BY <1>1, <1>4, <1>7, <2>1, <2>2 DEF WindowsInv, RowsInv
  <1>15. (mini = "none" <=> ~windowPreferences.miniWindow)'
    BY <1>1, <1>5
  <1>16. QED
    BY <1>11, <1>12, <1>13, <1>14, <1>15 DEF WindowsInv

LEMMA AppliedOf ==
    ASSUME NEW p \in Windows!Pages, NEW v \in Windows!ShownPreferences
    PROVE  LET q == [Windows!Applied(p, v) EXCEPT !.known = v]
               n == [Windows!Applied(p, v) EXCEPT !.known = v, !.revision = @ + 1]
           IN  /\ q \in Windows!Pages /\ q.preferences = v /\ q.known = v /\ q.revision = p.revision
               /\ n \in Windows!Pages /\ n.preferences = v /\ n.known = v /\ n.revision = p.revision + 1
               /\ q.result # Nothing => q.result = p.result /\ v.miniRange = p.preferences.miniRange
               /\ n.result # Nothing => n.result = p.result /\ v.miniRange = p.preferences.miniRange
               /\ p.revision \in Nat
  <1> DEFINE a == Windows!Applied(p, v)
             list == IF v.miniRange # p.preferences.miniRange THEN Nothing ELSE p.result
  <1>1. p.result \in Windows!Rows \cup {Nothing} /\ p.revision \in Nat /\ p.known \in Windows!ShownPreferences \cup {Nothing}
    BY DEF Windows!Pages
  <1>2. a = [p EXCEPT !.preferences = v, !.result = list]
    BY DEF Windows!Applied
  <1>3. list \in Windows!Rows \cup {Nothing}
    BY <1>1
  <1>4. list # Nothing => list = p.result /\ v.miniRange = p.preferences.miniRange
    OBVIOUS
  <1> HIDE DEF list
  <1>5. a \in Windows!Pages /\ a.preferences = v /\ a.result = list /\ a.known = p.known /\ a.revision = p.revision
    BY <1>2, <1>3 DEF Windows!Pages
  <1> HIDE DEF a
  <1> DEFINE q == [a EXCEPT !.known = v]
             n == [a EXCEPT !.known = v, !.revision = @ + 1]
  <1>6. q \in Windows!Pages /\ q.preferences = v /\ q.known = v /\ q.revision = p.revision /\ q.result = list
    BY <1>5 DEF Windows!Pages
  <1>7. n \in Windows!Pages /\ n.preferences = v /\ n.known = v /\ n.revision = p.revision + 1 /\ n.result = list
    <2>1. DOMAIN a = {"preferences", "known", "revision", "result"}
      BY <1>5 DEF Windows!Pages
    <2> DEFINE m == [a EXCEPT !.known = v]
    <2>5. DOMAIN m = DOMAIN a /\ m.known = v /\ m.preferences = a.preferences /\ m.revision = a.revision /\ m.result = a.result
      BY <2>1
    <2>6. n = [m EXCEPT !.revision = a.revision + 1]
      OBVIOUS
    <2> HIDE DEF m, n
    <2>7. DOMAIN n = DOMAIN a /\ n.known = m.known /\ n.preferences = m.preferences /\ n.revision = a.revision + 1
          /\ n.result = m.result
      BY <2>1, <2>5, <2>6
    <2>8. n = [f \in DOMAIN a |-> n[f]]
      BY <2>6, <2>7
    <2>2. n = [preferences |-> v, known |-> v, revision |-> p.revision + 1, result |-> list]
      BY <1>5, <2>1, <2>5, <2>7, <2>8
    <2>3. p.revision + 1 \in Nat
      BY <1>1
    <2>4. QED
      BY <1>3, <2>2, <2>3 DEF Windows!Pages
  <1> HIDE DEF q, n
  <1>8. /\ q \in Windows!Pages /\ q.preferences = v /\ q.known = v /\ q.revision = p.revision
        /\ n \in Windows!Pages /\ n.preferences = v /\ n.known = v /\ n.revision = p.revision + 1
        /\ q.result # Nothing => q.result = p.result /\ v.miniRange = p.preferences.miniRange
        /\ n.result # Nothing => n.result = p.result /\ v.miniRange = p.preferences.miniRange
        /\ p.revision \in Nat
    BY <1>1, <1>4, <1>6, <1>7
  <1>9. QED
    BY <1>8 DEF q, n, a

LEMMA ReceiveKeeps ==
    ASSUME WindowsInv, Windows!Receive
    PROVE  WindowsInv'
  <1> DEFINE event == Head(messages)
             now == Windows!Shown(windowPreferences)
  <1>1. /\ UNCHANGED <<windowPreferences, saves, mini, miniSnapshot, miniFlight, miniRevision, miniSnapshotRevision, replies, requests>>
        /\ messages # <<>> /\ messages' = Tail(messages)
        /\ miniPage' = IF miniPage = Nothing THEN miniPage
                       ELSE IF event \in Windows!Rows THEN Windows!Rendered(miniPage, event)
                       ELSE [Windows!Applied(miniPage, event) EXCEPT !.known = event, !.revision = @ + 1]
    BY DEF Windows!Receive, Windows!usageVars
  <1>2. messages \in Seq(Windows!ShownPreferences \cup Windows!Rows) /\ LastIs(messages, now)
    BY DEF WindowsInv, Windows!TypeOK, KnownInv
  <1>3. /\ messages' \in Seq(Windows!ShownPreferences \cup Windows!Rows) /\ LastIs(messages', now)
        /\ event \in Windows!ShownPreferences \cup Windows!Rows
        /\ event \in Windows!Rows => (Coming(messages') <=> Coming(messages))
        /\ event \in Windows!ShownPreferences /\ ~Coming(messages') => event = now
    BY <1>1, <1>2, ListHeard
  <1>4. RowsBelong(messages') /\ (event \in Windows!Rows => Belongs(event))
    <2>1. RowsBelong(messages)
      BY DEF WindowsInv, RowsInv
    <2>2. 1 \in DOMAIN messages /\ event = messages[1]
          /\ \A i \in DOMAIN messages' : i + 1 \in DOMAIN messages /\ messages'[i] = messages[i + 1]
      BY <1>1, <1>2
    <2>3. QED
      BY <2>1, <2>2 DEF RowsBelong
  <1>5. mini = "loaded" /\ (messages' # <<>> => mini' = "loaded")
    BY <1>1 DEF WindowsInv, KnownInv
  <1> HIDE DEF event
  <1>6. CASE miniPage = Nothing
    <2>1. miniPage' = Nothing
      BY <1>1, <1>6
    <2>2. Windows!TypeOK'
      BY <1>1, <1>3, <2>1 DEF WindowsInv, Windows!TypeOK
    <2>3. KnownInv(miniPage, replies, messages, mini, Windows!Shown(windowPreferences))'
      BY <1>1, <1>3, <1>5, <2>1 DEF KnownInv, Windows!Shown
    <2>4. AskedInv(saves, replies, miniPage)'
      BY <1>1, <1>6, <2>1 DEF WindowsInv, AskedInv
    <2>5. RowsInv(miniFlight, miniRevision, windowPreferences.miniRange, miniSnapshot, messages, miniPage)'
      BY <1>1, <1>4, <2>1 DEF WindowsInv, RowsInv
    <2>6. QED
      BY <1>1, <2>2, <2>3, <2>4, <2>5 DEF WindowsInv
  <1>7. CASE miniPage # Nothing
    <2> DEFINE paper == miniPage'
    <2>1. miniPage \in Windows!Pages
      BY <1>7 DEF WindowsInv, Windows!TypeOK
    <2>2. CASE event \in Windows!Rows
      <3>1. paper = Windows!Rendered(miniPage, event)
        BY <1>1, <1>7, <2>2
      <3>2. /\ paper \in Windows!Pages /\ paper.preferences = miniPage.preferences /\ paper.known = miniPage.known
            /\ paper.revision = miniPage.revision
            /\ paper.result = miniPage.result \/ (paper.result = event /\ event.range = miniPage.preferences.miniRange)
        BY <2>1, <2>2, <3>1 DEF Windows!Pages, Windows!Rendered
      <3>3. paper # Nothing
        BY <3>2, NothingAssumption
      <3> HIDE DEF paper
      <3>4. Windows!TypeOK'
        BY <1>1, <1>3, <3>2 DEF WindowsInv, Windows!TypeOK, paper
      <3>5. AskedInv(saves, replies, miniPage)'
        BY <1>1, <1>7, <3>2, <3>3 DEF WindowsInv, AskedInv, paper
      <3>6. KnownInv(miniPage, replies, messages, mini, Windows!Shown(windowPreferences))'
        BY <1>1, <1>3, <1>5, <1>7, <2>2, <3>2, <3>3 DEF WindowsInv, KnownInv, Windows!Shown, paper
      <3>7. RowsInv(miniFlight, miniRevision, windowPreferences.miniRange, miniSnapshot, messages, miniPage)'
        BY <1>1, <1>4, <1>7, <2>2, <3>2, <3>3 DEF WindowsInv, RowsInv, paper
      <3>8. QED
        BY <1>1, <3>4, <3>5, <3>6, <3>7 DEF WindowsInv
    <2>3. CASE event \in Windows!ShownPreferences
      <3>1. event \notin Windows!Rows /\ event # Nothing
        BY <2>3, EventsDiffer, NothingAssumption
      <3>2. paper = [Windows!Applied(miniPage, event) EXCEPT !.known = event, !.revision = @ + 1]
        BY <1>1, <1>7, <3>1
      <3>5. /\ paper \in Windows!Pages /\ paper.preferences = event /\ paper.known = event
            /\ miniPage.revision \in Nat /\ paper.revision = miniPage.revision + 1
            /\ paper.result # Nothing => paper.result = miniPage.result /\ event.miniRange = miniPage.preferences.miniRange
        BY <2>1, <2>3, <3>2, AppliedOf
      <3>6. paper # Nothing
        BY <3>5, NothingAssumption
      <3> HIDE DEF paper
      <3>7. Windows!TypeOK'
        BY <1>1, <1>3, <3>5 DEF WindowsInv, Windows!TypeOK, paper
      <3>8. \A a \in replies : a.revision \in Nat /\ a.revision <= miniPage.revision
        BY <1>7 DEF WindowsInv, AskedInv, Windows!TypeOK
      <3>9. AskedInv(saves, replies, miniPage)'
        <4>1. \A i \in DOMAIN saves : saves[i].from = "mini" => saves[i].revision \in Nat /\ saves[i].revision <= miniPage.revision
          <5>1. \A i \in DOMAIN saves : saves[i] \in Windows!Operation
            BY DEF WindowsInv, Windows!TypeOK
          <5>2. QED
            BY <1>7, <5>1 DEF WindowsInv, AskedInv, Windows!Operation
        <4>2. QED
          BY <1>1, <3>5, <3>6, <3>8, <4>1 DEF AskedInv, paper
      <3>10. KnownInv(miniPage, replies, messages, mini, Windows!Shown(windowPreferences))'
        BY <1>1, <1>3, <1>5, <2>3, <3>1, <3>5, <3>6, <3>8 DEF KnownInv, Windows!Shown, paper
      <3>11. RowsInv(miniFlight, miniRevision, windowPreferences.miniRange, miniSnapshot, messages, miniPage)'
        BY <1>1, <1>4, <1>7, <3>5, <3>6 DEF WindowsInv, RowsInv, paper
      <3>12. QED
        BY <1>1, <3>7, <3>9, <3>10, <3>11 DEF WindowsInv
    <2>4. QED
      BY <1>3, <2>2, <2>3
  <1>8. QED
    BY <1>6, <1>7

LEMMA AnswerArrives ==
    ASSUME WindowsInv, NEW reply \in replies, Windows!Answer(reply)
    PROVE  WindowsInv'
  <1> DEFINE now == Windows!Shown(windowPreferences)
             said == Windows!Settle(reply)
             paper == miniPage'
  <1>1. /\ UNCHANGED <<windowPreferences, saves, mini, miniSnapshot, miniFlight, miniRevision, miniSnapshotRevision, messages, requests>>
        /\ replies' = replies \ {reply} /\ paper = [Windows!Applied(miniPage, said) EXCEPT !.known = said]
    BY DEF Windows!Answer, Windows!usageVars
  <1>2. miniPage # Nothing
    BY DEF WindowsInv, AskedInv
  <1>3. miniPage \in Windows!Pages /\ miniPage.revision \in Nat /\ reply.revision \in Nat /\ reply.revision <= miniPage.revision
        /\ reply.value \in Windows!ShownPreferences /\ miniPage.known \in Windows!ShownPreferences \cup {Nothing}
    BY <1>2 DEF WindowsInv, AskedInv, Windows!TypeOK, Windows!Pages
  <1>4. /\ said \in Windows!ShownPreferences /\ said # Nothing
        /\ mini = "loaded" /\ ~Coming(messages) => said = now
    BY <1>2, <1>3, NothingAssumption DEF Windows!Settle, WindowsInv, KnownInv
  <1> HIDE DEF said, now, paper
  <1>5. /\ paper \in Windows!Pages /\ paper.preferences = said /\ paper.known = said /\ paper.revision = miniPage.revision
        /\ paper.result # Nothing => paper.result = miniPage.result /\ said.miniRange = miniPage.preferences.miniRange
    BY <1>1, <1>3, <1>4, AppliedOf
  <1>6. paper # Nothing
    BY <1>5, NothingAssumption
  <1>7. Windows!TypeOK'
    BY <1>1, <1>5 DEF WindowsInv, Windows!TypeOK, paper
  <1>8. AskedInv(saves, replies, miniPage)'
    BY <1>1, <1>2, <1>5, <1>6 DEF WindowsInv, AskedInv, paper
  <1>9. KnownInv(miniPage, replies, messages, mini, Windows!Shown(windowPreferences))'
    BY <1>1, <1>2, <1>4, <1>5, <1>6 DEF WindowsInv, KnownInv, Windows!Shown, now, paper
  <1>10. RowsInv(miniFlight, miniRevision, windowPreferences.miniRange, miniSnapshot, messages, miniPage)'
    BY <1>1, <1>2, <1>5, <1>6 DEF WindowsInv, RowsInv, paper
  <1>11. QED
    BY <1>1, <1>7, <1>8, <1>9, <1>10 DEF WindowsInv

LEMMA WindowsStep ==
    ASSUME WindowsInv, Windows!Next \/ UNCHANGED windowsVars
    PROVE  WindowsInv'
  <1>1. CASE UNCHANGED windowsVars
    BY <1>1 DEF windowsVars, WindowsInv, Windows!TypeOK, AskedInv, KnownInv, RowsInv, Windows!Shown
  <1>2. QED
    BY <1>1, ListKeeps, AskKeeps, LoadKeeps, UpdatingKeeps, ReadKeeps, ReceiveKeeps, AnswerArrives DEF Windows!Next

\* The closing takes the action that was chosen when it began, which is that of the
\* update it still waits for, or the one in effect.
ChoiceInv ==
    /\ obeyed
    /\ closeFlight = "waiting" => asked = IF behind = 0 THEN closeChoice ELSE closeSaves[behind]

\* The last report on its way, or else what the host has, says what the host will have.
Reported(list, has, w) ==
    \/ \E i \in DOMAIN list :
          /\ list[i].event # "close" /\ list[i].state = w
          /\ \A j \in DOMAIN list : j > i => list[j].event = "close"
    \/ has = w /\ \A i \in DOMAIN list : list[i].event = "close"
SeenInv ==
    /\ sampled # Nothing => sampled = previous
    /\ orders = <<>> /\ previous = window => sampled # Nothing \/ Reported(reports, hostWindow, window)

\* The last that the page is told, or else what it has, is what the host has.
LastTold(list, hidden) == IF list = <<>> THEN ~hidden ELSE list[Len(list)]
ToldInv == ~swallowed => LastTold(tellings, nativeHidden) = Main!Visible(hostWindow)

MainInv == Main!TypeOK /\ ChoiceInv /\ SeenInv /\ ToldInv /\ Main!DataGetPainted

Reports == [event : {"visibility", "restore", "show", "hide", "bounds", "close"}, state : Main!Windows]
Orders == {"restore", "show", "hide", "focus"}

LEMMA ReportSent ==
    ASSUME NEW list \in Seq(Reports), NEW r \in Reports, NEW has, NEW w
    PROVE  LET more == Append(list, r)
           IN  /\ more \in Seq(Reports)
               /\ r.event # "close" /\ r.state = w => Reported(more, has, w)
               /\ r.event = "close" /\ Reported(list, has, w) => Reported(more, has, w)
  <1> DEFINE more == Append(list, r)
  <1>1. /\ more \in Seq(Reports) /\ Len(more) = Len(list) + 1 /\ Len(list) \in Nat /\ more[Len(more)] = r
        /\ DOMAIN list = 1..Len(list) /\ DOMAIN more = 1..Len(more)
        /\ \A i \in DOMAIN list : more[i] = list[i]
    OBVIOUS
  <1> HIDE DEF more
  <1>2. r.event # "close" /\ r.state = w => Reported(more, has, w)
    BY <1>1 DEF Reported
  <1>3. r.event = "close" /\ Reported(list, has, w) => Reported(more, has, w)
    BY <1>1 DEF Reported
  <1>4. QED
    BY <1>1, <1>2, <1>3 DEF more

LEMMA ReportHeard ==
    ASSUME NEW list \in Seq(Reports), list # <<>>, NEW has, NEW w, Reported(list, has, w)
    PROVE  /\ Tail(list) \in Seq(Reports) /\ Head(list) \in Reports
           /\ Reported(Tail(list), IF Head(list).event = "close" THEN has ELSE Head(list).state, w)
  <1> DEFINE rest == Tail(list)
             first == Head(list)
  <1>1. /\ rest \in Seq(Reports) /\ first = list[1] /\ 1 \in DOMAIN list
        /\ \A i \in DOMAIN rest : i + 1 \in DOMAIN list /\ rest[i] = list[i + 1]
        /\ \A i \in DOMAIN list : i # 1 => i - 1 \in DOMAIN rest /\ list[i] = rest[i - 1]
        /\ DOMAIN list \subseteq Nat \ {0} /\ DOMAIN rest \subseteq Nat \ {0}
    OBVIOUS
  <1>2. first \in Reports
    BY <1>1
  <1> HIDE DEF rest, first
  <1> DEFINE then == IF first.event = "close" THEN has ELSE first.state
  <1>7. (first.event = "close" => then = has) /\ (first.event # "close" => then = first.state)
    OBVIOUS
  <1> HIDE DEF then
  <1>3. has = w /\ (\A i \in DOMAIN list : list[i].event = "close") => Reported(rest, then, w)
    BY <1>1, <1>7 DEF Reported
  <1>4. ASSUME NEW i \in DOMAIN list, list[i].event # "close", list[i].state = w,
               \A j \in DOMAIN list : j > i => list[j].event = "close"
        PROVE  Reported(rest, then, w)
    <2>1. CASE i = 1
      <3>1. \A j \in DOMAIN rest : rest[j].event = "close"
        <4>1. \A j \in DOMAIN rest : j + 1 > 1
          BY <1>1
        <4>2. QED
          BY <1>1, <1>4, <2>1, <4>1
      <3>2. QED
        BY <1>1, <1>4, <1>7, <2>1, <3>1 DEF Reported
    <2>2. CASE i # 1
      <3>1. i - 1 \in DOMAIN rest /\ rest[i - 1] = list[i] /\ i \in Nat
        BY <1>1, <2>2
      <3>2. \A j \in DOMAIN rest : j > i - 1 => rest[j].event = "close"
        <4>1. \A j \in DOMAIN rest : j > i - 1 => j + 1 > i
          BY <1>1, <3>1
        <4>2. QED
          BY <1>1, <1>4, <4>1
      <3>3. QED
        BY <1>4, <3>1, <3>2 DEF Reported
    <2>3. QED
      BY <2>1, <2>2
  <1>5. Reported(rest, then, w)
    BY <1>3, <1>4 DEF Reported
  <1>6. QED
    BY <1>1, <1>2, <1>5 DEF rest, first, then

LEMMA ActsBounded == MaxActs \in Nat
  BY BoundsAssumption

LEMMA Appended ==
    ASSUME NEW S, NEW list \in Seq(S), NEW e \in S
    PROVE  Append(list, e) \in Seq(S) /\ Len(Append(list, e)) = Len(list) + 1 /\ Append(list, e) # <<>> /\ Len(list) \in Nat
  <1> DEFINE more == Append(list, e)
  <1>1. more \in Seq(S) /\ Len(more) = Len(list) + 1 /\ Len(list) \in Nat
    OBVIOUS
  <1> HIDE DEF more
  <1>2. more # <<>>
    <2>1. more = <<>> => Len(more) = 0
      OBVIOUS
    <2>2. QED
      BY <1>1, <2>1
  <1>3. QED
    BY <1>1, <1>2 DEF more

LEMMA TellSent ==
    ASSUME NEW list \in Seq(BOOLEAN), NEW seen \in BOOLEAN, NEW hidden
    PROVE  Append(list, seen) \in Seq(BOOLEAN) /\ LastTold(Append(list, seen), hidden) = seen
  BY DEF LastTold

LEMMA TellHeard ==
    ASSUME NEW list \in Seq(BOOLEAN), list # <<>>, NEW hidden \in BOOLEAN
    PROVE  /\ Tail(list) \in Seq(BOOLEAN) /\ Head(list) \in BOOLEAN
           /\ LastTold(Tail(list), ~Head(list)) = LastTold(list, hidden)
  <1> DEFINE rest == Tail(list)
             first == Head(list)
  <1>0. rest \in Seq(BOOLEAN) /\ Len(list) \in Nat /\ Len(list) # 0 /\ Len(rest) = Len(list) - 1
    OBVIOUS
  <1>1. first = list[1] /\ list[1] \in BOOLEAN
    OBVIOUS
  <1>4. rest = <<>> => Len(list) = 1
    <2> HIDE DEF rest
    <2>1. rest = <<>> => Len(rest) = 0
      OBVIOUS
    <2>2. QED
      BY <1>0, <2>1
  <1>5. rest # <<>> => rest[Len(rest)] = list[Len(list)]
    <2> SUFFICES ASSUME rest # <<>> PROVE rest[Len(rest)] = list[Len(list)]
      OBVIOUS
    <2>1. Len(rest) \in 1..Len(rest)
      BY <1>0
    <2>2. \A i \in 1..Len(rest) : rest[i] = list[i + 1]
      OBVIOUS
    <2>3. QED
      BY <1>0, <2>1, <2>2
  <1> HIDE DEF rest, first
  <1>2. LastTold(rest, ~first) = LastTold(list, hidden)
    <2>1. CASE rest = <<>>
      BY <1>0, <1>1, <1>4, <2>1 DEF LastTold
    <2>2. CASE rest # <<>>
      BY <1>0, <1>5, <2>2 DEF LastTold
    <2>3. QED
      BY <2>1, <2>2
  <1>3. QED
    BY <1>0, <1>1, <1>2 DEF rest, first

LEMMA MainInit ==
    ASSUME Main!Init
    PROVE  MainInv
  <1>1. /\ window = [shown |-> TRUE, minimized |-> FALSE] /\ hostWindow = window
        /\ previous = Nothing /\ sampled = Nothing /\ orders = <<>> /\ reports = <<>> /\ tellings = <<>> /\ swallowed = FALSE
        /\ nativeHidden = FALSE /\ documentHidden = FALSE /\ frame = FALSE /\ unpainted = FALSE
        /\ closeChoice = "tray" /\ closeSaves = <<>> /\ closeFlight = "none" /\ behind = 0
        /\ quitAsked = FALSE /\ quitting = FALSE /\ asked = "tray" /\ obeyed = TRUE /\ acts = 0
    BY DEF Main!Init
  <1>2. window \in Main!Windows /\ Main!Visible(hostWindow) = TRUE
    BY <1>1 DEF Main!Windows, Main!Visible
  <1>3. Main!TypeOK
    <2>1. {nativeHidden, documentHidden, frame, unpainted, quitAsked, quitting, obeyed, swallowed} \subseteq BOOLEAN
      BY <1>1
    <2>2. closeSaves \in Seq(Main!CloseActions) /\ behind \in 0..Len(closeSaves)
      BY <1>1
    <2>3. acts \in 0..MaxActs
      BY <1>1, BoundsAssumption
    <2>4. QED
      BY <1>1, <1>2, <2>1, <2>2, <2>3 DEF Main!TypeOK, Main!CloseActions
  <1>4. SeenInv
    BY <1>1 DEF SeenInv, Reported
  <1>5. QED
    BY <1>1, <1>2, <1>3, <1>4 DEF MainInv, ChoiceInv, ToldInv, LastTold, Main!DataGetPainted

\* The orders, reports and what is told remain sequences of their kind.
LEMMA QueuesTyped ==
    ASSUME MainInv
    PROVE  /\ orders \in Seq(Orders) /\ reports \in Seq(Reports) /\ tellings \in Seq(BOOLEAN) /\ closeSaves \in Seq(Main!CloseActions)
           /\ window \in Main!Windows /\ hostWindow \in Main!Windows
           /\ previous \in Main!Windows \cup {Nothing} /\ sampled \in Main!Windows \cup {Nothing}
           /\ nativeHidden \in BOOLEAN /\ documentHidden \in BOOLEAN /\ frame \in BOOLEAN /\ unpainted \in BOOLEAN
           /\ quitAsked \in BOOLEAN /\ quitting \in BOOLEAN /\ obeyed \in BOOLEAN /\ swallowed \in BOOLEAN
           /\ behind \in 0..Len(closeSaves) /\ acts \in 0..MaxActs
  BY DEF MainInv, Main!TypeOK, Orders, Reports

LEMMA ReportOf ==
    ASSUME NEW event \in {"visibility", "restore", "show", "hide", "bounds", "close"}, NEW w \in Main!Windows
    PROVE  Main!Report(event, w) \in Reports /\ Main!Report(event, w).event = event /\ Main!Report(event, w).state = w
  BY DEF Main!Report, Reports

\* The shell executes orders and sends what it sees and what the user does.
ShellActs ==
    Main!Execute \/ Main!ByUser \/ Main!Moves \/ Main!CloseRequested \/ Main!Sample \/ Main!SendSample

LEMMA ShellKeeps ==
    ASSUME MainInv, ShellActs
    PROVE  MainInv'
  <1>1. /\ UNCHANGED <<hostWindow, tellings, swallowed, nativeHidden, documentHidden, frame, unpainted, closeChoice, closeSaves,
                       closeFlight, behind, quitAsked, quitting, asked, obeyed>>
        /\ acts' \in {acts, acts + 1} /\ acts' \in 0..MaxActs
    BY QueuesTyped, ActsBounded DEF ShellActs, Main!Execute, Main!ByUser, Main!Moves, Main!CloseRequested, Main!Sample, Main!SendSample,
       Main!Act, Main!pageVars, Main!closeVars, Main!hostVars
  <1>2. /\ window' \in Main!Windows /\ previous' \in Main!Windows \cup {Nothing} /\ sampled' \in Main!Windows \cup {Nothing}
        /\ orders' \in Seq(Orders) /\ reports' \in Seq(Reports) /\ SeenInv'
    <2>1. CASE Main!Execute
      <3> DEFINE order == Head(orders)
                 r == Main!Report(IF order = "focus" THEN "bounds" ELSE order, window')
      <3>1. /\ orders # <<>> /\ orders' = Tail(orders) /\ reports' = Append(reports, r) /\ UNCHANGED <<previous, sampled>>
            /\ window' = CASE order = "restore" -> [window EXCEPT !.minimized = FALSE]
                           [] order = "show" -> [window EXCEPT !.shown = TRUE]
                           [] order = "hide" -> [window EXCEPT !.shown = FALSE]
                           [] OTHER -> window
        BY <2>1 DEF Main!Execute
      <3>2. order \in Orders /\ orders' \in Seq(Orders)
        <4>1. orders \in Seq(Orders) /\ orders # <<>>
          BY <3>1, QueuesTyped
        <4>2. QED
          BY <3>1, <4>1
      <3>3. window' \in Main!Windows
        <4>1. window \in Main!Windows
          BY QueuesTyped
        <4>2. [window EXCEPT !.minimized = FALSE] \in Main!Windows
          BY <4>1 DEF Main!Windows
        <4>3. [window EXCEPT !.shown = TRUE] \in Main!Windows /\ [window EXCEPT !.shown = FALSE] \in Main!Windows
          BY <4>1 DEF Main!Windows
        <4>4. QED
          BY <3>1, <4>1, <4>2, <4>3
      <3>4. r \in Reports /\ r.event # "close" /\ r.state = window'
        BY <3>2, <3>3, ReportOf DEF Orders
      <3> HIDE DEF r
      <3>5. reports' \in Seq(Reports) /\ Reported(reports', hostWindow, window')
        BY <3>1, <3>4, QueuesTyped, ReportSent
      <3>6. QED
        BY <1>1, <3>1, <3>2, <3>3, <3>5, QueuesTyped DEF MainInv, SeenInv
    <2>2. CASE Main!ByUser
      <3>1. /\ previous = window /\ UNCHANGED <<previous, sampled, reports, orders>>
            /\ window' \in {[window EXCEPT !.minimized = ~@], [shown |-> TRUE, minimized |-> FALSE]}
        BY <2>2 DEF Main!ByUser, Main!hostVars
      <3>2. window' \in Main!Windows
        <4>1. window \in Main!Windows /\ window.minimized \in BOOLEAN
          BY QueuesTyped DEF Main!Windows
        <4>2. [window EXCEPT !.minimized = ~@] \in Main!Windows
          BY <4>1 DEF Main!Windows
        <4>3. [shown |-> TRUE, minimized |-> FALSE] \in Main!Windows
          BY DEF Main!Windows
        <4>4. QED
          BY <3>1, <4>2, <4>3
      <3>3. QED
        BY <1>1, <3>1, <3>2, QueuesTyped DEF MainInv, SeenInv
    <2>3. CASE Main!Moves
      <3> DEFINE r == Main!Report("bounds", window)
      <3>1. reports' = Append(reports, r) /\ UNCHANGED <<window, previous, sampled, orders>>
        BY <2>3 DEF Main!Moves, Main!windowVars, Main!hostVars
      <3>2. r \in Reports /\ r.event # "close" /\ r.state = window
        BY QueuesTyped, ReportOf
      <3> HIDE DEF r
      <3>3. reports' \in Seq(Reports) /\ Reported(reports', hostWindow, window)
        BY <3>1, <3>2, QueuesTyped, ReportSent
      <3>4. QED
        BY <1>1, <3>1, <3>3, QueuesTyped DEF MainInv, SeenInv
    <2>4. CASE Main!CloseRequested
      <3> DEFINE r == Main!Report("close", window)
      <3>1. reports' = Append(reports, r) /\ UNCHANGED <<window, previous, sampled, orders>>
        BY <2>4 DEF Main!CloseRequested, Main!windowVars, Main!hostVars
      <3>2. r \in Reports /\ r.event = "close"
        BY QueuesTyped, ReportOf
      <3> HIDE DEF r
      <3>3. reports' \in Seq(Reports) /\ (Reported(reports, hostWindow, window) => Reported(reports', hostWindow, window))
        BY <3>1, <3>2, QueuesTyped, ReportSent
      <3>4. QED
        BY <1>1, <3>1, <3>3, QueuesTyped DEF MainInv, SeenInv
    <2>5. CASE Main!Sample
      <3>1. previous' = window /\ sampled' = window /\ UNCHANGED <<window, reports, orders>>
        BY <2>5 DEF Main!Sample, Main!hostVars
      <3>2. sampled' # Nothing
        BY <3>1, QueuesTyped, NothingAssumption
      <3>3. QED
        BY <3>1, <3>2, QueuesTyped DEF MainInv, SeenInv
    <2>6. CASE Main!SendSample
      <3> DEFINE r == Main!Report("visibility", sampled)
      <3>1. sampled # Nothing /\ reports' = Append(reports, r) /\ sampled' = Nothing /\ UNCHANGED <<window, previous, orders>>
        BY <2>6 DEF Main!SendSample, Main!hostVars
      <3>2. r \in Reports /\ r.event # "close" /\ r.state = sampled
        BY <3>1, QueuesTyped, ReportOf
      <3> HIDE DEF r
      <3>3. reports' \in Seq(Reports) /\ Reported(reports', hostWindow, sampled)
        BY <3>1, <3>2, QueuesTyped, ReportSent
      <3>4. QED
        BY <1>1, <3>1, <3>3, QueuesTyped DEF MainInv, SeenInv
    <2>7. QED
      BY <2>1, <2>2, <2>3, <2>4, <2>5, <2>6 DEF ShellActs
  <1>3. Main!TypeOK'
    BY <1>1, <1>2 DEF MainInv, Main!TypeOK, Orders, Reports
  <1>4. ToldInv' /\ ChoiceInv' /\ Main!DataGetPainted'
    BY <1>1 DEF MainInv, ToldInv, ChoiceInv, Main!DataGetPainted, Main!hidden, Main!Visible
  <1>5. QED
    BY <1>2, <1>3, <1>4 DEF MainInv

LEMMA TellingKeeps ==
    ASSUME MainInv, NEW w \in Main!Windows, hostWindow' = w, tellings' = Append(tellings, Main!Visible(w))
    PROVE  tellings' \in Seq(BOOLEAN) /\ ToldInv'
  <1>1. Main!Visible(w) \in BOOLEAN
    BY DEF Main!Visible, Main!Windows
  <1>2. /\ Append(tellings, Main!Visible(w)) \in Seq(BOOLEAN)
        /\ LastTold(Append(tellings, Main!Visible(w)), nativeHidden') = Main!Visible(w)
    BY <1>1, QueuesTyped, TellSent
  <1>3. Main!Visible(hostWindow)' = Main!Visible(w)
    BY DEF Main!Visible
  <1>4. QED
    BY <1>2, <1>3 DEF ToldInv

\* Hiding and showing the window order the shell, which reports it in turn.
Hides == Main!HideToTray \/ UNCHANGED <<hostWindow, orders, tellings, swallowed>>
LEMMA HidingKeeps ==
    ASSUME MainInv, Hides, UNCHANGED <<window, previous, sampled, reports, nativeHidden>>
    PROVE  /\ hostWindow' \in Main!Windows /\ orders' \in Seq(Orders) /\ tellings' \in Seq(BOOLEAN)
           /\ swallowed' = swallowed /\ SeenInv' /\ ToldInv'
  <1>1. CASE Main!HideToTray
    <2>1. /\ hostWindow' = [hostWindow EXCEPT !.shown = FALSE] /\ orders' = Append(orders, "hide")
          /\ tellings' = Append(tellings, Main!Visible(hostWindow')) /\ swallowed' = swallowed
      BY <1>1 DEF Main!HideToTray, Main!SendVisibility
    <2>2. hostWindow' \in Main!Windows
      BY <2>1, QueuesTyped DEF Main!Windows
    <2>3. orders' \in Seq(Orders) /\ orders' # <<>>
      <3>1. "hide" \in Orders
        BY DEF Orders
      <3>2. QED
        BY <2>1, <3>1, QueuesTyped, Appended
    <2>4. SeenInv'
      BY <2>3 DEF MainInv, SeenInv
    <2>5. QED
      BY <2>1, <2>2, <2>3, <2>4, TellingKeeps
  <1>2. CASE UNCHANGED <<hostWindow, orders, tellings, swallowed>>
    BY <1>2, QueuesTyped DEF MainInv, SeenInv, ToldInv, Main!Visible
  <1>3. QED
    BY <1>1, <1>2 DEF Hides

LEMMA ShowWindowKeeps ==
    ASSUME MainInv, Main!ShowWindow
    PROVE  MainInv'
  <1>1. /\ UNCHANGED <<window, previous, sampled, reports, swallowed, nativeHidden, documentHidden, frame, unpainted, closeChoice,
                       closeSaves, closeFlight, behind, quitAsked, quitting, asked, obeyed>>
        /\ acts' \in 0..MaxActs
        /\ hostWindow' = [shown |-> TRUE, minimized |-> FALSE]
        /\ orders' = orders \o (IF hostWindow.minimized THEN <<"restore">> ELSE <<>>) \o <<"show", "focus">>
        /\ tellings' = Append(tellings, Main!Visible(hostWindow'))
    BY QueuesTyped, ActsBounded DEF Main!ShowWindow, Main!SendVisibility, Main!Act, Main!windowVars, Main!pageVars, Main!closeVars
  <1>2. hostWindow' \in Main!Windows
    BY <1>1 DEF Main!Windows
  <1>3. orders' \in Seq(Orders) /\ orders' # <<>>
    <2> DEFINE first == orders \o (IF hostWindow.minimized THEN <<"restore">> ELSE <<>>)
    <2>1. first \in Seq(Orders)
      <3>1. <<"restore">> \in Seq(Orders) /\ <<>> \in Seq(Orders)
        BY DEF Orders
      <3>2. QED
        BY <3>1, QueuesTyped
    <2>2. orders' = first \o <<"show", "focus">> /\ <<"show", "focus">> \in Seq(Orders) /\ Len(<<"show", "focus">>) = 2
      BY <1>1 DEF Orders
    <2> HIDE DEF first
    <2>3. QED
      BY <2>1, <2>2
  <1>4. tellings' \in Seq(BOOLEAN) /\ ToldInv'
    BY <1>1, <1>2, TellingKeeps
  <1>5. Main!TypeOK'
    BY <1>1, <1>2, <1>3, <1>4 DEF MainInv, Main!TypeOK, Orders
  <1>6. SeenInv' /\ ChoiceInv' /\ Main!DataGetPainted'
    BY <1>1, <1>3 DEF MainInv, SeenInv, ChoiceInv, Main!DataGetPainted, Main!hidden
  <1>7. QED
    BY <1>4, <1>5, <1>6 DEF MainInv

\* The action of a close is known: the host hides the window or asks to quit.
LEMMA ClosingKeepsChoice ==
    ASSUME MainInv, NEW action \in {"tray", "exit"}, NEW remember \in BOOLEAN,
           Main!Close(action, remember) \/ Main!GivesUp,
           UNCHANGED <<window, previous, sampled, reports, nativeHidden, documentHidden, frame, unpainted, closeChoice, quitting, asked,
                       acts>>,
           obeyed'
    PROVE  MainInv'
  <1>1. Hides
    BY DEF Main!Close, Main!GivesUp, Hides, Main!hostVars
  <1>2. /\ hostWindow' \in Main!Windows /\ orders' \in Seq(Orders) /\ tellings' \in Seq(BOOLEAN)
        /\ swallowed' = swallowed /\ SeenInv' /\ ToldInv'
    BY <1>1, HidingKeeps
  <1>3. closeSaves' \in Seq(Main!CloseActions) /\ behind' \in 0..Len(closeSaves') /\ quitAsked' \in BOOLEAN
        /\ closeFlight' \in {"none", "hidden", "leaving"}
    <2>1. CASE Main!Close(action, remember)
      <3>1. CASE remember
        <4>1. closeSaves' = Append(closeSaves, action) /\ behind' = Len(closeSaves) + 1 /\ closeFlight' \in {"hidden", "leaving"}
              /\ (quitAsked' = TRUE \/ quitAsked' = quitAsked)
          BY <2>1, <3>1 DEF Main!Close, Main!RequestQuit
        <4>2. action \in Main!CloseActions
          BY DEF Main!CloseActions
        <4>3. closeSaves' \in Seq(Main!CloseActions) /\ Len(closeSaves') = Len(closeSaves) + 1 /\ Len(closeSaves) \in Nat
          BY <4>1, <4>2, QueuesTyped, Appended
        <4>4. behind' \in 0..Len(closeSaves')
          BY <4>1, <4>3
        <4>5. quitAsked' \in BOOLEAN
          BY <4>1, QueuesTyped
        <4>6. QED
          BY <4>1, <4>3, <4>4, <4>5
      <3>2. CASE ~remember
        BY <2>1, <3>2, QueuesTyped DEF Main!Close, Main!RequestQuit
      <3>3. QED
        BY <3>1, <3>2
    <2>2. CASE Main!GivesUp
      BY <2>2, QueuesTyped DEF Main!GivesUp
    <2>3. QED
      BY <2>1, <2>2
  <1>4. Main!TypeOK'
    BY <1>2, <1>3 DEF MainInv, Main!TypeOK, Orders, Reports
  <1>5. ChoiceInv' /\ Main!DataGetPainted'
    BY <1>3 DEF MainInv, ChoiceInv, Main!DataGetPainted, Main!hidden
  <1>6. QED
    BY <1>2, <1>4, <1>5 DEF MainInv

LEMMA EndingKeeps ==
    ASSUME MainInv,
           Main!Awaited \/ (\E choice \in {"cancel", "tray", "exit"}, remember \in BOOLEAN : Main!Answer(choice, remember))
    PROVE  MainInv'
  <1>1. CASE Main!Awaited
    <2>1. /\ UNCHANGED <<window, previous, sampled, reports, nativeHidden, documentHidden, frame, unpainted, closeChoice, quitting,
                         asked, acts>>
          /\ closeFlight = "waiting" /\ behind = 0
      BY <1>1 DEF Main!Awaited, Main!windowVars, Main!pageVars
    <2>2. closeChoice = asked /\ obeyed
      BY <2>1 DEF MainInv, ChoiceInv
    <2>3. obeyed'
      BY <1>1, <2>2 DEF Main!Awaited
    <2>4. CASE ~quitting /\ closeChoice = "ask"
      <3>1. closeFlight' = "asking" /\ UNCHANGED <<closeSaves, behind, quitAsked, hostWindow, orders, tellings, swallowed>>
        BY <1>1, <2>4 DEF Main!Awaited, Main!hostVars
      <3>2. Main!TypeOK'
        BY <2>1, <2>2, <2>3, <3>1 DEF MainInv, Main!TypeOK
      <3>3. QED
        BY <2>1, <2>3, <3>1, <3>2
           DEF MainInv, ChoiceInv, SeenInv, ToldInv, Main!DataGetPainted, Main!hidden, Main!Visible
    <2>5. CASE quitting \/ closeChoice # "ask"
      <3>1. closeChoice \in {"ask", "tray", "exit"}
        BY DEF MainInv, Main!TypeOK, Main!CloseActions
      <3>2. Main!GivesUp \/ (closeChoice # "ask" /\ Main!Close(closeChoice, FALSE))
        BY <1>1, <2>5 DEF Main!Awaited
      <3>3. CASE Main!GivesUp
        BY <2>1, <2>3, <3>3, ClosingKeepsChoice
      <3>4. CASE closeChoice # "ask" /\ Main!Close(closeChoice, FALSE)
        BY <2>1, <2>3, <3>1, <3>4, ClosingKeepsChoice
      <3>5. QED
        BY <3>2, <3>3, <3>4
    <2>6. QED
      BY <2>4, <2>5
  <1>2. ASSUME NEW choice \in {"cancel", "tray", "exit"}, NEW remember \in BOOLEAN, Main!Answer(choice, remember)
        PROVE  MainInv'
    <2>1. /\ UNCHANGED <<window, previous, sampled, reports, nativeHidden, documentHidden, frame, unpainted, closeChoice, quitting,
                         asked, acts>>
          /\ obeyed' = obeyed
          /\ Main!GivesUp \/ (choice # "cancel" /\ Main!Close(choice, remember))
      BY <1>2 DEF Main!Answer, Main!windowVars, Main!pageVars
    <2>2. obeyed'
      BY <2>1 DEF MainInv, ChoiceInv
    <2>3. CASE Main!GivesUp
      BY <2>1, <2>2, <2>3, ClosingKeepsChoice
    <2>4. CASE choice # "cancel" /\ Main!Close(choice, remember)
      BY <2>1, <2>2, <2>4, ClosingKeepsChoice
    <2>5. QED
      BY <2>1, <2>3, <2>4
  <1>3. QED
    BY <1>1, <1>2

LEMMA ReportArrives ==
    ASSUME MainInv, Main!Receive
    PROVE  MainInv'
  <1> DEFINE letter == Head(reports)
             changed == letter.state # hostWindow
  <1>1. /\ reports # <<>> /\ reports' = Tail(reports)
        /\ UNCHANGED <<window, previous, sampled, orders, nativeHidden, documentHidden, frame, unpainted, closeChoice, closeSaves,
                       quitting, obeyed, acts>>
    BY DEF Main!Receive, Main!windowVars, Main!pageVars, Main!hostVars, Main!closeVars
  <1>2. /\ reports' \in Seq(Reports) /\ letter \in Reports
        /\ Reported(reports, hostWindow, window) =>
               Reported(reports', IF letter.event = "close" THEN hostWindow ELSE letter.state, window)
    <2>1. Tail(reports) \in Seq(Reports) /\ Head(reports) \in Reports
      BY <1>1, QueuesTyped
    <2>2. Reported(reports, hostWindow, window) =>
               Reported(Tail(reports), IF Head(reports).event = "close" THEN hostWindow ELSE Head(reports).state, window)
      BY <1>1, QueuesTyped, ReportHeard
    <2>3. QED
      BY <1>1, <2>1, <2>2
  <1>3. CASE letter.event = "close"
    <2>1. Main!OnMainClose /\ UNCHANGED <<hostWindow, tellings, swallowed>>
      BY <1>3 DEF Main!Receive, Main!hostVars
    <2>2. /\ quitAsked' = TRUE \/ quitAsked' = quitAsked
          /\ \/ UNCHANGED <<closeFlight, behind, asked>>
             \/ closeFlight' = "waiting" /\ behind' = Len(closeSaves)
                /\ asked' = IF closeSaves = <<>> THEN closeChoice ELSE closeSaves[Len(closeSaves)]
      BY <2>1 DEF Main!OnMainClose, Main!RequestQuit
    <2>3. /\ quitAsked' \in BOOLEAN /\ behind' \in 0..Len(closeSaves)
          /\ closeFlight' \in {"none", "waiting", "asking", "hidden", "leaving"} /\ asked' \in Main!CloseActions /\ ChoiceInv'
      <3>0. quitAsked' \in BOOLEAN
        BY <2>2, QueuesTyped
      <3>1. CASE UNCHANGED <<closeFlight, behind, asked>>
        BY <1>1, <3>0, <3>1 DEF MainInv, ChoiceInv, Main!TypeOK
      <3>2. CASE closeFlight' = "waiting" /\ behind' = Len(closeSaves)
                 /\ asked' = IF closeSaves = <<>> THEN closeChoice ELSE closeSaves[Len(closeSaves)]
        <4>1. closeSaves \in Seq(Main!CloseActions) /\ closeChoice \in Main!CloseActions
          BY DEF MainInv, Main!TypeOK
        <4>2. Len(closeSaves) \in Nat /\ (closeSaves = <<>> <=> Len(closeSaves) = 0)
              /\ (closeSaves # <<>> => closeSaves[Len(closeSaves)] \in Main!CloseActions)
          BY <4>1
        <4>3. ChoiceInv'
          BY <1>1, <3>2, <4>2 DEF MainInv, ChoiceInv
        <4>4. QED
          BY <3>0, <3>2, <4>1, <4>2, <4>3
      <3>3. QED
        BY <2>2, <3>1, <3>2
    <2>4. Main!TypeOK'
      BY <1>1, <1>2, <2>1, <2>3 DEF MainInv, Main!TypeOK, Reports
    <2>5. SeenInv'
      BY <1>1, <1>2, <1>3, <2>1 DEF MainInv, SeenInv
    <2>6. ToldInv' /\ Main!DataGetPainted'
      BY <1>1, <2>1 DEF MainInv, ToldInv, Main!DataGetPainted, Main!hidden, Main!Visible
    <2>7. QED
      BY <2>3, <2>4, <2>5, <2>6 DEF MainInv
  <1>4. CASE letter.event # "close"
    <2>1. /\ hostWindow' = letter.state /\ UNCHANGED <<closeFlight, behind, quitAsked, asked>>
          /\ \/ tellings' = Append(tellings, Main!Visible(letter.state)) /\ swallowed' = swallowed
             \/ tellings' = tellings /\ swallowed' = (swallowed \/ changed)
      BY <1>4 DEF Main!Receive, Main!closeVars, Main!SendVisibility
    <2>2. hostWindow' \in Main!Windows
      BY <1>2, <2>1 DEF Reports
    <2>3. tellings' \in Seq(BOOLEAN) /\ swallowed' \in BOOLEAN /\ ToldInv'
      <3>1. CASE tellings' = Append(tellings, Main!Visible(letter.state)) /\ swallowed' = swallowed
        <4>1. tellings' = Append(tellings, Main!Visible(hostWindow'))
          BY <2>1, <3>1
        <4>2. tellings' \in Seq(BOOLEAN) /\ ToldInv'
          BY <2>2, <4>1, TellingKeeps
        <4>3. QED
          BY <3>1, <4>2, QueuesTyped
      <3>2. CASE tellings' = tellings /\ swallowed' = (swallowed \/ changed)
        <4>1. ~swallowed' => ~swallowed /\ hostWindow' = hostWindow
          BY <2>1, <3>2
        <4>2. swallowed' \in BOOLEAN
          BY <3>2, QueuesTyped
        <4>3. ToldInv'
          BY <1>1, <3>2, <4>1 DEF MainInv, ToldInv, Main!Visible
        <4>4. QED
          BY <3>2, <4>2, <4>3, QueuesTyped
      <3>3. QED
        BY <2>1, <3>1, <3>2
    <2>4. Main!TypeOK'
      BY <1>1, <1>2, <2>1, <2>2, <2>3 DEF MainInv, Main!TypeOK, Reports
    <2>5. SeenInv'
      BY <1>1, <1>2, <1>4, <2>1 DEF MainInv, SeenInv
    <2>6. ChoiceInv' /\ Main!DataGetPainted'
      BY <1>1, <2>1 DEF MainInv, ChoiceInv, Main!DataGetPainted, Main!hidden
    <2>7. QED
      BY <2>3, <2>4, <2>5, <2>6 DEF MainInv
  <1>5. QED
    BY <1>3, <1>4

\* The preference of the close is changed, and its updates are saved.
ChoiceActs ==
    \/ \E action \in Main!CloseActions : Main!UpdateCloseAction(action)
    \/ \E ok \in BOOLEAN : Main!Saved(ok) \/ Main!QuitAnswered(ok)
ChoiceTypes ==
    /\ closeChoice \in Main!CloseActions /\ closeSaves \in Seq(Main!CloseActions) /\ asked \in Main!CloseActions
    /\ closeFlight \in {"none", "waiting", "asking", "hidden", "leaving"} /\ behind \in 0..Len(closeSaves)
    /\ quitAsked \in BOOLEAN /\ quitting \in BOOLEAN
LEMMA ChoiceKeeps ==
    ASSUME MainInv, ChoiceActs
    PROVE  MainInv'
  <1>1. UNCHANGED <<window, previous, sampled, reports, hostWindow, orders, tellings, swallowed, nativeHidden, documentHidden, frame,
                    unpainted, obeyed>> /\ acts' \in 0..MaxActs
    BY QueuesTyped, ActsBounded DEF ChoiceActs, Main!UpdateCloseAction, Main!Saved, Main!QuitAnswered, Main!Act, Main!windowVars,
       Main!hostVars, Main!pageVars
  <1>2. SeenInv' /\ ToldInv' /\ Main!DataGetPainted'
    BY <1>1 DEF MainInv, SeenInv, ToldInv, Main!DataGetPainted, Main!hidden, Main!Visible
  <1>3. ChoiceTypes' /\ ChoiceInv'
    <2>0. ChoiceTypes /\ ChoiceInv /\ obeyed
      BY DEF MainInv, Main!TypeOK, ChoiceInv, ChoiceTypes
    <2>1. ASSUME NEW action \in Main!CloseActions, Main!UpdateCloseAction(action)
          PROVE  ChoiceTypes' /\ ChoiceInv'
      <3>1. closeSaves' = Append(closeSaves, action) /\ UNCHANGED <<closeChoice, closeFlight, behind, quitAsked, quitting, asked, obeyed>>
        BY <2>1 DEF Main!UpdateCloseAction
      <3>2. /\ closeSaves' \in Seq(Main!CloseActions) /\ Len(closeSaves') = Len(closeSaves) + 1 /\ Len(closeSaves) \in Nat
            /\ \A i \in 1..Len(closeSaves) : closeSaves'[i] = closeSaves[i]
        BY <2>0, <3>1 DEF ChoiceTypes
      <3>3. behind' \in 0..Len(closeSaves')
        BY <2>0, <3>1, <3>2 DEF ChoiceTypes
      <3>4. ChoiceInv'
        BY <2>0, <3>1, <3>2 DEF ChoiceInv, ChoiceTypes
      <3>5. QED
        BY <2>0, <3>1, <3>2, <3>3, <3>4 DEF ChoiceTypes
    <2>2. ASSUME NEW ok \in BOOLEAN, Main!Saved(ok)
          PROVE  ChoiceTypes' /\ ChoiceInv'
      <3>1. /\ closeSaves # <<>> /\ ~(closeFlight = "waiting" /\ behind = 0) /\ closeSaves' = Tail(closeSaves)
            /\ closeChoice' = IF ok THEN Head(closeSaves) ELSE closeChoice
            /\ behind' = IF behind = 0 THEN 0 ELSE behind - 1
            /\ asked' = IF ~ok /\ closeFlight = "waiting" /\ behind = 1 THEN closeChoice ELSE asked
            /\ closeFlight' = IF behind = 1 /\ closeFlight \in {"hidden", "leaving"} THEN "none" ELSE closeFlight
            /\ quitAsked' = TRUE \/ quitAsked' = quitAsked
            /\ UNCHANGED <<quitting, obeyed>>
        BY <2>2 DEF Main!Saved, Main!Awaits, Main!RequestQuit
      <3>2. /\ Head(closeSaves) = closeSaves[1] /\ closeSaves[1] \in Main!CloseActions
            /\ Tail(closeSaves) \in Seq(Main!CloseActions) /\ Len(Tail(closeSaves)) = Len(closeSaves) - 1 /\ Len(closeSaves) \in Nat \ {0}
            /\ \A i \in 1..(Len(closeSaves) - 1) : Tail(closeSaves)[i] = closeSaves[i + 1]
        BY <2>0, <3>1 DEF ChoiceTypes
      <3>3. behind' \in 0..Len(closeSaves')
        BY <2>0, <3>1, <3>2 DEF ChoiceTypes
      <3>4. quitAsked' \in BOOLEAN
        BY <2>0, <3>1 DEF ChoiceTypes
      <3>5. ChoiceInv'
        <4>1. SUFFICES ASSUME closeFlight' = "waiting"
                       PROVE  asked' = IF behind' = 0 THEN closeChoice' ELSE closeSaves'[behind']
          BY <2>0, <3>1 DEF ChoiceInv
        <4>2. closeFlight = "waiting" /\ behind # 0 /\ asked = closeSaves[behind]
          BY <2>0, <3>1, <4>1 DEF ChoiceInv
        <4>3. CASE behind = 1
          BY <3>1, <3>2, <4>2, <4>3
        <4>4. CASE behind # 1
          <5>1. behind' = behind - 1 /\ behind - 1 \in 1..(Len(closeSaves) - 1) /\ asked' = asked
            BY <2>0, <3>1, <3>2, <4>2, <4>4 DEF ChoiceTypes
          <5>2. closeSaves'[behind'] = closeSaves[(behind - 1) + 1]
            BY <3>1, <3>2, <5>1
          <5>3. QED
            BY <2>0, <4>2, <5>1, <5>2 DEF ChoiceTypes
        <4>5. QED
          BY <4>3, <4>4
      <3>6. closeChoice' \in Main!CloseActions /\ asked' \in Main!CloseActions
            /\ closeFlight' \in {"none", "waiting", "asking", "hidden", "leaving"}
        BY <2>0, <3>1, <3>2 DEF ChoiceTypes
      <3>7. QED
        BY <2>0, <3>1, <3>2, <3>3, <3>4, <3>5, <3>6 DEF ChoiceTypes
    <2>3. ASSUME NEW ok \in BOOLEAN, Main!QuitAnswered(ok)
          PROVE  ChoiceTypes' /\ ChoiceInv'
      <3>1. quitAsked' = FALSE /\ quitting' = (quitting \/ ok) /\ UNCHANGED <<closeChoice, closeSaves, closeFlight, behind, asked, obeyed>>
        BY <2>3 DEF Main!QuitAnswered
      <3>2. quitting' \in BOOLEAN
        BY <2>0, <2>3, <3>1 DEF ChoiceTypes
      <3>3. ChoiceInv'
        BY <2>0, <3>1 DEF ChoiceInv
      <3>4. QED
        BY <2>0, <3>1, <3>2, <3>3 DEF ChoiceTypes
    <2>4. QED
      BY <2>1, <2>2, <2>3 DEF ChoiceActs
  <1>4. Main!TypeOK'
    BY <1>1, <1>3 DEF MainInv, Main!TypeOK, ChoiceTypes
  <1>5. QED
    BY <1>2, <1>3, <1>4 DEF MainInv

\* The page hears, is hidden, gets new data and paints.
PageActs == Main!Told \/ Main!DocumentVisibility \/ Main!RefreshLive \/ Main!Flush
LEMMA PaintingKeeps ==
    ASSUME MainInv, PageActs
    PROVE  MainInv'
  <1>1. UNCHANGED <<window, previous, sampled, orders, reports, hostWindow, swallowed, closeChoice, closeSaves, closeFlight, behind,
                    quitAsked, quitting, asked, obeyed, acts>>
    BY DEF PageActs, Main!Told, Main!DocumentVisibility, Main!RefreshLive, Main!Flush, Main!windowVars, Main!hostVars, Main!closeVars
  <1>2. SeenInv' /\ ChoiceInv'
    BY <1>1 DEF MainInv, SeenInv, ChoiceInv
  <1>3. /\ tellings' \in Seq(BOOLEAN) /\ nativeHidden' \in BOOLEAN
        /\ LastTold(tellings', nativeHidden') = LastTold(tellings, nativeHidden)
    <2>1. CASE Main!Told
      <3>1. tellings # <<>> /\ tellings' = Tail(tellings) /\ nativeHidden' = ~Head(tellings)
        BY <2>1 DEF Main!Told
      <3>2. /\ Tail(tellings) \in Seq(BOOLEAN) /\ Head(tellings) \in BOOLEAN
            /\ LastTold(Tail(tellings), ~Head(tellings)) = LastTold(tellings, nativeHidden)
        BY <3>1, QueuesTyped, TellHeard
      <3>3. nativeHidden' \in BOOLEAN
        BY <3>1, <3>2
      <3>4. LastTold(tellings', nativeHidden') = LastTold(tellings, nativeHidden)
        BY <3>1, <3>2
      <3>5. QED
        BY <3>1, <3>2, <3>3, <3>4
    <2>2. CASE Main!DocumentVisibility \/ Main!RefreshLive \/ Main!Flush
      BY <2>2, QueuesTyped DEF Main!DocumentVisibility, Main!RefreshLive, Main!Flush, Main!hostVars
    <2>3. QED
      BY <2>1, <2>2 DEF PageActs
  <1>4. ToldInv'
    BY <1>1, <1>3 DEF MainInv, ToldInv, Main!Visible
  <1>5. documentHidden' \in BOOLEAN /\ frame' \in BOOLEAN /\ unpainted' \in BOOLEAN
    BY QueuesTyped DEF PageActs, Main!Told, Main!DocumentVisibility, Main!RefreshLive, Main!Flush, Main!Schedule, Main!VisibilityChanged,
       Main!hidden
  <1>6. Main!DataGetPainted'
    <2>1. (unpainted /\ ~(documentHidden \/ nativeHidden) => frame) /\ (frame => ~(documentHidden \/ nativeHidden))
      BY DEF MainInv, Main!DataGetPainted, Main!hidden
    <2>2. CASE Main!Told \/ Main!DocumentVisibility
      <3>1. frame' = ~(documentHidden' \/ nativeHidden')
        BY <2>2, QueuesTyped, <1>3, <1>5 DEF Main!Told, Main!DocumentVisibility, Main!VisibilityChanged
      <3>2. QED
        BY <3>1 DEF Main!DataGetPainted, Main!hidden
    <2>3. CASE Main!RefreshLive \/ Main!Flush
      <3>1. UNCHANGED <<nativeHidden, documentHidden>>
        BY <2>3 DEF Main!RefreshLive, Main!Flush
      <3>2. CASE Main!RefreshLive
        <4>1. frame' = (frame \/ ~(documentHidden \/ nativeHidden))
          BY <3>2 DEF Main!RefreshLive, Main!Schedule, Main!hidden
        <4>2. QED
          BY <2>1, <3>1, <4>1 DEF Main!DataGetPainted, Main!hidden
      <3>3. CASE Main!Flush
        <4>1. frame' = FALSE /\ unpainted' = (unpainted /\ (documentHidden \/ nativeHidden))
          BY <3>3 DEF Main!Flush, Main!hidden
        <4>2. QED
          BY <2>1, <3>1, <4>1 DEF Main!DataGetPainted, Main!hidden
      <3>4. QED
        BY <2>3, <3>2, <3>3
    <2>4. QED
      BY <2>2, <2>3 DEF PageActs
  <1>7. Main!TypeOK'
    BY <1>1, <1>3, <1>5 DEF MainInv, Main!TypeOK
  <1>8. QED
    BY <1>2, <1>4, <1>6, <1>7 DEF MainInv

LEMMA MainStep ==
    ASSUME MainInv, Main!Next \/ UNCHANGED mainVars
    PROVE  MainInv'
  <1>1. CASE UNCHANGED mainVars
    BY <1>1 DEF mainVars, MainInv, Main!TypeOK, ChoiceInv, SeenInv, ToldInv, Main!DataGetPainted, Main!hidden, Main!Visible
  <1>2. QED
    BY <1>1, ShellKeeps, ShowWindowKeeps, ReportArrives, EndingKeeps, ChoiceKeeps, PaintingKeeps
       DEF Main!Next, ShellActs, ChoiceActs, PageActs

\* The mini window shows the host's preferences and the rows of its range; the main
\* page knows whether it can be seen, paints, and closes as was chosen.
THEOREM WindowsKeepUp == Spec => []WindowsFollow
  <1>1. Init => WindowsInv /\ MainInv
    BY WindowsInit, MainInit DEF Init
  <1>2. WindowsInv /\ MainInv /\ [Next]_desktopVars => WindowsInv' /\ MainInv'
    BY WindowsStep, MainStep DEF Next, desktopVars
  <1>3. WindowsInv => Windows!MiniShowsPreferences /\ Windows!RowsFitSelection
    <2>1. WindowsInv => Windows!MiniShowsPreferences
      BY DEF WindowsInv, KnownInv, Coming, Windows!MiniShowsPreferences
    <2>2. WindowsInv => Windows!RowsFitSelection
      BY DEF WindowsInv, RowsInv, Belongs, Windows!RowsFitSelection
    <2>3. QED
      BY <2>1, <2>2
  <1>4. MainInv => Main!PageKnowsVisibility /\ Main!DataGetPainted /\ Main!ClosesAsChosen
    <2>1. MainInv /\ Main!Settled => Reported(reports, hostWindow, window)
      BY DEF MainInv, SeenInv, Main!Settled
    <2>2. MainInv /\ Main!Settled => hostWindow = window
      BY <2>1 DEF Main!Settled, Reported
    <2>3. MainInv /\ Main!Settled /\ ~swallowed => ~nativeHidden = Main!Visible(hostWindow)
      BY DEF MainInv, ToldInv, LastTold, Main!Settled
    <2>4. MainInv => nativeHidden \in BOOLEAN /\ Main!Visible(hostWindow) \in BOOLEAN
      BY DEF MainInv, Main!TypeOK, Main!Windows, Main!Visible
    <2>5. MainInv => Main!PageKnowsVisibility
      <3>1. Main!Visible(hostWindow) = Main!Visible(hostWindow)
        OBVIOUS
      <3>2. hostWindow = window => Main!Visible(hostWindow) = Main!Visible(window)
        BY DEF Main!Visible
      <3>3. QED
        BY <2>2, <2>3, <2>4, <3>2 DEF Main!PageKnowsVisibility
    <2>6. QED
      BY <2>5 DEF MainInv, ChoiceInv, Main!ClosesAsChosen
  <1>5. WindowsInv /\ MainInv => WindowsFollow
    BY <1>3, <1>4 DEF WindowsFollow
  <1>6. QED
    BY <1>1, <1>2, <1>5, PTL DEF Spec

=============================================================================
