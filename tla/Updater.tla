------------------------------ MODULE Updater -------------------------------
(***************************************************************************)
(* The updater: internal/updater/manager.go and outcome.go, the update     *)
(* route of internal/web/update.go and the settings save that calls        *)
(* ConfigChanged (internal/web/server_connections.go).                     *)
(*                                                                         *)
(* Checks run in goroutines of the ticker, of an attaching window, of the  *)
(* Check button and of a switch turned on; they fetch without m.mu and     *)
(* write what they found under it.  The switch is in the configuration,    *)
(* which m.mu does not protect.  An install downloads, verifies and        *)
(* launches the setup of the release it copied; the setup reports through  *)
(* a progress file that outlives it.                                       *)
(*                                                                         *)
(* A release is the round of the check that found it, a setup file the     *)
(* install that wrote it.  The 15-minute gate of TriggerIfStale only makes *)
(* a check not start, which it may always do.                              *)
(***************************************************************************)
EXTENDS Naturals

CONSTANTS
    Checker,    \* goroutines that check
    Installer,  \* requests to install
    MaxSave     \* bound: saves that turn the switch

ASSUME UpdaterAssumption == MaxSave \in Nat

VARIABLES
    switchOn,      \* Updates.Enabled in the configuration
    updateState,   \* Enabled, Checking, Available, Installing and Error of m.state
    checkPc,       \* where each check is
    savePc,        \* the save in progress: turned the switch, read Enabled
    wasEnabled,    \* what ConfigChanged read
    saves,         \* saves so far
    installPc,     \* where each install is
    setupFile,     \* the install whose bytes are in updates/<version>/, or "none"
    progressFile,  \* the last finished line of install-progress.jsonl
    setupOf,       \* the install whose setup runs, or "none"
    (* history *)
    vetted,        \* installs whose setup passed verify and inspect
    unvetted       \* a setup was launched that its install had not vetted

updaterVars == <<switchOn, updateState, checkPc, savePc, wasEnabled, saves, installPc,
                 setupFile, progressFile, setupOf, vetted, unvetted>>
checkVars   == <<checkPc, savePc, wasEnabled, saves, switchOn>>
installVars == <<installPc, setupFile, progressFile, setupOf, vetted, unvetted>>

Someone == Installer \cup {"none"}

UpdaterTypeOK ==
    /\ switchOn \in BOOLEAN /\ wasEnabled \in BOOLEAN /\ unvetted \in BOOLEAN
    /\ updateState \in [enabled : BOOLEAN, checking : BOOLEAN, available : BOOLEAN,
                        installing : BOOLEAN, failure : Someone]
    /\ checkPc \in [Checker -> {"idle", "begin", "fetch"}]
    /\ savePc \in {"idle", "saved", "read"} /\ saves \in 0..MaxSave
    /\ installPc \in [Installer -> {"idle", "download", "verify", "launch", "watch", "over"}]
    /\ setupFile \in Someone /\ progressFile \in Someone /\ setupOf \in Someone
    /\ vetted \subseteq Installer

UpdaterInit ==
    /\ switchOn \in BOOLEAN
    /\ updateState = [enabled |-> FALSE, checking |-> FALSE, available |-> FALSE,
                      installing |-> FALSE, failure |-> "none"]
    /\ checkPc = [c \in Checker |-> "idle"]
    /\ savePc = "idle" /\ wasEnabled = FALSE /\ saves = 0
    /\ installPc = [i \in Installer |-> "idle"]
    /\ setupFile = "none" /\ progressFile = "none" /\ setupOf = "none"
    /\ vetted = {} /\ unvetted = FALSE

-----------------------------------------------------------------------------
(* The switch. *)

\* refreshEnabled: a switch that is off withdraws what was found.
Refreshed(s) ==
    IF switchOn THEN [s EXCEPT !.enabled = TRUE]
    ELSE [s EXCEPT !.enabled = FALSE, !.checking = FALSE, !.available = FALSE,
                   !.failure = "none"]

\* The settings are saved with the switch turned; the handler goes on to ConfigChanged.
SaveSwitch ==
    /\ savePc = "idle" /\ saves < MaxSave
    /\ switchOn' = ~ switchOn /\ saves' = saves + 1
    /\ savePc' = "saved"
    /\ UNCHANGED <<updateState, checkPc, wasEnabled, installVars>>

ConfigRead ==
    /\ savePc = "saved"
    /\ wasEnabled' = updateState.enabled
    /\ savePc' = "read"
    /\ UNCHANGED <<updateState, switchOn, checkPc, saves, installVars>>

\* The rest of ConfigChanged: the state is refreshed, and a check starts, in the first
\* of the goroutines that is free, when the switch has been turned on.
ConfigChanged ==
    /\ savePc = "read"
    /\ savePc' = "idle"
    /\ updateState' = Refreshed(updateState)
    /\ IF ~ wasEnabled /\ switchOn
         THEN \E c \in Checker : checkPc[c] = "idle" /\ checkPc' = [checkPc EXCEPT ![c] = "begin"]
         ELSE UNCHANGED checkPc
    /\ UNCHANGED <<switchOn, wasEnabled, saves, installVars>>

\* The ticker of Start, and a check asked for while the switch is off.
RefreshEnabled ==
    /\ updateState' = Refreshed(updateState)
    /\ UNCHANGED <<checkVars, installVars>>

-----------------------------------------------------------------------------
(* A check. *)

\* beginCheck reads the switch before it takes m.mu.
CheckCalled(c) ==
    /\ checkPc[c] = "idle" /\ switchOn
    /\ checkPc' = [checkPc EXCEPT ![c] = "begin"]
    /\ UNCHANGED <<updateState, switchOn, savePc, wasEnabled, saves, installVars>>

\* beginCheck under m.mu: one check at a time, by the flag.
BeginCheck(c) ==
    /\ checkPc[c] = "begin"
    /\ IF updateState.checking
         THEN checkPc' = [checkPc EXCEPT ![c] = "idle"] /\ UNCHANGED updateState
         ELSE /\ checkPc' = [checkPc EXCEPT ![c] = "fetch"]
              /\ updateState' = [updateState EXCEPT !.enabled = TRUE, !.checking = TRUE,
                                                    !.failure = "none"]
    /\ UNCHANGED <<switchOn, savePc, wasEnabled, saves, installVars>>

\* Mutant: the answer is written without asking for the switch again.
FinishUnasked(c) ==
    /\ checkPc[c] = "fetch"
    /\ checkPc' = [checkPc EXCEPT ![c] = "idle"]
    /\ \E found \in BOOLEAN :
          updateState' = [updateState EXCEPT !.checking = FALSE, !.available = found,
                                             !.failure = "none"]
    /\ UNCHANGED <<switchOn, savePc, wasEnabled, saves, installVars>>

\* finishCheck: the request failed, found nothing newer, or found a release; with the
\* switch off the answer is discarded.
FinishCheck(c) ==
    /\ checkPc[c] = "fetch"
    /\ checkPc' = [checkPc EXCEPT ![c] = "idle"]
    /\ IF ~ switchOn THEN updateState' = Refreshed(updateState)
       ELSE \E found \in BOOLEAN :
              updateState' = [updateState EXCEPT !.checking = FALSE, !.available = found,
                                                 !.failure = "none"]
    /\ UNCHANGED <<switchOn, savePc, wasEnabled, saves, installVars>>

-----------------------------------------------------------------------------
(* An install. *)

\* Mutant: two installs at once.
InstallAnyway(i) ==
    /\ installPc[i] = "idle" /\ updateState.available
    /\ installPc' = [installPc EXCEPT ![i] = "download"]
    /\ updateState' = [updateState EXCEPT !.installing = TRUE, !.failure = "none"]
    /\ UNCHANGED <<checkVars, setupFile, progressFile, setupOf, vetted, unvetted>>

\* Install: one at a time, of the release the last check found.
Install(i) ==
    /\ installPc[i] = "idle" /\ updateState.available /\ ~ updateState.installing
    /\ installPc' = [installPc EXCEPT ![i] = "download"]
    /\ updateState' = [updateState EXCEPT !.installing = TRUE, !.failure = "none"]
    /\ UNCHANGED <<checkVars, setupFile, progressFile, setupOf, vetted, unvetted>>

InstallFails(i) ==
    /\ installPc' = [installPc EXCEPT ![i] = "over"]
    /\ updateState' = [updateState EXCEPT !.installing = FALSE, !.failure = i]

\* download: the manifest, the setup, its size and its hash, and the file.  The file
\* of a setup that still runs cannot be replaced.
Download(i) ==
    /\ installPc[i] = "download"
    /\ \/ InstallFails(i) /\ UNCHANGED setupFile
       \/ /\ setupOf = "none" \/ setupOf # setupFile
          /\ setupFile' = i
          /\ installPc' = [installPc EXCEPT ![i] = "verify"]
          /\ UNCHANGED updateState
    /\ UNCHANGED <<checkVars, progressFile, setupOf, vetted, unvetted>>

\* verify and inspect read the file; one that fails is removed.
VerifySetup(i) ==
    /\ installPc[i] = "verify"
    /\ \/ InstallFails(i) /\ setupFile' = "none" /\ UNCHANGED vetted
       \/ /\ setupFile # "none"
          /\ vetted' = vetted \cup {setupFile}
          /\ installPc' = [installPc EXCEPT ![i] = "launch"]
          /\ UNCHANGED <<updateState, setupFile>>
    /\ UNCHANGED <<checkVars, progressFile, setupOf, unvetted>>

\* launch runs what the file holds now; Install ends and its watcher starts.
Launch(i) ==
    /\ installPc[i] = "launch"
    /\ \/ InstallFails(i) /\ UNCHANGED <<setupOf, unvetted>>
       \/ /\ setupFile # "none"
          /\ unvetted' = (unvetted \/ setupFile \notin vetted)
          /\ setupOf' = i
          /\ installPc' = [installPc EXCEPT ![i] = "watch"]
          /\ updateState' = [updateState EXCEPT !.installing = FALSE]
    /\ UNCHANGED <<checkVars, setupFile, progressFile, vetted>>

\* The setup removes the progress file when it starts and writes its verdict in the
\* end.  One that succeeds replaces this process.
SetupStarts ==
    /\ setupOf # "none" /\ progressFile # "none"
    /\ progressFile' = "none"
    /\ UNCHANGED <<updateState, checkVars, installPc, setupFile, setupOf, vetted, unvetted>>

SetupFails ==
    /\ setupOf # "none"
    /\ progressFile' = setupOf
    /\ setupOf' = "none"
    /\ UNCHANGED <<updateState, checkVars, installPc, setupFile, vetted, unvetted>>

\* watchInstallOutcome: the last verdict in the file becomes the error, whichever
\* install wrote it; after three minutes, or at an early failure, the watch ends.
Watch(i) ==
    /\ installPc[i] = "watch"
    /\ installPc' = [installPc EXCEPT ![i] = "over"]
    /\ updateState' = [updateState EXCEPT !.failure = IF progressFile = "none" THEN @ ELSE progressFile]
    /\ UNCHANGED <<checkVars, setupFile, progressFile, setupOf, vetted, unvetted>>

UpdaterNext ==
    \/ SaveSwitch \/ ConfigRead \/ ConfigChanged \/ RefreshEnabled
    \/ \E c \in Checker : CheckCalled(c) \/ BeginCheck(c) \/ FinishCheck(c)
    \/ \E i \in Installer : Install(i) \/ Download(i) \/ VerifySetup(i) \/ Launch(i) \/ Watch(i)
    \/ SetupStarts \/ SetupFails

UpdaterSpec == UpdaterInit /\ [][UpdaterNext]_updaterVars

-----------------------------------------------------------------------------
(* Properties. *)

\* A late answer cannot leave an install action available behind a disabled switch:
\* what a check found is withdrawn, at the latest by the save that is under way,
\* whichever checks were fetching when the switch was turned.
OffMeansOff ==
    ~ switchOn /\ savePc = "idle" => ~ updateState.available

\* The setup that is launched is one that was verified and inspected as it is, however
\* many requests to install, failures and checks there were.
LaunchedWasVetted == ~ unvetted

\* A check that is going on is under way: the flag that keeps others out is not left
\* behind by a switch turned off and on.
CheckingIsChecking ==
    updateState.checking => \E c \in Checker : checkPc[c] = "fetch"

\* What outcome.go says of the watch, `the installer's verdict ... at or after the given
\* time': an install's failure is its own.
FailureIsOwn ==
    \A i \in Installer : installPc[i] = "watch" => progressFile \in {"none", i}

\* What beginCheck says to a second caller, `update check is already running': two checks
\* never run at once.
OneCheck == \A c, d \in Checker : checkPc[c] = "fetch" /\ checkPc[d] = "fetch" => c = d
=============================================================================
