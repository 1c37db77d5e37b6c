---------------------------- MODULE LauncherProofs ----------------------------
(***************************************************************************)
(* What the start of the launcher and of a session keep, for any number of *)
(* processes, versions, scripts, sign-ins and accounts: the launcher that  *)
(* is on the disk while an update replaces it (LauncherUpdate), one owner  *)
(* that runs each request once (SingleInstance), the account that the      *)
(* player chose (SignIn), and the data that goes to another directory: the *)
(* migration from Gilea (GileaMigration) and the place where the launcher  *)
(* keeps its state and its builds (DataLocation).                          *)
(***************************************************************************)
EXTENDS SingleInstance, LauncherUpdate, SignIn, DataLocation, FunctionTheorems,
        FiniteSetTheorems, SequenceTheorems, WellFoundedInduction, TLAPS

ScriptRuns(s) == script[s].step # "none"
Before == {"wait", "ready", "copying", "copied", "cleared"}
Between == {"moved", "installing", "failed"}

\* A script works alone, and without the launcher once that has left.
ScriptsFollow ==
    \A s \in Script : ScriptRuns(s) =>
        /\ launcher \in {"leaving", "stopping", "closed"}
        /\ script[s].step # "wait" => launcher = "closed"
        /\ \A t \in Script : ScriptRuns(t) => t = s

\* Where each step of a script finds the files.
StepsKnowFiles ==
    \A s \in Script : ScriptRuns(s) =>
        /\ payload \in Version
        /\ script[s].step \in Before => target \in Version
        /\ script[s].step \in {"copied", "cleared", "moved", "installing"} => newFile = payload
        /\ script[s].step \in Between =>
               script[s].had /\ backup \in Version /\ backup <= payload /\ target \notin Version
        /\ script[s].step = "done" => target = payload

\* A whole launcher is on the disk, and none older than what was moved away.
Unharmed == LauncherNotLost /\ NeverDowngrades

\* What holds until two scripts have met.
SoloInv ==
    /\ UpdateTypeOK
    /\ ScriptsFollow
    /\ StepsKnowFiles
    /\ launcher # "closed" => target \in Version
    /\ {payload, target} \subseteq Version => target <= payload
    /\ Unharmed

LEMMA UpdateStarts == ASSUME UpdateInit PROVE SoloInv
<1> USE UpdateAssumption DEF UpdateInit
<1>1. 1 \in Version /\ Missing \notin Version /\ 0 \in 0..MaxLosses
  BY DEF Version, Missing
<1>2. UpdateTypeOK
  BY <1>1 DEF UpdateTypeOK, Files, NoScript, ScriptSteps, Missing
<1>3. \A s \in Script : ~ScriptRuns(s)
  BY DEF ScriptRuns, NoScript
<1> QED
  BY <1>1, <1>2, <1>3 DEF SoloInv, ScriptsFollow, StepsKnowFiles, Unharmed, LauncherNotLost, NeverDowngrades

\* What a step does to the scripts, and so to what is at work.
LEMMA ScriptMoves ==
    ASSUME UpdateTypeOK, NEW s \in Script, NEW step \in ScriptSteps,
           To(s, step) \/ (Stops(s) /\ step = "none")
    PROVE  /\ script' \in [Script -> [step : ScriptSteps, had : BOOLEAN]]
           /\ script'[s].step = step
           /\ step # "none" => script'[s].had = script[s].had
           /\ \A t \in Script \ {s} : script'[t] = script[t]
<1>1. script \in [Script -> [step : ScriptSteps, had : BOOLEAN]]
  BY DEF UpdateTypeOK
<1>2. NoScript \in [step : ScriptSteps, had : BOOLEAN] /\ NoScript.step = "none"
  BY DEF NoScript, ScriptSteps
<1>3. CASE To(s, step)
  BY <1>1, <1>3 DEF To
<1>4. CASE Stops(s) /\ step = "none"
  BY <1>1, <1>2, <1>4 DEF Stops
<1> QED
  BY <1>3, <1>4

LEMMA UpdateNumbers ==
    ASSUME UpdateTypeOK
    PROVE  /\ Version \subseteq Int /\ Missing \notin Version /\ Piece \notin Version /\ Missing \in Int
           /\ {target, backup, newFile} \subseteq Int /\ {payload, marker} \subseteq Int
           /\ Version \subseteq Files /\ {Missing, Piece} \subseteq Files
           /\ ScriptSteps = {"none", "wait", "ready", "copying", "copied", "cleared", "moved",
                             "installing", "failed", "done"}
           /\ "none" \in ScriptSteps /\ "wait" \in ScriptSteps
  BY DEF UpdateTypeOK, Version, Missing, Piece, Files, ScriptSteps, UpdateAssumption

LEMMA OpenKeeps ==
    ASSUME SoloInv, ~crossed', NEW s \in Script, OpenLauncher(s) \/ ConfirmUpdate(s)
    PROVE  SoloInv'
<1> USE DEF SoloInv, UpdateTypeOK
<1>1. /\ \A t \in Script : ~ScriptRuns(t)
      /\ target \in Version /\ UNCHANGED <<Files4, windows, losses>> /\ crossed' = FALSE
      /\ \/ ResumeOrRun(s, "leaving") \/ ResumeOrRun(s, "stopping")
  BY DEF OpenLauncher, ConfirmUpdate, ScriptAtWork, ScriptRuns, ScriptsFollow
<1>2. CASE UNCHANGED script /\ launcher' = "running" /\ marker' = 0
  <2>1. UpdateTypeOK' /\ Unharmed'
    BY <1>1, <1>2, UpdateNumbers DEF Files4, Missing, Unharmed, LauncherNotLost, NeverDowngrades
  <2> QED
    BY <1>1, <1>2, <2>1 DEF Files4, ScriptsFollow, StepsKnowFiles, ScriptRuns
<1>3. CASE marker # 0 /\ payload = marker /\ (StartScript(s, "leaving") \/ StartScript(s, "stopping"))
  <2>1. /\ script' = [script EXCEPT ![s].step = "wait"]
        /\ launcher' \in {"leaving", "stopping"} /\ UNCHANGED marker
    BY <1>3 DEF StartScript
  <2>2. To(s, "wait") /\ payload \in Version
    BY <1>3, <2>1 DEF To, Missing
  <2>3. /\ script' \in [Script -> [step : ScriptSteps, had : BOOLEAN]]
        /\ script'[s].step = "wait" /\ \A t \in Script \ {s} : script'[t] = script[t]
    BY <2>2, ScriptMoves, UpdateNumbers
  <2>4. UpdateTypeOK' /\ Unharmed'
    BY <1>1, <2>1, <2>3 DEF Files4, Unharmed, LauncherNotLost, NeverDowngrades
  <2>5. ScriptsFollow' /\ StepsKnowFiles'
    BY <1>1, <2>1, <2>2, <2>3 DEF Files4, ScriptsFollow, StepsKnowFiles, ScriptRuns, Between
  <2> QED
    BY <1>1, <2>4, <2>5 DEF Files4
<1> QED
  BY <1>1, <1>2, <1>3 DEF ResumeOrRun, OpenLauncher, StartScript

LEMMA UiKeeps ==
    ASSUME SoloInv,
           \/ \E v \in Version : StagePayload(v)
           \/ WriteMarker \/ DeclineUpdate \/ LauncherExits \/ PowerLoss
    PROVE  SoloInv'
<1> USE DEF SoloInv, UpdateTypeOK
<1> USE UpdateNumbers
<1>1. ASSUME NEW v \in Version, StagePayload(v) PROVE SoloInv'
  <2>1. /\ launcher = "running" /\ launcher' = "staged" /\ payload' = v /\ target < v
        /\ UNCHANGED <<target, backup, newFile, marker, script, windows, losses, crossed>>
    BY <1>1 DEF StagePayload, IsNewer
  <2>2. \A s \in Script : ~ScriptRuns(s)
    BY <2>1 DEF ScriptsFollow
  <2>3. UpdateTypeOK'
    BY <2>1
  <2> QED
    BY <2>1, <2>2, <2>3 DEF ScriptsFollow, StepsKnowFiles, ScriptRuns, Unharmed, LauncherNotLost, NeverDowngrades
<1>2. CASE WriteMarker \/ DeclineUpdate
  <2>1. /\ launcher \in {"staged", "asking"} /\ launcher' \in {"asking", "running"}
        /\ marker' \in {marker, payload, 0} /\ UNCHANGED <<Files4, script, windows, losses, crossed>>
    BY <1>2 DEF WriteMarker, DeclineUpdate
  <2>2. \A s \in Script : ~ScriptRuns(s)
    BY <2>1 DEF ScriptsFollow
  <2>3. UpdateTypeOK'
    BY <2>1 DEF Files4, Missing
  <2> QED
    BY <2>1, <2>2, <2>3 DEF Files4, ScriptsFollow, StepsKnowFiles, ScriptRuns, Unharmed, LauncherNotLost, NeverDowngrades
<1>3. CASE LauncherExits
  <2>1. /\ launcher' = "closed" /\ UNCHANGED <<Files4, marker, windows, losses, crossed>>
        /\ script' \in [Script -> [step : ScriptSteps, had : BOOLEAN]]
        /\ \A s \in Script : /\ script'[s].had = script[s].had
                             /\ script'[s].step = IF script[s].step = "wait" THEN "ready" ELSE script[s].step
    BY <1>3 DEF LauncherExits
  <2>2. UpdateTypeOK'
    BY <2>1 DEF Files4
  <2>3. ScriptsFollow'
    BY <2>1 DEF ScriptsFollow, ScriptRuns
  <2>4. StepsKnowFiles'
    BY <2>1 DEF Files4, StepsKnowFiles, ScriptRuns, Before, Between
  <2> QED
    BY <2>1, <2>2, <2>3, <2>4 DEF Files4, Unharmed, LauncherNotLost, NeverDowngrades
<1>4. CASE PowerLoss
  <2>1. /\ launcher' = "closed" /\ UNCHANGED <<Files4, marker, windows, crossed>>
        /\ losses' \in 0..MaxLosses /\ script' = [s \in Script |-> NoScript]
    BY <1>4, UpdateAssumption DEF PowerLoss
  <2>2. UpdateTypeOK' /\ \A s \in Script : ~ScriptRuns(s)'
    BY <2>1 DEF Files4, ScriptRuns, NoScript
  <2> QED
    BY <2>1, <2>2 DEF Files4, ScriptsFollow, StepsKnowFiles, Unharmed, LauncherNotLost, NeverDowngrades
<1> QED
  BY <1>1, <1>2, <1>3, <1>4

\* A step of a script that leaves the installed launcher and its copy alone.
LEMMA PreparationKeeps ==
    ASSUME SoloInv, NEW s \in Script, ScriptRuns(s),
           WaitTimesOut(s) \/ BeginCopy(s) \/ EndCopy(s) \/ RemoveBackup(s)
    PROVE  SoloInv'
<1> USE DEF SoloInv, UpdateTypeOK
<1> USE UpdateNumbers
<1>1. PICK step \in {"none", "copying", "copied", "cleared"} :
          /\ To(s, step) \/ (Stops(s) /\ step = "none")
          /\ script[s].step \in {"wait", "ready", "copying", "copied"}
          /\ script[s].step # "wait" => launcher = "closed"
          /\ step # "none" => launcher = "closed"
          /\ step \in {"copied", "cleared"} => newFile' = payload
          /\ newFile' \in Files /\ marker' \in {0, marker}
          /\ backup' \in {backup, Missing}
          /\ UNCHANGED <<target, payload, launcher, windows, losses, crossed>>
  <2>1. CASE WaitTimesOut(s)
    <3>1. Stops(s) /\ script[s].step = "wait" /\ UNCHANGED <<Files4, marker, launcher, windows, losses, crossed>>
      BY <2>1 DEF WaitTimesOut
    <3> QED
      BY <3>1 DEF Files4
  <2>2. CASE BeginCopy(s)
    BY <2>2 DEF BeginCopy, GiveUp, DropMarkerIfRunnable, ScriptsFollow, ScriptRuns
  <2>3. CASE EndCopy(s)
    BY <2>3 DEF EndCopy, GiveUp, DropMarkerIfRunnable, ScriptsFollow, StepsKnowFiles, ScriptRuns
  <2>4. CASE RemoveBackup(s)
    BY <2>4 DEF RemoveBackup, ScriptsFollow, StepsKnowFiles, ScriptRuns
  <2> QED
    BY <2>1, <2>2, <2>3, <2>4
<1>2. /\ script' \in [Script -> [step : ScriptSteps, had : BOOLEAN]]
      /\ script'[s].step = step /\ \A t \in Script \ {s} : script'[t] = script[t]
  BY <1>1, ScriptMoves
<1>3. target \in Version /\ payload \in Version /\ \A t \in Script \ {s} : ~ScriptRuns(t)
  BY <1>1 DEF StepsKnowFiles, ScriptsFollow, Before
<1>4. UpdateTypeOK'
  <2>1. {target', backup', newFile'} \subseteq Files /\ {payload', marker'} \subseteq Version \union {Missing}
    BY <1>1 DEF Missing
  <2> QED
    BY <1>1, <1>2, <2>1
<1>5. ScriptsFollow' /\ StepsKnowFiles'
  BY <1>1, <1>2, <1>3 DEF ScriptsFollow, StepsKnowFiles, ScriptRuns, Between
<1> QED
  BY <1>1, <1>3, <1>4, <1>5 DEF Unharmed, LauncherNotLost, NeverDowngrades

\* A step of a script that puts a launcher away or in place.
LEMMA ReplacementKeeps ==
    ASSUME SoloInv, NEW s \in Script, ScriptRuns(s),
           MoveTarget(s) \/ InstallFiles(s) \/ EndInstall(s) \/ RestorePrevious(s) \/ FinishUpdate(s)
    PROVE  SoloInv'
<1> USE DEF SoloInv, UpdateTypeOK
<1> USE UpdateNumbers
<1>0. /\ \A t \in Script \ {s} : ~ScriptRuns(t)
      /\ payload \in Version
      /\ script[s].step # "wait" => launcher = "closed"
  BY DEF StepsKnowFiles, ScriptsFollow
<1>1. CASE MoveTarget(s)
  <2>1. target \in Version /\ launcher = "closed" /\ newFile = payload /\ target <= payload
    BY <1>0, <1>1 DEF MoveTarget, StepsKnowFiles, Before
  <2>2. CASE newFile' = Missing /\ GiveUp(s) /\ UNCHANGED <<target, backup>>
    <3>1. marker' = 0 /\ Stops(s) /\ UNCHANGED <<target, backup, payload, launcher, windows, losses, crossed>>
      BY <1>1, <2>1, <2>2 DEF GiveUp, DropMarkerIfRunnable, MoveTarget
    <3>2. /\ script' \in [Script -> [step : ScriptSteps, had : BOOLEAN]]
          /\ script'[s].step = "none" /\ \A t \in Script \ {s} : script'[t] = script[t]
      BY <3>1, ScriptMoves
    <3>3. UpdateTypeOK' /\ ScriptsFollow' /\ StepsKnowFiles'
      BY <1>0, <2>2, <3>1, <3>2 DEF Missing, ScriptsFollow, StepsKnowFiles, ScriptRuns
    <3> QED
      BY <2>1, <3>1, <3>3 DEF Unharmed, LauncherNotLost, NeverDowngrades
  <2>3. CASE /\ backup' = target /\ target' = Missing /\ UNCHANGED <<newFile, marker>>
             /\ script' = [script EXCEPT ![s] = [step |-> "moved", had |-> TRUE]]
    <3>1. /\ script' \in [Script -> [step : ScriptSteps, had : BOOLEAN]]
          /\ script'[s].step = "moved" /\ script'[s].had
          /\ \A t \in Script \ {s} : script'[t] = script[t]
      BY <2>3
    <3>2. UNCHANGED <<payload, launcher, windows, losses, crossed>>
      BY <1>1 DEF MoveTarget
    <3>3. UpdateTypeOK' /\ ScriptsFollow' /\ StepsKnowFiles'
      BY <1>0, <2>1, <2>3, <3>1, <3>2 DEF Missing, ScriptsFollow, StepsKnowFiles, ScriptRuns, Before
    <3> QED
      BY <2>1, <2>3, <3>2, <3>3 DEF Missing, Unharmed, LauncherNotLost, NeverDowngrades
  <2> QED
    BY <1>1, <2>1, <2>2, <2>3 DEF MoveTarget
<1>2. CASE InstallFiles(s) \/ EndInstall(s)
  <2>1. /\ script[s].step \in Between /\ script[s].had /\ launcher = "closed" /\ newFile = payload
        /\ backup \in Version /\ backup <= payload /\ target \notin Version
    BY <1>0, <1>2 DEF InstallFiles, EndInstall, StepsKnowFiles, Between
  <2>2. PICK step \in {"installing", "failed", "done"} :
           /\ To(s, step) /\ newFile' \in Files
           /\ step = "installing" => newFile' = payload /\ target' = Piece
           /\ step = "failed" => target' = target
           /\ step = "done" => target' = payload
           /\ UNCHANGED <<backup, payload, marker, launcher, windows, losses, crossed>>
    BY <1>2, <2>1 DEF InstallFiles, EndInstall
  <2>3. /\ script' \in [Script -> [step : ScriptSteps, had : BOOLEAN]]
        /\ script'[s].step = step /\ script'[s].had = script[s].had
        /\ \A t \in Script \ {s} : script'[t] = script[t]
    BY <2>2, ScriptMoves
  <2>4. UpdateTypeOK'
    BY <1>0, <2>2, <2>3
  <2>5. \A t \in Script : ScriptRuns(t)' => t = s
    BY <1>0, <2>3 DEF ScriptRuns
  <2>6. ScriptsFollow'
    BY <2>1, <2>2, <2>5 DEF ScriptsFollow
  <2>7. /\ script'[s].step \in {"installing", "failed", "done"} /\ script'[s].had
        /\ script'[s].step = "installing" => newFile' = payload
        /\ script'[s].step \in {"installing", "failed"} => target' \notin Version
        /\ script'[s].step = "done" => target' = payload
        /\ payload' = payload /\ backup' = backup
    BY <2>1, <2>2, <2>3
  <2>8. StepsKnowFiles'
    BY <1>0, <2>1, <2>5, <2>7 DEF StepsKnowFiles, Before, Between
  <2> QED
    BY <1>0, <2>1, <2>2, <2>4, <2>6, <2>8 DEF Unharmed, LauncherNotLost, NeverDowngrades
<1>3. CASE RestorePrevious(s)
  <2>1. /\ script[s].had /\ launcher = "closed" /\ backup \in Version /\ backup <= payload
    BY <1>0, <1>3 DEF RestorePrevious, StepsKnowFiles, Between
  <2>2. /\ target' = backup /\ backup' \in {backup, Missing} /\ marker' = 0 /\ Stops(s)
        /\ UNCHANGED <<newFile, payload, launcher, windows, losses, crossed>>
    BY <1>3, <2>1 DEF RestorePrevious, DropMarkerIfRunnable
  <2>3. /\ script' \in [Script -> [step : ScriptSteps, had : BOOLEAN]]
        /\ script'[s].step = "none" /\ \A t \in Script \ {s} : script'[t] = script[t]
    BY <2>2, ScriptMoves
  <2>4. UpdateTypeOK' /\ ScriptsFollow' /\ StepsKnowFiles'
    BY <1>0, <2>2, <2>3 DEF Missing, ScriptsFollow, StepsKnowFiles, ScriptRuns
  <2> QED
    BY <1>0, <2>1, <2>2, <2>4 DEF Unharmed, LauncherNotLost, NeverDowngrades
<1>4. CASE FinishUpdate(s)
  <2>1. target = payload /\ launcher = "closed"
    BY <1>0, <1>4 DEF FinishUpdate, StepsKnowFiles
  <2>2. /\ backup' = Missing /\ payload' = Missing /\ newFile' \in {Missing, newFile}
        /\ marker' = 0 /\ Stops(s) /\ UNCHANGED <<target, launcher, windows, losses, crossed>>
    BY <1>4 DEF FinishUpdate
  <2>3. /\ script' \in [Script -> [step : ScriptSteps, had : BOOLEAN]]
        /\ script'[s].step = "none" /\ \A t \in Script \ {s} : script'[t] = script[t]
    BY <2>2, ScriptMoves
  <2>4. UpdateTypeOK' /\ ScriptsFollow' /\ StepsKnowFiles'
    BY <1>0, <2>2, <2>3 DEF Missing, ScriptsFollow, StepsKnowFiles, ScriptRuns
  <2> QED
    BY <1>0, <2>1, <2>2, <2>4 DEF Unharmed, LauncherNotLost, NeverDowngrades
<1> QED
  BY <1>1, <1>2, <1>3, <1>4

LEMMA SoloKeeps == ASSUME SoloInv, ~crossed', [UpdateNext]_updateVars PROVE SoloInv'
<1>1. ASSUME NEW s \in Script, OpenLauncher(s) \/ ConfirmUpdate(s) PROVE SoloInv'
  BY <1>1, OpenKeeps
<1>2. ASSUME NEW s \in Script, ScriptStep(s) PROVE SoloInv'
  <2>1. ScriptRuns(s)
    BY <1>2 DEF ScriptStep, WaitTimesOut, BeginCopy, EndCopy, RemoveBackup, MoveTarget,
                InstallFiles, EndInstall, RestorePrevious, FinishUpdate, ScriptRuns
  <2> QED
    BY <1>2, <2>1, PreparationKeeps, ReplacementKeeps DEF ScriptStep
<1>3. CASE \/ \E v \in Version : StagePayload(v)
           \/ WriteMarker \/ DeclineUpdate \/ LauncherExits \/ PowerLoss
  BY <1>3, UiKeeps
<1>4. CASE UNCHANGED updateVars
  BY <1>4 DEF updateVars, SoloInv, UpdateTypeOK, ScriptsFollow, StepsKnowFiles, ScriptRuns,
              Unharmed, LauncherNotLost, NeverDowngrades
<1> QED
  BY <1>1, <1>2, <1>3, <1>4 DEF UpdateNext

\* Types do not depend on how many scripts are at work.
LEMMA UpdateTypesKept == ASSUME UpdateTypeOK, [UpdateNext]_updateVars PROVE UpdateTypeOK'
<1> USE DEF UpdateTypeOK
<1> USE UpdateNumbers
<1>1. ASSUME NEW s \in Script, OpenLauncher(s) \/ ConfirmUpdate(s) PROVE UpdateTypeOK'
  <2>1. /\ UNCHANGED <<Files4, windows, losses>> /\ crossed' \in BOOLEAN
        /\ ResumeOrRun(s, "leaving") \/ ResumeOrRun(s, "stopping")
    BY <1>1 DEF OpenLauncher, ConfirmUpdate
  <2>2. /\ script' = script \/ To(s, "wait")
        /\ marker' \in {0, marker} /\ launcher' \in {"running", "leaving", "stopping"}
    BY <2>1 DEF ResumeOrRun, StartScript, To
  <2>3. script' \in [Script -> [step : ScriptSteps, had : BOOLEAN]]
    BY <2>2, ScriptMoves
  <2> QED
    BY <2>1, <2>2, <2>3 DEF Files4, Missing
<1>2. ASSUME NEW s \in Script, ScriptStep(s) PROVE UpdateTypeOK'
  <2>1. UNCHANGED <<launcher, windows, losses, crossed>>
    BY <1>2 DEF ScriptStep, WaitTimesOut, BeginCopy, EndCopy, RemoveBackup, MoveTarget,
                InstallFiles, EndInstall, RestorePrevious, FinishUpdate
  <2>2. /\ target' \in {target, Missing, Piece, newFile, backup}
        /\ backup' \in {backup, Missing, target}
        /\ newFile' \in {newFile, Piece, Missing, payload}
        /\ payload' \in {payload, Missing} /\ marker' \in {marker, 0}
    BY <1>2 DEF ScriptStep, WaitTimesOut, BeginCopy, EndCopy, RemoveBackup, MoveTarget, Files4,
                InstallFiles, EndInstall, RestorePrevious, FinishUpdate, GiveUp, DropMarkerIfRunnable
  <2>3. script' \in [Script -> [step : ScriptSteps, had : BOOLEAN]]
    <3>1. \/ \E step \in ScriptSteps : To(s, step) \/ (Stops(s) /\ step = "none")
          \/ script' = [script EXCEPT ![s] = [step |-> "moved", had |-> TRUE]]
      BY <1>2 DEF ScriptStep, WaitTimesOut, BeginCopy, EndCopy, RemoveBackup, MoveTarget,
                  InstallFiles, EndInstall, RestorePrevious, FinishUpdate, GiveUp
    <3>2. ASSUME NEW step \in ScriptSteps, To(s, step) \/ (Stops(s) /\ step = "none")
          PROVE  script' \in [Script -> [step : ScriptSteps, had : BOOLEAN]]
      BY <3>2, ScriptMoves
    <3>3. CASE script' = [script EXCEPT ![s] = [step |-> "moved", had |-> TRUE]]
      BY <3>3
    <3> QED
      BY <3>1, <3>2, <3>3
  <2>4. {target', backup', newFile'} \subseteq Files
    BY <2>2 DEF Files
  <2>5. {payload', marker'} \subseteq Version \union {Missing}
    BY <2>2 DEF Missing
  <2> QED
    BY <2>1, <2>3, <2>4, <2>5
<1>3. ASSUME NEW v \in Version, StagePayload(v) PROVE UpdateTypeOK'
  BY <1>3 DEF StagePayload
<1>4. CASE WriteMarker \/ DeclineUpdate
  BY <1>4 DEF WriteMarker, DeclineUpdate, Files4, Missing
<1>5. CASE LauncherExits
  BY <1>5 DEF LauncherExits, Files4
<1>6. CASE PowerLoss
  <2>1. NoScript \in [step : ScriptSteps, had : BOOLEAN] BY DEF NoScript
  <2> QED
    BY <1>6, <2>1, UpdateAssumption DEF PowerLoss, Files4
<1>7. CASE UNCHANGED updateVars
  BY <1>7 DEF updateVars
<1> QED
  BY <1>1, <1>2, <1>3, <1>4, <1>5, <1>6, <1>7 DEF UpdateNext

\* A script works alone as long as the launcher was never opened beside one.
UpdateInv == UpdateTypeOK /\ (~crossed => SoloInv)

LEMMA UpdateKeeps == ASSUME UpdateInv, [UpdateNext]_updateVars PROVE UpdateInv'
<1>1. UpdateTypeOK'
  BY UpdateTypesKept DEF UpdateInv
<1>2. crossed => crossed'
  BY DEF UpdateNext, ScriptStep, updateVars, OpenLauncher, ConfirmUpdate, StagePayload, WriteMarker,
         DeclineUpdate, LauncherExits, PowerLoss, WaitTimesOut, BeginCopy, EndCopy, RemoveBackup,
         MoveTarget, InstallFiles, EndInstall, RestorePrevious, FinishUpdate
<1> QED
  BY <1>1, <1>2, SoloKeeps DEF UpdateInv

-----------------------------------------------------------------------------
\* The updater's variables keep their types, whatever the two processes, the
\* user and the power do (updater.py, pending_update.py, assets/updater).
THEOREM UpdateTypeCorrect == UpdateSpec => []UpdateTypeOK
<1>1. UpdateInit => UpdateInv
  BY UpdateStarts DEF UpdateInv, SoloInv
<1>2. UpdateInv /\ [UpdateNext]_updateVars => UpdateInv'
  BY UpdateKeeps
<1>3. UpdateInv => UpdateTypeOK
  BY DEF UpdateInv
<1> QED
  BY <1>1, <1>2, <1>3, PTL DEF UpdateSpec

\* Until the launcher is opened while a script works, every state of an update
\* has a whole launcher on the disk, in its place or as the rollback copy, and
\* what was put in place is never older than what was moved away, whatever
\* fails and however often the power goes.
THEOREM UpdateSafe == UpdateSpec => []UpdateIsSafe
<1>1. UpdateInit => UpdateInv
  BY UpdateStarts DEF UpdateInv, SoloInv
<1>2. UpdateInv /\ [UpdateNext]_updateVars => UpdateInv'
  BY UpdateKeeps
<1>3. UpdateInv => UpdateIsSafe
  BY DEF UpdateInv, SoloInv, UpdateIsSafe, Unharmed
<1> QED
  BY <1>1, <1>2, <1>3, PTL DEF UpdateSpec

-----------------------------------------------------------------------------
Times(s, p) == Cardinality({i \in DOMAIN s : s[i] = p})

\* The places of an element in a sequence are finitely many.
LEMMA TimesIsNatural ==
    ASSUME NEW S, NEW s \in Seq(S), NEW p
    PROVE  /\ IsFiniteSet({i \in DOMAIN s : s[i] = p})
           /\ Times(s, p) \in Nat
<1>1. DOMAIN s = 1..Len(s) /\ Len(s) \in Nat
  BY LenProperties
<1>2. IsFiniteSet(1..Len(s))
  BY <1>1, FS_Interval
<1>3. {i \in DOMAIN s : s[i] = p} \in SUBSET (1..Len(s))
  BY <1>1
<1> QED
  BY <1>2, <1>3, FS_Subset, FS_CardinalityType DEF Times

LEMMA TimesInEmpty == \A p : Times(<<>>, p) = 0
<1>1. \A p : {i \in DOMAIN <<>> : <<>>[i] = p} = {}
  OBVIOUS
<1> QED
  BY <1>1, FS_EmptySet DEF Times

LEMMA TimesInOne ==
    ASSUME NEW q, NEW p
    PROVE  Times(<<q>>, p) = IF p = q THEN 1 ELSE 0
<1>1. CASE p = q
  <2>1. {i \in DOMAIN <<q>> : <<q>>[i] = p} = {1}
    BY <1>1
  <2> QED
    BY <1>1, <2>1, FS_Singleton DEF Times
<1>2. CASE p # q
  <2>1. {i \in DOMAIN <<q>> : <<q>>[i] = p} = {}
    BY <1>2
  <2> QED
    BY <1>2, <2>1, FS_EmptySet DEF Times
<1> QED
  BY <1>1, <1>2

LEMMA TimesAfterAppend ==
    ASSUME NEW S, NEW s \in Seq(S), NEW q \in S, NEW p
    PROVE  Times(Append(s, q), p) = Times(s, p) + IF p = q THEN 1 ELSE 0
<1> DEFINE at(t) == {i \in DOMAIN t : t[i] = p}
<1>1. /\ DOMAIN s = 1..Len(s) /\ Len(s) \in Nat
      /\ DOMAIN Append(s, q) = 1..(Len(s) + 1)
      /\ \A i \in 1..Len(s) : Append(s, q)[i] = s[i]
      /\ Append(s, q)[Len(s) + 1] = q
  BY LenProperties, AppendProperties
<1>2. IsFiniteSet(at(s)) /\ Times(s, p) \in Nat
  BY TimesIsNatural
<1> HIDE DEF at
<1>0. \A t : Times(t, p) = Cardinality(at(t))
  BY DEF Times, at
<1>3. CASE p = q
  <2>1. at(Append(s, q)) = at(s) \cup {Len(s) + 1} /\ Len(s) + 1 \notin at(s)
    BY <1>1, <1>3 DEF at
  <2>2. Cardinality(at(s) \cup {Len(s) + 1}) = Cardinality(at(s)) + 1
    BY <1>2, <2>1, FS_AddElement
  <2> QED
    BY <1>0, <1>3, <2>1, <2>2
<1>4. CASE p # q
  <2>1. at(Append(s, q)) = at(s)
    BY <1>1, <1>4 DEF at
  <2> QED
    BY <1>0, <1>2, <1>4, <2>1
<1> QED
  BY <1>3, <1>4

LEMMA TimesAfterTail ==
    ASSUME NEW S, NEW s \in Seq(S), s # <<>>, NEW p
    PROVE  Times(s, p) = Times(Tail(s), p) + IF p = Head(s) THEN 1 ELSE 0
<1> DEFINE at(t) == {i \in DOMAIN t : t[i] = p}
           rest == at(s) \ {1}
           shift == [i \in at(Tail(s)) |-> i + 1]
<1>1. /\ DOMAIN s = 1..Len(s) /\ Len(s) \in Nat \ {0} /\ Head(s) = s[1]
      /\ DOMAIN Tail(s) = 1..(Len(s) - 1)
      /\ \A i \in 1..(Len(s) - 1) : Tail(s)[i] = s[i + 1]
  BY LenProperties, HeadTailProperties, EmptySeq
<1>2. IsFiniteSet(at(Tail(s))) /\ Times(Tail(s), p) \in Nat /\ IsFiniteSet(at(s))
  BY TimesIsNatural, HeadTailProperties
<1>3. shift \in Bijection(at(Tail(s)), rest)
  <2>1. shift \in [at(Tail(s)) -> rest]
    BY <1>1
  <2>2. \A i, j \in at(Tail(s)) : shift[i] = shift[j] => i = j
    BY <1>1
  <2>3. \A j \in rest : \E i \in at(Tail(s)) : shift[i] = j
    <3> SUFFICES ASSUME NEW j \in rest PROVE \E i \in at(Tail(s)) : shift[i] = j
      OBVIOUS
    <3>1. j - 1 \in at(Tail(s))
      BY <1>1
    <3> QED
      BY <1>1, <3>1
  <2> HIDE DEF shift, rest, at
  <2> QED
    BY <2>1, <2>2, <2>3, Fun_IsBij
<1>4. Cardinality(rest) = Cardinality(at(Tail(s)))
  BY <1>2, <1>3, FS_Bijection DEF ExistsBijection
<1>5. Cardinality(rest) = IF 1 \in at(s) THEN Cardinality(at(s)) - 1 ELSE Cardinality(at(s))
  BY <1>2, FS_RemoveElement
<1>6. 1 \in at(s) <=> p = Head(s)
  BY <1>1
<1>7. Cardinality(at(s)) \in Nat
  BY <1>2, FS_CardinalityType
<1>8. Times(s, p) = Cardinality(at(s)) /\ Times(Tail(s), p) = Cardinality(at(Tail(s)))
  BY DEF Times
<1> HIDE DEF at, rest
<1> QED
  BY <1>2, <1>4, <1>5, <1>6, <1>7, <1>8

-----------------------------------------------------------------------------
Working == {"starting", "serving", "closing"}

\* What a process holds besides the lock: the queues die with their owner.
OwnerAndQueues ==
    /\ owner # NoStarter => route[owner] \in Working
    /\ owner = NoStarter =>
           backlog = <<>> /\ requests = <<>> /\ batch = <<>> /\ seen = <<>> /\ handled = <<>>
    /\ \A i \in DOMAIN backlog : backlog[i].from # owner

\* Each remembered identity is remembered once; the owner's own is not.
SeenOnce ==
    /\ \A i, j \in DOMAIN seen : seen[i] = seen[j] => i = j
    /\ \A i \in DOMAIN seen : seen[i] # owner

\* A request is with the owner, once, exactly if it is remembered.
TakenIsSeen ==
    \A p \in Starter : Taken(p) = IF p = owner \/ p \in ToSet(seen) THEN 1 ELSE 0

ChannelInv ==
    /\ ChannelTypeOK
    /\ OneDesktopProcess
    /\ OwnerAndQueues
    /\ SeenOnce
    /\ TakenIsSeen

LEMMA ChannelStarts == ASSUME ChannelInit PROVE ChannelInv
<1> USE ChannelAssumption DEF ChannelInit
<1>1. ChannelTypeOK
  BY EmptySeq DEF ChannelTypeOK, Routes
<1>2. \A p \in Starter : Taken(p) = 0
  BY TimesInEmpty DEF Taken, Times
<1>3. ToSet(seen) = {} /\ \A p \in Starter : p # owner
  BY DEF ToSet
<1>4. TakenIsSeen
  BY <1>2, <1>3 DEF TakenIsSeen
<1> QED
  BY <1>1, <1>4 DEF ChannelInv, OneDesktopProcess, OwnerAndQueues, SeenOnce

\* Another identity is a new last one, and the first ones are not forgotten
\* where no more of them can come than the owner remembers.
LEMMA RememberAdds ==
    ASSUME ChannelInv, Cardinality(Starter) <= SeenSize, owner \in Starter,
           NEW p \in Starter, p # owner, ~Repeated(p), Remember(p)
    PROVE  /\ seen' = Append(seen, p)
           /\ seen' \in Seq(Starter) /\ Len(seen') <= SeenSize
           /\ ToSet(seen') = ToSet(seen) \cup {p}
           /\ \A i, j \in DOMAIN seen' : seen'[i] = seen'[j] => i = j
           /\ \A i \in DOMAIN seen' : seen'[i] # owner
<1> USE ChannelAssumption
<1>1. /\ seen \in Seq(Starter) /\ DOMAIN seen = 1..Len(seen) /\ Len(seen) \in Nat
      /\ seen \in [1..Len(seen) -> Starter]
      /\ \A i \in DOMAIN seen : seen[i] # owner
      /\ \A i, j \in DOMAIN seen : seen[i] = seen[j] => i = j
  BY LenProperties DEF ChannelInv, ChannelTypeOK, SeenOnce
<1>2. Len(seen) <= Cardinality(Starter \ {owner})
  <2>1. IsFiniteSet(Starter \ {owner})
    BY FS_RemoveElement
  <2>2. seen \in [1..Len(seen) -> Starter \ {owner}]
    BY <1>1
  <2>3. seen \in Injection(1..Len(seen), Starter \ {owner})
    BY <1>1, <2>2, Fun_IsInj
  <2>4. Cardinality(1..Len(seen)) = Len(seen)
    <3>1. \A n \in Int : Cardinality(1..n) = IF 1 > n THEN 0 ELSE n - 1 + 1
      BY FS_Interval
    <3> QED
      BY <1>1, <3>1
  <2> QED
    BY <2>1, <2>3, <2>4, FS_Injection
<1>3. Cardinality(Starter \ {owner}) = Cardinality(Starter) - 1 /\ Cardinality(Starter) \in Nat
  BY FS_RemoveElement, FS_CardinalityType
<1>4. Len(seen) < SeenSize
  BY <1>1, <1>2, <1>3
<1>5. seen' = Append(seen, p)
  BY <1>4 DEF Remember
<1>6. /\ seen' \in Seq(Starter) /\ Len(seen') = Len(seen) + 1
      /\ DOMAIN seen' = 1..(Len(seen) + 1)
      /\ \A i \in 1..Len(seen) : seen'[i] = seen[i]
      /\ seen'[Len(seen) + 1] = p
  BY <1>1, <1>5, AppendProperties, LenProperties
<1>7. \A i \in DOMAIN seen : seen[i] # p
  BY DEF Repeated, ToSet
<1>8. ToSet(seen') = ToSet(seen) \cup {p}
  BY <1>1, <1>6 DEF ToSet
<1>9. \A i, j \in DOMAIN seen' : seen'[i] = seen'[j] => i = j
  BY <1>1, <1>6, <1>7
<1>10. \A i \in DOMAIN seen' : seen'[i] # owner
  BY <1>1, <1>6
<1> QED
  BY <1>1, <1>4, <1>5, <1>6, <1>8, <1>9, <1>10

\* A step of one process that leaves the owner and its queues alone.
LEMMA RouteKeeps ==
    ASSUME ChannelInv, NEW p \in Starter, NEW step \in Routes,
           Rerouted(p, step),
           step \in Working => owner = p,
           p = owner => step \in Working,
           attempt' \in [Starter -> 0..MaxAttempts],
           endpoint' \in Starter \union {NoStarter},
           UNCHANGED <<owner, backlog, requests, batch, seen, handled>>
    PROVE  ChannelInv'
<1> USE DEF ChannelInv
<1>1. route' \in [Starter -> Routes] /\ route'[p] = step /\ \A q \in Starter \ {p} : route'[q] = route[q]
  BY DEF ChannelTypeOK, Rerouted
<1>2. ChannelTypeOK'
  BY <1>1 DEF ChannelTypeOK
<1>3. OneDesktopProcess'
  BY <1>1 DEF OneDesktopProcess, Working
<1>4. OwnerAndQueues'
  BY <1>1 DEF OwnerAndQueues, ChannelTypeOK
<1>5. TakenIsSeen' /\ SeenOnce'
  BY DEF TakenIsSeen, Taken, SeenOnce
<1> QED
  BY <1>2, <1>3, <1>4, <1>5

\* The end of an owner, of whatever kind, leaves no queue behind.
LEMMA EndKeeps ==
    ASSUME ChannelInv, NEW p \in Starter, p = owner, Rerouted(p, "gone"),
           owner' = NoStarter, endpoint' \in {endpoint, NoStarter}, ForgetQueues, UNCHANGED attempt
    PROVE  ChannelInv'
<1> USE ChannelAssumption DEF ChannelInv, ForgetQueues
<1>1. route' \in [Starter -> Routes] /\ route'[p] = "gone" /\ \A q \in Starter \ {p} : route'[q] = route[q]
  BY DEF ChannelTypeOK, Rerouted, Routes
<1>2. ChannelTypeOK'
  BY <1>1, EmptySeq DEF ChannelTypeOK
<1>3. OneDesktopProcess'
  BY <1>1 DEF OneDesktopProcess
<1>4. OwnerAndQueues' /\ SeenOnce'
  BY DEF OwnerAndQueues, SeenOnce
<1>5. \A q \in Starter : Taken(q)' = 0
  BY TimesInEmpty DEF Taken, Times
<1>6. ToSet(seen') = {} /\ \A q \in Starter : q # owner'
  BY DEF ToSet
<1>7. TakenIsSeen'
  BY <1>5, <1>6 DEF TakenIsSeen
<1> QED
  BY <1>2, <1>3, <1>4, <1>7

\* Becoming the owner, connecting to it, and what it does with its queues.
LEMMA LockKeeps == ASSUME ChannelInv, NEW p \in Starter, BecomeOwner(p) PROVE ChannelInv'
<1> USE ChannelAssumption DEF ChannelInv
<1>1. /\ owner = NoStarter /\ owner' = p /\ requests' = <<p>> /\ route[p] = "routing"
      /\ Rerouted(p, "starting")
      /\ UNCHANGED <<endpoint, attempt, backlog, batch, seen, handled>>
      /\ backlog = <<>> /\ batch = <<>> /\ seen = <<>> /\ handled = <<>>
  BY DEF BecomeOwner, OwnerAndQueues
<1>2. route' \in [Starter -> Routes] /\ route'[p] = "starting" /\ \A q \in Starter \ {p} : route'[q] = route[q]
  BY <1>1 DEF ChannelTypeOK, Rerouted, Routes
<1>3. ChannelTypeOK'
  BY <1>1, <1>2, EmptySeq DEF ChannelTypeOK
<1>4. OneDesktopProcess'
  <2>1. \A q \in Starter : route[q] \notin Working
    BY <1>1 DEF OneDesktopProcess, Working
  <2> QED
    BY <1>1, <1>2, <2>1 DEF OneDesktopProcess, Working
<1>5. OwnerAndQueues' /\ SeenOnce'
  BY <1>1, <1>2 DEF OwnerAndQueues, SeenOnce, Working
<1>6. \A q \in Starter : Taken(q)' = IF q = p THEN 1 ELSE 0
  <2>1. \A q \in Starter : Taken(q)' = Times(<<p>>, q) + Times(<<>>, q) + Times(<<>>, q)
    BY <1>1 DEF Taken, Times
  <2> QED
    BY <2>1, TimesInOne, TimesInEmpty
<1>7. ToSet(seen') = {}
  BY <1>1 DEF ToSet
<1>8. TakenIsSeen'
  BY <1>1, <1>6, <1>7 DEF TakenIsSeen
<1> QED
  BY <1>3, <1>4, <1>5, <1>8

LEMMA ConnectKeeps == ASSUME ChannelInv, NEW p \in Starter, Connect(p) PROVE ChannelInv'
<1> USE ChannelAssumption DEF ChannelInv
<1> DEFINE c == [from |-> p, number |-> attempt[p] + 1]
<1>1. /\ owner # NoStarter /\ route[p] = "routing" /\ Rerouted(p, "connected")
      /\ attempt[p] < MaxAttempts /\ attempt' = [attempt EXCEPT ![p] = @ + 1]
      /\ backlog' = Append(backlog, c)
      /\ UNCHANGED <<owner, endpoint, requests, batch, seen, handled>>
  BY DEF Connect
<1>2. route' \in [Starter -> Routes] /\ route'[p] = "connected" /\ \A q \in Starter \ {p} : route'[q] = route[q]
  BY <1>1 DEF ChannelTypeOK, Rerouted, Routes
<1>3. c \in Connections /\ attempt' \in [Starter -> 0..MaxAttempts]
  BY <1>1 DEF ChannelTypeOK, Connections
<1>4. p # owner
  BY <1>1 DEF OwnerAndQueues, Working
<1> HIDE DEF c
<1>5. /\ backlog' \in Seq(Connections) /\ DOMAIN backlog = 1..Len(backlog) /\ Len(backlog) \in Nat
      /\ DOMAIN backlog' = 1..(Len(backlog) + 1)
      /\ \A i \in 1..Len(backlog) : backlog'[i] = backlog[i]
      /\ backlog'[Len(backlog) + 1] = c
  BY <1>1, <1>3, AppendProperties, LenProperties DEF ChannelTypeOK
<1>6. ChannelTypeOK'
  BY <1>1, <1>2, <1>3, <1>5 DEF ChannelTypeOK
<1>7. \A i \in DOMAIN backlog' : backlog'[i].from # owner
  BY <1>4, <1>5 DEF OwnerAndQueues, c
<1>8. OwnerAndQueues'
  <2>1. owner \in Starter /\ route'[owner] = route[owner]
    BY <1>1, <1>2, <1>4 DEF ChannelTypeOK
  <2> QED
    BY <1>1, <1>7, <2>1 DEF OwnerAndQueues
<1>9. OneDesktopProcess' /\ SeenOnce' /\ TakenIsSeen'
  BY <1>1, <1>2 DEF OneDesktopProcess, SeenOnce, TakenIsSeen, Taken
<1> QED
  BY <1>6, <1>8, <1>9

\* What the owner does with the oldest connection.
LEMMA HeadOfBacklog ==
    ASSUME ChannelInv, backlog # <<>>, owner # NoStarter, backlog' = Tail(backlog)
    PROVE  /\ Head(backlog) \in Connections /\ Head(backlog).from \in Starter
           /\ Head(backlog).from # owner
           /\ backlog' \in Seq(Connections)
           /\ \A i \in DOMAIN backlog' : backlog'[i].from # owner
<1>1. /\ backlog \in Seq(Connections) /\ \A i \in DOMAIN backlog : backlog[i].from # owner
  BY DEF ChannelInv, ChannelTypeOK, OwnerAndQueues
<1>2. /\ DOMAIN backlog = 1..Len(backlog) /\ Len(backlog) \in Nat \ {0}
      /\ Head(backlog) = backlog[1] /\ Head(backlog) \in Connections
      /\ Tail(backlog) \in Seq(Connections)
      /\ DOMAIN Tail(backlog) = 1..(Len(backlog) - 1)
      /\ \A i \in 1..(Len(backlog) - 1) : Tail(backlog)[i] = backlog[i + 1]
  BY <1>1, LenProperties, HeadTailProperties, EmptySeq
<1>3. Head(backlog).from \in Starter
  BY <1>2 DEF Connections
<1> QED
  BY <1>1, <1>2, <1>3

LEMMA RejectKeeps == ASSUME ChannelInv, RejectFull PROVE ChannelInv'
<1> USE DEF ChannelInv
<1>1. /\ backlog # <<>> /\ owner # NoStarter /\ backlog' = Tail(backlog)
      /\ UNCHANGED <<owner, endpoint, route, attempt, requests, batch, seen, handled>>
  BY DEF RejectFull
<1>2. ChannelTypeOK'
  BY <1>1, HeadOfBacklog DEF ChannelTypeOK
<1>3. OwnerAndQueues'
  BY <1>1, HeadOfBacklog DEF OwnerAndQueues
<1> QED
  BY <1>1, <1>2, <1>3 DEF OneDesktopProcess, SeenOnce, TakenIsSeen, Taken

LEMMA AcceptKeeps ==
    ASSUME ChannelInv, Cardinality(Starter) <= SeenSize, AcceptRequest
    PROVE  /\ ChannelInv'
           /\ owner' = owner /\ owner # NoStarter /\ route'[owner] = "serving"
           /\ \A q \in Starter : route[q] # "forwarded" /\ route'[q] = "forwarded" => q \in ToSet(seen')
<1> USE ChannelAssumption DEF ChannelInv
<1> DEFINE c == Head(backlog)
           p == c.from
<1>1. /\ owner # NoStarter /\ route[owner] = "serving" /\ backlog # <<>> /\ backlog' = Tail(backlog)
      /\ UNCHANGED <<owner, endpoint, attempt, batch, handled>>
      /\ \/ Repeated(p) /\ UNCHANGED <<requests, seen>>
         \/ ~Repeated(p) /\ HasRoom /\ requests' = Append(requests, p) /\ Remember(p)
      /\ \/ route[p] = "connected" /\ Rerouted(p, "forwarded")
         \/ UNCHANGED route
  BY DEF AcceptRequest, Answer
<1>2. p \in Starter /\ p # owner /\ backlog' \in Seq(Connections) /\ owner \in Starter
      /\ \A i \in DOMAIN backlog' : backlog'[i].from # owner
  BY <1>1, HeadOfBacklog DEF ChannelTypeOK
<1> HIDE DEF p, c
<1>3. /\ route' \in [Starter -> Routes] /\ \A q \in Starter \ {p} : route'[q] = route[q]
      /\ route'[p] \in {route[p], "forwarded"}
  BY <1>1, <1>2 DEF ChannelTypeOK, Rerouted, Routes
<1>4. /\ OneDesktopProcess' /\ route'[owner] = "serving"
      /\ \A q \in Starter : route[q] # "forwarded" /\ route'[q] = "forwarded" => q = p
  <2>1. route'[owner] = "serving"
    BY <1>1, <1>2, <1>3
  <2>2. \A q \in Starter : route[q] # "forwarded" /\ route'[q] = "forwarded" => q = p
    BY <1>3
  <2>3. \A q \in Starter : route'[q] = route[q] \/ route'[q] = "forwarded"
    BY <1>3
  <2>4. OneDesktopProcess'
    BY <1>1, <2>3 DEF OneDesktopProcess
  <2> QED
    BY <2>1, <2>2, <2>4
<1>5. OwnerAndQueues'
  BY <1>1, <1>2, <1>4 DEF OwnerAndQueues, Working
<1>6. CASE Repeated(p) /\ UNCHANGED <<requests, seen>>
  <2>1. ChannelTypeOK'
    BY <1>1, <1>2, <1>3, <1>6 DEF ChannelTypeOK
  <2>2. SeenOnce' /\ TakenIsSeen' /\ p \in ToSet(seen')
    BY <1>1, <1>6 DEF SeenOnce, TakenIsSeen, Taken, Repeated
  <2> QED
    BY <1>1, <1>4, <1>5, <2>1, <2>2
<1>7. CASE ~Repeated(p) /\ HasRoom /\ requests' = Append(requests, p) /\ Remember(p)
  <2>1. /\ seen' \in Seq(Starter) /\ Len(seen') <= SeenSize
        /\ ToSet(seen') = ToSet(seen) \cup {p}
        /\ SeenOnce'
    BY <1>1, <1>2, <1>7, RememberAdds DEF SeenOnce
  <2>2. requests' \in Seq(Starter) /\ Len(requests') <= QueueSize
    BY <1>2, <1>7, AppendProperties, LenProperties DEF ChannelTypeOK, HasRoom
  <2>3. ChannelTypeOK'
    BY <1>1, <1>2, <1>3, <2>1, <2>2 DEF ChannelTypeOK
  <2>4. \A q \in Starter : Taken(q)' = Taken(q) + IF q = p THEN 1 ELSE 0
    <3> SUFFICES ASSUME NEW q \in Starter PROVE Taken(q)' = Taken(q) + IF q = p THEN 1 ELSE 0
      OBVIOUS
    <3>1. Taken(q) = Times(requests, q) + Times(batch, q) + Times(handled, q)
      BY DEF Taken, Times
    <3>2. Taken(q)' = Times(requests', q) + Times(batch, q) + Times(handled, q)
      BY <1>1 DEF Taken, Times
    <3>3. Times(requests', q) = Times(requests, q) + IF q = p THEN 1 ELSE 0
      BY <1>2, <1>7, TimesAfterAppend DEF ChannelTypeOK
    <3>4. requests \in Seq(Starter) /\ batch \in Seq(Starter) /\ handled \in Seq(Starter)
      BY DEF ChannelTypeOK
    <3>5. \A s \in Seq(Starter) : Times(s, q) \in Nat
      BY TimesIsNatural
    <3> QED
      BY <3>1, <3>2, <3>3, <3>4, <3>5
  <2>5. Taken(p) = 0
    BY <1>2, <1>7 DEF TakenIsSeen, Repeated
  <2>6. TakenIsSeen'
    <3> SUFFICES ASSUME NEW q \in Starter
                 PROVE  Taken(q)' = IF q = owner \/ q \in ToSet(seen') THEN 1 ELSE 0
      BY <1>1 DEF TakenIsSeen
    <3>1. Taken(q) = IF q = owner \/ q \in ToSet(seen) THEN 1 ELSE 0
      BY DEF TakenIsSeen
    <3> QED
      BY <1>2, <2>1, <2>4, <2>5, <3>1
  <2> QED
    BY <1>1, <1>4, <1>5, <2>1, <2>3, <2>6
<1> QED
  BY <1>1, <1>6, <1>7

LEMMA DrainKeeps == ASSUME ChannelInv, DrainRequests PROVE ChannelInv'
<1> USE DEF ChannelInv
<1>1. /\ batch = <<>> /\ batch' = requests /\ requests' = <<>> /\ owner # NoStarter
      /\ UNCHANGED <<owner, endpoint, route, attempt, backlog, seen, handled>>
  BY DEF DrainRequests
<1>2. ChannelTypeOK'
  BY <1>1, EmptySeq, ChannelAssumption DEF ChannelTypeOK
<1>3. \A q \in Starter : Taken(q)' = Taken(q)
  <2> SUFFICES ASSUME NEW q \in Starter PROVE Taken(q)' = Taken(q)
    OBVIOUS
  <2>1. Taken(q) = Times(requests, q) + Times(<<>>, q) + Times(handled, q)
    BY <1>1 DEF Taken, Times
  <2>2. Taken(q)' = Times(<<>>, q) + Times(requests, q) + Times(handled, q)
    BY <1>1 DEF Taken, Times
  <2>3. requests \in Seq(Starter) /\ handled \in Seq(Starter)
    BY DEF ChannelTypeOK
  <2>4. \A s \in Seq(Starter) : Times(s, q) \in Nat
    BY TimesIsNatural
  <2> QED
    BY <2>1, <2>2, <2>3, <2>4, TimesInEmpty
<1>4. TakenIsSeen'
  BY <1>1, <1>3 DEF TakenIsSeen
<1> QED
  BY <1>1, <1>2, <1>4 DEF OneDesktopProcess, OwnerAndQueues, SeenOnce

LEMMA HandleKeeps == ASSUME ChannelInv, HandleRequest PROVE ChannelInv'
<1> USE DEF ChannelInv
<1> DEFINE h == Head(batch)
<1>1. /\ batch # <<>> /\ batch' = Tail(batch) /\ handled' = Append(handled, h) /\ owner # NoStarter
      /\ UNCHANGED <<owner, endpoint, route, attempt, backlog, requests, seen>>
  BY DEF HandleRequest, HandleExternalLaunch
<1>2. h \in Starter /\ batch' \in Seq(Starter)
  BY <1>1, HeadTailProperties DEF ChannelTypeOK
<1> HIDE DEF h
<1>3. handled' \in Seq(Starter)
  BY <1>1, <1>2, AppendProperties DEF ChannelTypeOK
<1>4. ChannelTypeOK'
  BY <1>1, <1>2, <1>3 DEF ChannelTypeOK
<1>5. \A q \in Starter : Taken(q)' = Taken(q)
  <2> SUFFICES ASSUME NEW q \in Starter PROVE Taken(q)' = Taken(q)
    OBVIOUS
  <2>1. Taken(q) = Times(requests, q) + Times(batch, q) + Times(handled, q)
    BY DEF Taken, Times
  <2>2. Taken(q)' = Times(requests, q) + Times(batch', q) + Times(handled', q)
    BY <1>1 DEF Taken, Times
  <2>3. requests \in Seq(Starter) /\ batch \in Seq(Starter) /\ handled \in Seq(Starter)
    BY DEF ChannelTypeOK
  <2>4. \A s \in Seq(Starter) : Times(s, q) \in Nat
    BY TimesIsNatural
  <2>5. Times(batch, q) = Times(batch', q) + IF q = h THEN 1 ELSE 0
    BY <1>1, <2>3, TimesAfterTail DEF h
  <2>6. Times(handled', q) = Times(handled, q) + IF q = h THEN 1 ELSE 0
    BY <1>1, <1>2, <2>3, TimesAfterAppend
  <2> QED
    BY <1>2, <2>1, <2>2, <2>3, <2>4, <2>5, <2>6
<1>6. TakenIsSeen'
  BY <1>1, <1>5 DEF TakenIsSeen
<1> QED
  BY <1>1, <1>4, <1>6 DEF OneDesktopProcess, OwnerAndQueues, SeenOnce

\* What a process does by itself, other than to take the lock or to connect.
LEMMA StarterKeeps ==
    ASSUME ChannelInv, NEW p \in Starter,
           \/ StartLauncher(p) \/ StartServer(p) \/ StartServerFails(p)
           \/ ConnectFails(p) \/ AnswerMissed(p)
    PROVE  /\ ChannelInv'
           /\ \A q \in Starter : route[q] # "forwarded" => route'[q] # "forwarded"
<1> USE DEF ChannelInv
<1>1. CASE StartServerFails(p)
  <2>1. p = owner /\ route \in [Starter -> Routes]
    BY <1>1 DEF StartServerFails, OneDesktopProcess, ChannelTypeOK
  <2>2. ChannelInv'
    BY <1>1, <2>1, EndKeeps DEF StartServerFails, ReleaseOwnership
  <2> QED
    BY <1>1, <2>1, <2>2 DEF StartServerFails, Rerouted
<1>2. CASE StartLauncher(p) \/ StartServer(p) \/ ConnectFails(p) \/ AnswerMissed(p)
  <2>1. PICK step \in {"routing", "refused", "serving"} :
           /\ Rerouted(p, step)
           /\ step = "serving" => route[p] = "starting"
           /\ step # "serving" => route[p] \notin Working
           /\ endpoint' \in {endpoint, p}
           /\ UNCHANGED <<owner, backlog, requests, batch, seen, handled>>
    BY <1>2 DEF StartLauncher, StartServer, ConnectFails, AnswerMissed, RetryOrRefuse, Working
  <2>2. attempt' \in [Starter -> 0..MaxAttempts]
    BY <1>2, ChannelAssumption DEF StartLauncher, StartServer, ConnectFails, AnswerMissed, ChannelTypeOK
  <2>3. (step = "serving" => owner = p) /\ (p = owner => step = "serving")
    BY <2>1, ChannelAssumption DEF OneDesktopProcess, OwnerAndQueues
  <2>4. endpoint' \in Starter \union {NoStarter} /\ step \in Routes /\ route \in [Starter -> Routes]
    BY <2>1 DEF ChannelTypeOK, Routes
  <2>5. ChannelInv'
    BY <2>1, <2>2, <2>3, <2>4, RouteKeeps DEF Working
  <2> QED
    BY <2>1, <2>4, <2>5 DEF Rerouted
<1> QED
  BY <1>1, <1>2

\* The owner leaves, in order or not.
LEMMA OwnerKeeps ==
    ASSUME ChannelInv, StopAccepting \/ CloseInstance \/ OwnerDies
    PROVE  /\ ChannelInv'
           /\ \A q \in Starter : route[q] # "forwarded" => route'[q] # "forwarded"
<1> USE DEF ChannelInv
<1>1. owner \in Starter /\ route \in [Starter -> Routes]
  BY DEF ChannelTypeOK, StopAccepting, CloseInstance, OwnerDies
<1>2. CASE StopAccepting
  <2>1. Rerouted(owner, "closing") /\ UNCHANGED <<owner, endpoint, attempt, backlog, requests, batch, seen, handled>>
    BY <1>2 DEF StopAccepting
  <2>2. ChannelInv'
    BY <1>1, <2>1, RouteKeeps DEF ChannelTypeOK, Working, Routes
  <2> QED
    BY <1>1, <2>1, <2>2 DEF Rerouted
<1>3. CASE CloseInstance \/ OwnerDies
  <2>1. /\ Rerouted(owner, "gone") /\ owner' = NoStarter /\ endpoint' \in {endpoint, NoStarter}
        /\ ForgetQueues /\ UNCHANGED attempt
    BY <1>3 DEF CloseInstance, OwnerDies, ReleaseOwnership
  <2>2. ChannelInv'
    BY <1>1, <2>1, EndKeeps
  <2> QED
    BY <1>1, <2>1, <2>2 DEF Rerouted
<1> QED
  BY <1>2, <1>3

\* A step keeps the invariant, and whom it tells that a request is delivered
\* it tells the truth.
LEMMA ChannelKeeps ==
    ASSUME ChannelInv, Cardinality(Starter) <= SeenSize, [ChannelNext]_channelVars
    PROVE  /\ ChannelInv'
           /\ \A p \in Starter : route[p] # "forwarded" /\ route'[p] = "forwarded" =>
                  /\ owner' # NoStarter /\ route'[owner'] = "serving"
                  /\ Taken(p)' = 1
<1> DEFINE quiet == \A q \in Starter : route[q] # "forwarded" => route'[q] # "forwarded"
<1>0. route \in [Starter -> Routes] /\ owner \in Starter \union {NoStarter}
  BY DEF ChannelInv, ChannelTypeOK
<1>1. ASSUME NEW p \in Starter, BecomeOwner(p) PROVE ChannelInv' /\ quiet
  BY <1>0, <1>1, LockKeeps DEF BecomeOwner, Rerouted
<1>2. ASSUME NEW p \in Starter, Connect(p) PROVE ChannelInv' /\ quiet
  BY <1>0, <1>2, ConnectKeeps DEF Connect, Rerouted
<1>3. ASSUME NEW p \in Starter,
             \/ StartLauncher(p) \/ StartServer(p) \/ StartServerFails(p)
             \/ ConnectFails(p) \/ AnswerMissed(p)
      PROVE  ChannelInv' /\ quiet
  BY <1>3, StarterKeeps
<1>4. CASE StopAccepting \/ CloseInstance \/ OwnerDies
  BY <1>4, OwnerKeeps
<1>5. CASE RejectFull
  BY <1>5, RejectKeeps DEF RejectFull
<1>6. CASE DrainRequests
  BY <1>6, DrainKeeps DEF DrainRequests
<1>7. CASE HandleRequest
  BY <1>7, HandleKeeps DEF HandleRequest
<1>8. CASE AcceptRequest
  <2>1. /\ ChannelInv' /\ owner' = owner /\ owner # NoStarter /\ route'[owner] = "serving"
        /\ \A q \in Starter : route[q] # "forwarded" /\ route'[q] = "forwarded" => q \in ToSet(seen')
    BY <1>8, AcceptKeeps
  <2> QED
    BY <2>1 DEF ChannelInv, TakenIsSeen
<1>9. CASE UNCHANGED channelVars
  BY <1>9 DEF channelVars, ChannelInv, ChannelTypeOK, OneDesktopProcess, OwnerAndQueues, SeenOnce,
              TakenIsSeen, Taken
<1> QED
  BY <1>1, <1>2, <1>3, <1>4, <1>5, <1>6, <1>7, <1>8, <1>9 DEF ChannelNext, ChannelProgress, ChannelFinished

-----------------------------------------------------------------------------
\* The channel's variables keep their types; no queue outgrows its limit
\* (Queue(maxsize), deque(maxlen)).
THEOREM ChannelTypeCorrect ==
    ASSUME Cardinality(Starter) <= SeenSize PROVE ChannelSpec => []ChannelTypeOK
<1>1. ChannelInit => ChannelInv
  BY ChannelStarts
<1>2. ChannelInv /\ [ChannelNext]_channelVars => ChannelInv'
  BY ChannelKeeps
<1>3. ChannelInv => ChannelTypeOK
  BY DEF ChannelInv
<1> QED
  BY <1>1, <1>2, <1>3, PTL DEF ChannelSpec

\* However often a start repeats its request, over late answers and dead
\* owners, one owner takes it once, and one desktop process exists at a time
\* (_serve, close), if the owner remembers as many identities as there are starts.
THEOREM ChannelSafe ==
    ASSUME Cardinality(Starter) <= SeenSize PROVE ChannelSpec => []ChannelIsSafe
<1>1. ChannelInit => ChannelInv
  BY ChannelStarts
<1>2. ChannelInv /\ [ChannelNext]_channelVars => ChannelInv'
  BY ChannelKeeps
<1>3. ChannelInv => ChannelIsSafe
  BY DEF ChannelInv, ChannelIsSafe, RequestRunsOnce, TakenIsSeen
<1> QED
  BY <1>1, <1>2, <1>3, PTL DEF ChannelSpec

\* A process that leaves because its request is delivered leaves it with an
\* owner that has taken it, once, and still accepts (_forward, _serve).
THEOREM AcknowledgedRequestIsTaken ==
    ASSUME Cardinality(Starter) <= SeenSize PROVE ChannelSpec => AcknowledgedIsTaken
<1>1. ChannelInit => ChannelInv
  BY ChannelStarts
<1>2. ChannelInv /\ [ChannelNext]_channelVars => ChannelInv'
  BY ChannelKeeps
<1>3. ChannelInv /\ [ChannelNext]_channelVars =>
          [\A p \in Starter : route[p] # "forwarded" /\ route'[p] = "forwarded" =>
                /\ owner' # NoStarter /\ route'[owner'] = "serving"
                /\ Taken(p)' = 1]_channelVars
  BY ChannelKeeps
<1> QED
  BY <1>1, <1>2, <1>3, PTL DEF ChannelSpec, AcknowledgedIsTaken

-----------------------------------------------------------------------------
\* Before its page is open in the browser a sign-in has no tab, and none either
\* once it works with a device code or has been granted.
Early == {"unused", "asked", "listen", "browse"}
Tabless == Early \cup {"ask", "poll", "posted", "save"}

\* A tab that has called is closed for good, with an answer of the player.
Heard(t) ==
    t # 0 => t \notin tabs /\ flow[t].step \notin Early /\ answers[t] # NoAnswer

\* What a sign-in is granted is what the player has answered to it.
GrantsAreOwn ==
    /\ Heard(receiver.tab)
    /\ \A s \in SignIns :
          /\ flow[s].step \in Tabless => s \notin tabs
          /\ flow[s].step = "exchange" =>
                Heard(flow[s].code) /\ (flow[s].code # 0 => answers[flow[s].code] # "declined")
          /\ flow[s].step = "save" => answers[s] = flow[s].account /\ answers[s] \in Accounts
          /\ flow[s].account # NoAnswer => flow[s].step \in {"save", "returned"} \cup Ended

SignInInv == SignInTypeOK /\ OneAtATime /\ GrantsAreOwn /\ PageIsTrue

FlowSteps == {"unused", "asked"} \cup AtWork \cup Ended \cup {"returned"}
Flows == [step : FlowSteps, page : 0..MaxPages, code : SignIns \cup {0}, account : Answers,
          late : BOOLEAN]
Receivers == [of : SignIns \cup {0}, tab : SignIns \cup {0}, error : BOOLEAN, event : BOOLEAN]
Pages == [nr : 1..MaxPages, waits : BOOLEAN, shown : SUBSET Accounts]

\* The types, by the sets above.
LEMMA SignInTypesThen ==
    SignInTypeOK' <=>
        /\ authLock' \in SignIns \cup {0} /\ flow' \in [SignIns -> Flows]
        /\ status' \in Ended \cup {"none", "browser_code_started", "device_code_started"}
        /\ receiver' \in Receivers
        /\ handlers' \cup tabs' \cup dialogs' \cup cancelled' \subseteq SignIns
        /\ answers' \in [SignIns -> Answers] /\ page' \in Pages /\ saved' \subseteq Accounts
  BY DEF SignInTypeOK, Flows, FlowSteps, Receivers, Pages

LEMMA SignInTypes ==
    SignInTypeOK <=>
        /\ authLock \in SignIns \cup {0} /\ flow \in [SignIns -> Flows]
        /\ status \in Ended \cup {"none", "browser_code_started", "device_code_started"}
        /\ receiver \in Receivers /\ handlers \cup tabs \cup dialogs \cup cancelled \subseteq SignIns
        /\ answers \in [SignIns -> Answers] /\ page \in Pages /\ saved \subseteq Accounts
  BY DEF SignInTypeOK, Flows, FlowSteps, Receivers, Pages

LEMMA DeafHearsNothing ==
    Deaf \in Receivers /\ Deaf.of = 0 /\ Deaf.tab = 0
  BY DEF Deaf, Receivers

\* A step of one sign-in changes nothing of the others.
LEMMA FlowGoesOn ==
    ASSUME SignInTypeOK, NEW s \in SignIns, NEW x \in FlowSteps, Go(s, x)
    PROVE  /\ flow' \in [SignIns -> Flows]
           /\ flow'[s].step = x /\ flow'[s].page = flow[s].page
           /\ flow'[s].code = flow[s].code /\ flow'[s].account = flow[s].account
           /\ \A r \in SignIns \ {s} : flow'[r] = flow[r]
<1>1. flow \in [SignIns -> Flows] /\ flow[s] \in Flows
  BY SignInTypes
<1>2. flow' = [flow EXCEPT ![s] = [flow[s] EXCEPT !.step = x]]
  BY DEF Go
<1>3. [flow[s] EXCEPT !.step = x] \in Flows
  BY <1>1 DEF Flows
<1> QED BY <1>1, <1>2, <1>3 DEF Flows

\* A sign-in goes on to a step in which it is granted nothing.
LEMMA GrantsStayOwn ==
    ASSUME SignInInv, NEW s \in SignIns, NEW x \in FlowSteps \ {"exchange", "save"}, Go(s, x),
           UNCHANGED <<tabs, answers>>, receiver'.tab \in {receiver.tab, 0},
           x \in Tabless => s \notin tabs, x \in Early => flow[s].step \in Early,
           flow[s].step \in {"save", "returned"} \cup Ended => x \in Ended \cup {"returned"}
    PROVE  GrantsAreOwn'
<1> USE SignInAssumption
<1>a. SignInTypeOK /\ GrantsAreOwn
  BY DEF SignInInv
<1>1. /\ flow' \in [SignIns -> Flows]
      /\ flow'[s].step = x /\ flow'[s].code = flow[s].code /\ flow'[s].account = flow[s].account
      /\ \A r \in SignIns \ {s} : flow'[r] = flow[r]
  BY <1>a, FlowGoesOn
<1>2. \A t \in SignIns \cup {0} : Heard(t) => Heard(t)'
  BY <1>1 DEF Heard
<1>3. receiver.tab \in SignIns \cup {0} /\ \A r \in SignIns : flow[r].code \in SignIns \cup {0}
  BY <1>a, SignInTypes DEF Receivers, Flows
<1>4. Heard(receiver.tab)'
  BY <1>a, <1>2, <1>3 DEF GrantsAreOwn, Heard
<1>5. ASSUME NEW r \in SignIns
      PROVE  /\ flow'[r].step \in Tabless => r \notin tabs'
             /\ flow'[r].step = "exchange" => Heard(flow[r].code)'
             /\ flow'[r].step = "exchange" /\ flow[r].code # 0 =>
                   answers'[flow[r].code] # "declined"
             /\ flow'[r].step = "save" => answers'[r] = flow[r].account /\ answers'[r] \in Accounts
             /\ flow'[r].account # NoAnswer => flow'[r].step \in {"save", "returned"} \cup Ended
             /\ flow'[r].code = flow[r].code /\ flow'[r].account = flow[r].account
  <2>1. CASE r = s
    BY <1>1, <1>a, <2>1 DEF GrantsAreOwn
  <2>2. CASE r # s
    BY <1>1, <1>2, <1>3, <1>a, <2>2 DEF GrantsAreOwn
  <2> QED BY <2>1, <2>2
<1> QED
  BY <1>4, <1>5 DEF GrantsAreOwn, Heard

\* As long as no result comes back, what the page shows is true as it was.
LEMMA PageStaysTrue ==
    ASSUME SignInInv, NEW s \in SignIns, NEW x \in FlowSteps \ {"returned"}, Go(s, x),
           UNCHANGED <<page, saved>>
    PROVE  PageIsTrue'
<1>1. /\ flow'[s].step = x /\ flow'[s].page = flow[s].page /\ flow'[s].account = flow[s].account
      /\ \A r \in SignIns \ {s} : flow'[r] = flow[r]
  BY FlowGoesOn DEF SignInInv
<1> SUFFICES ASSUME NEW a \in (saved \ page.shown) \cup (page.shown \ saved)
             PROVE  \E r \in SignIns : /\ flow'[r].account = a
                                       /\ flow'[r].step # "returned" \/ flow'[r].page # page'.nr
  BY DEF PageIsTrue
<1>2. PICK r \in SignIns : flow[r].account = a /\ (flow[r].step # "returned" \/ flow[r].page # page.nr)
  BY DEF SignInInv, PageIsTrue
<1> QED BY <1>1, <1>2

\* Whatever happens, only one that works ends, and it gives back what it held.
LEMMA FlowEnds ==
    ASSUME SignInInv, NEW s \in SignIns, NEW x \in Ended, EndFlow(s, x), flow[s].step \in AtWork,
           UNCHANGED <<tabs, answers, page>>, dialogs' = dialogs, cancelled' = cancelled,
           \/ UNCHANGED saved
           \/ flow[s].step = "save" /\ saved' = saved \cup {flow[s].account}
    PROVE  SignInInv'
<1> USE SignInAssumption
<1>a. SignInTypeOK /\ OneAtATime /\ GrantsAreOwn
  BY DEF SignInInv
<1>x. /\ x \in FlowSteps \ {"exchange", "save"} /\ x \notin Tabless /\ x \notin AtWork
      /\ x \notin Early /\ x # "returned"
  BY DEF FlowSteps, Ended, Tabless, Early, AtWork
<1>1. /\ flow' \in [SignIns -> Flows] /\ Go(s, x) /\ authLock' = 0 /\ status' = x
      /\ flow'[s].step = x /\ flow'[s].page = flow[s].page /\ flow'[s].account = flow[s].account
      /\ \A r \in SignIns \ {s} : flow'[r] = flow[r]
      /\ receiver' = Deaf /\ handlers' = {}
  BY <1>a, <1>x, FlowGoesOn DEF EndFlow
<1>2. saved' \subseteq Accounts
  BY <1>a, SignInTypes DEF GrantsAreOwn
<1>3. SignInTypeOK'
  BY <1>a, <1>1, <1>2, SignInTypes, SignInTypesThen, DeafHearsNothing
<1>4. OneAtATime'
  BY <1>a, <1>1, <1>x, DeafHearsNothing DEF OneAtATime
<1>5. GrantsAreOwn'
  BY <1>1, <1>x, GrantsStayOwn, DeafHearsNothing
<1>6. PageIsTrue'
  <2>1. CASE UNCHANGED saved
    BY <1>1, <1>x, <2>1, PageStaysTrue
  <2>2. CASE flow[s].step = "save" /\ saved' = saved \cup {flow[s].account}
    <3> SUFFICES ASSUME NEW a \in (saved' \ page.shown) \cup (page.shown \ saved')
                 PROVE  \E r \in SignIns : /\ flow'[r].account = a
                                           /\ flow'[r].step # "returned" \/ flow'[r].page # page'.nr
      BY DEF PageIsTrue
    <3>1. CASE a = flow[s].account
      BY <1>1, <1>x, <3>1
    <3>2. CASE a # flow[s].account
      <4>1. a \in (saved \ page.shown) \cup (page.shown \ saved)
        BY <2>2, <3>2
      <4>2. PICK r \in SignIns :
               flow[r].account = a /\ (flow[r].step # "returned" \/ flow[r].page # page.nr)
        BY <4>1 DEF SignInInv, PageIsTrue
      <4> QED BY <1>1, <1>x, <4>2
    <3> QED BY <3>1, <3>2
  <2> QED BY <2>1, <2>2
<1> QED BY <1>3, <1>4, <1>5, <1>6 DEF SignInInv

\* The one that works goes on.
LEMMA FlowWorks ==
    ASSUME SignInInv, NEW s \in SignIns, NEW x \in AtWork \ {"exchange", "save"}, Go(s, x),
           flow[s].step \in AtWork \ {"save"}, UNCHANGED <<answers, page, saved, authLock, tabs>>,
           UNCHANGED cancelled, dialogs' \in {dialogs, dialogs \cup {s}},
           handlers' \in {handlers, {}},
           status' \in {status, "device_code_started"},
           receiver' \in Receivers, receiver'.of \in {0, s}, receiver'.tab \in {receiver.tab, 0},
           x \in Tabless => s \notin tabs, x \in Early => flow[s].step \in Early
    PROVE  SignInInv'
<1> USE SignInAssumption
<1>a. SignInTypeOK /\ OneAtATime /\ GrantsAreOwn
  BY DEF SignInInv
<1>x. x \in FlowSteps \ {"exchange", "save"} /\ x # "returned"
  BY DEF FlowSteps, AtWork
<1>y. flow[s].step \notin {"save", "returned"} \cup Ended
  BY DEF Ended, AtWork
<1>1. /\ flow' \in [SignIns -> Flows] /\ flow'[s].step = x
      /\ \A r \in SignIns \ {s} : flow'[r] = flow[r]
  BY <1>a, <1>x, FlowGoesOn
<1>3. SignInTypeOK'
  BY <1>a, <1>1, SignInTypes, SignInTypesThen
<1>4. OneAtATime'
  BY <1>a, <1>1 DEF OneAtATime
<1>5. GrantsAreOwn'
  BY <1>x, <1>y, GrantsStayOwn
<1>6. PageIsTrue'
  BY <1>x, PageStaysTrue
<1> QED BY <1>3, <1>4, <1>5, <1>6 DEF SignInInv

\* The code or the device has brought an account.
LEMMA FlowGrants ==
    ASSUME SignInInv, NEW s \in SignIns, flow[s].step \in {"exchange", "posted"},
           s \notin tabs, answers[s] \in Accounts,
           flow' = [flow EXCEPT ![s].step = "save", ![s].account = answers[s]],
           UNCHANGED <<authLock, status, receiver, handlers, tabs, answers, dialogs, cancelled,
                       page, saved>>
    PROVE  SignInInv'
<1> USE SignInAssumption
<1>a. SignInTypeOK /\ OneAtATime /\ GrantsAreOwn
  BY DEF SignInInv
<1>0. flow \in [SignIns -> Flows] /\ flow[s] \in Flows /\ answers[s] \in Answers
  BY <1>a, SignInTypes
<1>s. "save" \in FlowSteps /\ "save" \in AtWork /\ "save" \notin Early
      /\ {"exchange", "posted"} \subseteq AtWork
      /\ {"exchange", "posted"} \cap ({"save", "returned"} \cup Ended) = {}
  BY DEF FlowSteps, AtWork, Early, Ended
<1>1. /\ flow' \in [SignIns -> Flows] /\ flow'[s].step = "save" /\ flow'[s].account = answers[s]
      /\ \A r \in SignIns \ {s} : flow'[r] = flow[r]
  <2>1. flow' = [flow EXCEPT ![s] = [flow[s] EXCEPT !.step = "save", !.account = answers[s]]]
    OBVIOUS
  <2>2. [flow[s] EXCEPT !.step = "save", !.account = answers[s]] \in Flows
    BY <1>0, <1>s DEF Flows
  <2>3. /\ [flow[s] EXCEPT !.step = "save", !.account = answers[s]].step = "save"
        /\ [flow[s] EXCEPT !.step = "save", !.account = answers[s]].account = answers[s]
    BY <1>0 DEF Flows
  <2> QED BY <1>0, <2>1, <2>2, <2>3
<1>3. SignInTypeOK'
  BY <1>a, <1>1, SignInTypes, SignInTypesThen
<1>4. OneAtATime'
  BY <1>a, <1>1, <1>s DEF OneAtATime
<1>5. GrantsAreOwn'
  <2>1. \A t \in SignIns \cup {0} : Heard(t) => Heard(t)'
    BY <1>1, <1>s DEF Heard
  <2>2. receiver.tab \in SignIns \cup {0} /\ \A r \in SignIns : flow[r].code \in SignIns \cup {0}
    BY <1>a, SignInTypes DEF Receivers, Flows
  <2>3. Heard(receiver.tab)'
    BY <1>a, <2>1, <2>2 DEF GrantsAreOwn, Heard
  <2>4. ASSUME NEW r \in SignIns
        PROVE  /\ flow'[r].step \in Tabless => r \notin tabs'
               /\ flow'[r].step = "exchange" => r # s
               /\ flow'[r].step = "save" => answers'[r] = flow'[r].account /\ answers'[r] \in Accounts
               /\ flow'[r].account # NoAnswer => flow'[r].step \in {"save", "returned"} \cup Ended
    <3>1. CASE r = s
      BY <1>1, <3>1
    <3>2. CASE r # s
      BY <1>1, <1>a, <3>2 DEF GrantsAreOwn
    <3> QED BY <3>1, <3>2
  <2>5. ASSUME NEW r \in SignIns, flow'[r].step = "exchange"
        PROVE  flow'[r].code # 0 => /\ flow'[r].code \notin tabs'
                                    /\ flow'[flow'[r].code].step \notin Early
                                    /\ answers'[flow'[r].code] \notin {NoAnswer, "declined"}
    <3>1. r # s
      BY <2>4, <2>5
    <3>2. flow'[r] = flow[r]
      BY <1>1, <3>1
    <3>3. Heard(flow[r].code) /\ (flow[r].code # 0 => answers[flow[r].code] # "declined")
      BY <1>a, <2>5, <3>2 DEF GrantsAreOwn
    <3>4. flow[r].code # 0 => /\ flow[r].code \notin tabs' /\ answers'[flow[r].code] # NoAnswer
                              /\ flow'[flow[r].code].step \notin Early
      BY <2>1, <2>2, <3>3 DEF Heard
    <3> QED BY <3>2, <3>3, <3>4
  <2> QED BY <2>3, <2>4, <2>5 DEF GrantsAreOwn, Heard
<1>6. PageIsTrue'
  <2> SUFFICES ASSUME NEW a \in (saved \ page.shown) \cup (page.shown \ saved)
               PROVE  \E r \in SignIns : /\ flow'[r].account = a
                                         /\ flow'[r].step # "returned" \/ flow'[r].page # page'.nr
    BY DEF PageIsTrue
  <2>1. PICK r \in SignIns :
           flow[r].account = a /\ (flow[r].step # "returned" \/ flow[r].page # page.nr)
    BY DEF SignInInv, PageIsTrue
  <2>2. a # NoAnswer
    BY <1>a, SignInTypes DEF NoAnswer, Pages
  <2>3. r # s
    BY <1>a, <1>s, <2>1, <2>2 DEF GrantsAreOwn
  <2> QED BY <1>1, <2>1, <2>3
<1> QED BY <1>3, <1>4, <1>5, <1>6 DEF SignInInv

LEMMA SignInStepKeeps ==
    ASSUME SignInInv, NEW s \in SignIns, SignInStep(s)
    PROVE  SignInInv'
<1> USE SignInAssumption
<1>a. /\ SignInTypeOK /\ OneAtATime /\ GrantsAreOwn
      /\ flow \in [SignIns -> Flows] /\ receiver \in Receivers
  BY SignInTypes DEF SignInInv
<1>h. flow[s].step \in AtWork => authLock = s /\ receiver.of \in {0, s}
  BY <1>a DEF OneAtATime
<1>t. flow[s].step \in Tabless => s \notin tabs
  BY <1>a DEF GrantsAreOwn
\* Back to a device code: the receiver is closed.
<1>f. ASSUME flow[s].step \in {"listen", "browse"}, FallBack(s),
             UNCHANGED <<tabs, answers, dialogs, cancelled, page, saved>>
      PROVE  SignInInv'
  <2>1. /\ "ask" \in AtWork \ {"exchange", "save"} /\ flow[s].step \in AtWork \ {"save"}
        /\ flow[s].step \in Tabless /\ "ask" \notin Early
    BY <1>f DEF AtWork, Tabless, Early
  <2> QED BY <1>f, <1>t, <2>1, FlowWorks, DeafHearsNothing DEF FallBack
<1>e. ASSUME NEW x \in Ended, EndFlow(s, x), flow[s].step \in AtWork,
             UNCHANGED <<tabs, answers, dialogs, cancelled, page, saved>>
      PROVE  SignInInv'
  BY <1>e, FlowEnds
<1>k. ASSUME NEW x \in {"take", "poll", "posted"}, Go(s, x), Keeps,
             flow[s].step \in AtWork \ {"save"}, x # "take" => flow[s].step \in Tabless,
             dialogs' \in {dialogs, dialogs \cup {s}},
             UNCHANGED <<tabs, answers, cancelled, page, saved>>
      PROVE  SignInInv'
  <2>1. /\ x \in AtWork \ {"exchange", "save"} /\ x \notin Early
        /\ x \in Tabless => x # "take"
    BY DEF AtWork, Early, Tabless
  <2> QED BY <1>k, <1>a, <1>h, <1>t, <2>1, FlowWorks DEF Keeps
<1>s. /\ {"listen", "browse", "wait", "take", "exchange", "ask", "poll", "posted", "save"} = AtWork
      /\ {"busy", "ok", "timeout", "cancelled", "denied", "unavailable", "error"} = Ended
      /\ {"listen", "browse", "ask", "poll", "posted", "save"} \subseteq Tabless
  BY DEF AtWork, Ended, Tabless, Early
<1>1. CASE TryLock(s)
  <2>0. flow[s].step = "asked"
    BY <1>1 DEF TryLock
  <2>1. PICK x \in {"busy", "listen"} :
           /\ Go(s, x)
           /\ x = "busy" => status' = "busy" /\ UNCHANGED authLock
           /\ x = "listen" => status' = "browser_code_started" /\ authLock' = s /\ authLock = 0
    BY <1>1 DEF TryLock
  <2>2. UNCHANGED <<receiver, handlers, tabs, answers, dialogs, cancelled, page, saved>>
    BY <1>1 DEF TryLock
  <2>x. /\ x \in FlowSteps \ {"exchange", "save", "returned"} /\ "asked" \in Early \cap Tabless
        /\ "asked" \notin {"save", "returned"} \cup Ended /\ "asked" \notin AtWork
        /\ "busy" \notin AtWork /\ "listen" \in AtWork
    BY DEF FlowSteps, AtWork, Ended, Early, Tabless
  <2>3. /\ flow' \in [SignIns -> Flows] /\ flow'[s].step = x
        /\ \A r \in SignIns \ {s} : flow'[r] = flow[r]
    BY <1>a, <2>1, <2>x, FlowGoesOn
  <2>4. SignInTypeOK'
    BY <1>a, <1>s, <2>1, <2>2, <2>3, SignInTypes, SignInTypesThen
  <2>5. OneAtATime'
    BY <1>a, <2>0, <2>1, <2>2, <2>3, <2>x DEF OneAtATime
  <2>6. GrantsAreOwn'
    BY <1>t, <2>0, <2>1, <2>2, <2>x, GrantsStayOwn
  <2>7. PageIsTrue'
    BY <2>1, <2>2, <2>x, PageStaysTrue
  <2> QED BY <2>4, <2>5, <2>6, <2>7 DEF SignInInv
<1>2. CASE StartReceiver(s)
  <2>0. flow[s].step = "listen" /\ UNCHANGED <<tabs, answers, dialogs, cancelled, page, saved>>
    BY <1>2 DEF StartReceiver
  <2>1. CASE Go(s, "browse") /\ receiver' = Listening(s) /\ UNCHANGED <<authLock, status, handlers>>
    <3>1. Listening(s) \in Receivers /\ Listening(s).of = s /\ Listening(s).tab = 0
      BY DeafHearsNothing DEF Listening, Receivers
    <3>2. receiver' \in Receivers /\ receiver'.of = s /\ receiver'.tab = 0
      BY <2>1, <3>1
    <3>3. "listen" \in Early /\ "browse" \in Early
      BY DEF Early
    <3> QED BY <1>s, <1>t, <2>0, <2>1, <3>2, <3>3, FlowWorks
  <2> QED BY <1>2, <1>f, <2>0, <2>1 DEF StartReceiver
<1>3. CASE OpenBrowser(s)
  <2>0. flow[s].step = "browse" /\ UNCHANGED <<answers, dialogs, cancelled, page, saved>>
    BY <1>3 DEF OpenBrowser
  <2>1. CASE Go(s, "wait") /\ tabs' = tabs \cup {s} /\ Keeps
    <3>x. /\ "wait" \in FlowSteps \ {"returned"} /\ "wait" \in AtWork /\ "browse" \in AtWork
          /\ "wait" \notin Tabless \cup Early /\ "browse" \in Early
          /\ "browse" \notin {"save", "returned"} \cup Ended
      BY DEF FlowSteps, AtWork, Ended, Early, Tabless
    <3>1. /\ flow' \in [SignIns -> Flows] /\ flow'[s].step = "wait"
          /\ flow'[s].code = flow[s].code /\ flow'[s].account = flow[s].account
          /\ \A r \in SignIns \ {s} : flow'[r] = flow[r]
      BY <1>a, <2>1, <3>x, FlowGoesOn
    <3>2. SignInTypeOK'
      BY <1>a, <2>0, <2>1, <3>1, SignInTypes, SignInTypesThen DEF Keeps
    <3>3. OneAtATime'
      BY <1>a, <2>0, <2>1, <3>1, <3>x DEF OneAtATime, Keeps
    <3>4. GrantsAreOwn'
      <4>1. ASSUME NEW t \in SignIns \cup {0}, Heard(t)
            PROVE  t # 0 => /\ t \notin tabs' /\ flow'[t].step \notin Early
                            /\ answers'[t] = answers[t] /\ answers[t] # NoAnswer
        BY <2>0, <2>1, <3>1, <3>x, <4>1 DEF Heard
      <4>2. receiver.tab \in SignIns \cup {0} /\ \A r \in SignIns : flow[r].code \in SignIns \cup {0}
        BY <1>a DEF Receivers, Flows
      <4>3. Heard(receiver.tab)'
        BY <1>a, <2>1, <4>1, <4>2 DEF GrantsAreOwn, Heard, Keeps
      <4>4. ASSUME NEW r \in SignIns
            PROVE  /\ flow'[r].step \in Tabless => r \notin tabs'
                   /\ flow'[r].step = "exchange" => r # s
                   /\ flow'[r].step = "save" => answers'[r] = flow'[r].account /\ answers'[r] \in Accounts
                   /\ flow'[r].account # NoAnswer => flow'[r].step \in {"save", "returned"} \cup Ended
        <5>1. CASE r = s
          BY <1>a, <2>0, <3>1, <3>x, <5>1 DEF GrantsAreOwn
        <5>2. CASE r # s
          BY <1>a, <2>0, <2>1, <3>1, <5>2 DEF GrantsAreOwn
        <5> QED BY <5>1, <5>2
      <4>5. ASSUME NEW r \in SignIns, flow'[r].step = "exchange"
            PROVE  flow'[r].code # 0 => /\ flow'[r].code \notin tabs'
                                        /\ flow'[flow'[r].code].step \notin Early
                                        /\ answers'[flow'[r].code] \notin {NoAnswer, "declined"}
        <5>1. r # s /\ flow'[r] = flow[r]
          BY <3>1, <4>4, <4>5
        <5>2. Heard(flow[r].code) /\ (flow[r].code # 0 => answers[flow[r].code] # "declined")
          BY <1>a, <4>5, <5>1 DEF GrantsAreOwn
        <5> QED BY <4>1, <4>2, <5>1, <5>2
      <4> QED BY <4>3, <4>4, <4>5 DEF GrantsAreOwn, Heard
    <3>5. PageIsTrue'
      BY <2>0, <2>1, <3>x, PageStaysTrue
    <3> QED BY <3>2, <3>3, <3>4, <3>5 DEF SignInInv
  <2> QED BY <1>3, <1>f, <2>0, <2>1 DEF OpenBrowser, BrowserOpens
<1>4. CASE WaitEnds(s)
  <2>1. \/ \E x \in {"timeout", "denied", "error"} : EndFlow(s, x)
        \/ Go(s, "take") /\ Keeps
    BY <1>4 DEF WaitEnds
  <2> QED BY <1>4, <1>e, <1>k, <1>s, <2>1 DEF WaitEnds
<1>5. CASE TakeCode(s)
  <2>0. flow[s].step = "take" /\ UNCHANGED <<tabs, answers, dialogs, cancelled, page, saved>>
    BY <1>5 DEF TakeCode
  <2>1. CASE EndFlow(s, "error")
    BY <1>e, <1>s, <2>0, <2>1
  <2>2. CASE /\ flow' = [flow EXCEPT ![s].step = "exchange", ![s].code = receiver.tab] /\ Keeps
             /\ answers[receiver.tab] # "declined"
    <3>x. /\ "exchange" \in FlowSteps /\ {"exchange", "take"} \subseteq AtWork
          /\ "exchange" \notin Tabless \cup Early
          /\ {"exchange", "take"} \cap ({"save", "returned"} \cup Ended) = {}
      BY DEF FlowSteps, AtWork, Ended, Early, Tabless
    <3>0. flow[s] \in Flows /\ receiver.tab \in SignIns \cup {0}
      BY <1>a DEF Receivers
    <3>1. /\ flow' \in [SignIns -> Flows] /\ flow'[s].step = "exchange"
          /\ flow'[s].code = receiver.tab /\ flow'[s].account = flow[s].account
          /\ flow'[s].page = flow[s].page
          /\ \A r \in SignIns \ {s} : flow'[r] = flow[r]
      <4>1. flow' = [flow EXCEPT ![s] = [flow[s] EXCEPT !.step = "exchange", !.code = receiver.tab]]
        BY <2>2
      <4>2. [flow[s] EXCEPT !.step = "exchange", !.code = receiver.tab] \in Flows
        BY <3>0, <3>x DEF Flows
      <4> QED BY <1>a, <3>0, <4>1, <4>2 DEF Flows
    <3>2. SignInTypeOK'
      BY <1>a, <2>0, <2>2, <3>1, SignInTypes, SignInTypesThen DEF Keeps
    <3>3. OneAtATime'
      BY <1>a, <2>0, <2>2, <3>1, <3>x DEF OneAtATime, Keeps
    <3>4. GrantsAreOwn'
      <4>1. ASSUME NEW t \in SignIns \cup {0}, Heard(t)
            PROVE  t # 0 => /\ t \notin tabs' /\ flow'[t].step \notin Early
                            /\ answers'[t] = answers[t] /\ answers[t] # NoAnswer
        BY <2>0, <3>1, <3>x, <4>1 DEF Heard
      <4>2. \A r \in SignIns : flow[r].code \in SignIns \cup {0}
        BY <1>a DEF Flows
      <4>3. Heard(receiver.tab)' /\ Heard(receiver.tab)
        BY <1>a, <2>2, <3>0, <4>1 DEF GrantsAreOwn, Heard, Keeps
      <4>4. ASSUME NEW r \in SignIns
            PROVE  /\ flow'[r].step \in Tabless => r \notin tabs'
                   /\ flow'[r].step = "save" => answers'[r] = flow'[r].account /\ answers'[r] \in Accounts
                   /\ flow'[r].account # NoAnswer => flow'[r].step \in {"save", "returned"} \cup Ended
        <5>1. CASE r = s
          BY <1>a, <2>0, <3>1, <3>x, <5>1 DEF GrantsAreOwn
        <5>2. CASE r # s
          BY <1>a, <2>0, <3>1, <5>2 DEF GrantsAreOwn
        <5> QED BY <5>1, <5>2
      <4>5. ASSUME NEW r \in SignIns, flow'[r].step = "exchange"
            PROVE  flow'[r].code # 0 => /\ flow'[r].code \notin tabs'
                                        /\ flow'[flow'[r].code].step \notin Early
                                        /\ answers'[flow'[r].code] \notin {NoAnswer, "declined"}
        <5>1. CASE r = s
          BY <2>0, <2>2, <3>0, <3>1, <4>1, <4>3, <5>1
        <5>2. CASE r # s
          <6>1. flow'[r] = flow[r]
            BY <3>1, <5>2
          <6>2. Heard(flow[r].code) /\ (flow[r].code # 0 => answers[flow[r].code] # "declined")
            BY <1>a, <4>5, <6>1 DEF GrantsAreOwn
          <6> QED BY <2>0, <4>1, <4>2, <6>1, <6>2
        <5> QED BY <5>1, <5>2
      <4> QED BY <4>3, <4>4, <4>5 DEF GrantsAreOwn, Heard
    <3>5. PageIsTrue'
      <4> SUFFICES ASSUME NEW a \in (saved \ page.shown) \cup (page.shown \ saved)
                   PROVE  \E r \in SignIns : /\ flow'[r].account = a
                                             /\ flow'[r].step # "returned" \/ flow'[r].page # page'.nr
        BY <2>0 DEF PageIsTrue
      <4>1. PICK r \in SignIns :
               flow[r].account = a /\ (flow[r].step # "returned" \/ flow[r].page # page.nr)
        BY DEF SignInInv, PageIsTrue
      <4> QED BY <2>0, <3>1, <4>1
    <3> QED BY <3>2, <3>3, <3>4, <3>5 DEF SignInInv
  <2> QED BY <1>5, <2>1, <2>2 DEF TakeCode
<1>6. CASE ExchangeCode(s)
  <2>0. flow[s].step = "exchange" /\ UNCHANGED <<tabs, answers, dialogs, cancelled, page, saved>>
    BY <1>6 DEF ExchangeCode
  <2>1. CASE EndFlow(s, "error")
    BY <1>e, <1>s, <2>0, <2>1
  <2>2. CASE /\ flow[s].code = s
             /\ flow' = [flow EXCEPT ![s].step = "save", ![s].account = answers[s]] /\ Keeps
    <3>1. s \notin tabs /\ answers[s] \notin {NoAnswer, "declined"}
      BY <1>a, <2>0, <2>2 DEF GrantsAreOwn, Heard
    <3>2. answers[s] \in Accounts
      BY <1>a, <3>1, SignInTypes DEF Answers
    <3> QED BY <2>0, <2>2, <3>1, <3>2, FlowGrants DEF Keeps
  <2> QED BY <1>6, <2>1, <2>2 DEF ExchangeCode, Redeemable
<1>7. CASE AskDeviceCode(s)
  BY <1>7, <1>e, <1>k, <1>s DEF AskDeviceCode, OpenDialog
<1>8. CASE Poll(s)
  BY <1>8, <1>e, <1>k, <1>s DEF Poll
<1>9. CASE PollAnswered(s)
  <2>0. flow[s].step = "posted" /\ UNCHANGED <<tabs, answers, dialogs, cancelled, page, saved>>
    BY <1>9 DEF PollAnswered
  <2>1. CASE Go(s, "poll") /\ Keeps
    BY <1>k, <1>s, <2>0, <2>1
  <2>2. CASE \E x \in {"denied", "error"} : EndFlow(s, x)
    BY <1>e, <1>s, <2>0, <2>2
  <2>3. CASE /\ answers[s] \in Accounts
             /\ flow' = [flow EXCEPT ![s].step = "save", ![s].account = answers[s]] /\ Keeps
    BY <1>s, <1>t, <2>0, <2>3, FlowGrants DEF Keeps
  <2> QED BY <1>9, <2>1, <2>2, <2>3 DEF PollAnswered
<1>10. CASE SaveProfile(s)
  BY <1>10, <1>s, FlowEnds DEF SaveProfile
<1> QED
  BY <1>1, <1>2, <1>3, <1>4, <1>5, <1>6, <1>7, <1>8, <1>9, <1>10 DEF SignInStep

\* The tabs, the dialogs and the clock move nothing of a sign-in but what it will read.
LEMMA OthersKeepGrants ==
    ASSUME SignInInv, NEW t \in SignIns, UNCHANGED <<authLock, status, page, saved>>,
           \/ \E a \in Answers \ {NoAnswer} : AnswerInTab(t, a) \/ AnswerDevice(t, a)
           \/ JudgeCallback(t) \/ CancelDialog(t) \/ DeadlinePasses(t)
    PROVE  SignInInv'
<1> USE SignInAssumption
<1>a. /\ SignInTypeOK /\ OneAtATime /\ GrantsAreOwn
      /\ flow \in [SignIns -> Flows] /\ receiver \in Receivers
      /\ answers \in [SignIns -> Answers]
  BY SignInTypes DEF SignInInv
<1>1. /\ \A r \in SignIns : /\ flow'[r].step = flow[r].step /\ flow'[r].page = flow[r].page
                            /\ flow'[r].code = flow[r].code /\ flow'[r].account = flow[r].account
      /\ flow' \in [SignIns -> Flows]
  <2>1. CASE DeadlinePasses(t)
    <3>1. flow' = [flow EXCEPT ![t] = [flow[t] EXCEPT !.late = TRUE]]
      BY <2>1 DEF DeadlinePasses
    <3>2. [flow[t] EXCEPT !.late = TRUE] \in Flows
      BY <1>a DEF Flows
    <3>3. /\ [flow[t] EXCEPT !.late = TRUE].step = flow[t].step
          /\ [flow[t] EXCEPT !.late = TRUE].page = flow[t].page
          /\ [flow[t] EXCEPT !.late = TRUE].code = flow[t].code
          /\ [flow[t] EXCEPT !.late = TRUE].account = flow[t].account
      BY <1>a DEF Flows
    <3> QED BY <1>a, <3>1, <3>2, <3>3
  <2>2. CASE flow' = flow
    BY <1>a, <2>2
  <2> QED BY <2>1, <2>2 DEF AnswerInTab, AnswerDevice, JudgeCallback, CancelDialog
<1>2. /\ receiver' \in Receivers /\ receiver'.of = receiver.of
      /\ receiver'.tab \in {receiver.tab, t}
      /\ receiver'.tab # receiver.tab => t \in tabs /\ t \notin tabs'
  <2>1. ASSUME NEW a \in Answers \ {NoAnswer}, AnswerInTab(t, a) PROVE <1>2!:
    <3> DEFINE refused == a = "declined"
    <3>1. refused \in BOOLEAN OBVIOUS
    <3>2. \/ receiver' = receiver
          \/ receiver' = [receiver EXCEPT !.tab = t, !.error = refused]
      BY <2>1 DEF AnswerInTab
    <3>3. t \in tabs /\ tabs' = tabs \ {t}
      BY <2>1 DEF AnswerInTab
    <3> HIDE DEF refused
    <3>4. [receiver EXCEPT !.tab = t, !.error = refused] \in Receivers
      BY <1>a, <3>1 DEF Receivers
    <3>5. /\ [receiver EXCEPT !.tab = t, !.error = refused].of = receiver.of
          /\ [receiver EXCEPT !.tab = t, !.error = refused].tab = t
      BY <1>a DEF Receivers
    <3> QED BY <1>a, <3>2, <3>3, <3>4, <3>5
  <2>2. CASE JudgeCallback(t)
    <3> DEFINE wrong == receiver.error \/ ~StateMatches
    <3>1. wrong \in BOOLEAN OBVIOUS
    <3>2. receiver' = [receiver EXCEPT !.error = wrong, !.event = TRUE]
      BY <2>2 DEF JudgeCallback
    <3> HIDE DEF wrong
    <3>4. [receiver EXCEPT !.error = wrong, !.event = TRUE] \in Receivers
      BY <1>a, <3>1 DEF Receivers
    <3>5. /\ [receiver EXCEPT !.error = wrong, !.event = TRUE].of = receiver.of
          /\ [receiver EXCEPT !.error = wrong, !.event = TRUE].tab = receiver.tab
      BY <1>a DEF Receivers
    <3> QED BY <3>2, <3>4, <3>5
  <2>3. CASE receiver' = receiver
    BY <1>a, <2>3
  <2> QED BY <2>1, <2>2, <2>3 DEF AnswerDevice, CancelDialog, DeadlinePasses, Keeps
<1>3. /\ tabs' \subseteq tabs /\ answers' \in [SignIns -> Answers]
      /\ \A r \in SignIns : answers'[r] # answers[r] =>
            /\ answers'[r] # NoAnswer
            /\ r \in tabs \/ (answers[r] = NoAnswer /\ flow[r].step \in {"poll", "posted"})
      /\ receiver'.tab # receiver.tab => answers'[t] # NoAnswer
  <2>1. ASSUME NEW a \in Answers \ {NoAnswer}, AnswerInTab(t, a) PROVE <1>3!:
    BY <2>1, <1>a DEF AnswerInTab
  <2>2. ASSUME NEW a \in Answers \ {NoAnswer}, AnswerDevice(t, a) PROVE <1>3!:
    BY <2>2, <1>a DEF AnswerDevice
  <2>3. CASE UNCHANGED <<tabs, answers>> /\ ~\E a \in Answers \ {NoAnswer} : AnswerInTab(t, a)
    <3>1. receiver'.tab = receiver.tab
      BY <1>2, <2>3
    <3> QED BY <1>a, <2>3, <3>1
  <2> QED BY <2>1, <2>2, <2>3 DEF JudgeCallback, CancelDialog, DeadlinePasses
<1>4. /\ handlers' \cup dialogs' \cup cancelled' \subseteq SignIns
  BY <1>a, SignInTypes DEF AnswerInTab, AnswerDevice, JudgeCallback, CancelDialog, DeadlinePasses, Keeps
<1>5. SignInTypeOK'
  <2>1. tabs \subseteq SignIns
    BY <1>a, SignInTypes
  <2> QED BY <1>a, <1>1, <1>2, <1>3, <1>4, <2>1, SignInTypes, SignInTypesThen
<1>6. OneAtATime'
  BY <1>a, <1>1, <1>2 DEF OneAtATime
<1>7. GrantsAreOwn'
  <2>1. ASSUME NEW r \in SignIns \cup {0}, Heard(r)
        PROVE  r # 0 => /\ r \notin tabs' /\ flow'[r].step \notin Early
                        /\ answers'[r] = answers[r] /\ answers[r] # NoAnswer
    BY <1>1, <1>3, <2>1 DEF Heard
  <2>2. receiver.tab \in SignIns \cup {0} /\ \A r \in SignIns : flow[r].code \in SignIns \cup {0}
    BY <1>a DEF Receivers, Flows
  <2>3. Heard(receiver.tab)'
    <3>1. CASE receiver'.tab = receiver.tab
      BY <1>a, <2>1, <2>2, <3>1 DEF GrantsAreOwn, Heard
    <3>2. CASE receiver'.tab # receiver.tab
      <4>1. t \in tabs /\ t \notin tabs' /\ answers'[t] # NoAnswer /\ receiver'.tab = t
        BY <1>2, <1>3, <3>2
      <4>2. flow[t].step \notin Early
        BY <1>a, <4>1 DEF GrantsAreOwn, Tabless
      <4> QED BY <1>1, <4>1, <4>2 DEF Heard
    <3> QED BY <3>1, <3>2
  <2>s. "save" \in Tabless /\ "save" \notin {"poll", "posted"}
    BY DEF Tabless
  <2>4. ASSUME NEW r \in SignIns
        PROVE  /\ flow'[r].step \in Tabless => r \notin tabs'
               /\ flow'[r].step = "save" => answers'[r] = flow'[r].account /\ answers'[r] \in Accounts
               /\ flow'[r].account # NoAnswer => flow'[r].step \in {"save", "returned"} \cup Ended
    BY <1>a, <1>1, <1>3, <2>s DEF GrantsAreOwn
  <2>5. ASSUME NEW r \in SignIns, flow'[r].step = "exchange"
        PROVE  flow'[r].code # 0 => /\ flow'[r].code \notin tabs'
                                    /\ flow'[flow'[r].code].step \notin Early
                                    /\ answers'[flow'[r].code] \notin {NoAnswer, "declined"}
    <3>1. flow'[r].code = flow[r].code /\ flow[r].step = "exchange"
      BY <1>1, <2>5
    <3>2. Heard(flow[r].code) /\ (flow[r].code # 0 => answers[flow[r].code] # "declined")
      BY <1>a, <3>1 DEF GrantsAreOwn
    <3> QED BY <2>1, <2>2, <3>1, <3>2
  <2> QED BY <2>3, <2>4, <2>5 DEF GrantsAreOwn, Heard
<1>8. PageIsTrue'
  BY <1>1 DEF SignInInv, PageIsTrue
<1> QED BY <1>5, <1>6, <1>7, <1>8 DEF SignInInv

LEMMA SignInKeeps == ASSUME SignInInv, [SignInNext]_signInVars PROVE SignInInv'
<1> USE SignInAssumption
<1>a. /\ SignInTypeOK /\ OneAtATime /\ GrantsAreOwn
      /\ flow \in [SignIns -> Flows] /\ page \in Pages
  BY SignInTypes DEF SignInInv
\* The page alone moves.
<1>b. ASSUME UNCHANGED <<authLock, flow, status, receiver, handlers, tabs, answers, dialogs,
                         cancelled>>,
             page' \in Pages, saved' \subseteq Accounts, PageIsTrue'
      PROVE  SignInInv'
  <2>1. SignInTypeOK'
    BY <1>a, <1>b, SignInTypes, SignInTypesThen
  <2> QED BY <1>a, <1>b, <2>1 DEF SignInInv, OneAtATime, GrantsAreOwn, Heard
<1>c. \A nr \in 1..MaxPages, shown \in SUBSET Accounts : OpenedPage(nr, shown) \in Pages
  <2> DEFINE no == FALSE
  <2>1. no \in BOOLEAN OBVIOUS
  <2>2. \A nr, shown : OpenedPage(nr, shown) = [nr |-> nr, waits |-> no, shown |-> shown]
    BY DEF OpenedPage
  <2> HIDE DEF no
  <2> QED BY <2>1, <2>2 DEF Pages
<1>1. ASSUME NEW s \in SignIns, AddMicrosoftProfile(s) PROVE SignInInv'
  <2>1. /\ flow[s] = Unbegun
        /\ flow' = [flow EXCEPT ![s] = [flow[s] EXCEPT !.step = "asked", !.page = page.nr]]
        /\ page' = [page EXCEPT !.waits = TRUE]
        /\ UNCHANGED <<authLock, status, receiver, handlers, tabs, answers, dialogs, cancelled,
                       saved>>
    BY <1>1 DEF AddMicrosoftProfile
  <2>x. /\ "asked" \in FlowSteps /\ "asked" \in Early /\ "asked" \in Tabless /\ "asked" \notin AtWork
        /\ "unused" \in Early /\ "unused" \in Tabless /\ "unused" \notin AtWork
        /\ "unused" \notin {"save", "returned"} \cup Ended
    BY DEF FlowSteps, Early, Tabless, AtWork, Ended
  <2>u. flow[s].step = "unused" /\ flow[s].account = NoAnswer
    BY <2>1 DEF Unbegun
  <2>2. page' \in Pages /\ page'.nr = page.nr /\ page'.shown = page.shown
    <3> DEFINE yes == TRUE
    <3>1. yes \in BOOLEAN OBVIOUS
    <3>2. page' = [page EXCEPT !.waits = yes]
      BY <2>1
    <3> HIDE DEF yes
    <3> QED BY <1>a, <3>1, <3>2 DEF Pages
  <2>3. /\ flow' \in [SignIns -> Flows] /\ flow'[s].step = "asked"
        /\ flow'[s].account = NoAnswer
        /\ \A r \in SignIns \ {s} : flow'[r] = flow[r]
    <3>1. page.nr \in 0..MaxPages
      BY <1>a DEF Pages
    <3>2. [flow[s] EXCEPT !.step = "asked", !.page = page.nr] \in Flows
      BY <1>a, <2>x, <3>1 DEF Flows
    <3>3. /\ [flow[s] EXCEPT !.step = "asked", !.page = page.nr].step = "asked"
          /\ [flow[s] EXCEPT !.step = "asked", !.page = page.nr].account = NoAnswer
      BY <1>a, <2>u DEF Flows
    <3> QED BY <1>a, <2>1, <3>2, <3>3
  <2>4. SignInTypeOK'
    BY <1>a, <2>1, <2>2, <2>3, SignInTypes, SignInTypesThen
  <2>5. OneAtATime'
    BY <1>a, <2>1, <2>3, <2>u, <2>x DEF OneAtATime
  <2>6. GrantsAreOwn'
    <3>1. ASSUME NEW t \in SignIns \cup {0}, Heard(t)
          PROVE  t # 0 => /\ t \notin tabs' /\ flow'[t].step \notin Early
                          /\ answers'[t] = answers[t] /\ answers[t] # NoAnswer
      BY <2>1, <2>3, <2>u, <2>x, <3>1 DEF Heard
    <3>2. receiver.tab \in SignIns \cup {0} /\ \A r \in SignIns : flow[r].code \in SignIns \cup {0}
      BY <1>a, SignInTypes DEF Receivers, Flows
    <3>3. Heard(receiver.tab)'
      BY <1>a, <2>1, <3>1, <3>2 DEF GrantsAreOwn, Heard
    <3>4. ASSUME NEW r \in SignIns
          PROVE  /\ flow'[r].step \in Tabless => r \notin tabs'
                 /\ flow'[r].step = "exchange" => r # s
                 /\ flow'[r].step = "save" => answers'[r] = flow'[r].account /\ answers'[r] \in Accounts
                 /\ flow'[r].account # NoAnswer => flow'[r].step \in {"save", "returned"} \cup Ended
      <4>1. CASE r = s
        BY <1>a, <2>1, <2>3, <2>u, <2>x, <4>1 DEF GrantsAreOwn
      <4>2. CASE r # s
        BY <1>a, <2>1, <2>3, <4>2 DEF GrantsAreOwn
      <4> QED BY <4>1, <4>2
    <3>5. ASSUME NEW r \in SignIns, flow'[r].step = "exchange"
          PROVE  flow'[r].code # 0 => /\ flow'[r].code \notin tabs'
                                      /\ flow'[flow'[r].code].step \notin Early
                                      /\ answers'[flow'[r].code] \notin {NoAnswer, "declined"}
      <4>1. r # s /\ flow'[r] = flow[r]
        BY <2>3, <3>4, <3>5
      <4>2. Heard(flow[r].code) /\ (flow[r].code # 0 => answers[flow[r].code] # "declined")
        BY <1>a, <3>5, <4>1 DEF GrantsAreOwn
      <4> QED BY <3>1, <3>2, <4>1, <4>2
    <3> QED BY <3>3, <3>4, <3>5 DEF GrantsAreOwn, Heard
  <2>7. PageIsTrue'
    <3> SUFFICES ASSUME NEW a \in (saved \ page.shown) \cup (page.shown \ saved)
                 PROVE  \E r \in SignIns : /\ flow'[r].account = a
                                           /\ flow'[r].step # "returned" \/ flow'[r].page # page'.nr
      BY <2>1, <2>2 DEF PageIsTrue
    <3>1. PICK r \in SignIns :
             flow[r].account = a /\ (flow[r].step # "returned" \/ flow[r].page # page.nr)
      BY DEF SignInInv, PageIsTrue
    <3>2. a # NoAnswer
      BY <1>a, SignInTypes DEF NoAnswer, Pages
    <3> QED BY <2>2, <2>3, <2>u, <3>1, <3>2
  <2> QED BY <2>4, <2>5, <2>6, <2>7 DEF SignInInv
<1>2. ASSUME NEW s \in SignIns, SignInReturns(s) PROVE SignInInv'
  <2>1. /\ flow[s].step \in Ended /\ Go(s, "returned") /\ page' = PageAfter(s)
        /\ UNCHANGED <<authLock, status, receiver, handlers, tabs, answers, dialogs, cancelled,
                       saved>>
    BY <1>2 DEF SignInReturns, Go
  <2>x. /\ "returned" \in FlowSteps \ {"exchange", "save"} /\ "returned" \notin Tabless \cup Early
        /\ "returned" \notin AtWork /\ flow[s].step \notin AtWork
    BY <2>1 DEF FlowSteps, Tabless, Early, AtWork, Ended
  <2>2. /\ flow' \in [SignIns -> Flows] /\ flow'[s].step = "returned"
        /\ flow'[s].page = flow[s].page /\ flow'[s].account = flow[s].account
        /\ \A r \in SignIns \ {s} : flow'[r] = flow[r]
    BY <1>a, <2>1, <2>x, FlowGoesOn
  <2>3. /\ page' \in Pages /\ page'.nr = page.nr
        /\ flow[s].page = page.nr => page'.shown = saved
        /\ flow[s].page # page.nr => page' = page
    <3> DEFINE no == FALSE
    <3>1. no \in BOOLEAN /\ saved \in SUBSET Accounts
      BY <1>a, SignInTypes
    <3>2. /\ flow[s].page = page.nr => page' = [page EXCEPT !.waits = no, !.shown = saved]
          /\ flow[s].page # page.nr => page' = page
      BY <2>1 DEF PageAfter, Refreshed
    <3> HIDE DEF no
    <3>3. /\ [page EXCEPT !.waits = no, !.shown = saved] \in Pages
          /\ [page EXCEPT !.waits = no, !.shown = saved].nr = page.nr
          /\ [page EXCEPT !.waits = no, !.shown = saved].shown = saved
      BY <1>a, <3>1 DEF Pages
    <3> QED BY <1>a, <3>2, <3>3
  <2>4. SignInTypeOK'
    BY <1>a, <2>1, <2>2, <2>3, SignInTypes, SignInTypesThen
  <2>5. OneAtATime'
    BY <1>a, <2>1, <2>2, <2>x DEF OneAtATime
  <2>6. GrantsAreOwn'
    BY <2>1, <2>x, GrantsStayOwn
  <2>7. PageIsTrue'
    <3>1. CASE flow[s].page = page.nr
      BY <2>1, <2>3, <3>1 DEF PageIsTrue
    <3>2. CASE flow[s].page # page.nr
      <4> SUFFICES ASSUME NEW a \in (saved \ page.shown) \cup (page.shown \ saved)
                   PROVE  \E r \in SignIns : /\ flow'[r].account = a
                                             /\ flow'[r].step # "returned" \/ flow'[r].page # page'.nr
        BY <2>1, <2>3, <3>2 DEF PageIsTrue
      <4>1. PICK r \in SignIns :
               flow[r].account = a /\ (flow[r].step # "returned" \/ flow[r].page # page.nr)
        BY DEF SignInInv, PageIsTrue
      <4> QED BY <2>2, <2>3, <3>2, <4>1
    <3> QED BY <3>1, <3>2
  <2> QED BY <2>4, <2>5, <2>6, <2>7 DEF SignInInv
<1>3. CASE LeaveAndReturn
  <2>1. /\ page' = OpenedPage(page.nr + 1, saved) /\ page.nr + 1 \in 1..MaxPages
        /\ saved \in SUBSET Accounts /\ saved' = saved
    BY <1>3, <1>a, SignInTypes DEF LeaveAndReturn, Pages
  <2>2. page' \in Pages /\ page'.shown = saved
    BY <1>c, <2>1 DEF OpenedPage
  <2> QED BY <1>3, <1>b, <2>1, <2>2 DEF LeaveAndReturn, PageIsTrue
<1>4. ASSUME NEW a \in Accounts, DeleteAccount(a) PROVE SignInInv'
  <2>1. page' = [page EXCEPT !.shown = saved'] /\ saved' \subseteq Accounts
    BY <1>4, <1>a, SignInTypes DEF DeleteAccount
  <2>2. page' \in Pages /\ page'.shown = saved'
    BY <1>a, <2>1 DEF Pages
  <2> QED BY <1>4, <1>b, <2>1, <2>2 DEF DeleteAccount, PageIsTrue
<1>5. ASSUME NEW s \in SignIns, SignInStep(s) PROVE SignInInv'
  BY <1>5, SignInStepKeeps
<1>6. ASSUME NEW s \in SignIns, DeadlinePasses(s) \/ JudgeCallback(s) \/ CancelDialog(s)
      PROVE  SignInInv'
  BY <1>6, OthersKeepGrants DEF DeadlinePasses, JudgeCallback, CancelDialog, Keeps
<1>7. ASSUME NEW s \in SignIns, NEW a \in Answers \ {NoAnswer},
             AnswerInTab(s, a) \/ AnswerDevice(s, a)
      PROVE  SignInInv'
  BY <1>7, OthersKeepGrants DEF AnswerInTab, AnswerDevice
<1>8. CASE UNCHANGED signInVars
  <2>1. page' \in Pages /\ saved' \subseteq Accounts /\ PageIsTrue'
    BY <1>8, <1>a, SignInTypes DEF signInVars, SignInInv, PageIsTrue
  <2> QED BY <1>8, <1>b, <2>1 DEF signInVars
<1> QED
  BY <1>1, <1>2, <1>3, <1>4, <1>5, <1>6, <1>7, <1>8 DEF SignInNext

LEMMA SignInStarts == ASSUME SignInInit PROVE SignInInv
<1> USE SignInAssumption
<1>1. Unbegun \in Flows /\ Unbegun.step = "unused" /\ Unbegun.account = NoAnswer
  <2> DEFINE no == FALSE
  <2>1. no \in BOOLEAN /\ 0 \in 0..MaxPages /\ "unused" \in FlowSteps /\ NoAnswer \in Answers
    BY DEF FlowSteps, Answers
  <2>2. Unbegun = [step |-> "unused", page |-> 0, code |-> 0, account |-> NoAnswer, late |-> no]
    BY DEF Unbegun
  <2> HIDE DEF no
  <2> QED BY <2>1, <2>2 DEF Flows
<1>2. page \in Pages /\ page.shown = {}
  <2> DEFINE no == FALSE
             none == {}
  <2>1. no \in BOOLEAN /\ none \in SUBSET Accounts /\ 1 \in 1..MaxPages OBVIOUS
  <2>2. page = [nr |-> 1, waits |-> no, shown |-> none]
    BY DEF SignInInit, OpenedPage
  <2> HIDE DEF no, none
  <2>3. page \in Pages /\ page.shown = none
    BY <2>1, <2>2 DEF Pages
  <2> QED BY <2>3 DEF none
<1>3. SignInTypeOK
  <2>1. /\ "none" \in Answers /\ flow \in [SignIns -> Flows] /\ answers \in [SignIns -> Answers]
    BY <1>1 DEF SignInInit, Answers, NoAnswer
  <2> QED BY <1>2, <2>1, SignInTypes, DeafHearsNothing DEF SignInInit
<1>4. OneAtATime
  BY <1>1, DeafHearsNothing DEF SignInInit, OneAtATime, AtWork
<1>5. GrantsAreOwn
  BY <1>1, DeafHearsNothing DEF SignInInit, GrantsAreOwn, Heard
<1>6. PageIsTrue
  BY <1>2 DEF SignInInit, PageIsTrue
<1> QED BY <1>3, <1>4, <1>5, <1>6 DEF SignInInv

\* An account is saved only as the player's answer to the sign-in that saves it, one
\* sign-in works at a time, and the page tells what is signed in: over tabs,
\* receivers and dialogs left over from earlier ones (OAuthLoopbackReceiver, _run_auth_flow, pages/profiles.py).
THEOREM SignInStaysSafe == SignInSpec => SignInIsSafe
<1>1. SignInInv /\ [SignInNext]_signInVars =>
        [\A a \in saved' \ saved : answers[authLock] = a]_signInVars
  <2> SUFFICES ASSUME SignInInv, SignInNext, NEW a \in saved' \ saved
               PROVE  answers[authLock] = a
    OBVIOUS
  <2>1. PICK s \in SignIns : SaveProfile(s) /\ saved' = saved \cup {flow[s].account}
    BY DEF SignInNext, SignInStep, AddMicrosoftProfile, SignInReturns, LeaveAndReturn,
           DeleteAccount, TryLock, StartReceiver, OpenBrowser, WaitEnds, TakeCode, ExchangeCode,
           AskDeviceCode, Poll, PollAnswered, SaveProfile, DeadlinePasses, JudgeCallback,
           CancelDialog, AnswerInTab, AnswerDevice
  <2>2. flow[s].step = "save" /\ a = flow[s].account
    BY <2>1 DEF SaveProfile
  <2>3. answers[s] = flow[s].account /\ authLock = s
    BY <2>2 DEF SignInInv, GrantsAreOwn, OneAtATime, AtWork
  <2> QED BY <2>2, <2>3
<1>2. SignInInv => OneAtATime /\ PageIsTrue
  BY DEF SignInInv
<1> QED
  BY SignInStarts, SignInKeeps, <1>1, <1>2, PTL DEF SignInSpec, SignInIsSafe, OwnAccountOnly
-----------------------------------------------------------------------------
\* Where a run is tells what its journal says.
PhasesFit ==
    /\ stage = "staging" => moved.phase = "preparing" /\ file = moved.entries + 1
    /\ stage \in {"making", "folder"} => moved.phase = "staged" /\ moved.entries = Outputs
    /\ stage \in {"copying", "copied", "identified", "checking", "committing"} =>
          moved.phase = "activating" /\ moved.entries = Outputs
    /\ stage = "copying" => file \in 1..(Outputs + 1)
    /\ stage \in {"copied", "identified"} => file \in Outs
    /\ stage = "identified" => file \in moved.known
    /\ stage \in {"undo", "settle"} => Interrupted
    /\ stage = "undo" => file \in 0..moved.entries
    /\ stage \notin {"checking", "clear"}

Untouched(i) == output[i] # "ours" /\ temporary[i] = "none"

\* What there is of ours can be proven to be ours, unless a copy was cut short,
\* and files of others tell of meddling.
OursIsKnown ==
    /\ \A i \in Outs :
          /\ output[i] = "ours" => i \in moved.known
          /\ output[i] = "theirs" => meddled > 0
          /\ temporary[i] = "part" => cut \/ (stage = "copying" /\ file = i)
          /\ temporary[i] = "whole" /\ i \notin moved.known =>
                cut \/ (stage = "copied" /\ file = i)
    /\ folder.theirs => meddled > 0

\* Only what is staged has been worked on; what an undo has passed is gone.
NothingIsLeft ==
    /\ \A i \in Outs : i > moved.entries => Untouched(i)
    /\ stage \in {"staging", "making", "folder"} \/ moved.phase = "none" =>
          \A i \in Outs : Untouched(i)
    /\ folder.made /\ ~moved.folder => OthersUseFolder
    /\ stage = "folder" /\ ~moved.folder => OthersUseFolder
    /\ stage = "undo" /\ ~conflicts => \A i \in Outs : i > file => Untouched(i)
    /\ stage = "settle" /\ ~conflicts =>
          (\A i \in Outs : Untouched(i)) /\ (folder.made => OthersUseFolder)
    /\ stage \in {"undo", "settle"} /\ conflicts => meddled > 0 \/ cut
    /\ stage = "committing" /\ meddled = 0 => \A i \in Outs : output[i] = "ours"

\* What journal.json may say.
Journals ==
    [phase: {"none", "preparing", "staged", "activating", "committed", "rolled_back",
             "repair_required"},
     entries: 0..Outputs, known: SUBSET Outs, folder: BOOLEAN]

\* That a rollback leaves nothing is not inductive: it takes what is proven to be ours to be
\* all of ours, and needs manual repair only for what is not.
MigrationInv ==
    /\ MigrationTypeOK /\ meddled \in Nat
    /\ PhasesFit /\ OursIsKnown /\ NothingIsLeft /\ MigrationIsReversible

\* The writes of the journal change one leaf of it.
LEMMA JournalsFit ==
  ASSUME NEW m \in Journals
  PROVE  /\ \A p \in {"staged", "activating", "committed", "rolled_back", "repair_required"} :
               [m EXCEPT !.phase = p] \in Journals
         /\ \A e \in 0..Outputs : [m EXCEPT !.entries = e] \in Journals
         /\ \A k \in SUBSET Outs : [m EXCEPT !.known = k] \in Journals
         /\ \A b \in BOOLEAN : [m EXCEPT !.folder = b] \in Journals
  BY DEF Journals

\* The steps of a migration, of its recovery and of others keep the invariant, one by one.
LEMMA KeepRecoverMigration == MigrationInv /\ RecoverMigration => MigrationInv'
<1> SUFFICES ASSUME MigrationInv, RecoverMigration PROVE MigrationInv'
  OBVIOUS
<1> USE MigrationAssumption DEF MigrationInv, RecoverMigration, Now, Undo, Contents, Outs, NoMove,
        OurWork, Interrupted, OthersUseFolder, CutsCopy, IsOurs
<1>1. MigrationTypeOK' /\ (meddled \in Nat)'
  <2>1. /\ output' \in [Outs -> {"none", "ours", "theirs"}]
        /\ temporary' \in [Outs -> {"none", "part", "whole"}]
    BY DEF MigrationTypeOK
  <2>2. folder' \in [made: BOOLEAN, theirs: BOOLEAN]
    BY DEF MigrationTypeOK
  <2>3. moved' \in Journals
    <3>1. moved \in Journals
      BY DEF MigrationTypeOK, Journals
    <3> QED
      BY <3>1, JournalsFit DEF MigrationTypeOK, PhasesFit
  <2>4. stage' \in OurWork \union {"idle", "undo", "clear", "settle"}
    BY DEF MigrationTypeOK
  <2>5. file' \in 0..(Outputs + 1)
    BY DEF MigrationTypeOK, PhasesFit
  <2>6. conflicts' \in BOOLEAN /\ cut' \in BOOLEAN
    BY DEF MigrationTypeOK
  <2>7. meddled' \in Nat
    BY DEF MigrationTypeOK
  <2> QED
    BY <2>1, <2>2, <2>3, <2>4, <2>5, <2>6, <2>7 DEF MigrationTypeOK, Journals
<1>2. PhasesFit'
  BY DEF MigrationTypeOK, PhasesFit
<1>3. OursIsKnown'
  BY DEF MigrationTypeOK, PhasesFit, OursIsKnown
<1>4. NothingIsLeft'
  BY DEF MigrationTypeOK, PhasesFit, OursIsKnown, NothingIsLeft, Untouched, MigrationIsReversible
<1>5. MigrationIsReversible'
  BY DEF MigrationTypeOK, PhasesFit, OursIsKnown, NothingIsLeft, Untouched, MigrationIsReversible
<1> QED
  BY <1>1, <1>2, <1>3, <1>4, <1>5

LEMMA KeepBeginMigration == MigrationInv /\ BeginMigration => MigrationInv'
<1> SUFFICES ASSUME MigrationInv, BeginMigration PROVE MigrationInv'
  OBVIOUS
<1> USE MigrationAssumption DEF MigrationInv, BeginMigration, Now, Undo, Contents, Outs, NoMove,
        OurWork, Interrupted, OthersUseFolder, CutsCopy, IsOurs
<1>1. MigrationTypeOK' /\ (meddled \in Nat)'
  <2>1. /\ output' \in [Outs -> {"none", "ours", "theirs"}]
        /\ temporary' \in [Outs -> {"none", "part", "whole"}]
    BY DEF MigrationTypeOK
  <2>2. folder' \in [made: BOOLEAN, theirs: BOOLEAN]
    BY DEF MigrationTypeOK
  <2>3. moved' \in Journals
    <3>1. moved' = [phase |-> "preparing", entries |-> 0, known |-> {}, folder |-> FALSE]
      OBVIOUS
    <3>2. 0 \in 0..Outputs /\ {} \in SUBSET Outs
      OBVIOUS
    <3> QED
      BY <3>1, <3>2 DEF Journals
  <2>4. stage' \in OurWork \union {"idle", "undo", "clear", "settle"}
    BY DEF MigrationTypeOK
  <2>5. file' \in 0..(Outputs + 1)
    BY DEF MigrationTypeOK, PhasesFit
  <2>6. conflicts' \in BOOLEAN /\ cut' \in BOOLEAN
    BY DEF MigrationTypeOK
  <2>7. meddled' \in Nat
    BY DEF MigrationTypeOK
  <2> QED
    BY <2>1, <2>2, <2>3, <2>4, <2>5, <2>6, <2>7 DEF MigrationTypeOK, Journals
<1>2. PhasesFit'
  BY DEF MigrationTypeOK, PhasesFit
<1>3. OursIsKnown'
  BY DEF MigrationTypeOK, OursIsKnown, NothingIsLeft, Untouched, MigrationIsReversible
<1>4. NothingIsLeft'
  BY DEF MigrationTypeOK, PhasesFit, OursIsKnown, NothingIsLeft, Untouched, MigrationIsReversible
<1>5. MigrationIsReversible'
  BY DEF MigrationTypeOK, PhasesFit, OursIsKnown, NothingIsLeft, Untouched, MigrationIsReversible
<1> QED
  BY <1>1, <1>2, <1>3, <1>4, <1>5

LEMMA KeepStageFile == MigrationInv /\ StageFile => MigrationInv'
<1> SUFFICES ASSUME MigrationInv, StageFile PROVE MigrationInv'
  OBVIOUS
<1> USE MigrationAssumption DEF MigrationInv, StageFile, Now, Undo, Contents, Outs, NoMove,
        OurWork, Interrupted, OthersUseFolder, CutsCopy, IsOurs
<1>1. MigrationTypeOK' /\ (meddled \in Nat)'
  <2>1. /\ output' \in [Outs -> {"none", "ours", "theirs"}]
        /\ temporary' \in [Outs -> {"none", "part", "whole"}]
    BY DEF MigrationTypeOK
  <2>2. folder' \in [made: BOOLEAN, theirs: BOOLEAN]
    BY DEF MigrationTypeOK
  <2>3. moved' \in Journals
    <3>1. moved \in Journals
      BY DEF MigrationTypeOK, Journals
    <3>2. file \in 0..Outputs
      BY DEF MigrationTypeOK, PhasesFit
    <3> QED
      BY <3>1, <3>2, JournalsFit
  <2>4. stage' \in OurWork \union {"idle", "undo", "clear", "settle"}
    BY DEF MigrationTypeOK
  <2>5. file' \in 0..(Outputs + 1)
    BY DEF MigrationTypeOK, PhasesFit
  <2>6. conflicts' \in BOOLEAN /\ cut' \in BOOLEAN
    BY DEF MigrationTypeOK
  <2>7. meddled' \in Nat
    BY DEF MigrationTypeOK
  <2> QED
    BY <2>1, <2>2, <2>3, <2>4, <2>5, <2>6, <2>7 DEF MigrationTypeOK, Journals
<1>2. PhasesFit'
  BY DEF MigrationTypeOK, PhasesFit
<1>3. OursIsKnown'
  BY DEF MigrationTypeOK, PhasesFit, OursIsKnown
<1>4. NothingIsLeft'
  BY DEF MigrationTypeOK, PhasesFit, OursIsKnown, NothingIsLeft, Untouched, MigrationIsReversible
<1>5. MigrationIsReversible'
  BY DEF MigrationTypeOK, PhasesFit, OursIsKnown, NothingIsLeft, Untouched, MigrationIsReversible
<1> QED
  BY <1>1, <1>2, <1>3, <1>4, <1>5

LEMMA KeepEndStaging == MigrationInv /\ EndStaging => MigrationInv'
<1> SUFFICES ASSUME MigrationInv, EndStaging PROVE MigrationInv'
  OBVIOUS
<1> USE MigrationAssumption DEF MigrationInv, EndStaging, Now, Undo, Contents, Outs, NoMove,
        OurWork, Interrupted, OthersUseFolder, CutsCopy, IsOurs
<1>1. MigrationTypeOK' /\ (meddled \in Nat)'
  BY DEF MigrationTypeOK, PhasesFit
<1>2. PhasesFit'
  BY DEF MigrationTypeOK, PhasesFit
<1>3. OursIsKnown'
  BY DEF MigrationTypeOK, PhasesFit, OursIsKnown
<1>4. NothingIsLeft'
  BY DEF MigrationTypeOK, PhasesFit, OursIsKnown, NothingIsLeft, Untouched, MigrationIsReversible
<1>5. MigrationIsReversible'
  BY DEF MigrationTypeOK, PhasesFit, OursIsKnown, NothingIsLeft, Untouched, MigrationIsReversible
<1> QED
  BY <1>1, <1>2, <1>3, <1>4, <1>5

LEMMA KeepRecordFolder == MigrationInv /\ RecordFolder => MigrationInv'
<1> SUFFICES ASSUME MigrationInv, RecordFolder PROVE MigrationInv'
  OBVIOUS
<1> USE MigrationAssumption DEF MigrationInv, RecordFolder, Now, Undo, Contents, Outs, NoMove,
        OurWork, Interrupted, OthersUseFolder, CutsCopy, IsOurs
<1>1. MigrationTypeOK' /\ (meddled \in Nat)'
  <2>1. /\ output' \in [Outs -> {"none", "ours", "theirs"}]
        /\ temporary' \in [Outs -> {"none", "part", "whole"}]
    BY DEF MigrationTypeOK
  <2>2. folder' \in [made: BOOLEAN, theirs: BOOLEAN]
    BY DEF MigrationTypeOK
  <2>3. moved' \in Journals
    <3>1. moved \in Journals
      BY DEF MigrationTypeOK, Journals
    <3> QED
      BY <3>1, JournalsFit DEF MigrationTypeOK, PhasesFit
  <2>4. stage' \in OurWork \union {"idle", "undo", "clear", "settle"}
    BY DEF MigrationTypeOK
  <2>5. file' \in 0..(Outputs + 1)
    BY DEF MigrationTypeOK, PhasesFit
  <2>6. conflicts' \in BOOLEAN /\ cut' \in BOOLEAN
    BY DEF MigrationTypeOK
  <2>7. meddled' \in Nat
    BY DEF MigrationTypeOK
  <2> QED
    BY <2>1, <2>2, <2>3, <2>4, <2>5, <2>6, <2>7 DEF MigrationTypeOK, Journals
<1>2. PhasesFit'
  BY DEF MigrationTypeOK, PhasesFit
<1>3. OursIsKnown'
  BY DEF MigrationTypeOK, PhasesFit, OursIsKnown
<1>4. NothingIsLeft'
  BY DEF MigrationTypeOK, PhasesFit, OursIsKnown, NothingIsLeft, Untouched, MigrationIsReversible
<1>5. MigrationIsReversible'
  BY DEF MigrationTypeOK, PhasesFit, OursIsKnown, NothingIsLeft, Untouched, MigrationIsReversible
<1> QED
  BY <1>1, <1>2, <1>3, <1>4, <1>5

LEMMA KeepMakeFolder == MigrationInv /\ MakeFolder => MigrationInv'
<1> SUFFICES ASSUME MigrationInv, MakeFolder PROVE MigrationInv'
  OBVIOUS
<1> USE MigrationAssumption DEF MigrationInv, MakeFolder, Now, Undo, Contents, Outs, NoMove,
        OurWork, Interrupted, OthersUseFolder, CutsCopy, IsOurs
<1>1. MigrationTypeOK' /\ (meddled \in Nat)'
  <2>1. /\ output' \in [Outs -> {"none", "ours", "theirs"}]
        /\ temporary' \in [Outs -> {"none", "part", "whole"}]
    BY DEF MigrationTypeOK
  <2>2. folder' \in [made: BOOLEAN, theirs: BOOLEAN]
    BY DEF MigrationTypeOK
  <2>3. moved' \in Journals
    <3>1. moved \in Journals
      BY DEF MigrationTypeOK, Journals
    <3> QED
      BY <3>1, JournalsFit DEF MigrationTypeOK, PhasesFit
  <2>4. stage' \in OurWork \union {"idle", "undo", "clear", "settle"}
    BY DEF MigrationTypeOK
  <2>5. file' \in 0..(Outputs + 1)
    BY DEF MigrationTypeOK, PhasesFit
  <2>6. conflicts' \in BOOLEAN /\ cut' \in BOOLEAN
    BY DEF MigrationTypeOK
  <2>7. meddled' \in Nat
    BY DEF MigrationTypeOK
  <2> QED
    BY <2>1, <2>2, <2>3, <2>4, <2>5, <2>6, <2>7 DEF MigrationTypeOK, Journals
<1>2. PhasesFit'
  BY DEF MigrationTypeOK, PhasesFit
<1>3. OursIsKnown'
  BY DEF MigrationTypeOK, PhasesFit, OursIsKnown
<1>4. NothingIsLeft'
  BY DEF MigrationTypeOK, PhasesFit, OursIsKnown, NothingIsLeft, Untouched, MigrationIsReversible
<1>5. MigrationIsReversible'
  BY DEF MigrationTypeOK, PhasesFit, OursIsKnown, NothingIsLeft, Untouched, MigrationIsReversible
<1> QED
  BY <1>1, <1>2, <1>3, <1>4, <1>5

LEMMA KeepBeginCopyOut == MigrationInv /\ BeginCopyOut => MigrationInv'
<1> SUFFICES ASSUME MigrationInv, BeginCopyOut PROVE MigrationInv'
  OBVIOUS
<1> USE MigrationAssumption DEF MigrationInv, BeginCopyOut, Now, Undo, Contents, Outs, NoMove,
        OurWork, Interrupted, OthersUseFolder, CutsCopy, IsOurs
<1>1. MigrationTypeOK' /\ (meddled \in Nat)'
  BY DEF MigrationTypeOK, PhasesFit
<1>2. PhasesFit'
  BY DEF MigrationTypeOK, PhasesFit
<1>3. OursIsKnown'
  BY DEF MigrationTypeOK, PhasesFit, OursIsKnown
<1>4. NothingIsLeft'
  BY DEF MigrationTypeOK, PhasesFit, OursIsKnown, NothingIsLeft, Untouched, MigrationIsReversible
<1>5. MigrationIsReversible'
  BY DEF MigrationTypeOK, PhasesFit, OursIsKnown, NothingIsLeft, Untouched, MigrationIsReversible
<1> QED
  BY <1>1, <1>2, <1>3, <1>4, <1>5

LEMMA KeepEndCopyOut == MigrationInv /\ EndCopyOut => MigrationInv'
<1> SUFFICES ASSUME MigrationInv, EndCopyOut PROVE MigrationInv'
  OBVIOUS
<1> USE MigrationAssumption DEF MigrationInv, EndCopyOut, Now, Undo, Contents, Outs, NoMove,
        OurWork, Interrupted, OthersUseFolder, CutsCopy, IsOurs
<1>1. MigrationTypeOK' /\ (meddled \in Nat)'
  BY DEF MigrationTypeOK, PhasesFit
<1>2. PhasesFit'
  BY DEF MigrationTypeOK, PhasesFit
<1>3. OursIsKnown'
  BY DEF MigrationTypeOK, PhasesFit, OursIsKnown
<1>4. NothingIsLeft'
  BY DEF MigrationTypeOK, PhasesFit, OursIsKnown, NothingIsLeft, Untouched, MigrationIsReversible
<1>5. MigrationIsReversible'
  BY DEF MigrationTypeOK, PhasesFit, OursIsKnown, NothingIsLeft, Untouched, MigrationIsReversible
<1> QED
  BY <1>1, <1>2, <1>3, <1>4, <1>5

LEMMA KeepSaveIdentity == MigrationInv /\ SaveIdentity => MigrationInv'
<1> SUFFICES ASSUME MigrationInv, SaveIdentity PROVE MigrationInv'
  OBVIOUS
<1> USE MigrationAssumption DEF MigrationInv, SaveIdentity, Now, Undo, Contents, Outs, NoMove,
        OurWork, Interrupted, OthersUseFolder, CutsCopy, IsOurs
<1>1. MigrationTypeOK' /\ (meddled \in Nat)'
  BY DEF MigrationTypeOK, PhasesFit
<1>2. PhasesFit'
  BY DEF MigrationTypeOK, PhasesFit
<1>3. OursIsKnown'
  BY DEF MigrationTypeOK, PhasesFit, OursIsKnown
<1>4. NothingIsLeft'
  BY DEF MigrationTypeOK, PhasesFit, OursIsKnown, NothingIsLeft, Untouched, MigrationIsReversible
<1>5. MigrationIsReversible'
  BY DEF MigrationTypeOK, PhasesFit, OursIsKnown, NothingIsLeft, Untouched, MigrationIsReversible
<1> QED
  BY <1>1, <1>2, <1>3, <1>4, <1>5

LEMMA KeepRenameOut == MigrationInv /\ RenameOut => MigrationInv'
<1> SUFFICES ASSUME MigrationInv, RenameOut PROVE MigrationInv'
  OBVIOUS
<1> USE MigrationAssumption DEF MigrationInv, RenameOut, Now, Undo, Contents, Outs, NoMove,
        OurWork, Interrupted, OthersUseFolder, CutsCopy, IsOurs
<1>1. MigrationTypeOK' /\ (meddled \in Nat)'
  BY DEF MigrationTypeOK, PhasesFit
<1>2. PhasesFit'
  BY DEF MigrationTypeOK, PhasesFit
<1>3. OursIsKnown'
  BY DEF MigrationTypeOK, PhasesFit, OursIsKnown
<1>4. NothingIsLeft'
  BY DEF MigrationTypeOK, PhasesFit, OursIsKnown, NothingIsLeft, Untouched, MigrationIsReversible
<1>5. MigrationIsReversible'
  BY DEF MigrationTypeOK, PhasesFit, OursIsKnown, NothingIsLeft, Untouched, MigrationIsReversible
<1> QED
  BY <1>1, <1>2, <1>3, <1>4, <1>5

LEMMA KeepCheckOutputs == MigrationInv /\ CheckOutputs => MigrationInv'
<1> SUFFICES ASSUME MigrationInv, CheckOutputs PROVE MigrationInv'
  OBVIOUS
<1> USE MigrationAssumption DEF MigrationInv, CheckOutputs, Now, Undo, Contents, Outs, NoMove,
        OurWork, Interrupted, OthersUseFolder, CutsCopy, IsOurs
<1>1. MigrationTypeOK' /\ (meddled \in Nat)'
  BY DEF MigrationTypeOK, PhasesFit
<1>2. PhasesFit'
  BY DEF MigrationTypeOK, PhasesFit
<1>3. OursIsKnown'
  BY DEF MigrationTypeOK, PhasesFit, OursIsKnown
<1>4. NothingIsLeft'
  BY DEF MigrationTypeOK, PhasesFit, OursIsKnown, NothingIsLeft, Untouched, MigrationIsReversible
<1>5. MigrationIsReversible'
  BY DEF MigrationTypeOK, PhasesFit, OursIsKnown, NothingIsLeft, Untouched, MigrationIsReversible
<1> QED
  BY <1>1, <1>2, <1>3, <1>4, <1>5

LEMMA KeepCommitMigration == MigrationInv /\ CommitMigration => MigrationInv'
<1> SUFFICES ASSUME MigrationInv, CommitMigration PROVE MigrationInv'
  OBVIOUS
<1> USE MigrationAssumption DEF MigrationInv, CommitMigration, Now, Undo, Contents, Outs, NoMove,
        OurWork, Interrupted, OthersUseFolder, CutsCopy, IsOurs
<1>1. MigrationTypeOK' /\ (meddled \in Nat)'
  <2>1. /\ output' \in [Outs -> {"none", "ours", "theirs"}]
        /\ temporary' \in [Outs -> {"none", "part", "whole"}]
    BY DEF MigrationTypeOK
  <2>2. folder' \in [made: BOOLEAN, theirs: BOOLEAN]
    BY DEF MigrationTypeOK
  <2>3. moved' \in Journals
    <3>1. moved \in Journals
      BY DEF MigrationTypeOK, Journals
    <3> QED
      BY <3>1, JournalsFit DEF MigrationTypeOK, PhasesFit
  <2>4. stage' \in OurWork \union {"idle", "undo", "clear", "settle"}
    BY DEF MigrationTypeOK
  <2>5. file' \in 0..(Outputs + 1)
    BY DEF MigrationTypeOK, PhasesFit
  <2>6. conflicts' \in BOOLEAN /\ cut' \in BOOLEAN
    BY DEF MigrationTypeOK
  <2>7. meddled' \in Nat
    BY DEF MigrationTypeOK
  <2> QED
    BY <2>1, <2>2, <2>3, <2>4, <2>5, <2>6, <2>7 DEF MigrationTypeOK, Journals
<1>2. PhasesFit'
  BY DEF MigrationTypeOK, PhasesFit
<1>3. OursIsKnown'
  BY DEF MigrationTypeOK, PhasesFit, OursIsKnown
<1>4. NothingIsLeft'
  BY DEF MigrationTypeOK, PhasesFit, OursIsKnown, NothingIsLeft, Untouched, MigrationIsReversible
<1>5. MigrationIsReversible'
  BY DEF MigrationTypeOK, PhasesFit, OursIsKnown, NothingIsLeft, Untouched, MigrationIsReversible
<1> QED
  BY <1>1, <1>2, <1>3, <1>4, <1>5

LEMMA KeepUndoEntryOut == MigrationInv /\ UndoEntryOut => MigrationInv'
<1> SUFFICES ASSUME MigrationInv, UndoEntryOut PROVE MigrationInv'
  OBVIOUS
<1> USE MigrationAssumption DEF MigrationInv, UndoEntryOut, Now, Undo, Contents, Outs, NoMove,
        OurWork, Interrupted, OthersUseFolder, CutsCopy, IsOurs
<1>1. MigrationTypeOK' /\ (meddled \in Nat)'
  <2>1. /\ output' \in [Outs -> {"none", "ours", "theirs"}]
        /\ temporary' \in [Outs -> {"none", "part", "whole"}]
    BY DEF MigrationTypeOK
  <2>2. folder' \in [made: BOOLEAN, theirs: BOOLEAN]
    BY DEF MigrationTypeOK
  <2>3. moved' \in Journals
    <3>1. moved \in Journals
      BY DEF MigrationTypeOK, Journals
    <3> QED
      BY <3>1, JournalsFit DEF MigrationTypeOK, PhasesFit
  <2>4. stage' \in OurWork \union {"idle", "undo", "clear", "settle"}
    BY DEF MigrationTypeOK
  <2>5. file' \in 0..(Outputs + 1)
    BY DEF MigrationTypeOK, PhasesFit
  <2>6. conflicts' \in BOOLEAN /\ cut' \in BOOLEAN
    BY DEF MigrationTypeOK
  <2>7. meddled' \in Nat
    BY DEF MigrationTypeOK
  <2> QED
    BY <2>1, <2>2, <2>3, <2>4, <2>5, <2>6, <2>7 DEF MigrationTypeOK, Journals
<1>2. PhasesFit'
  BY DEF MigrationTypeOK, PhasesFit
<1>3. OursIsKnown'
  BY DEF MigrationTypeOK, PhasesFit, OursIsKnown
<1>4. NothingIsLeft'
  <2>1. \A i \in Outs : Untouched(i) => Untouched(i)'
    BY DEF MigrationTypeOK, Untouched
  <2>2. \A i \in Outs : i = file /\ ~conflicts' => Untouched(i)'
    BY DEF MigrationTypeOK, Untouched
  <2>3. ~conflicts' => \A i \in Outs : i > file' => Untouched(i)'
    <3> SUFFICES ASSUME ~conflicts', NEW i \in Outs, i > file' PROVE Untouched(i)'
      OBVIOUS
    <3>1. i = file \/ i > file
      BY DEF MigrationTypeOK
    <3>2. ~conflicts
      OBVIOUS
    <3> QED
      BY <2>1, <2>2, <3>1, <3>2 DEF NothingIsLeft
  <2>4. conflicts' => meddled > 0 \/ cut
    <3>1. file \in Outs
      BY DEF MigrationTypeOK, PhasesFit
    <3>2. output'[file] # "none" => meddled > 0
      BY <3>1 DEF MigrationTypeOK, OursIsKnown
    <3>3. temporary'[file] # "none" => cut
      BY <3>1 DEF MigrationTypeOK, OursIsKnown
    <3>4. conflicts => meddled > 0 \/ cut
      BY DEF NothingIsLeft
    <3> QED
      BY <3>2, <3>3, <3>4
  <2>5. OthersUseFolder => OthersUseFolder'
    BY DEF MigrationTypeOK
  <2>6. /\ \A i \in Outs : i > moved.entries => Untouched(i)'
        /\ moved.phase = "none" => \A i \in Outs : Untouched(i)'
        /\ folder.made /\ ~moved.folder => OthersUseFolder'
    BY <2>1, <2>5 DEF NothingIsLeft
  <2> QED
    BY <2>3, <2>4, <2>6 DEF NothingIsLeft
<1>5. MigrationIsReversible'
  BY DEF MigrationTypeOK, PhasesFit, OursIsKnown, NothingIsLeft, Untouched, MigrationIsReversible
<1> QED
  BY <1>1, <1>2, <1>3, <1>4, <1>5

LEMMA KeepRemoveFolder == MigrationInv /\ RemoveFolder => MigrationInv'
<1> SUFFICES ASSUME MigrationInv, RemoveFolder PROVE MigrationInv'
  OBVIOUS
<1> USE MigrationAssumption DEF MigrationInv, RemoveFolder, Now, Undo, Contents, Outs, NoMove,
        OurWork, Interrupted, OthersUseFolder, CutsCopy, IsOurs
<1>1. MigrationTypeOK' /\ (meddled \in Nat)'
  BY DEF MigrationTypeOK, PhasesFit
<1>2. PhasesFit'
  BY DEF MigrationTypeOK, PhasesFit
<1>3. OursIsKnown'
  BY DEF MigrationTypeOK, PhasesFit, OursIsKnown
<1>4. NothingIsLeft'
  BY DEF MigrationTypeOK, PhasesFit, OursIsKnown, NothingIsLeft, Untouched, MigrationIsReversible
<1>5. MigrationIsReversible'
  BY DEF MigrationTypeOK, PhasesFit, OursIsKnown, NothingIsLeft, Untouched, MigrationIsReversible
<1> QED
  BY <1>1, <1>2, <1>3, <1>4, <1>5

LEMMA KeepSettleMigration == MigrationInv /\ SettleMigration => MigrationInv'
<1> SUFFICES ASSUME MigrationInv, SettleMigration PROVE MigrationInv'
  OBVIOUS
<1> USE MigrationAssumption DEF MigrationInv, SettleMigration, Now, Undo, Contents, Outs, NoMove,
        OurWork, Interrupted, OthersUseFolder, CutsCopy, IsOurs
<1>1. MigrationTypeOK' /\ (meddled \in Nat)'
  BY DEF MigrationTypeOK, PhasesFit
<1>2. PhasesFit'
  BY DEF MigrationTypeOK, PhasesFit
<1>3. OursIsKnown'
  BY DEF MigrationTypeOK, PhasesFit, OursIsKnown
<1>4. NothingIsLeft'
  BY DEF MigrationTypeOK, PhasesFit, OursIsKnown, NothingIsLeft, Untouched, MigrationIsReversible
<1>5. MigrationIsReversible'
  BY DEF MigrationTypeOK, PhasesFit, OursIsKnown, NothingIsLeft, Untouched, MigrationIsReversible
<1> QED
  BY <1>1, <1>2, <1>3, <1>4, <1>5

LEMMA KeepMigrationFails == MigrationInv /\ MigrationFails => MigrationInv'
<1> SUFFICES ASSUME MigrationInv, MigrationFails PROVE MigrationInv'
  OBVIOUS
<1> USE MigrationAssumption DEF MigrationInv, MigrationFails, Now, Undo, Contents, Outs, NoMove,
        OurWork, Interrupted, OthersUseFolder, CutsCopy, IsOurs
<1>1. MigrationTypeOK' /\ (meddled \in Nat)'
  <2>1. /\ output' \in [Outs -> {"none", "ours", "theirs"}]
        /\ temporary' \in [Outs -> {"none", "part", "whole"}]
    BY DEF MigrationTypeOK
  <2>2. folder' \in [made: BOOLEAN, theirs: BOOLEAN]
    BY DEF MigrationTypeOK
  <2>3. moved' \in Journals
    <3>1. moved \in Journals
      BY DEF MigrationTypeOK, Journals
    <3> QED
      BY <3>1, JournalsFit DEF MigrationTypeOK, PhasesFit
  <2>4. stage' \in OurWork \union {"idle", "undo", "clear", "settle"}
    BY DEF MigrationTypeOK
  <2>5. file' \in 0..(Outputs + 1)
    BY DEF MigrationTypeOK, PhasesFit
  <2>6. conflicts' \in BOOLEAN /\ cut' \in BOOLEAN
    BY DEF MigrationTypeOK
  <2>7. meddled' \in Nat
    BY DEF MigrationTypeOK
  <2> QED
    BY <2>1, <2>2, <2>3, <2>4, <2>5, <2>6, <2>7 DEF MigrationTypeOK, Journals
<1>2. PhasesFit'
  BY DEF MigrationTypeOK, PhasesFit
<1>3. OursIsKnown'
  <2>1. ASSUME NEW i \in Outs, temporary[i] = "part" \/ (temporary[i] = "whole" /\ i \notin moved.known)
        PROVE  cut'
    <3>1. CASE cut
      BY <3>1
    <3>2. CASE stage \in {"copying", "copied"} /\ file = i
      <4>1. file <= Outputs /\ temporary[file] # "none"
        BY <2>1, <3>2
      <4>2. CutsCopy
        BY <4>1, <3>2
      <4> QED
        BY <4>2, Zenon
    <3> QED
      BY <2>1, <3>1, <3>2 DEF MigrationTypeOK, OursIsKnown
  <2> QED
    BY <2>1 DEF MigrationTypeOK, OursIsKnown
<1>4. NothingIsLeft'
  BY DEF MigrationTypeOK, PhasesFit, OursIsKnown, NothingIsLeft, Untouched, MigrationIsReversible
<1>5. MigrationIsReversible'
  BY DEF MigrationTypeOK, PhasesFit, OursIsKnown, NothingIsLeft, Untouched, MigrationIsReversible
<1> QED
  BY <1>1, <1>2, <1>3, <1>4, <1>5

LEMMA KeepMigrationStops == MigrationInv /\ MigrationStops => MigrationInv'
<1> SUFFICES ASSUME MigrationInv, MigrationStops PROVE MigrationInv'
  OBVIOUS
<1> USE MigrationAssumption DEF MigrationInv, MigrationStops, Now, Undo, Contents, Outs, NoMove,
        OurWork, Interrupted, OthersUseFolder, CutsCopy, IsOurs
<1>1. MigrationTypeOK' /\ (meddled \in Nat)'
  BY DEF MigrationTypeOK, PhasesFit
<1>2. PhasesFit'
  BY DEF MigrationTypeOK, PhasesFit
<1>3. OursIsKnown'
  <2>1. ASSUME NEW i \in Outs, temporary[i] = "part" \/ (temporary[i] = "whole" /\ i \notin moved.known)
        PROVE  cut'
    <3>1. CASE cut
      BY <3>1
    <3>2. CASE stage \in {"copying", "copied"} /\ file = i
      <4>1. file <= Outputs /\ temporary[file] # "none"
        BY <2>1, <3>2
      <4>2. CutsCopy
        BY <4>1, <3>2
      <4> QED
        BY <4>2, Zenon
    <3> QED
      BY <2>1, <3>1, <3>2 DEF MigrationTypeOK, OursIsKnown
  <2> QED
    BY <2>1 DEF MigrationTypeOK, OursIsKnown
<1>4. NothingIsLeft'
  BY DEF MigrationTypeOK, PhasesFit, OursIsKnown, NothingIsLeft, Untouched, MigrationIsReversible
<1>5. MigrationIsReversible'
  BY DEF MigrationTypeOK, PhasesFit, OursIsKnown, NothingIsLeft, Untouched, MigrationIsReversible
<1> QED
  BY <1>1, <1>2, <1>3, <1>4, <1>5

LEMMA KeepMeddle == MigrationInv /\ Meddle => MigrationInv'
<1> SUFFICES ASSUME MigrationInv, Meddle PROVE MigrationInv'
  OBVIOUS
<1> USE MigrationAssumption DEF MigrationInv, Meddle, Now, Undo, Contents, Outs, NoMove,
        OurWork, Interrupted, OthersUseFolder, CutsCopy, IsOurs
<1>1. MigrationTypeOK' /\ (meddled \in Nat)'
  <2>1. /\ output' \in [Outs -> {"none", "ours", "theirs"}]
        /\ temporary' \in [Outs -> {"none", "part", "whole"}]
    BY DEF MigrationTypeOK
  <2>2. folder' \in [made: BOOLEAN, theirs: BOOLEAN]
    BY DEF MigrationTypeOK
  <2>3. moved' \in Journals
    <3>1. moved \in Journals
      BY DEF MigrationTypeOK, Journals
    <3> QED
      BY <3>1, JournalsFit DEF MigrationTypeOK, PhasesFit
  <2>4. stage' \in OurWork \union {"idle", "undo", "clear", "settle"}
    BY DEF MigrationTypeOK
  <2>5. file' \in 0..(Outputs + 1)
    BY DEF MigrationTypeOK, PhasesFit
  <2>6. conflicts' \in BOOLEAN /\ cut' \in BOOLEAN
    BY DEF MigrationTypeOK
  <2>7. meddled' \in Nat
    BY DEF MigrationTypeOK
  <2> QED
    BY <2>1, <2>2, <2>3, <2>4, <2>5, <2>6, <2>7 DEF MigrationTypeOK, Journals
<1>2. PhasesFit'
  BY DEF MigrationTypeOK, PhasesFit
<1>3. OursIsKnown'
  BY DEF MigrationTypeOK, PhasesFit, OursIsKnown
<1>4. NothingIsLeft'
  BY DEF MigrationTypeOK, PhasesFit, OursIsKnown, NothingIsLeft, Untouched, MigrationIsReversible
<1>5. MigrationIsReversible'
  BY DEF MigrationTypeOK, PhasesFit, OursIsKnown, NothingIsLeft, Untouched, MigrationIsReversible
<1> QED
  BY <1>1, <1>2, <1>3, <1>4, <1>5

LEMMA KeepRepairByHand == MigrationInv /\ RepairByHand => MigrationInv'
<1> SUFFICES ASSUME MigrationInv, RepairByHand PROVE MigrationInv'
  OBVIOUS
<1> USE MigrationAssumption DEF MigrationInv, RepairByHand, Now, Undo, Contents, Outs, NoMove,
        OurWork, Interrupted, OthersUseFolder, CutsCopy, IsOurs
<1>1. MigrationTypeOK' /\ (meddled \in Nat)'
  BY DEF MigrationTypeOK, PhasesFit
<1>2. PhasesFit'
  BY DEF MigrationTypeOK, PhasesFit
<1>3. OursIsKnown'
  BY DEF MigrationTypeOK, PhasesFit, OursIsKnown
<1>4. NothingIsLeft'
  BY DEF MigrationTypeOK, PhasesFit, OursIsKnown, NothingIsLeft, Untouched, MigrationIsReversible
<1>5. MigrationIsReversible'
  BY DEF MigrationTypeOK, PhasesFit, OursIsKnown, NothingIsLeft, Untouched, MigrationIsReversible
<1> QED
  BY <1>1, <1>2, <1>3, <1>4, <1>5

LEMMA MigrationBegins == MigrationInit => MigrationInv
<1> SUFFICES ASSUME MigrationInit PROVE MigrationInv
  OBVIOUS
<1> USE MigrationAssumption DEF MigrationInit, Outs, NoMove, OurWork
<1>1. MigrationTypeOK /\ meddled \in Nat
  <2>1. 0 \in 0..Outputs /\ {} \in SUBSET Outs /\ 0 \in 0..(Outputs + 1)
    OBVIOUS
  <2>2. /\ moved \in Journals
        /\ meddled \in Nat
    BY <2>1 DEF Journals
  <2> QED
    BY <2>1, <2>2 DEF MigrationTypeOK, Journals
<1>2. PhasesFit /\ OursIsKnown
  BY DEF PhasesFit, OursIsKnown
<1>3. NothingIsLeft /\ MigrationIsReversible
  BY DEF NothingIsLeft, Untouched, MigrationIsReversible, OthersUseFolder
<1> QED
  BY <1>1, <1>2, <1>3 DEF MigrationInv

LEMMA MigrationGoesOn == MigrationInv /\ [MigrationNext]_migrationVars => MigrationInv'
<1>1. MigrationInv /\ UNCHANGED migrationVars => MigrationInv'
  BY DEF migrationVars, MigrationInv, MigrationTypeOK, PhasesFit, OursIsKnown, NothingIsLeft,
     Untouched, MigrationIsReversible, OurWork, Interrupted, OthersUseFolder
<1> QED
  BY <1>1, KeepRecoverMigration, KeepBeginMigration, KeepStageFile, KeepEndStaging,
     KeepRecordFolder, KeepMakeFolder, KeepBeginCopyOut, KeepEndCopyOut, KeepSaveIdentity,
     KeepRenameOut, KeepCheckOutputs, KeepCommitMigration, KeepUndoEntryOut, KeepRemoveFolder,
     KeepSettleMigration, KeepMigrationFails, KeepMigrationStops, KeepMeddle, KeepRepairByHand
     DEF MigrationNext, MigrationStep

\* The undo removes our files only; a rename goes to a place that is free.
LEMMA TheirsSurviveStep ==
  ASSUME MigrationInv, MigrationNext, ~RepairByHand
  PROVE  \A i \in Outs : output[i] = "theirs" => output'[i] = "theirs"
<1> USE DEF MigrationInv, MigrationTypeOK
<1>1. CASE UndoEntryOut
  BY <1>1 DEF UndoEntryOut, IsOurs
<1>2. CASE RenameOut
  BY <1>2 DEF RenameOut
<1>3. CASE Meddle
  BY <1>3 DEF Meddle
<1>4. ASSUME ~UndoEntryOut, ~RenameOut, ~Meddle
      PROVE  output' = output
  BY <1>4 DEF MigrationNext, MigrationStep, RecoverMigration, BeginMigration, MigrationStops, Contents,
     StageFile, EndStaging, RecordFolder, MakeFolder, BeginCopyOut, EndCopyOut, SaveIdentity,
     CheckOutputs, CommitMigration, RemoveFolder, SettleMigration, MigrationFails
<1> QED
  BY <1>1, <1>2, <1>3, <1>4

\* After a rollback nothing of the migration is left, manual repair is asked for only when
\* somebody meddled or a copy was cut short, a commit nobody disturbed has brought every
\* file, and the files of others survive (commit_migration, _recover).
THEOREM MigrationStaysSafe == MigrationSpec => MigrationIsSafe
<1>1. MigrationSpec => []MigrationInv
  BY MigrationBegins, MigrationGoesOn, PTL DEF MigrationSpec
<1>2. MigrationInv => MigrationIsReversible
  BY DEF MigrationInv
<1>3. MigrationInv /\ [MigrationNext]_migrationVars =>
         [\A i \in Outs : output[i] = "theirs" /\ output'[i] # "theirs" => RepairByHand]_migrationVars
  BY TheirsSurviveStep
<1> QED
  BY <1>1, <1>2, <1>3, PTL DEF MigrationSpec, MigrationIsSafe, TheirFilesSurvive

-----------------------------------------------------------------------------
(***************************************************************************)
(* The place of the data.  Under the types, StateInv says of each state    *)
(* file that is sure what it has to do with the state the user has: the    *)
(* copy in the directory in use, or the one that would be brought there,   *)
(* is that state; a torn file is known to be; what a start leaves behind   *)
(* cannot be brought any more; and a search writes config.json back as it  *)
(* read it.  FoundInv adds where the builds are: in the place config.json  *)
(* names, in an older layout no start has touched, among what a start is   *)
(* carrying along or searching, or hidden by a mishap that is known.       *)
(***************************************************************************)
PointedTo == IF pointer # NoRoot THEN pointer ELSE Standard
Legacy == {Standard, "data", "beside"}

SessionKnows ==
    /\ session = "off" => override = NoRoot
    /\ session # "off" => workDir \in Homes /\ gameDir \in GamePlaces
    /\ session \in {"moving", "switched"} => moveTo \in Homes
    /\ session = "switched" => override = moveTo /\ moveTo # workDir
    /\ session \notin {"off", "wizard", "moving", "switched"} /\ override # NoRoot => workDir = override

TypesInv == LocationTypeOK /\ SessionKnows

LEMMA Distinct ==
    /\ NoRoot \notin Roots /\ Standard \in Roots /\ "data" \in Roots /\ "beside" \in Roots
    /\ Homes \subseteq Roots /\ "data" \notin Homes /\ "beside" \notin Homes
    /\ Locations \subseteq Homes /\ Standard \in Homes /\ Standard \notin Locations
BY LocationAssumption DEF Roots, NoRoot, Standard, Homes

LEMMA LocationPlaces ==
    /\ \A r \in Roots : Own(r) \in GamePlaces /\ Sub(r) \in GamePlaces
    /\ \A r \in Homes : DefaultGames(r) \in GamePlaces
    /\ \A r \in Homes, p \in GamePlaces \cup {Relative} : Resolved(p, r) \in GamePlaces
    /\ NoPlace \notin GamePlaces /\ Relative \notin GamePlaces /\ NoPlace # Relative
    /\ \A p \in GamePlaces : p[1] \in Roots
BY Distinct DEF Own, Sub, GamePlaces, DefaultGames, Resolved, NoPlace, Relative

LEMMA LocationContents ==
    /\ NoContent \in FileContents /\ TornContent \in FileContents
    /\ NoContent.form = "none" /\ NoContent.rev = 0 /\ TornContent.form = "torn" /\ TornContent.rev = 0
    /\ NoContent.games = NoPlace /\ TornContent.games = NoPlace
    /\ [NoContent EXCEPT !.form = "whole"] \in FileContents
<1>1. 0 \in 0..MaxEdits BY LocationAssumption
<1>2. \A form \in {"none", "torn", "whole"} :
         [form |-> form, rev |-> 0, games |-> NoPlace, done |-> FALSE] \in FileContents
  BY <1>1 DEF FileContents
<1>3. NoContent = [form |-> "none", rev |-> 0, games |-> NoPlace, done |-> FALSE] BY DEF NoContent
<1>4. NoContent \in FileContents BY <1>2, <1>3
<1>5. \A form \in {"torn", "whole"} : [NoContent EXCEPT !.form = form] \in FileContents
  BY <1>4 DEF FileContents
<1>6. /\ TornContent.form = "torn" /\ TornContent.rev = 0 /\ TornContent.games = NoPlace
  BY <1>3 DEF TornContent
<1> QED BY <1>3, <1>4, <1>5, <1>6 DEF TornContent

LEMMA ContentOf ==
    ASSUME NEW c \in FileContents
    PROVE  /\ c.form \in {"none", "torn", "whole"} /\ c.rev \in 0..MaxEdits /\ c.done \in BOOLEAN
           /\ c.games \in GamePlaces \cup {NoPlace, Relative}
           /\ WithoutGames(c) \in FileContents
           /\ WithoutGames(c).form = c.form /\ WithoutGames(c).rev = c.rev
           /\ WithoutGames(c).games = NoPlace
BY DEF FileContents, WithoutGames

LEMMA StateFilesAre ==
    ASSUME LocationTypeOK, NEW r \in Roots, NEW f \in StateNames
    PROVE  stateFiles[r][f] \in FileContents
BY DEF LocationTypeOK

LEMMA ConfigsAreWhole ==
    ASSUME LocationTypeOK, NEW r \in Roots
    PROVE  /\ ConfigAt(r) \in FileContents /\ ConfigAt(r).form = "whole"
           /\ stateFiles[r]["config"].form = "whole" => ConfigAt(r) = stateFiles[r]["config"]
           /\ stateFiles[r]["config"].form # "whole" => ConfigAt(r).rev = 0 /\ ConfigAt(r).games = NoPlace
<1>1. stateFiles[r]["config"] \in FileContents BY StateFilesAre DEF StateNames
<1>2. [NoContent EXCEPT !.form = "whole"] \in FileContents
  BY LocationContents
<1>3. /\ [NoContent EXCEPT !.form = "whole"].form = "whole"
      /\ [NoContent EXCEPT !.form = "whole"].rev = 0
      /\ [NoContent EXCEPT !.form = "whole"].games = NoPlace
  BY DEF NoContent
<1> QED BY <1>1, <1>2, <1>3 DEF ConfigAt

LEMMA LegacyRootsAre ==
    ASSUME TypesInv, session # "off"
    PROVE  /\ LegacyRoots \in Seq(Roots) /\ DOMAIN LegacyRoots = 1..Len(LegacyRoots)
           /\ Len(LegacyRoots) \in Nat
           /\ \A i \in DOMAIN LegacyRoots : LegacyRoots[i] \in Roots
           /\ \A x \in Legacy : \E i \in DOMAIN LegacyRoots :
                 LegacyRoots[i] = x /\ \A j \in 1..(i - 1) : LegacyRoots[j] # x
<1>1. gameDir[1] \in Roots BY LocationPlaces DEF TypesInv, SessionKnows
<1>2. CASE gameDir[2] = "own"
  <2>1. LegacyRoots = <<gameDir[1], Standard, "data", "beside">> BY <1>2 DEF LegacyRoots
  <2>2. ASSUME NEW x \in Legacy
        PROVE  \E i \in DOMAIN LegacyRoots : LegacyRoots[i] = x /\ \A j \in 1..(i - 1) : LegacyRoots[j] # x
    <3>1. CASE x = gameDir[1] BY <2>1, <3>1
    <3>2. CASE x = Standard /\ x # gameDir[1]
      <4>1. 2 \in DOMAIN LegacyRoots /\ LegacyRoots[2] = x /\ \A j \in 1..(2 - 1) : LegacyRoots[j] # x
        BY <2>1, <3>2
      <4> QED BY <4>1
    <3>3. CASE x = "data" /\ x # gameDir[1]
      <4>1. 3 \in DOMAIN LegacyRoots /\ LegacyRoots[3] = x /\ \A j \in 1..(3 - 1) : LegacyRoots[j] # x
        BY <2>1, <3>3 DEF Standard
      <4> QED BY <4>1
    <3>4. CASE x = "beside" /\ x # gameDir[1]
      <4>1. 4 \in DOMAIN LegacyRoots /\ LegacyRoots[4] = x /\ \A j \in 1..(4 - 1) : LegacyRoots[j] # x
        BY <2>1, <3>4 DEF Standard
      <4> QED BY <4>1
    <3> QED BY <3>1, <3>2, <3>3, <3>4 DEF Legacy
  <2> QED BY <2>1, <2>2, <1>1, Distinct
<1>3. CASE gameDir[2] # "own"
  <2>1. LegacyRoots = <<Standard, "data", "beside">> BY <1>3 DEF LegacyRoots
  <2>2. ASSUME NEW x \in Legacy
        PROVE  \E i \in DOMAIN LegacyRoots : LegacyRoots[i] = x /\ \A j \in 1..(i - 1) : LegacyRoots[j] # x
    <3>1. CASE x = Standard BY <2>1, <3>1
    <3>2. CASE x = "data"
      <4>1. 2 \in DOMAIN LegacyRoots /\ LegacyRoots[2] = x /\ \A j \in 1..(2 - 1) : LegacyRoots[j] # x
        BY <2>1, <3>2 DEF Standard
      <4> QED BY <4>1
    <3>3. CASE x = "beside"
      <4>1. 3 \in DOMAIN LegacyRoots /\ LegacyRoots[3] = x /\ \A j \in 1..(3 - 1) : LegacyRoots[j] # x
        BY <2>1, <3>3 DEF Standard
      <4> QED BY <4>1
    <3> QED BY <3>1, <3>2, <3>3 DEF Legacy
  <2> QED BY <2>1, <2>2, Distinct
<1> QED BY <1>2, <1>3

\* What a look at one state file does.
FileLookedAt(f) ==
    \/ /\ Holds(workDir, f) \/ \A x \in Legacy \ {workDir} : ~Holds(x, f)
       /\ UNCHANGED <<stateFiles, carried, configFrom, doubtful, known, troubles>>
    \/ /\ ~Holds(workDir, f)
       /\ \E c \in {NoContent, TornContent} : stateFiles' = [stateFiles EXCEPT ![workDir][f] = c]
       /\ doubtful' = doubtful \cup {<<workDir, f>>}
       /\ BuildsHidden(f = "config")
       /\ UNCHANGED <<carried, configFrom>>
    \/ /\ ~Holds(workDir, f)
       /\ \E r \in Roots \ {workDir} :
             /\ Holds(r, f)
             /\ stateFiles' = [stateFiles EXCEPT ![workDir][f] = stateFiles[r][f]]
             /\ \/ doubtful' = doubtful \cup {<<workDir, f>>}
                \/ <<r, f>> \notin doubtful /\ doubtful' = doubtful \ {<<workDir, f>>}
             /\ carried' = Append(carried, r)
             /\ configFrom' = IF f = "config" THEN r ELSE configFrom
       /\ UNCHANGED known

LEMMA Looking ==
    ASSUME TypesInv, MigrateFile
    PROVE  /\ Head(todo) \in StateNames /\ FileLookedAt(Head(todo))
           /\ troubles' \in 0..MaxTroubles
           /\ todo = StateFiles => Head(todo) = "config" /\ todo' = <<"records">>
           /\ todo # StateFiles => Head(todo) = "records" /\ todo' = <<>>
<1>1. /\ todo = StateFiles => Head(todo) = "config" /\ todo' = <<"records">>
      /\ todo # StateFiles => todo = <<"records">> /\ Head(todo) = "records" /\ todo' = <<>>
  <2>1. todo \in {<<"records">>, StateFiles} /\ todo' = Tail(todo)
    BY DEF MigrateFile, TypesInv, LocationTypeOK
  <2>2. todo = <<"records">> \/ todo = <<"config", "records">> BY <2>1 DEF StateFiles
  <2>3. <<"records">> # <<"config", "records">> OBVIOUS
  <2>4. \A s : s = <<"records">> => Head(s) = "records" /\ Tail(s) = <<>> OBVIOUS
  <2>5. \A s : s = <<"config", "records">> => Head(s) = "config" /\ Tail(s) = <<"records">> OBVIOUS
  <2> QED BY <2>1, <2>2, <2>3, <2>4, <2>5 DEF StateFiles
<1> DEFINE f == Head(todo)
           sources == {i \in DOMAIN LegacyRoots : IsLegacyAt(LegacyRoots, i) /\ Holds(LegacyRoots[i], f)}
           failed(i) == Cardinality({j \in sources : j < i})
<1>2. /\ session = "files"
      /\ \/ /\ ~Lacks(workDir, f) \/ sources = {}
            /\ UNCHANGED <<stateFiles, carried, configFrom, doubtful, known, troubles>>
         \/ /\ Lacks(workDir, f) /\ sources # {}
            /\ troubles' = troubles + Cardinality(sources) /\ troubles' <= MaxTroubles
            /\ \E c \in {NoContent, TornContent} : stateFiles' = [stateFiles EXCEPT ![workDir][f] = c]
            /\ doubtful' = doubtful \cup {<<workDir, f>>}
            /\ BuildsHidden(f = "config")
            /\ UNCHANGED <<carried, configFrom>>
         \/ /\ Lacks(workDir, f)
            /\ \E i \in sources :
                  /\ troubles' = troubles + failed(i) /\ troubles' <= MaxTroubles
                  /\ stateFiles' = [stateFiles EXCEPT ![workDir][f] = stateFiles[LegacyRoots[i]][f]]
                  /\ doubtful' = IF <<LegacyRoots[i], f>> \in doubtful \/ failed(i) # 0
                                 THEN doubtful \cup {<<workDir, f>>}
                                 ELSE doubtful \ {<<workDir, f>>}
                  /\ carried' = Append(carried, LegacyRoots[i])
                  /\ configFrom' = IF f = "config" THEN LegacyRoots[i] ELSE configFrom
            /\ UNCHANGED known
  BY DEF MigrateFile
<1>3. /\ DOMAIN LegacyRoots = 1..Len(LegacyRoots) /\ Len(LegacyRoots) \in Nat
      /\ \A i \in DOMAIN LegacyRoots : LegacyRoots[i] \in Roots
      /\ \A x \in Legacy : \E i \in DOMAIN LegacyRoots :
            LegacyRoots[i] = x /\ \A j \in 1..(i - 1) : LegacyRoots[j] # x
  BY <1>2, LegacyRootsAre
<1>4. Cardinality(sources) \in Nat /\ \A i \in sources : failed(i) \in Nat
  <2>1. IsFiniteSet(DOMAIN LegacyRoots) BY <1>3, FS_Interval
  <2>2. IsFiniteSet(sources) BY <2>1, FS_Subset
  <2>3. \A i \in sources : IsFiniteSet({j \in sources : j < i})
    <3> SUFFICES ASSUME NEW i \in sources PROVE IsFiniteSet({j \in sources : j < i}) OBVIOUS
    <3>1. {j \in sources : j < i} \subseteq sources OBVIOUS
    <3> QED BY <3>1, <2>2, FS_Subset
  <2> QED BY <2>2, <2>3, FS_CardinalityType
<1>5. troubles' \in 0..MaxTroubles
  <2>1. troubles \in 0..MaxTroubles BY DEF TypesInv, LocationTypeOK
  <2>2. troubles \in Nat /\ MaxTroubles \in Nat BY <2>1, LocationAssumption
  <2>3. \/ troubles' = troubles
        \/ troubles' = troubles + Cardinality(sources) /\ troubles' <= MaxTroubles
        \/ \E i \in sources : troubles' = troubles + failed(i) /\ troubles' <= MaxTroubles
    BY <1>2
  <2> HIDE DEF sources, failed
  <2> QED BY <2>1, <2>2, <2>3, <1>4
<1>6. sources = {} => \A x \in Legacy \ {workDir} : ~Holds(x, f)
  <2> SUFFICES ASSUME sources = {}, NEW x \in Legacy, x # workDir PROVE ~Holds(x, f) OBVIOUS
  <2>1. PICK i \in DOMAIN LegacyRoots : LegacyRoots[i] = x /\ \A j \in 1..(i - 1) : LegacyRoots[j] # x
    BY <1>3
  <2>2. IsLegacyAt(LegacyRoots, i) BY <2>1 DEF IsLegacyAt
  <2> QED BY <2>1, <2>2
<1>7. \A i \in sources : LegacyRoots[i] \in Roots \ {workDir} /\ Holds(LegacyRoots[i], f)
  BY <1>3 DEF IsLegacyAt
<1>8. FileLookedAt(f)
  <2> HIDE DEF sources, failed, f
  <2> QED BY <1>2, <1>6, <1>7 DEF FileLookedAt, Lacks
<1> QED BY <1>1, <1>5, <1>8 DEF StateNames

LEMMA KnownStays ==
    ASSUME LocationTypeOK, NEW hidden \in BOOLEAN, BuildsHidden(hidden)
    PROVE  /\ known' \in [rev : [StateNames -> 0..MaxEdits], builds : SUBSET GameBuilds, hidden : BOOLEAN]
           /\ known'.rev = known.rev /\ known'.builds = known.builds
           /\ known.hidden => known'.hidden
           /\ hidden /\ ~Aside => known'.hidden
           /\ ~hidden \/ Aside => known' = known
BY DEF LocationTypeOK, BuildsHidden

LEMMA StateFilesStay ==
    ASSUME LocationTypeOK, NEW r \in Roots, NEW f \in StateNames, NEW c \in FileContents,
           stateFiles' = [stateFiles EXCEPT ![r][f] = c]
    PROVE  /\ stateFiles' \in [Roots -> [StateNames -> FileContents]]
           /\ stateFiles'[r][f] = c
           /\ \A s \in Roots, g \in StateNames : s # r \/ g # f => stateFiles'[s][g] = stateFiles[s][g]
BY DEF LocationTypeOK

LEMMA Initially == LocationInit => TypesInv
<1> SUFFICES ASSUME LocationInit PROVE TypesInv OBVIOUS
<1>1. PICK home \in {NoRoot, Standard, "data", "beside"},
           games \in {NoPlace, Relative} \cup {Own(r) : r \in Locations} :
          LET at == IF games \notin {NoPlace, Relative} THEN games
                    ELSE IF home = Standard /\ games = NoPlace THEN Own("data") ELSE Sub(home)
              filled(f) == [form |-> "whole", rev |-> 1, done |-> FALSE,
                             games |-> IF f = "config" THEN games ELSE NoPlace]
          IN  /\ home = NoRoot => games = NoPlace
              /\ stateFiles = [r \in Roots |-> [f \in StateNames |->
                                  IF r = home THEN filled(f) ELSE NoContent]]
              /\ gameFiles = [p \in GamePlaces |-> IF p = at THEN GameBuilds ELSE {}]
              /\ known = [rev |-> [f \in StateNames |-> IF home = NoRoot THEN 0 ELSE 1],
                          builds |-> IF home = NoRoot THEN {} ELSE GameBuilds, hidden |-> FALSE]
  BY DEF LocationInit
<1>2. MaxEdits \in Nat /\ 0 \in 0..MaxEdits /\ 1 \in 0..MaxEdits /\ 1 \in 1..MaxEdits
      /\ 0 \in 0..MaxTroubles
  BY LocationAssumption
<1>3. games \in GamePlaces \cup {NoPlace, Relative} BY LocationPlaces, Distinct
<1>4. \A g \in GamePlaces \cup {NoPlace, Relative} :
         [form |-> "whole", rev |-> 1, done |-> FALSE, games |-> g] \in FileContents
  BY <1>2 DEF FileContents
<1>5. stateFiles \in [Roots -> [StateNames -> FileContents]]
  <2>1. \A f \in StateNames : [form |-> "whole", rev |-> 1, done |-> FALSE,
                          games |-> IF f = "config" THEN games ELSE NoPlace] \in FileContents
    BY <1>3, <1>4
  <2>2. \A r \in Roots, f \in StateNames :
          (IF r = home THEN [form |-> "whole", rev |-> 1, done |-> FALSE,
                             games |-> IF f = "config" THEN games ELSE NoPlace]
           ELSE NoContent) \in FileContents
    BY <2>1, LocationContents
  <2> QED BY <2>2, <1>1
<1>6. gameFiles \in [GamePlaces -> SUBSET GameBuilds] BY <1>1
<1>7. known \in [rev : [StateNames -> 0..MaxEdits], builds : SUBSET GameBuilds, hidden : BOOLEAN]
  BY <1>1, <1>2
<1>8. draft \in [config : FileContents, changed : BOOLEAN] BY LocationContents DEF LocationInit, NoDraft
<1>9. /\ pointer = NoRoot /\ away = {} /\ override = NoRoot /\ workDir = NoRoot /\ gameDir = NoPlace
      /\ session = "off" /\ again = FALSE /\ todo = <<>> /\ carried = <<>> /\ configFrom = NoRoot
      /\ candidates = {} /\ moveTo = NoRoot /\ doubtful = {} /\ edits = 1 /\ troubles = 0
  BY DEF LocationInit
<1>10. carried \in Seq(Roots) BY <1>9
<1> QED BY <1>2, <1>5, <1>6, <1>7, <1>8, <1>9, <1>10 DEF TypesInv, LocationTypeOK, SessionKnows

LEMMA LeastNumber ==
    ASSUME NEW S \in SUBSET Nat, S # {} PROVE \E n \in S : \A m \in S : n <= m
<1> DEFINE R == OpToRel(<, Nat)
<1>1. IsWellFoundedOn(R, Nat) BY NatLessThanWellFounded, Zenon
<1>2. \A m, n \in Nat : m < n => <<m, n>> \in R BY Zenon DEF OpToRel
<1> HIDE DEF R
<1>3. PICK n \in S : \A m \in S : <<m, n>> \notin R BY <1>1, WFMin, Zenon
<1>4. \A m \in S : ~(m < n) BY <1>2, <1>3
<1> QED BY <1>4

LEMMA CandidatesAre ==
    ASSUME LocationTypeOK, candidates # {}
    PROVE  FirstCandidate \in candidates
<1> DEFINE numbers == {c.nr : c \in candidates}
<1>1. numbers \subseteq Nat /\ numbers # {} BY DEF LocationTypeOK
<1>2. PICK n \in numbers : \A m \in numbers : n <= m
  BY <1>1, LeastNumber
<1>3. PICK c \in candidates : c.nr = n BY <1>2
<1>4. \A d \in candidates : c.nr <= d.nr BY <1>2, <1>3
<1> QED BY <1>3, <1>4 DEF FirstCandidate

\* What a search for the Minecraft directory leaves where it ends or goes on.
SearchWrites ==
    /\ stateFiles' \in [Roots -> [StateNames -> FileContents]]
    /\ doubtful' \subseteq Roots \X StateNames /\ troubles' \in 0..MaxTroubles
    /\ known' \in [rev : [StateNames -> 0..MaxEdits], builds : SUBSET GameBuilds, hidden : BOOLEAN]

LEMMA WritesAreTyped ==
    ASSUME TypesInv, session = "games", NEW config \in FileContents
    PROVE  /\ WriteDraft(config) => stateFiles' \in [Roots -> [StateNames -> FileContents]]
                  /\ doubtful' \subseteq Roots \X StateNames /\ troubles' \in 0..MaxTroubles
           /\ WriteDraftFails => SearchWrites
           /\ NoWrite => stateFiles' \in [Roots -> [StateNames -> FileContents]]
                  /\ doubtful' \subseteq Roots \X StateNames /\ troubles' \in 0..MaxTroubles
<1>1. /\ workDir \in Roots /\ "config" \in StateNames /\ LocationTypeOK
  BY Distinct DEF TypesInv, SessionKnows, StateNames
<1>2. /\ doubtful \subseteq Roots \X StateNames /\ <<workDir, "config">> \in Roots \X StateNames
      /\ stateFiles \in [Roots -> [StateNames -> FileContents]]
      /\ troubles \in 0..MaxTroubles /\ MaxTroubles \in Nat
  BY <1>1, LocationAssumption DEF LocationTypeOK
<1>3. ASSUME NEW c \in FileContents, stateFiles' = [stateFiles EXCEPT ![workDir]["config"] = c]
      PROVE  stateFiles' \in [Roots -> [StateNames -> FileContents]]
  BY <1>1, <1>3, StateFilesStay
<1>4. WriteDraft(config) => stateFiles' \in [Roots -> [StateNames -> FileContents]]
                  /\ doubtful' \subseteq Roots \X StateNames /\ troubles' \in 0..MaxTroubles
  BY <1>2, <1>3 DEF WriteDraft, SavedAside
<1>5. ASSUME WriteDraftFails PROVE SearchWrites
  <2>1. known' \in [rev : [StateNames -> 0..MaxEdits], builds : SUBSET GameBuilds, hidden : BOOLEAN]
    BY <1>1, <1>5, KnownStays DEF WriteDraftFails
  <2>2. troubles' \in 0..MaxTroubles BY <1>2, <1>5 DEF WriteDraftFails
  <2>3. TornContent \in FileContents BY LocationContents
  <2>4. stateFiles' \in [Roots -> [StateNames -> FileContents]] /\ doubtful' \subseteq Roots \X StateNames
    BY <1>2, <1>3, <1>5, <2>3 DEF WriteDraftFails
  <2> QED BY <2>1, <2>2, <2>4 DEF SearchWrites
<1>6. NoWrite => stateFiles' \in [Roots -> [StateNames -> FileContents]]
                  /\ doubtful' \subseteq Roots \X StateNames /\ troubles' \in 0..MaxTroubles
  BY <1>2 DEF NoWrite
<1> QED BY <1>4, <1>5, <1>6

LEMMA SearchEndsTyped ==
    ASSUME TypesInv, session = "games", SearchWrites, SearchEnds,
           gameFiles' \in [GamePlaces -> SUBSET GameBuilds]
    PROVE  TypesInv'
<1>1. draft' \in [config : FileContents, changed : BOOLEAN] BY LocationContents DEF SearchEnds, NoDraft
<1>2. /\ session' \in {"open", "wizard", "ready"} /\ candidates' = {} /\ carried' = <<>> /\ configFrom' = NoRoot
      /\ UNCHANGED <<pointer, away, override, workDir, gameDir, again, todo, moveTo, edits>>
  BY DEF SearchEnds
<1>3. LocationTypeOK' BY <1>1, <1>2 DEF TypesInv, LocationTypeOK, SearchWrites
<1>4. SessionKnows' BY <1>2 DEF TypesInv, SessionKnows
<1> QED BY <1>3, <1>4 DEF TypesInv

LEMMA DefaultIsPlace ==
    ASSUME TypesInv, session # "off"
    PROVE  DefaultGames(workDir) \in GamePlaces /\ workDir \in Roots
BY LocationPlaces, Distinct DEF TypesInv, SessionKnows

LEMMA FirstIsCandidate ==
    ASSUME TypesInv, candidates # {}
    PROVE  /\ FirstCandidate \in candidates /\ FirstCandidate.nr \in Nat /\ FirstCandidate.at \in GamePlaces
           /\ FirstCandidate.kind \in {"absolute", "relative", "carried", "left"}
           /\ FirstCandidate.root \in Roots \cup {NoRoot} /\ FirstCandidate.tried \in BOOLEAN
           /\ [FirstCandidate EXCEPT !.tried = TRUE] \in
                  [nr : Nat, kind : {"absolute", "relative", "carried", "left"}, at : GamePlaces,
                   root : Roots \cup {NoRoot}, tried : BOOLEAN]
<1>1. FirstCandidate \in candidates BY CandidatesAre DEF TypesInv
<1>2. FirstCandidate \in [nr : Nat, kind : {"absolute", "relative", "carried", "left"}, at : GamePlaces,
                   root : Roots \cup {NoRoot}, tried : BOOLEAN]
  BY <1>1 DEF TypesInv, LocationTypeOK
<1> QED BY <1>1, <1>2

LEMMA DraftIsTyped ==
    ASSUME TypesInv, session = "games"
    PROVE  draft.config \in FileContents /\ draft.changed \in BOOLEAN
BY DEF TypesInv, LocationTypeOK

LEMMA NothingMoreTyped == TypesInv /\ NothingMore => TypesInv'
<1> SUFFICES ASSUME TypesInv, NothingMore PROVE TypesInv' OBVIOUS
<1>1. session = "games" BY DEF NothingMore
<1>2. draft.config \in FileContents BY <1>1, DraftIsTyped
<1>3. known \in [rev : [StateNames -> 0..MaxEdits], builds : SUBSET GameBuilds, hidden : BOOLEAN]
  BY DEF TypesInv, LocationTypeOK
<1>4. SearchWrites
  BY <1>1, <1>2, <1>3, WritesAreTyped DEF NothingMore, SearchWrites
<1>5. gameFiles' \in [GamePlaces -> SUBSET GameBuilds] BY DEF NothingMore, TypesInv, LocationTypeOK
<1> QED BY <1>1, <1>4, <1>5, SearchEndsTyped DEF NothingMore

LEMMA GamesMovedTyped == TypesInv /\ GamesMoved => TypesInv'
<1> SUFFICES ASSUME TypesInv, GamesMoved PROVE TypesInv' OBVIOUS
<1> DEFINE c == FirstCandidate
           home == DefaultGames(workDir)
           hidden == \/ c.at = gameDir
                     \/ gameFiles[home] # {} /\ ~(gameFiles[c.at] \subseteq gameFiles[home])
           write == c.kind # "left" \/ draft.changed
           config == IF c.kind # "left" THEN WithoutGames(draft.config) ELSE draft.config
<1>1. session = "games" /\ candidates # {} /\ SearchEnds BY DEF GamesMoved
<1>2. /\ gameFiles' = IF gameFiles[home] = {} THEN [gameFiles EXCEPT ![home] = gameFiles[c.at]]
                       ELSE gameFiles
      /\ \/ NoWrite /\ BuildsHidden(hidden)
         \/ WriteDraft(config) /\ BuildsHidden(hidden)
         \/ WriteDraftFails
  BY DEF GamesMoved
<1>3. home \in GamePlaces /\ c.at \in GamePlaces BY <1>1, DefaultIsPlace, FirstIsCandidate
<1>4. config \in FileContents BY <1>1, DraftIsTyped, ContentOf
<1>5. gameFiles' \in [GamePlaces -> SUBSET GameBuilds]
  <2>1. gameFiles \in [GamePlaces -> SUBSET GameBuilds] BY DEF TypesInv, LocationTypeOK
  <2> QED BY <1>2, <1>3, <2>1
<1>6. BuildsHidden(hidden) =>
         known' \in [rev : [StateNames -> 0..MaxEdits], builds : SUBSET GameBuilds, hidden : BOOLEAN]
  BY KnownStays DEF TypesInv
<1>7. SearchWrites
  <2> HIDE DEF hidden, config
  <2> QED BY <1>1, <1>2, <1>4, <1>6, WritesAreTyped DEF SearchWrites
<1> QED BY <1>1, <1>5, <1>7, SearchEndsTyped

LEMMA GamesKeptTyped == TypesInv /\ GamesKept => TypesInv'
<1> SUFFICES ASSUME TypesInv, GamesKept PROVE TypesInv' OBVIOUS
<1>1. session = "games" /\ candidates # {} /\ SearchEnds /\ gameFiles' = gameFiles BY DEF GamesKept
<1> DEFINE config == [draft.config EXCEPT !.games = FirstCandidate.at]
<1>2. /\ NoWrite \/ WriteDraft(config)
      /\ known' = known
  BY DEF GamesKept
<1>3. config \in FileContents
  <2>1. draft.config \in FileContents /\ FirstCandidate.at \in GamePlaces
    BY <1>1, DraftIsTyped, FirstIsCandidate
  <2> QED BY <2>1 DEF FileContents
<1>4. known' \in [rev : [StateNames -> 0..MaxEdits], builds : SUBSET GameBuilds, hidden : BOOLEAN]
  BY <1>2 DEF TypesInv, LocationTypeOK
<1>5. SearchWrites
  <2> HIDE DEF config
  <2> QED BY <1>1, <1>2, <1>3, <1>4, WritesAreTyped DEF SearchWrites
<1>6. gameFiles' \in [GamePlaces -> SUBSET GameBuilds] BY <1>1 DEF TypesInv, LocationTypeOK
<1> QED BY <1>1, <1>5, <1>6, SearchEndsTyped

LEMMA GamesPassedTyped == TypesInv /\ GamesPassed => TypesInv'
<1> SUFFICES ASSUME TypesInv, GamesPassed PROVE TypesInv' OBVIOUS
<1> DEFINE c == FirstCandidate
<1>1. /\ session = "games" /\ candidates # {} /\ candidates' = candidates \ {c}
      /\ UNCHANGED <<gameFiles, pointer, away, override, workDir, gameDir, session, again, todo,
                     carried, configFrom, moveTo, edits>>
  BY DEF GamesPassed
<1>2. \/ /\ draft' = [config |-> WithoutGames(draft.config), changed |-> TRUE]
         /\ NoWrite /\ BuildsHidden(TRUE)
      \/ NoWrite /\ UNCHANGED <<draft, known>>
      \/ WriteDraftFails /\ draft' = [draft EXCEPT !.config.games = c.at]
  BY DEF GamesPassed
<1>3. draft \in [config : FileContents, changed : BOOLEAN] /\ c.at \in GamePlaces
  BY <1>1, FirstIsCandidate DEF TypesInv, LocationTypeOK
<1>4. /\ WithoutGames(draft.config) \in FileContents
      /\ [draft.config EXCEPT !.games = c.at] \in FileContents
  <2>1. draft.config \in FileContents BY <1>3
  <2>2. [draft.config EXCEPT !.games = c.at] \in FileContents BY <2>1, <1>3 DEF FileContents
  <2> QED BY <2>1, <2>2, ContentOf
<1>5. draft' \in [config : FileContents, changed : BOOLEAN]
  <2>1. draft' = [draft EXCEPT !.config.games = c.at]
          => draft' = [draft EXCEPT !.config = [draft.config EXCEPT !.games = c.at]]
    BY Zenon
  <2>2. \A x \in FileContents : [draft EXCEPT !.config = x] \in [config : FileContents, changed : BOOLEAN]
    BY <1>3
  <2>3. \A x \in FileContents : [config |-> x, changed |-> TRUE] \in [config : FileContents, changed : BOOLEAN]
    OBVIOUS
  <2> QED BY <1>2, <1>3, <1>4, <2>1, <2>2, <2>3, Zenon
<1>6. BuildsHidden(TRUE) \/ known' = known =>
         known' \in [rev : [StateNames -> 0..MaxEdits], builds : SUBSET GameBuilds, hidden : BOOLEAN]
  <2>1. LocationTypeOK BY DEF TypesInv
  <2> QED BY <2>1, KnownStays DEF LocationTypeOK
<1>7. SearchWrites
  BY <1>1, <1>2, <1>3, <1>6, WritesAreTyped DEF SearchWrites
<1>8. LocationTypeOK' BY <1>1, <1>5, <1>7 DEF TypesInv, LocationTypeOK, SearchWrites
<1>9. SessionKnows' BY <1>1 DEF TypesInv, SessionKnows
<1> QED BY <1>8, <1>9 DEF TypesInv

LEMMA LookingTyped == TypesInv /\ MigrateFile => TypesInv'
<1> SUFFICES ASSUME TypesInv, MigrateFile PROVE TypesInv' OBVIOUS
<1> DEFINE f == Head(todo)
<1>1. /\ f \in StateNames /\ FileLookedAt(f) /\ troubles' \in 0..MaxTroubles
      /\ todo' \in {<<>>, <<"records">>, StateFiles}
      /\ LocationTypeOK /\ session = "files"
  <2>1. todo = StateFiles \/ todo # StateFiles OBVIOUS
  <2> QED BY <2>1, Looking DEF TypesInv, MigrateFile
<1>2. workDir \in Roots /\ <<workDir, f>> \in Roots \X StateNames
  BY <1>1, DefaultIsPlace
<1>3. UNCHANGED <<gameFiles, pointer, away, override, workDir, gameDir, session, again,
                  candidates, draft, moveTo, edits>>
  BY DEF MigrateFile
<1>4. SessionKnows' BY <1>3 DEF TypesInv, SessionKnows
<1> HIDE DEF f
<1>5. /\ stateFiles' \in [Roots -> [StateNames -> FileContents]]
      /\ doubtful' \subseteq Roots \X StateNames
      /\ known' \in [rev : [StateNames -> 0..MaxEdits], builds : SUBSET GameBuilds, hidden : BOOLEAN]
      /\ carried' \in Seq(Roots) /\ configFrom' \in Roots \cup {NoRoot}
  <2>1. /\ stateFiles \in [Roots -> [StateNames -> FileContents]]
        /\ doubtful \subseteq Roots \X StateNames
        /\ known \in [rev : [StateNames -> 0..MaxEdits], builds : SUBSET GameBuilds, hidden : BOOLEAN]
        /\ carried \in Seq(Roots) /\ configFrom \in Roots \cup {NoRoot}
    BY <1>1 DEF LocationTypeOK
  <2>2. CASE UNCHANGED <<stateFiles, carried, configFrom, doubtful, known, troubles>>
    BY <2>1, <2>2
  <2>3. CASE /\ \E c \in {NoContent, TornContent} : stateFiles' = [stateFiles EXCEPT ![workDir][f] = c]
             /\ doubtful' = doubtful \cup {<<workDir, f>>}
             /\ BuildsHidden(f = "config")
             /\ UNCHANGED <<carried, configFrom>>
    <3>1. PICK c \in FileContents : stateFiles' = [stateFiles EXCEPT ![workDir][f] = c]
      BY <2>3, LocationContents
    <3>2. stateFiles' \in [Roots -> [StateNames -> FileContents]] BY <3>1, <1>1, <1>2, StateFilesStay
    <3>3. known' \in [rev : [StateNames -> 0..MaxEdits], builds : SUBSET GameBuilds, hidden : BOOLEAN]
      BY <2>3, <1>1, KnownStays
    <3> QED BY <3>2, <3>3, <2>1, <2>3, <1>2
  <2>4. CASE \E r \in Roots \ {workDir} :
             /\ stateFiles' = [stateFiles EXCEPT ![workDir][f] = stateFiles[r][f]]
             /\ \/ doubtful' = doubtful \cup {<<workDir, f>>}
                \/ doubtful' = doubtful \ {<<workDir, f>>}
             /\ carried' = Append(carried, r)
             /\ configFrom' = IF f = "config" THEN r ELSE configFrom
             /\ UNCHANGED known
    <3>1. PICK r \in Roots :
             /\ stateFiles' = [stateFiles EXCEPT ![workDir][f] = stateFiles[r][f]]
             /\ \/ doubtful' = doubtful \cup {<<workDir, f>>}
                \/ doubtful' = doubtful \ {<<workDir, f>>}
             /\ carried' = Append(carried, r)
             /\ configFrom' = IF f = "config" THEN r ELSE configFrom
             /\ UNCHANGED known
      BY <2>4
    <3>2. stateFiles[r][f] \in FileContents BY <1>1, StateFilesAre
    <3>3. stateFiles' \in [Roots -> [StateNames -> FileContents]]
      BY <3>1, <3>2, <1>1, <1>2, StateFilesStay
    <3> QED BY <3>1, <3>3, <2>1, <1>2
  <2> QED BY <2>2, <2>3, <2>4, <1>1 DEF FileLookedAt
<1>6. LocationTypeOK' BY <1>1, <1>3, <1>5 DEF LocationTypeOK
<1> QED BY <1>4, <1>6 DEF TypesInv

LEMMA LeftGamesTyped ==
    ASSUME TypesInv, session # "off"
    PROVE  LeftGames \subseteq [nr : Nat, kind : {"absolute", "relative", "carried", "left"}, at : GamePlaces,
                               root : Roots \cup {NoRoot}, tried : BOOLEAN]
<1> DEFINE roots == carried \o LegacyRoots
<1>1. roots \in Seq(Roots) BY LegacyRootsAre DEF TypesInv, LocationTypeOK
<1>2. \A i \in DOMAIN roots : i \in Nat /\ roots[i] \in Roots BY <1>1
<1>3. \A r \in Roots : GamesOf(r) \in GamePlaces BY LocationPlaces DEF GamesOf
<1>4. \A i \in DOMAIN roots : Candidate(2 + i, "left", GamesOf(roots[i]), roots[i]) \in
          [nr : Nat, kind : {"absolute", "relative", "carried", "left"}, at : GamePlaces,
           root : Roots \cup {NoRoot}, tried : BOOLEAN]
  BY <1>2, <1>3 DEF Candidate
<1> QED BY <1>4 DEF LeftGames

LEMMA BeginLookingTyped == TypesInv /\ BeginLooking => TypesInv'
<1> SUFFICES ASSUME TypesInv, BeginLooking PROVE TypesInv' OBVIOUS
<1> DEFINE config == ConfigAt(workDir)
           C == [nr : Nat, kind : {"absolute", "relative", "carried", "left"}, at : GamePlaces,
                 root : Roots \cup {NoRoot}, tried : BOOLEAN]
<1>1. /\ session = "files" /\ session' = "games"
      /\ draft' = [config |-> config, changed |-> FALSE]
      /\ \/ candidates' = {} \/ candidates' = LeftGames
         \/ config.games # NoPlace /\ candidates' = NamedGames(config.games) \cup LeftGames
      /\ UNCHANGED <<onDisk, away, override, workDir, gameDir, again, todo, carried, configFrom,
                     moveTo, doubtful, known, edits, troubles>>
  BY DEF BeginLooking
<1>2. workDir \in Roots /\ LeftGames \subseteq C /\ config \in FileContents
  BY <1>1, DefaultIsPlace, LeftGamesTyped, ConfigsAreWhole DEF TypesInv
<1>3. config.games # NoPlace => NamedGames(config.games) \subseteq C
  <2>1. config.games \in GamePlaces \cup {NoPlace, Relative} BY <1>2, ContentOf
  <2>2. configFrom \in Roots \cup {NoRoot} BY DEF TypesInv, LocationTypeOK
  <2>3. Sub(workDir) \in GamePlaces /\ (configFrom # NoRoot => Sub(configFrom) \in GamePlaces)
    BY <1>2, <2>2, LocationPlaces
  <2>4. \A nr \in {1, 2}, kind \in {"absolute", "relative", "carried"}, p \in GamePlaces,
           r \in Roots \cup {NoRoot} : Candidate(nr, kind, p, r) \in C
    BY DEF Candidate
  <2> HIDE DEF config, C
  <2> QED BY <1>2, <2>1, <2>2, <2>3, <2>4 DEF NamedGames
<1>4. candidates' \subseteq C BY <1>1, <1>2, <1>3
<1>5. draft' \in [config : FileContents, changed : BOOLEAN] BY <1>1, <1>2
<1> HIDE DEF config
<1>6. LocationTypeOK' BY <1>1, <1>4, <1>5 DEF TypesInv, LocationTypeOK, onDisk
<1>7. SessionKnows' BY <1>1 DEF TypesInv, SessionKnows
<1> QED BY <1>6, <1>7 DEF TypesInv

LEMMA OpenStoresTyped == TypesInv /\ OpenStores => TypesInv'
<1> SUFFICES ASSUME TypesInv, OpenStores PROVE TypesInv' OBVIOUS
<1> DEFINE config == ConfigAt(workDir)
           p == Resolved(config.games, workDir)
<1>1. /\ session = "open" /\ session' = "files" /\ again' = FALSE /\ todo' = StateFiles
      /\ UNCHANGED <<gameFiles, pointer, away, override, workDir, carried, configFrom, candidates,
                     draft, moveTo, doubtful, edits, troubles>>
      /\ \/ /\ config.games = NoPlace \/ Usable(p)
            /\ gameDir' = IF config.games = NoPlace THEN gameDir ELSE p
            /\ UNCHANGED <<stateFiles, known>>
         \/ /\ gameDir' = DefaultGames(workDir)
            /\ stateFiles' = [stateFiles EXCEPT ![workDir]["config"] = [config EXCEPT !.games = NoPlace]]
            /\ BuildsHidden(TRUE)
  BY DEF OpenStores
<1>2. /\ workDir \in Roots /\ workDir \in Homes /\ DefaultGames(workDir) \in GamePlaces /\ LocationTypeOK
      /\ gameDir \in GamePlaces
  BY <1>1, DefaultIsPlace DEF TypesInv, SessionKnows
<1>3. config \in FileContents BY <1>2, ConfigsAreWhole
<1>4. config.games = NoPlace \/ p \in GamePlaces
  <2>1. config.games \in GamePlaces \cup {NoPlace, Relative} BY <1>3, ContentOf
  <2> HIDE DEF config
  <2> QED BY <1>2, <2>1, LocationPlaces
<1>5. [config EXCEPT !.games = NoPlace] \in FileContents BY <1>3 DEF FileContents
<1> HIDE DEF config, p
<1>6. gameDir' \in GamePlaces BY <1>1, <1>2, <1>4
<1>7. stateFiles' \in [Roots -> [StateNames -> FileContents]]
  <2>1. "config" \in StateNames BY DEF StateNames
  <2>2. stateFiles \in [Roots -> [StateNames -> FileContents]] BY <1>2 DEF LocationTypeOK
  <2> QED BY <1>1, <1>2, <1>5, <2>1, <2>2, StateFilesStay
<1>8. known' \in [rev : [StateNames -> 0..MaxEdits], builds : SUBSET GameBuilds, hidden : BOOLEAN]
  BY <1>1, <1>2, KnownStays DEF LocationTypeOK
<1>9. LocationTypeOK' BY <1>1, <1>2, <1>6, <1>7, <1>8 DEF LocationTypeOK
<1>10. SessionKnows' BY <1>1, <1>2, <1>6 DEF TypesInv, SessionKnows
<1> QED BY <1>9, <1>10 DEF TypesInv

LEMMA SavesAreTyped ==
    ASSUME TypesInv, session # "off", NEW f \in StateNames, NEW c \in FileContents, SaveContent(f, c)
    PROVE  /\ edits' = edits + 1 /\ edits' \in 1..MaxEdits
           /\ [c EXCEPT !.form = "whole", !.rev = edits'] \in FileContents
           /\ stateFiles' \in [Roots -> [StateNames -> FileContents]]
<1>1. /\ workDir \in Roots /\ LocationTypeOK BY DefaultIsPlace DEF TypesInv
<1>2. edits' = edits + 1 /\ edits' \in 1..MaxEdits
  BY <1>1, LocationAssumption DEF SaveContent, LocationTypeOK
<1>3. [c EXCEPT !.form = "whole", !.rev = edits'] \in FileContents
  <2>1. \A x \in FileContents : [x EXCEPT !.form = "whole"] \in FileContents BY DEF FileContents
  <2>2. \A x \in FileContents, n \in 0..MaxEdits : [x EXCEPT !.rev = n] \in FileContents BY DEF FileContents
  <2>3. edits' \in 0..MaxEdits BY <1>2, LocationAssumption
  <2>4. [c EXCEPT !.form = "whole", !.rev = edits'] = [[c EXCEPT !.form = "whole"] EXCEPT !.rev = edits']
    BY Zenon
  <2> QED BY <2>1, <2>2, <2>3, <2>4, Zenon
<1>4. stateFiles' = [stateFiles EXCEPT ![workDir][f] = [c EXCEPT !.form = "whole", !.rev = edits']]
  BY DEF SaveContent
<1> DEFINE d == [c EXCEPT !.form = "whole", !.rev = edits']
<1>5. stateFiles' \in [Roots -> [StateNames -> FileContents]]
  <2> HIDE DEF d
  <2>1. d \in FileContents BY <1>3 DEF d
  <2>2. stateFiles' = [stateFiles EXCEPT ![workDir][f] = d] BY <1>4 DEF d
  <2> QED BY <1>1, <2>1, <2>2, StateFilesStay
<1> QED BY <1>2, <1>3, <1>5

LEMMA SavedAsideTyped ==
    ASSUME TypesInv, session # "off", NEW f \in StateNames, SavedAside(f)
    PROVE  doubtful' \subseteq Roots \X StateNames
BY DefaultIsPlace DEF SavedAside, TypesInv, LocationTypeOK

LEMMA EditTyped == \A f \in StateNames : TypesInv /\ Edit(f) => TypesInv'
<1> SUFFICES ASSUME NEW f \in StateNames, TypesInv, Edit(f) PROVE TypesInv' OBVIOUS
<1> DEFINE c == IF f = "config" THEN ConfigAt(workDir) ELSE NoContent
<1>1. /\ session # "off" /\ SaveContent(f, c) /\ SavedAside(f)
      /\ known' = IF Aside THEN known ELSE [known EXCEPT !.rev[f] = edits']
      /\ UNCHANGED <<gameFiles, pointer, away, override, workDir, gameDir, session, starting, moveTo,
                     troubles>>
  BY DEF Edit
<1>2. c \in FileContents
  BY <1>1, DefaultIsPlace, ConfigsAreWhole, LocationContents DEF TypesInv
<1> HIDE DEF c
<1>3. /\ edits' \in 1..MaxEdits /\ stateFiles' \in [Roots -> [StateNames -> FileContents]]
  BY <1>1, <1>2, SavesAreTyped
<1>4. doubtful' \subseteq Roots \X StateNames BY <1>1, SavedAsideTyped
<1>5. known' \in [rev : [StateNames -> 0..MaxEdits], builds : SUBSET GameBuilds, hidden : BOOLEAN]
  <2>1. known \in [rev : [StateNames -> 0..MaxEdits], builds : SUBSET GameBuilds, hidden : BOOLEAN]
    BY DEF TypesInv, LocationTypeOK
  <2>2. edits' \in 0..MaxEdits BY <1>3, LocationAssumption
  <2> QED BY <1>1, <2>1, <2>2
<1>6. LocationTypeOK' BY <1>1, <1>3, <1>4, <1>5 DEF TypesInv, LocationTypeOK, starting
<1>7. SessionKnows' BY <1>1 DEF TypesInv, SessionKnows
<1> QED BY <1>6, <1>7 DEF TypesInv

LEMMA ChooseGamesTyped == \A p \in GamePlaces : TypesInv /\ ChooseGames(p) => TypesInv'
<1> SUFFICES ASSUME NEW p \in GamePlaces, TypesInv, ChooseGames(p) PROVE TypesInv' OBVIOUS
<1> DEFINE c == [ConfigAt(workDir) EXCEPT
                   !.games = IF p = DefaultGames(workDir) THEN NoPlace
                             ELSE IF p = Sub(workDir) THEN Relative ELSE p]
<1>1. /\ session = "ready" /\ SaveContent("config", c) /\ SavedAside("config") /\ StartOn(workDir, p)
      /\ known' = IF Aside THEN known
                  ELSE [known EXCEPT !.rev["config"] = edits', !.builds = gameFiles[p],
                            !.hidden = pointer # (IF workDir = Standard THEN NoRoot ELSE workDir)]
      /\ UNCHANGED <<gameFiles, pointer, away, override, carried, configFrom, candidates, draft, moveTo,
                     troubles>>
  BY DEF ChooseGames
<1>2. c \in FileContents
  <2>1. ConfigAt(workDir) \in FileContents BY <1>1, DefaultIsPlace, ConfigsAreWhole DEF TypesInv
  <2> QED BY <2>1 DEF FileContents
<1>3. "config" \in StateNames BY DEF StateNames
<1> HIDE DEF c
<1>4. /\ edits' \in 1..MaxEdits /\ stateFiles' \in [Roots -> [StateNames -> FileContents]]
  BY <1>1, <1>2, <1>3, SavesAreTyped
<1>5. doubtful' \subseteq Roots \X StateNames BY <1>1, <1>3, SavedAsideTyped
<1>6. known' \in [rev : [StateNames -> 0..MaxEdits], builds : SUBSET GameBuilds, hidden : BOOLEAN]
  <2>1. known \in [rev : [StateNames -> 0..MaxEdits], builds : SUBSET GameBuilds, hidden : BOOLEAN]
        /\ gameFiles[p] \in SUBSET GameBuilds
    BY DEF TypesInv, LocationTypeOK
  <2>2. edits' \in 0..MaxEdits BY <1>4, LocationAssumption
  <2> QED BY <1>1, <2>1, <2>2
<1>7. LocationTypeOK' BY <1>1, <1>4, <1>5, <1>6 DEF TypesInv, LocationTypeOK, StartOn
<1>8. SessionKnows' BY <1>1 DEF TypesInv, SessionKnows, StartOn
<1> QED BY <1>7, <1>8 DEF TypesInv

LEMMA InstallGameTyped == \A b \in GameBuilds : TypesInv /\ InstallGame(b) => TypesInv'
<1> SUFFICES ASSUME NEW b \in GameBuilds, TypesInv, InstallGame(b) PROVE TypesInv' OBVIOUS
<1>1. gameFiles' \in [GamePlaces -> SUBSET GameBuilds]
  <2>1. gameFiles \in [GamePlaces -> SUBSET GameBuilds] /\ gameDir \in GamePlaces
    BY DEF InstallGame, TypesInv, LocationTypeOK, SessionKnows
  <2>2. gameFiles' = [gameFiles EXCEPT ![gameDir] = gameFiles[gameDir] \cup {b}] BY DEF InstallGame
  <2> QED BY <2>1, <2>2
<1>2. known' \in [rev : [StateNames -> 0..MaxEdits], builds : SUBSET GameBuilds, hidden : BOOLEAN]
  BY DEF InstallGame, TypesInv, LocationTypeOK
<1>3. LocationTypeOK' BY <1>1, <1>2 DEF InstallGame, TypesInv, LocationTypeOK, starting
<1>4. SessionKnows' BY DEF InstallGame, TypesInv, SessionKnows
<1> QED BY <1>3, <1>4 DEF TypesInv

LEMMA CopyingTyped == TypesInv /\ (CopyStateFile \/ CopyStateFails) => TypesInv'
<1> SUFFICES ASSUME TypesInv, CopyStateFile \/ CopyStateFails PROVE TypesInv' OBVIOUS
<1> DEFINE f == Head(todo)
<1>1. /\ todo # <<>> /\ session = "moving" /\ todo \in {<<"records">>, StateFiles}
  BY DEF CopyStateFile, CopyStateFails, TypesInv, LocationTypeOK
<1>2. f \in StateNames /\ Tail(todo) \in {<<>>, <<"records">>}
  <2>1. \A s : s = <<"records">> => Head(s) = "records" /\ Tail(s) = <<>> OBVIOUS
  <2>2. \A s : s = <<"config", "records">> => Head(s) = "config" /\ Tail(s) = <<"records">> OBVIOUS
  <2> QED BY <1>1, <2>1, <2>2 DEF StateFiles, StateNames
<1>3. /\ UNCHANGED <<gameFiles, pointer, away, override, workDir, gameDir, again, carried,
                     configFrom, candidates, draft, known, edits>>
      /\ session' \in {"moving", "wizard"} /\ moveTo' \in {moveTo, NoRoot}
      /\ session' = "moving" => moveTo' = moveTo
      /\ todo' = Tail(todo) \/ todo' = <<>>
  BY <1>1 DEF CopyStateFile, CopyStateFails, BackToWizard
<1>4. \/ stateFiles' = stateFiles /\ doubtful' = doubtful
      \/ /\ doubtful' = doubtful \cup {<<moveTo, f>>}
         /\ \E c \in {stateFiles[workDir][f], TornContent} :
                stateFiles' = [stateFiles EXCEPT ![moveTo][f] = c]
  BY DEF CopyStateFile, CopyStateFails
<1>5. troubles' = troubles \/ (troubles' = troubles + 1 /\ troubles' <= MaxTroubles)
  BY DEF CopyStateFile, CopyStateFails
<1> HIDE DEF f
<1>6. moveTo \in Roots /\ workDir \in Roots /\ LocationTypeOK
  BY <1>1, Distinct, DefaultIsPlace DEF TypesInv, SessionKnows
<1>7. stateFiles' \in [Roots -> [StateNames -> FileContents]] /\ doubtful' \subseteq Roots \X StateNames
  <2>1. stateFiles[workDir][f] \in FileContents BY <1>2, <1>6, StateFilesAre
  <2>2. stateFiles \in [Roots -> [StateNames -> FileContents]] /\ doubtful \subseteq Roots \X StateNames
    BY <1>6 DEF LocationTypeOK
  <2> QED BY <1>2, <1>4, <1>6, <2>1, <2>2, LocationContents, StateFilesStay
<1>8. troubles' \in 0..MaxTroubles BY <1>5, <1>6, LocationAssumption DEF LocationTypeOK
<1>9. LocationTypeOK' BY <1>2, <1>3, <1>6, <1>7, <1>8 DEF LocationTypeOK
<1>10. SessionKnows' BY <1>1, <1>3 DEF TypesInv, SessionKnows
<1> QED BY <1>9, <1>10 DEF TypesInv

LEMMA SwitchRootTyped == TypesInv /\ SwitchRoot => TypesInv'
<1> SUFFICES ASSUME TypesInv, SwitchRoot PROVE TypesInv' OBVIOUS
<1>1. /\ session = "moving" /\ session' = "switched" /\ override' = moveTo /\ moveTo # workDir
      /\ pointer' \in {NoRoot, moveTo, pointer}
      /\ UNCHANGED <<stateFiles, gameFiles, away, workDir, gameDir, starting, moveTo, edits>>
      /\ moveTo \in Homes /\ moveTo \in Roots /\ LocationTypeOK
  BY Distinct DEF SwitchRoot, TypesInv, SessionKnows
<1>2. troubles' \in 0..MaxTroubles
  <2>1. troubles' = troubles \/ (troubles' = troubles + 1 /\ troubles' <= MaxTroubles) BY DEF SwitchRoot
  <2> QED BY <1>1, <2>1, LocationAssumption DEF LocationTypeOK
<1>3. doubtful' \subseteq Roots \X StateNames
  <2> DEFINE stale == {f \in StateNames :
                        \/ <<workDir, f>> \in doubtful
                        \/ Holds(workDir, f) /\ ~Holds(moveTo, f)
                        \/ /\ <<moveTo, f>> \in doubtful
                           /\ stateFiles[moveTo][f] # stateFiles[workDir][f]}
             elsewhere == (Roots \ {moveTo}) \X StateNames
             behind == {x \in elsewhere : x[1] # workDir /\ Holds(workDir, x[2]) /\ ~Holds(moveTo, x[2])}
  <2>1. doubtful' \subseteq (doubtful \cap elsewhere) \cup ({moveTo} \X stale) \cup behind \cup elsewhere
    <3> HIDE DEF stale, elsewhere, behind
    <3> QED BY DEF SwitchRoot, stale, elsewhere, behind
  <2>2. {moveTo} \X stale \subseteq Roots \X StateNames BY <1>1
  <2>3. elsewhere \subseteq Roots \X StateNames /\ behind \subseteq elsewhere OBVIOUS
  <2> QED BY <2>1, <2>2, <2>3
<1>4. known' \in [rev : [StateNames -> 0..MaxEdits], builds : SUBSET GameBuilds, hidden : BOOLEAN]
  <2> DEFINE rev == [f \in StateNames |->
                       IF Holds(moveTo, f) THEN stateFiles[moveTo][f].rev
                       ELSE IF Aside THEN 0 ELSE known.rev[f]]
  <2>1. known' = [known EXCEPT !.rev = rev, !.hidden = TRUE] BY DEF SwitchRoot
  <2>2. known \in [rev : [StateNames -> 0..MaxEdits], builds : SUBSET GameBuilds, hidden : BOOLEAN]
    BY <1>1 DEF LocationTypeOK
  <2>3. 0 \in 0..MaxEdits BY LocationAssumption
  <2>4. \A f \in StateNames : stateFiles[moveTo][f].rev \in 0..MaxEdits
    BY <1>1, StateFilesAre, ContentOf
  <2>5. rev \in [StateNames -> 0..MaxEdits] BY <2>2, <2>3, <2>4
  <2> QED BY <2>1, <2>2, <2>5
<1>5. LocationTypeOK' BY <1>1, <1>2, <1>3, <1>4 DEF LocationTypeOK, starting
<1>6. SessionKnows' BY <1>1 DEF TypesInv, SessionKnows
<1> QED BY <1>5, <1>6 DEF TypesInv

LEMMA FinishMovingTyped == TypesInv /\ FinishMoving => TypesInv'
<1> SUFFICES ASSUME TypesInv, FinishMoving PROVE TypesInv' OBVIOUS
<1> DEFINE c == [ConfigAt(moveTo) EXCEPT !.games = NoPlace, !.done = TRUE]
           r == IF override # NoRoot THEN override ELSE workDir
<1>1. /\ session = "switched" \/ (session = "moving" /\ moveTo = workDir)
      /\ stateFiles' = [stateFiles EXCEPT ![moveTo]["config"] = c]
      /\ known' = IF moveTo = workDir /\ Aside THEN known
                  ELSE [known EXCEPT !.builds = gameFiles[DefaultGames(moveTo)],
                            !.hidden = pointer # (IF moveTo = Standard THEN NoRoot ELSE moveTo)]
      /\ session' = "files" /\ again' = TRUE /\ todo' = StateFiles
      /\ workDir' = r /\ gameDir' = DefaultGames(r) /\ moveTo' = NoRoot
      /\ IF moveTo = workDir THEN SavedAside("config") ELSE UNCHANGED doubtful
      /\ UNCHANGED <<gameFiles, pointer, away, override, carried, configFrom, candidates, draft,
                     edits, troubles>>
  BY DEF FinishMoving, StartOn
<1>2. /\ moveTo \in Homes /\ moveTo \in Roots /\ workDir \in Homes /\ LocationTypeOK /\ session # "off"
      /\ "config" \in StateNames
  BY <1>1, Distinct DEF TypesInv, SessionKnows, StateNames
<1>3. c \in FileContents
  <2>1. ConfigAt(moveTo) \in FileContents BY <1>2, ConfigsAreWhole
  <2> QED BY <2>1 DEF FileContents
<1>4. r \in Homes BY <1>2 DEF LocationTypeOK
<1>5. DefaultGames(r) \in GamePlaces /\ DefaultGames(moveTo) \in GamePlaces BY <1>2, <1>4, LocationPlaces
<1>6. override # NoRoot => r = override OBVIOUS
<1> HIDE DEF c, r
<1>7. stateFiles' \in [Roots -> [StateNames -> FileContents]] BY <1>1, <1>2, <1>3, StateFilesStay
<1>8. doubtful' \subseteq Roots \X StateNames
  BY <1>1, <1>2, SavedAsideTyped DEF LocationTypeOK
<1>9. known' \in [rev : [StateNames -> 0..MaxEdits], builds : SUBSET GameBuilds, hidden : BOOLEAN]
  <2>1. gameFiles[DefaultGames(moveTo)] \in SUBSET GameBuilds BY <1>2, <1>5 DEF LocationTypeOK
  <2> QED BY <1>1, <1>2, <2>1 DEF LocationTypeOK
<1>10. LocationTypeOK' BY <1>1, <1>2, <1>4, <1>5, <1>7, <1>8, <1>9 DEF LocationTypeOK
<1>11. SessionKnows' BY <1>1, <1>4, <1>5, <1>6 DEF SessionKnows
<1> QED BY <1>10, <1>11 DEF TypesInv

LEMMA StopLocationTyped == TypesInv /\ StopLocation => TypesInv'
<1> SUFFICES ASSUME TypesInv, StopLocation PROVE TypesInv' OBVIOUS
<1>1. known' \in [rev : [StateNames -> 0..MaxEdits], builds : SUBSET GameBuilds, hidden : BOOLEAN]
  BY KnownStays DEF StopLocation, TypesInv
<1>2. draft' \in [config : FileContents, changed : BOOLEAN] BY LocationContents DEF StopLocation, NoDraft
<1>3. troubles' \in 0..MaxTroubles
  BY LocationAssumption DEF StopLocation, TypesInv, LocationTypeOK
<1>4. carried' = <<>> /\ carried' \in Seq(Roots) BY DEF StopLocation
<1>5. LocationTypeOK' BY <1>1, <1>2, <1>3, <1>4 DEF StopLocation, TypesInv, LocationTypeOK, onDisk
<1>6. SessionKnows' BY DEF StopLocation, SessionKnows
<1> QED BY <1>5, <1>6 DEF TypesInv

LEMMA OthersTyped ==
    TypesInv /\ (\/ OpenLocation \/ MoveGamesFails \/ FinishFails
                 \/ \E r \in Homes : BeginMoving(r)
                 \/ \E r \in Locations : Absent(r)) => TypesInv'
<1>1. ASSUME TypesInv, OpenLocation PROVE TypesInv'
  <2>1. SelectRoot(pointer) \in Homes BY <1>1, Distinct DEF SelectRoot, TypesInv, LocationTypeOK
  <2>2. /\ session' = "files" /\ again' = TRUE /\ todo' = StateFiles
        /\ workDir' = SelectRoot(pointer) /\ gameDir' = DefaultGames(SelectRoot(pointer))
        /\ UNCHANGED <<onDisk, away, override, carried, configFrom, candidates, draft, moveTo,
                       doubtful, known, edits, troubles>>
        /\ session = "off"
    BY <1>1 DEF OpenLocation, StartOn
  <2>3. gameDir' \in GamePlaces BY <2>1, <2>2, LocationPlaces
  <2>4. LocationTypeOK' BY <1>1, <2>1, <2>2, <2>3 DEF TypesInv, LocationTypeOK, onDisk
  <2>5. SessionKnows' BY <1>1, <2>1, <2>2, <2>3 DEF TypesInv, SessionKnows
  <2> QED BY <2>4, <2>5 DEF TypesInv
<1>2. ASSUME TypesInv, MoveGamesFails PROVE TypesInv'
  <2> DEFINE c == FirstCandidate
             home == DefaultGames(workDir)
  <2>1. /\ session = "games" /\ candidates # {}
        /\ \E part \in SUBSET gameFiles[c.at] : gameFiles' = [gameFiles EXCEPT ![home] = part]
        /\ candidates' = (candidates \ {c}) \cup {[c EXCEPT !.tried = TRUE]}
        /\ troubles' = troubles + 1 /\ troubles' <= MaxTroubles
        /\ BuildsHidden(TRUE)
        /\ UNCHANGED <<stateFiles, pointer, away, override, workDir, gameDir, session, again, todo,
                       carried, configFrom, draft, moveTo, doubtful, edits>>
    BY <1>2 DEF MoveGamesFails
  <2>2. home \in GamePlaces /\ c.at \in GamePlaces BY <1>2, <2>1, DefaultIsPlace, FirstIsCandidate
  <2>3. candidates' \subseteq [nr : Nat, kind : {"absolute", "relative", "carried", "left"},
                     at : GamePlaces, root : Roots \cup {NoRoot}, tried : BOOLEAN]
    BY <1>2, <2>1, FirstIsCandidate DEF TypesInv, LocationTypeOK
  <2>4. gameFiles' \in [GamePlaces -> SUBSET GameBuilds]
    BY <1>2, <2>1, <2>2 DEF TypesInv, LocationTypeOK
  <2>5. known' \in [rev : [StateNames -> 0..MaxEdits], builds : SUBSET GameBuilds, hidden : BOOLEAN]
    BY <1>2, <2>1, KnownStays DEF TypesInv
  <2>6. troubles' \in 0..MaxTroubles BY <1>2, <2>1, LocationAssumption DEF TypesInv, LocationTypeOK
  <2> HIDE DEF c, home
  <2>7. LocationTypeOK' BY <1>2, <2>1, <2>3, <2>4, <2>5, <2>6 DEF TypesInv, LocationTypeOK
  <2>8. SessionKnows' BY <1>2, <2>1 DEF TypesInv, SessionKnows
  <2> QED BY <2>7, <2>8 DEF TypesInv
<1>3. ASSUME TypesInv, FinishFails PROVE TypesInv'
  <2>1. troubles' \in 0..MaxTroubles
    BY <1>3, LocationAssumption DEF FinishFails, TypesInv, LocationTypeOK
  <2>2. LocationTypeOK' BY <1>3, <2>1 DEF FinishFails, BackToWizard, TypesInv, LocationTypeOK, onDisk
  <2>3. SessionKnows' BY <1>3 DEF FinishFails, BackToWizard, TypesInv, SessionKnows, onDisk
  <2> QED BY <2>2, <2>3 DEF TypesInv
<1>4. ASSUME TypesInv, NEW r \in Homes, BeginMoving(r) PROVE TypesInv'
  <2>1. LocationTypeOK' BY <1>4 DEF BeginMoving, TypesInv, LocationTypeOK, onDisk
  <2>2. SessionKnows' BY <1>4 DEF BeginMoving, TypesInv, SessionKnows
  <2> QED BY <2>1, <2>2 DEF TypesInv
<1>5. ASSUME TypesInv, NEW r \in Locations, Absent(r) PROVE TypesInv'
  <2>1. troubles' \in 0..MaxTroubles /\ away' \subseteq Locations
    BY <1>5, LocationAssumption DEF Absent, TypesInv, LocationTypeOK
  <2>2. LocationTypeOK' BY <1>5, <2>1 DEF Absent, TypesInv, LocationTypeOK, onDisk, starting
  <2>3. SessionKnows' BY <1>5 DEF Absent, TypesInv, SessionKnows
  <2> QED BY <2>2, <2>3 DEF TypesInv
<1> QED BY <1>1, <1>2, <1>3, <1>4, <1>5

LEMMA LocationTypesStay == TypesInv /\ [LocationNext]_locationVars => TypesInv'
<1>1. ASSUME TypesInv, UNCHANGED locationVars PROVE TypesInv'
  BY <1>1 DEF TypesInv, LocationTypeOK, SessionKnows, locationVars, onDisk, starting
<1> QED
  BY <1>1, NothingMoreTyped, GamesMovedTyped, GamesKeptTyped, GamesPassedTyped, LookingTyped,
     BeginLookingTyped, OpenStoresTyped, EditTyped, ChooseGamesTyped, InstallGameTyped,
     CopyingTyped, SwitchRootTyped, FinishMovingTyped, StopLocationTyped, OthersTyped
  DEF LocationNext

\* A file that is torn is known to be; one that is not there has no content.
TornIsDoubtful ==
    \A r \in Roots, f \in StateNames :
        /\ stateFiles[r][f].form = "torn" => <<r, f>> \in doubtful
        /\ ~Holds(r, f) => stateFiles[r][f] = NoContent

\* While the pointer does not say where the session has moved to, only that
\* directory is sure.
OthersDoubtful ==
    override \notin {NoRoot, PointedTo} => (Roots \ {override}) \X StateNames \subseteq doubtful

\* What is sure, and is in the directory a or would be brought to it, is what the user
\* has; what the user has is there.
KeptIn(a) ==
    \A f \in StateNames :
        /\ \A x \in Roots : Holds(x, f) /\ <<x, f>> \notin doubtful /\ (x = a \/ ~Holds(a, f))
              => stateFiles[x][f].rev = known.rev[f]
        /\ ~Holds(a, f) /\ <<a, f>> \notin doubtful /\ known.rev[f] # 0
              => \E x \in Legacy \ {a} : Holds(x, f)
StateIsKept == \A a \in Roots : a = Aim => KeptIn(a)

\* After the start nothing is left that could be brought.
ToBeLookedAt(f) == session = "files" /\ IF f = "config" THEN todo = StateFiles ELSE todo # <<>>
Seen(f) == \/ Holds(workDir, f) \/ <<workDir, f>> \in doubtful
           \/ \A x \in Legacy \ {workDir} : ~Holds(x, f)
NothingIsMissed == session # "off" => \A f \in StateNames : ToBeLookedAt(f) \/ Seen(f)

DraftIsTrue ==
    session = "games" =>
        /\ draft.config.form = "whole"
        /\ stateFiles[workDir]["config"].form # "torn" =>
              draft.config.rev = stateFiles[workDir]["config"].rev
SwitchedIsTrue ==
    session = "switched" => \A f \in StateNames :
        ~Holds(moveTo, f) /\ <<moveTo, f>> \notin doubtful => known.rev[f] = 0

StateInv ==
    /\ TypesInv /\ TornIsDoubtful /\ OthersDoubtful /\ StateIsKept /\ NothingIsMissed
    /\ DraftIsTrue /\ SwitchedIsTrue

LEMMA AimIs == TypesInv => Aim \in Homes /\ Aim \in Roots /\ PointedTo \in Homes /\ PointedTo \in Roots
BY Distinct DEF TypesInv, LocationTypeOK, Aim, PointedTo

\* One file is written.
Written(r, f, c) ==
    /\ stateFiles'[r][f] = c
    /\ \A s \in Roots, g \in StateNames : s # r \/ g # f => stateFiles'[s][g] = stateFiles[s][g]
\* What was doubtful stays so, that file apart.
DoubtStays(r, f) == doubtful \ {<<r, f>>} \subseteq doubtful'

LEMMA WrittenHere ==
    LocationTypeOK => \A r \in Roots, f \in StateNames, c \in FileContents :
        stateFiles' = [stateFiles EXCEPT ![r][f] = c] => Written(r, f, c)
<1> SUFFICES ASSUME LocationTypeOK, NEW r \in Roots, NEW f \in StateNames, NEW c \in FileContents,
                    stateFiles' = [stateFiles EXCEPT ![r][f] = c]
             PROVE  Written(r, f, c)
  OBVIOUS
<1>1. stateFiles \in [Roots -> [StateNames -> FileContents]] BY DEF LocationTypeOK
<1>2. stateFiles'[r] = [stateFiles[r] EXCEPT ![f] = c] /\ stateFiles[r] \in [StateNames -> FileContents]
  BY <1>1
<1>3. stateFiles'[r][f] = c BY <1>2
<1>4. ASSUME NEW s \in Roots, NEW g \in StateNames, s # r \/ g # f
      PROVE  stateFiles'[s][g] = stateFiles[s][g]
  <2>1. CASE s # r BY <1>1, <2>1
  <2>2. CASE s = r /\ g # f BY <1>2, <2>2
  <2> QED BY <1>4, <2>1, <2>2
<1> QED BY <1>3, <1>4 DEF Written

LEMMA HeldAfter ==
    ASSUME NEW r \in Roots, NEW f \in StateNames, NEW c, Written(r, f, c)
    PROVE  /\ Holds(r, f)' <=> c.form # "none"
           /\ \A s \in Roots, g \in StateNames : s # r \/ g # f => (Holds(s, g)' <=> Holds(s, g))
BY DEF Written, Holds

LEMMA KeptByWriting ==
    ASSUME NEW a \in Roots, KeptIn(a), NEW r \in Roots, NEW f \in StateNames, NEW c,
           Written(r, f, c), DoubtStays(r, f), known'.rev = known.rev,
           c.form # "none" \/ ~Holds(r, f),
           <<r, f>> \in doubtful' \/ (c.form # "none" /\ (r = a \/ ~Holds(a, f) => c.rev = known.rev[f]))
    PROVE  KeptIn(a)'
<1>1. /\ \A s \in Roots, g \in StateNames : Holds(s, g) => Holds(s, g)'
      /\ \A s \in Roots, g \in StateNames : s # r \/ g # f =>
            (Holds(s, g)' <=> Holds(s, g)) /\ stateFiles'[s][g] = stateFiles[s][g]
      /\ Holds(r, f)' <=> c.form # "none"
  BY HeldAfter DEF Written
<1>2. \A s \in Roots, g \in StateNames : s # r \/ g # f => (<<s, g>> \in doubtful => <<s, g>> \in doubtful')
  BY DEF DoubtStays
<1>3. stateFiles'[r][f] = c BY DEF Written
<1>4. ASSUME NEW g \in StateNames, NEW x \in Roots, Holds(x, g)', <<x, g>> \notin doubtful', x = a \/ ~Holds(a, g)'
      PROVE  stateFiles'[x][g].rev = known'.rev[g]
  <2>1. x = a \/ ~Holds(a, g) BY <1>1, <1>4
  <2>2. CASE x = r /\ g = f BY <2>1, <2>2, <1>3, <1>4
  <2>3. CASE x # r \/ g # f
    <3>1. Holds(x, g) /\ <<x, g>> \notin doubtful /\ stateFiles'[x][g] = stateFiles[x][g]
      BY <2>3, <1>1, <1>2, <1>4
    <3>2. stateFiles[x][g].rev = known.rev[g] BY <2>1, <3>1 DEF KeptIn
    <3> QED BY <3>1, <3>2
  <2> QED BY <2>2, <2>3
<1>5. ASSUME NEW g \in StateNames, ~Holds(a, g)', <<a, g>> \notin doubtful', known'.rev[g] # 0
      PROVE  \E x \in Legacy \ {a} : Holds(x, g)'
  <2>1. ~Holds(a, g) BY <1>1, <1>5
  <2>2. <<a, g>> \notin doubtful BY <1>1, <1>2, <1>5
  <2>3. PICK x \in Legacy \ {a} : Holds(x, g) BY <2>1, <2>2, <1>5 DEF KeptIn
  <2>4. x \in Roots BY Distinct DEF Legacy
  <2> QED BY <2>3, <2>4, <1>1
<1> QED BY <1>4, <1>5 DEF KeptIn

LEMMA TornByWriting ==
    ASSUME TornIsDoubtful, NEW r \in Roots, NEW f \in StateNames, NEW c,
           Written(r, f, c), DoubtStays(r, f),
           c.form = "torn" => <<r, f>> \in doubtful', c.form = "none" => c = NoContent
    PROVE  TornIsDoubtful'
<1> SUFFICES ASSUME NEW s \in Roots, NEW g \in StateNames
             PROVE  /\ stateFiles'[s][g].form = "torn" => <<s, g>> \in doubtful'
                    /\ ~Holds(s, g)' => stateFiles'[s][g] = NoContent
  BY DEF TornIsDoubtful
<1>1. CASE s = r /\ g = f BY <1>1, HeldAfter DEF Written
<1>2. CASE s # r \/ g # f
  <2>1. stateFiles'[s][g] = stateFiles[s][g] /\ (Holds(s, g)' <=> Holds(s, g)) BY <1>2, HeldAfter DEF Written
  <2>2. <<s, g>> \in doubtful => <<s, g>> \in doubtful' BY <1>2 DEF DoubtStays
  <2> QED BY <2>1, <2>2 DEF TornIsDoubtful
<1> QED BY <1>1, <1>2

LEMMA OthersByWriting ==
    ASSUME OthersDoubtful, NEW r, NEW f, DoubtStays(r, f), UNCHANGED <<pointer, override>>,
           override \in {NoRoot, r} \/ doubtful \subseteq doubtful'
    PROVE  OthersDoubtful'
BY DEF OthersDoubtful, DoubtStays, PointedTo

LEMMA SeenByWriting ==
    ASSUME NEW r \in Roots, NEW f \in StateNames, NEW c, Written(r, f, c), DoubtStays(r, f),
           workDir' = workDir, workDir \in Roots, NEW g \in StateNames, Seen(g),
           g = f => c.form # "none" /\ (r = workDir \/ Holds(workDir, f))
    PROVE  Seen(g)'
<1>1. /\ \A s \in Roots, h \in StateNames : s # r \/ h # f => (Holds(s, h)' <=> Holds(s, h))
      /\ Holds(r, f)' <=> c.form # "none"
  BY HeldAfter
<1>2. CASE g = f BY <1>1, <1>2 DEF Seen
<1>3. CASE g # f
  <2>1. \A s \in Roots : Holds(s, g)' <=> Holds(s, g) BY <1>1, <1>3
  <2>2. \A s \in Roots : <<s, g>> \in doubtful => <<s, g>> \in doubtful' BY <1>3 DEF DoubtStays
  <2>3. Legacy \subseteq Roots BY Distinct DEF Legacy
  <2> QED BY <2>1, <2>2, <2>3 DEF Seen
<1> QED BY <1>2, <1>3

\* What is not there and not doubtful, the user does not have.
LEMMA NothingWasThere ==
    ASSUME StateInv, session # "off", workDir = Aim, NEW f \in StateNames, ~ToBeLookedAt(f),
           ~Holds(workDir, f), <<workDir, f>> \notin doubtful
    PROVE  known.rev[f] = 0 /\ \A x \in Legacy \ {workDir} : ~Holds(x, f)
<1>1. \A x \in Legacy \ {workDir} : ~Holds(x, f) BY DEF StateInv, NothingIsMissed, Seen
<1>2. workDir \in Roots BY DefaultIsPlace DEF StateInv
<1>3. KeptIn(workDir) BY <1>2 DEF StateInv, StateIsKept
<1> QED BY <1>1, <1>3 DEF KeptIn

\* What is written leaves what is not about the files.
LEMMA UnwrittenKeeps ==
    ASSUME StateInv, UNCHANGED <<stateFiles, doubtful, pointer, override>>, known'.rev = known.rev
    PROVE  TornIsDoubtful' /\ OthersDoubtful' /\ StateIsKept'
<1>1. TornIsDoubtful' BY DEF StateInv, TornIsDoubtful, Holds
<1>2. OthersDoubtful' BY DEF StateInv, OthersDoubtful, PointedTo
<1>3. \A a \in Roots : KeptIn(a) => KeptIn(a)' BY DEF KeptIn, Holds
<1>4. Aim' = Aim BY DEF Aim
<1>5. StateIsKept' BY <1>3, <1>4 DEF StateInv, StateIsKept
<1> QED BY <1>1, <1>2, <1>5

LEMMA UnwrittenSeen ==
    ASSUME StateInv, UNCHANGED <<stateFiles, doubtful, workDir>>
    PROVE  \A f \in StateNames : Seen(f) => Seen(f)'
BY DEF Seen, Holds

LEMMA UnwrittenSteps ==
    ASSUME StateInv, TypesInv',
           \/ OpenLocation \/ BeginLooking \/ MoveGamesFails \/ FinishFails \/ UNCHANGED locationVars
           \/ \E b \in GameBuilds : InstallGame(b)
           \/ \E r \in Homes : BeginMoving(r)
           \/ \E r \in Locations : Absent(r)
    PROVE  StateInv'
<1>1. UNCHANGED <<stateFiles, doubtful, pointer, override>>
  BY DEF OpenLocation, BeginLooking, MoveGamesFails, FinishFails, InstallGame, BeginMoving, Absent,
         locationVars, onDisk
<1>2. known'.rev = known.rev
  <2>1. BuildsHidden(TRUE) => known'.rev = known.rev BY KnownStays DEF StateInv, TypesInv
  <2>2. ASSUME NEW b \in GameBuilds, InstallGame(b) PROVE known'.rev = known.rev
    BY <2>2 DEF InstallGame, StateInv, TypesInv, LocationTypeOK
  <2> QED
    BY <2>1, <2>2 DEF OpenLocation, BeginLooking, MoveGamesFails, FinishFails, BeginMoving, Absent,
           locationVars
<1>3. TornIsDoubtful' /\ OthersDoubtful' /\ StateIsKept' BY <1>1, <1>2, UnwrittenKeeps
<1>4. NothingIsMissed'
  <2>1. CASE OpenLocation
    <3>1. session' = "files" /\ todo' = StateFiles BY <2>1 DEF OpenLocation, StartOn
    <3>2. StateFiles # <<>> BY DEF StateFiles
    <3> QED BY <3>1, <3>2 DEF NothingIsMissed, ToBeLookedAt
  <2>2. CASE ~OpenLocation
    <3>1. workDir' = workDir /\ (session' # "off" => session # "off")
      BY <2>2 DEF BeginLooking, MoveGamesFails, FinishFails, InstallGame, BeginMoving, Absent,
             locationVars
    <3>2. \A f \in StateNames : Seen(f) => Seen(f)' BY <1>1, <3>1, UnwrittenSeen
    <3>3. \A f \in StateNames : ToBeLookedAt(f) => ToBeLookedAt(f)'
      <4>1. session = "files" => BeginLooking \/ UNCHANGED locationVars
        BY <2>2 DEF MoveGamesFails, FinishFails, InstallGame, BeginMoving, Absent
      <4>2. StateFiles # <<>> BY DEF StateFiles
      <4> QED BY <4>1, <4>2 DEF BeginLooking, ToBeLookedAt, locationVars, starting
    <3> QED BY <3>1, <3>2, <3>3 DEF StateInv, NothingIsMissed
  <2> QED BY <2>1, <2>2
<1>5. DraftIsTrue'
  <2>1. CASE BeginLooking
    <3>1. /\ draft' = [config |-> ConfigAt(workDir), changed |-> FALSE] /\ workDir' = workDir
          /\ workDir \in Roots /\ LocationTypeOK
      BY <2>1, DefaultIsPlace DEF BeginLooking, StateInv, TypesInv
    <3>2. draft'.config = ConfigAt(workDir) BY <3>1
    <3>3. stateFiles[workDir]["config"].form \in {"none", "torn", "whole"}
      BY <3>1, StateFilesAre, ContentOf DEF StateNames
    <3>4. stateFiles[workDir]["config"].form = "none" => stateFiles[workDir]["config"].rev = 0
      BY <3>1, LocationContents DEF StateInv, TornIsDoubtful, Holds, StateNames
    <3> QED BY <1>1, <3>1, <3>2, <3>3, <3>4, ConfigsAreWhole DEF DraftIsTrue
  <2>2. CASE ~BeginLooking
    <3>1. session' = "games" => session = "games" /\ draft' = draft /\ workDir' = workDir
      BY <2>2 DEF OpenLocation, StartOn, MoveGamesFails, FinishFails, BackToWizard, InstallGame,
             BeginMoving, Absent, locationVars, starting
    <3> QED BY <1>1, <3>1 DEF StateInv, DraftIsTrue
  <2> QED BY <2>1, <2>2
<1>6. SwitchedIsTrue'
  <2>1. session' = "switched" => session = "switched" /\ moveTo' = moveTo
    BY DEF OpenLocation, StartOn, BeginLooking, MoveGamesFails, FinishFails, BackToWizard, InstallGame,
           BeginMoving, Absent, locationVars
  <2> QED BY <1>1, <1>2, <2>1 DEF StateInv, SwitchedIsTrue, Holds
<1> QED BY <1>3, <1>4, <1>5, <1>6 DEF StateInv

\* config.json is written back with the revision it was read with.
LEMMA WrittenBack ==
    ASSUME StateInv, session \notin {"off", "files"}, NEW c \in FileContents, c.form = "whole",
           Written(workDir, "config", c), SavedAside("config"), known'.rev = known.rev,
           stateFiles[workDir]["config"].form # "torn" => c.rev = stateFiles[workDir]["config"].rev,
           UNCHANGED <<pointer, override>>
    PROVE  TornIsDoubtful' /\ OthersDoubtful' /\ StateIsKept'
<1>1. workDir \in Roots /\ "config" \in StateNames BY DefaultIsPlace DEF StateInv, StateNames
<1>2. doubtful \subseteq doubtful' /\ DoubtStays(workDir, "config") /\ (Aside => <<workDir, "config">> \in doubtful')
  BY DEF SavedAside, DoubtStays
<1>3. TornIsDoubtful' BY <1>1, <1>2, TornByWriting DEF StateInv
<1>4. OthersDoubtful' BY <1>2, OthersByWriting DEF StateInv
<1>5. Aim' = Aim BY DEF Aim
<1>6. ASSUME NEW a \in Roots, a = Aim PROVE KeptIn(a)'
  <2>1. KeptIn(a) BY <1>6 DEF StateInv, StateIsKept
  <2>2. ASSUME <<workDir, "config">> \notin doubtful' PROVE c.rev = known.rev["config"]
    <3>1. workDir = a /\ <<workDir, "config">> \notin doubtful BY <1>2, <1>6, <2>2 DEF Aside
    <3>2. c.rev = stateFiles[workDir]["config"].rev BY <1>1, <3>1 DEF StateInv, TornIsDoubtful
    <3>3. CASE Holds(workDir, "config") BY <1>1, <2>1, <3>1, <3>2, <3>3 DEF KeptIn
    <3>4. CASE ~Holds(workDir, "config")
      <4>1. stateFiles[workDir]["config"].rev = 0
        BY <1>1, <3>4, LocationContents DEF StateInv, TornIsDoubtful
      <4>2. known.rev["config"] = 0
        BY <1>1, <1>6, <3>1, <3>4, NothingWasThere DEF ToBeLookedAt
      <4> QED BY <3>2, <4>1, <4>2
    <3> QED BY <3>3, <3>4
  <2> QED BY <1>1, <1>2, <2>1, <2>2, KeptByWriting
<1>7. StateIsKept' BY <1>5, <1>6 DEF StateIsKept
<1> QED BY <1>3, <1>4, <1>7

\* A file is torn, or a copy of it that is known to be doubtful is written.
LEMMA WrittenInDoubt ==
    ASSUME StateInv, NEW r \in Roots, NEW f \in StateNames, NEW c \in FileContents, Written(r, f, c),
           doubtful' = doubtful \cup {<<r, f>>}, known'.rev = known.rev, c.form # "none" \/ ~Holds(r, f),
           c.form = "none" => c = NoContent, UNCHANGED <<pointer, override>>
    PROVE  TornIsDoubtful' /\ OthersDoubtful' /\ StateIsKept'
<1>1. DoubtStays(r, f) /\ <<r, f>> \in doubtful' /\ doubtful \subseteq doubtful' BY DEF DoubtStays
<1>2. TornIsDoubtful' BY <1>1, TornByWriting DEF StateInv
<1>3. OthersDoubtful' BY <1>1, OthersByWriting DEF StateInv
<1>4. Aim' = Aim BY DEF Aim
<1>5. \A a \in Roots : KeptIn(a) => KeptIn(a)' BY <1>1, KeptByWriting
<1>6. StateIsKept' BY <1>4, <1>5 DEF StateInv, StateIsKept
<1> QED BY <1>2, <1>3, <1>6

LEMMA SearchKeeps ==
    ASSUME StateInv, TypesInv', session = "games", session' \in {"games", "open", "wizard", "ready"},
           UNCHANGED <<pointer, override, workDir>>, known'.rev = known.rev,
           NEW c \in FileContents, c.form = "whole", c.rev = draft.config.rev,
           NoWrite \/ WriteDraft(c) \/ WriteDraftFails,
           session' = "games" => /\ NoWrite \/ WriteDraftFails
                                 /\ draft'.config.form = "whole" /\ draft'.config.rev = draft.config.rev
    PROVE  StateInv'
<1>1. /\ workDir \in Roots /\ "config" \in StateNames /\ LocationTypeOK
  BY DefaultIsPlace DEF StateInv, TypesInv, StateNames
<1>2. /\ DraftIsTrue /\ NothingIsMissed BY DEF StateInv
<1>3. \A f \in StateNames : Seen(f) BY <1>2 DEF NothingIsMissed, ToBeLookedAt
<1>4. SwitchedIsTrue' BY DEF SwitchedIsTrue
<1>5. CASE UNCHANGED <<stateFiles, doubtful>>
  <2>1. TornIsDoubtful' /\ OthersDoubtful' /\ StateIsKept' BY <1>5, UnwrittenKeeps
  <2>2. NothingIsMissed' BY <1>3, <1>5, UnwrittenSeen DEF NothingIsMissed
  <2>3. DraftIsTrue' BY <1>2, <1>5 DEF DraftIsTrue
  <2> QED BY <2>1, <2>2, <2>3, <1>4 DEF StateInv
<1>6. CASE WriteDraft(c)
  <2>1. stateFiles' = [stateFiles EXCEPT ![workDir]["config"] = c] /\ SavedAside("config")
    BY <1>6 DEF WriteDraft
  <2>2. Written(workDir, "config", c) BY <1>1, <2>1, WrittenHere
  <2>3. TornIsDoubtful' /\ OthersDoubtful' /\ StateIsKept'
    BY <1>2, <2>1, <2>2, WrittenBack DEF DraftIsTrue
  <2>4. DoubtStays(workDir, "config") BY <2>1 DEF SavedAside, DoubtStays
  <2>5. NothingIsMissed' BY <1>1, <1>3, <2>2, <2>4, SeenByWriting DEF NothingIsMissed
  <2>6. CASE session' # "games" BY <2>3, <2>5, <2>6, <1>4 DEF StateInv, DraftIsTrue
  <2>7. CASE session' = "games" /\ NoWrite BY <1>5, <2>7 DEF NoWrite
  <2>8. CASE session' = "games" /\ WriteDraftFails /\ UNCHANGED <<stateFiles, doubtful>> BY <1>5, <2>8
  <2>9. CASE session' = "games" /\ stateFiles' = [stateFiles EXCEPT ![workDir]["config"] = TornContent]
    <3>1. stateFiles'[workDir]["config"] = TornContent
      BY <1>1, <2>9, LocationContents, StateFilesStay
    <3>2. DraftIsTrue' BY <2>9, <3>1, LocationContents DEF DraftIsTrue
    <3> QED BY <2>3, <2>5, <3>2, <1>4 DEF StateInv
  <2> QED BY <2>6, <2>7, <2>8, <2>9 DEF WriteDraftFails
<1>7. CASE /\ stateFiles' = [stateFiles EXCEPT ![workDir]["config"] = TornContent]
           /\ doubtful' = doubtful \cup {<<workDir, "config">>}
  <2>1. Written(workDir, "config", TornContent) /\ TornContent \in FileContents /\ TornContent.form = "torn"
    BY <1>1, <1>7, LocationContents, WrittenHere
  <2>2. TornIsDoubtful' /\ OthersDoubtful' /\ StateIsKept'
    BY <1>1, <1>7, <2>1, WrittenInDoubt
  <2>3. DoubtStays(workDir, "config") BY <1>7 DEF DoubtStays
  <2>4. NothingIsMissed' BY <1>1, <1>3, <2>1, <2>3, SeenByWriting DEF NothingIsMissed
  <2>5. DraftIsTrue' BY <2>1 DEF DraftIsTrue, Written
  <2> QED BY <2>2, <2>4, <2>5, <1>4 DEF StateInv
<1> QED BY <1>5, <1>6, <1>7 DEF NoWrite, WriteDraftFails

LEMMA SearchStepsKeep ==
    ASSUME StateInv, TypesInv', NothingMore \/ GamesMoved \/ GamesKept \/ GamesPassed
    PROVE  StateInv'
<1>1. /\ session = "games" /\ UNCHANGED <<pointer, override, workDir>>
      /\ session' \in {"games", "open", "wizard", "ready"}
      /\ ~GamesPassed => session' # "games"
      /\ LocationTypeOK
  BY DEF NothingMore, GamesMoved, GamesKept, GamesPassed, SearchEnds, StateInv, TypesInv
<1>2. draft.config \in FileContents /\ draft.config.form = "whole"
  BY <1>1, DraftIsTyped DEF StateInv, DraftIsTrue
<1>3. \A hidden \in BOOLEAN : BuildsHidden(hidden) => known'.rev = known.rev BY <1>1, KnownStays
<1>4. known'.rev = known.rev
  <2>1. NothingMore \/ GamesKept \/ GamesPassed => known'.rev = known.rev
    BY <1>3 DEF NothingMore, GamesKept, GamesPassed, WriteDraftFails
  <2>2. GamesMoved => known'.rev = known.rev
    <3> DEFINE hidden == \/ FirstCandidate.at = gameDir
                         \/ /\ gameFiles[DefaultGames(workDir)] # {}
                            /\ ~(gameFiles[FirstCandidate.at] \subseteq gameFiles[DefaultGames(workDir)])
    <3>1. GamesMoved => BuildsHidden(hidden) \/ BuildsHidden(TRUE) BY DEF GamesMoved, WriteDraftFails
    <3>2. hidden \in BOOLEAN OBVIOUS
    <3> HIDE DEF hidden
    <3> QED BY <1>3, <3>1, <3>2
  <2> QED BY <2>1, <2>2
<1>5. CASE NothingMore
  <2>1. NoWrite \/ WriteDraft(draft.config) \/ WriteDraftFails BY <1>5 DEF NothingMore
  <2>2. session' # "games" BY <1>5 DEF NothingMore, SearchEnds
  <2> QED BY <1>1, <1>2, <1>4, <2>1, <2>2, SearchKeeps
<1>6. CASE GamesMoved
  <2> DEFINE c == IF FirstCandidate.kind # "left" THEN WithoutGames(draft.config) ELSE draft.config
  <2>1. NoWrite \/ WriteDraft(c) \/ WriteDraftFails BY <1>6 DEF GamesMoved
  <2>2. c \in FileContents /\ c.form = "whole" /\ c.rev = draft.config.rev BY <1>2, ContentOf
  <2>3. session' # "games" BY <1>6 DEF GamesMoved, SearchEnds
  <2> HIDE DEF c
  <2> QED BY <1>1, <1>4, <2>1, <2>2, <2>3, SearchKeeps
<1>7. CASE GamesKept
  <2> DEFINE c == [draft.config EXCEPT !.games = FirstCandidate.at]
  <2>1. NoWrite \/ WriteDraft(c) BY <1>7 DEF GamesKept
  <2>2. FirstCandidate.at \in GamePlaces BY <1>7, FirstIsCandidate DEF GamesKept, StateInv
  <2>3. c \in FileContents /\ c.form = "whole" /\ c.rev = draft.config.rev
    BY <1>2, <2>2 DEF FileContents
  <2>4. session' # "games" BY <1>7 DEF GamesKept, SearchEnds
  <2> HIDE DEF c
  <2> QED BY <1>1, <1>4, <2>1, <2>3, <2>4, SearchKeeps
<1>8. CASE GamesPassed
  <2>1. NoWrite \/ WriteDraftFails BY <1>8 DEF GamesPassed
  <2>2. draft'.config.form = "whole" /\ draft'.config.rev = draft.config.rev
    <3>1. \/ draft' = [config |-> WithoutGames(draft.config), changed |-> TRUE]
          \/ draft' = draft
          \/ draft' = [draft EXCEPT !.config.games = FirstCandidate.at]
      BY <1>8 DEF GamesPassed
    <3>2. WithoutGames(draft.config).form = "whole" /\ WithoutGames(draft.config).rev = draft.config.rev
      BY <1>2, ContentOf
    <3>3. draft \in [config : FileContents, changed : BOOLEAN] BY <1>1 DEF LocationTypeOK
    <3>4. CASE draft' = [draft EXCEPT !.config.games = FirstCandidate.at]
      <4>1. draft' = [draft EXCEPT !.config = [draft.config EXCEPT !.games = FirstCandidate.at]]
        BY <3>4, Zenon
      <4>2. draft'.config = [draft.config EXCEPT !.games = FirstCandidate.at] BY <3>3, <4>1
      <4>3. \A x : [draft.config EXCEPT !.games = x].form = draft.config.form
                   /\ [draft.config EXCEPT !.games = x].rev = draft.config.rev
        BY <1>2 DEF FileContents
      <4> QED BY <1>2, <4>2, <4>3
    <3> QED BY <1>2, <3>1, <3>2, <3>4
  <2> QED BY <1>1, <1>2, <1>4, <2>1, <2>2, SearchKeeps
<1> QED BY <1>5, <1>6, <1>7, <1>8

LEMMA LookingKeeps == ASSUME StateInv, TypesInv', MigrateFile PROVE StateInv'
<1>1. PICK f \in StateNames :
          /\ FileLookedAt(f)
          /\ todo = StateFiles => f = "config" /\ todo' = <<"records">>
          /\ todo # StateFiles => f = "records" /\ todo' = <<>>
  BY Looking DEF StateInv
<1>2. /\ session = "files" /\ session' = "files" /\ todo # <<>>
      /\ UNCHANGED <<pointer, override, workDir, moveTo, draft>>
  BY DEF MigrateFile
<1>3. workDir \in Roots /\ LocationTypeOK /\ (override # NoRoot => workDir = override)
  BY <1>2, DefaultIsPlace DEF StateInv, TypesInv, SessionKnows
<1>4. \A g \in StateNames : g # f => ToBeLookedAt(g)' \/ Seen(g)
  <2>1. \A s : s = <<"records">> => s # <<>> OBVIOUS
  <2> QED BY <1>1, <1>2, <2>1 DEF StateInv, NothingIsMissed, ToBeLookedAt, StateNames
<1>5. DraftIsTrue' /\ SwitchedIsTrue' BY <1>2 DEF DraftIsTrue, SwitchedIsTrue
<1>6. Aim' = Aim BY <1>2 DEF Aim
<1>7. CASE /\ Holds(workDir, f) \/ \A x \in Legacy \ {workDir} : ~Holds(x, f)
           /\ UNCHANGED <<stateFiles, doubtful, known>>
  <2>1. TornIsDoubtful' /\ OthersDoubtful' /\ StateIsKept' BY <1>2, <1>7, UnwrittenKeeps
  <2>2. Seen(f) BY <1>7 DEF Seen
  <2>3. NothingIsMissed' BY <1>2, <1>4, <1>7, <2>2, UnwrittenSeen DEF NothingIsMissed
  <2> QED BY <1>5, <2>1, <2>3 DEF StateInv
<1>8. CASE /\ ~Holds(workDir, f)
           /\ \E c \in {NoContent, TornContent} : stateFiles' = [stateFiles EXCEPT ![workDir][f] = c]
           /\ doubtful' = doubtful \cup {<<workDir, f>>}
           /\ BuildsHidden(f = "config")
  <2>1. PICK c \in {NoContent, TornContent} : stateFiles' = [stateFiles EXCEPT ![workDir][f] = c] BY <1>8
  <2>2. c \in FileContents /\ (c.form = "none" => c = NoContent) BY LocationContents
  <2>3. Written(workDir, f, c) BY <1>1, <1>3, <2>1, <2>2, WrittenHere
  <2>4. known'.rev = known.rev
    <3> DEFINE hidden == f = "config"
    <3>1. hidden \in BOOLEAN OBVIOUS
    <3> HIDE DEF hidden
    <3> QED BY <1>3, <1>8, <3>1, KnownStays DEF hidden
  <2>5. TornIsDoubtful' /\ OthersDoubtful' /\ StateIsKept'
    BY <1>1, <1>2, <1>3, <1>8, <2>2, <2>3, <2>4, WrittenInDoubt
  <2>6. DoubtStays(workDir, f) BY <1>8 DEF DoubtStays
  <2>7. \A g \in StateNames : g # f /\ Seen(g) => Seen(g)'
    BY <1>1, <1>2, <1>3, <2>3, <2>6, SeenByWriting
  <2>8. Seen(f)' BY <1>2, <1>8 DEF Seen
  <2>9. NothingIsMissed' BY <1>2, <1>4, <2>7, <2>8 DEF NothingIsMissed
  <2> QED BY <1>5, <2>5, <2>9 DEF StateInv
<1>9. CASE /\ ~Holds(workDir, f)
           /\ \E r \in Roots \ {workDir} :
                 /\ Holds(r, f)
                 /\ stateFiles' = [stateFiles EXCEPT ![workDir][f] = stateFiles[r][f]]
                 /\ \/ doubtful' = doubtful \cup {<<workDir, f>>}
                    \/ <<r, f>> \notin doubtful /\ doubtful' = doubtful \ {<<workDir, f>>}
           /\ UNCHANGED known
  <2>1. PICK r \in Roots \ {workDir} :
                 /\ Holds(r, f)
                 /\ stateFiles' = [stateFiles EXCEPT ![workDir][f] = stateFiles[r][f]]
                 /\ \/ doubtful' = doubtful \cup {<<workDir, f>>}
                    \/ <<r, f>> \notin doubtful /\ doubtful' = doubtful \ {<<workDir, f>>}
    BY <1>9
  <2> DEFINE c == stateFiles[r][f]
  <2>2. c \in FileContents /\ c.form # "none" BY <1>1, <1>3, <2>1, StateFilesAre DEF Holds
  <2>3. stateFiles' = [stateFiles EXCEPT ![workDir][f] = c] BY <2>1
  <2>4. c.form = "torn" => <<r, f>> \in doubtful BY <1>1 DEF StateInv, TornIsDoubtful
  <2>5. ASSUME NEW a \in Roots, a = Aim, <<r, f>> \notin doubtful, workDir = a \/ ~Holds(a, f)
        PROVE  c.rev = known.rev[f]
    BY <1>1, <1>9, <2>1, <2>5 DEF StateInv, StateIsKept, KeptIn
  <2> HIDE DEF c
  <2>6. Written(workDir, f, c) BY <1>1, <1>3, <2>2, <2>3, WrittenHere
  <2>7. DoubtStays(workDir, f) BY <2>1 DEF DoubtStays
  <2>8. TornIsDoubtful'
    BY <1>1, <1>3, <2>1, <2>2, <2>4, <2>6, <2>7, TornByWriting DEF StateInv
  <2>9. OthersDoubtful' BY <1>2, <1>3, <2>7, OthersByWriting DEF StateInv
  <2>10. StateIsKept'
    <3> SUFFICES ASSUME NEW a \in Roots, a = Aim PROVE KeptIn(a)' BY <1>6 DEF StateIsKept
    <3>1. KeptIn(a) BY DEF StateInv, StateIsKept
    <3>2. <<workDir, f>> \in doubtful' \/ (workDir = a \/ ~Holds(a, f) => c.rev = known.rev[f])
      BY <2>1, <2>5
    <3>3. known'.rev = known.rev BY <1>9
    <3> QED BY <1>1, <1>3, <2>2, <2>6, <2>7, <3>1, <3>2, <3>3, KeptByWriting
  <2>11. \A g \in StateNames : g # f /\ Seen(g) => Seen(g)'
    BY <1>1, <1>2, <1>3, <2>6, <2>7, SeenByWriting
  <2>12. Seen(f)' BY <1>1, <1>2, <1>3, <2>2, <2>6, HeldAfter DEF Seen
  <2>13. NothingIsMissed' BY <1>2, <1>4, <2>11, <2>12 DEF NothingIsMissed
  <2> QED BY <1>5, <2>8, <2>9, <2>10, <2>13 DEF StateInv
<1> QED BY <1>1, <1>7, <1>8, <1>9 DEF FileLookedAt

LEMMA OpenStoresKeeps == ASSUME StateInv, TypesInv', OpenStores PROVE StateInv'
<1> DEFINE config == ConfigAt(workDir)
           c == [config EXCEPT !.games = NoPlace]
<1>1. /\ session = "open" /\ session' = "files" /\ todo' = StateFiles
      /\ UNCHANGED <<pointer, override, workDir, doubtful>>
      /\ \/ UNCHANGED <<stateFiles, known>>
         \/ /\ config.games # NoPlace
            /\ stateFiles' = [stateFiles EXCEPT ![workDir]["config"] = c]
            /\ BuildsHidden(TRUE)
  BY DEF OpenStores
<1>2. /\ workDir \in Roots /\ LocationTypeOK /\ "config" \in StateNames
  BY <1>1, DefaultIsPlace DEF StateInv, TypesInv, StateNames
<1>3. StateFiles # <<>> BY DEF StateFiles
<1>4. NothingIsMissed' /\ DraftIsTrue' /\ SwitchedIsTrue'
  BY <1>1, <1>3 DEF NothingIsMissed, ToBeLookedAt, DraftIsTrue, SwitchedIsTrue
<1>5. CASE UNCHANGED <<stateFiles, known>>
  BY <1>1, <1>4, <1>5, UnwrittenKeeps DEF StateInv
<1>6. CASE /\ config.games # NoPlace
           /\ stateFiles' = [stateFiles EXCEPT ![workDir]["config"] = c]
           /\ BuildsHidden(TRUE)
  <2>1. /\ stateFiles[workDir]["config"].form = "whole" /\ config = stateFiles[workDir]["config"]
        /\ config \in FileContents
    BY <1>2, <1>6, ConfigsAreWhole
  <2>2. c \in FileContents /\ c.form = "whole" /\ c.rev = stateFiles[workDir]["config"].rev
    BY <2>1 DEF FileContents
  <2> HIDE DEF c, config
  <2>3. Written(workDir, "config", c) BY <1>2, <1>6, <2>2, WrittenHere
  <2>4. DoubtStays(workDir, "config") /\ doubtful \subseteq doubtful' BY <1>1 DEF DoubtStays
  <2>5. known'.rev = known.rev BY <1>2, <1>6, KnownStays
  <2>6. TornIsDoubtful' BY <1>2, <2>2, <2>3, <2>4, TornByWriting DEF StateInv
  <2>7. OthersDoubtful' BY <1>1, <2>4, OthersByWriting DEF StateInv
  <2>8. StateIsKept'
    <3>1. Aim' = Aim BY <1>1 DEF Aim
    <3> SUFFICES ASSUME NEW a \in Roots, a = Aim PROVE KeptIn(a)' BY <3>1 DEF StateIsKept
    <3>2. KeptIn(a) BY DEF StateInv, StateIsKept
    <3>3. <<workDir, "config">> \in doubtful'
          \/ (workDir = a \/ ~Holds(a, "config") => c.rev = known.rev["config"])
      BY <1>1, <1>2, <2>1, <2>2, <3>2 DEF KeptIn, Holds
    <3> QED BY <1>2, <2>2, <2>3, <2>4, <2>5, <3>2, <3>3, KeptByWriting
  <2> QED BY <1>4, <2>6, <2>7, <2>8 DEF StateInv
<1> QED BY <1>1, <1>5, <1>6

\* Somebody saves a file of the session's directory.
LEMMA SavingKeeps ==
    ASSUME StateInv, session # "off", NEW f \in StateNames, NEW c \in FileContents, SaveContent(f, c),
           SavedAside(f), UNCHANGED <<pointer, override, workDir>>,
           Aside => known' = known,
           ~Aside => known'.rev[f] = edits' /\ \A g \in StateNames : g # f => known'.rev[g] = known.rev[g]
    PROVE  /\ TornIsDoubtful' /\ OthersDoubtful' /\ StateIsKept'
           /\ \A g \in StateNames : Seen(g) \/ g = f => Seen(g)'
           /\ \A r \in Roots, g \in StateNames : r # workDir => (Holds(r, g)' <=> Holds(r, g))
<1> DEFINE d == [c EXCEPT !.form = "whole", !.rev = edits']
<1>1. workDir \in Roots /\ LocationTypeOK BY DefaultIsPlace DEF StateInv, TypesInv
<1>2. d \in FileContents /\ edits' \in 1..MaxEdits BY SavesAreTyped DEF StateInv
<1>3. d.form = "whole" /\ d.rev = edits'
  BY DEF FileContents
<1>4. stateFiles' = [stateFiles EXCEPT ![workDir][f] = d] BY DEF SaveContent
<1> HIDE DEF d
<1>5. Written(workDir, f, d) BY <1>1, <1>2, <1>4, WrittenHere
<1>6. /\ DoubtStays(workDir, f) /\ doubtful \subseteq doubtful'
      /\ Aside => doubtful' = doubtful \cup {<<workDir, f>>}
      /\ ~Aside => doubtful' = doubtful
  BY DEF SavedAside, DoubtStays
<1>7. TornIsDoubtful' BY <1>1, <1>3, <1>5, <1>6, TornByWriting DEF StateInv
<1>8. OthersDoubtful' BY <1>6, OthersByWriting DEF StateInv
<1>9. Aim' = Aim BY DEF Aim
<1>10. StateIsKept'
  <2> SUFFICES ASSUME NEW a \in Roots, a = Aim PROVE KeptIn(a)' BY <1>9 DEF StateIsKept
  <2>1. KeptIn(a) BY DEF StateInv, StateIsKept
  <2>2. CASE Aside BY <1>1, <1>3, <1>5, <1>6, <2>1, <2>2, KeptByWriting
  <2>3. CASE ~Aside
    <3>1. workDir = a BY <2>3 DEF Aside
    <3>2. /\ \A s \in Roots, g \in StateNames : g # f =>
                (Holds(s, g)' <=> Holds(s, g)) /\ stateFiles'[s][g] = stateFiles[s][g]
          /\ Holds(a, f)' /\ stateFiles'[a][f] = d
      BY <1>1, <1>3, <1>5, <3>1, HeldAfter DEF Written
    <3>3. ASSUME NEW g \in StateNames, NEW x \in Roots, Holds(x, g)', <<x, g>> \notin doubtful',
                 x = a \/ ~Holds(a, g)'
          PROVE  stateFiles'[x][g].rev = known'.rev[g]
      <4>1. CASE g = f BY <1>3, <2>3, <3>2, <3>3, <4>1
      <4>2. CASE g # f BY <1>6, <2>1, <2>3, <3>2, <3>3, <4>2 DEF KeptIn
      <4> QED BY <4>1, <4>2
    <3>4. ASSUME NEW g \in StateNames, ~Holds(a, g)', <<a, g>> \notin doubtful', known'.rev[g] # 0
          PROVE  \E x \in Legacy \ {a} : Holds(x, g)'
      <4>1. g # f BY <3>2, <3>4
      <4>2. Legacy \subseteq Roots BY Distinct DEF Legacy
      <4> QED BY <1>6, <2>1, <2>3, <3>2, <3>4, <4>1, <4>2 DEF KeptIn
    <3> QED BY <3>3, <3>4 DEF KeptIn
  <2> QED BY <2>2, <2>3
<1>11. ASSUME NEW g \in StateNames, Seen(g) \/ g = f PROVE Seen(g)'
  <2>1. CASE g = f BY <1>1, <1>3, <1>5, <2>1, HeldAfter DEF Seen
  <2>2. CASE g # f BY <1>1, <1>5, <1>6, <1>11, <2>2, SeenByWriting
  <2> QED BY <2>1, <2>2
<1>12. \A r \in Roots, g \in StateNames : r # workDir => (Holds(r, g)' <=> Holds(r, g))
  BY <1>1, <1>5, HeldAfter
<1> QED BY <1>7, <1>8, <1>10, <1>11, <1>12

LEMMA EditKeeps == ASSUME StateInv, TypesInv', NEW f \in StateNames, Edit(f) PROVE StateInv'
<1> DEFINE c == IF f = "config" THEN ConfigAt(workDir) ELSE NoContent
<1>1. /\ session \in {"wizard", "ready", "moving", "switched"} /\ session' = session
      /\ SaveContent(f, c) /\ SavedAside(f)
      /\ known' = IF Aside THEN known ELSE [known EXCEPT !.rev[f] = edits']
      /\ UNCHANGED <<pointer, override, workDir, moveTo>>
  BY DEF Edit
<1>2. /\ c \in FileContents /\ workDir \in Roots /\ LocationTypeOK
  BY <1>1, DefaultIsPlace, ConfigsAreWhole, LocationContents DEF StateInv, TypesInv
<1> HIDE DEF c
<1>3. ~Aside => known'.rev[f] = edits' /\ \A g \in StateNames : g # f => known'.rev[g] = known.rev[g]
  BY <1>1, <1>2 DEF LocationTypeOK
<1>4. /\ TornIsDoubtful' /\ OthersDoubtful' /\ StateIsKept'
      /\ \A g \in StateNames : Seen(g) \/ g = f => Seen(g)'
      /\ \A r \in Roots, g \in StateNames : r # workDir => (Holds(r, g)' <=> Holds(r, g))
  BY <1>1, <1>2, <1>3, SavingKeeps
<1>5. NothingIsMissed' BY <1>1, <1>4 DEF StateInv, NothingIsMissed, ToBeLookedAt
<1>6. DraftIsTrue' BY <1>1 DEF DraftIsTrue
<1>7. SwitchedIsTrue'
  <2> SUFFICES ASSUME session = "switched" PROVE SwitchedIsTrue' BY <1>1 DEF SwitchedIsTrue
  <2>1. override = moveTo /\ moveTo # workDir /\ moveTo \in Roots
    BY Distinct DEF StateInv, TypesInv, SessionKnows
  <2>2. Aside BY <2>1, Distinct DEF Aside, Aim
  <2>3. known' = known /\ doubtful \subseteq doubtful' BY <1>1, <2>2 DEF SavedAside
  <2> QED BY <1>1, <1>4, <2>1, <2>3 DEF StateInv, SwitchedIsTrue
<1> QED BY <1>4, <1>5, <1>6, <1>7 DEF StateInv

LEMMA ChoosingKeeps == ASSUME StateInv, TypesInv', NEW p \in GamePlaces, ChooseGames(p) PROVE StateInv'
<1> DEFINE c == [ConfigAt(workDir) EXCEPT
                   !.games = IF p = DefaultGames(workDir) THEN NoPlace
                             ELSE IF p = Sub(workDir) THEN Relative ELSE p]
<1>1. /\ session = "ready" /\ session' = "files" /\ todo' = StateFiles /\ workDir' = workDir
      /\ SaveContent("config", c) /\ SavedAside("config")
      /\ known' = IF Aside THEN known
                  ELSE [known EXCEPT !.rev["config"] = edits', !.builds = gameFiles[p],
                            !.hidden = pointer # (IF workDir = Standard THEN NoRoot ELSE workDir)]
      /\ UNCHANGED <<pointer, override>>
  BY DEF ChooseGames, StartOn
<1>2. /\ workDir \in Roots /\ LocationTypeOK /\ "config" \in StateNames
  BY <1>1, DefaultIsPlace DEF StateInv, TypesInv, StateNames
<1>3. c \in FileContents
  <2>1. ConfigAt(workDir) \in FileContents BY <1>2, ConfigsAreWhole
  <2> QED BY <2>1 DEF FileContents
<1> HIDE DEF c
<1>4. ~Aside => /\ known'.rev["config"] = edits'
                /\ \A g \in StateNames : g # "config" => known'.rev[g] = known.rev[g]
  BY <1>1, <1>2 DEF LocationTypeOK
<1>5. TornIsDoubtful' /\ OthersDoubtful' /\ StateIsKept'
  BY <1>1, <1>2, <1>3, <1>4, SavingKeeps
<1>6. StateFiles # <<>> BY DEF StateFiles
<1>7. NothingIsMissed' /\ DraftIsTrue' /\ SwitchedIsTrue'
  BY <1>1, <1>6 DEF NothingIsMissed, ToBeLookedAt, DraftIsTrue, SwitchedIsTrue
<1> QED BY <1>5, <1>7 DEF StateInv

LEMMA CopyingKeeps == ASSUME StateInv, TypesInv', CopyStateFile \/ CopyStateFails PROVE StateInv'
<1> DEFINE f == Head(todo)
<1>1. /\ session = "moving" /\ session' \in {"moving", "wizard"}
      /\ todo # <<>> /\ todo \in {<<"records">>, StateFiles}
      /\ UNCHANGED <<pointer, override, workDir, known>>
  BY DEF CopyStateFile, CopyStateFails, BackToWizard, StateInv, TypesInv, LocationTypeOK
<1>2. f \in StateNames
  <2>1. \A s : s = <<"records">> => Head(s) = "records" OBVIOUS
  <2>2. \A s : s = <<"config", "records">> => Head(s) = "config" OBVIOUS
  <2> QED BY <1>1, <2>1, <2>2 DEF StateFiles, StateNames
<1>3. \/ stateFiles' = stateFiles /\ doubtful' = doubtful
      \/ /\ doubtful' = doubtful \cup {<<moveTo, f>>} /\ Holds(workDir, f) /\ ~Holds(moveTo, f)
         /\ \E c \in {stateFiles[workDir][f], TornContent} :
                stateFiles' = [stateFiles EXCEPT ![moveTo][f] = c]
  BY DEF CopyStateFile, CopyStateFails, Lacks
<1> HIDE DEF f
<1>4. workDir \in Roots /\ moveTo \in Roots /\ LocationTypeOK
  BY <1>1, DefaultIsPlace, Distinct DEF StateInv, TypesInv, SessionKnows
<1>5. \A g \in StateNames : Seen(g) BY <1>1 DEF StateInv, NothingIsMissed, ToBeLookedAt
<1>6. DraftIsTrue' /\ SwitchedIsTrue' BY <1>1 DEF DraftIsTrue, SwitchedIsTrue
<1>7. CASE stateFiles' = stateFiles /\ doubtful' = doubtful
  <2>1. TornIsDoubtful' /\ OthersDoubtful' /\ StateIsKept' BY <1>1, <1>7, UnwrittenKeeps
  <2>2. NothingIsMissed' BY <1>1, <1>5, <1>7, UnwrittenSeen DEF NothingIsMissed
  <2> QED BY <1>6, <2>1, <2>2 DEF StateInv
<1>8. CASE /\ doubtful' = doubtful \cup {<<moveTo, f>>} /\ Holds(workDir, f) /\ ~Holds(moveTo, f)
           /\ \E c \in {stateFiles[workDir][f], TornContent} :
                  stateFiles' = [stateFiles EXCEPT ![moveTo][f] = c]
  <2>1. PICK c \in {stateFiles[workDir][f], TornContent} : stateFiles' = [stateFiles EXCEPT ![moveTo][f] = c]
    BY <1>8
  <2>2. c \in FileContents /\ c.form # "none"
    BY <1>2, <1>4, <1>8, <2>1, StateFilesAre, LocationContents DEF Holds
  <2>3. Written(moveTo, f, c) BY <1>2, <1>4, <2>1, <2>2, WrittenHere
  <2>4. TornIsDoubtful' /\ OthersDoubtful' /\ StateIsKept'
    BY <1>1, <1>2, <1>4, <1>8, <2>2, <2>3, WrittenInDoubt
  <2>5. DoubtStays(moveTo, f) BY <1>8 DEF DoubtStays
  <2>6. NothingIsMissed'
    BY <1>1, <1>2, <1>4, <1>5, <1>8, <2>2, <2>3, <2>5, SeenByWriting DEF NothingIsMissed
  <2> QED BY <1>6, <2>4, <2>6 DEF StateInv
<1> QED BY <1>3, <1>7, <1>8

LEMMA StopKeeps == ASSUME StateInv, TypesInv', StopLocation PROVE StateInv'
<1>1. /\ session' = "off" /\ override' = NoRoot
      /\ UNCHANGED <<stateFiles, doubtful, pointer>> /\ BuildsHidden(configFrom # NoRoot)
  BY DEF StopLocation, onDisk
<1>2. known'.rev = known.rev
  <2> DEFINE hidden == configFrom # NoRoot
  <2>1. hidden \in BOOLEAN /\ BuildsHidden(hidden) BY <1>1
  <2> HIDE DEF hidden
  <2> QED BY <2>1, KnownStays DEF StateInv, TypesInv
<1>3. TornIsDoubtful' BY <1>1 DEF StateInv, TornIsDoubtful, Holds
<1>4. OthersDoubtful' BY <1>1 DEF OthersDoubtful
<1>5. StateIsKept'
  <2>1. Aim' = PointedTo BY <1>1 DEF Aim, PointedTo
  <2> SUFFICES ASSUME NEW a \in Roots, a = PointedTo PROVE KeptIn(a)' BY <2>1 DEF StateIsKept
  <2>2. KeptIn(a)
    <3>1. CASE a = Aim BY <3>1 DEF StateInv, StateIsKept
    <3>2. CASE a # Aim
      <4>1. override # NoRoot /\ override # a /\ override = Aim BY <3>2 DEF Aim, PointedTo
      <4>2. \A x \in Roots, f \in StateNames : x # Aim => <<x, f>> \in doubtful
        BY <4>1 DEF StateInv, OthersDoubtful
      <4>3. Aim \in Roots BY AimIs DEF StateInv
      <4>4. KeptIn(Aim) BY <4>3 DEF StateInv, StateIsKept
      <4> QED BY <3>2, <4>2, <4>3, <4>4 DEF KeptIn
    <3> QED BY <3>1, <3>2
  <2> QED BY <1>1, <1>2, <2>2 DEF KeptIn, Holds
<1>6. NothingIsMissed' /\ DraftIsTrue' /\ SwitchedIsTrue'
  BY <1>1 DEF NothingIsMissed, DraftIsTrue, SwitchedIsTrue
<1> QED BY <1>3, <1>4, <1>5, <1>6 DEF StateInv

\* What the pointer turns away from: what was sure stays so only where it agrees with
\* the directory moved to.
LEMMA SwitchingKeeps == ASSUME StateInv, TypesInv', SwitchRoot PROVE StateInv'
<1> DEFINE stale == {f \in StateNames :
                        \/ <<workDir, f>> \in doubtful
                        \/ Holds(workDir, f) /\ ~Holds(moveTo, f)
                        \/ /\ <<moveTo, f>> \in doubtful
                           /\ stateFiles[moveTo][f] # stateFiles[workDir][f]}
           elsewhere == (Roots \ {moveTo}) \X StateNames
           behind == {x \in elsewhere : x[1] # workDir /\ Holds(workDir, x[2]) /\ ~Holds(moveTo, x[2])}
           settled == (doubtful \cap elsewhere) \cup ({moveTo} \X stale) \cup behind
<1>1. /\ session = "moving" /\ session' = "switched" /\ override' = moveTo /\ moveTo # workDir
      /\ UNCHANGED <<stateFiles, workDir, moveTo>>
  BY DEF SwitchRoot
<1>2. /\ moveTo \in Homes /\ moveTo \in Roots /\ workDir \in Roots /\ LocationTypeOK /\ moveTo # NoRoot
  BY <1>1, DefaultIsPlace, Distinct DEF StateInv, TypesInv, SessionKnows
<1>3. \/ /\ pointer' = IF moveTo = Standard THEN NoRoot ELSE moveTo
         /\ doubtful' = IF Aside THEN settled \cup elsewhere ELSE settled
      \/ doubtful' = settled \cup elsewhere
  BY DEF SwitchRoot
<1>4. \A f \in StateNames : known'.rev[f] = IF Holds(moveTo, f) THEN stateFiles[moveTo][f].rev
                                       ELSE IF Aside THEN 0 ELSE known.rev[f]
  <2> DEFINE rev == [f \in StateNames |->
                       IF Holds(moveTo, f) THEN stateFiles[moveTo][f].rev
                       ELSE IF Aside THEN 0 ELSE known.rev[f]]
  <2>1. known' = [known EXCEPT !.rev = rev, !.hidden = TRUE] BY DEF SwitchRoot
  <2>2. known'.rev = rev BY <1>2, <2>1 DEF LocationTypeOK
  <2> QED BY <2>2
<1>5. /\ \A x \in Roots, f \in StateNames : x # moveTo => <<x, f>> \in elsewhere
      /\ \A x \in Roots, f \in StateNames :
            x # moveTo /\ <<x, f>> \in doubtful => <<x, f>> \in settled
      /\ \A f \in StateNames : f \in stale => <<moveTo, f>> \in settled
      /\ \A x \in Roots, f \in StateNames :
            x # moveTo /\ x # workDir /\ Holds(workDir, f) /\ ~Holds(moveTo, f) => <<x, f>> \in settled
  <2>1. \A x \in Roots, f \in StateNames : x # moveTo => <<x, f>> \in elsewhere OBVIOUS
  <2>2. \A x \in Roots, f \in StateNames :
            x # moveTo /\ x # workDir /\ Holds(workDir, f) /\ ~Holds(moveTo, f) => <<x, f>> \in behind
    <3> HIDE DEF elsewhere
    <3>1. \A x, f : <<x, f>>[1] = x /\ <<x, f>>[2] = f OBVIOUS
    <3> QED BY <2>1, <3>1
  <2>3. \A f \in StateNames : f \in stale => <<moveTo, f>> \in {moveTo} \X stale OBVIOUS
  <2> HIDE DEF elsewhere, behind, stale
  <2> QED BY <2>1, <2>2, <2>3
<1>6. \A f \in StateNames : f \in stale <=>
                        \/ <<workDir, f>> \in doubtful
                        \/ Holds(workDir, f) /\ ~Holds(moveTo, f)
                        \/ /\ <<moveTo, f>> \in doubtful
                           /\ stateFiles[moveTo][f] # stateFiles[workDir][f]
  OBVIOUS
<1> HIDE DEF settled, behind, stale, elsewhere
<1>7. \A f \in StateNames : Holds(moveTo, f)' <=> Holds(moveTo, f) BY <1>1 DEF Holds
<1>8. /\ settled \subseteq doubtful'
      /\ Aside => elsewhere \subseteq doubtful'
      /\ pointer' # (IF moveTo = Standard THEN NoRoot ELSE moveTo) => elsewhere \subseteq doubtful'
  BY <1>3
<1>9. TornIsDoubtful'
  <2> SUFFICES ASSUME NEW x \in Roots, NEW f \in StateNames
               PROVE  /\ stateFiles[x][f].form = "torn" => <<x, f>> \in doubtful'
                      /\ ~Holds(x, f) => stateFiles[x][f] = NoContent
    BY <1>1 DEF TornIsDoubtful, Holds
  <2>1. ~Holds(x, f) => stateFiles[x][f] = NoContent BY DEF StateInv, TornIsDoubtful
  <2>2. ASSUME stateFiles[x][f].form = "torn" PROVE <<x, f>> \in doubtful'
    <3>1. <<x, f>> \in doubtful BY <2>2 DEF StateInv, TornIsDoubtful
    <3>2. CASE x # moveTo BY <3>1, <3>2, <1>5, <1>8
    <3>3. CASE x = moveTo
      <4>1. f \in stale
        <5>1. CASE stateFiles[moveTo][f] # stateFiles[workDir][f] BY <1>6, <3>1, <3>3, <5>1
        <5>2. CASE stateFiles[moveTo][f] = stateFiles[workDir][f]
          <6>1. <<workDir, f>> \in doubtful BY <1>2, <2>2, <3>3, <5>2 DEF StateInv, TornIsDoubtful
          <6> QED BY <1>6, <6>1
        <5> QED BY <5>1, <5>2
      <4> QED BY <1>5, <1>8, <3>3, <4>1
    <3> QED BY <3>2, <3>3
  <2> QED BY <2>1, <2>2
<1>10. OthersDoubtful'
  <2> SUFFICES ASSUME override' \notin {NoRoot, PointedTo'}
               PROVE  (Roots \ {moveTo}) \X StateNames \subseteq doubtful'
    BY <1>1 DEF OthersDoubtful
  <2>1. pointer' # (IF moveTo = Standard THEN NoRoot ELSE moveTo)
    BY <1>1, <1>2, Distinct DEF PointedTo
  <2> QED BY <1>8, <2>1 DEF elsewhere
<1>11. ASSUME NEW f \in StateNames, ~Holds(moveTo, f), <<moveTo, f>> \notin doubtful'
       PROVE  known'.rev[f] = 0
  <2>1. CASE Aside BY <1>4, <1>11, <2>1
  <2>2. CASE ~Aside
    <3>1. <<workDir, f>> \notin doubtful /\ ~Holds(workDir, f) BY <1>5, <1>6, <1>8, <1>11
    <3>2. known.rev[f] = 0
      BY <1>1, <2>2, <3>1, NothingWasThere DEF Aside, ToBeLookedAt
    <3> QED BY <1>4, <1>11, <2>2, <3>2
  <2> QED BY <2>1, <2>2
<1>12. StateIsKept'
  <2>1. Aim' = moveTo BY <1>1, <1>2 DEF Aim
  <2> SUFFICES KeptIn(moveTo)' BY <2>1, <1>1 DEF StateIsKept
  <2>2. ASSUME NEW f \in StateNames, NEW x \in Roots, Holds(x, f)', <<x, f>> \notin doubtful',
               x = moveTo \/ ~Holds(moveTo, f)
        PROVE  stateFiles'[x][f].rev = known'.rev[f]
    <3>1. Holds(x, f) BY <1>1, <2>2 DEF Holds
    <3>2. CASE x = moveTo BY <1>1, <1>4, <3>1, <3>2
    <3>3. CASE x # moveTo
      <4>1. ~Holds(moveTo, f) /\ ~Aside /\ <<x, f>> \notin doubtful BY <1>5, <1>8, <2>2, <3>3
      <4>2. x = workDir \/ ~Holds(workDir, f) BY <1>5, <1>8, <2>2, <3>3, <4>1
      <4>3. KeptIn(workDir) BY <1>2, <4>1 DEF Aside, StateInv, StateIsKept
      <4>4. stateFiles[x][f].rev = known.rev[f] BY <3>1, <4>1, <4>2, <4>3 DEF KeptIn
      <4> QED BY <1>1, <1>4, <4>1, <4>4
    <3> QED BY <3>2, <3>3
  <2> QED BY <1>1, <1>7, <1>11, <2>2 DEF KeptIn
<1>13. NothingIsMissed'
  <2>1. \A f \in StateNames : Seen(f) BY <1>1 DEF StateInv, NothingIsMissed, ToBeLookedAt
  <2>2. \A f \in StateNames : <<workDir, f>> \in doubtful => <<workDir, f>> \in doubtful'
    BY <1>1, <1>2, <1>5, <1>8
  <2>3. \A f \in StateNames : Seen(f)' BY <1>1, <2>1, <2>2 DEF Seen, Holds
  <2> QED BY <2>3 DEF NothingIsMissed
<1>14. DraftIsTrue' BY <1>1 DEF DraftIsTrue
<1>15. SwitchedIsTrue' BY <1>1, <1>7, <1>11 DEF SwitchedIsTrue
<1> QED BY <1>9, <1>10, <1>12, <1>13, <1>14, <1>15 DEF StateInv

LEMMA FinishingKeeps == ASSUME StateInv, TypesInv', FinishMoving PROVE StateInv'
<1> DEFINE c == [ConfigAt(moveTo) EXCEPT !.games = NoPlace, !.done = TRUE]
<1>1. /\ session = "switched" \/ (session = "moving" /\ moveTo = workDir)
      /\ stateFiles' = [stateFiles EXCEPT ![moveTo]["config"] = c]
      /\ known' = IF moveTo = workDir /\ Aside THEN known
                  ELSE [known EXCEPT !.builds = gameFiles[DefaultGames(moveTo)],
                            !.hidden = pointer # (IF moveTo = Standard THEN NoRoot ELSE moveTo)]
      /\ session' = "files" /\ todo' = StateFiles
      /\ IF moveTo = workDir THEN SavedAside("config") ELSE UNCHANGED doubtful
      /\ UNCHANGED <<pointer, override>>
  BY DEF FinishMoving, StartOn
<1>2. /\ moveTo \in Roots /\ workDir \in Roots /\ LocationTypeOK /\ "config" \in StateNames
      /\ session = "switched" => moveTo = override /\ moveTo # workDir /\ moveTo # NoRoot
  BY <1>1, DefaultIsPlace, Distinct DEF StateInv, TypesInv, SessionKnows, StateNames
<1>3. ConfigAt(moveTo) \in FileContents /\ ConfigAt(moveTo).form = "whole" BY <1>2, ConfigsAreWhole
<1>4. /\ c \in FileContents /\ c.form = "whole" /\ c.rev = ConfigAt(moveTo).rev
  BY <1>3 DEF FileContents
<1>5. stateFiles[moveTo]["config"].form # "torn" => c.rev = stateFiles[moveTo]["config"].rev
  <2>1. stateFiles[moveTo]["config"].form \in {"none", "torn", "whole"}
    BY <1>2, StateFilesAre, ContentOf
  <2>2. stateFiles[moveTo]["config"].form = "none" => stateFiles[moveTo]["config"].rev = 0
    BY <1>2, LocationContents DEF StateInv, TornIsDoubtful, Holds
  <2> QED BY <1>2, <1>4, <2>1, <2>2, ConfigsAreWhole
<1> HIDE DEF c
<1>6. Written(moveTo, "config", c) BY <1>1, <1>2, <1>4, WrittenHere
<1>7. known'.rev = known.rev BY <1>1, <1>2 DEF LocationTypeOK
<1>8. StateFiles # <<>> BY DEF StateFiles
<1>9. NothingIsMissed' /\ DraftIsTrue' /\ SwitchedIsTrue'
  BY <1>1, <1>8 DEF NothingIsMissed, ToBeLookedAt, DraftIsTrue, SwitchedIsTrue
<1>10. CASE session = "moving"
  <2>1. moveTo = workDir /\ SavedAside("config") BY <1>1, <1>10
  <2>2. Written(workDir, "config", c) BY <1>6, <2>1
  <2> QED BY <1>1, <1>4, <1>5, <1>7, <1>9, <1>10, <2>1, <2>2, WrittenBack DEF StateInv
<1>11. CASE session = "switched"
  <2>1. moveTo = override /\ moveTo # workDir /\ Aim = moveTo /\ doubtful' = doubtful
    BY <1>1, <1>2, <1>11 DEF Aim
  <2>2. DoubtStays(moveTo, "config") /\ doubtful \subseteq doubtful' BY <2>1 DEF DoubtStays
  <2>3. TornIsDoubtful' BY <1>2, <1>4, <1>6, <2>2, TornByWriting DEF StateInv
  <2>4. OthersDoubtful' BY <1>1, <2>2, OthersByWriting DEF StateInv
  <2>5. Aim' = Aim BY <1>1 DEF Aim
  <2>6. KeptIn(moveTo) BY <1>2, <2>1 DEF StateInv, StateIsKept
  <2>7. ASSUME <<moveTo, "config">> \notin doubtful PROVE c.rev = known.rev["config"]
    <3>1. c.rev = stateFiles[moveTo]["config"].rev BY <1>2, <1>5, <2>7 DEF StateInv, TornIsDoubtful
    <3>2. CASE Holds(moveTo, "config") BY <1>2, <2>6, <2>7, <3>1, <3>2 DEF KeptIn
    <3>3. CASE ~Holds(moveTo, "config")
      <4>1. stateFiles[moveTo]["config"].rev = 0
        BY <1>2, <3>3, LocationContents DEF StateInv, TornIsDoubtful
      <4>2. known.rev["config"] = 0 BY <1>2, <1>11, <2>7, <3>3 DEF StateInv, SwitchedIsTrue
      <4> QED BY <3>1, <4>1, <4>2
    <3> QED BY <3>2, <3>3
  <2>8. ASSUME NEW a \in Roots, a = moveTo PROVE KeptIn(a)'
    BY <1>2, <1>4, <1>6, <1>7, <2>1, <2>2, <2>6, <2>7, <2>8, KeptByWriting
  <2>9. StateIsKept' BY <2>1, <2>5, <2>8 DEF StateIsKept
  <2> QED BY <1>9, <2>3, <2>4, <2>9 DEF StateInv
<1> QED BY <1>1, <1>10, <1>11

LEMMA StateStep == ASSUME StateInv, [LocationNext]_locationVars PROVE StateInv'
<1>1. TypesInv' BY LocationTypesStay DEF StateInv
<1> QED
  BY <1>1, UnwrittenSteps, SearchStepsKeep, LookingKeeps, OpenStoresKeeps, EditKeeps, ChoosingKeeps,
     CopyingKeeps, StopKeeps, SwitchingKeeps, FinishingKeeps
  DEF LocationNext

LEMMA StateInitially == LocationInit => StateInv
<1> SUFFICES ASSUME LocationInit PROVE StateInv OBVIOUS
<1>1. TypesInv BY Initially
<1>2. session = "off" /\ pointer = NoRoot /\ override = NoRoot /\ doubtful = {} BY DEF LocationInit
<1>3. PICK home \in {NoRoot, Standard, "data", "beside"},
           games \in {NoPlace, Relative} \cup {Own(r) : r \in Locations} :
          LET at == IF games \notin {NoPlace, Relative} THEN games
                    ELSE IF home = Standard /\ games = NoPlace THEN Own("data") ELSE Sub(home)
              filled(f) == [form |-> "whole", rev |-> 1, done |-> FALSE,
                            games |-> IF f = "config" THEN games ELSE NoPlace]
          IN  /\ home = NoRoot => games = NoPlace
              /\ stateFiles = [r \in Roots |-> [f \in StateNames |->
                                  IF r = home THEN filled(f) ELSE NoContent]]
              /\ gameFiles = [p \in GamePlaces |-> IF p = at THEN GameBuilds ELSE {}]
              /\ known = [rev |-> [f \in StateNames |-> IF home = NoRoot THEN 0 ELSE 1],
                          builds |-> IF home = NoRoot THEN {} ELSE GameBuilds, hidden |-> FALSE]
  BY DEF LocationInit
<1>4. \A r \in Roots, f \in StateNames :
         /\ r = home => stateFiles[r][f].form = "whole" /\ stateFiles[r][f].rev = 1
         /\ r # home => stateFiles[r][f] = NoContent
         /\ known.rev[f] = IF home = NoRoot THEN 0 ELSE 1
  BY <1>3
<1>5. \A r \in Roots, f \in StateNames : Holds(r, f) <=> r = home
  BY <1>4, LocationContents DEF Holds
<1>6. TornIsDoubtful BY <1>4, <1>5, LocationContents DEF TornIsDoubtful
<1>7. OthersDoubtful BY <1>2 DEF OthersDoubtful
<1>8. home \in Legacy \cup {NoRoot} /\ NoRoot \notin Roots /\ Legacy \subseteq Roots
  BY Distinct DEF Legacy
<1>9. \A a \in Roots : KeptIn(a) BY <1>4, <1>5, <1>8 DEF KeptIn
<1>10. StateIsKept BY <1>9 DEF StateIsKept
<1>11. NothingIsMissed /\ DraftIsTrue /\ SwitchedIsTrue
  BY <1>2 DEF NothingIsMissed, DraftIsTrue, SwitchedIsTrue
<1> QED BY <1>1, <1>6, <1>7, <1>10, <1>11 DEF StateInv

LEMMA FollowedNow == StateInv => StateIsFollowed
<1> SUFFICES ASSUME StateInv, session \in {"wizard", "ready"}, ~Aside, NEW f \in StateNames,
                    <<workDir, f>> \notin doubtful
             PROVE  stateFiles[workDir][f].form # "torn" /\ stateFiles[workDir][f].rev = known.rev[f]
  BY DEF StateIsFollowed, InUse
<1>1. workDir \in Roots /\ workDir = Aim BY DefaultIsPlace DEF StateInv, Aside
<1>2. stateFiles[workDir][f].form # "torn" BY <1>1 DEF StateInv, TornIsDoubtful
<1>3. CASE Holds(workDir, f)
  BY <1>1, <1>2, <1>3 DEF StateInv, StateIsKept, KeptIn
<1>4. CASE ~Holds(workDir, f)
  <2>1. known.rev[f] = 0 BY <1>1, <1>4, NothingWasThere DEF ToBeLookedAt
  <2>2. stateFiles[workDir][f].rev = 0 BY <1>1, <1>4, LocationContents DEF StateInv, TornIsDoubtful
  <2> QED BY <1>2, <2>1, <2>2
<1> QED BY <1>3, <1>4

LEMMA OneIsWritten ==
    ASSUME NEW r \in Roots, NEW f \in StateNames, NEW c, Written(r, f, c),
           \/ stateFiles[r][f].form = "whole" => c.rev = stateFiles[r][f].rev
           \/ r = workDir /\ (edits' > edits \/ (f = "config" /\ troubles' > troubles))
    PROVE  StateIsNotReplaced
BY DEF StateIsNotReplaced, Written

\* config.json at r is written anew.
LEMMA ConfigIsWritten ==
    ASSUME StateInv, NEW r \in Roots, NEW c \in FileContents,
           stateFiles' = [stateFiles EXCEPT ![r]["config"] = c],
           \/ stateFiles[r]["config"].form = "whole" => c.rev = stateFiles[r]["config"].rev
           \/ r = workDir /\ (edits' > edits \/ troubles' > troubles)
    PROVE  StateIsNotReplaced
<1>1. "config" \in StateNames BY DEF StateNames
<1>2. LocationTypeOK BY DEF StateInv, TypesInv
<1>3. Written(r, "config", c) BY <1>1, <1>2, WrittenHere
<1> QED BY <1>1, <1>3, OneIsWritten

LEMMA SearchReplacesNothing ==
    ASSUME StateInv, session = "games", NEW c \in FileContents, c.rev = draft.config.rev,
           NoWrite \/ WriteDraft(c) \/ WriteDraftFails
    PROVE  StateIsNotReplaced
<1>1. workDir \in Roots /\ LocationTypeOK BY DefaultIsPlace DEF StateInv, TypesInv
<1>2. CASE UNCHANGED stateFiles BY <1>2 DEF StateIsNotReplaced
<1>3. CASE WriteDraft(c)
  <2>1. stateFiles[workDir]["config"].form = "whole" => c.rev = stateFiles[workDir]["config"].rev
    BY DEF StateInv, DraftIsTrue
  <2> QED BY <1>1, <1>3, <2>1, ConfigIsWritten DEF WriteDraft
<1>4. CASE WriteDraftFails /\ stateFiles' = [stateFiles EXCEPT ![workDir]["config"] = TornContent]
  <2>1. troubles' > troubles BY <1>1, <1>4, LocationAssumption DEF WriteDraftFails, LocationTypeOK
  <2> QED BY <1>1, <1>4, <2>1, LocationContents, ConfigIsWritten
<1> QED BY <1>2, <1>3, <1>4 DEF NoWrite, WriteDraftFails

LEMMA NothingIsReplaced == ASSUME StateInv, [LocationNext]_locationVars PROVE StateIsNotReplaced
<1>0. LocationTypeOK BY DEF StateInv, TypesInv
<1>1. CASE UNCHANGED stateFiles BY <1>1 DEF StateIsNotReplaced
<1>2. CASE NothingMore \/ GamesMoved \/ GamesKept \/ GamesPassed
  <2>1. session = "games" BY <1>2 DEF NothingMore, GamesMoved, GamesKept, GamesPassed
  <2>2. draft.config \in FileContents BY <2>1, DraftIsTyped DEF StateInv
  <2>3. /\ WithoutGames(draft.config) \in FileContents
        /\ WithoutGames(draft.config).rev = draft.config.rev
    BY <2>2, ContentOf
  <2>4. CASE GamesKept
    <3> DEFINE c == [draft.config EXCEPT !.games = FirstCandidate.at]
    <3>1. NoWrite \/ WriteDraft(c) BY <2>4 DEF GamesKept
    <3>2. FirstCandidate.at \in GamePlaces BY <2>4, FirstIsCandidate DEF GamesKept, StateInv
    <3>3. c \in FileContents /\ c.rev = draft.config.rev BY <2>2, <3>2 DEF FileContents
    <3> HIDE DEF c
    <3> QED BY <2>1, <3>1, <3>3, SearchReplacesNothing
  <2>5. \/ NoWrite \/ WriteDraft(draft.config) \/ WriteDraft(WithoutGames(draft.config))
        \/ WriteDraftFails \/ GamesKept
    BY <1>2 DEF NothingMore, GamesMoved, GamesPassed
  <2> QED BY <2>1, <2>2, <2>3, <2>4, <2>5, SearchReplacesNothing
<1>3. CASE MigrateFile
  <2> DEFINE f == Head(todo)
  <2>1. f \in StateNames /\ FileLookedAt(f) /\ workDir \in Roots
    <3>1. session # "off" BY <1>3 DEF MigrateFile
    <3> QED BY <1>3, <3>1, Looking, DefaultIsPlace DEF StateInv
  <2> HIDE DEF f
  <2>2. CASE UNCHANGED stateFiles BY <1>1, <2>2
  <2>3. CASE /\ ~Holds(workDir, f)
             /\ \E c \in {NoContent, TornContent} : stateFiles' = [stateFiles EXCEPT ![workDir][f] = c]
    <3>1. PICK c \in FileContents : stateFiles' = [stateFiles EXCEPT ![workDir][f] = c]
      BY <2>3, LocationContents
    <3>2. Written(workDir, f, c) BY <1>0, <2>1, <3>1, WrittenHere
    <3>3. stateFiles[workDir][f].form # "whole" BY <2>3 DEF Holds
    <3> QED BY <2>1, <3>2, <3>3, OneIsWritten
  <2>4. CASE /\ ~Holds(workDir, f)
             /\ \E r \in Roots \ {workDir} :
                   stateFiles' = [stateFiles EXCEPT ![workDir][f] = stateFiles[r][f]]
    <3>1. PICK r \in Roots : stateFiles' = [stateFiles EXCEPT ![workDir][f] = stateFiles[r][f]]
      BY <2>4
    <3>2. stateFiles[r][f] \in FileContents BY <1>0, <2>1, StateFilesAre
    <3>3. Written(workDir, f, stateFiles[r][f]) BY <1>0, <2>1, <3>1, <3>2, WrittenHere
    <3>4. stateFiles[workDir][f].form # "whole" BY <2>4 DEF Holds
    <3> QED BY <2>1, <3>3, <3>4, OneIsWritten
  <2> QED BY <2>1, <2>2, <2>3, <2>4 DEF FileLookedAt
<1>4. CASE OpenStores
  <2> DEFINE c == [ConfigAt(workDir) EXCEPT !.games = NoPlace]
  <2>1. /\ \/ UNCHANGED stateFiles
           \/ stateFiles' = [stateFiles EXCEPT ![workDir]["config"] = c]
        /\ workDir \in Roots
    BY <1>4, DefaultIsPlace DEF OpenStores, StateInv
  <2>2. ConfigAt(workDir) \in FileContents BY <1>0, <2>1, ConfigsAreWhole
  <2>3. c \in FileContents /\ c.rev = ConfigAt(workDir).rev BY <2>2 DEF FileContents
  <2>4. stateFiles[workDir]["config"].form = "whole" => c.rev = stateFiles[workDir]["config"].rev
    BY <1>0, <2>1, <2>3, ConfigsAreWhole
  <2> HIDE DEF c
  <2> QED BY <1>1, <2>1, <2>3, <2>4, ConfigIsWritten
<1>5. ASSUME session # "off", NEW f \in StateNames, NEW c \in FileContents, SaveContent(f, c)
      PROVE  StateIsNotReplaced
  <2> DEFINE d == [c EXCEPT !.form = "whole", !.rev = edits']
  <2>1. /\ stateFiles' = [stateFiles EXCEPT ![workDir][f] = d] /\ workDir \in Roots
        /\ d \in FileContents /\ edits' = edits + 1
    BY <1>5, SavesAreTyped, DefaultIsPlace DEF SaveContent, StateInv
  <2> HIDE DEF d
  <2>2. Written(workDir, f, d) BY <1>0, <2>1, WrittenHere
  <2>3. edits' > edits BY <1>0, <2>1, LocationAssumption DEF LocationTypeOK
  <2> QED BY <2>1, <2>2, <2>3, OneIsWritten
<1>6. CASE \E f \in StateNames : Edit(f)
  <2>1. PICK f \in StateNames : Edit(f) BY <1>6
  <2> DEFINE c == IF f = "config" THEN ConfigAt(workDir) ELSE NoContent
  <2>2. session # "off" /\ SaveContent(f, c) BY <2>1 DEF Edit
  <2>3. c \in FileContents BY <1>0, <2>2, DefaultIsPlace, ConfigsAreWhole, LocationContents DEF StateInv
  <2> HIDE DEF c
  <2> QED BY <1>5, <2>2, <2>3
<1>7. CASE \E p \in GamePlaces : ChooseGames(p)
  <2>1. PICK p \in GamePlaces : ChooseGames(p) BY <1>7
  <2> DEFINE c == [ConfigAt(workDir) EXCEPT
                     !.games = IF p = DefaultGames(workDir) THEN NoPlace
                               ELSE IF p = Sub(workDir) THEN Relative ELSE p]
  <2>2. session # "off" /\ SaveContent("config", c) BY <2>1 DEF ChooseGames
  <2>3. ConfigAt(workDir) \in FileContents BY <1>0, <2>2, DefaultIsPlace, ConfigsAreWhole DEF StateInv
  <2>4. c \in FileContents BY <2>3 DEF FileContents
  <2>5. "config" \in StateNames BY DEF StateNames
  <2> HIDE DEF c
  <2> QED BY <1>5, <2>2, <2>4, <2>5
<1>8. CASE CopyStateFile \/ CopyStateFails
  <2> DEFINE f == Head(todo)
  <2>1. /\ session = "moving" /\ todo # <<>> /\ todo \in {<<"records">>, StateFiles}
        /\ \/ UNCHANGED stateFiles
           \/ /\ ~Holds(moveTo, f)
              /\ \E c \in {stateFiles[workDir][f], TornContent} :
                    stateFiles' = [stateFiles EXCEPT ![moveTo][f] = c]
    BY <1>0, <1>8 DEF CopyStateFile, CopyStateFails, LocationTypeOK, Lacks
  <2>2. f \in StateNames
    <3>1. \A s : s = <<"records">> => Head(s) = "records" OBVIOUS
    <3>2. \A s : s = <<"config", "records">> => Head(s) = "config" OBVIOUS
    <3> QED BY <2>1, <3>1, <3>2 DEF StateFiles, StateNames
  <2>3. moveTo \in Roots /\ workDir \in Roots
    BY <2>1, Distinct, DefaultIsPlace DEF StateInv, TypesInv, SessionKnows
  <2> HIDE DEF f
  <2>4. CASE UNCHANGED stateFiles BY <1>1, <2>4
  <2>5. CASE /\ ~Holds(moveTo, f)
             /\ \E c \in {stateFiles[workDir][f], TornContent} :
                    stateFiles' = [stateFiles EXCEPT ![moveTo][f] = c]
    <3>1. PICK c \in {stateFiles[workDir][f], TornContent} :
             stateFiles' = [stateFiles EXCEPT ![moveTo][f] = c]
      BY <2>5
    <3>2. c \in FileContents BY <1>0, <2>2, <2>3, <3>1, StateFilesAre, LocationContents
    <3>3. Written(moveTo, f, c) BY <1>0, <2>2, <2>3, <3>1, <3>2, WrittenHere
    <3>4. stateFiles[moveTo][f].form # "whole" BY <2>5 DEF Holds
    <3> QED BY <2>2, <2>3, <3>3, <3>4, OneIsWritten
  <2> QED BY <2>1, <2>4, <2>5
<1>9. CASE FinishMoving
  <2> DEFINE c == [ConfigAt(moveTo) EXCEPT !.games = NoPlace, !.done = TRUE]
  <2>1. /\ stateFiles' = [stateFiles EXCEPT ![moveTo]["config"] = c] /\ moveTo \in Roots
    BY <1>9, Distinct DEF FinishMoving, StateInv, TypesInv, SessionKnows
  <2>2. ConfigAt(moveTo) \in FileContents BY <1>0, <2>1, ConfigsAreWhole
  <2>3. c \in FileContents /\ c.rev = ConfigAt(moveTo).rev BY <2>2 DEF FileContents
  <2>4. stateFiles[moveTo]["config"].form = "whole" => c.rev = stateFiles[moveTo]["config"].rev
    BY <1>0, <2>1, <2>3, ConfigsAreWhole
  <2> HIDE DEF c
  <2> QED BY <2>1, <2>3, <2>4, ConfigIsWritten
<1>10. CASE \/ OpenLocation \/ BeginLooking \/ MoveGamesFails \/ SwitchRoot \/ FinishFails
            \/ StopLocation \/ UNCHANGED locationVars
            \/ \E b \in GameBuilds : InstallGame(b)
            \/ \E r \in Homes : BeginMoving(r)
            \/ \E r \in Locations : Absent(r)
  BY <1>1, <1>10 DEF OpenLocation, BeginLooking, MoveGamesFails, SwitchRoot, FinishFails,
     StopLocation, InstallGame, BeginMoving, Absent, locationVars, onDisk
<1> QED
  BY <1>2, <1>3, <1>4, <1>6, <1>7, <1>8, <1>9, <1>10 DEF LocationNext

\* What config.json of the directory to be worked on says of the builds.
Named == ConfigAt(Aim).games
DefaultPlace == DefaultGames(Aim)
GamesPlace == IF Named = NoPlace THEN DefaultPlace ELSE Resolved(Named, Aim)
Unnamed == Named \in {NoPlace, Relative}
NoGames == Unnamed /\ gameFiles[GamesPlace] = {} /\ gameFiles[DefaultPlace] = {}
Bare == \A x \in Legacy \ {Aim} : gameFiles[GamesOf(x)] = {}
Lefts == {c \in candidates : c.kind = "left"}

\* An older layout holds the builds, in the directory of its config.json or where that
\* file says.
OldLayout(home) ==
    LET config == stateFiles[home]["config"]
    IN  /\ config.form = "whole"
        /\ \A x \in {"data", "beside"} : x # home => ~Holds(x, "config")
        /\ IF config.games \in {NoPlace, Relative}
           THEN /\ known.builds \subseteq gameFiles[Sub(home)]
                /\ \A p \in GamePlaces : p # Sub(home) => gameFiles[p] = {}
           ELSE known.builds \subseteq gameFiles[config.games]
\* No start has looked at it yet.
NotReached(home) ==
    /\ Aim = Standard /\ ~Holds(Standard, "config") /\ OldLayout(home)
    /\ session # "off" => /\ session = "files" /\ again /\ todo = StateFiles
                          /\ gameDir = DefaultPlace
\* A start has its config.json, and comes to its builds.
CarriedAlong(home) ==
    /\ draft = [config |-> ConfigAt(Aim), changed |-> FALSE]
    /\ \A c \in candidates :
          /\ ~c.tried
          /\ \/ c.kind = "relative" /\ c.at = Sub(Standard) /\ c.nr = 1
             \/ c.kind = "carried" /\ c.at = Sub(home) /\ c.root = home /\ c.nr = 2
             \/ c.kind = "left" /\ c.at = Sub(home) /\ c.root = home /\ c.nr > 2
    /\ gameFiles[Sub(home)] # {} => \E c \in candidates :
          c.at = Sub(home) /\ (Named = Relative => c.kind = "carried")
Carrying(home) ==
    /\ Aim = Standard /\ session \in {"files", "games"} /\ again /\ todo # StateFiles
    /\ configFrom = home /\ OldLayout(home) /\ stateFiles[Standard]["config"] = stateFiles[home]["config"]
    /\ Unnamed /\ gameDir = DefaultPlace
    /\ session = "games" => CarriedAlong(home)

\* The search of a session whose builds are where config.json says.
Searching ==
    /\ draft = [config |-> ConfigAt(Aim), changed |-> FALSE]
    /\ \A c \in candidates :
          /\ ~c.tried
          /\ \/ c.kind = "left" /\ gameFiles[c.at] # {} /\ c.nr > 2
             \/ /\ c.kind = (IF Named = Relative THEN "relative" ELSE "absolute")
                /\ c.at = GamesPlace /\ Named # NoPlace /\ c.nr = 1
    /\ candidates # {} /\ candidates = Lefts => NoGames
    /\ NoGames /\ Lefts = {} => Bare
    /\ ~again /\ NoGames => Lefts = {}
\* What a start has found out so far, when nothing older is to be carried along.
InSession ==
    /\ configFrom # NoRoot => ~Unnamed
    /\ again /\ session \in {"files", "games"} => gameDir \in {DefaultPlace, GamesPlace}
    /\ session = "open" /\ Named = NoPlace => gameDir = DefaultPlace
    /\ ~again => gameDir = GamesPlace
    /\ NoGames /\ (session = "open" \/ (session = "files" /\ ~again)) => Bare
    /\ session = "games" => Searching
\* The builds are where config.json says, or where the launcher looks without one.
InPlace ==
    /\ known.builds \subseteq gameFiles[GamesPlace]
    /\ Holds(Aim, "config") \/ (Aim = Standard /\ \A x \in {"data", "beside"} : ~Holds(x, "config"))
Settled == InPlace /\ (session # "off" /\ ~Aside => InSession)

\* The directory to be worked on is the one pointed to, and its config.json is whole.
AimIsSure ==
    /\ override \in {NoRoot, PointedTo}
    /\ session # "off" /\ Aside => override = NoRoot /\ Aim \in away
    /\ stateFiles[Aim]["config"].form # "torn"
Found == AimIsSure /\ (Settled \/ \E home \in {"data", "beside"} : NotReached(home) \/ Carrying(home))
\* What a start knows of the older directories is forgotten when its searches are over.
SearchEnded ==
    /\ session \notin {"files", "games"} => configFrom = NoRoot /\ candidates = {} /\ carried = <<>>
    /\ session = "open" => again
    /\ session \in {"wizard", "ready", "moving", "switched"} => ~again
    /\ session \in {"moving", "switched"} => moveTo \notin away
    /\ session = "ready" => Holds(workDir, "config")
    /\ todo = StateFiles /\ session = "files" => configFrom = NoRoot /\ carried = <<>>
    /\ \A i \in DOMAIN carried : carried[i] \in Legacy \cup {gameDir[1]}
FoundInv == SearchEnded /\ (~known.hidden => Found)

LEMMA PlacesDiffer ==
    /\ \A r, s : Own(r) # Sub(s) /\ (Sub(r) = Sub(s) => r = s) /\ (Own(r) = Own(s) => r = s)
    /\ \A r : Own(r)[1] = r /\ Sub(r)[1] = r /\ Own(r)[2] = "own" /\ Sub(r)[2] = "minecraft"
    /\ NoRoot # Standard /\ NoRoot # "data" /\ NoRoot # "beside" /\ Standard # "data" /\ Standard # "beside"
<1>1. \A r, s : Own(r) # Sub(s) /\ (Sub(r) = Sub(s) => r = s) /\ (Own(r) = Own(s) => r = s)
  BY DEF Own, Sub
<1>2. \A r : Own(r)[1] = r /\ Sub(r)[1] = r /\ Own(r)[2] = "own" /\ Sub(r)[2] = "minecraft"
  BY DEF Own, Sub
<1> QED BY <1>1, <1>2 DEF NoRoot, Standard

\* A step that leaves what config.json says where the session is to work leaves the
\* place of the builds.
LEMMA AimStays ==
    ASSUME UNCHANGED <<pointer, override>> PROVE Aim' = Aim /\ PointedTo' = PointedTo
BY DEF Aim, PointedTo

LEMMA NamesStay ==
    ASSUME Aim' = Aim, stateFiles'[Aim]["config"] = stateFiles[Aim]["config"]
    PROVE  /\ ConfigAt(Aim)' = ConfigAt(Aim)
           /\ Named' = Named /\ DefaultPlace' = DefaultPlace /\ GamesPlace' = GamesPlace
           /\ Unnamed' <=> Unnamed
           /\ Holds(Aim, "config")' <=> Holds(Aim, "config")
<1>1. ConfigAt(Aim)' = ConfigAt(Aim) BY DEF ConfigAt
<1> QED BY <1>1 DEF Named, DefaultPlace, GamesPlace, Unnamed, Holds

LEMMA NamesWritten ==
    ASSUME Aim' = Aim, NEW c, c.form = "whole", stateFiles'[Aim]["config"] = c
    PROVE  /\ ConfigAt(Aim)' = c /\ Named' = c.games /\ DefaultPlace' = DefaultPlace
           /\ GamesPlace' = IF c.games = NoPlace THEN DefaultPlace ELSE Resolved(c.games, Aim)
           /\ Holds(Aim, "config")'
<1>1. ConfigAt(Aim)' = c BY DEF ConfigAt
<1> QED BY <1>1 DEF Named, DefaultPlace, GamesPlace, Holds

LEMMA LegacyRootsOf ==
    \A i \in DOMAIN LegacyRoots : LegacyRoots[i] \in Legacy \cup {gameDir[1]}
<1>1. CASE gameDir[2] = "own"
  <2>1. LegacyRoots = <<gameDir[1], Standard, "data", "beside">> BY <1>1 DEF LegacyRoots
  <2> QED BY <2>1 DEF Legacy
<1>2. CASE gameDir[2] # "own"
  <2>1. LegacyRoots = <<Standard, "data", "beside">> BY <1>2 DEF LegacyRoots
  <2> QED BY <2>1 DEF Legacy
<1> QED BY <1>1, <1>2

\* Where a state file comes from: a legacy directory.
Brought(f) ==
    \/ /\ Holds(workDir, f) \/ \A x \in Legacy \ {workDir} : ~Holds(x, f)
       /\ UNCHANGED <<stateFiles, carried, configFrom, known>>
    \/ /\ \E c \in {NoContent, TornContent} : stateFiles' = [stateFiles EXCEPT ![workDir][f] = c]
       /\ BuildsHidden(f = "config")
       /\ UNCHANGED <<carried, configFrom>>
    \/ /\ ~Holds(workDir, f)
       /\ \E r \in (Legacy \cup {gameDir[1]}) \ {workDir} :
             /\ Holds(r, f)
             /\ stateFiles' = [stateFiles EXCEPT ![workDir][f] = stateFiles[r][f]]
             /\ carried' = Append(carried, r)
             /\ configFrom' = IF f = "config" THEN r ELSE configFrom
       /\ UNCHANGED known

LEMMA BroughtFrom == ASSUME TypesInv, MigrateFile PROVE Brought(Head(todo))
<1> DEFINE f == Head(todo)
           sources == {i \in DOMAIN LegacyRoots : IsLegacyAt(LegacyRoots, i) /\ Holds(LegacyRoots[i], f)}
<1>1. session # "off" BY DEF MigrateFile
<1>2. \/ /\ Holds(workDir, f) \/ sources = {}
         /\ UNCHANGED <<stateFiles, carried, configFrom, known>>
      \/ /\ \E c \in {NoContent, TornContent} : stateFiles' = [stateFiles EXCEPT ![workDir][f] = c]
         /\ BuildsHidden(f = "config")
         /\ UNCHANGED <<carried, configFrom>>
      \/ /\ ~Holds(workDir, f)
         /\ \E i \in sources :
               /\ stateFiles' = [stateFiles EXCEPT ![workDir][f] = stateFiles[LegacyRoots[i]][f]]
               /\ carried' = Append(carried, LegacyRoots[i])
               /\ configFrom' = IF f = "config" THEN LegacyRoots[i] ELSE configFrom
         /\ UNCHANGED known
  BY DEF MigrateFile, Lacks
<1>3. \A i \in sources : LegacyRoots[i] \in (Legacy \cup {gameDir[1]}) \ {workDir} /\ Holds(LegacyRoots[i], f)
  BY LegacyRootsOf DEF IsLegacyAt
<1>4. sources = {} => \A x \in Legacy \ {workDir} : ~Holds(x, f)
  <2> SUFFICES ASSUME sources = {}, NEW x \in Legacy, x # workDir PROVE ~Holds(x, f) OBVIOUS
  <2>1. PICK i \in DOMAIN LegacyRoots : LegacyRoots[i] = x /\ \A j \in 1..(i - 1) : LegacyRoots[j] # x
    BY <1>1, LegacyRootsAre
  <2>2. IsLegacyAt(LegacyRoots, i) BY <2>1 DEF IsLegacyAt
  <2> QED BY <2>1, <2>2
<1> HIDE DEF f, sources
<1>5. Brought(f) BY <1>2, <1>3, <1>4 DEF Brought
<1> QED BY <1>5 DEF f

\* A search that ends over a config.json that says something.
LEMMA SearchLeavesConfig ==
    ASSUME TypesInv', workDir' \in Roots, session' = "ready", again' = again,
           session' = IF again THEN "open" ELSE IF NothingSet' THEN "wizard" ELSE "ready"
    PROVE  Holds(workDir, "config")'
<1>1. ~NothingSet' BY Zenon
<1>2. SUFFICES ASSUME ~Holds(workDir, "config")' PROVE FALSE OBVIOUS
<1>3. ConfigAt(workDir)' = [NoContent EXCEPT !.form = "whole"] BY <1>2 DEF ConfigAt, Holds
<1>4. NothingSet' BY <1>3 DEF NothingSet, NoContent
<1> QED BY <1>1, <1>4

LEMMA SearchEndedStays ==
    ASSUME TypesInv, TypesInv', SearchEnded, [LocationNext]_locationVars
    PROVE  SearchEnded'
<1>1. CASE OpenLocation BY <1>1 DEF OpenLocation, StartOn, SearchEnded
<1>2. CASE MigrateFile
  <2>1. /\ session = "files" /\ session' = "files" /\ todo' # StateFiles
        /\ UNCHANGED <<again, gameDir, workDir>>
    <3>1. <<"records">> # StateFiles /\ <<>> # StateFiles BY DEF StateFiles
    <3>2. todo' # StateFiles
      <4>1. todo = StateFiles \/ todo # StateFiles OBVIOUS
      <4> QED BY <3>1, <4>1, <1>2, Looking
    <3> QED BY <1>2, <3>2 DEF MigrateFile
  <2>2. \A i \in DOMAIN carried' : carried'[i] \in Legacy \cup {gameDir[1]}
    <3>1. carried \in Seq(Roots) BY DEF TypesInv, LocationTypeOK
    <3>2. carried' = carried \/ \E r \in Legacy \cup {gameDir[1]} : carried' = Append(carried, r)
      BY <1>2, BroughtFrom DEF Brought
    <3> QED BY <3>1, <3>2 DEF SearchEnded
  <2> QED BY <2>1, <2>2 DEF SearchEnded
<1>3. CASE BeginLooking BY <1>3 DEF BeginLooking, SearchEnded
<1>4. CASE NothingMore \/ GamesMoved \/ GamesKept
  <2>1. SearchEnds /\ session = "games" BY <1>4 DEF NothingMore, GamesMoved, GamesKept
  <2>2. /\ session' \in {"open", "wizard", "ready"} /\ again' = again /\ carried' = <<>> /\ configFrom' = NoRoot
        /\ candidates' = {} /\ (session' = "open" <=> again')
        /\ session' = IF again THEN "open" ELSE IF NothingSet' THEN "wizard" ELSE "ready"
        /\ workDir' = workDir /\ workDir \in Roots
    BY <2>1, DefaultIsPlace DEF SearchEnds
  <2>3. session' = "ready" => Holds(workDir, "config")' BY <2>2, SearchLeavesConfig, Zenon
  <2> QED BY <2>2, <2>3 DEF SearchEnded
<1>5. CASE MoveGamesFails BY <1>5 DEF MoveGamesFails, SearchEnded
<1>6. CASE GamesPassed BY <1>6 DEF GamesPassed, SearchEnded
<1>7. CASE OpenStores
  BY <1>7 DEF OpenStores, SearchEnded
<1>8. CASE CopyStateFile \/ CopyStateFails BY <1>8 DEF CopyStateFile, CopyStateFails, BackToWizard, SearchEnded
<1>9. CASE SwitchRoot BY <1>9 DEF SwitchRoot, SearchEnded, starting
<1>10. CASE FinishMoving BY <1>10 DEF FinishMoving, StartOn, SearchEnded
<1>11. CASE FinishFails BY <1>11 DEF FinishFails, BackToWizard, SearchEnded
<1>12. CASE StopLocation BY <1>12 DEF StopLocation, SearchEnded
<1>13. ASSUME NEW f \in StateNames, Edit(f) PROVE SearchEnded'
  <2> DEFINE d == IF f = "config" THEN ConfigAt(workDir) ELSE NoContent
             e == [d EXCEPT !.form = "whole", !.rev = edits']
  <2>1. /\ session \in {"wizard", "ready", "moving", "switched"}
        /\ stateFiles' = [stateFiles EXCEPT ![workDir][f] = e]
        /\ UNCHANGED <<away, workDir, gameDir, session, starting, moveTo>>
    BY <1>13 DEF Edit, SaveContent
  <2>2. /\ workDir \in Roots /\ LocationTypeOK BY <2>1, DefaultIsPlace DEF TypesInv
  <2>3. d \in FileContents BY <2>2, ConfigsAreWhole, LocationContents
  <2>4. e.form = "whole"
    <3> HIDE DEF d
    <3> QED BY <2>3 DEF FileContents
  <2>5. Holds(workDir, "config") => Holds(workDir, "config")'
    <3>1. e \in FileContents
      <4>1. SaveContent(f, d) BY <1>13 DEF Edit
      <4> HIDE DEF d
      <4> QED BY <2>1, <2>3, <4>1, SavesAreTyped
    <3> HIDE DEF e
    <3>2. Written(workDir, f, e) BY <2>1, <2>2, <3>1, WrittenHere
    <3> QED BY <2>1, <2>2, <2>4, <3>2 DEF Written, Holds, StateNames
  <2> QED BY <2>1, <2>5 DEF SearchEnded, starting
<1>14. ASSUME NEW p \in GamePlaces, ChooseGames(p) PROVE SearchEnded'
  BY <1>14 DEF ChooseGames, StartOn, SearchEnded
<1>15. ASSUME NEW b \in GameBuilds, InstallGame(b) PROVE SearchEnded'
  BY <1>15 DEF InstallGame, SearchEnded, starting, Holds
<1>16. ASSUME NEW r \in Homes, BeginMoving(r) PROVE SearchEnded'
  BY <1>16 DEF BeginMoving, SearchEnded, onDisk
<1>17. ASSUME NEW r \in Locations, Absent(r) PROVE SearchEnded'
  BY <1>17 DEF Absent, SearchEnded, starting
<1>18. CASE UNCHANGED locationVars BY <1>18 DEF locationVars, onDisk, starting, SearchEnded, Holds
<1> QED
  BY <1>1, <1>2, <1>3, <1>4, <1>5, <1>6, <1>7, <1>8, <1>9, <1>10, <1>11, <1>12, <1>13, <1>14, <1>15,
     <1>16, <1>17, <1>18 DEF LocationNext

\* No step takes builds out of a Minecraft directory.
GamesGrow == \A p \in GamePlaces : gameFiles[p] \subseteq gameFiles'[p]

LEMMA GamesOnlyGrow == ASSUME TypesInv, [LocationNext]_locationVars PROVE GamesGrow
<1>0. gameFiles \in [GamePlaces -> SUBSET GameBuilds] BY DEF TypesInv, LocationTypeOK
<1>1. ASSUME NEW p \in GamePlaces, NEW B \in SUBSET GameBuilds, gameFiles[p] \subseteq B,
             gameFiles' = [gameFiles EXCEPT ![p] = B]
      PROVE  GamesGrow
  BY <1>0, <1>1 DEF GamesGrow
<1>2. CASE gameFiles' = gameFiles BY <1>2 DEF GamesGrow
<1>3. CASE GamesMoved \/ MoveGamesFails
  <2>1. /\ session # "off" /\ candidates # {} BY <1>3 DEF GamesMoved, MoveGamesFails
  <2>2. DefaultGames(workDir) \in GamePlaces /\ FirstCandidate.at \in GamePlaces
    BY <2>1, DefaultIsPlace, FirstIsCandidate
  <2>3. gameFiles' = gameFiles \/
          (gameFiles[DefaultGames(workDir)] = {} /\ \E part \in SUBSET gameFiles[FirstCandidate.at] :
                gameFiles' = [gameFiles EXCEPT ![DefaultGames(workDir)] = part])
    <3> DEFINE home == DefaultGames(workDir)
               at == FirstCandidate.at
    <3>1. GamesMoved => gameFiles' = IF gameFiles[home] = {} THEN [gameFiles EXCEPT ![home] = gameFiles[at]]
                           ELSE gameFiles
      BY DEF GamesMoved
    <3>2. MoveGamesFails => /\ gameFiles[home] = {}
                            /\ \E part \in SUBSET gameFiles[at] : gameFiles' = [gameFiles EXCEPT ![home] = part]
      BY DEF MoveGamesFails
    <3> HIDE DEF home, at
    <3>3. QED BY <1>3, <3>1, <3>2 DEF home, at
  <2> QED BY <1>0, <1>1, <1>2, <2>2, <2>3
<1>4. ASSUME NEW b \in GameBuilds, InstallGame(b) PROVE GamesGrow
  <2>1. gameDir \in GamePlaces BY <1>4 DEF InstallGame, TypesInv, SessionKnows
  <2>2. gameFiles' = [gameFiles EXCEPT ![gameDir] = gameFiles[gameDir] \cup {b}] BY <1>4 DEF InstallGame
  <2>3. gameFiles[gameDir] \cup {b} \in SUBSET GameBuilds BY <1>0, <2>1
  <2> QED BY <1>1, <2>1, <2>2, <2>3
<1>5. \/ gameFiles' = gameFiles \/ GamesMoved \/ MoveGamesFails
      \/ \E b \in GameBuilds : InstallGame(b)
  BY DEF LocationNext, OpenLocation, MigrateFile, BeginLooking, NothingMore, GamesKept, GamesPassed,
         OpenStores, CopyStateFile, CopyStateFails, SwitchRoot, FinishMoving, FinishFails, StopLocation,
         Edit, ChooseGames, BeginMoving, Absent, locationVars, onDisk
<1> QED BY <1>2, <1>3, <1>4, <1>5

LEMMA ElsewhereStays ==
    ASSUME LocationTypeOK, NEW r, NEW f, NEW c, NEW s \in Roots, s # r,
           stateFiles' = [stateFiles EXCEPT ![r][f] = c]
    PROVE  stateFiles'[s] = stateFiles[s]
BY DEF LocationTypeOK

\* While the session is on another directory than the user means, nothing it does
\* is done there.
LEMMA AsideChanges ==
    ASSUME TypesInv, SearchEnded, AimIsSure, Aside, session # "off", [LocationNext]_locationVars,
           ~SwitchRoot, ~StopLocation
    PROVE  /\ UNCHANGED <<pointer, override, away, workDir, known>> /\ session' # "off"
           /\ stateFiles'[Aim] = stateFiles[Aim]
<1>1. override = NoRoot /\ Aim \in away /\ Aim # workDir /\ Aim \in Roots /\ LocationTypeOK
  BY AimIs DEF AimIsSure, Aside, TypesInv
<1>2. \A f, c : stateFiles' = [stateFiles EXCEPT ![workDir][f] = c] => stateFiles'[Aim] = stateFiles[Aim]
  BY <1>1, ElsewhereStays
<1>3. CASE MigrateFile
  <2>1. Brought(Head(todo)) BY <1>3, BroughtFrom
  <2>2. stateFiles'[Aim] = stateFiles[Aim] BY <1>2, <2>1 DEF Brought
  <2>3. known' = known BY <2>1 DEF Brought, BuildsHidden
  <2> QED BY <1>3, <2>2, <2>3 DEF MigrateFile
<1>4. CASE BeginLooking BY <1>4 DEF BeginLooking, onDisk
<1>5. CASE NothingMore \/ GamesMoved \/ GamesKept \/ GamesPassed
  <2>1. NoWrite \/ WriteDraftFails \/ \E c : WriteDraft(c)
    BY <1>5 DEF NothingMore, GamesMoved, GamesKept, GamesPassed
  <2>2. stateFiles'[Aim] = stateFiles[Aim] BY <1>2, <2>1 DEF NoWrite, WriteDraftFails, WriteDraft
  <2>3. known' = known
    BY <1>5 DEF NothingMore, GamesMoved, GamesKept, GamesPassed, BuildsHidden, WriteDraftFails
  <2>4. UNCHANGED <<pointer, override, away, workDir>> /\ session' # "off"
    BY <1>5 DEF NothingMore, GamesMoved, GamesKept, GamesPassed, SearchEnds
  <2> QED BY <2>2, <2>3, <2>4
<1>6. CASE MoveGamesFails BY <1>6 DEF MoveGamesFails, BuildsHidden
<1>7. CASE OpenStores BY <1>2, <1>7 DEF OpenStores, BuildsHidden
<1>8. CASE CopyStateFile \/ CopyStateFails
  <2>1. moveTo # Aim BY <1>1, <1>8 DEF CopyStateFile, CopyStateFails, SearchEnded
  <2>2. \A f, c : stateFiles' = [stateFiles EXCEPT ![moveTo][f] = c] => stateFiles'[Aim] = stateFiles[Aim]
    BY <1>1, <2>1, ElsewhereStays
  <2> QED BY <1>8, <2>2 DEF CopyStateFile, CopyStateFails, BackToWizard
<1>9. CASE FinishMoving
  <2>0. NoRoot \notin Homes BY Distinct
  <2>1. moveTo = workDir BY <1>1, <1>9, <2>0 DEF FinishMoving, TypesInv, SessionKnows
  <2>2. workDir \in Homes BY <1>9, <1>1 DEF TypesInv, SessionKnows
  <2> QED BY <1>1, <1>2, <1>9, <2>1, Distinct DEF FinishMoving, StartOn
<1>10. CASE FinishFails BY <1>10 DEF FinishFails, BackToWizard, onDisk
<1>11. ASSUME NEW f \in StateNames, Edit(f) PROVE
           /\ UNCHANGED <<pointer, override, away, workDir, known>> /\ session' # "off"
           /\ stateFiles'[Aim] = stateFiles[Aim]
  BY <1>2, <1>11 DEF Edit, SaveContent
<1>12. ASSUME NEW p \in GamePlaces, ChooseGames(p) PROVE
           /\ UNCHANGED <<pointer, override, away, workDir, known>> /\ session' # "off"
           /\ stateFiles'[Aim] = stateFiles[Aim]
  BY <1>2, <1>12 DEF ChooseGames, SaveContent, StartOn
<1>13. ASSUME NEW b \in GameBuilds, InstallGame(b) PROVE
           /\ UNCHANGED <<pointer, override, away, workDir, known>> /\ session' # "off"
           /\ stateFiles'[Aim] = stateFiles[Aim]
  BY <1>13 DEF InstallGame
<1>14. ASSUME NEW r \in Homes, BeginMoving(r) PROVE
           /\ UNCHANGED <<pointer, override, away, workDir, known>> /\ session' # "off"
           /\ stateFiles'[Aim] = stateFiles[Aim]
  BY <1>14 DEF BeginMoving, onDisk
<1>15. CASE UNCHANGED locationVars BY <1>15 DEF locationVars, onDisk
<1>16. /\ ~OpenLocation /\ \A r \in Locations : ~Absent(r) BY DEF OpenLocation, Absent
<1> QED
  BY <1>3, <1>4, <1>5, <1>6, <1>7, <1>8, <1>9, <1>10, <1>11, <1>12, <1>13, <1>14, <1>15, <1>16
  DEF LocationNext

\* What is in place stays so where nothing of it is written.
LEMMA InPlaceStays ==
    ASSUME TypesInv, InPlace, GamesGrow, Aim' = Aim,
           stateFiles'[Aim]["config"] = stateFiles[Aim]["config"], known'.builds = known.builds,
           Holds(Aim, "config") \/ \A x \in {"data", "beside"} : Holds(x, "config")' => Holds(x, "config")
    PROVE  InPlace'
<1>1. GamesPlace \in GamePlaces
  <2>1. Aim \in Homes /\ Aim \in Roots BY AimIs
  <2>2. Named \in GamePlaces \cup {NoPlace, Relative}
    BY <2>1, ConfigsAreWhole, ContentOf DEF TypesInv, Named
  <2> QED BY <2>1, <2>2, LocationPlaces DEF GamesPlace, DefaultPlace
<1>2. /\ GamesPlace' = GamesPlace /\ Aim' = Aim /\ (Holds(Aim, "config")' <=> Holds(Aim, "config"))
  BY NamesStay
<1>3. known'.builds \subseteq gameFiles'[GamesPlace] BY <1>1 DEF InPlace, GamesGrow
<1> QED BY <1>2, <1>3 DEF InPlace

LEMMA AsideStep ==
    ASSUME TypesInv, SearchEnded, Found, Aside, session # "off", [LocationNext]_locationVars,
           ~SwitchRoot, ~StopLocation
    PROVE  Found'
<1>1. AimIsSure /\ Aim \in away BY DEF Found, AimIsSure
<1>2. /\ UNCHANGED <<pointer, override, away, workDir, known>> /\ session' # "off"
      /\ stateFiles'[Aim] = stateFiles[Aim]
  BY <1>1, AsideChanges
<1>3. Aim # Standard BY <1>1, Distinct DEF TypesInv, LocationTypeOK
<1>4. InPlace /\ Holds(Aim, "config") BY <1>3 DEF Found, Settled, NotReached, Carrying, InPlace
<1>5. Aim' = Aim /\ PointedTo' = PointedTo BY <1>2, AimStays
<1>6. InPlace' BY <1>2, <1>4, <1>5, GamesOnlyGrow, InPlaceStays
<1>7. Aside' BY <1>2, <1>5 DEF Aside
<1>8. AimIsSure' BY <1>1, <1>2, <1>5, <1>7 DEF AimIsSure
<1> QED BY <1>6, <1>7, <1>8 DEF Found, Settled

LEMMA OldLayoutStays ==
    ASSUME UNCHANGED <<stateFiles, gameFiles, known>> PROVE \A home : OldLayout(home) => OldLayout(home)'
BY DEF OldLayout, Holds

LEMMA StoppingFinds ==
    ASSUME TypesInv, Found, ~known'.hidden, StopLocation
    PROVE  Found'
<1>1. /\ session' = "off" /\ override' = NoRoot /\ UNCHANGED <<stateFiles, gameFiles, pointer, away>>
      /\ BuildsHidden(configFrom # NoRoot)
  BY DEF StopLocation, onDisk
<1>2. known' = known /\ (configFrom = NoRoot \/ Aside)
  <2> DEFINE hidden == configFrom # NoRoot
  <2>1. hidden \in BOOLEAN /\ BuildsHidden(hidden) BY <1>1
  <2>2. LocationTypeOK BY DEF TypesInv
  <2> HIDE DEF hidden
  <2>3. ~(hidden /\ ~Aside) /\ known' = known BY <2>1, <2>2, KnownStays
  <2> QED BY <2>3 DEF hidden
<1>3. Aim' = Aim /\ PointedTo' = PointedTo BY <1>1 DEF Found, AimIsSure, Aim, PointedTo
<1>4. AimIsSure' BY <1>1, <1>3 DEF Found, AimIsSure
<1>5. ASSUME NEW home \in {"data", "beside"} PROVE ~Carrying(home)
  <2>1. Aside => Aim \in away BY DEF Found, AimIsSure, Aside, StopLocation
  <2>2. Standard \notin away BY Distinct DEF TypesInv, LocationTypeOK
  <2>3. home # NoRoot BY PlacesDiffer
  <2> QED BY <1>2, <2>1, <2>2, <2>3 DEF Carrying
<1>6. CASE Settled
  <2>1. gameFiles' = gameFiles => GamesGrow BY DEF GamesGrow
  <2>2. InPlace' BY <1>1, <1>2, <1>3, <1>6, <2>1, InPlaceStays DEF Settled, Holds
  <2> QED BY <1>1, <1>4, <2>2 DEF Found, Settled
<1>7. ASSUME NEW home \in {"data", "beside"}, NotReached(home) PROVE Found'
  <2>1. OldLayout(home)' BY <1>1, <1>2, <1>7, OldLayoutStays DEF NotReached
  <2>2. NotReached(home)' BY <1>1, <1>3, <1>7, <2>1 DEF NotReached, Holds
  <2> QED BY <1>4, <2>2 DEF Found
<1> QED BY <1>5, <1>6, <1>7 DEF Found

LEMMA ClosedFinds ==
    ASSUME TypesInv, SearchEnded, Found, OpenLocation \/ \E r \in Locations : Absent(r)
    PROVE  Found'
<1>1. /\ session = "off" /\ UNCHANGED <<stateFiles, gameFiles, pointer, override, known>>
      /\ UNCHANGED <<configFrom, candidates>> /\ override = NoRoot
  BY DEF OpenLocation, Absent, onDisk, TypesInv, SessionKnows, starting
<1>2. Aim' = Aim /\ PointedTo' = PointedTo /\ PointedTo = Aim BY <1>1, AimStays DEF Aim, PointedTo
<1>3. InPlace => InPlace'
  <2>1. gameFiles' = gameFiles => GamesGrow BY DEF GamesGrow
  <2> QED BY <1>1, <1>2, <2>1, InPlaceStays DEF Holds
<1>4. \A home \in {"data", "beside"} : ~Carrying(home) BY <1>1 DEF Carrying
<1>5. \A home : OldLayout(home) => OldLayout(home)' BY <1>1, OldLayoutStays
<1>6. DefaultPlace' = DefaultPlace BY <1>2 DEF DefaultPlace
<1>7. CASE \E r \in Locations : Absent(r)
  <2>1. session' = "off" BY <1>7 DEF Absent
  <2>2. AimIsSure' BY <1>1, <1>2, <2>1 DEF Found, AimIsSure
  <2>3. Settled => Settled' BY <1>3, <2>1 DEF Settled
  <2>4. \A home \in {"data", "beside"} : NotReached(home) => NotReached(home)'
    BY <1>1, <1>2, <1>5, <2>1 DEF NotReached, Holds
  <2> QED BY <1>4, <2>2, <2>3, <2>4 DEF Found
<1>8. CASE OpenLocation
  <2>1. /\ session' = "files" /\ again' = TRUE /\ todo' = StateFiles /\ away' = away
        /\ workDir' = SelectRoot(pointer) /\ gameDir' = DefaultGames(SelectRoot(pointer))
    BY <1>8 DEF OpenLocation, StartOn
  <2>2. pointer \notin away /\ pointer # NoRoot => SelectRoot(pointer) = Aim BY <1>2 DEF SelectRoot, PointedTo
  <2>3. pointer = NoRoot => SelectRoot(pointer) = Aim BY <1>2 DEF SelectRoot, PointedTo
  <2>4. pointer \in away => Aim = pointer /\ Aim # Standard
    BY <1>2, Distinct DEF PointedTo, TypesInv, LocationTypeOK
  <2>5. Aside' => Aim' \in away' BY <1>2, <2>1, <2>2, <2>3, <2>4 DEF Aside
  <2>6. AimIsSure' BY <1>1, <1>2, <2>5 DEF Found, AimIsSure
  <2>7. ~Aside' => gameDir' = DefaultPlace' BY <2>1 DEF Aside, DefaultPlace
  <2>8. configFrom = NoRoot BY <1>1 DEF SearchEnded
  <2>9. ~Aside' => InSession' BY <1>1, <2>1, <2>7, <2>8 DEF InSession
  <2>10. Settled => Settled' BY <1>3, <2>9 DEF Settled
  <2>11. Aim = Standard => ~Aside' BY <1>2, <2>1, <2>2, <2>3, <2>4 DEF Aside
  <2>12. \A home \in {"data", "beside"} : NotReached(home) => NotReached(home)'
    BY <1>1, <1>2, <1>5, <2>1, <2>7, <2>11 DEF NotReached, Holds
  <2> QED BY <1>4, <2>6, <2>10, <2>12 DEF Found
<1> QED BY <1>7, <1>8

\* The session goes on where it is.
LEMMA HereStays ==
    ASSUME AimIsSure, ~Aside, session # "off", UNCHANGED <<pointer, override, workDir>>,
           stateFiles'[Aim]["config"].form # "torn"
    PROVE  Aim' = Aim /\ ~Aside' /\ AimIsSure' /\ workDir = Aim
<1>1. Aim' = Aim /\ PointedTo' = PointedTo BY AimStays
<1> QED BY <1>1 DEF AimIsSure, Aside

ConfigsSame == \A r \in Roots : stateFiles'[r]["config"] = stateFiles[r]["config"]

LEMMA ConfigsStay ==
    ASSUME TypesInv, ConfigsSame, UNCHANGED <<gameFiles, pointer, override, known>>
    PROVE  /\ Aim' = Aim /\ Named' = Named /\ DefaultPlace' = DefaultPlace /\ GamesPlace' = GamesPlace
           /\ ConfigAt(Aim)' = ConfigAt(Aim)
           /\ (Unnamed' <=> Unnamed) /\ (NoGames' <=> NoGames) /\ (Bare' <=> Bare)
           /\ InPlace => InPlace'
           /\ \A home \in {"data", "beside"} : OldLayout(home) => OldLayout(home)'
           /\ \A r \in Roots : Holds(r, "config")' <=> Holds(r, "config")
<1>1. Aim' = Aim /\ Aim \in Roots BY AimStays, AimIs
<1>2. stateFiles'[Aim]["config"] = stateFiles[Aim]["config"] BY <1>1 DEF ConfigsSame
<1>3. /\ ConfigAt(Aim)' = ConfigAt(Aim)
      /\ Named' = Named /\ DefaultPlace' = DefaultPlace /\ GamesPlace' = GamesPlace
      /\ Unnamed' <=> Unnamed
  BY <1>1, <1>2, NamesStay
<1>4. (NoGames' <=> NoGames) /\ (Bare' <=> Bare) BY <1>1, <1>3 DEF NoGames, Bare, GamesOf
<1>5. \A r \in Roots : Holds(r, "config")' <=> Holds(r, "config") BY DEF ConfigsSame, Holds
<1>6. {"data", "beside"} \subseteq Roots BY Distinct
<1>7. InPlace => InPlace'
  <2>1. GamesGrow BY DEF GamesGrow
  <2> QED BY <1>1, <1>2, <1>5, <1>6, <2>1, InPlaceStays
<1>8. ASSUME NEW home \in {"data", "beside"}, OldLayout(home) PROVE OldLayout(home)'
  <2>1. stateFiles'[home]["config"] = stateFiles[home]["config"] BY <1>6 DEF ConfigsSame
  <2> QED BY <1>5, <1>6, <1>8, <2>1 DEF OldLayout
<1> QED BY <1>1, <1>3, <1>4, <1>5, <1>7, <1>8

LEMMA LookingFinds ==
    ASSUME TypesInv, SearchEnded, Found, ~Aside, ~known'.hidden, MigrateFile
    PROVE  Found'
<1>1. PICK f \in StateNames :
          /\ Brought(f)
          /\ todo = StateFiles => f = "config"
          /\ todo # StateFiles => f = "records"
  BY Looking, BroughtFrom
<1>2. /\ session = "files" /\ session' = "files" /\ todo # <<>>
      /\ UNCHANGED <<gameFiles, pointer, override, workDir, away, again, gameDir, candidates, draft>>
  BY DEF MigrateFile
<1>3. todo' # StateFiles
  <2>1. <<"records">> # StateFiles /\ <<>> # StateFiles BY DEF StateFiles
  <2>2. todo = StateFiles \/ todo # StateFiles OBVIOUS
  <2> QED BY <2>1, <2>2, Looking
<1>4. /\ workDir = Aim /\ Aim \in Roots /\ Aim \in Homes /\ LocationTypeOK /\ AimIsSure
      /\ stateFiles \in [Roots -> [StateNames -> FileContents]]
      /\ "config" \in StateNames
  BY AimIs DEF Aside, Found, TypesInv, LocationTypeOK, StateNames
<1>5. known' = known
  <2>1. CASE BuildsHidden(f = "config") /\ known' # known
    <3> DEFINE hidden == f = "config"
    <3>1. hidden \in BOOLEAN /\ BuildsHidden(hidden) BY <2>1
    <3> HIDE DEF hidden
    <3> QED BY <3>1, <2>1, <1>4, KnownStays
  <2> QED BY <1>1, <2>1 DEF Brought
<1>6. CASE ConfigsSame /\ configFrom' = configFrom
  <2>0. /\ Aim' = Aim /\ Named' = Named /\ DefaultPlace' = DefaultPlace /\ GamesPlace' = GamesPlace
        /\ (Unnamed' <=> Unnamed) /\ (NoGames' <=> NoGames) /\ (Bare' <=> Bare)
        /\ InPlace => InPlace'
        /\ \A home \in {"data", "beside"} : OldLayout(home) => OldLayout(home)'
    BY <1>2, <1>5, <1>6, ConfigsStay
  <2>1. stateFiles'[Aim]["config"].form # "torn" BY <1>4, <1>6 DEF AimIsSure, ConfigsSame
  <2>2. ~Aside' /\ AimIsSure' BY <1>2, <1>4, <2>1, HereStays
  <2>3. Settled => Settled' BY <1>2, <1>6, <2>0 DEF Settled, InSession
  <2>4. ASSUME NEW home \in {"data", "beside"}, Carrying(home) PROVE Carrying(home)'
    <3>1. {"data", "beside", Standard} \subseteq Roots BY Distinct
    <3>2. stateFiles'[home]["config"] = stateFiles[home]["config"]
          /\ stateFiles'[Standard]["config"] = stateFiles[Standard]["config"]
      BY <1>6, <3>1 DEF ConfigsSame
    <3>3. OldLayout(home)' BY <2>0, <2>4 DEF Carrying
    <3> QED BY <1>2, <1>3, <1>6, <2>0, <2>4, <3>2, <3>3 DEF Carrying
  <2>5. ASSUME NEW home \in {"data", "beside"}, NotReached(home) PROVE FALSE
    <3>1. f = "config" /\ workDir = Standard /\ ~Holds(Standard, "config")
      BY <1>1, <1>2, <1>4, <2>5 DEF NotReached
    <3>2. Holds(home, "config") BY <2>5 DEF NotReached, OldLayout, Holds
    <3>3. home # NoRoot /\ home # Standard BY PlacesDiffer
    <3>4. \E x \in Legacy \ {workDir} : Holds(x, f) BY <3>1, <3>2, <3>3 DEF Legacy
    <3>5. configFrom = NoRoot BY <1>2, <2>5 DEF NotReached, SearchEnded
    <3>6. ~Holds(Standard, "config")' BY <1>6, <3>1, Distinct DEF ConfigsSame, Holds
    <3>7. PICK r \in (Legacy \cup {gameDir[1]}) \ {workDir} :
             \/ /\ configFrom' = r /\ Holds(r, f)
                /\ stateFiles' = [stateFiles EXCEPT ![workDir][f] = stateFiles[r][f]]
             \/ BuildsHidden(TRUE)
      BY <1>1, <3>1, <3>4 DEF Brought
    <3>8. CASE BuildsHidden(TRUE) BY <3>8, <1>4, KnownStays
    <3>9. CASE /\ Holds(r, f)
               /\ stateFiles' = [stateFiles EXCEPT ![workDir][f] = stateFiles[r][f]]
      <4>1. stateFiles'[Standard]["config"] = stateFiles[r][f] BY <1>4, <3>1, <3>9
      <4> QED BY <3>6, <3>9, <4>1 DEF Holds
    <3> QED BY <3>7, <3>8, <3>9
  <2> QED BY <2>2, <2>3, <2>4, <2>5 DEF Found
<1>7. CASE f = "records"
  <2>1. PICK c : stateFiles' = stateFiles \/ stateFiles' = [stateFiles EXCEPT ![workDir]["records"] = c]
    BY <1>1, <1>7 DEF Brought
  <2>2. ConfigsSame BY <1>4, <2>1 DEF ConfigsSame
  <2>3. configFrom' = configFrom BY <1>1, <1>7 DEF Brought
  <2> QED BY <1>6, <2>2, <2>3
<1>8. CASE f = "config"
  <2>1. todo = StateFiles /\ configFrom = NoRoot
    <3>1. todo = StateFiles BY <1>1, <1>8
    <3> QED BY <3>1, <1>2 DEF SearchEnded
  <2>2. CASE UNCHANGED <<stateFiles, configFrom>> BY <2>2, <1>6 DEF ConfigsSame
  <2>3. CASE BuildsHidden(TRUE) BY <2>3, <1>4, KnownStays
  <2>4. CASE ~Holds(workDir, "config") /\
             \E r \in (Legacy \cup {gameDir[1]}) \ {workDir} :
                 /\ Holds(r, "config")
                 /\ stateFiles' = [stateFiles EXCEPT ![workDir]["config"] = stateFiles[r]["config"]]
                 /\ configFrom' = r
    <3>1. PICK r \in (Legacy \cup {gameDir[1]}) \ {workDir} :
                 /\ Holds(r, "config")
                 /\ stateFiles' = [stateFiles EXCEPT ![workDir]["config"] = stateFiles[r]["config"]]
                 /\ configFrom' = r
      BY <2>4
    <3>2. ~Holds(Aim, "config") /\ r # Aim BY <1>4, <2>4
    <3>3. Named = NoPlace /\ GamesPlace = DefaultPlace
      BY <1>4, <3>2, ConfigsAreWhole DEF Named, GamesPlace, Holds
    <3>4. Aim = Standard /\ gameDir = DefaultPlace
      BY <1>2, <3>2, <3>3, <2>1 DEF Found, Settled, InPlace, InSession, NotReached, Carrying
    <3>5. gameDir[1] = "data" BY <3>4, PlacesDiffer DEF DefaultPlace, DefaultGames
    <3>6. r \in {"data", "beside"} BY <3>1, <3>2, <3>4, <3>5 DEF Legacy
    <3>7. ~Settled BY <3>1, <3>2, <3>6 DEF Settled, InPlace
    <3>8. PICK home \in {"data", "beside"} : NotReached(home) BY <2>1, <3>7 DEF Found, Carrying
    <3>9. r = home /\ OldLayout(home) /\ again BY <1>2, <3>1, <3>6, <3>8 DEF NotReached, OldLayout
    <3> DEFINE c == stateFiles[home]["config"]
    <3>10. /\ home \in Roots /\ home # Standard /\ home # NoRoot
      BY Distinct, PlacesDiffer
    <3>11. c \in FileContents /\ c.form = "whole" BY <1>4, <3>9, <3>10, StateFilesAre DEF OldLayout
    <3>12. stateFiles' = [stateFiles EXCEPT ![Aim]["config"] = c] BY <1>4, <3>1, <3>9
    <3> HIDE DEF c
    <3>13. Written(Aim, "config", c) BY <1>4, <3>11, <3>12, WrittenHere
    <3>14. stateFiles'[Aim]["config"] = c /\ stateFiles'[home]["config"] = c
           /\ \A x \in Roots : x # Aim => stateFiles'[x]["config"] = stateFiles[x]["config"]
      <4>1. home # Aim BY <3>4, <3>10
      <4> QED BY <1>4, <3>10, <3>13, <4>1 DEF Written, c
    <3>15. Aim' = Aim /\ ~Aside' /\ AimIsSure' BY <1>2, <1>4, <3>11, <3>14, HereStays
    <3>16. /\ Named' = c.games /\ DefaultPlace' = DefaultPlace /\ Holds(Aim, "config")'
           /\ GamesPlace' = IF c.games = NoPlace THEN DefaultPlace ELSE Resolved(c.games, Aim)
      BY <3>11, <3>14, <3>15, NamesWritten
    <3>17. CASE c.games \in {NoPlace, Relative}
      <4>1. OldLayout(home)'
        <5>1. \A x \in {"data", "beside"} : Holds(x, "config")' <=> Holds(x, "config")
          BY <3>4, <3>14, Distinct, PlacesDiffer DEF Holds
        <5>2. /\ stateFiles[home]["config"] = c
              /\ \A x \in {"data", "beside"} : x # home => ~Holds(x, "config")
              /\ known.builds \subseteq gameFiles[Sub(home)]
              /\ \A p \in GamePlaces : p # Sub(home) => gameFiles[p] = {}
          BY <3>9, <3>17 DEF OldLayout, c
        <5> QED BY <1>2, <1>5, <3>11, <3>14, <3>17, <5>1, <5>2 DEF OldLayout
      <4>2. Carrying(home)'
        BY <1>2, <1>3, <3>1, <3>4, <3>9, <3>14, <3>15, <3>16, <3>17, <4>1 DEF Carrying, Unnamed
      <4> QED BY <3>15, <4>2 DEF Found
    <3>18. CASE c.games \notin {NoPlace, Relative}
      <4>1. GamesPlace' = c.games BY <3>16, <3>18 DEF Resolved
      <4>2. known.builds \subseteq gameFiles[c.games] BY <3>9, <3>18 DEF OldLayout, c
      <4>3. InPlace' BY <1>2, <1>5, <3>15, <3>16, <4>1, <4>2 DEF InPlace
      <4>4. ~Unnamed' BY <3>16, <3>18 DEF Unnamed
      <4>5. InSession' BY <1>2, <3>4, <3>9, <3>16, <4>4 DEF InSession, NoGames
      <4> QED BY <3>15, <4>3, <4>5 DEF Found, Settled
    <3> QED BY <3>17, <3>18
  <2> QED BY <1>1, <1>8, <2>2, <2>3, <2>4 DEF Brought
<1> QED BY <1>1, <1>7, <1>8 DEF StateNames

\* The directories the left builds are looked for in, one after the other.
LEMMA RootsAre ==
    ASSUME TypesInv, session # "off", SearchEnded, NEW roots, roots = carried \o LegacyRoots
    PROVE  /\ DOMAIN roots \in SUBSET (Nat \ {0})
           /\ \A i \in DOMAIN roots : /\ roots[i] \in Legacy \cup {gameDir[1]} /\ 1..(i - 1) \subseteq DOMAIN roots
           /\ \A x \in Legacy : \E i \in DOMAIN roots : roots[i] = x
<1>1. carried \in Seq(Roots) /\ LegacyRoots \in Seq(Roots) BY LegacyRootsAre DEF TypesInv, LocationTypeOK
<1> DEFINE m == Len(carried)
           n == Len(LegacyRoots)
<1>2. /\ m \in Nat /\ n \in Nat /\ DOMAIN carried = 1..m /\ DOMAIN LegacyRoots = 1..n
      /\ DOMAIN roots = 1..(m + n)
      /\ \A i \in 1..m : roots[i] = carried[i]
      /\ \A i \in 1..n : roots[m + i] = LegacyRoots[i]
  BY <1>1
<1> HIDE DEF m, n
<1>3. ASSUME NEW i \in DOMAIN roots PROVE roots[i] \in Legacy \cup {gameDir[1]}
  <2>1. CASE i <= m BY <1>2, <2>1 DEF SearchEnded
  <2>2. CASE ~(i <= m)
    <3>1. i - m \in 1..n /\ m + (i - m) = i BY <1>2, <2>2
    <3>2. roots[i] = LegacyRoots[i - m] BY <1>2, <3>1
    <3> QED BY <1>2, <3>1, <3>2, LegacyRootsOf
  <2> QED BY <2>1, <2>2
<1>4. ASSUME NEW x \in Legacy PROVE \E i \in DOMAIN roots : roots[i] = x
  <2>1. PICK i \in 1..n : LegacyRoots[i] = x BY <1>2, LegacyRootsAre
  <2>2. m + i \in DOMAIN roots /\ roots[m + i] = x BY <1>2, <2>1
  <2> QED BY <2>2
<1> QED BY <1>2, <1>3, <1>4

LEMMA LeftsAre ==
    ASSUME TypesInv, session # "off", SearchEnded
    PROVE  \A c \in LeftGames : \E x \in (Legacy \cup {gameDir[1]}) \ {workDir} :
              /\ c.kind = "left" /\ c.nr > 2 /\ ~c.tried /\ c.at = GamesOf(x) /\ c.root = x
              /\ gameFiles[GamesOf(x)] # {} /\ GamesOf(x) # DefaultGames(workDir)
<1> DEFINE roots == carried \o LegacyRoots
           left == {i \in DOMAIN roots :
                    /\ IsLegacyAt(roots, i) /\ gameFiles[GamesOf(roots[i])] # {}
                    /\ GamesOf(roots[i]) # DefaultGames(workDir)}
<1>1. LeftGames = {Candidate(2 + i, "left", GamesOf(roots[i]), roots[i]) : i \in left} BY DEF LeftGames
<1>2. /\ DOMAIN roots \in SUBSET (Nat \ {0})
      /\ \A i \in DOMAIN roots : roots[i] \in Legacy \cup {gameDir[1]}
  BY RootsAre
<1> HIDE DEF roots
<1>3. ASSUME NEW i \in left
      PROVE  LET c == Candidate(2 + i, "left", GamesOf(roots[i]), roots[i]) IN
              /\ roots[i] \in (Legacy \cup {gameDir[1]}) \ {workDir}
              /\ c.kind = "left" /\ c.nr > 2 /\ ~c.tried /\ c.at = GamesOf(roots[i]) /\ c.root = roots[i]
              /\ gameFiles[GamesOf(roots[i])] # {} /\ GamesOf(roots[i]) # DefaultGames(workDir)
  BY <1>2, <1>3 DEF IsLegacyAt, Candidate
<1> HIDE DEF left
<1> QED BY <1>1, <1>3

LEMMA LeftsHave ==
    ASSUME TypesInv, session # "off", SearchEnded, NEW x \in Legacy, x # workDir,
           gameFiles[GamesOf(x)] # {}, GamesOf(x) # DefaultGames(workDir)
    PROVE  LeftGames # {}
<1> DEFINE roots == carried \o LegacyRoots
           left == {i \in DOMAIN roots :
                    /\ IsLegacyAt(roots, i) /\ gameFiles[GamesOf(roots[i])] # {}
                    /\ GamesOf(roots[i]) # DefaultGames(workDir)}
           S == {i \in DOMAIN roots : roots[i] = x}
<1>1. LeftGames = {Candidate(2 + i, "left", GamesOf(roots[i]), roots[i]) : i \in left} BY DEF LeftGames
<1>2. /\ DOMAIN roots \in SUBSET (Nat \ {0})
      /\ \A i \in DOMAIN roots : 1..(i - 1) \subseteq DOMAIN roots
      /\ \E i \in DOMAIN roots : roots[i] = x
  BY RootsAre
<1> HIDE DEF roots
<1>3. S \in SUBSET Nat /\ S # {} BY <1>2
<1>4. PICK i \in S : \A j \in S : i <= j
  <2> HIDE DEF S
  <2> QED BY <1>3, LeastNumber
<1>5. \A j \in 1..(i - 1) : roots[j] # x
  <2>1. i \in Nat BY <1>2
  <2> SUFFICES ASSUME NEW j \in 1..(i - 1), roots[j] = x PROVE FALSE OBVIOUS
  <2>2. j \in S BY <1>2
  <2> QED BY <1>4, <2>1, <2>2
<1>6. IsLegacyAt(roots, i) BY <1>5 DEF IsLegacyAt
<1>7. i \in left BY <1>6
<1> HIDE DEF left
<1> QED BY <1>1, <1>7

\* Where nothing is found, GamesOf names what is empty.
LEMMA DefaultPlaceIs ==
    /\ Aim = Standard => DefaultPlace = Own("data")
    /\ Aim # Standard => DefaultPlace = Sub(Aim)
BY DEF DefaultPlace, DefaultGames

LEMMA GamesPlaceIs ==
    /\ Named = NoPlace => GamesPlace = DefaultPlace
    /\ Named = Relative => GamesPlace = Sub(Aim)
    /\ ~Unnamed => GamesPlace = Named
    /\ Relative # NoPlace
BY LocationPlaces DEF GamesPlace, Resolved, Unnamed

LEMMA SearchBegins ==
    ASSUME TypesInv, SearchEnded, Found, ~Aside, Settled, BeginLooking
    PROVE  Searching'
<1>1. /\ session = "files" /\ workDir = Aim /\ InSession
  BY DEF BeginLooking, Settled, Aside
<1>2. stateFiles' = stateFiles /\ gameFiles' = gameFiles /\ UNCHANGED <<pointer, override, again>>
  BY DEF BeginLooking, onDisk
<1>3. /\ Aim' = Aim /\ Named' = Named /\ GamesPlace' = GamesPlace /\ DefaultPlace' = DefaultPlace
      /\ ConfigAt(Aim)' = ConfigAt(Aim) /\ (Unnamed' <=> Unnamed)
  BY <1>2, AimStays, NamesStay
<1>4. (NoGames' <=> NoGames) /\ (Bare' <=> Bare) BY <1>2, <1>3 DEF NoGames, Bare, GamesOf
<1>5. /\ draft' = [config |-> ConfigAt(Aim), changed |-> FALSE]
      /\ candidates' = IF Named # NoPlace THEN NamedGames(Named) \cup LeftGames
                       ELSE IF gameFiles[DefaultPlace] # {} THEN {} ELSE LeftGames
  BY <1>1 DEF BeginLooking, Found, AimIsSure, Named, DefaultPlace
<1>6. Named # NoPlace =>
         NamedGames(Named) =
             {Candidate(1, IF Named = Relative THEN "relative" ELSE "absolute", GamesPlace,
                        IF Named = Relative THEN workDir ELSE configFrom)}
  BY <1>1, GamesPlaceIs DEF NamedGames, InSession, Unnamed
<1>7. \A c \in LeftGames : c.kind = "left" /\ c.nr > 2 /\ ~c.tried /\ gameFiles[c.at] # {}
  BY <1>1, LeftsAre
<1>8. Named # NoPlace => \A c \in NamedGames(Named) :
          /\ c.kind = (IF Named = Relative THEN "relative" ELSE "absolute")
          /\ c.at = GamesPlace /\ c.nr = 1 /\ ~c.tried
  BY <1>6 DEF Candidate
<1>9. Named # NoPlace => NamedGames(Named) # {} /\ \A c \in NamedGames(Named) : c.kind # "left"
  BY <1>6, <1>8
<1>10. /\ \A c \in candidates' :
            /\ ~c.tried
            /\ \/ c.kind = "left" /\ gameFiles[c.at] # {} /\ c.nr > 2
               \/ /\ c.kind = (IF Named = Relative THEN "relative" ELSE "absolute")
                  /\ c.at = GamesPlace /\ Named # NoPlace /\ c.nr = 1
  BY <1>5, <1>7, <1>8
<1>11. Lefts' = IF Named # NoPlace \/ gameFiles[DefaultPlace] = {} THEN LeftGames ELSE {}
  BY <1>5, <1>7, <1>9 DEF Lefts
<1>12. candidates' # {} /\ candidates' = Lefts' => NoGames
  <2> SUFFICES ASSUME candidates' # {}, candidates' = Lefts' PROVE NoGames OBVIOUS
  <2>1. Named = NoPlace BY <1>5, <1>9 DEF Lefts
  <2>2. gameFiles[DefaultPlace] = {} BY <1>5, <2>1
  <2> QED BY <2>1, <2>2, GamesPlaceIs DEF NoGames, Unnamed
<1>13. NoGames /\ Lefts' = {} => Bare
  <2> SUFFICES ASSUME NoGames, Lefts' = {}, NEW x \in Legacy \ {Aim}, gameFiles[GamesOf(x)] # {}
               PROVE  FALSE
    BY DEF Bare
  <2>1. LeftGames = {} BY <1>11 DEF NoGames
  <2>2. GamesOf(x) # DefaultGames(workDir) BY <1>1 DEF NoGames, DefaultPlace
  <2> QED BY <1>1, <2>1, <2>2, LeftsHave
<1>14. ~again /\ NoGames => Lefts' = {}
  <2> SUFFICES ASSUME ~again, NoGames, NEW c \in LeftGames PROVE FALSE BY <1>11
  <2>1. PICK x \in (Legacy \cup {gameDir[1]}) \ {workDir} : gameFiles[GamesOf(x)] # {}
    BY <1>1, LeftsAre
  <2>2. Bare /\ gameDir = GamesPlace BY <1>1 DEF InSession
  <2>3. x \notin Legacy BY <1>1, <2>1, <2>2 DEF Bare
  <2>4. gameDir \in {Own("data"), Sub(Aim)} BY <2>2, GamesPlaceIs, DefaultPlaceIs DEF NoGames, Unnamed
  <2>5. gameDir[1] \in Legacy \cup {Aim} BY <2>4, PlacesDiffer DEF Legacy
  <2> QED BY <1>1, <2>1, <2>3, <2>5
<1> QED BY <1>2, <1>3, <1>4, <1>5, <1>10, <1>12, <1>13, <1>14 DEF Searching

LEMMA CarryingBegins ==
    ASSUME TypesInv, SearchEnded, AimIsSure, ~Aside, NEW home \in {"data", "beside"}, Carrying(home),
           session = "files", BeginLooking
    PROVE  CarriedAlong(home)'
<1>1. /\ session = "files" /\ workDir = Aim /\ Aim = Standard /\ Unnamed /\ OldLayout(home)
      /\ configFrom = home /\ stateFiles[Standard]["config"] = stateFiles[home]["config"]
      /\ gameDir = DefaultPlace
  BY DEF Carrying, Aside
<1>2. stateFiles' = stateFiles /\ gameFiles' = gameFiles /\ UNCHANGED <<pointer, override, again>>
  BY DEF BeginLooking, onDisk
<1>3. /\ Aim' = Aim /\ Named' = Named /\ ConfigAt(Aim)' = ConfigAt(Aim)
  BY <1>2, AimStays, NamesStay
<1>4. /\ home \in Roots /\ home # NoRoot /\ home # Standard /\ home \in Legacy /\ Standard \in Roots
      /\ Sub(home) \in GamePlaces
  BY Distinct, LocationPlaces, PlacesDiffer DEF Legacy
<1>5. Named = stateFiles[home]["config"].games
  BY <1>1, <1>4, ConfigsAreWhole DEF Named, TypesInv, OldLayout
<1>6. \A p \in GamePlaces : p # Sub(home) => gameFiles[p] = {}
  BY <1>1, <1>5 DEF OldLayout, Unnamed
<1>7. DefaultPlace = Own("data") /\ DefaultPlace \in GamePlaces /\ DefaultPlace # Sub(home)
  BY <1>1, DefaultPlaceIs, LocationPlaces, PlacesDiffer, Distinct
<1>8. /\ draft' = [config |-> ConfigAt(Aim), changed |-> FALSE]
      /\ candidates' = IF Named # NoPlace THEN NamedGames(Named) \cup LeftGames ELSE LeftGames
  BY <1>1, <1>6, <1>7 DEF BeginLooking, AimIsSure, Named, DefaultPlace
<1>9. \A c \in LeftGames : /\ ~c.tried /\ c.kind = "left" /\ c.nr > 2
                           /\ c.at = Sub(home) /\ c.root = home
  <2> SUFFICES ASSUME NEW c \in LeftGames
               PROVE  /\ ~c.tried /\ c.kind = "left" /\ c.nr > 2 /\ c.at = Sub(home) /\ c.root = home
    OBVIOUS
  <2>1. PICK x \in (Legacy \cup {gameDir[1]}) \ {workDir} :
              /\ c.kind = "left" /\ c.nr > 2 /\ ~c.tried /\ c.at = GamesOf(x) /\ c.root = x
              /\ gameFiles[GamesOf(x)] # {}
    BY <1>1, LeftsAre
  <2>2. gameDir[1] = "data" BY <1>1, <1>7, PlacesDiffer
  <2>3. x \in Roots BY <2>1, <2>2, Distinct DEF Legacy
  <2>4. GamesOf(x) = Sub(home) BY <1>6, <2>1, <2>3, LocationPlaces DEF GamesOf
  <2>5. x = home BY <2>4, PlacesDiffer DEF GamesOf
  <2> QED BY <2>1, <2>4, <2>5
<1>10. Named # NoPlace =>
         /\ Named = Relative
         /\ NamedGames(Named) = {Candidate(1, "relative", Sub(Standard), Standard),
                                 Candidate(2, "carried", Sub(home), home)}
  BY <1>1, <1>4 DEF NamedGames, Unnamed
<1>11. Named # NoPlace =>
         /\ Named = Relative
         /\ \A c \in NamedGames(Named) :
              /\ ~c.tried
              /\ \/ c.kind = "relative" /\ c.at = Sub(Standard) /\ c.nr = 1
                 \/ c.kind = "carried" /\ c.at = Sub(home) /\ c.root = home /\ c.nr = 2
         /\ \E c \in NamedGames(Named) : c.at = Sub(home) /\ c.kind = "carried"
  <2> DEFINE c1 == Candidate(1, "relative", Sub(Standard), Standard)
             c2 == Candidate(2, "carried", Sub(home), home)
  <2>1. ~c1.tried /\ c1.kind = "relative" /\ c1.at = Sub(Standard) /\ c1.nr = 1 BY DEF Candidate
  <2>2. ~c2.tried /\ c2.kind = "carried" /\ c2.at = Sub(home) /\ c2.root = home /\ c2.nr = 2 BY DEF Candidate
  <2>3. Named # NoPlace => Named = Relative /\ NamedGames(Named) = {c1, c2} BY <1>10
  <2> HIDE DEF c1, c2
  <2> QED BY <2>1, <2>2, <2>3
<1>12. Named = NoPlace /\ gameFiles[Sub(home)] # {} => \E c \in LeftGames : c.at = Sub(home)
  <2> SUFFICES ASSUME Named = NoPlace, gameFiles[Sub(home)] # {} PROVE \E c \in LeftGames : c.at = Sub(home)
    OBVIOUS
  <2>1. GamesOf(home) = Sub(home) BY DEF GamesOf
  <2>2. LeftGames # {} BY <1>1, <1>4, <1>7, <2>1, LeftsHave DEF DefaultPlace
  <2> QED BY <1>9, <2>2
<1>13. \A c \in candidates' :
          /\ ~c.tried
          /\ \/ c.kind = "relative" /\ c.at = Sub(Standard) /\ c.nr = 1
             \/ c.kind = "carried" /\ c.at = Sub(home) /\ c.root = home /\ c.nr = 2
             \/ c.kind = "left" /\ c.at = Sub(home) /\ c.root = home /\ c.nr > 2
  BY <1>8, <1>9, <1>11
<1>14. gameFiles[Sub(home)] # {} => \E c \in candidates' :
          c.at = Sub(home) /\ (Named = Relative => c.kind = "carried")
  BY <1>8, <1>11, <1>12, GamesPlaceIs
<1> QED BY <1>2, <1>3, <1>8, <1>13, <1>14 DEF CarriedAlong

LEMMA BeginningFinds ==
    ASSUME TypesInv, SearchEnded, Found, ~Aside, BeginLooking
    PROVE  Found'
<1>1. /\ session = "files" /\ todo = <<>> /\ session' = "games" /\ todo # StateFiles
      /\ UNCHANGED <<stateFiles, gameFiles, pointer, away, override, workDir, gameDir, again, todo,
                     configFrom, known>>
  BY DEF BeginLooking, onDisk, StateFiles
<1>2. /\ Aim' = Aim /\ Named' = Named /\ GamesPlace' = GamesPlace /\ DefaultPlace' = DefaultPlace
      /\ (Unnamed' <=> Unnamed) /\ (InPlace => InPlace')
      /\ \A home \in {"data", "beside"} : OldLayout(home) => OldLayout(home)'
  BY <1>1, ConfigsStay DEF ConfigsSame
<1>3. ~Aside' /\ AimIsSure' BY <1>1, HereStays DEF Found, AimIsSure
<1>4. Settled => Settled'
  <2> SUFFICES ASSUME Settled PROVE Settled' OBVIOUS
  <2>1. Searching' BY SearchBegins
  <2>2. InSession' BY <1>1, <1>2, <2>1 DEF Settled, InSession
  <2> QED BY <1>2, <2>2 DEF Settled
<1>5. ASSUME NEW home \in {"data", "beside"}, Carrying(home) PROVE Carrying(home)'
  <2>1. CarriedAlong(home)' BY <1>1, <1>5, CarryingBegins DEF Found
  <2> QED BY <1>1, <1>2, <1>5, <2>1 DEF Carrying
<1>6. ASSUME NEW home \in {"data", "beside"} PROVE ~NotReached(home) BY <1>1 DEF NotReached
<1> QED BY <1>3, <1>4, <1>5, <1>6 DEF Found

LEMMA FirstComesFirst ==
    ASSUME TypesInv, candidates # {}
    PROVE  FirstCandidate \in candidates /\ \A d \in candidates : FirstCandidate.nr <= d.nr
<1> DEFINE numbers == {c.nr : c \in candidates}
<1>1. numbers \subseteq Nat /\ numbers # {} BY DEF TypesInv, LocationTypeOK
<1>2. PICK n \in numbers : \A m \in numbers : n <= m
  BY <1>1, LeastNumber
<1>3. PICK c \in candidates : c.nr = n BY <1>2
<1>4. \A d \in candidates : c.nr <= d.nr BY <1>2, <1>3
<1> QED BY <1>3, <1>4 DEF FirstCandidate

\* A search may end here.
LEMMA SearchSettles ==
    ASSUME AimIsSure, ~Aside, session = "games", SearchEnds,
           stateFiles'[Aim]["config"].form # "torn", InPlace',
           again => (Named' = NoPlace => gameDir = DefaultPlace') /\ (NoGames' => Bare'),
           ~again => gameDir = GamesPlace'
    PROVE  Found'
<1>1. /\ UNCHANGED <<pointer, override, workDir, again, gameDir>> /\ configFrom' = NoRoot
      /\ session' = IF again THEN "open" ELSE IF NothingSet' THEN "wizard" ELSE "ready"
  BY DEF SearchEnds
<1>2. ~Aside' /\ AimIsSure' BY <1>1, HereStays
<1>3. InSession'
  <2>1. session' # "games" /\ session' # "files" /\ (session' = "open" => again) BY <1>1
  <2> QED BY <1>1, <2>1 DEF InSession
<1> QED BY <1>2, <1>3 DEF Found, Settled

LEMMA DraftIsWritten ==
    ASSUME TypesInv, session = "games", workDir = Aim, NEW c \in FileContents, WriteDraft(c)
    PROVE  stateFiles'[Aim]["config"] = c
BY DefaultIsPlace, WrittenHere DEF WriteDraft, TypesInv, Written, StateNames

LEMMA HiddenKept ==
    ASSUME TypesInv, ~known'.hidden, ~Aside, NEW hidden \in BOOLEAN, BuildsHidden(hidden)
    PROVE  ~hidden /\ known' = known
BY KnownStays DEF TypesInv

LEMMA FailingHides ==
    ASSUME TypesInv, ~Aside, WriteDraftFails PROVE known'.hidden
BY HiddenKept, KnownStays DEF WriteDraftFails, TypesInv

\* What a settled session comes to look at.
LEMMA SearchingFirst ==
    ASSUME TypesInv, Settled, ~Aside, session = "games", candidates # {}, NEW c, c = FirstCandidate
    PROVE  /\ ~c.tried /\ c.at \in GamePlaces
           /\ \/ /\ c.kind = "left" /\ gameFiles[c.at] # {} /\ NoGames /\ again /\ known.builds = {}
              \/ /\ c.kind = (IF Named = Relative THEN "relative" ELSE "absolute")
                 /\ c.at = GamesPlace /\ Named # NoPlace
<1>1. c \in candidates /\ \A d \in candidates : c.nr <= d.nr BY FirstComesFirst
<1>2. /\ Searching /\ InPlace BY DEF Settled, InSession
<1>3. CASE c.kind = "left"
  <2>0. c.nr > 2 /\ gameFiles[c.at] # {} BY <1>1, <1>2, <1>3 DEF Searching
  <2>1. ASSUME NEW d \in candidates, d.kind # "left" PROVE FALSE
    <3>1. d.nr = 1 BY <1>2, <2>1 DEF Searching
    <3>2. c.nr \in Nat BY <1>1 DEF TypesInv, LocationTypeOK
    <3> QED BY <1>1, <2>0, <2>1, <3>1, <3>2
  <2>2. candidates = Lefts BY <2>1 DEF Lefts
  <2>3. NoGames /\ again BY <1>2, <2>2 DEF Searching
  <2>4. known.builds = {} BY <1>2, <2>3 DEF InPlace, NoGames
  <2> QED BY <1>1, <1>2, <1>3, <2>0, <2>3, <2>4, FirstIsCandidate DEF Searching
<1>4. CASE c.kind # "left" BY <1>1, <1>2, <1>4, FirstIsCandidate DEF Searching
<1> QED BY <1>3, <1>4

LEMMA SettledSearch ==
    ASSUME TypesInv, Settled, ~Aside, session = "games"
    PROVE  /\ workDir = Aim /\ DefaultGames(workDir) = DefaultPlace
           /\ draft.config = ConfigAt(Aim) /\ draft.config \in FileContents /\ draft.config.form = "whole"
           /\ ~draft.changed
           /\ again => gameDir \in {DefaultPlace, GamesPlace}
           /\ ~again => gameDir = GamesPlace
           /\ draft.config.games = Named
<1>1. workDir = Aim /\ Searching /\ Aim \in Roots BY AimIs DEF Aside, Settled, InSession
<1> QED BY <1>1, ConfigsAreWhole DEF Settled, InSession, Searching, DefaultPlace, TypesInv, Named

\* The same while an older layout is carried along.
LEMMA CarryingSearch ==
    ASSUME TypesInv, NEW home \in {"data", "beside"}, Carrying(home), ~Aside, session = "games"
    PROVE  /\ workDir = Aim /\ DefaultGames(workDir) = DefaultPlace /\ gameDir = DefaultPlace
           /\ draft.config = ConfigAt(Aim) /\ draft.config \in FileContents /\ draft.config.form = "whole"
           /\ ~draft.changed /\ draft.config.games = Named /\ again
           /\ Holds(Aim, "config") /\ stateFiles[Aim]["config"].form = "whole"
           /\ Sub(home) \in GamePlaces /\ DefaultPlace \in GamePlaces /\ DefaultPlace # Sub(home)
           /\ Sub(Standard) \in GamePlaces /\ Sub(Standard) # Sub(home)
           /\ known.builds \subseteq gameFiles[Sub(home)]
           /\ \A p \in GamePlaces : p # Sub(home) => gameFiles[p] = {}
<1>1. /\ workDir = Aim /\ Aim = Standard /\ CarriedAlong(home) /\ OldLayout(home) /\ Unnamed /\ again
      /\ stateFiles[Standard]["config"] = stateFiles[home]["config"] /\ gameDir = DefaultPlace
  BY DEF Aside, Carrying
<1>2. Standard \in Roots /\ home # Standard /\ home \in Roots BY Distinct, PlacesDiffer
<1>3. stateFiles[Aim]["config"].form = "whole" BY <1>1 DEF OldLayout
<1>4. ConfigAt(Aim) = stateFiles[home]["config"] /\ ConfigAt(Aim) \in FileContents
  BY <1>1, <1>2, <1>3, ConfigsAreWhole DEF TypesInv
<1>5. /\ known.builds \subseteq gameFiles[Sub(home)]
      /\ \A p \in GamePlaces : p # Sub(home) => gameFiles[p] = {}
  BY <1>1, <1>4 DEF OldLayout, Unnamed, Named
<1>6. /\ Sub(home) \in GamePlaces /\ DefaultPlace \in GamePlaces /\ DefaultPlace # Sub(home)
      /\ Sub(Standard) \in GamePlaces /\ Sub(Standard) # Sub(home)
  BY <1>1, <1>2, LocationPlaces, PlacesDiffer, DefaultPlaceIs, Distinct
<1> QED BY <1>1, <1>3, <1>4, <1>5, <1>6 DEF CarriedAlong, DefaultPlace, Named, Holds, OldLayout

LEMMA CarryingFirst ==
    ASSUME TypesInv, NEW home \in {"data", "beside"}, Carrying(home), ~Aside, session = "games",
           candidates # {}, NEW c, c = FirstCandidate
    PROVE  /\ ~c.tried
           /\ \/ c.kind = "relative" /\ c.at = Sub(Standard)
              \/ c.kind = "carried" /\ c.at = Sub(home)
              \/ c.kind = "left" /\ c.at = Sub(home) /\ (gameFiles[Sub(home)] # {} => Named = NoPlace)
<1>1. c \in candidates /\ \A d \in candidates : c.nr <= d.nr BY FirstComesFirst
<1>2. CarriedAlong(home) /\ Unnamed BY DEF Carrying
<1>3. CASE c.kind = "left"
  <2>1. ~c.tried /\ c.at = Sub(home) /\ c.nr > 2 BY <1>1, <1>2, <1>3 DEF CarriedAlong
  <2>2. ASSUME gameFiles[Sub(home)] # {}, Named = Relative PROVE FALSE
    <3>1. PICK d \in candidates : d.kind = "carried" BY <1>2, <2>2 DEF CarriedAlong
    <3>2. d.nr = 2 BY <1>2, <3>1 DEF CarriedAlong
    <3>3. c.nr \in Nat BY <1>1 DEF TypesInv, LocationTypeOK
    <3> QED BY <1>1, <2>1, <3>2, <3>3
  <2> QED BY <1>2, <1>3, <2>1, <2>2 DEF Unnamed
<1>4. CASE c.kind # "left" BY <1>1, <1>2, <1>4 DEF CarriedAlong
<1> QED BY <1>3, <1>4

\* What is found in the session of an older layout is looked for like everything else.
LEMMA SearchIsEither ==
    ASSUME Found, session = "games"
    PROVE  Settled \/ \E home \in {"data", "beside"} : Carrying(home)
BY DEF Found, NotReached

LEMMA NothingMoreFinds ==
    ASSUME TypesInv, Found, ~Aside, NothingMore
    PROVE  Found'
<1>1. session = "games" /\ candidates = {} /\ gameFiles' = gameFiles /\ SearchEnds
      /\ (~draft.changed => stateFiles' = stateFiles /\ known' = known)
  BY DEF NothingMore, NoWrite
<1>2. ~draft.changed /\ stateFiles' = stateFiles /\ known' = known
  BY <1>1, SearchIsEither, SettledSearch, CarryingSearch
<1>3. UNCHANGED <<pointer, override>> BY <1>1 DEF SearchEnds
<1>4. /\ Aim' = Aim /\ Named' = Named /\ GamesPlace' = GamesPlace /\ DefaultPlace' = DefaultPlace
      /\ (NoGames' <=> NoGames) /\ (Bare' <=> Bare) /\ (InPlace => InPlace')
  BY <1>1, <1>2, <1>3, ConfigsStay DEF ConfigsSame
<1>5. AimIsSure /\ stateFiles'[Aim]["config"].form # "torn" BY <1>2 DEF Found, AimIsSure
<1>6. CASE Settled
  <2>1. Lefts = {} BY <1>1 DEF Lefts
  <2>2. NoGames => Bare BY <1>1, <1>6, <2>1 DEF Settled, InSession, Searching
  <2>3. again => (Named' = NoPlace => gameDir = DefaultPlace') /\ (NoGames' => Bare')
    BY <1>1, <1>4, <1>6, <2>2, SettledSearch, GamesPlaceIs
  <2>4. ~again => gameDir = GamesPlace' BY <1>1, <1>4, <1>6, SettledSearch
  <2> QED BY <1>1, <1>4, <1>5, <1>6, <2>3, <2>4, SearchSettles DEF Settled
<1>7. ASSUME NEW home \in {"data", "beside"}, Carrying(home) PROVE Found'
  <2>0. /\ gameDir = DefaultPlace /\ again /\ Holds(Aim, "config")
        /\ known.builds \subseteq gameFiles[Sub(home)]
        /\ \A p \in GamePlaces : p # Sub(home) => gameFiles[p] = {}
    BY <1>1, <1>7, CarryingSearch
  <2>1. gameFiles[Sub(home)] = {} BY <1>1, <1>7 DEF Carrying, CarriedAlong
  <2>2. \A x \in Roots : gameFiles[GamesOf(x)] = {} BY <2>0, <2>1, LocationPlaces DEF GamesOf
  <2>3. Bare BY <2>2, Distinct DEF Bare, Legacy
  <2>4. InPlace BY <2>0, <2>1 DEF InPlace
  <2> QED BY <1>1, <1>4, <1>5, <2>0, <2>3, <2>4, SearchSettles
<1> QED BY <1>1, <1>6, <1>7, SearchIsEither

LEMMA GamesMovedFinds ==
    ASSUME TypesInv, Found, ~Aside, ~known'.hidden, GamesMoved
    PROVE  Found'
<1> DEFINE c == FirstCandidate
           D == DefaultGames(workDir)
           hidden == \/ c.at = gameDir
                     \/ gameFiles[D] # {} /\ ~(gameFiles[c.at] \subseteq gameFiles[D])
           config == IF c.kind # "left" THEN WithoutGames(draft.config) ELSE draft.config
<1>1. /\ session = "games" /\ candidates # {} /\ SearchEnds
      /\ c.at # D /\ (gameFiles[D] # {} \/ gameFiles[c.at] # {})
      /\ gameFiles' = IF gameFiles[D] = {} THEN [gameFiles EXCEPT ![D] = gameFiles[c.at]] ELSE gameFiles
      /\ \/ c.kind = "left" /\ ~draft.changed /\ NoWrite /\ BuildsHidden(hidden)
         \/ (c.kind # "left" \/ draft.changed) /\ WriteDraft(config) /\ BuildsHidden(hidden)
         \/ WriteDraftFails
  BY DEF GamesMoved, Movable
<1>2. c.at \in GamePlaces /\ D \in GamePlaces BY <1>1, FirstIsCandidate, DefaultIsPlace
<1>3. UNCHANGED <<pointer, override>> /\ AimIsSure /\ Aim' = Aim
  BY <1>1, AimStays DEF SearchEnds, Found
<1>4. /\ ~hidden /\ known' = known
      /\ \/ c.kind = "left" /\ ~draft.changed /\ NoWrite
         \/ (c.kind # "left" \/ draft.changed) /\ WriteDraft(config)
  <2>1. ~WriteDraftFails BY FailingHides
  <2>2. hidden \in BOOLEAN OBVIOUS
  <2> HIDE DEF hidden, config, c
  <2> QED BY <1>1, <2>1, <2>2, HiddenKept
<1>5. gameFiles \in [GamePlaces -> SUBSET GameBuilds] BY DEF TypesInv, LocationTypeOK
<1>6. gameFiles[c.at] \subseteq gameFiles'[D] /\ gameFiles'[D] # {} /\ c.at # gameDir
  BY <1>1, <1>2, <1>4, <1>5
<1>7. GamesGrow BY GamesOnlyGrow DEF LocationNext
<1>8. /\ D = DefaultPlace /\ workDir = Aim /\ draft.config \in FileContents /\ draft.config.form = "whole"
      /\ draft.config.games = Named /\ ~draft.changed
  BY <1>1, SearchIsEither, SettledSearch, CarryingSearch
<1>9. DefaultPlace' = DefaultPlace BY <1>3 DEF DefaultPlace
<1> HIDE DEF hidden, D
\* config.json is written anew: the builds are where it says nothing.
<1>10. CASE c.kind # "left" /\ again \in BOOLEAN /\ known.builds \subseteq gameFiles'[DefaultPlace]
            /\ (again => gameDir = DefaultPlace) /\ again
  <2>1. config \in FileContents /\ config.form = "whole" /\ config.games = NoPlace
    BY <1>8, <1>10, ContentOf
  <2>2. WriteDraft(config) BY <1>4, <1>10
  <2> HIDE DEF config
  <2>3. stateFiles'[Aim]["config"] = config BY <1>1, <1>8, <2>1, <2>2, DraftIsWritten
  <2>4. /\ Named' = NoPlace /\ GamesPlace' = DefaultPlace /\ Holds(Aim, "config")'
    BY <1>3, <2>1, <2>3, NamesWritten
  <2>5. InPlace' BY <1>3, <1>4, <1>10, <2>4 DEF InPlace
  <2>6. ~NoGames' BY <1>6, <1>8, <2>4 DEF NoGames
  <2> QED BY <1>1, <1>3, <1>9, <1>10, <2>1, <2>3, <2>4, <2>5, <2>6, SearchSettles
\* Nothing is written, and what is named was empty.
<1>11. CASE c.kind = "left" /\ again /\ InPlace /\ (Named = NoPlace => gameDir = DefaultPlace)
  <2>1. stateFiles' = stateFiles BY <1>4, <1>8, <1>11 DEF NoWrite
  <2>2. /\ Named' = Named /\ GamesPlace' = GamesPlace
    BY <1>3, <2>1, NamesStay
  <2>3. InPlace' BY <1>3, <1>4, <1>7, <1>11, <2>1, InPlaceStays DEF Holds
  <2>4. ~NoGames' BY <1>6, <1>8, <1>9 DEF NoGames
  <2>5. stateFiles'[Aim]["config"].form # "torn" BY <1>3, <2>1 DEF AimIsSure
  <2> QED BY <1>1, <1>3, <1>9, <1>11, <2>2, <2>3, <2>4, <2>5, SearchSettles
<1>12. CASE Settled
  <2>1. /\ ~c.tried /\ c.at \in GamePlaces
        /\ \/ /\ c.kind = "left" /\ gameFiles[c.at] # {} /\ NoGames /\ again /\ known.builds = {}
           \/ /\ c.kind = (IF Named = Relative THEN "relative" ELSE "absolute")
              /\ c.at = GamesPlace /\ Named # NoPlace
    BY <1>1, <1>12, SearchingFirst
  <2>2. /\ again => gameDir \in {DefaultPlace, GamesPlace}
        /\ ~again => gameDir = GamesPlace
    BY <1>1, <1>12, SettledSearch
  <2>3. CASE c.kind = "left"
    BY <1>11, <1>12, <2>1, <2>2, <2>3, GamesPlaceIs DEF Settled
  <2>4. CASE c.kind # "left"
    <3>1. c.at = GamesPlace BY <2>1, <2>4
    <3>2. again /\ gameDir = DefaultPlace BY <1>6, <2>2, <3>1
    <3>3. known.builds \subseteq gameFiles'[DefaultPlace] BY <1>6, <1>8, <1>12, <3>1 DEF Settled, InPlace
    <3>4. again \in BOOLEAN BY DEF TypesInv, LocationTypeOK
    <3> QED BY <1>10, <2>4, <3>2, <3>3, <3>4
  <2> QED BY <2>3, <2>4
<1>13. ASSUME NEW home \in {"data", "beside"}, Carrying(home) PROVE Found'
  <2>1. /\ gameDir = DefaultPlace /\ again /\ Holds(Aim, "config") /\ DefaultPlace # Sub(home)
        /\ known.builds \subseteq gameFiles[Sub(home)]
        /\ \A p \in GamePlaces : p # Sub(home) => gameFiles[p] = {}
        /\ DefaultPlace \in GamePlaces /\ Sub(Standard) \in GamePlaces /\ Sub(Standard) # Sub(home)
    BY <1>1, <1>13, CarryingSearch
  <2>2. /\ \/ c.kind = "relative" /\ c.at = Sub(Standard)
           \/ c.kind = "carried" /\ c.at = Sub(home)
           \/ c.kind = "left" /\ c.at = Sub(home) /\ (gameFiles[Sub(home)] # {} => Named = NoPlace)
    BY <1>1, <1>13, CarryingFirst
  <2>3. gameFiles[c.at] # {} /\ c.at = Sub(home) BY <1>1, <1>8, <2>1, <2>2
  <2>4. known.builds \subseteq gameFiles'[DefaultPlace] BY <1>6, <1>8, <2>1, <2>3
  <2>5. CASE c.kind # "left"
    <3>1. again \in BOOLEAN BY DEF TypesInv, LocationTypeOK
    <3> QED BY <1>10, <2>1, <2>4, <2>5, <3>1
  <2>6. CASE c.kind = "left"
    <3>1. Named = NoPlace BY <2>2, <2>3, <2>6
    <3>2. stateFiles' = stateFiles BY <1>4, <1>8, <2>6 DEF NoWrite
    <3>3. /\ Named' = Named /\ GamesPlace' = GamesPlace /\ (Holds(Aim, "config")' <=> Holds(Aim, "config"))
      BY <1>3, <3>2, NamesStay
    <3>4. InPlace' BY <1>3, <1>4, <2>1, <2>4, <3>1, <3>3, GamesPlaceIs DEF InPlace
    <3>5. ~NoGames' BY <1>6, <1>8, <1>9 DEF NoGames
    <3>6. stateFiles'[Aim]["config"].form # "torn" BY <1>3, <3>2 DEF AimIsSure
    <3> QED BY <1>1, <1>3, <1>9, <2>1, <3>4, <3>5, <3>6, SearchSettles
  <2> QED BY <2>5, <2>6
<1> QED BY <1>1, <1>12, <1>13, SearchIsEither

LEMMA GamesKeptFinds ==
    ASSUME TypesInv, Found, ~Aside, GamesKept
    PROVE  Found'
<1> DEFINE c == FirstCandidate
           config == [draft.config EXCEPT !.games = c.at]
<1>1. /\ session = "games" /\ candidates # {} /\ SearchEnds /\ gameFiles' = gameFiles /\ known' = known
      /\ \/ c.kind = "absolute" /\ NoWrite
         \/ c.kind = "relative" /\ gameFiles[c.at] # {} /\ NoWrite
         \/ c.kind \in {"carried", "left"} /\ WriteDraft(config)
  BY DEF GamesKept
<1>2. c.at \in GamePlaces BY <1>1, FirstIsCandidate
<1>3. UNCHANGED <<pointer, override>> /\ AimIsSure /\ Aim' = Aim
  BY <1>1, AimStays DEF SearchEnds, Found
<1>4. /\ workDir = Aim /\ draft.config \in FileContents /\ draft.config.form = "whole"
  BY <1>1, SearchIsEither, SettledSearch, CarryingSearch
<1>5. CASE c.kind \in {"carried", "left"} /\ again /\ known.builds \subseteq gameFiles[c.at]
  <2>1. config \in FileContents /\ config.form = "whole" /\ config.games = c.at
    BY <1>2, <1>4 DEF FileContents
  <2>2. WriteDraft(config) BY <1>1, <1>5
  <2> HIDE DEF config, c
  <2>3. stateFiles'[Aim]["config"] = config BY <1>1, <1>4, <2>1, <2>2, DraftIsWritten
  <2>4. /\ Named' = c.at /\ Holds(Aim, "config")'
        /\ GamesPlace' = IF c.at = NoPlace THEN DefaultPlace ELSE Resolved(c.at, Aim)
    BY <1>3, <2>1, <2>3, NamesWritten
  <2>5. c.at \notin {NoPlace, Relative} BY <1>2, LocationPlaces
  <2>6. GamesPlace' = c.at BY <2>4, <2>5 DEF Resolved
  <2>7. InPlace' BY <1>1, <1>3, <1>5, <2>4, <2>6 DEF InPlace
  <2>8. ~NoGames' BY <2>4, <2>5 DEF NoGames, Unnamed
  <2> QED BY <1>1, <1>3, <1>5, <2>1, <2>3, <2>4, <2>5, <2>7, <2>8, SearchSettles
<1>6. CASE Settled
  <2>1. /\ \/ /\ c.kind = "left" /\ gameFiles[c.at] # {} /\ NoGames /\ again /\ known.builds = {}
           \/ /\ c.kind = (IF Named = Relative THEN "relative" ELSE "absolute")
              /\ c.at = GamesPlace /\ Named # NoPlace
    BY <1>1, <1>6, SearchingFirst
  <2>2. /\ again => gameDir \in {DefaultPlace, GamesPlace}
        /\ ~again => gameDir = GamesPlace
    BY <1>1, <1>6, SettledSearch
  <2>3. CASE c.kind = "left" BY <1>5, <2>1, <2>3
  <2>4. CASE c.kind # "left"
    <3>1. stateFiles' = stateFiles BY <1>1, <2>1, <2>4 DEF NoWrite
    <3>2. /\ Named' = Named /\ GamesPlace' = GamesPlace /\ DefaultPlace' = DefaultPlace
          /\ (NoGames' <=> NoGames) /\ (InPlace => InPlace')
      BY <1>1, <1>3, <3>1, ConfigsStay DEF ConfigsSame
    <3>3. ~NoGames BY <1>1, <2>1, <2>4 DEF NoGames, Unnamed
    <3>4. stateFiles'[Aim]["config"].form # "torn" BY <1>3, <3>1 DEF AimIsSure
    <3> QED BY <1>1, <1>3, <1>6, <2>1, <2>2, <2>4, <3>2, <3>3, <3>4, SearchSettles DEF Settled
  <2> QED BY <2>3, <2>4
<1>7. ASSUME NEW home \in {"data", "beside"}, Carrying(home) PROVE Found'
  <2>1. /\ again /\ known.builds \subseteq gameFiles[Sub(home)]
        /\ \A p \in GamePlaces : p # Sub(home) => gameFiles[p] = {}
        /\ Sub(Standard) \in GamePlaces /\ Sub(Standard) # Sub(home)
    BY <1>1, <1>7, CarryingSearch
  <2>2. \/ c.kind = "relative" /\ c.at = Sub(Standard)
        \/ c.kind \in {"carried", "left"} /\ c.at = Sub(home)
    BY <1>1, <1>7, CarryingFirst
  <2>3. c.kind \in {"carried", "left"} /\ c.at = Sub(home) BY <1>1, <2>1, <2>2
  <2> QED BY <1>5, <2>1, <2>3
<1> QED BY <1>1, <1>6, <1>7, SearchIsEither

LEMMA GamesPassedFinds ==
    ASSUME TypesInv, Found, ~Aside, ~known'.hidden, GamesPassed
    PROVE  Found'
<1> DEFINE c == FirstCandidate
<1>1. /\ session = "games" /\ candidates # {} /\ c \in candidates /\ candidates' = candidates \ {c}
      /\ UNCHANGED <<gameFiles, pointer, away, override, workDir, gameDir, session, again, todo,
                     configFrom>>
  BY FirstComesFirst DEF GamesPassed
<1>2. /\ c.kind = "relative" /\ gameFiles[c.at] = {} /\ ~Movable(c) /\ NoWrite
      /\ UNCHANGED <<draft, known>>
  <2>1. ~BuildsHidden(TRUE) BY HiddenKept
  <2>2. ~WriteDraftFails BY FailingHides
  <2> QED BY <2>1, <2>2 DEF GamesPassed
<1>3. stateFiles' = stateFiles /\ AimIsSure BY <1>2 DEF NoWrite, Found
<1>4. /\ Aim' = Aim /\ Named' = Named /\ GamesPlace' = GamesPlace /\ DefaultPlace' = DefaultPlace
      /\ ConfigAt(Aim)' = ConfigAt(Aim)
      /\ (Unnamed' <=> Unnamed) /\ (NoGames' <=> NoGames) /\ (Bare' <=> Bare) /\ (InPlace => InPlace')
      /\ \A home \in {"data", "beside"} : OldLayout(home) => OldLayout(home)'
  BY <1>1, <1>2, <1>3, ConfigsStay DEF ConfigsSame
<1>5. ~Aside' /\ AimIsSure' BY <1>1, <1>3, HereStays DEF AimIsSure
<1>6. CASE Settled
  <2>1. Searching /\ InSession BY <1>1, <1>6 DEF Settled, InSession
  <2>2. Named = Relative /\ c.at = GamesPlace /\ ~c.tried
    BY <1>1, <1>2, <1>6, SearchingFirst
  <2>3. Lefts' = Lefts BY <1>1, <1>2 DEF Lefts
  <2>4. NoGames
    <3>1. c.at = Sub(workDir) BY <1>1, <1>6, <2>2, GamesPlaceIs, SettledSearch
    <3>2. gameFiles[DefaultPlace] = {}
      BY <1>1, <1>2, <1>6, <2>2, <3>1, SettledSearch DEF Movable
    <3> QED BY <1>2, <2>2, <3>2 DEF NoGames, Unnamed
  <2> HIDE DEF c
  <2>5. Searching' BY <1>1, <1>2, <1>4, <2>1, <2>3, <2>4 DEF Searching
  <2>6. InSession' BY <1>1, <1>4, <2>1, <2>5 DEF InSession
  <2> QED BY <1>4, <1>5, <1>6, <2>6 DEF Found, Settled
<1>7. ASSUME NEW home \in {"data", "beside"}, Carrying(home) PROVE Found'
  <2>1. Sub(Standard) # Sub(home) BY <1>1, <1>7, CarryingSearch
  <2>2. c.at = Sub(Standard) BY <1>1, <1>2, <1>7, CarryingFirst
  <2>3. CarriedAlong(home) BY <1>1, <1>7 DEF Carrying
  <2> HIDE DEF c
  <2>4. \A d \in candidates : d.at = Sub(home) => d \in candidates' BY <1>1, <2>1, <2>2
  <2>5. CarriedAlong(home)' BY <1>1, <1>2, <1>4, <2>3, <2>4 DEF CarriedAlong
  <2>6. Carrying(home)' BY <1>1, <1>3, <1>4, <1>7, <2>5 DEF Carrying
  <2> QED BY <1>5, <2>6 DEF Found
<1> QED BY <1>1, <1>6, <1>7, SearchIsEither

LEMMA StartedIsSettled ==
    ASSUME Found, ~Aside, session \notin {"off", "files", "games"}
    PROVE  InPlace /\ InSession /\ AimIsSure /\ workDir = Aim
BY DEF Found, Settled, NotReached, Carrying, Aside

LEMMA OpenStoresFinds ==
    ASSUME TypesInv, SearchEnded, Found, ~Aside, ~known'.hidden, OpenStores
    PROVE  Found'
<1>1. /\ session = "open" /\ session' = "files" /\ again' = FALSE
      /\ UNCHANGED <<gameFiles, pointer, away, override, workDir, configFrom>>
  BY DEF OpenStores
<1>2. InPlace /\ InSession /\ AimIsSure /\ workDir = Aim BY <1>1, StartedIsSettled
<1>3. /\ UNCHANGED <<stateFiles, known>>
      /\ gameDir' = IF Named = NoPlace THEN gameDir ELSE Resolved(Named, Aim)
  <2>1. ~BuildsHidden(TRUE) BY HiddenKept
  <2> QED BY <1>2, <2>1 DEF OpenStores, Named
<1>4. /\ Aim' = Aim /\ Named' = Named /\ GamesPlace' = GamesPlace /\ DefaultPlace' = DefaultPlace
      /\ (NoGames' <=> NoGames) /\ (Bare' <=> Bare) /\ InPlace'
  BY <1>1, <1>2, <1>3, ConfigsStay DEF ConfigsSame
<1>5. ~Aside' /\ AimIsSure' BY <1>1, <1>2, <1>3, HereStays DEF AimIsSure
<1>6. gameDir' = GamesPlace BY <1>1, <1>2, <1>3 DEF InSession, GamesPlace
<1>7. configFrom' = NoRoot BY <1>1 DEF SearchEnded
<1>8. InSession' BY <1>1, <1>2, <1>4, <1>6, <1>7 DEF InSession
<1> QED BY <1>4, <1>5, <1>8 DEF Found, Settled

\* In use: the search is over, and config.json stays what it is.
LEMMA UsingFinds ==
    ASSUME TypesInv, SearchEnded, Found, ~Aside, session \in {"wizard", "ready", "moving"},
           session' \in {"wizard", "ready", "moving"},
           UNCHANGED <<pointer, override, workDir, gameDir, again, configFrom>>,
           stateFiles'[Aim]["config"] = stateFiles[Aim]["config"], InPlace'
    PROVE  Found'
<1>1. InPlace /\ InSession /\ AimIsSure /\ workDir = Aim BY StartedIsSettled
<1>2. ~Aside' /\ AimIsSure' BY <1>1, HereStays DEF AimIsSure
<1>3. Aim' = Aim BY AimStays
<1>4. GamesPlace' = GamesPlace BY <1>3, NamesStay
<1>5. InSession' BY <1>1, <1>4 DEF InSession, SearchEnded
<1> QED BY <1>2, <1>5 DEF Found, Settled

\* config.json is saved, and says where the builds are.
LEMMA SavedFinds ==
    ASSUME TypesInv, ~Aside', session' # "off", override' \in {NoRoot, PointedTo'}, configFrom' = NoRoot,
           NEW a \in Homes, Aim' = a, NEW c, c.form = "whole", stateFiles'[a]["config"] = c,
           known'.builds \subseteq gameFiles'[IF c.games = NoPlace THEN DefaultGames(a) ELSE Resolved(c.games, a)],
           gameDir' = (IF c.games = NoPlace THEN DefaultGames(a) ELSE Resolved(c.games, a)),
           \/ session' = "files" /\ again'
           \/ session' \in {"wizard", "ready", "moving"}
    PROVE  Found'
<1>1. ConfigAt(Aim)' = c /\ Holds(Aim, "config")' BY DEF ConfigAt, Holds
<1>2. GamesPlace' = (IF c.games = NoPlace THEN DefaultGames(a) ELSE Resolved(c.games, a))
  BY <1>1 DEF GamesPlace, Named, DefaultPlace
<1>3. InPlace' /\ AimIsSure' BY <1>1, <1>2 DEF InPlace, AimIsSure
<1>4. InSession' BY <1>2 DEF InSession
<1> QED BY <1>3, <1>4 DEF Found, Settled

LEMMA EditFinds ==
    ASSUME TypesInv, SearchEnded, Found, ~Aside, NEW f \in StateNames, Edit(f)
    PROVE  Found'
<1> DEFINE d == IF f = "config" THEN ConfigAt(workDir) ELSE NoContent
           e == [d EXCEPT !.form = "whole", !.rev = edits']
<1>1. /\ session \in {"wizard", "ready", "moving", "switched"} /\ session' = session
      /\ stateFiles' = [stateFiles EXCEPT ![workDir][f] = e] /\ SaveContent(f, d)
      /\ known' = [known EXCEPT !.rev[f] = edits']
      /\ UNCHANGED <<gameFiles, pointer, override, workDir, gameDir, configFrom, again>>
  BY DEF Edit, SaveContent, starting
<1>2. /\ InPlace /\ InSession /\ AimIsSure /\ workDir = Aim /\ Aim \in Roots /\ Aim \in Homes
      /\ LocationTypeOK
  BY <1>1, StartedIsSettled, AimIs DEF TypesInv
<1>3. session # "switched"
  BY <1>1, <1>2, Distinct DEF TypesInv, SessionKnows, Aim, Aside
<1>4. Aim' = Aim /\ PointedTo' = PointedTo /\ ~Aside' BY <1>1, <1>2, AimStays DEF Aside
<1>5. known'.builds = known.builds
  <2>1. known \in [rev : [StateNames -> 0..MaxEdits], builds : SUBSET GameBuilds, hidden : BOOLEAN]
    BY <1>2 DEF LocationTypeOK
  <2> QED BY <1>1, <2>1
<1>6. d \in FileContents BY <1>2, ConfigsAreWhole, LocationContents
<1> HIDE DEF d
<1>7. e \in FileContents /\ e.form = "whole" /\ e.games = d.games
  <2>1. e \in FileContents BY <1>1, <1>6, SavesAreTyped
  <2> QED BY <1>6, <2>1 DEF FileContents
<1> HIDE DEF e
<1>8. Written(Aim, f, e) BY <1>1, <1>2, <1>7, WrittenHere
<1>9. CASE f = "config"
  <2>1. stateFiles'[Aim]["config"] = e BY <1>8, <1>9 DEF Written
  <2>2. e.games = Named BY <1>2, <1>7, <1>9 DEF d, Named
  <2>3. GamesPlace = IF e.games = NoPlace THEN DefaultGames(Aim) ELSE Resolved(e.games, Aim)
    BY <2>2 DEF GamesPlace, DefaultPlace
  <2>4. gameDir' = GamesPlace /\ known'.builds \subseteq gameFiles'[GamesPlace]
    BY <1>1, <1>2, <1>5 DEF InSession, SearchEnded, InPlace
  <2>5. /\ configFrom' = NoRoot /\ override' \in {NoRoot, PointedTo'} /\ session' # "off"
        /\ session' \in {"wizard", "ready", "moving"}
    BY <1>1, <1>2, <1>3, <1>4 DEF SearchEnded, AimIsSure
  <2> QED BY <1>2, <1>4, <1>7, <2>1, <2>3, <2>4, <2>5, SavedFinds
<1>10. CASE f # "config"
  <2>1. ConfigsSame BY <1>2, <1>8, <1>10 DEF ConfigsSame, Written, StateNames
  <2>2. stateFiles'[Aim]["config"] = stateFiles[Aim]["config"] BY <1>2, <2>1 DEF ConfigsSame
  <2>3. \A x \in {"data", "beside"} : Holds(x, "config")' => Holds(x, "config")
    BY <2>1, Distinct DEF ConfigsSame, Holds
  <2>4. InPlace'
    <3>1. GamesGrow BY <1>1 DEF GamesGrow
    <3> QED BY <1>2, <1>4, <1>5, <2>2, <2>3, <3>1, InPlaceStays
  <2>5. session' \in {"wizard", "ready", "moving"} BY <1>1, <1>3
  <2> QED BY <1>1, <2>2, <2>4, <2>5, UsingFinds
<1> QED BY <1>9, <1>10

LEMMA SureAgain ==
    ASSUME NEW r \in Homes, pointer = (IF r = Standard THEN NoRoot ELSE r)
    PROVE  PointedTo = r
BY Distinct, PlacesDiffer DEF PointedTo

LEMMA ChoosingFinds ==
    ASSUME TypesInv, SearchEnded, ~Aside, ~known'.hidden, NEW p \in GamePlaces, ChooseGames(p)
    PROVE  Found'
<1> DEFINE d == [ConfigAt(workDir) EXCEPT
                   !.games = IF p = DefaultGames(workDir) THEN NoPlace
                             ELSE IF p = Sub(workDir) THEN Relative ELSE p]
           e == [d EXCEPT !.form = "whole", !.rev = edits']
           r == IF workDir = Standard THEN NoRoot ELSE workDir
<1>1. /\ session = "ready" /\ session' = "files" /\ again' = TRUE /\ workDir' = workDir /\ gameDir' = p
      /\ SaveContent("config", d)
      /\ stateFiles' = [stateFiles EXCEPT ![workDir]["config"] = e]
      /\ known' = [known EXCEPT !.rev["config"] = edits', !.builds = gameFiles[p], !.hidden = pointer # r]
      /\ UNCHANGED <<gameFiles, pointer, override, configFrom>>
  BY DEF ChooseGames, SaveContent, StartOn
<1>2. /\ workDir = Aim /\ Aim \in Roots /\ Aim \in Homes /\ LocationTypeOK /\ "config" \in StateNames
      /\ configFrom = NoRoot
  BY <1>1, AimIs DEF TypesInv, Aside, StateNames, SearchEnded
<1>3. known'.builds = gameFiles[p] /\ pointer = r
  <2>1. known \in [rev : [StateNames -> 0..MaxEdits], builds : SUBSET GameBuilds, hidden : BOOLEAN]
    BY <1>2 DEF LocationTypeOK
  <2> HIDE DEF r
  <2> QED BY <1>1, <2>1
<1>4. Aim' = Aim /\ PointedTo' = PointedTo /\ ~Aside' BY <1>1, <1>2, AimStays DEF Aside
<1>5. override' \in {NoRoot, PointedTo'}
  <2>1. PointedTo = workDir BY <1>2, <1>3, SureAgain
  <2>2. override \in {NoRoot, workDir} BY <1>2 DEF Aim
  <2> QED BY <1>1, <1>4, <2>1, <2>2
<1>6. d \in FileContents /\ d.form = "whole"
      /\ d.games = IF p = DefaultGames(workDir) THEN NoPlace
                   ELSE IF p = Sub(workDir) THEN Relative ELSE p
  <2>1. ConfigAt(workDir) \in FileContents /\ ConfigAt(workDir).form = "whole" BY <1>2, ConfigsAreWhole
  <2> QED BY <2>1 DEF FileContents
<1> HIDE DEF d
<1>7. e \in FileContents /\ e.form = "whole" /\ e.games = d.games
  <2>1. e \in FileContents BY <1>1, <1>2, <1>6, SavesAreTyped
  <2> QED BY <1>6, <2>1 DEF FileContents
<1> HIDE DEF e
<1>8. stateFiles'[Aim]["config"] = e
  <2>1. Written(workDir, "config", e) BY <1>1, <1>2, <1>7, WrittenHere
  <2> QED BY <1>2, <2>1 DEF Written
<1>9. p = IF e.games = NoPlace THEN DefaultGames(Aim) ELSE Resolved(e.games, Aim)
  BY <1>2, <1>6, <1>7, LocationPlaces DEF Resolved
<1> QED BY <1>1, <1>2, <1>3, <1>4, <1>5, <1>7, <1>8, <1>9, SavedFinds

LEMMA InstallingFinds ==
    ASSUME TypesInv, SearchEnded, Found, ~Aside, ~known'.hidden, NEW b \in GameBuilds, InstallGame(b)
    PROVE  Found'
<1>1. /\ session = "ready" /\ session' = "ready"
      /\ gameFiles' = [gameFiles EXCEPT ![gameDir] = gameFiles[gameDir] \cup {b}]
      /\ known' = known \/ known' = [known EXCEPT !.builds = known.builds \cup {b}]
      /\ UNCHANGED <<stateFiles, pointer, override, workDir, gameDir, again, configFrom>>
  BY DEF InstallGame, starting
<1>2. InPlace /\ InSession /\ AimIsSure /\ workDir = Aim BY <1>1, StartedIsSettled
<1>3. gameDir = GamesPlace /\ gameDir \in GamePlaces
  BY <1>1, <1>2 DEF InSession, SearchEnded, TypesInv, SessionKnows
<1>4. /\ gameFiles \in [GamePlaces -> SUBSET GameBuilds]
      /\ known \in [rev : [StateNames -> 0..MaxEdits], builds : SUBSET GameBuilds, hidden : BOOLEAN]
  BY DEF TypesInv, LocationTypeOK
<1>5. known'.builds \subseteq gameFiles'[GamesPlace]
  BY <1>1, <1>2, <1>3, <1>4 DEF InPlace
<1>6. Aim' = Aim /\ GamesPlace' = GamesPlace BY <1>1, AimStays, NamesStay
<1>7. InPlace' BY <1>1, <1>2, <1>5, <1>6 DEF InPlace, Holds
<1> QED BY <1>1, <1>7, UsingFinds

LEMMA MovingFinds ==
    ASSUME TypesInv, SearchEnded, Found, ~Aside,
           \/ CopyStateFile \/ CopyStateFails \/ FinishFails \/ \E r \in Homes : BeginMoving(r)
    PROVE  Found'
<1>1. /\ session \in {"wizard", "moving", "switched"} /\ session' \in {"wizard", "moving"}
      /\ UNCHANGED <<gameFiles, pointer, override, workDir, gameDir, again, configFrom, known>>
      /\ session = "switched" => UNCHANGED stateFiles
  BY DEF CopyStateFile, CopyStateFails, FinishFails, BeginMoving, BackToWizard, onDisk
<1>2. InPlace /\ InSession /\ AimIsSure /\ workDir = Aim /\ Aim \in Roots
  BY <1>1, StartedIsSettled, AimIs
<1>3. session # "switched" BY <1>1, <1>2, Distinct DEF TypesInv, SessionKnows, Aim
<1>4. \/ stateFiles' = stateFiles
      \/ /\ moveTo # workDir /\ moveTo \in Homes
         /\ \E f, c : stateFiles' = [stateFiles EXCEPT ![moveTo][f] = c]
  BY <1>1 DEF CopyStateFile, CopyStateFails, FinishFails, BeginMoving, Lacks, TypesInv, SessionKnows, onDisk
<1>5. \A x \in Roots : x = Aim \/ x \in {"data", "beside"} => stateFiles'[x] = stateFiles[x]
  <2> SUFFICES ASSUME NEW x \in Roots, x = Aim \/ x \in {"data", "beside"}
               PROVE  stateFiles'[x] = stateFiles[x]
    OBVIOUS
  <2>1. moveTo \in Homes /\ moveTo # workDir => moveTo # x BY <1>2, Distinct
  <2> QED BY <1>4, <2>1, ElsewhereStays DEF TypesInv
<1>6. /\ stateFiles'[Aim]["config"] = stateFiles[Aim]["config"]
      /\ \A x \in {"data", "beside"} : Holds(x, "config")' => Holds(x, "config")
  BY <1>2, <1>5, Distinct DEF Holds
<1>7. InPlace'
  <2>1. GamesGrow BY <1>1 DEF GamesGrow
  <2> QED BY <1>1, <1>2, <1>6, <2>1, AimStays, InPlaceStays
<1> QED BY <1>1, <1>3, <1>6, <1>7, UsingFinds

LEMMA FinishingFinds ==
    ASSUME TypesInv, SearchEnded, ~known'.hidden, FinishMoving, ~(moveTo = workDir /\ Aside)
    PROVE  Found'
<1> DEFINE c == [ConfigAt(moveTo) EXCEPT !.games = NoPlace, !.done = TRUE]
           r == IF override # NoRoot THEN override ELSE workDir
<1>1. /\ session = "switched" \/ (session = "moving" /\ moveTo = workDir)
      /\ stateFiles' = [stateFiles EXCEPT ![moveTo]["config"] = c]
      /\ known' = [known EXCEPT !.builds = gameFiles[DefaultGames(moveTo)],
                       !.hidden = pointer # (IF moveTo = Standard THEN NoRoot ELSE moveTo)]
      /\ session' = "files" /\ again' = TRUE
      /\ workDir' = r /\ gameDir' = DefaultGames(r)
      /\ UNCHANGED <<gameFiles, pointer, override, configFrom>>
  BY DEF FinishMoving, StartOn
<1>2. /\ moveTo \in Homes /\ moveTo \in Roots /\ LocationTypeOK /\ "config" \in StateNames
      /\ NoRoot \notin Homes /\ configFrom = NoRoot
  BY <1>1, Distinct DEF TypesInv, SessionKnows, StateNames, SearchEnded
<1>3. override \in {NoRoot, moveTo} /\ r = moveTo
  <2>1. CASE session = "switched" BY <1>2, <2>1 DEF TypesInv, SessionKnows
  <2>2. CASE session # "switched"
    <3>1. moveTo = workDir /\ workDir = Aim BY <1>1, <2>2 DEF Aside
    <3> QED BY <3>1 DEF Aim
  <2> QED BY <2>1, <2>2
<1>4. c \in FileContents /\ c.form = "whole" /\ c.games = NoPlace
  <2>1. ConfigAt(moveTo) \in FileContents /\ ConfigAt(moveTo).form = "whole" BY <1>2, ConfigsAreWhole
  <2> QED BY <2>1 DEF FileContents
<1> HIDE DEF c, r
<1>5. known'.builds = gameFiles[DefaultGames(moveTo)]
      /\ pointer = (IF moveTo = Standard THEN NoRoot ELSE moveTo)
  <2>1. known \in [rev : [StateNames -> 0..MaxEdits], builds : SUBSET GameBuilds, hidden : BOOLEAN]
    BY <1>2 DEF LocationTypeOK
  <2> QED BY <1>1, <2>1
<1>6. PointedTo = moveTo BY <1>2, <1>5, SureAgain
<1>7. Aim = moveTo BY <1>3, <1>6 DEF Aim, PointedTo
<1>8. Aim' = moveTo /\ PointedTo' = moveTo /\ ~Aside' BY <1>1, <1>3, <1>6, <1>7, AimStays DEF Aside
<1>9. stateFiles'[moveTo]["config"] = c
  <2>1. Written(moveTo, "config", c) BY <1>1, <1>2, <1>4, WrittenHere
  <2> QED BY <2>1 DEF Written
<1>10. override' \in {NoRoot, PointedTo'} BY <1>1, <1>3, <1>8
<1> QED BY <1>1, <1>2, <1>3, <1>4, <1>5, <1>8, <1>9, <1>10, SavedFinds

LEMMA SwitchingHides == ASSUME TypesInv, SwitchRoot PROVE known'.hidden
BY DEF SwitchRoot, TypesInv, LocationTypeOK


\* A mishap that has hidden builds is over only when the user takes a directory anew.
LEMMA HiddenStays ==
    ASSUME TypesInv, known.hidden, [LocationNext]_locationVars, ~known'.hidden
    PROVE  \/ ~Aside /\ \E p \in GamePlaces : ChooseGames(p)
           \/ FinishMoving /\ ~(moveTo = workDir /\ Aside)
<1>1. LocationTypeOK BY DEF TypesInv
<1>2. \A hidden \in BOOLEAN : ~BuildsHidden(hidden) BY <1>1, KnownStays
<1>3. known' # known OBVIOUS
<1>4. ~MigrateFile
  <2>1. ASSUME NEW f, BuildsHidden(f = "config") PROVE FALSE
    <3> DEFINE hidden == f = "config"
    <3>1. hidden \in BOOLEAN /\ BuildsHidden(hidden) BY <2>1
    <3> HIDE DEF hidden
    <3> QED BY <1>2, <3>1
  <2> QED BY <1>3, <2>1, BroughtFrom DEF Brought
<1>5. ~GamesMoved
  <2> DEFINE c == FirstCandidate
             D == DefaultGames(workDir)
             hidden == \/ c.at = gameDir
                       \/ gameFiles[D] # {} /\ ~(gameFiles[c.at] \subseteq gameFiles[D])
  <2>1. GamesMoved => BuildsHidden(hidden) \/ BuildsHidden(TRUE) BY DEF GamesMoved, WriteDraftFails
  <2>2. hidden \in BOOLEAN OBVIOUS
  <2> HIDE DEF hidden
  <2> QED BY <1>2, <2>1, <2>2
<1>6. ~NothingMore /\ ~MoveGamesFails /\ ~GamesKept /\ ~GamesPassed /\ ~OpenStores
  BY <1>2, <1>3 DEF NothingMore, MoveGamesFails, GamesKept, GamesPassed, OpenStores, WriteDraftFails
<1>7. ~StopLocation
  <2> DEFINE hidden == configFrom # NoRoot
  <2>1. StopLocation => BuildsHidden(hidden) BY DEF StopLocation
  <2>2. hidden \in BOOLEAN OBVIOUS
  <2> HIDE DEF hidden
  <2> QED BY <1>2, <2>1, <2>2
<1>8. ~SwitchRoot BY SwitchingHides
<1>9. ASSUME NEW f \in StateNames, Edit(f) PROVE FALSE
  BY <1>1, <1>3, <1>9 DEF Edit, LocationTypeOK
<1>10. ASSUME NEW b \in GameBuilds, InstallGame(b) PROVE FALSE BY <1>3, <1>10 DEF InstallGame
<1>11. /\ ~OpenLocation /\ ~BeginLooking /\ ~CopyStateFile /\ ~CopyStateFails /\ ~FinishFails
       /\ \A r \in Homes : ~BeginMoving(r)
       /\ \A r \in Locations : ~Absent(r)
       /\ locationVars' # locationVars
  BY <1>3 DEF OpenLocation, BeginLooking, CopyStateFile, CopyStateFails, FinishFails, BeginMoving, Absent,
              locationVars
<1>12. \A p \in GamePlaces : ChooseGames(p) => ~Aside BY <1>3 DEF ChooseGames
<1>13. FinishMoving => ~(moveTo = workDir /\ Aside) BY <1>3 DEF FinishMoving
<1> QED
  BY <1>4, <1>5, <1>6, <1>7, <1>8, <1>9, <1>10, <1>11, <1>12, <1>13 DEF LocationNext

LEMMA NothingFinds == ASSUME TypesInv, Found, UNCHANGED locationVars PROVE Found'
<1>1. /\ UNCHANGED <<stateFiles, gameFiles, pointer, away, override, workDir, gameDir, session>>
      /\ UNCHANGED <<again, todo, configFrom, candidates, draft, known>>
  BY DEF locationVars, onDisk, starting
<1>2. /\ Aim' = Aim /\ Named' = Named /\ GamesPlace' = GamesPlace /\ DefaultPlace' = DefaultPlace
      /\ ConfigAt(Aim)' = ConfigAt(Aim) /\ PointedTo' = PointedTo
      /\ (Unnamed' <=> Unnamed) /\ (NoGames' <=> NoGames) /\ (Bare' <=> Bare) /\ (InPlace => InPlace')
      /\ \A home \in {"data", "beside"} : OldLayout(home) => OldLayout(home)'
  BY <1>1, ConfigsStay, AimStays DEF ConfigsSame
<1>3. (Aside' <=> Aside) /\ (AimIsSure => AimIsSure') BY <1>1, <1>2 DEF AimIsSure, Aside
<1>4. InSession => InSession'
  <2>1. Lefts' = Lefts BY <1>1 DEF Lefts
  <2>2. Searching => Searching' BY <1>1, <1>2, <2>1 DEF Searching
  <2> QED BY <1>1, <1>2, <2>2 DEF InSession
<1>5. Settled => Settled' BY <1>1, <1>2, <1>3, <1>4 DEF Settled
<1>6. ASSUME NEW home \in {"data", "beside"}
      PROVE  (NotReached(home) => NotReached(home)') /\ (Carrying(home) => Carrying(home)')
  <2>1. CarriedAlong(home) => CarriedAlong(home)' BY <1>1, <1>2 DEF CarriedAlong
  <2> QED BY <1>1, <1>2, <2>1 DEF NotReached, Carrying, Holds
<1> QED BY <1>3, <1>5, <1>6 DEF Found

LEMMA FoundStep ==
    ASSUME TypesInv, TypesInv', FoundInv, [LocationNext]_locationVars
    PROVE  FoundInv'
<1>1. SearchEnded' BY SearchEndedStays DEF FoundInv
<1>2. SUFFICES ASSUME ~known'.hidden PROVE Found' BY <1>1 DEF FoundInv
<1>3. SearchEnded BY DEF FoundInv
<1>4. ASSUME NEW p \in GamePlaces, ChooseGames(p), ~Aside PROVE Found' BY <1>2, <1>3, <1>4, ChoosingFinds
<1>5. CASE FinishMoving /\ ~(moveTo = workDir /\ Aside) BY <1>2, <1>3, <1>5, FinishingFinds
<1>6. CASE known.hidden BY <1>2, <1>4, <1>5, <1>6, HiddenStays
<1>7. CASE ~known.hidden
  <2>1. Found BY <1>7 DEF FoundInv
  <2>2. ~SwitchRoot BY <1>2, SwitchingHides
  <2>3. CASE StopLocation BY <1>2, <2>1, <2>3, StoppingFinds
  <2>4. CASE Aside /\ session # "off" /\ ~StopLocation BY <1>3, <2>1, <2>2, <2>4, AsideStep
  <2>5. CASE session = "off"
    <3>1. CASE UNCHANGED locationVars BY <2>1, <3>1, NothingFinds
    <3>2. CASE OpenLocation \/ \E r \in Locations : Absent(r) BY <1>3, <2>1, <3>2, ClosedFinds
    <3> QED
      BY <2>5, <3>1, <3>2
      DEF LocationNext, MigrateFile, BeginLooking, NothingMore, GamesMoved, MoveGamesFails, GamesKept,
          GamesPassed, OpenStores, CopyStateFile, CopyStateFails, SwitchRoot, FinishMoving, FinishFails,
          StopLocation, Edit, ChooseGames, InstallGame, BeginMoving
  <2>6. CASE ~Aside /\ session # "off" /\ ~StopLocation
    <3>1. CASE UNCHANGED locationVars BY <2>1, <3>1, NothingFinds
    <3>2. CASE MigrateFile BY <1>2, <1>3, <2>1, <2>6, <3>2, LookingFinds
    <3>3. CASE BeginLooking BY <1>3, <2>1, <2>6, <3>3, BeginningFinds
    <3>4. CASE NothingMore BY <2>1, <2>6, <3>4, NothingMoreFinds
    <3>5. CASE GamesMoved BY <1>2, <2>1, <2>6, <3>5, GamesMovedFinds
    <3>6. CASE MoveGamesFails BY <1>2, <2>6, <3>6, HiddenKept DEF MoveGamesFails
    <3>7. CASE GamesKept BY <2>1, <2>6, <3>7, GamesKeptFinds
    <3>8. CASE GamesPassed BY <1>2, <2>1, <2>6, <3>8, GamesPassedFinds
    <3>9. CASE OpenStores BY <1>2, <1>3, <2>1, <2>6, <3>9, OpenStoresFinds
    <3>10. CASE CopyStateFile \/ CopyStateFails \/ FinishFails \/ \E r \in Homes : BeginMoving(r)
      BY <1>3, <2>1, <2>6, <3>10, MovingFinds
    <3>11. CASE FinishMoving BY <1>5, <2>6, <3>11
    <3>12. CASE \E f \in StateNames : Edit(f) BY <1>3, <2>1, <2>6, <3>12, EditFinds
    <3>13. CASE \E b \in GameBuilds : InstallGame(b) BY <1>2, <1>3, <2>1, <2>6, <3>13, InstallingFinds
    <3>14. ~OpenLocation /\ \A r \in Locations : ~Absent(r) BY <2>6 DEF OpenLocation, Absent
    <3> QED
      BY <1>4, <2>2, <2>6, <3>1, <3>2, <3>3, <3>4, <3>5, <3>6, <3>7, <3>8, <3>9, <3>10, <3>11, <3>12,
         <3>13, <3>14 DEF LocationNext
  <2> QED BY <2>3, <2>4, <2>5, <2>6
<1> QED BY <1>6, <1>7

LEMMA FoundInitially == LocationInit => FoundInv
<1> SUFFICES ASSUME LocationInit PROVE FoundInv OBVIOUS
<1>1. PICK home \in {NoRoot, Standard, "data", "beside"},
           games \in {NoPlace, Relative} \cup {Own(r) : r \in Locations} :
          LET at == IF games \notin {NoPlace, Relative} THEN games
                    ELSE IF home = Standard /\ games = NoPlace THEN Own("data") ELSE Sub(home)
              filled(f) == [form |-> "whole", rev |-> 1, done |-> FALSE,
                             games |-> IF f = "config" THEN games ELSE NoPlace]
          IN  /\ home = NoRoot => games = NoPlace
              /\ stateFiles = [r \in Roots |-> [f \in StateNames |->
                                  IF r = home THEN filled(f) ELSE NoContent]]
              /\ gameFiles = [p \in GamePlaces |-> IF p = at THEN GameBuilds ELSE {}]
              /\ known = [rev |-> [f \in StateNames |-> IF home = NoRoot THEN 0 ELSE 1],
                          builds |-> IF home = NoRoot THEN {} ELSE GameBuilds, hidden |-> FALSE]
  BY DEF LocationInit
<1>2. /\ pointer = NoRoot /\ override = NoRoot /\ session = "off" /\ carried = <<>> /\ configFrom = NoRoot
      /\ candidates = {}
  BY DEF LocationInit
<1>3. Aim = Standard /\ PointedTo = Standard BY <1>2 DEF Aim, PointedTo
<1>4. SearchEnded BY <1>2 DEF SearchEnded
<1> DEFINE at == IF games \notin {NoPlace, Relative} THEN games
                 ELSE IF home = Standard /\ games = NoPlace THEN Own("data") ELSE Sub(home)
           cf == [form |-> "whole", rev |-> 1, done |-> FALSE, games |-> games]
<1>5. \A r \in Roots : stateFiles[r]["config"] = IF r = home THEN cf ELSE NoContent
  <2>1. "config" \in StateNames BY DEF StateNames
  <2> QED BY <1>1, <2>1
<1>6. /\ cf.form = "whole" /\ cf.games = games /\ NoContent.form = "none" BY LocationContents
<1> HIDE DEF cf
<1>7. \A r \in Roots : Holds(r, "config") <=> r = home BY <1>5, <1>6 DEF Holds
<1>8. Standard \in Roots /\ "data" \in Roots /\ "beside" \in Roots BY Distinct
<1>9. AimIsSure BY <1>2, <1>3, <1>5, <1>6, <1>8 DEF AimIsSure
<1>10. \A p \in GamePlaces : gameFiles[p] = IF p = at THEN GameBuilds ELSE {} BY <1>1
<1>11. known.builds = IF home = NoRoot THEN {} ELSE GameBuilds BY <1>1
<1>12. games \in GamePlaces \cup {NoPlace, Relative} BY LocationPlaces, Distinct
<1>13. CASE home = NoRoot
  <2>1. InPlace BY <1>3, <1>7, <1>8, <1>11, <1>13, PlacesDiffer DEF InPlace
  <2> QED BY <1>2, <1>4, <1>9, <2>1 DEF FoundInv, Found, Settled
<1>14. CASE home = Standard
  <2>1. ConfigAt(Aim) = cf BY <1>3, <1>5, <1>6, <1>8, <1>14 DEF ConfigAt
  <2>2. GamesPlace = at
    BY <1>3, <1>6, <1>14, <2>1, DefaultPlaceIs, GamesPlaceIs DEF Named, Unnamed
  <2>3. at \in GamePlaces BY <1>8, <1>12, <1>14, LocationPlaces
  <2>4. InPlace BY <1>3, <1>7, <1>8, <1>10, <1>11, <1>14, <2>2, <2>3, PlacesDiffer DEF InPlace
  <2> QED BY <1>2, <1>4, <1>9, <2>4 DEF FoundInv, Found, Settled
<1>15. CASE home \in {"data", "beside"}
  <2>1. home # NoRoot /\ home # Standard /\ home \in Roots BY <1>8, <1>15, PlacesDiffer
  <2>2. at = IF games \in {NoPlace, Relative} THEN Sub(home) ELSE games BY <2>1
  <2>3. at \in GamePlaces /\ Sub(home) \in GamePlaces BY <1>12, <2>1, <2>2, LocationPlaces
  <2> HIDE DEF at
  <2>4. OldLayout(home)
    BY <1>5, <1>6, <1>7, <1>8, <1>10, <1>11, <2>1, <2>2, <2>3 DEF OldLayout
  <2>5. NotReached(home) BY <1>2, <1>3, <1>7, <1>8, <2>1, <2>4 DEF NotReached
  <2> QED BY <1>4, <1>9, <1>15, <2>5 DEF FoundInv, Found
<1> QED BY <1>13, <1>14, <1>15

LEMMA FoundNow == TypesInv /\ FoundInv => BuildsAreFound
<1> SUFFICES ASSUME TypesInv, FoundInv, session \in {"wizard", "ready"}, ~Aside, ~known.hidden
             PROVE  known.builds \subseteq gameFiles[gameDir]
  BY DEF BuildsAreFound, InUse
<1>1. InPlace /\ InSession BY StartedIsSettled DEF FoundInv
<1> QED BY <1>1 DEF InPlace, InSession, FoundInv, SearchEnded

\* The launcher shows the state that was saved last and the builds there were, but for
\* what a mishap is known to have torn, left behind or hidden, and no copy replaces a
\* state file (state.py, platform/paths.py, application/setup_wizard.py).
THEOREM LocationStaysSafe == LocationSpec => LocationIsSafe
<1>1. LocationInit => StateInv /\ FoundInv BY StateInitially, FoundInitially
<1>2. StateInv /\ FoundInv /\ [LocationNext]_locationVars => (StateInv /\ FoundInv)'
  <2>1. ASSUME StateInv, FoundInv, [LocationNext]_locationVars PROVE StateInv' /\ FoundInv'
    <3>1. StateInv' BY <2>1, StateStep
    <3>2. TypesInv /\ TypesInv' BY <2>1, <3>1 DEF StateInv
    <3> QED BY <2>1, <3>1, <3>2, FoundStep
  <2> QED BY <2>1
<1>3. StateInv /\ FoundInv /\ (StateInv /\ FoundInv)' /\ [LocationNext]_locationVars
        => StateIsFollowed' /\ BuildsAreFound' /\ StateIsNotReplaced
  <2>1. StateInv /\ FoundInv => StateIsFollowed /\ BuildsAreFound
    BY FollowedNow, FoundNow DEF StateInv
  <2>2. (StateInv /\ FoundInv)' => StateIsFollowed' /\ BuildsAreFound' BY <2>1, PTL
  <2> QED BY <2>2, NothingIsReplaced
<1> QED BY <1>1, <1>2, <1>3, PTL DEF LocationSpec, LocationIsSafe

\* Data that goes to another directory is neither lost nor replaced, for any files,
\* directories and builds: MovesAreSafe, the two ways data moves together.
THEOREM MovesStaySafe == MigrationSpec /\ LocationSpec => MovesAreSafe
<1>1. MigrationSpec => MigrationIsSafe
  BY MigrationStaysSafe
<1>2. LocationSpec => LocationIsSafe
  BY LocationStaysSafe
<1> QED
  BY <1>1, <1>2 DEF MovesAreSafe
=============================================================================
