--------------------------- MODULE LauncherUpdate ---------------------------
(***************************************************************************)
(* The replacement of the launcher by its own update: core/updater.py      *)
(* prepares it, core/pending_update.py keeps it over restarts, and the     *)
(* scripts of assets/updater carry it out after the launcher has left.     *)
(* A version is a number; a file holds a version, a part of one, or is     *)
(* missing.  The digests of the marker are the version it names.  The      *)
(* Windows script copies the staged file, the others rename it.            *)
(***************************************************************************)
EXTENDS Integers

CONSTANTS Script,       \* processes of the updater script
          MaxVersion, MaxLosses

ASSUME UpdateAssumption ==
    MaxVersion \in Nat \ {0} /\ MaxLosses \in Nat

VARIABLES target,   \* the installed launcher
          backup,   \* TARGET.bak
          newFile,  \* TARGET.new
          payload,  \* the payload in the staging directory
          marker,   \* the version whose digest the marker holds, or 0
          launcher, \* the launcher process
          script,   \* step of each script, and whether it moved a target away
          windows,  \* the platform
          losses,   \* power losses so far
          crossed   \* history: the launcher was opened while a script worked

updateVars == <<target, backup, newFile, payload, marker, launcher, script, windows, losses,
                crossed>>

Version == 1..MaxVersion
Missing == 0
Piece == -1
Files == Version \union {Missing, Piece}
ScriptSteps == {"none", "wait", "ready", "copying", "copied", "cleared", "moved",
          "installing", "failed", "done"}

UpdateTypeOK ==
    /\ {target, backup, newFile} \subseteq Files
    /\ {payload, marker} \subseteq Version \union {Missing}
    /\ launcher \in {"closed", "running", "staged", "asking", "leaving", "stopping"}
    /\ script \in [Script -> [step: ScriptSteps, had: BOOLEAN]]
    /\ windows \in BOOLEAN /\ crossed \in BOOLEAN
    /\ losses \in 0..MaxLosses

NoScript == [step |-> "none", had |-> FALSE]

UpdateInit ==
    /\ target = 1
    /\ backup = Missing /\ newFile = Missing /\ payload = Missing
    /\ marker = 0
    /\ launcher \in {"closed", "running"}
    /\ script = [s \in Script |-> NoScript]
    /\ windows \in BOOLEAN
    /\ losses = 0 /\ crossed = FALSE

-----------------------------------------------------------------------------
Files4 == <<target, backup, newFile, payload>>
ScriptAtWork == \E s \in Script : script[s].step # "none"

\* Popen of the script with the validated marker, which stays on the disk.
StartScript(s, leaving) ==
    /\ script[s] = NoScript
    /\ script' = [script EXCEPT ![s].step = "wait"]
    /\ launcher' = leaving
    /\ UNCHANGED marker

\* resume_pending_update_if_needed: an invalid marker, or a script that does
\* not start, is dropped and the launcher goes on.
ResumeOrRun(s, leaving) ==
    \/ /\ marker # 0 /\ payload = marker
       /\ StartScript(s, leaving)
    \/ /\ marker # 0
       /\ marker' = 0
       /\ launcher' = "running"
       /\ UNCHANGED script
    \/ /\ marker = 0
       /\ launcher' = "running"
       /\ UNCHANGED <<marker, script>>

\* The user opens the launcher, if there is one to open.  A script may still
\* be at work on it: nothing in the code keeps a second one away.
OpenLauncher(s) ==
    /\ launcher = "closed"
    /\ target \in Version
    /\ ResumeOrRun(s, "leaving")
    /\ crossed' = (crossed \/ ScriptAtWork)
    /\ UNCHANGED <<Files4, windows, losses>>

IsNewer(v) == v > target

\* A verified download is copied to the staging directory ...
StagePayload(v) ==
    /\ launcher = "running"
    /\ IsNewer(v)
    /\ payload' = v
    /\ launcher' = "staged"
    /\ UNCHANGED <<target, backup, newFile, marker, script, windows, losses, crossed>>

\* ... and the marker is written, or the preparation fails.
WriteMarker ==
    /\ launcher = "staged"
    /\ \/ marker' = payload /\ launcher' = "asking"
       \/ UNCHANGED marker /\ launcher' = "running"
    /\ UNCHANGED <<Files4, script, windows, losses, crossed>>

\* execute_update after the user's consent.
ConfirmUpdate(s) ==
    /\ launcher = "asking"
    /\ ResumeOrRun(s, "stopping")
    /\ UNCHANGED <<Files4, windows, losses, crossed>>

DeclineUpdate ==
    /\ launcher = "asking"
    /\ marker' = 0
    /\ launcher' = "running"
    /\ UNCHANGED <<Files4, script, windows, losses, crossed>>

\* The process ends, as it should, because the user closes it, or it dies.
LauncherExits ==
    /\ launcher # "closed"
    /\ launcher' = "closed"
    /\ script' = [s \in Script |-> IF script[s].step = "wait"
                                   THEN [script[s] EXCEPT !.step = "ready"]
                                   ELSE script[s]]
    /\ UNCHANGED <<Files4, marker, windows, losses, crossed>>

-----------------------------------------------------------------------------
To(s, step) == script' = [script EXCEPT ![s].step = step]
Stops(s) == script' = [script EXCEPT ![s] = NoScript]

\* The shutdown of a launcher with its window has taken sixty seconds: the
\* marker stays for the next start.
WaitTimesOut(s) ==
    /\ script[s].step = "wait"
    /\ launcher = "stopping"
    /\ Stops(s)
    /\ UNCHANGED <<Files4, marker, launcher, windows, losses, crossed>>

\* cleanup_marker_if_runnable with what the target is after the step.
DropMarkerIfRunnable_Never(file) == UNCHANGED marker
DropMarkerIfRunnable(file) ==
    IF file # Missing THEN marker' = 0 ELSE UNCHANGED marker

GiveUp(s) == DropMarkerIfRunnable(target) /\ Stops(s)

BeginCopy(s) ==
    /\ script[s].step = "ready"
    /\ IF payload = Missing
       THEN GiveUp(s) /\ UNCHANGED newFile
       ELSE newFile' = Piece /\ To(s, "copying") /\ UNCHANGED marker
    /\ UNCHANGED <<target, backup, payload, launcher, windows, losses, crossed>>

\* cp ends, or fails; a script that started later may have removed the file.
EndCopy(s) ==
    /\ script[s].step = "copying"
    /\ \/ /\ newFile # Missing
          /\ newFile' = IF payload = Missing THEN newFile ELSE payload
          /\ To(s, "copied")
          /\ UNCHANGED marker
       \/ /\ newFile' = Missing
          /\ GiveUp(s)
    /\ UNCHANGED <<target, backup, payload, launcher, windows, losses, crossed>>

RemoveBackup(s) ==
    /\ script[s].step = "copied"
    /\ backup' = Missing
    /\ To(s, "cleared")
    /\ UNCHANGED <<target, newFile, payload, marker, launcher, windows, losses, crossed>>

\* The current launcher becomes the rollback copy.
MoveTarget(s) ==
    /\ script[s].step = "cleared"
    /\ \/ /\ target # Missing
          /\ backup' = target
          /\ target' = Missing
          /\ script' = [script EXCEPT ![s] = [step |-> "moved", had |-> TRUE]]
          /\ UNCHANGED <<newFile, marker>>
       \/ /\ target = Missing
          /\ To(s, "moved")
          /\ UNCHANGED <<target, backup, newFile, marker>>
       \/ /\ newFile' = Missing
          /\ GiveUp(s)
          /\ UNCHANGED <<target, backup>>
    /\ UNCHANGED <<payload, launcher, windows, losses, crossed>>

\* mv of the staged file, or the begin of a copy.
InstallFiles(s) ==
    /\ script[s].step = "moved"
    /\ \/ /\ newFile # Missing
          /\ IF windows
             THEN target' = Piece /\ To(s, "installing") /\ UNCHANGED newFile
             ELSE target' = newFile /\ newFile' = Missing /\ To(s, "done")
       \/ To(s, "failed") /\ UNCHANGED <<target, newFile>>
    /\ UNCHANGED <<backup, payload, marker, launcher, windows, losses, crossed>>

\* The copy of the Windows script ends, or its result is refused.
EndInstall(s) ==
    /\ script[s].step = "installing"
    /\ \/ /\ newFile # Missing
          /\ target' = newFile
          /\ To(s, "done")
       \/ To(s, "failed") /\ UNCHANGED target
    /\ UNCHANGED <<backup, newFile, payload, marker, launcher, windows, losses, crossed>>

RestorePrevious_NoBackup(s) ==
    /\ script[s].step = "failed"
    /\ target' = Missing
    /\ backup' = Missing
    /\ Stops(s)
    /\ UNCHANGED <<newFile, payload, marker, launcher, windows, losses, crossed>>

\* restore_previous: what is in place is removed and the rollback copy put
\* back, if this script made one.
RestorePrevious(s) ==
    /\ script[s].step = "failed"
    /\ LET back == IF script[s].had /\ backup # Missing THEN backup ELSE Missing
       IN  /\ target' = back
           /\ backup' = IF back = Missing \/ windows THEN backup ELSE Missing
           /\ DropMarkerIfRunnable(back)
    /\ Stops(s)
    /\ UNCHANGED <<newFile, payload, launcher, windows, losses, crossed>>

FinishUpdate(s) ==
    /\ script[s].step = "done"
    /\ backup' = Missing
    /\ payload' = Missing
    /\ newFile' = IF windows THEN Missing ELSE newFile
    /\ marker' = 0
    /\ Stops(s)
    /\ UNCHANGED <<target, launcher, windows, losses, crossed>>

\* The machine goes down with whatever was under way.
PowerLoss ==
    /\ losses < MaxLosses
    /\ losses' = losses + 1
    /\ launcher' = "closed"
    /\ script' = [s \in Script |-> NoScript]
    /\ UNCHANGED <<Files4, marker, windows, crossed>>

ScriptStep(s) ==
    \/ WaitTimesOut(s) \/ BeginCopy(s) \/ EndCopy(s) \/ RemoveBackup(s) \/ MoveTarget(s)
    \/ InstallFiles(s) \/ EndInstall(s) \/ RestorePrevious(s) \/ FinishUpdate(s)

UpdateNext ==
    \/ \E s \in Script : OpenLauncher(s) \/ ConfirmUpdate(s) \/ ScriptStep(s)
    \/ \E v \in Version : StagePayload(v)
    \/ WriteMarker \/ DeclineUpdate \/ LauncherExits \/ PowerLoss

UpdateSpec == UpdateInit /\ [][UpdateNext]_updateVars

-----------------------------------------------------------------------------
\* Wherever the replacement is interrupted, a whole launcher is on the disk,
\* in its place or as the rollback copy.
LauncherNotLost == {target, backup} \intersect Version # {}

\* What the script puts in place is never older than what it moved away,
\* whichever markers and payloads earlier attempts have left.
NeverDowngrades == {target, backup} \subseteq Version => backup <= target

\* Whatever an update meets, what is on the disk is a launcher, and not an
\* older one (the updater scripts, write_pending_update_marker), unless the
\* launcher was opened while a script worked, and two have met.
UpdateIsSafe == crossed \/ (LauncherNotLost /\ NeverDowngrades)

\* A pending update does not keep the launcher from opening for ever: each
\* start may hand over to a script, but one of them opens the launcher unless
\* there is none left in place.
OpensAgain == launcher = "closed" ~> launcher = "running" \/ target \notin Version
=============================================================================
