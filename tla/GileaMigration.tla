--------------------------- MODULE GileaMigration ---------------------------
(***************************************************************************)
(* The move to GileaLauncher: application/gilea_migration/transaction.py.  *)
(* Contents are staged in the recovery directory, copied to temporary files   *)
(* beside their destinations and renamed into place; an authenticated      *)
(* journal records what was staged, which directories were made and the    *)
(* identity (device and inode) of each temporary file once it is whole.    *)
(* Recovery removes only what it can prove to be its own.  The locks of    *)
(* the call exclude other launchers, but not the user.                     *)
(***************************************************************************)
EXTENDS Integers, FiniteSets

CONSTANTS Outputs,      \* number of files the plan brings over
          MaxMoves,     \* runs of commit_migration
          MaxMeddling   \* files touched by the user or by Gilea

ASSUME MigrationAssumption == {Outputs, MaxMoves, MaxMeddling} \subseteq Nat

VARIABLES output,    \* each destination: "none", "ours" or "theirs"
          temporary, \* each temporary file: "none", "part" or "whole"
          folder,    \* the directory made for them: exists, has a file of the user
          moved,     \* journal.json: phase, entries staged, identities, folder
          stage,     \* step of the running call
          file,      \* the entry it works on
          conflicts, \* _recover has met a file it does not know
          cut,       \* a copy of this run ended before its identity was saved
          moves, meddled

migrationVars == <<output, temporary, folder, moved, stage, file, conflicts, cut,
                   moves, meddled>>

Outs == 1..Outputs
NoMove == [phase |-> "none", entries |-> 0, known |-> {}, folder |-> FALSE]
OurWork == {"staging", "making", "folder", "copying", "copied", "identified", "checking",
            "committing"}

MigrationTypeOK ==
    /\ output \in [Outs -> {"none", "ours", "theirs"}]
    /\ temporary \in [Outs -> {"none", "part", "whole"}]
    /\ folder \in [made: BOOLEAN, theirs: BOOLEAN]
    /\ moved \in [phase: {"none", "preparing", "staged", "activating", "committed",
                          "rolled_back", "repair_required"},
                  entries: 0..Outputs, known: SUBSET Outs, folder: BOOLEAN]
    /\ stage \in OurWork \union {"idle", "undo", "clear", "settle"}
    /\ file \in 0..(Outputs + 1)
    /\ conflicts \in BOOLEAN /\ cut \in BOOLEAN

MigrationInit ==
    /\ output = [i \in Outs |-> "none"]
    /\ temporary = [i \in Outs |-> "none"]
    /\ folder = [made |-> FALSE, theirs |-> FALSE]
    /\ moved = NoMove
    /\ stage = "idle" /\ file = 0 /\ conflicts = FALSE /\ cut = FALSE
    /\ moves = 0 /\ meddled = 0

-----------------------------------------------------------------------------
Now(s, i) == stage' = s /\ file' = i
Contents == <<output, temporary, folder>>
OthersUseFolder == folder.theirs \/ \E i \in Outs : output[i] = "theirs"
Interrupted == moved.phase \notin {"none", "committed", "rolled_back"}

\* _recover, on the journal as it is on the disk, from the last entry down.
Undo == Now("undo", moved.entries) /\ conflicts' = FALSE

\* recover_migration at a start of the launcher (startup_forward) or before a
\* plan is made (_prepare); commit_migration recovers before it begins, too.
RecoverMigration ==
    /\ stage = "idle" /\ Interrupted
    /\ Undo
    /\ UNCHANGED <<Contents, moved, cut, moves, meddled>>

\* commit_migration: destinations must be empty, then a new journal is begun.
BeginMigration ==
    /\ stage = "idle" /\ moved.phase \in {"none", "rolled_back"} /\ moves < MaxMoves
    /\ ~folder.made /\ ~OthersUseFolder
    /\ moves' = moves + 1
    /\ moved' = [NoMove EXCEPT !.phase = "preparing"]
    /\ cut' = FALSE
    /\ Now("staging", 1)
    /\ UNCHANGED <<Contents, conflicts, meddled>>

\* _stage: one file copied into the recovery directory, one entry saved.
StageFile ==
    /\ stage = "staging" /\ file <= Outputs
    /\ moved' = [moved EXCEPT !.entries = file]
    /\ Now("staging", file + 1)
    /\ UNCHANGED <<Contents, conflicts, cut, moves, meddled>>

\* The sources and the destinations are looked at again.
EndStaging ==
    /\ stage = "staging" /\ file > Outputs
    /\ ~OthersUseFolder
    /\ moved' = [moved EXCEPT !.phase = "staged"]
    /\ Now("making", 0)
    /\ UNCHANGED <<Contents, conflicts, cut, moves, meddled>>

\* _mkdir: a missing directory is written down before it is made.
RecordFolder ==
    /\ stage = "making"
    /\ moved' = [moved EXCEPT !.folder = ~OthersUseFolder]
    /\ Now("folder", 0)
    /\ UNCHANGED <<Contents, conflicts, cut, moves, meddled>>

MakeFolder ==
    /\ stage = "folder"
    /\ folder' = [folder EXCEPT !.made = TRUE]
    /\ moved' = [moved EXCEPT !.phase = "activating"]
    /\ Now("copying", 1)
    /\ UNCHANGED <<output, temporary, conflicts, cut, moves, meddled>>

\* The temporary file is created; what interrupts its copying leaves a part.
BeginCopyOut ==
    /\ stage = "copying" /\ file <= Outputs
    /\ output[file] = "none" /\ temporary[file] = "none"
    /\ temporary' = [temporary EXCEPT ![file] = "part"]
    /\ UNCHANGED <<output, folder, moved, stage, file, conflicts, cut, moves, meddled>>

EndCopyOut ==
    /\ stage = "copying" /\ file <= Outputs
    /\ temporary[file] = "part"
    /\ temporary' = [temporary EXCEPT ![file] = "whole"]
    /\ Now("copied", file)
    /\ UNCHANGED <<output, folder, moved, conflicts, cut, moves, meddled>>

SaveIdentity ==
    /\ stage = "copied"
    /\ moved' = [moved EXCEPT !.known = @ \union {file}]
    /\ Now("identified", file)
    /\ UNCHANGED <<Contents, conflicts, cut, moves, meddled>>

\* os.rename of Windows replaces nothing.
RenameOut ==
    /\ stage = "identified" /\ output[file] = "none"
    /\ output' = [output EXCEPT ![file] = "ours"]
    /\ temporary' = [temporary EXCEPT ![file] = "none"]
    /\ Now("copying", file + 1)
    /\ UNCHANGED <<folder, moved, conflicts, cut, moves, meddled>>

\* Every destination is read again before the commit.
CheckOutputs ==
    /\ stage = "copying" /\ file > Outputs
    /\ \A i \in Outs : output[i] = "ours"
    /\ Now("committing", 0)
    /\ UNCHANGED <<Contents, moved, conflicts, cut, moves, meddled>>

CommitMigration ==
    /\ stage = "committing"
    /\ moved' = [moved EXCEPT !.phase = "committed"]
    /\ Now("idle", 0)
    /\ UNCHANGED <<Contents, conflicts, cut, moves, meddled>>

\* A copy whose identity is not yet in the journal.
CutsCopy == stage \in {"copying", "copied"} /\ file <= Outputs /\ temporary[file] # "none"

\* An error, a check that fails or the cancel event: `except Exception`.
MigrationFails ==
    /\ stage \in OurWork
    /\ Undo
    /\ cut' = (cut \/ CutsCopy)
    /\ UNCHANGED <<Contents, moved, moves, meddled>>

\* The process dies, or an error of the recovery itself leaves _recover.
MigrationStops ==
    /\ stage # "idle"
    /\ Now("idle", 0)
    /\ cut' = (cut \/ CutsCopy)
    /\ UNCHANGED <<Contents, moved, conflicts, moves, meddled>>

IsOurs_ByRecord(i) == i \in moved.known

\* The digest is the entry's, and the identity the one that was saved.
IsOurs(i) == output[i] = "ours" /\ i \in moved.known

\* The output and the temporary file of one entry.  What cannot be proven to
\* be ours is left where it is.
UndoEntryOut ==
    /\ stage = "undo" /\ file > 0
    /\ output' = [output EXCEPT ![file] = IF IsOurs(file) THEN "none" ELSE @]
    /\ temporary' = [temporary EXCEPT ![file] = IF @ = "whole" /\ file \in moved.known
                                                THEN "none" ELSE @]
    /\ conflicts' = (conflicts \/ output'[file] # "none" \/ temporary'[file] # "none")
    /\ Now("undo", file - 1)
    /\ UNCHANGED <<folder, moved, cut, moves, meddled>>

\* Directories are removed when they are empty.
RemoveFolder ==
    /\ stage = "undo" /\ file = 0
    /\ IF moved.folder /\ folder.made
       THEN LET empty == /\ ~folder.theirs
                         /\ \A i \in Outs : output[i] = "none" /\ temporary[i] = "none"
            IN  /\ folder' = [folder EXCEPT !.made = ~empty]
                /\ conflicts' = (conflicts \/ ~empty)
       ELSE UNCHANGED <<folder, conflicts>>
    /\ Now("settle", 0)
    /\ UNCHANGED <<output, temporary, moved, cut, moves, meddled>>

SettleMigration ==
    /\ stage = "settle"
    /\ moved' = [moved EXCEPT !.phase = IF conflicts THEN "repair_required" ELSE "rolled_back"]
    /\ Now("idle", 0)
    /\ UNCHANGED <<Contents, conflicts, cut, moves, meddled>>

\* The user, or Gilea once it runs, makes or changes a file at a destination,
\* or puts one of its own into the directory.
Meddle ==
    /\ meddled < MaxMeddling /\ meddled' = meddled + 1
    /\ \/ \E i \in Outs : output' = [output EXCEPT ![i] = "theirs"] /\ UNCHANGED folder
       \/ folder' = [folder EXCEPT !.theirs = TRUE] /\ UNCHANGED output
    /\ UNCHANGED <<temporary, moved, stage, file, conflicts, cut, moves>>

\* "manual investigation": the user removes what blocks the recovery.
RepairByHand ==
    /\ stage = "idle" /\ moved.phase = "repair_required"
    /\ output' = [i \in Outs |-> IF output[i] = "theirs" THEN "none" ELSE output[i]]
    /\ temporary' = [i \in Outs |-> "none"]
    /\ folder' = [made |-> folder.made /\ moved.folder, theirs |-> FALSE]
    /\ UNCHANGED <<moved, stage, file, conflicts, cut, moves, meddled>>

MigrationStep ==
    \/ StageFile \/ EndStaging \/ RecordFolder \/ MakeFolder \/ BeginCopyOut \/ EndCopyOut
    \/ SaveIdentity \/ RenameOut \/ CheckOutputs \/ CommitMigration
    \/ UndoEntryOut \/ RemoveFolder \/ SettleMigration \/ MigrationFails

MigrationNext ==
    \/ RecoverMigration \/ BeginMigration \/ MigrationStep \/ MigrationStops
    \/ Meddle \/ RepairByHand

MigrationSpec == MigrationInit /\ [][MigrationNext]_migrationVars

-----------------------------------------------------------------------------
\* "Automatic cleanup removes only recorded files whose content and file
\* identity still match" (docs/GILEA_MIGRATION.md), and all of those: after a
\* rollback nothing of the migration is left, and manual repair is asked for
\* only when somebody has touched the files or a copy was cut short.
MigrationIsReversible ==
    /\ moved.phase = "rolled_back" =>
          /\ \A i \in Outs : output[i] # "ours" /\ temporary[i] = "none"
          /\ folder.made => OthersUseFolder
    /\ moved.phase = "repair_required" => meddled > 0 \/ cut
    /\ moved.phase = "committed" /\ meddled = 0 => \A i \in Outs : output[i] = "ours"

\* The files of others survive the migration, its failures and its recovery:
\* only their owner takes them away (_recover, "Later worlds or user files
\* survive").
TheirFilesSurvive ==
    [][\A i \in Outs : output[i] = "theirs" /\ output'[i] # "theirs" => RepairByHand]_migrationVars

\* What the move leaves behind when it does not succeed is what it found
\* (commit_migration, _recover).
MigrationIsSafe == []MigrationIsReversible /\ TheirFilesSurvive
=============================================================================
