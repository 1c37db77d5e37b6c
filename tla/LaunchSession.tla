---------------------------- MODULE LaunchSession ----------------------------
(***************************************************************************)
(* One game directory of a TensaCraft pack over the life of the launcher:  *)
(* Game.start and LaunchWorkflow.run (core/game.py, application/           *)
(* launch_workflow.py), the pack synchronization (core/loaders/            *)
(* tensacraft.py), the operations that replace files of the directory, the *)
(* game processes, the monitor of each of them, and restarts.              *)
(*                                                                         *)
(* Every operation holds the instance lease from its start to its end      *)
(* (InstanceLease.tla), so one `op` runs at a time and others are refused. *)
(* The file journal is kept as far as recover() tells its states apart     *)
(* (FileSyncJournal.tla has the rest): "open" is any state before the      *)
(* commit, "marked" the schema-1 record of mark_repair_required.           *)
(***************************************************************************)
EXTENDS Naturals, FiniteSets

CONSTANTS Games, NoGame,  \* the game processes: a bound on the launches
          MaxSessions     \* bound on the lives of the launcher

ASSUME SessionAssumption == NoGame \notin Games /\ MaxSessions \in Nat \ {0}

VARIABLES
    op,       \* the operation that has the lease, and its next step
    games,    \* the processes: their state and the launcher life that started them
    known,    \* _active_game_dirs: the processes this launcher knows of
    monitor,  \* _monitor_launch_process of each process
    slot,     \* _recent_launches: is the launch cooldown of the directory on?
    journal,  \* disk: the status of the file journal
    torn,     \* disk: an undecided transaction has moved files
    session

sessionVars == <<op, games, known, monitor, slot, journal, torn, session>>

Kinds   == {"none", "launch", "sync", "restore", "install"}
Steps   == {"none", "sync", "recovering", "plan", "apply", "applying", "committing", "verify",
            "spawn", "register", "restoring", "installing", "adding"}
Ops     == [kind : Kinds, step : Steps, game : Games \cup {NoGame}]
NoOp    == [kind |-> "none", step |-> "none", game |-> NoGame]

Running     == {g \in Games : games[g].state = "running"}
\* is_game_dir_active asks every known process whether it is alive.
KnownActive == known \cap Running # {}

At(step)   == op.step = step
Goto(step) == op' = [op EXCEPT !.step = step]
\* The operation ends; a launch that started no game gives its slot back.
End == op' = NoOp /\ slot' = IF op.kind = "launch" THEN FALSE ELSE slot

Begin(kind, step) ==
    /\ op = NoOp
    /\ op' = [NoOp EXCEPT !.kind = kind, !.step = step]

-----------------------------------------------------------------------------
(* The operations start.                                                   *)

\* Game.start: a second game needs allow_duplicate, a second launch the end of the cooldown.
Launch(duplicate) ==
    /\ KnownActive => duplicate
    /\ ~slot /\ slot' = TRUE
    /\ Begin("launch", "sync")
    /\ UNCHANGED <<games, known, monitor, journal, torn, session>>

\* The user synchronizes the pack.
Sync ==
    /\ Begin("sync", "sync")
    /\ UNCHANGED <<games, known, monitor, slot, journal, torn, session>>

\* A world restore, or an installation that replaces files, refuses a running game.
Restore ==
    /\ ~KnownActive /\ Begin("restore", "restoring")
    /\ UNCHANGED <<games, known, monitor, slot, journal, torn, session>>

\* A content installation that only adds files is let in.
Install ==
    /\ Begin("install", IF KnownActive THEN "adding" ELSE "installing")
    /\ UNCHANGED <<games, known, monitor, slot, journal, torn, session>>

EndOther ==
    /\ op.step \in {"restoring", "installing", "adding"} /\ End
    /\ UNCHANGED <<games, known, monitor, journal, torn, session>>

-----------------------------------------------------------------------------
(* _sync_update_locked.                                                    *)

AfterSync == \/ op.kind = "launch" /\ Goto("verify") /\ UNCHANGED slot
             \/ op.kind # "launch" /\ End

\* Without the API the synchronization returns before it looks at the journal.
SyncOffline ==
    /\ op.step \in {"sync", "plan"} /\ AfterSync
    /\ UNCHANGED <<games, known, monitor, journal, torn, session>>

\* Anything the synchronization meets may raise, and the launch it belongs to ends.
SyncFails ==
    /\ op.step \in {"sync", "recovering", "plan", "apply"} /\ End
    /\ UNCHANGED <<games, known, monitor, journal, torn, session>>

SyncClean ==
    /\ At("sync") /\ journal = "settled"
    /\ Goto("plan")
    /\ UNCHANGED <<games, known, monitor, slot, journal, torn, session>>

\* needs_recovery: the directory must be idle; an interrupted commit waits for its transaction.
SyncRecovers ==
    /\ At("sync") /\ journal # "settled" /\ ~KnownActive
    /\ Goto(IF journal = "committing" THEN "plan" ELSE "recovering")
    /\ UNCHANGED <<games, known, monitor, slot, journal, torn, session>>

\* FileSyncJournal.recover: an open transaction is undone; a mark stays, there is nothing in it.
Recover ==
    /\ At("recovering") /\ Goto("plan")
    /\ IF journal = "open" THEN journal' = "settled" /\ torn' = FALSE
                           ELSE UNCHANGED <<journal, torn>>
    /\ UNCHANGED <<games, known, monitor, slot, session>>

\* Nothing to change: the profile is saved.  A forced synchronization, too, finds nothing if the
\* manifest names no file, and then the journal stays what it is.
PlanUnchanged ==
    /\ At("plan") /\ AfterSync
    /\ UNCHANGED <<games, known, monitor, journal, torn, session>>

PlanChanges ==
    /\ At("plan") /\ ~KnownActive
    /\ Goto("apply")
    /\ UNCHANGED <<games, known, monitor, slot, journal, torn, session>>

\* Mutant: a transaction refuses to begin over a repair mark.
Apply_Unmarked ==
    /\ At("apply") /\ journal \notin {"open", "marked"}
    /\ journal' = "open" /\ torn' = TRUE
    /\ Goto("applying")
    /\ UNCHANGED <<games, known, monitor, slot, session>>

\* begin_transaction: an interrupted commit with the same key is resumed first (with another
\* key it raises, SyncFails), then the journal is the new transaction's.
Apply ==
    /\ At("apply") /\ journal # "open"
    /\ journal' = "open" /\ torn' = TRUE
    /\ Goto("applying")
    /\ UNCHANGED <<games, known, monitor, slot, session>>

\* Mutant: the journal says rolled back although the undo failed.
ApplyFails_Settled ==
    /\ At("applying") /\ End
    /\ journal' = "settled" /\ torn' \in BOOLEAN
    /\ UNCHANGED <<games, known, monitor, session>>

\* The transaction fails and is undone; an undo that fails leaves it open.
ApplyFails ==
    /\ At("applying") /\ End
    /\ \/ journal' = "settled" /\ torn' = FALSE
       \/ UNCHANGED <<journal, torn>>
    /\ UNCHANGED <<games, known, monitor, session>>

\* Every managed file is now the manifest's.  What fails after the mark is FileSyncJournal's
\* subject (the run `complete` there).
Commit ==
    /\ At("applying") /\ Goto("committing")
    /\ journal' = "committing" /\ torn' = FALSE
    /\ UNCHANGED <<games, known, monitor, slot, session>>

Complete ==
    /\ At("committing") /\ AfterSync
    /\ journal' = "settled"
    /\ UNCHANGED <<games, known, monitor, torn, session>>

-----------------------------------------------------------------------------
(* The rest of a launch.                                                   *)

\* _verify and the automatic world backup, whose failure is only logged.
Verify ==
    /\ At("verify")
    /\ \/ Goto("spawn") /\ UNCHANGED slot
       \/ End
    /\ UNCHANGED <<games, known, monitor, journal, torn, session>>

\* Mutant: the lease is given back when the process starts, before it is registered.
Spawn_Released ==
    /\ At("spawn")
    /\ \E g \in Games :
          /\ games[g].state = "unused"
          /\ games' = [games EXCEPT ![g] = [state |-> "running", session |-> session]]
    /\ op' = NoOp
    /\ UNCHANGED <<known, monitor, slot, journal, torn, session>>

\* subprocess.Popen starts the game, or raises.
Spawn ==
    /\ At("spawn")
    /\ \/ End /\ UNCHANGED games
       \/ \E g \in Games :
             /\ games[g].state = "unused"
             /\ games' = [games EXCEPT ![g] = [state |-> "running", session |-> session]]
             /\ op' = [op EXCEPT !.step = "register", !.game = g] /\ UNCHANGED slot
    /\ UNCHANGED <<known, monitor, journal, torn, session>>

\* The process is registered under the lease, and its monitor starts; the slot stays taken.
Register ==
    /\ At("register")
    /\ known' = known \cup {op.game}
    /\ monitor' = [monitor EXCEPT ![op.game] = "watching"]
    /\ op' = NoOp
    /\ UNCHANGED <<games, slot, journal, torn, session>>

\* LAUNCH_COOLDOWN_SECONDS are over.
Cooldown ==
    /\ slot /\ slot' = FALSE
    /\ UNCHANGED <<op, games, known, monitor, journal, torn, session>>

-----------------------------------------------------------------------------
(* The games and their monitors.                                           *)

Exit(g) ==
    /\ games[g].state = "running"
    /\ games' = [games EXCEPT ![g].state = "exited"]
    /\ UNCHANGED <<op, known, monitor, slot, journal, torn, session>>

\* The monitor sees the end of the process and takes it for a normal one, or for a crash.
Notice(g) ==
    /\ monitor[g] = "watching" /\ games[g].state = "exited"
    /\ monitor' = [monitor EXCEPT ![g] = "diagnosed"]
    /\ UNCHANGED <<op, games, known, slot, journal, torn, session>>

\* Mutant: the mark is a status that needs_repair does not know.
MarkRepair_Unknown(g) ==
    /\ monitor[g] = "diagnosed" /\ op = NoOp
    /\ journal' = "crashed"
    /\ monitor' = [monitor EXCEPT ![g] = "marked"]
    /\ UNCHANGED <<op, games, known, slot, torn, session>>

\* _mark_tensacraft_repair_sync_required, for some crashes; not while an operation runs.
MarkRepair(g) ==
    /\ monitor[g] = "diagnosed" /\ op = NoOp
    /\ journal' = "marked"
    /\ monitor' = [monitor EXCEPT ![g] = "marked"]
    /\ UNCHANGED <<op, games, known, slot, torn, session>>

\* _release_active_game_dir
Release(g) ==
    /\ monitor[g] \in {"diagnosed", "marked"}
    /\ known' = known \ {g}
    /\ monitor' = [monitor EXCEPT ![g] = "none"]
    /\ UNCHANGED <<op, games, slot, journal, torn, session>>

-----------------------------------------------------------------------------
\* The launcher ends (closed by the user or after the game has started, or it dies), and is
\* started again: the registry, the slot and the monitors were its memory.
Restart ==
    /\ session < MaxSessions /\ session' = session + 1
    /\ op' = NoOp /\ known' = {} /\ slot' = FALSE
    /\ monitor' = [g \in Games |-> "none"]
    /\ UNCHANGED <<games, journal, torn>>

SessionInit ==
    /\ op = NoOp /\ known = {} /\ slot = FALSE /\ journal = "settled" /\ torn = FALSE
    /\ games = [g \in Games |-> [state |-> "unused", session |-> 0]]
    /\ monitor = [g \in Games |-> "none"]
    /\ session = 1

SyncStep == \/ SyncOffline \/ SyncFails \/ SyncClean \/ SyncRecovers \/ Recover
            \/ PlanUnchanged \/ PlanChanges \/ Apply \/ ApplyFails \/ Commit \/ Complete
OpStep   == SyncStep \/ EndOther \/ Verify \/ Spawn \/ Register
SessionNext ==
    \/ \E duplicate \in BOOLEAN : Launch(duplicate)
    \/ Sync \/ Restore \/ Install
    \/ OpStep \/ Cooldown \/ Restart
    \/ \E g \in Games : Exit(g) \/ Notice(g) \/ MarkRepair(g) \/ Release(g)
SessionSpec == SessionInit /\ [][SessionNext]_sessionVars

\* Games end, operations end, the user synchronizes again and again; the API and the disk fail
\* now and then and work now and then.
SessionFairSpec ==
    /\ SessionSpec
    /\ WF_sessionVars(OpStep) /\ SF_sessionVars(Sync) /\ \A g \in Games : WF_sessionVars(Exit(g))
    /\ SF_sessionVars(SyncRecovers) /\ SF_sessionVars(Recover) /\ SF_sessionVars(PlanChanges) /\ SF_sessionVars(Apply)
    /\ SF_sessionVars(Commit)

-----------------------------------------------------------------------------
(* Properties                                                              *)

\* Every variable has its type.
SessionTypeOK ==
    /\ op \in Ops /\ known \in SUBSET Games
    /\ games \in [Games -> [state : {"unused", "running", "exited"}, session : Nat]]
    /\ monitor \in [Games -> {"none", "watching", "diagnosed", "marked"}]
    /\ slot \in BOOLEAN /\ torn \in BOOLEAN /\ session \in Nat
    /\ journal \in {"settled", "open", "committing", "marked"}

\* An operation that moves, replaces or deletes files of the directory.
Replacing == op.step \in {"recovering", "applying", "restoring", "installing"}

\* No file is replaced under a game that this launcher started, whatever was checked how long
\* before: a game cannot start, or be forgotten, between the check and the writing.
NoWriteUnderOwnGame ==
    Replacing => \A g \in Running : games[g].session # session

\* docs/INSTALLATION_INTEGRITY.md:36-37: synchronization "defers recovery while the game
\* directory is active so it does not replace files used by a running game".
NoWriteUnderGame == op.step \in {"recovering", "applying"} => Running = {}

\* A directory with half-changed files is always found out: its journal is never settled, and
\* what a crashed game's diagnosis writes into it, or leaves unwritten, does not hide it.
DamageIsKnown == torn => journal \in {"open", "marked"}

\* A transaction that moves files is the one the journal holds: no diagnosis and no other
\* operation replaces the record that would undo it.
JournalIsOwned ==
    /\ op.step = "applying" => journal = "open"
    /\ op.step = "committing" => journal = "committing"

\* The journal tells the truth about the directory, whoever writes it (_mark_tensacraft_repair_
\* sync_required, _sync_update_locked).
JournalIsTrue == DamageIsKnown /\ JournalIsOwned

\* Half-changed files do not stay: when the API and the disk work often enough, the
\* synchronization repairs them, however often games crash and launches come in between.
DamageIsRepaired == torn ~> ~torn

\* docs/INSTALLATION_INTEGRITY.md:33-34: "An interrupted pre-commit transaction is rolled back
\* before a new operation starts."
RolledBackFirst == [][Apply => ~torn]_sessionVars
=============================================================================
