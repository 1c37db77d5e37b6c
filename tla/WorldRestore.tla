----------------------------- MODULE WorldRestore -----------------------------
(***************************************************************************)
(* Restoring a world from a backup: WorldBackupService.restore_backup      *)
(* (application/world_backups.py) over the `saves` directory of one game   *)
(* directory, with its durable phase journal and the recovery every        *)
(* restore starts with.                                                    *)
(*                                                                         *)
(* A directory holds a copy of a world (a number; a restore brings a new   *)
(* one), is Absent, or is Partial: rmtree and extractall work file by file *)
(* and may stop half-way.  The staged and the previous directory are those *)
(* that the running call or the journal names.  The instance lease keeps   *)
(* other calls out and the idle check keeps the game out while a call      *)
(* runs; between calls the player plays, creates and deletes worlds.       *)
(***************************************************************************)
EXTENDS Naturals, FiniteSets

CONSTANTS
    Worlds, NoWorld,
    Absent, Partial,
    MaxCopies,   \* bound on the copies made by restores and by the player
    MaxFaults,   \* bound on the raised I/O errors
    MaxCrashes,  \* bound on the deaths of the launcher
    MaxMeddles   \* bound on what the player does to the world of an open journal

ASSUME RestoreAssumption ==
    /\ NoWorld \notin Worlds
    /\ Absent \notin Nat /\ Partial \notin Nat /\ Absent # Partial
    /\ MaxCopies \in Nat /\ MaxFaults \in Nat /\ MaxCrashes \in Nat /\ MaxMeddles \in Nat

VARIABLES
    live,              \* disk: the directories of the worlds
    staged, previous,  \* disk: the extracted backup, the world it replaces
    journal,           \* disk: .tensalauncher-world-restore.json
    pc, cont, target,  \* the running call: next step, who called the recovery, its world
    kept,              \* history: the copies of each world the player has and did not give up
    copies, faults, crashes, meddles

disk    == <<live, staged, previous, journal>>
call    == <<pc, cont, target>>
bounds  == <<copies, faults, crashes, meddles>>
restoreVars    == <<disk, call, kept, bounds>>

Phases  == {"prepared", "original_moved", "activated"}
Dirs    == Nat \cup {Absent, Partial}
NoJournal == [world |-> NoWorld, phase |-> "prepared", had |-> FALSE]
Journals  == [world : Worlds \cup {NoWorld}, phase : Phases, had : BOOLEAN]

Pending   == journal # NoJournal
\* The world that _recover_restore_transaction is about.
Named     == live[journal.world]

Goto(label) == /\ pc' = label
               /\ cont' = IF label = "idle" THEN "idle" ELSE cont
               /\ target' = IF label = "idle" THEN NoWorld ELSE target
Raise == faults < MaxFaults /\ faults' = faults + 1

\* Where _recover_restore_transaction returns to, and where it raises to.
Returned == IF cont = "entry" THEN "extract" ELSE "idle"

-----------------------------------------------------------------------------
(* _recover_restore_transaction: dispatch on the directories that exist.   *)

Recovering == pc = "recover" /\ Pending

RecoverTo(label) == /\ Goto(label) /\ UNCHANGED <<disk, kept, bounds>>

NothingToRecover == pc = "recover" /\ ~Pending /\ RecoverTo(Returned)

\* The state is ambiguous, or both copies are gone: the journal stays and the call raises.
RecoveryRefused ==
    /\ Recovering
    /\ \/ staged # Absent /\ previous # Absent /\ Named # Absent
       \/ previous = Absent /\ Named = Absent /\ journal.had
    /\ RecoverTo("idle")

\* previous.rename(target), which may raise.
PutBack(next) ==
    \/ /\ live' = [live EXCEPT ![journal.world] = previous] /\ previous' = Absent
       /\ Goto(next) /\ UNCHANGED <<staged, journal, kept, bounds>>
    \/ Raise /\ Goto("idle") /\ UNCHANGED <<disk, kept, copies, crashes, meddles>>

\* Mutant: the previous copy returns over whatever is there.
PutBackUndone_Over ==
    /\ Recovering /\ staged # Absent /\ previous # Absent
    /\ PutBack("drop_staged")
PutBackUndone ==
    /\ Recovering /\ staged # Absent /\ previous # Absent /\ Named = Absent
    /\ PutBack("drop_staged")

\* The staged directory is gone and so is the world: whatever the phase says, previous returns.
PutBackMissing ==
    /\ Recovering /\ staged = Absent /\ previous # Absent /\ Named = Absent
    /\ PutBack("clear")

KeepOriginal ==
    /\ Recovering /\ staged # Absent /\ previous = Absent
    /\ Named # Absent \/ ~journal.had
    /\ RecoverTo("drop_staged")

KeepActivated ==
    /\ Recovering /\ staged = Absent /\ Named # Absent
    /\ RecoverTo(IF previous # Absent THEN "drop_previous" ELSE "clear")

NothingThere ==
    /\ Recovering /\ staged = Absent /\ previous = Absent /\ Named = Absent /\ ~journal.had
    /\ RecoverTo("clear")

\* shutil.rmtree of `dir`, to the end, in part, or raising on the way.
Removal(dir, new, next, otherwise) ==
    \/ dir # Partial /\ new = Partial /\ UNCHANGED <<call, faults>>
    \/ new = Absent /\ Goto(next) /\ UNCHANGED faults
    \/ new = dir /\ Raise /\ Goto(otherwise)

DropStaged ==
    /\ pc = "drop_staged"
    /\ \E new \in {staged, Partial, Absent} :
          staged' = new /\ Removal(staged, new, "clear", "idle")
    /\ UNCHANGED <<live, previous, journal, kept, copies, crashes, meddles>>

DropPrevious ==
    /\ pc = "drop_previous"
    /\ \E new \in {previous, Partial, Absent} :
          previous' = new /\ Removal(previous, new, "clear", "idle")
    /\ UNCHANGED <<live, staged, journal, kept, copies, crashes, meddles>>

ClearJournal ==
    /\ pc = "clear"
    /\ \/ journal' = NoJournal /\ Goto(Returned) /\ UNCHANGED faults
       \/ Raise /\ Goto("idle") /\ UNCHANGED journal
    /\ UNCHANGED <<live, staged, previous, kept, copies, crashes, meddles>>

-----------------------------------------------------------------------------
(* _restore_backup_locked.                                                 *)

Restore(w) ==
    /\ pc = "idle" /\ (copies < MaxCopies \/ Pending)
    /\ pc' = "recover" /\ cont' = "entry" /\ target' = w
    /\ UNCHANGED <<disk, kept, bounds>>

\* Mutant: what was extracted is not validated.
Extract_Unvalidated ==
    /\ pc = "extract"
    /\ staged' = Partial /\ Goto("journal")
    /\ UNCHANGED <<live, previous, journal, kept, copies, faults, crashes, meddles>>

\* mkdtemp, extractall and the validation, which refuses an archive without a world.
Extract ==
    /\ pc = "extract"
    /\ \/ staged = Absent /\ staged' = Partial /\ UNCHANGED <<call, copies>>
       \/ /\ staged = Partial /\ copies < MaxCopies
          /\ staged' = copies + 1 /\ copies' = copies + 1 /\ Goto("journal")
       \/ staged' = Absent /\ Goto("idle") /\ UNCHANGED copies
    /\ UNCHANGED <<live, previous, journal, kept, faults, crashes, meddles>>

\* Mutant: an original is recorded without looking for one.
WriteJournal_Had ==
    /\ pc = "journal"
    /\ journal' = [world |-> target, phase |-> "prepared", had |-> TRUE]
    /\ Goto("move")
    /\ UNCHANGED <<live, staged, previous, kept, copies, faults, crashes, meddles>>

\* A failed write leaves no journal, and the extracted directory is removed.
WriteJournal ==
    /\ pc = "journal"
    /\ \/ /\ journal' = [world |-> target, phase |-> "prepared", had |-> live[target] # Absent]
          /\ Goto("move") /\ UNCHANGED <<staged, faults>>
       \/ Raise /\ Goto("idle") /\ staged' = Absent /\ UNCHANGED journal
    /\ UNCHANGED <<live, previous, kept, copies, crashes, meddles>>

\* The handler: recover in place, then raise.
Fail == Raise /\ pc' = "recover" /\ cont' = "handler" /\ UNCHANGED target

\* target.rename(old_path)
MoveOriginal ==
    /\ pc = "move"
    /\ \/ /\ IF journal.had
             THEN live' = [live EXCEPT ![target] = Absent] /\ previous' = live[target]
             ELSE UNCHANGED <<live, previous>>
          /\ Goto("moved") /\ UNCHANGED faults
       \/ Fail /\ UNCHANGED <<live, previous>>
    /\ UNCHANGED <<staged, journal, kept, copies, crashes, meddles>>

SetPhase(label, phase, next) ==
    /\ pc = label
    /\ \/ journal' = [journal EXCEPT !.phase = phase] /\ Goto(next) /\ UNCHANGED faults
       \/ Fail /\ UNCHANGED journal
    /\ UNCHANGED <<live, staged, previous, kept, copies, crashes, meddles>>

MarkMoved     == SetPhase("moved", "original_moved", "activate")
MarkActivated == SetPhase("activated", "activated", "remove")

\* restore_tmp.rename(target): from here on the player has the restored copy.
Activate ==
    /\ pc = "activate"
    /\ \/ /\ live' = [live EXCEPT ![target] = staged] /\ staged' = Absent
          /\ kept' = [kept EXCEPT ![target] = {staged}]
          /\ Goto("activated") /\ UNCHANGED faults
       \/ Fail /\ UNCHANGED <<live, staged, kept>>
    /\ UNCHANGED <<previous, journal, copies, crashes, meddles>>

\* A previous copy that cannot be removed is left to the next recovery, with the journal.
RemovePrevious ==
    /\ pc = "remove"
    /\ IF previous = Absent
       THEN Goto("finish") /\ UNCHANGED <<previous, faults>>
       ELSE \E new \in {previous, Partial, Absent} :
                previous' = new /\ Removal(previous, new, "finish", "idle")
    /\ UNCHANGED <<live, staged, journal, kept, copies, crashes, meddles>>

Finish ==
    /\ pc = "finish"
    /\ \/ journal' = NoJournal /\ Goto("idle") /\ UNCHANGED faults
       \/ Fail /\ UNCHANGED journal
    /\ UNCHANGED <<live, staged, previous, kept, copies, crashes, meddles>>

-----------------------------------------------------------------------------
\* The launcher dies.  A directory that is not in the journal is out of reach from now on.
Crash ==
    /\ pc # "idle" /\ crashes < MaxCrashes /\ crashes' = crashes + 1
    /\ Goto("idle")
    /\ staged' = IF Pending THEN staged ELSE Absent
    /\ UNCHANGED <<live, previous, journal, kept, copies, faults, meddles>>

(* The player, between two calls.                                          *)
MayChange(w) ==
    /\ pc = "idle"
    /\ IF Pending /\ w = journal.world
       THEN meddles < MaxMeddles /\ meddles' = meddles + 1
       ELSE UNCHANGED meddles

\* A session of the game saves a world, an existing or a new one.
Play(w) ==
    /\ MayChange(w) /\ copies < MaxCopies
    /\ copies' = copies + 1
    /\ live' = [live EXCEPT ![w] = copies + 1]
    /\ kept' = [kept EXCEPT ![w] = (@ \ {live[w]}) \cup {copies + 1}]
    /\ UNCHANGED <<staged, previous, journal, call, faults, crashes>>

Delete(w) ==
    /\ MayChange(w) /\ live[w] # Absent
    /\ live' = [live EXCEPT ![w] = Absent]
    /\ kept' = [kept EXCEPT ![w] = @ \ {live[w]}]
    /\ UNCHANGED <<staged, previous, journal, call, copies, faults, crashes>>

RestoreInit ==
    /\ live \in [Worlds -> {0, Absent}]
    /\ staged = Absent /\ previous = Absent /\ journal = NoJournal
    /\ pc = "idle" /\ cont = "idle" /\ target = NoWorld
    /\ kept = [w \in Worlds |-> {live[w]} \ {Absent}]
    /\ copies = 0 /\ faults = 0 /\ crashes = 0 /\ meddles = 0

Recovery ==
    \/ NothingToRecover \/ RecoveryRefused \/ PutBackUndone \/ PutBackMissing
    \/ KeepOriginal \/ KeepActivated \/ NothingThere
    \/ DropStaged \/ DropPrevious \/ ClearJournal
Restoring ==
    \/ Extract \/ WriteJournal \/ MoveOriginal \/ MarkMoved \/ Activate \/ MarkActivated
    \/ RemovePrevious \/ Finish
Finished == pc = "idle" /\ copies = MaxCopies /\ UNCHANGED restoreVars
RestoreNext ==
    \/ \E w \in Worlds : Restore(w) \/ Play(w) \/ Delete(w)
    \/ Recovery \/ Restoring \/ Crash \/ Finished
RestoreSpec == RestoreInit /\ [][RestoreNext]_restoreVars
\* A call runs to its end; while a journal is open the player asks for a restore again.
RestoreFairSpec == RestoreSpec /\ WF_restoreVars(Recovery \/ Restoring) /\ WF_restoreVars(\E w \in Worlds : Restore(w))

-----------------------------------------------------------------------------
(* Properties                                                              *)

\* Every variable has its type.
RestoreTypeOK ==
    /\ live \in [Worlds -> Dirs] /\ staged \in Dirs /\ previous \in Dirs
    /\ journal \in Journals
    /\ pc \in {"idle", "recover", "drop_staged", "drop_previous", "clear", "extract", "journal",
               "move", "moved", "activate", "activated", "remove", "finish"}
    /\ cont \in {"idle", "entry", "handler"} /\ target \in Worlds \cup {NoWorld}
    /\ kept \in [Worlds -> SUBSET Nat]
    /\ copies \in Nat /\ faults \in Nat /\ crashes \in Nat /\ meddles \in Nat

\* docs/INSTALLATION_INTEGRITY.md:41-43: no death or error discards a copy the player has: it is
\* in its place, or the previous world of the journal, where the recovery finds it.
NoCopyLost ==
    \A w \in Worlds : \A c \in kept[w] :
        c = live[w] \/ (c = previous /\ Pending /\ journal.world = w)

\* While a world is away and its journal is open, the journal can be recovered: the recovery is
\* refused only after the player created or deleted that very world in between.
RefusedOnlyAfterMeddling == [][RecoveryRefused => meddles > 0]_restoreVars

\* A journal that is over leaves each world as the player had it: the last copy, whole, or none.
SettledIsWhole ==
    ~Pending /\ meddles = 0 =>
        \A w \in Worlds : kept[w] = {live[w]} \ {Absent} /\ live[w] # Partial

\* What a restore and its recovery promise the player: no copy is lost on the way, every world
\* is whole at the end (restore_backup, _recover_restore_transaction).
WorldsAreKept == NoCopyLost /\ SettledIsWhole

\* Whatever deaths and errors interrupted, the next restores bring an open journal to its end,
\* unless the player has changed the very world it is about.
RestoreSettles == Pending ~> ~Pending \/ meddles > 0
=============================================================================
