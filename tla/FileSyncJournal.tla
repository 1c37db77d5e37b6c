--------------------------- MODULE FileSyncJournal ---------------------------
(***************************************************************************)
(* The durable file transaction of the launcher: FileTransaction.execute   *)
(* (application/file_transaction.py) driving one FileSyncJournal           *)
(* (application/file_sync_journal.py) over the managed files of one game   *)
(* directory, together with recover(), the entry point of the next run.    *)
(*                                                                         *)
(* `pc` names the next durable step of the running call.  Every write of   *)
(* the journal and every rename or unlink is a step of its own, because    *)
(* the process may die between any two of them, and every one of them may  *)
(* raise.  A content is the number of the transaction that produced it; 0  *)
(* is what the directory held at first.  The instance lease                *)
(* (InstanceLease.tla) admits one call at a time, so there is one `pc`.    *)
(***************************************************************************)
EXTENDS Naturals, FiniteSets

CONSTANTS
    Paths,            \* the files the transactions may manage
    Keys, NoKey,      \* commit keys; NoKey: the caller passes no commit callback
    Absent,           \* a file that is not there
    MaxTransactions,  \* bound on the transactions begun
    MaxFaults,        \* bound on the raised I/O and callback errors
    MaxCrashes,       \* bound on the deaths of the process
    MaxLosses         \* bound on the backups that somebody else deletes

ASSUME ConstantsAssumption ==
    /\ NoKey \notin Keys
    /\ Absent \notin Nat
    /\ MaxTransactions \in Nat /\ MaxFaults \in Nat /\ MaxCrashes \in Nat
    /\ MaxLosses \in Nat

VARIABLES
    live, stage, backup,  \* disk: the game directory, and the transaction's two trees
    journal,              \* disk: the journal file
    profile,              \* disk: the key whose commit callback ran last
    pc, cont,             \* the running call: next step, and who called recover or rollback
    mem,                  \* the running call: its `payload`
    request,              \* the running call: its arguments
    failed,               \* the running rollback: the entries in `errors`
    before, goal, profileBefore, txn,  \* history: what the last transaction began from and wants
    lost,                 \* history: the files whose backup somebody else deleted
    faults, crashes

disk    == <<live, stage, backup, journal, profile>>
memory  == <<pc, cont, mem, request, failed>>
history == <<before, goal, profileBefore, txn, lost>>
vars    == <<disk, memory, history, faults, crashes>>

-----------------------------------------------------------------------------
Contents == Nat \cup {Absent}
Kinds    == {"none", "replace", "delete"}
Statuses == {"none", "staging", "prepared", "applying", "files_applied", "committing",
             "failed", "repair_required", "complete", "rolled_back", "recovered"}

\* An entry of the journal; a path of kind "none" has no entry.
Entries  == [kind  : Kinds,
             state : {"planned", "backing_up", "backed_up", "applied", "rolled_back"},
             had   : BOOLEAN]
Payloads == [status : Statuses, key : Keys \cup {NoKey}, entries : [Paths -> Entries]]
Requests == [kinds : [Paths -> Kinds], key : Keys \cup {NoKey}]

Labels == {"idle", "recover", "clean_resolved", "clean_staged", "mark_recovered",
           "resume_commit", "note_failure", "begin", "stage", "prepare", "activate", "entry",
           "move", "moved", "place", "placed", "fail", "mark_committing", "commit", "complete",
           "clean_complete", "raise", "undo", "undo_write", "undo_clean", "undo_done"}

\* The statuses after which nothing of the transaction is left to decide.
Settled  == {"none", "complete", "rolled_back", "recovered"}
PreCommit == Statuses \ (Settled \cup {"committing"})

NoPlan    == [p \in Paths |-> "none"]
NoRequest == [kinds |-> NoPlan, key |-> NoKey]
Plan(kinds) == [p \in Paths |-> [kind |-> kinds[p], state |-> "planned", had |-> FALSE]]
Empty     == [p \in Paths |-> Absent]

Replaced == {p \in Paths : mem.entries[p].kind = "replace"}
Planned  == {p \in Paths : mem.entries[p].kind # "none" /\ mem.entries[p].state = "planned"}
\* The entries the loop of _rollback still has to visit.
ToUndo   == {p \in Paths : mem.entries[p].state \notin {"planned", "rolled_back"}} \ failed

-----------------------------------------------------------------------------
(* Steps of the running call.                                              *)

Goto(label) == /\ pc' = label
               /\ cont' = IF label = "idle" THEN "idle" ELSE cont
               /\ request' = IF label = "idle" THEN NoRequest ELSE request

\* An operating system call or a callback raises.
Raise == faults < MaxFaults /\ faults' = faults + 1

\* _write(payload): the file is replaced atomically, or the call raises and the file stays.
Write(payload, next, otherwise) ==
    /\ mem' = payload
    /\ \/ journal' = payload /\ Goto(next) /\ UNCHANGED faults
       \/ Raise /\ Goto(otherwise) /\ UNCHANGED journal

WithStatus(s) == [mem EXCEPT !.status = s]
WithState(p, s) == [mem EXCEPT !.entries[p].state = s]
\* Mutant: an original is recorded without looking for one.
WithOriginal_Always(p) == [mem EXCEPT !.entries[p].state = "backing_up", !.entries[p].had = TRUE]
WithOriginal(p) == [mem EXCEPT !.entries[p] = [kind  |-> mem.entries[p].kind,
                                               state |-> "backing_up",
                                               had   |-> live[p] # Absent]]

\* Where recover() and _rollback return to and raise to: begin_transaction and a recovery of
\* its own raise out of execute(), activate() raises into execute()'s handler.
Returned == CASE cont = "begin" -> "begin" [] cont = "execute" -> "raise" [] OTHER -> "idle"
Raised   == IF cont = "execute" THEN "raise" ELSE "idle"

-----------------------------------------------------------------------------
(* execute() and the recovery of the next run enter here.                  *)

\* FileTransaction.execute(): begin_transaction() first calls recover().
Execute ==
    /\ pc = "idle" /\ txn < MaxTransactions
    /\ \E kinds \in [Paths -> Kinds] \ {NoPlan}, key \in Keys \cup {NoKey} :
           request' = [kinds |-> kinds, key |-> key]
    /\ pc' = "recover" /\ cont' = "begin"
    /\ UNCHANGED <<disk, mem, failed, history, faults, crashes>>

\* A sync or an install that finds needs_repair() calls recover() by itself.
RecoverOnEntry ==
    /\ pc = "idle" /\ journal.status \notin Settled
    /\ \E key \in Keys \cup {NoKey} : request' = [kinds |-> NoPlan, key |-> key]
    /\ pc' = "recover"
    /\ UNCHANGED <<disk, cont, mem, failed, history, faults, crashes>>

-----------------------------------------------------------------------------
(* recover(): dispatch on the status read from disk.                       *)

RecoverTo(statuses, next) ==
    /\ pc = "recover" /\ journal.status \in statuses
    /\ mem' = journal /\ failed' = {}
    /\ Goto(next)
    /\ UNCHANGED <<disk, history, faults, crashes>>

RecoverNothing  == RecoverTo({"none"}, Returned)
RecoverComplete == RecoverTo({"complete"}, "clean_complete")
RecoverSettled  == RecoverTo({"rolled_back", "recovered"}, "clean_resolved")
\* Mutant: an interrupted activation is taken for a staged one.
RecoverStaged_Applying == RecoverTo({"staging", "prepared", "applying"}, "clean_staged")
RecoverStaged   == RecoverTo({"staging", "prepared"}, "clean_staged")
\* Mutant: an undo that failed is not tried again.
RecoverApplied_Once ==
    \/ RecoverTo({"applying", "files_applied", "failed"}, "undo")
    \/ RecoverTo({"repair_required"}, Raised)
RecoverApplied  == RecoverTo({"applying", "files_applied", "failed", "repair_required"}, "undo")

OwnsCommit == request.key # NoKey /\ request.key = journal.key
RecoverCommit  == OwnsCommit /\ RecoverTo({"committing"}, "resume_commit")
\* Mutant: somebody else's commit is left alone, and the new transaction begins.
RecoverRefused_Silently == ~OwnsCommit /\ RecoverTo({"committing"}, Returned)
RecoverRefused == ~OwnsCommit /\ RecoverTo({"committing"}, Raised)

\* _cleanup_transaction: rmtree deletes the two trees file by file and may raise half-way.
Cleaned == stage = Empty /\ backup = Empty

CleanOne ==
    /\ pc \in {"clean_resolved", "clean_staged", "clean_complete", "undo_clean"}
    /\ \E p \in Paths :
          \/ /\ stage[p] # Absent
             /\ stage' = [stage EXCEPT ![p] = Absent] /\ UNCHANGED backup
          \/ /\ backup[p] # Absent
             /\ backup' = [backup EXCEPT ![p] = Absent] /\ UNCHANGED stage
    /\ UNCHANGED <<live, journal, profile, memory, history, faults, crashes>>

CleanTo(label, next, otherwise) ==
    /\ pc = label
    /\ \/ Cleaned /\ Goto(next) /\ UNCHANGED faults
       \/ Raise /\ Goto(otherwise)
    /\ UNCHANGED <<disk, mem, failed, history, crashes>>

CleanSettled == CleanTo("clean_resolved", Returned, Raised)
CleanStaged  == CleanTo("clean_staged", "mark_recovered", Raised)

MarkRecovered ==
    /\ pc = "mark_recovered"
    /\ Write(WithStatus("recovered"), Returned, Raised)
    /\ UNCHANGED <<live, stage, backup, profile, failed, history, crashes>>

\* recover() runs the caller's commit again; what it raises is noted in the journal.
ResumeCommit ==
    /\ pc = "resume_commit"
    /\ \/ profile' = request.key /\ Goto("complete") /\ UNCHANGED faults
       \/ Raise /\ Goto("note_failure") /\ UNCHANGED profile
    /\ UNCHANGED <<live, stage, backup, journal, mem, failed, history, crashes>>

NoteCommitFailure ==
    /\ pc = "note_failure"
    /\ Write(mem, Raised, Raised)
    /\ UNCHANGED <<live, stage, backup, profile, failed, history, crashes>>

-----------------------------------------------------------------------------
(* begin_transaction, stage, mark_prepared.                                *)

\* The new transaction has fresh trees; a request without a plan never gets here.
Begin ==
    /\ pc = "begin"
    /\ LET payload == [status |-> "staging", key |-> request.key, entries |-> Plan(request.kinds)]
           after   == [p \in Paths |-> CASE request.kinds[p] = "replace" -> txn + 1
                                        [] request.kinds[p] = "delete"  -> Absent
                                        [] OTHER -> live[p]]
       IN \/ /\ journal' = payload /\ mem' = payload
             /\ pc' = "stage" /\ cont' = "execute" /\ UNCHANGED <<request, faults>>
             /\ stage' = Empty /\ backup' = Empty
             /\ before' = live /\ goal' = after /\ profileBefore' = profile /\ txn' = txn + 1
             /\ lost' = {}
          \/ Raise /\ Goto("idle") /\ UNCHANGED <<stage, backup, journal, mem, history>>
    /\ UNCHANGED <<live, profile, failed, crashes>>

\* The stage callback downloads and verifies; it returns with everything staged or raises.
\* A staged file that is lost afterwards is a fault of its own, met by activate().
Stage ==
    /\ pc = "stage"
    /\ \E staged \in SUBSET Replaced :
          /\ stage' = [p \in Paths |-> IF p \in staged THEN goal[p] ELSE Absent]
          /\ \/ staged = Replaced /\ Goto("prepare") /\ UNCHANGED faults
             \/ staged # Replaced /\ Raise /\ \E next \in {"prepare", "raise"} : Goto(next)
    /\ UNCHANGED <<live, backup, journal, profile, mem, failed, history, crashes>>

MarkPrepared ==
    /\ pc = "prepare"
    /\ Write(WithStatus("prepared"), "activate", "raise")
    /\ UNCHANGED <<live, stage, backup, profile, failed, history, crashes>>

-----------------------------------------------------------------------------
(* activate().                                                             *)

\* before_activate() and the second validate() raise like the write they precede.
StartActivation ==
    /\ pc = "activate"
    /\ Write(WithStatus("applying"), "entry", "raise")
    /\ UNCHANGED <<live, stage, backup, profile, failed, history, crashes>>

\* Replacements come before stale files; the caller's order among them is any order.
NextEntry(p) ==
    /\ p \in Planned
    /\ mem.entries[p].kind = "delete" => Planned \cap Replaced = {}

BackUp ==
    /\ pc = "entry"
    /\ \E p \in Paths :
          /\ NextEntry(p)
          /\ IF p \in Replaced /\ stage[p] = Absent
             THEN Goto("fail") /\ UNCHANGED <<journal, mem, faults>>
             ELSE Write(WithOriginal(p), "move", "fail")
    /\ UNCHANGED <<live, stage, backup, profile, failed, history, crashes>>

\* os.replace(destination, backup)
MoveAway ==
    /\ pc = "move"
    /\ \/ /\ \E p \in Paths :
                /\ mem.entries[p].state = "backing_up"
                /\ IF mem.entries[p].had
                   THEN /\ backup' = [backup EXCEPT ![p] = live[p]]
                        /\ live' = [live EXCEPT ![p] = Absent]
                   ELSE UNCHANGED <<live, backup>>
          /\ Goto("moved") /\ UNCHANGED faults
       \/ Raise /\ Goto("fail") /\ UNCHANGED <<live, backup>>
    /\ UNCHANGED <<stage, journal, profile, mem, failed, history, crashes>>

MarkBackedUp ==
    /\ pc = "moved"
    /\ \E p \in Paths :
          /\ mem.entries[p].state = "backing_up"
          /\ Write(WithState(p, "backed_up"), "place", "fail")
    /\ UNCHANGED <<live, stage, backup, profile, failed, history, crashes>>

\* os.replace(staged, destination)
Place ==
    /\ pc = "place"
    /\ \/ /\ \E p \in Paths :
                /\ mem.entries[p].state = "backed_up"
                /\ IF p \in Replaced
                   THEN /\ live' = [live EXCEPT ![p] = stage[p]]
                        /\ stage' = [stage EXCEPT ![p] = Absent]
                   ELSE UNCHANGED <<live, stage>>
          /\ Goto("placed") /\ UNCHANGED faults
       \/ Raise /\ Goto("fail") /\ UNCHANGED <<live, stage>>
    /\ UNCHANGED <<backup, journal, profile, mem, failed, history, crashes>>

MarkApplied ==
    /\ pc = "placed"
    /\ \E p \in Paths :
          /\ mem.entries[p].state = "backed_up"
          /\ Write(WithState(p, "applied"), "entry", "fail")
    /\ UNCHANGED <<live, stage, backup, profile, failed, history, crashes>>

\* The loop is over.  The write is outside its try block: it raises into execute().
MarkFilesApplied ==
    /\ pc = "entry" /\ Planned = {}
    /\ Write(WithStatus("files_applied"),
             IF request.key = NoKey THEN "complete" ELSE "mark_committing", "raise")
    /\ UNCHANGED <<live, stage, backup, profile, failed, history, crashes>>

\* activate()'s handler: mark the journal, then undo; a failed mark raises into execute().
MarkFailed ==
    /\ pc = "fail"
    /\ Write(WithStatus("failed"), "undo", "raise")
    /\ failed' = {}
    /\ UNCHANGED <<live, stage, backup, profile, history, crashes>>

-----------------------------------------------------------------------------
(* mark_committing, commit, complete, and the handler of execute().        *)

MarkCommitting ==
    /\ pc = "mark_committing"
    /\ Write(WithStatus("committing"), "commit", "raise")
    /\ UNCHANGED <<live, stage, backup, profile, failed, history, crashes>>

\* The commit callback saves the profile of the pack, or raises without saving it.
Commit ==
    /\ pc = "commit"
    /\ \/ profile' = request.key /\ Goto("complete") /\ UNCHANGED faults
       \/ Raise /\ Goto("raise") /\ UNCHANGED profile
    /\ UNCHANGED <<live, stage, backup, journal, mem, failed, history, crashes>>

MarkComplete ==
    /\ pc = "complete"
    /\ Write(WithStatus("complete"), "clean_complete", Raised)
    /\ UNCHANGED <<live, stage, backup, profile, failed, history, crashes>>

\* _cleanup_transaction_best_effort: what rmtree raises is swallowed.
CleanComplete ==
    LET next == IF cont = "begin" THEN "begin" ELSE "idle"
    IN CleanTo("clean_complete", next, next)

\* FileTransaction._rollback: undo whatever the journal says is not over.
HandleError ==
    /\ pc = "raise"
    /\ mem' = journal /\ failed' = {}
    /\ IF journal.status \in Settled THEN Goto("idle")
       ELSE pc' = "undo" /\ cont' = "idle" /\ request' = NoRequest
    /\ UNCHANGED <<disk, history, faults, crashes>>

-----------------------------------------------------------------------------
(* _rollback(payload): undo the entries in reverse order, collect errors.  *)

NextUndo(p) ==
    /\ p \in ToUndo
    /\ p \in Replaced => ToUndo \subseteq Replaced

\* An original is known to have been moved, and its backup is gone.
BackupLost(p) ==
    /\ backup[p] = Absent /\ mem.entries[p].had
    /\ mem.entries[p].state = "backing_up" => live[p] = Absent

\* Mutant: a file the transaction added is not removed again.
Restored_KeepAdded(p) == IF backup[p] # Absent THEN backup[p] ELSE live[p]
\* The content _rollback leaves at the destination; a backup is copied, not moved.
Restored(p) ==
    CASE backup[p] # Absent -> backup[p]
      [] backup[p] = Absent /\ mem.entries[p].state \in {"backed_up", "applied"} -> Absent
      [] OTHER -> live[p]

UndoEntry ==
    /\ pc = "undo"
    /\ \E p \in Paths :
          /\ NextUndo(p)
          /\ \/ /\ ~BackupLost(p)
                /\ live' = [live EXCEPT ![p] = Restored(p)]
                /\ mem' = WithState(p, "rolled_back")
                /\ Goto("undo_write") /\ UNCHANGED <<failed, faults>>
             \/ /\ BackupLost(p) /\ failed' = failed \cup {p}
                /\ Goto("undo") /\ UNCHANGED <<live, mem, faults>>
             \/ /\ Raise /\ failed' = failed \cup {p}
                /\ Goto("undo") /\ UNCHANGED <<live, mem>>
    /\ UNCHANGED <<stage, backup, journal, profile, history, crashes>>

\* Each undone entry is written at once; one whose write raises counts as an error.
UndoWrite ==
    /\ pc = "undo_write"
    /\ Write(mem, "undo", "undo")
    /\ failed' = IF journal' = mem THEN failed
                 ELSE failed \cup {p \in Paths : journal.entries[p] # mem.entries[p]}
    /\ UNCHANGED <<live, stage, backup, profile, history, crashes>>

UndoFailed ==
    /\ pc = "undo" /\ ToUndo = {} /\ failed # {}
    /\ Write(WithStatus("repair_required"), Raised, Raised)
    /\ UNCHANGED <<live, stage, backup, profile, failed, history, crashes>>

UndoSucceeded ==
    /\ pc = "undo" /\ ToUndo = {} /\ failed = {}
    /\ Goto("undo_clean")
    /\ UNCHANGED <<disk, mem, failed, history, faults, crashes>>

CleanUndone == CleanTo("undo_clean", "undo_done", Raised)

MarkRolledBack ==
    /\ pc = "undo_done"
    /\ Write(WithStatus("rolled_back"), Returned, Raised)
    /\ UNCHANGED <<live, stage, backup, profile, failed, history, crashes>>

-----------------------------------------------------------------------------
\* The process dies: what is on disk stays.
Crash ==
    /\ pc # "idle" /\ crashes < MaxCrashes
    /\ crashes' = crashes + 1
    /\ Goto("idle") /\ mem' = journal /\ failed' = {}
    /\ UNCHANGED <<disk, history, faults>>

\* The user, or a cleaner, deletes a file of the work directory.
LoseBackup ==
    /\ Cardinality(lost) < MaxLosses
    /\ \E p \in Paths : /\ backup[p] # Absent
                        /\ backup' = [backup EXCEPT ![p] = Absent]
                        /\ lost' = lost \cup {p}
    /\ UNCHANGED <<live, stage, journal, profile, memory, before, goal, profileBefore, txn,
                   faults, crashes>>

Init ==
    /\ live \in [Paths -> {0, Absent}] /\ stage = Empty /\ backup = Empty
    /\ journal = [status |-> "none", key |-> NoKey, entries |-> Plan(NoPlan)]
    /\ profile = NoKey
    /\ pc = "idle" /\ cont = "idle" /\ mem = journal /\ request = NoRequest /\ failed = {}
    /\ before = live /\ goal = live /\ profileBefore = NoKey /\ txn = 0
    /\ lost = {}
    /\ faults = 0 /\ crashes = 0

Recovery ==
    \/ RecoverNothing \/ RecoverComplete \/ RecoverSettled \/ RecoverStaged
    \/ RecoverApplied \/ RecoverCommit \/ RecoverRefused
    \/ CleanOne \/ CleanSettled \/ CleanStaged \/ MarkRecovered
    \/ ResumeCommit \/ NoteCommitFailure
Activation ==
    \/ Begin \/ Stage \/ MarkPrepared \/ StartActivation
    \/ BackUp \/ MoveAway \/ MarkBackedUp \/ Place \/ MarkApplied
    \/ MarkFilesApplied \/ MarkFailed
    \/ MarkCommitting \/ Commit \/ MarkComplete \/ CleanComplete
Undoing ==
    \/ HandleError \/ UndoEntry \/ UndoWrite \/ UndoFailed \/ UndoSucceeded
    \/ CleanUndone \/ MarkRolledBack

\* The steps of a call that has started.
Step == Recovery \/ Activation \/ Undoing
\* No call runs and the bound allows no other: the behaviour may stop here and nowhere else.
Finished == pc = "idle" /\ txn = MaxTransactions /\ UNCHANGED vars
Next == Execute \/ RecoverOnEntry \/ Step \/ Crash \/ LoseBackup \/ Finished

Spec == Init /\ [][Next]_vars
\* A call runs to its end; the user comes back to an unsettled directory.
FairSpec == Spec /\ WF_vars(Step) /\ WF_vars(RecoverOnEntry)

-----------------------------------------------------------------------------
(* Properties.                                                             *)

\* Every variable of the disk, of the running call and of the history has its type.
TypeOK ==
    /\ live \in [Paths -> Contents] /\ stage \in [Paths -> Contents]
    /\ backup \in [Paths -> Contents]
    /\ journal \in Payloads /\ mem \in Payloads
    /\ profile \in Keys \cup {NoKey} /\ profileBefore \in Keys \cup {NoKey}
    /\ pc \in Labels /\ cont \in {"idle", "begin", "execute"}
    /\ request \in Requests /\ failed \in SUBSET Paths
    /\ before \in [Paths -> Contents] /\ goal \in [Paths -> Contents]
    /\ lost \in SUBSET Paths /\ txn \in Nat /\ faults \in Nat /\ crashes \in Nat

\* Until a transaction is complete, the original of every file it touches exists somewhere: at
\* its place or among the backups, whatever moves, undos, errors and deaths came in between,
\* unless somebody else deleted its backup.
NoOriginalLost ==
    journal.status # "complete" =>
        \A p \in Paths \ lost : before[p] # Absent => before[p] \in {live[p], backup[p]}

\* A journal that says nothing changed, or that everything was undone, has the directory as it
\* was before the transaction; a completed one has each file whole, old or new, and all of them
\* new when there is no commit callback (CompleteMeansApplied tells what goes wrong with one).
\* A lost backup leaves the journal in repair_required, never in rolled_back.
SettledIsWhole ==
    /\ journal.status \in {"staging", "prepared", "recovered", "rolled_back"} => live = before
    /\ journal.status = "complete" => \A p \in Paths : live[p] \in {before[p], goal[p]}
    /\ journal.status = "complete" /\ journal.key = NoKey => live = goal

\* What the journal (begin_transaction to _rollback) promises of the files: nothing is lost on
\* the way, nothing is half-done at the end.
FilesAreSafe == NoOriginalLost /\ SettledIsWhole

\* A new transaction never overwrites the journal of one that is not over.
UnsettledNeverReplaced == [][txn' # txn => journal.status \in Settled]_vars

\* An interrupted commit is declared complete only after the commit of its own key has run.
CommittedByItsOwner ==
    [][journal.status = "committing" /\ journal'.status = "complete"
         => profile = journal.key]_vars

\* No transaction is replaced or completed by another one (begin_transaction, recover).
OwnersAreRespected == UnsettledNeverReplaced /\ CommittedByItsOwner

\* A transaction interrupted before its commit is decided once faults and deaths stop and the
\* user comes back: an undo that failed half-way, or whose cleanup did, can be finished later.
PreCommitSettles ==
    journal.status \in PreCommit ~> journal.status \in Settled \cup {"committing"}

\* What the caller may rely on: the whole journal, with its steps, undos and restarts, is one
\* update that either happens at once or not at all (transactions without a commit callback).
Atomic == INSTANCE AtomicUpdate WITH
    files    <- IF journal.status \in Settled THEN live ELSE before,
    wanted   <- goal,
    updating <- journal.status \notin Settled
ImplementsAtomicUpdate == Atomic!Spec

\* docs/INSTALLATION_INTEGRITY.md:28 of a complete journal: "the new state is committed".
CompleteMeansApplied == journal.status = "complete" => live = goal

\* docs/INSTALLATION_INTEGRITY.md:29 of a rolled back journal: "the original state was
\* restored", the profile the commit callback saves included.
RolledBackMeansUncommitted == journal.status = "rolled_back" => profile = profileBefore

=============================================================================
