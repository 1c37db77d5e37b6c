--------------------------- MODULE FileSyncProofs ---------------------------
(***************************************************************************)
(* The inductive invariant of FileSyncJournal and what follows from it.    *)
(***************************************************************************)
EXTENDS FileSyncJournal, TLAPS

\* What a state recorded for an entry, on disk or in memory, says of the file.  An entry may lag
\* behind the file (the write follows the rename) and an undone file may still be called applied
\* (the process died before the write), so each state allows more than one situation.
EntryOK(e, p) ==
    /\ e.kind = "none" => e.state = "planned" /\ goal[p] = before[p]
    /\ e.kind = "delete" => goal[p] = Absent
    /\ e.state \in {"planned", "rolled_back"} => live[p] = before[p]
    /\ e.state = "planned" => backup[p] = Absent
    /\ e.state \in {"backing_up", "backed_up", "applied"} => e.had = (before[p] # Absent)
    /\ e.state = "backing_up" =>
         live[p] = before[p] \/ (live[p] = Absent /\ (backup[p] = before[p] \/ p \in lost))
    /\ e.state = "backed_up" => live[p] \in {before[p], goal[p], Absent}
    /\ e.state = "applied" => live[p] \in {before[p], goal[p]}
    /\ e.state \in {"backed_up", "applied"} /\ journal.status # "complete" /\ p \notin lost
         => backup[p] = before[p]

\* What a status says of the entries.
StatusOK(P) ==
    /\ P.status \in {"none", "staging", "prepared"} =>
         \A p \in Paths : P.entries[p].state = "planned"
    /\ P.status \in {"recovered", "rolled_back"} =>
         \A p \in Paths : P.entries[p].state \in {"planned", "rolled_back"}
    /\ P.status \in {"files_applied", "committing", "complete"} =>
         \A p \in Paths : P.entries[p].kind # "none" =>
             P.entries[p].state \in {"applied", "rolled_back"}
    /\ P.status = "committing" => P.key # NoKey

DiskInv ==
    /\ \A p \in Paths : /\ EntryOK(journal.entries[p], p)
                        /\ backup[p] \in {Absent, before[p]}
                        /\ stage[p] \in {Absent, goal[p]}
    /\ StatusOK(journal)
    /\ journal.status = "complete" /\ journal.key = NoKey => live = goal

\* The labels at which `payload` is what the journal holds.
Synced == {"clean_resolved", "clean_staged", "mark_recovered", "resume_commit", "note_failure",
           "stage", "prepare", "activate", "entry", "move", "moved", "place", "placed",
           "mark_committing", "commit", "complete", "clean_complete", "undo_clean", "undo_done"}

\* The status on disk at each label.
StatusAt ==
    /\ pc \in {"stage", "prepare"} => journal.status = "staging"
    /\ pc \in {"clean_staged", "mark_recovered"} => journal.status \in {"staging", "prepared"}
    /\ pc = "clean_resolved" => journal.status \in {"rolled_back", "recovered"}
    /\ pc = "activate" => journal.status = "prepared"
    /\ pc \in {"entry", "move", "moved", "place", "placed", "fail"} => journal.status = "applying"
    /\ pc = "mark_committing" => journal.status = "files_applied"
    /\ pc \in {"commit", "resume_commit", "note_failure"} => journal.status = "committing"
    /\ pc = "complete" => journal.status \in {"files_applied", "committing"}
    /\ pc = "clean_complete" => journal.status = "complete"
    /\ pc = "begin" => journal.status \in Settled
    /\ pc \in {"undo", "undo_write", "undo_clean", "undo_done"} => journal.status \notin Settled

InState(s) == {p \in Paths : mem.entries[p].state = s}
AllIn(S) == \A p \in Paths : mem.entries[p].state \in S

\* The loop of activate(): one entry is under way, the others are done or to come.
LoopInv ==
    /\ pc \in {"entry", "move", "moved", "place", "placed"} =>
         \A p \in InState("applied") : live[p] = goal[p]
    /\ pc = "entry" => AllIn({"planned", "applied"})
    /\ pc \in {"move", "moved"} => AllIn({"planned", "applied", "backing_up"})
    /\ pc \in {"place", "placed"} => AllIn({"planned", "applied", "backed_up"})
    /\ \A p, q \in Paths :
         /\ pc \in {"move", "moved"} /\ {p, q} \subseteq InState("backing_up") => p = q
         /\ pc \in {"place", "placed"} /\ {p, q} \subseteq InState("backed_up") => p = q
    /\ pc \in {"move", "moved", "place"} =>
         \A p \in InState("backing_up") \cup InState("backed_up") :
             p \in Replaced => stage[p] = goal[p]
    /\ pc = "move" => \A p \in InState("backing_up") : live[p] = before[p] /\ backup[p] = Absent
    /\ pc = "moved" => \A p \in InState("backing_up") :
                          /\ live[p] = Absent
                          /\ p \notin lost => backup[p] = before[p]
    /\ pc = "place" => \A p \in InState("backed_up") : live[p] = Absent
    /\ pc = "placed" => \A p \in InState("backed_up") : live[p] = goal[p]

CallInv ==
    /\ StatusAt
    /\ pc \in Synced => mem = journal
    /\ pc \in {"fail", "undo", "undo_write"} =>
         /\ \A p \in Paths : EntryOK(mem.entries[p], p)
         /\ StatusOK(mem)
         /\ mem.status = journal.status /\ mem.key = journal.key
    /\ LoopInv
    /\ pc = "undo" /\ failed = {} => mem = journal
    /\ pc = "undo_write" /\ failed = {} =>
         \E p \in Paths : mem.entries[p] # journal.entries[p]
    /\ pc \in {"undo_clean", "undo_done"} => AllIn({"planned", "rolled_back"})
    \* The key of the call and of its transaction.
    /\ pc \in {"stage", "prepare", "activate", "entry", "move", "moved", "place", "placed",
               "mark_committing", "commit", "resume_commit", "complete"} =>
         request.key = journal.key
    /\ pc \in {"mark_committing", "commit", "resume_commit"} => request.key # NoKey
    /\ pc \in {"mark_committing", "commit"} \/ (pc = "complete" /\ journal.key = NoKey) =>
         live = goal
    /\ pc = "complete" /\ journal.status = "committing" => profile = journal.key

IInv == TypeOK /\ DiskInv /\ CallInv

\* A record with another status is still one that can be written.
LEMMA StatusPayload ==
    ASSUME mem \in Payloads, NEW s \in Statuses
    PROVE  /\ WithStatus(s) \in Payloads
           /\ WithStatus(s).status = s
           /\ WithStatus(s).key = mem.key
           /\ WithStatus(s).entries = mem.entries
BY DEF WithStatus, Payloads

\* So is a record with another state of an entry.
LEMMA StatePayload ==
    ASSUME mem \in Payloads, NEW p \in Paths,
           NEW s \in {"planned", "backing_up", "backed_up", "applied", "rolled_back"}
    PROVE  /\ WithState(p, s) \in Payloads
           /\ WithState(p, s).status = mem.status
           /\ WithState(p, s).key = mem.key
           /\ WithState(p, s).entries[p].state = s
           /\ WithState(p, s).entries[p].kind = mem.entries[p].kind
           /\ WithState(p, s).entries[p].had = mem.entries[p].had
           /\ \A q \in Paths : q # p => WithState(p, s).entries[q] = mem.entries[q]
BY DEF WithState, Payloads, Entries

\* So is a record with another original of an entry.
LEMMA OriginalPayload ==
    ASSUME mem \in Payloads, NEW p \in Paths
    PROVE  /\ WithOriginal(p) \in Payloads
           /\ WithOriginal(p).status = mem.status
           /\ WithOriginal(p).key = mem.key
           /\ WithOriginal(p).entries[p] =
                 [kind |-> mem.entries[p].kind, state |-> "backing_up", had |-> live[p] # Absent]
           /\ \A q \in Paths : q # p => WithOriginal(p).entries[q] = mem.entries[q]
BY DEF WithOriginal, Payloads, Entries

\* No request is a request.
LEMMA RequestType == NoRequest \in Requests
BY DEF NoRequest, NoPlan, Requests, Kinds

\* What _write leaves on disk, whether it succeeds or raises.
LEMMA Written ==
    ASSUME TypeOK, NEW P \in Payloads, NEW n \in Labels, NEW o \in Labels, Write(P, n, o)
    PROVE  /\ mem' = P /\ mem' \in Payloads
           /\ journal' \in {P, journal} /\ journal' \in Payloads
           /\ pc' \in {n, o} /\ pc' \in Labels
           /\ cont' \in {"idle", "begin", "execute"}
           /\ request' \in Requests
           /\ faults' \in Nat
BY RequestType DEF Write, Goto, Raise, TypeOK

\* The next step of the owner has its type.
LEMMA GotoType ==
    ASSUME TypeOK, NEW n \in Labels, Goto(n)
    PROVE  pc' \in Labels /\ cont' \in {"idle", "begin", "execute"} /\ request' \in Requests
BY RequestType DEF Goto, TypeOK

\* Every step keeps the types.
LEMMA TypeStep == ASSUME TypeOK, Next PROVE TypeOK'
<1> USE ConstantsAssumption
<1>1. CASE Execute
  BY <1>1
  DEF Execute, disk, history, TypeOK, Contents, Kinds, Statuses, Requests, Labels, NoRequest,
      NoPlan
<1>2. CASE RecoverOnEntry
  BY <1>2
  DEF RecoverOnEntry, disk, history, TypeOK, Contents, Kinds, Statuses, Requests, Labels,
      NoRequest, NoPlan
<1>3. CASE RecoverNothing
  BY <1>3
  DEF RecoverNothing, RecoverTo, Goto, Returned, disk, history, TypeOK, Contents, Kinds, Statuses,
      Requests, Labels, NoRequest, NoPlan
<1>4. CASE RecoverComplete
  BY <1>4
  DEF RecoverComplete, RecoverTo, Goto, disk, history, TypeOK, Contents, Kinds, Statuses,
      Requests, Labels, NoRequest, NoPlan
<1>5. CASE RecoverSettled
  BY <1>5
  DEF RecoverSettled, RecoverTo, Goto, disk, history, TypeOK, Contents, Kinds, Statuses, Requests,
      Labels, NoRequest, NoPlan
<1>6. CASE RecoverStaged
  BY <1>6
  DEF RecoverStaged, RecoverTo, Goto, disk, history, TypeOK, Contents, Kinds, Statuses, Requests,
      Labels, NoRequest, NoPlan
<1>7. CASE RecoverApplied
  BY <1>7
  DEF RecoverApplied, RecoverTo, Goto, disk, history, TypeOK, Contents, Kinds, Statuses, Requests,
      Labels, NoRequest, NoPlan
<1>8. CASE RecoverCommit
  BY <1>8
  DEF RecoverCommit, RecoverTo, OwnsCommit, Goto, disk, history, TypeOK, Contents, Kinds,
      Statuses, Requests, Labels, NoRequest, NoPlan
<1>9. CASE RecoverRefused
  BY <1>9
  DEF RecoverRefused, RecoverTo, Goto, Raised, disk, history, TypeOK, Contents, Kinds, Statuses,
      Requests, Labels, NoRequest, NoPlan
<1>10. CASE CleanOne
  BY <1>10 DEF CleanOne, TypeOK, Contents, memory, history
<1>11. CASE CleanSettled
  BY <1>11
  DEF CleanSettled, CleanTo, Cleaned, Raise, Goto, Returned, Raised, disk, history, TypeOK,
      Contents, Kinds, Statuses, Requests, Labels, NoRequest, NoPlan
<1>12. CASE CleanStaged
  BY <1>12
  DEF CleanStaged, CleanTo, Cleaned, Raise, Goto, Raised, disk, history, TypeOK, Contents, Kinds,
      Statuses, Requests, Labels, NoRequest, NoPlan
<1>13. CASE MarkRecovered
  <2>1. WithStatus("recovered") \in Payloads
    BY StatusPayload DEF TypeOK, Statuses
  <2>2. {Returned, Raised} \subseteq Labels
    BY DEF Labels, Returned, Raised
  <2>. QED
    BY <1>13, <2>1, <2>2, Written DEF MarkRecovered, TypeOK, history
<1>14. CASE ResumeCommit
  BY <1>14
  DEF ResumeCommit, Raise, Goto, history, TypeOK, Contents, Kinds, Statuses, Requests, Labels,
      NoRequest, NoPlan
<1>15. CASE NoteCommitFailure
  BY <1>15
  DEF NoteCommitFailure, Write, Raise, Goto, Raised, history, TypeOK, Contents, Kinds, Statuses,
      Requests, Labels, NoRequest, NoPlan
<1>16. CASE Begin
  <2>1. [status |-> "staging", key |-> request.key, entries |-> Plan(request.kinds)] \in Payloads
    BY DEF TypeOK, Payloads, Requests, Plan, Entries, Statuses
  <2>2. [p \in Paths |-> CASE request.kinds[p] = "replace" -> txn + 1
                         [] request.kinds[p] = "delete" -> Absent
                         [] OTHER -> live[p]] \in [Paths -> Contents]
    BY DEF TypeOK, Contents
  <2>3. CASE Raise /\ Goto("idle") /\ UNCHANGED <<stage, backup, journal, mem, history>>
    <3>1. "idle" \in Labels
      BY DEF Labels
    <3>. QED
      BY <1>16, <2>3, <3>1, GotoType DEF Begin, TypeOK, Raise, history
  <2>4. CASE pc' = "stage"
    BY <1>16, <2>1, <2>2, <2>4 DEF Begin, TypeOK, Labels, Empty, Contents, Goto
  <2>. QED
    BY <1>16, <2>3, <2>4 DEF Begin
<1>17. CASE Stage
  BY <1>17
  DEF Stage, Raise, Goto, Replaced, history, TypeOK, Contents, Kinds, Statuses, Requests, Labels,
      NoRequest, NoPlan
<1>18. CASE MarkPrepared
  <2>1. WithStatus("prepared") \in Payloads
    BY StatusPayload DEF TypeOK, Statuses
  <2>2. {"activate", "raise"} \subseteq Labels
    BY DEF Labels
  <2>. QED
    BY <1>18, <2>1, <2>2, Written DEF MarkPrepared, TypeOK, history
<1>19. CASE StartActivation
  <2>1. WithStatus("applying") \in Payloads
    BY StatusPayload DEF TypeOK, Statuses
  <2>2. {"entry", "raise"} \subseteq Labels
    BY DEF Labels
  <2>. QED
    BY <1>19, <2>1, <2>2, Written DEF StartActivation, TypeOK, history
<1>20. CASE BackUp
  <2>1. PICK p \in Paths : BackUp!2!(p)
    BY <1>20 DEF BackUp
  <2>2. {"move", "fail"} \subseteq Labels
    BY DEF Labels
  <2>3. WithOriginal(p) \in Payloads
    BY OriginalPayload DEF TypeOK
  <2>4. CASE p \in Replaced /\ stage[p] = Absent
    BY <1>20, <2>1, <2>2, <2>4, GotoType DEF BackUp, TypeOK, history
  <2>5. CASE ~(p \in Replaced /\ stage[p] = Absent)
    BY <1>20, <2>1, <2>2, <2>3, <2>5, Written DEF BackUp, TypeOK, history
  <2>. QED
    BY <2>4, <2>5
<1>21. CASE MoveAway
  <2>1. {"moved", "fail"} \subseteq Labels
    BY DEF Labels
  <2>2. live' \in [Paths -> Contents] /\ backup' \in [Paths -> Contents]
    BY <1>21 DEF MoveAway, TypeOK, Contents
  <2>3. faults' \in Nat
    BY <1>21 DEF MoveAway, Raise, TypeOK
  <2>. QED
    BY <1>21, <2>1, <2>2, <2>3, GotoType DEF MoveAway, TypeOK, history
<1>22. CASE MarkBackedUp
  <2>1. PICK p \in Paths : Write(WithState(p, "backed_up"), "place", "fail")
    BY <1>22 DEF MarkBackedUp
  <2>2. WithState(p, "backed_up") \in Payloads /\ {"place", "fail"} \subseteq Labels
    BY StatePayload DEF TypeOK, Labels
  <2>. QED
    BY <1>22, <2>1, <2>2, Written DEF MarkBackedUp, TypeOK, history
<1>23. CASE Place
  BY <1>23
  DEF Place, Replaced, Raise, Goto, history, TypeOK, Contents, Kinds, Statuses, Requests, Labels,
      NoRequest, NoPlan
<1>24. CASE MarkApplied
  <2>1. PICK p \in Paths : Write(WithState(p, "applied"), "entry", "fail")
    BY <1>24 DEF MarkApplied
  <2>2. WithState(p, "applied") \in Payloads /\ {"entry", "fail"} \subseteq Labels
    BY StatePayload DEF TypeOK, Labels
  <2>. QED
    BY <1>24, <2>1, <2>2, Written DEF MarkApplied, TypeOK, history
<1>25. CASE MarkFilesApplied
  <2>1. WithStatus("files_applied") \in Payloads
    BY StatusPayload DEF TypeOK, Statuses
  <2>2. {"complete", "mark_committing", "raise"} \subseteq Labels
    BY DEF Labels
  <2>. QED
    BY <1>25, <2>1, <2>2, Written DEF MarkFilesApplied, TypeOK, history
<1>26. CASE MarkFailed
  <2>1. WithStatus("failed") \in Payloads
    BY StatusPayload DEF TypeOK, Statuses
  <2>2. {"undo", "raise"} \subseteq Labels
    BY DEF Labels
  <2>. QED
    BY <1>26, <2>1, <2>2, Written DEF MarkFailed, TypeOK, history
<1>27. CASE MarkCommitting
  <2>1. WithStatus("committing") \in Payloads
    BY StatusPayload DEF TypeOK, Statuses
  <2>2. {"commit", "raise"} \subseteq Labels
    BY DEF Labels
  <2>. QED
    BY <1>27, <2>1, <2>2, Written DEF MarkCommitting, TypeOK, history
<1>28. CASE Commit
  BY <1>28
  DEF Commit, Raise, Goto, history, TypeOK, Contents, Kinds, Statuses, Requests, Labels,
      NoRequest, NoPlan
<1>29. CASE MarkComplete
  <2>1. WithStatus("complete") \in Payloads
    BY StatusPayload DEF TypeOK, Statuses
  <2>2. {"clean_complete", Raised} \subseteq Labels
    BY DEF Labels, Raised
  <2>. QED
    BY <1>29, <2>1, <2>2, Written DEF MarkComplete, TypeOK, history
<1>30. CASE CleanComplete
  BY <1>30
  DEF CleanComplete, CleanTo, Cleaned, Raise, Goto, disk, history, TypeOK, Contents, Kinds,
      Statuses, Requests, Labels, NoRequest, NoPlan
<1>31. CASE HandleError
  BY <1>31
  DEF HandleError, Goto, disk, history, TypeOK, Contents, Kinds, Statuses, Requests, Labels,
      NoRequest, NoPlan
<1>32. CASE UndoEntry
  <2>1. PICK p \in Paths : UndoEntry!2!(p)
    BY <1>32 DEF UndoEntry
  <2>2. WithState(p, "rolled_back") \in Payloads /\ {"undo", "undo_write"} \subseteq Labels
    BY StatePayload DEF TypeOK, Labels
  <2>3. mem' \in Payloads /\ failed' \in SUBSET Paths /\ faults' \in Nat
    BY <2>1, <2>2 DEF TypeOK, Raise
  <2>4. Restored(p) \in Contents
    BY DEF Restored, TypeOK, Contents
  <2>5. live' \in [Paths -> Contents]
    BY <2>1, <2>4 DEF TypeOK
  <2>6. /\ pc' \in Labels /\ cont' \in {"idle", "begin", "execute"}
        /\ request' \in Requests
    BY <2>1, <2>2, GotoType
  <2>. QED
    BY <1>32, <2>3, <2>5, <2>6 DEF UndoEntry, TypeOK, history
<1>33. CASE UndoWrite
  <2>1. mem \in Payloads /\ "undo" \in Labels
    BY DEF TypeOK, Labels
  <2>2. failed' \in SUBSET Paths
    BY <1>33 DEF UndoWrite, TypeOK
  <2>. QED
    BY <1>33, <2>1, <2>2, Written DEF UndoWrite, TypeOK, history
<1>34. CASE UndoFailed
  <2>1. WithStatus("repair_required") \in Payloads
    BY StatusPayload DEF TypeOK, Statuses
  <2>2. {Raised} \subseteq Labels
    BY DEF Labels, Raised
  <2>. QED
    BY <1>34, <2>1, <2>2, Written DEF UndoFailed, TypeOK, history
<1>35. CASE UndoSucceeded
  BY <1>35
  DEF UndoSucceeded, ToUndo, Goto, disk, history, TypeOK, Contents, Kinds, Statuses, Requests,
      Labels, NoRequest, NoPlan
<1>36. CASE CleanUndone
  BY <1>36
  DEF CleanUndone, CleanTo, Cleaned, Raise, Goto, Raised, disk, history, TypeOK, Contents, Kinds,
      Statuses, Requests, Labels, NoRequest, NoPlan
<1>37. CASE MarkRolledBack
  <2>1. WithStatus("rolled_back") \in Payloads
    BY StatusPayload DEF TypeOK, Statuses
  <2>2. {Returned, Raised} \subseteq Labels
    BY DEF Labels, Returned, Raised
  <2>. QED
    BY <1>37, <2>1, <2>2, Written DEF MarkRolledBack, TypeOK, history
<1>38. CASE Crash
  BY <1>38
  DEF Crash, Goto, disk, history, TypeOK, Contents, Kinds, Statuses, Requests, Labels, NoRequest,
      NoPlan
<1>39. CASE LoseBackup
  BY <1>39
  DEF LoseBackup, memory, TypeOK, Contents, Kinds, Statuses, Requests, Labels, NoRequest, NoPlan
<1>40. CASE Finished
  BY <1>40
  DEF Finished, vars, disk, memory, history, TypeOK, Contents, Kinds, Statuses, Requests, Labels,
      NoRequest, NoPlan
<1>. QED
  BY <1>1, <1>2, <1>3, <1>4, <1>5, <1>6, <1>7, <1>8, <1>9, <1>10, <1>11, <1>12, <1>13, <1>14,
      <1>15, <1>16, <1>17, <1>18, <1>19, <1>20, <1>21, <1>22, <1>23, <1>24, <1>25, <1>26, <1>27,
      <1>28, <1>29, <1>30, <1>31, <1>32, <1>33, <1>34, <1>35, <1>36, <1>37, <1>38, <1>39, <1>40
  DEF Next, Step, Recovery, Activation, Undoing

\* One entry of the loop is under way and the others are done or to come.
LEMMA LoopEnters ==
    ASSUME NEW p \in Paths, NEW s \in {"backing_up", "backed_up"},
           s = "backing_up" => pc' = "move" /\ live'[p] = before'[p] /\ backup'[p] = Absent,
           s = "backed_up" => pc' = "place" /\ live'[p] = Absent,
           mem'.entries[p].state = s,
           mem'.entries[p].kind = "replace" => stage'[p] = goal'[p],
           \A q \in Paths : q # p => /\ mem'.entries[q].state \in {"planned", "applied"}
                                     /\ mem'.entries[q].state = "applied" => live'[q] = goal'[q]
    PROVE  LoopInv'
<1>1. AllIn({"planned", "applied", s})'
  BY DEF AllIn
<1>2. \A q \in Paths : q \in InState("applied")' => live'[q] = goal'[q]
  BY DEF InState
<1>3. \A q \in Paths : q \in InState(s)' => q = p
  BY DEF InState
<1>4. \A q \in Paths : q \in InState("backing_up")' \cup InState("backed_up")' => q = p
  BY DEF InState
<1>5. \A t : InState(t)' \subseteq Paths
  BY DEF InState
<1>6. CASE s = "backing_up"
  BY <1>1, <1>2, <1>3, <1>4, <1>5, <1>6 DEF LoopInv, Replaced
<1>7. CASE s = "backed_up"
  BY <1>1, <1>2, <1>3, <1>4, <1>5, <1>7 DEF LoopInv, Replaced
<1>. QED
  BY <1>6, <1>7

\* Every step keeps what the journal says of the files.
LEMMA DiskStep == ASSUME IInv, Next, TypeOK' PROVE DiskInv'
<1> USE ConstantsAssumption
    DEF IInv, DiskInv, EntryOK, StatusOK, TypeOK, Contents, Kinds, Statuses, Entries, Payloads,
        Requests, Labels, NoRequest, NoPlan, Settled
<1>1. CASE UNCHANGED <<live, stage, backup, journal, before, goal, lost>>
  BY <1>1
<1>2. CASE CleanOne
  BY <1>2
  DEF CleanOne, memory, history, CallInv, StatusAt, LoopInv, Synced, InState, AllIn, Replaced
<1>3. CASE MarkRecovered
  BY <1>3
  DEF MarkRecovered, Write, WithStatus, Raise, Goto, Returned, Raised, history, CallInv, StatusAt,
      LoopInv, Synced, InState, AllIn, Replaced
<1>4. CASE NoteCommitFailure
  BY <1>4
  DEF NoteCommitFailure, Write, Raise, Goto, Raised, history, CallInv, StatusAt, LoopInv, Synced,
      InState, AllIn, Replaced
<1>5. CASE Begin
  BY <1>5
  DEF Begin, Raise, Goto, Plan, Empty, history, CallInv, StatusAt, LoopInv, Synced, InState,
      AllIn, Replaced
<1>6. CASE Stage
  BY <1>6
  DEF Stage, Raise, Goto, Replaced, history, CallInv, StatusAt, LoopInv, Synced, InState, AllIn,
      Replaced
<1>7. CASE MarkPrepared
  BY <1>7
  DEF MarkPrepared, Write, WithStatus, Raise, Goto, history, CallInv, StatusAt, LoopInv, Synced,
      InState, AllIn, Replaced
<1>8. CASE StartActivation
  BY <1>8
  DEF StartActivation, Write, WithStatus, Raise, Goto, history, CallInv, StatusAt, LoopInv,
      Synced, InState, AllIn, Replaced
<1>9. CASE BackUp
  <2>1. PICK p \in Paths : BackUp!2!(p)
    BY <1>9 DEF BackUp
  <2>2. mem = journal /\ pc = "entry" /\ journal.status = "applying"
    BY <1>9 DEF BackUp, CallInv, StatusAt, Synced
  <2>3. /\ UNCHANGED <<live, stage, backup, before, goal, lost>>
        /\ mem.entries[p].state = "planned" /\ mem.entries[p].kind # "none"
    BY <1>9, <2>1 DEF BackUp, NextEntry, Planned, history
  <2>4. CASE journal' = journal
    BY <2>3, <2>4
  <2>5. CASE journal' = WithOriginal(p)
    <3>1. /\ journal'.status = "applying"
          /\ journal'.entries[p] = [kind |-> mem.entries[p].kind, state |-> "backing_up",
                                    had |-> live[p] # Absent]
          /\ \A q \in Paths : q # p => journal'.entries[q] = journal.entries[q]
      BY <2>2, <2>5, OriginalPayload
    <3>2. ASSUME NEW q \in Paths, q # p PROVE EntryOK(journal.entries[q], q)'
      BY <2>2, <2>3, <3>1, <3>2
    <3>3. EntryOK(journal.entries[p], p)'
      BY <2>2, <2>3, <3>1
    <3>. QED
      BY <2>2, <2>3, <3>1, <3>2, <3>3
  <2>. QED
    BY <2>1, <2>4, <2>5 DEF Write
<1>10. CASE MoveAway
  BY <1>10, SMTT(60)
  DEF MoveAway, Raise, Goto, history, CallInv, StatusAt, LoopInv, Synced, InState, AllIn, Replaced
<1>11. CASE MarkBackedUp
  <2>1. PICK p \in Paths : /\ mem.entries[p].state = "backing_up"
                           /\ Write(WithState(p, "backed_up"), "place", "fail")
    BY <1>11 DEF MarkBackedUp
  <2>2. /\ mem = journal /\ journal.status = "applying"
        /\ live[p] = Absent /\ (p \notin lost => backup[p] = before[p])
    BY <1>11, <2>1 DEF MarkBackedUp, CallInv, StatusAt, LoopInv, InState, Synced
  <2>3. UNCHANGED <<live, stage, backup, before, goal, lost>>
    BY <1>11 DEF MarkBackedUp, history
  <2>4. CASE journal' = journal
    BY <2>3, <2>4
  <2>5. CASE journal' = WithState(p, "backed_up")
    <3>1. /\ journal'.status = "applying"
          /\ journal'.entries[p].state = "backed_up"
          /\ journal'.entries[p].kind = journal.entries[p].kind
          /\ journal'.entries[p].had = journal.entries[p].had
          /\ \A q \in Paths : q # p => journal'.entries[q] = journal.entries[q]
      BY <2>2, <2>5, StatePayload
    <3>2. ASSUME NEW q \in Paths, q # p PROVE EntryOK(journal.entries[q], q)'
      BY <2>2, <2>3, <3>1, <3>2
    <3>3. EntryOK(journal.entries[p], p)'
      BY <2>1, <2>2, <2>3, <3>1
    <3>. QED
      BY <2>2, <2>3, <3>1, <3>2, <3>3
  <2>. QED
    BY <2>1, <2>4, <2>5 DEF Write
<1>12. CASE Place
  BY <1>12, SMTT(60)
  DEF Place, Replaced, Raise, Goto, history, CallInv, StatusAt, LoopInv, Synced, InState, AllIn,
      Replaced
<1>13. CASE MarkApplied
  BY <1>13, SMTT(60)
  DEF MarkApplied, Write, WithState, Raise, Goto, history, CallInv, StatusAt, LoopInv, Synced,
      InState, AllIn, Replaced
<1>14. CASE MarkFilesApplied
  BY <1>14
  DEF MarkFilesApplied, Planned, Write, WithStatus, Raise, Goto, history, CallInv, StatusAt,
      LoopInv, Synced, InState, AllIn, Replaced
<1>15. CASE MarkFailed
  <2>1. /\ mem.status = "applying" /\ journal.status = "applying"
        /\ \A p \in Paths : EntryOK(mem.entries[p], p)
    BY <1>15 DEF MarkFailed, CallInv, StatusAt
  <2>2. UNCHANGED <<live, stage, backup, before, goal, lost>>
    BY <1>15 DEF MarkFailed, history
  <2>3. CASE journal' = journal
    BY <2>2, <2>3
  <2>4. CASE journal' = WithStatus("failed")
    <3>1. journal'.status = "failed" /\ journal'.entries = mem.entries
      BY <2>4, StatusPayload
    <3>. QED
      BY <2>1, <2>2, <3>1
  <2>. QED
    BY <1>15, <2>3, <2>4 DEF MarkFailed, Write
<1>16. CASE MarkCommitting
  BY <1>16
  DEF MarkCommitting, Write, WithStatus, Raise, Goto, history, CallInv, StatusAt, LoopInv, Synced,
      InState, AllIn, Replaced
<1>17. CASE MarkComplete
  BY <1>17
  DEF MarkComplete, Write, WithStatus, Raise, Goto, Raised, history, CallInv, StatusAt, LoopInv,
      Synced, InState, AllIn, Replaced
<1>18. CASE UndoEntry
  BY <1>18, SMTT(60)
  DEF UndoEntry, NextUndo, ToUndo, BackupLost, Restored, WithState, Raise, Goto, history, CallInv,
      StatusAt, LoopInv, Synced, InState, AllIn, Replaced
<1>19. CASE UndoWrite
  BY <1>19, SMTT(60)
  DEF UndoWrite, Write, Raise, Goto, history, CallInv, StatusAt, LoopInv, Synced, InState, AllIn,
      Replaced
<1>20. CASE UndoFailed
  BY <1>20
  DEF UndoFailed, ToUndo, Write, WithStatus, Raise, Goto, Raised, history, CallInv, StatusAt,
      LoopInv, Synced, InState, AllIn, Replaced
<1>21. CASE MarkRolledBack
  BY <1>21
  DEF MarkRolledBack, Write, WithStatus, Raise, Goto, Returned, Raised, history, CallInv,
      StatusAt, LoopInv, Synced, InState, AllIn, Replaced
<1>22. CASE LoseBackup
  BY <1>22 DEF LoseBackup, memory, CallInv, StatusAt, LoopInv, Synced, InState, AllIn, Replaced
<1>. QED
  BY <1>1, <1>2, <1>3, <1>4, <1>5, <1>6, <1>7, <1>8, <1>9, <1>10, <1>11, <1>12, <1>13, <1>14,
      <1>15, <1>16, <1>17, <1>18, <1>19, <1>20, <1>21, <1>22
  DEF Next, Step, Recovery, Activation, Undoing, vars, disk, memory, history, RecoverTo,
      CleanTo, Execute, RecoverOnEntry, RecoverNothing, RecoverComplete, RecoverSettled,
      RecoverStaged, RecoverApplied, RecoverCommit, RecoverRefused, CleanSettled, CleanStaged,
      ResumeCommit, Commit, CleanComplete, HandleError, UndoSucceeded, CleanUndone, Crash, Finished

\* Every step keeps what the running call knows of the disk.
LEMMA CallStep == ASSUME IInv, Next, TypeOK' PROVE CallInv'
<1> USE ConstantsAssumption
    DEF IInv, DiskInv, EntryOK, StatusOK, TypeOK, Contents, Kinds, Statuses, Entries, Payloads,
        Requests, Labels, NoRequest, NoPlan, Settled
<1>1. CASE Execute
  BY <1>1 DEF Execute, disk, history, CallInv, StatusAt, LoopInv, Synced, InState, AllIn, Replaced
<1>2. CASE RecoverOnEntry
  BY <1>2
  DEF RecoverOnEntry, disk, history, CallInv, StatusAt, LoopInv, Synced, InState, AllIn, Replaced
<1>3. CASE RecoverNothing
  BY <1>3
  DEF RecoverNothing, RecoverTo, Goto, Returned, disk, history, CallInv, StatusAt, LoopInv,
      Synced, InState, AllIn, Replaced
<1>4. CASE RecoverComplete
  BY <1>4
  DEF RecoverComplete, RecoverTo, Goto, disk, history, CallInv, StatusAt, LoopInv, Synced,
      InState, AllIn, Replaced
<1>5. CASE RecoverSettled
  BY <1>5
  DEF RecoverSettled, RecoverTo, Goto, disk, history, CallInv, StatusAt, LoopInv, Synced, InState,
      AllIn, Replaced
<1>6. CASE RecoverStaged
  BY <1>6
  DEF RecoverStaged, RecoverTo, Goto, disk, history, CallInv, StatusAt, LoopInv, Synced, InState,
      AllIn, Replaced
<1>7. CASE RecoverApplied
  BY <1>7
  DEF RecoverApplied, RecoverTo, Goto, disk, history, CallInv, StatusAt, LoopInv, Synced, InState,
      AllIn, Replaced
<1>8. CASE RecoverCommit
  BY <1>8
  DEF RecoverCommit, RecoverTo, OwnsCommit, Goto, disk, history, CallInv, StatusAt, LoopInv,
      Synced, InState, AllIn, Replaced
<1>9. CASE RecoverRefused
  BY <1>9
  DEF RecoverRefused, RecoverTo, Goto, Raised, disk, history, CallInv, StatusAt, LoopInv, Synced,
      InState, AllIn, Replaced
<1>10. CASE CleanOne
  BY <1>10, SMTT(60)
  DEF CleanOne, memory, history, CallInv, StatusAt, LoopInv, Synced, InState, AllIn, Replaced
<1>11. CASE CleanSettled
  BY <1>11
  DEF CleanSettled, CleanTo, Cleaned, Raise, Goto, Returned, Raised, disk, history, CallInv,
      StatusAt, LoopInv, Synced, InState, AllIn, Replaced
<1>12. CASE CleanStaged
  BY <1>12
  DEF CleanStaged, CleanTo, Cleaned, Raise, Goto, Raised, disk, history, CallInv, StatusAt,
      LoopInv, Synced, InState, AllIn, Replaced
<1>13. CASE MarkRecovered
  BY <1>13
  DEF MarkRecovered, Write, WithStatus, Raise, Goto, Returned, Raised, history, CallInv, StatusAt,
      LoopInv, Synced, InState, AllIn, Replaced
<1>14. CASE ResumeCommit
  BY <1>14
  DEF ResumeCommit, Raise, Goto, history, CallInv, StatusAt, LoopInv, Synced, InState, AllIn,
      Replaced
<1>15. CASE NoteCommitFailure
  BY <1>15
  DEF NoteCommitFailure, Write, Raise, Goto, Raised, history, CallInv, StatusAt, LoopInv, Synced,
      InState, AllIn, Replaced
<1>16. CASE Begin
  BY <1>16, SMTT(60)
  DEF Begin, Raise, Goto, Plan, Empty, history, CallInv, StatusAt, LoopInv, Synced, InState,
      AllIn, Replaced
<1>17. CASE Stage
  BY <1>17, SMTT(60)
  DEF Stage, Raise, Goto, Replaced, history, CallInv, StatusAt, LoopInv, Synced, InState, AllIn,
      Replaced
<1>18. CASE MarkPrepared
  BY <1>18
  DEF MarkPrepared, Write, WithStatus, Raise, Goto, history, CallInv, StatusAt, LoopInv, Synced,
      InState, AllIn, Replaced
<1>19. CASE StartActivation
  BY <1>19
  DEF StartActivation, Write, WithStatus, Raise, Goto, history, CallInv, StatusAt, LoopInv,
      Synced, InState, AllIn, Replaced
<1>20. CASE BackUp
  <2>1. PICK p \in Paths : BackUp!2!(p)
    BY <1>20 DEF BackUp
  <2>2. /\ mem = journal /\ pc = "entry" /\ journal.status = "applying"
        /\ request.key = journal.key
        /\ AllIn({"planned", "applied"})
        /\ \A q \in InState("applied") : live[q] = goal[q]
    BY <1>20 DEF BackUp, CallInv, StatusAt, Synced, LoopInv
  <2>3. /\ UNCHANGED <<live, stage, backup, profile, before, goal, lost, failed>>
        /\ mem.entries[p].state = "planned" /\ mem.entries[p].kind # "none"
    BY <1>20, <2>1 DEF BackUp, NextEntry, Planned, history
  <2>4. /\ WithOriginal(p).status = "applying" /\ WithOriginal(p).key = journal.key
        /\ WithOriginal(p).entries[p] = [kind |-> mem.entries[p].kind, state |-> "backing_up",
                                         had |-> live[p] # Absent]
        /\ \A q \in Paths : q # p => WithOriginal(p).entries[q] = mem.entries[q]
    BY <2>2, OriginalPayload
  <2>5. CASE pc' = "fail" /\ mem' = mem
    BY <2>2, <2>3, <2>5, <2>1 DEF Write, CallInv, StatusAt, LoopInv, Synced
  <2>6. CASE pc' = "fail" /\ mem' = WithOriginal(p) /\ journal' = journal
    <3>1. \A q \in Paths : EntryOK(mem.entries[q], q)'
      <4>1. ASSUME NEW q \in Paths, q # p PROVE EntryOK(mem.entries[q], q)'
        BY <2>2, <2>3, <2>4, <2>6, <4>1
      <4>2. EntryOK(mem.entries[p], p)'
        BY <2>2, <2>3, <2>4, <2>6
      <4>. QED
        BY <4>1, <4>2
    <3>. QED
      BY <2>2, <2>3, <2>4, <2>6, <3>1, SMTT(60) DEF CallInv, StatusAt, LoopInv, Synced
  <2>7. CASE /\ pc' = "move" /\ mem' = WithOriginal(p) /\ journal' = WithOriginal(p)
             /\ request' = request /\ ~(p \in Replaced /\ stage[p] = Absent)
    <3>1. /\ mem'.entries[p].state = "backing_up"
          /\ mem'.entries[p].kind = mem.entries[p].kind
          /\ \A q \in Paths : q # p => mem'.entries[q] = mem.entries[q]
      BY <2>4, <2>7
    <3>2. \A q \in Paths : q # p => /\ mem'.entries[q].state \in {"planned", "applied"}
                                    /\ mem'.entries[q].state = "applied" => live'[q] = goal'[q]
      BY <2>2, <2>3, <3>1 DEF AllIn, InState
    <3>3. live'[p] = before'[p] /\ backup'[p] = Absent
      BY <2>2, <2>3, <2>7
    <3>4. mem'.entries[p].kind = "replace" => stage'[p] = goal'[p]
      BY <2>2, <2>3, <3>1, <2>7 DEF Replaced
    <3>5. LoopInv'
      BY <3>1, <3>2, <3>3, <3>4, LoopEnters, <2>7
    <3>. QED
      BY <2>2, <2>3, <2>4, <2>7, <3>5, SMTT(60) DEF CallInv, StatusAt, Synced
  <2>. QED
    BY <2>1, <2>5, <2>6, <2>7 DEF Write, Goto
<1>21. CASE MoveAway
  BY <1>21, SMTT(60)
  DEF MoveAway, Raise, Goto, history, CallInv, StatusAt, LoopInv, Synced, InState, AllIn, Replaced
<1>22. CASE MarkBackedUp
  <2>1. PICK p \in Paths : /\ mem.entries[p].state = "backing_up"
                           /\ Write(WithState(p, "backed_up"), "place", "fail")
    BY <1>22 DEF MarkBackedUp
  <2>2. /\ mem = journal /\ pc = "moved" /\ journal.status = "applying"
        /\ request.key = journal.key
        /\ AllIn({"planned", "applied", "backing_up"})
        /\ \A q \in Paths : q # p => mem.entries[q].state # "backing_up"
        /\ \A q \in InState("applied") : live[q] = goal[q]
        /\ p \in Replaced => stage[p] = goal[p]
        /\ live[p] = Absent /\ (p \notin lost => backup[p] = before[p])
    BY <1>22, <2>1 DEF MarkBackedUp, CallInv, StatusAt, Synced, LoopInv, InState
  <2>3. UNCHANGED <<live, stage, backup, profile, before, goal, lost, failed>>
    BY <1>22 DEF MarkBackedUp, history
  <2>4. LET W == WithState(p, "backed_up")
        IN  /\ W.status = "applying" /\ W.key = journal.key
            /\ W.entries[p].state = "backed_up"
            /\ W.entries[p].kind = mem.entries[p].kind
            /\ W.entries[p].had = mem.entries[p].had
            /\ \A q \in Paths : q # p => W.entries[q] = mem.entries[q]
    BY <2>2, StatePayload
  <2>5. CASE pc' = "fail" /\ mem' = WithState(p, "backed_up") /\ journal' = journal
    <3>1. \A q \in Paths : EntryOK(mem.entries[q], q)'
      <4>1. ASSUME NEW q \in Paths, q # p PROVE EntryOK(mem.entries[q], q)'
        BY <2>2, <2>3, <2>4, <2>5, <4>1
      <4>2. EntryOK(mem.entries[p], p)'
        BY <2>1, <2>2, <2>3, <2>4, <2>5
      <4>. QED
        BY <4>1, <4>2
    <3>. QED
      BY <2>2, <2>3, <2>4, <2>5, <3>1, SMTT(60) DEF CallInv, StatusAt, LoopInv, Synced
  <2>6. CASE /\ pc' = "place" /\ mem' = WithState(p, "backed_up")
             /\ journal' = WithState(p, "backed_up") /\ request' = request
    <3>1. /\ mem'.entries[p].state = "backed_up"
          /\ mem'.entries[p].kind = mem.entries[p].kind
          /\ \A q \in Paths : q # p => mem'.entries[q] = mem.entries[q]
      BY <2>4, <2>6
    <3>2. \A q \in Paths : q # p => /\ mem'.entries[q].state \in {"planned", "applied"}
                                    /\ mem'.entries[q].state = "applied" => live'[q] = goal'[q]
      BY <2>2, <2>3, <3>1 DEF AllIn, InState
    <3>3. live'[p] = Absent
      BY <2>2, <2>3, <2>6
    <3>4. mem'.entries[p].kind = "replace" => stage'[p] = goal'[p]
      BY <2>2, <2>3, <3>1, <2>6 DEF Replaced
    <3>5. LoopInv'
      BY <3>1, <3>2, <3>3, <3>4, LoopEnters, <2>6
    <3>. QED
      BY <2>2, <2>3, <2>4, <2>6, <3>5, SMTT(60) DEF CallInv, StatusAt, Synced
  <2>. QED
    BY <2>1, <2>5, <2>6 DEF Write, Goto
<1>23. CASE Place
  BY <1>23, SMTT(60)
  DEF Place, Replaced, Raise, Goto, history, CallInv, StatusAt, LoopInv, Synced, InState, AllIn,
      Replaced
<1>24. CASE MarkApplied
  BY <1>24, SMTT(60)
  DEF MarkApplied, Write, WithState, Raise, Goto, history, CallInv, StatusAt, LoopInv, Synced,
      InState, AllIn, Replaced
<1>25. CASE MarkFilesApplied
  BY <1>25, SMTT(60)
  DEF MarkFilesApplied, Planned, Write, WithStatus, Raise, Goto, history, CallInv, StatusAt,
      LoopInv, Synced, InState, AllIn, Replaced
<1>26. CASE MarkFailed
  BY <1>26, SMTT(60)
  DEF MarkFailed, Write, WithStatus, Raise, Goto, history, CallInv, StatusAt, LoopInv, Synced,
      InState, AllIn, Replaced
<1>27. CASE MarkCommitting
  BY <1>27, SMTT(60)
  DEF MarkCommitting, Write, WithStatus, Raise, Goto, history, CallInv, StatusAt, LoopInv, Synced,
      InState, AllIn, Replaced
<1>28. CASE Commit
  BY <1>28, SMTT(60)
  DEF Commit, Raise, Goto, history, CallInv, StatusAt, LoopInv, Synced, InState, AllIn, Replaced
<1>29. CASE MarkComplete
  BY <1>29, SMTT(60)
  DEF MarkComplete, Write, WithStatus, Raise, Goto, Raised, history, CallInv, StatusAt, LoopInv,
      Synced, InState, AllIn, Replaced
<1>30. CASE CleanComplete
  BY <1>30, SMTT(60)
  DEF CleanComplete, CleanTo, Cleaned, Raise, Goto, disk, history, CallInv, StatusAt, LoopInv,
      Synced, InState, AllIn, Replaced
<1>31. CASE HandleError
  BY <1>31, SMTT(60)
  DEF HandleError, Goto, disk, history, CallInv, StatusAt, LoopInv, Synced, InState, AllIn,
      Replaced
<1>32. CASE UndoEntry
  <2>1. PICK p \in Paths : UndoEntry!2!(p)
    BY <1>32 DEF UndoEntry
  <2>2. /\ pc = "undo" /\ journal.status \notin Settled
        /\ mem.status = journal.status /\ mem.key = journal.key /\ StatusOK(mem)
        /\ \A q \in Paths : EntryOK(mem.entries[q], q)
    BY <1>32 DEF UndoEntry, CallInv, StatusAt
  <2>6. failed = {} => mem = journal
    BY <2>2 DEF CallInv
  <2>3. /\ UNCHANGED <<stage, backup, journal, profile, before, goal, lost>>
        /\ mem.entries[p].state \in {"backing_up", "backed_up", "applied"}
    BY <1>32, <2>1 DEF UndoEntry, NextUndo, ToUndo, history
  <2>4. CASE pc' = "undo" /\ mem' = mem /\ live' = live /\ failed' # {}
    BY <2>2, <2>3, <2>4, SMTT(60) DEF CallInv, StatusAt, LoopInv, Synced
  <2>5. CASE /\ pc' = "undo_write" /\ mem' = WithState(p, "rolled_back") /\ ~BackupLost(p)
             /\ live' = [live EXCEPT ![p] = Restored(p)] /\ failed' = failed
    <3>1. Restored(p) = before[p]
      BY <2>2, <2>3, <2>5 DEF Restored, BackupLost
    <3>2. live'[p] = before[p] /\ \A q \in Paths : q # p => live'[q] = live[q]
      BY <2>5, <3>1
    <3>3. /\ mem'.status = mem.status /\ mem'.key = mem.key
          /\ mem'.entries[p].state = "rolled_back"
          /\ mem'.entries[p].kind = mem.entries[p].kind
          /\ \A q \in Paths : q # p => mem'.entries[q] = mem.entries[q]
      BY <2>5, StatePayload
    <3>4. \A q \in Paths : EntryOK(mem.entries[q], q)'
      <4>1. ASSUME NEW q \in Paths, q # p PROVE EntryOK(mem.entries[q], q)'
        BY <2>2, <2>3, <3>2, <3>3, <4>1
      <4>2. EntryOK(mem.entries[p], p)'
        BY <2>2, <2>3, <3>2, <3>3
      <4>. QED
        BY <4>1, <4>2
    <3>5. StatusOK(mem)'
      <4>1. mem.status \notin {"none", "staging", "prepared", "recovered", "rolled_back"}
        BY <2>2, <2>3
      <4>2. ASSUME mem.status \in {"files_applied", "committing", "complete"},
                   NEW q \in Paths, mem'.entries[q].kind # "none"
            PROVE  mem'.entries[q].state \in {"applied", "rolled_back"}
        <5>1. CASE q = p
          BY <3>3, <5>1
        <5>2. CASE q # p
          BY <2>2, <3>3, <4>2, <5>2
        <5>. QED
          BY <5>1, <5>2
      <4>. QED
        BY <2>2, <3>3, <4>1, <4>2
    <3>6. failed = {} => mem'.entries[p] # journal.entries[p]
      <4>1. mem.entries[p].state # "rolled_back"
        BY <2>3
      <4>. QED
        BY <2>6, <3>3, <4>1
    <3>. QED
      BY <2>2, <2>3, <2>5, <3>3, <3>4, <3>5, <3>6, SMTT(60) DEF CallInv, StatusAt, LoopInv, Synced
  <2>. QED
    BY <2>1, <2>4, <2>5 DEF Goto
<1>33. CASE UndoWrite
  BY <1>33, SMTT(60)
  DEF UndoWrite, Write, Raise, Goto, history, CallInv, StatusAt, LoopInv, Synced, InState, AllIn,
      Replaced
<1>34. CASE UndoFailed
  BY <1>34, SMTT(60)
  DEF UndoFailed, ToUndo, Write, WithStatus, Raise, Goto, Raised, history, CallInv, StatusAt,
      LoopInv, Synced, InState, AllIn, Replaced
<1>35. CASE UndoSucceeded
  BY <1>35, SMTT(60)
  DEF UndoSucceeded, ToUndo, Goto, disk, history, CallInv, StatusAt, LoopInv, Synced, InState,
      AllIn, Replaced
<1>36. CASE CleanUndone
  BY <1>36, SMTT(60)
  DEF CleanUndone, CleanTo, Cleaned, Raise, Goto, Raised, disk, history, CallInv, StatusAt,
      LoopInv, Synced, InState, AllIn, Replaced
<1>37. CASE MarkRolledBack
  BY <1>37, SMTT(60)
  DEF MarkRolledBack, Write, WithStatus, Raise, Goto, Returned, Raised, history, CallInv,
      StatusAt, LoopInv, Synced, InState, AllIn, Replaced
<1>38. CASE Crash
  BY <1>38, SMTT(60)
  DEF Crash, Goto, disk, history, CallInv, StatusAt, LoopInv, Synced, InState, AllIn, Replaced
<1>39. CASE LoseBackup
  BY <1>39, SMTT(60)
  DEF LoseBackup, memory, CallInv, StatusAt, LoopInv, Synced, InState, AllIn, Replaced
<1>40. CASE Finished
  BY <1>40
  DEF Finished, vars, disk, memory, history, CallInv, StatusAt, LoopInv, Synced, InState, AllIn,
      Replaced
<1>. QED
  BY <1>1, <1>2, <1>3, <1>4, <1>5, <1>6, <1>7, <1>8, <1>9, <1>10, <1>11, <1>12, <1>13, <1>14,
      <1>15, <1>16, <1>17, <1>18, <1>19, <1>20, <1>21, <1>22, <1>23, <1>24, <1>25, <1>26, <1>27,
      <1>28, <1>29, <1>30, <1>31, <1>32, <1>33, <1>34, <1>35, <1>36, <1>37, <1>38, <1>39, <1>40
  DEF Next, Step, Recovery, Activation, Undoing

-----------------------------------------------------------------------------
\* At first there is no transaction.
LEMMA InitInv == Init => IInv
BY ConstantsAssumption
   DEF Init, IInv, DiskInv, EntryOK, StatusOK, CallInv, StatusAt, LoopInv, Synced, InState, AllIn,
       Empty, Plan, TypeOK, Contents, Kinds, Statuses, Entries, Payloads, Requests, Labels,
       NoRequest, NoPlan, Settled, Replaced

\* A stuttering step changes nothing.
LEMMA StutterInv == ASSUME IInv, UNCHANGED vars PROVE IInv'
BY DEF vars, disk, memory, history, IInv, TypeOK, DiskInv, EntryOK, StatusOK, CallInv, StatusAt,
       LoopInv, Synced, InState, AllIn, Replaced

\* Every step keeps the invariant.
LEMMA StepInv == ASSUME IInv, [Next]_vars PROVE IInv'
<1>1. CASE Next
  <2>1. TypeOK'
    BY <1>1, TypeStep DEF IInv
  <2>. QED
    BY <1>1, <2>1, DiskStep, CallStep DEF IInv
<1>2. CASE UNCHANGED vars
  BY <1>2, StutterInv
<1>. QED
  BY <1>1, <1>2

\* The inductive invariant holds in every reachable state, for any number of files, transactions,
\* errors, deaths and lost backups.
THEOREM InductiveInvariant == Spec => []IInv
BY InitInv, StepInv, PTL DEF Spec

\* Every variable keeps its type.
THEOREM TypeCorrect == Spec => []TypeOK
<1>1. IInv => TypeOK
  BY DEF IInv
<1>. QED
  BY <1>1, InductiveInvariant, PTL

\* The invariant accounts for every original: in place or in its backup.
LEMMA InvNoOriginalLost == IInv => NoOriginalLost
BY DEF IInv, DiskInv, EntryOK, NoOriginalLost, TypeOK, Payloads, Entries, Statuses

\* The original of a file whose transaction is not complete is at its place or among the backups.
THEOREM OriginalsKept == Spec => []NoOriginalLost
BY InvNoOriginalLost, InductiveInvariant, PTL

\* A settled journal leaves the directory in one of its two whole states.
LEMMA InvSettledIsWhole == ASSUME IInv PROVE SettledIsWhole
<1>1. ASSUME journal.status \in {"staging", "prepared", "recovered", "rolled_back"}
      PROVE  live = before
  <2>1. \A p \in Paths : live[p] = before[p]
    BY <1>1 DEF IInv, DiskInv, EntryOK, StatusOK, TypeOK, Payloads, Entries
  <2>. QED
    BY <2>1 DEF IInv, TypeOK
<1>2. ASSUME journal.status = "complete", NEW p \in Paths PROVE live[p] \in {before[p], goal[p]}
  BY <1>2 DEF IInv, DiskInv, EntryOK, StatusOK, TypeOK, Payloads, Entries
<1>. QED
  BY <1>1, <1>2 DEF IInv, DiskInv, SettledIsWhole

\* A settled directory is whole: as it was, or as the transaction wanted it.
THEOREM SettledDirectoryWhole == Spec => []SettledIsWhole
<1>1. IInv => SettledIsWhole
  BY InvSettledIsWhole
<1>. QED
  BY <1>1, InductiveInvariant, PTL

\* A new transaction begins only over a settled journal.
LEMMA BeginsSettled == ASSUME IInv, [Next]_vars, txn' # txn PROVE journal.status \in Settled
<1>1. Begin
  BY DEF Next, Step, Recovery, Activation, Undoing, vars, history, memory, Execute,
      RecoverOnEntry, RecoverNothing, RecoverComplete, RecoverSettled, RecoverStaged,
      RecoverApplied, RecoverCommit, RecoverRefused, CleanOne, CleanSettled, CleanStaged,
      MarkRecovered, ResumeCommit, NoteCommitFailure, Stage, MarkPrepared, StartActivation, BackUp,
      MoveAway, MarkBackedUp, Place, MarkApplied, MarkFilesApplied, MarkFailed, MarkCommitting,
      Commit, MarkComplete, CleanComplete, HandleError, UndoEntry, UndoWrite, UndoFailed,
      UndoSucceeded, CleanUndone, MarkRolledBack, Crash, LoseBackup, Finished, RecoverTo, CleanTo
<1>. QED
  BY <1>1 DEF Begin, IInv, CallInv, StatusAt

\* No transaction begins over the journal of one that is not over.
THEOREM UnsettledJournalKept == Spec => UnsettledNeverReplaced
<1>1. IInv /\ [Next]_vars => [txn' # txn => journal.status \in Settled]_vars
  BY BeginsSettled
<1>. QED
  BY <1>1, InductiveInvariant, PTL DEF Spec, UnsettledNeverReplaced

\* Most steps neither write the journal nor touch the game directory.
Quiet == UNCHANGED <<live, journal, before, goal>>

\* A step is quiet (no file of the directory or journal changes), or one of these.
LEMMA StepKinds ==
    ASSUME Next
    PROVE  \/ Quiet
           \/ MarkRecovered \/ NoteCommitFailure \/ Begin \/ MarkPrepared \/ StartActivation
           \/ BackUp \/ MoveAway \/ MarkBackedUp \/ Place \/ MarkApplied \/ MarkFilesApplied
           \/ MarkFailed \/ MarkCommitting \/ MarkComplete
           \/ UndoEntry \/ UndoWrite \/ UndoFailed \/ MarkRolledBack
BY DEF Next, Step, Recovery, Activation, Undoing, Quiet, vars, disk, memory, history,
       RecoverTo, CleanTo, Execute, RecoverOnEntry, RecoverNothing, RecoverComplete,
           RecoverSettled, RecoverStaged, RecoverApplied, RecoverCommit, RecoverRefused, CleanOne,
           CleanSettled, CleanStaged, ResumeCommit, Stage, Commit, CleanComplete, HandleError,
           UndoSucceeded, CleanUndone, Crash, LoseBackup, Finished

\* Without a resumed commit, a committing journal becomes complete by MarkComplete only.
LEMMA CompletedByMark ==
    ASSUME IInv, Next, journal.status = "committing", journal'.status = "complete"
    PROVE  MarkComplete
<1>1. mem.status # "complete" \/ pc \notin Synced \cup {"undo", "undo_write", "fail"}
  BY DEF IInv, CallInv
<1>2. mem \in Payloads
  BY DEF IInv, TypeOK
<1>3. \A s \in Statuses : WithStatus(s).status = s
  BY <1>2, StatusPayload
<1>4. \A p \in Paths : /\ WithState(p, "backed_up").status = mem.status
                       /\ WithState(p, "applied").status = mem.status
                       /\ WithOriginal(p).status = mem.status
  BY <1>2, StatePayload, OriginalPayload
<1>. QED
  BY <1>1, <1>3, <1>4, StepKinds
  DEF Synced, Statuses, Quiet, Write, MarkRecovered, NoteCommitFailure, Begin, MarkPrepared,
      StartActivation, BackUp, MoveAway, MarkBackedUp, Place, MarkApplied, MarkFilesApplied,
      MarkFailed, MarkCommitting, UndoEntry, UndoWrite, UndoFailed, MarkRolledBack

\* An interrupted commit becomes complete only when the commit of its own key has run.
THEOREM CommitOwned == Spec => CommittedByItsOwner
<1>1. ASSUME IInv, [Next]_vars
      PROVE  [journal.status = "committing" /\ journal'.status = "complete"
                => profile = journal.key]_vars
  <2>1. ASSUME Next, journal.status = "committing", journal'.status = "complete"
        PROVE  profile = journal.key
    <3>1. pc = "complete"
      BY <1>1, <2>1, CompletedByMark DEF MarkComplete
    <3>. QED
      BY <1>1, <2>1, <3>1 DEF IInv, CallInv
  <2>. QED
    BY <1>1, <2>1
<1>. QED
  BY <1>1, InductiveInvariant, PTL DEF Spec, CommittedByItsOwner

-----------------------------------------------------------------------------
(* The journal implements one atomic update, where no commit callback is   *)
(* involved.                                                               *)

\* The initial states map to initial states.
LEMMA AtomicInit == Init => Atomic!Init
BY DEF Init, Atomic!Init, Atomic!Versions, Settled

\* A journal that is written stays unsettled, but for the four writes that settle or replace it.
LEMMA WriteKinds ==
    ASSUME IInv, Next, journal' # journal
    PROVE  \/ MarkRecovered \/ Begin \/ MarkComplete \/ MarkRolledBack
           \/ journal.status \notin Settled /\ journal'.status \notin Settled
<1>1. mem \in Payloads
  BY DEF IInv, TypeOK
<1>2. \A s \in Statuses : WithStatus(s).status = s
  BY <1>1, StatusPayload
<1>3. \A p \in Paths : /\ WithState(p, "backed_up").status = mem.status
                       /\ WithState(p, "applied").status = mem.status
                       /\ WithOriginal(p).status = mem.status
  BY <1>1, StatePayload, OriginalPayload
<1>4. /\ pc \in {"fail", "undo", "undo_write"} => mem.status = journal.status
      /\ pc \in Synced => mem = journal
      /\ StatusAt
  BY DEF IInv, CallInv
<1>. QED
  BY <1>2, <1>3, <1>4, StepKinds
  DEF Synced, StatusAt, Settled, Statuses, Quiet, Write, NoteCommitFailure, MarkPrepared,
      StartActivation, BackUp, MoveAway, MarkBackedUp, Place, MarkApplied, MarkFilesApplied,
      MarkFailed, MarkCommitting, UndoEntry, UndoWrite, UndoFailed

\* The files of the directory are touched under an unsettled journal only.
LEMMA LiveKinds ==
    ASSUME IInv, Next, live' # live
    PROVE  journal' = journal /\ journal.status \notin Settled
BY StepKinds DEF IInv, CallInv, StatusAt, Settled, Quiet, MarkRecovered, NoteCommitFailure, Begin,
      MarkPrepared, StartActivation, BackUp, MoveAway, MarkBackedUp, Place, MarkApplied,
      MarkFilesApplied, MarkFailed, MarkCommitting, MarkComplete, UndoEntry, UndoWrite,
      UndoFailed, MarkRolledBack

\* The history variables are set when a transaction begins.
LEMMA HistoryKinds ==
    ASSUME IInv, Next, <<before, goal>>' # <<before, goal>>
    PROVE  Begin
BY StepKinds DEF Quiet, history, MarkRecovered, NoteCommitFailure,
      MarkPrepared, StartActivation, BackUp, MoveAway, MarkBackedUp, Place, MarkApplied,
      MarkFilesApplied, MarkFailed, MarkCommitting, MarkComplete, UndoEntry, UndoWrite,
      UndoFailed, MarkRolledBack

\* Every step maps to a step of the atomic update, or to a stutter.
LEMMA AtomicStep ==
    ASSUME Keys = {}, IInv, IInv', SettledIsWhole', [Next]_vars
    PROVE  [Atomic!Next]_(Atomic!avars)
<1> USE DEF Atomic!Next, Atomic!avars, Atomic!Request, Atomic!Apply, Atomic!Abandon,
            Atomic!Versions
<1>1. CASE UNCHANGED vars
  BY <1>1 DEF vars, disk, history
<1>2. CASE Begin /\ journal' # journal
  <2>1. journal.status \in Settled /\ goal' \in [Paths -> Nat \cup {Absent}]
    BY <1>2 DEF Begin, IInv, CallInv, StatusAt, TypeOK, Contents
  <2>2. journal'.status \notin Settled /\ live' = live /\ before' = live
    BY <1>2 DEF Begin, Settled, history
  <2>. QED
    BY <2>1, <2>2
<1>3. CASE Next /\ journal' # journal /\ ~Begin
  <2>1. UNCHANGED <<before, goal, live>>
    BY <1>3, HistoryKinds, LiveKinds
  <2>2. CASE MarkRecovered \/ MarkRolledBack
    <3>1. journal.status \notin Settled
      BY <2>2 DEF IInv, CallInv, StatusAt, MarkRecovered, MarkRolledBack, Settled
    <3>2. journal'.status \in {"recovered", "rolled_back"}
      BY <1>3, <2>2, StatusPayload
      DEF MarkRecovered, MarkRolledBack, Write, IInv, TypeOK, Statuses
    <3>3. live' = before'
      BY <3>2 DEF SettledIsWhole
    <3>. QED
      BY <2>1, <3>1, <3>2, <3>3 DEF Settled
  <2>3. CASE MarkComplete
    <3>1. journal.status \notin Settled
      BY <2>3 DEF IInv, CallInv, StatusAt, MarkComplete, Settled
    <3>2. journal'.status = "complete" /\ journal'.key = NoKey
      BY <1>3, <2>3, StatusPayload
      DEF MarkComplete, Write, IInv, TypeOK, Statuses, Payloads
    <3>3. live' = goal'
      BY <3>2 DEF IInv, DiskInv
    <3>. QED
      BY <2>1, <3>1, <3>2, <3>3 DEF Settled
  <2>4. CASE journal.status \notin Settled /\ journal'.status \notin Settled
    BY <2>1, <2>4
  <2>. QED
    BY <1>3, <2>2, <2>3, <2>4, WriteKinds
<1>4. CASE Next /\ journal' = journal
  <2>1. UNCHANGED <<before, goal>>
    <3>1. CASE Begin
      BY <1>4, <3>1 DEF Begin, history, IInv, CallInv, StatusAt, Settled
    <3>. QED
      BY <1>4, <3>1, HistoryKinds
  <2>2. journal.status \in Settled => live' = live
    BY <1>4, LiveKinds
  <2>. QED
    BY <1>4, <2>1, <2>2
<1>. QED
  BY <1>1, <1>2, <1>3, <1>4

\* Without commit callbacks the journal implements AtomicUpdate: seen from a settled directory,
\* a transaction happens as a whole or not at all.
THEOREM JournalIsAtomic == ASSUME Keys = {} PROVE Spec => ImplementsAtomicUpdate
<1>1. IInv /\ IInv' /\ SettledIsWhole' /\ [Next]_vars => [Atomic!Next]_(Atomic!avars)
  BY AtomicStep
<1>. QED
  BY <1>1, AtomicInit, InductiveInvariant, SettledDirectoryWhole, PTL
  DEF Spec, Atomic!Spec, ImplementsAtomicUpdate
\* The files are safe in the journal's hands, on the way and at the end (FileSyncJournal).
THEOREM FilesSafe == Spec => []FilesAreSafe
BY OriginalsKept, SettledDirectoryWhole, PTL DEF FilesAreSafe

\* A transaction is ended by itself, or by a recovery with its own key (begin_transaction, recover).
THEOREM OwnersRespected == Spec => OwnersAreRespected
BY UnsettledJournalKept, CommitOwned, PTL DEF OwnersAreRespected
=============================================================================
