-------------------------- MODULE WorldRestoreProofs --------------------------
(***************************************************************************)
(* The inductive invariant of WorldRestore and its consequences.  The      *)
(* argument: once the staged directory is gone the player's copy is in its *)
(* place, so removing the previous directory removes nothing of hers; as   *)
(* long as it is there the previous directory is only ever moved back.     *)
(***************************************************************************)
EXTENDS WorldRestore, TLAPS

\* The steps of a restore between its journal's first and last write, and those of a recovery.
Moving     == {"move", "moved", "activate"}
Activating == {"activated", "remove", "finish"}
Dropping   == {"drop_staged", "drop_previous", "clear"}

\* Where the running call is, the directories and the journal say so.
CallInv ==
    /\ pc \in Moving \cup Activating \cup Dropping => Pending
    /\ pc \in {"extract", "journal"} => ~Pending
    /\ pc # "idle" => target \in Worlds
    /\ pc \in Moving \cup Activating => target = journal.world
    /\ pc \in {"journal"} \cup Moving => staged \in Nat
    /\ pc \in Activating => staged = Absent /\ Named # Absent
    /\ pc = "move" => previous = Absent /\ journal.had = (Named # Absent)
    /\ pc \in {"moved", "activate"} => Named = Absent
    /\ pc \in {"drop_staged", "clear", "finish"} => previous = Absent
    /\ pc = "drop_previous" => staged = Absent /\ Named # Absent
    /\ pc = "clear" => staged = Absent

\* The two extra directories belong to the journal.
JournalInv ==
    /\ Pending => journal.world \in Worlds
    /\ ~Pending => previous = Absent
    /\ ~Pending /\ pc \notin {"extract", "journal"} => staged = Absent
    /\ Pending /\ staged = Absent => \A c \in kept[journal.world] : c = Named

\* As long as the player leaves the journal's world alone.
UntouchedInv ==
    meddles = 0 =>
        /\ \A w \in Worlds : live[w] # Partial
        /\ \A w \in Worlds : ~(Pending /\ w = journal.world) =>
               kept[w] = {live[w]} \ {Absent}
        /\ Pending =>
               /\ staged = Absent => kept[journal.world] = {Named} \ {Absent}
               /\ staged # Absent => kept[journal.world] = {Named, previous} \ {Absent}
               /\ staged # Absent /\ previous # Absent => Named = Absent
               /\ previous = Absent /\ journal.had => Named # Absent
               /\ staged = Absent /\ previous # Absent => Named # Absent
               /\ previous = Partial => Named # Absent

IInv == RestoreTypeOK /\ CallInv /\ JournalInv /\ NoCopyLost /\ UntouchedInv

\* No journal: the recovery has nothing to do.
LEMMA NothingToRecoverKeeps ==
    ASSUME IInv, NothingToRecover
    PROVE  IInv'
<1> USE RestoreAssumption DEF IInv, NothingToRecover, Goto, RecoverTo, Returned, disk, call, bounds, Pending, Named, NoJournal
<1>1. RestoreTypeOK'
  BY DEF RestoreTypeOK, Dirs, Journals, Phases
<1>2. CallInv'
  BY DEF RestoreTypeOK, Dirs, Journals, CallInv, JournalInv, Moving, Activating, Dropping
<1>3. JournalInv'
  BY DEF RestoreTypeOK, Dirs, Journals, CallInv, JournalInv, Moving, Activating, Dropping
<1>4. NoCopyLost'
  BY DEF RestoreTypeOK, Dirs, Journals, CallInv, JournalInv, NoCopyLost, Moving, Activating, Dropping
<1>5. UntouchedInv'
  BY DEF RestoreTypeOK, Dirs, Journals, CallInv, JournalInv, UntouchedInv, Moving, Activating, Dropping
<1> QED BY <1>1, <1>2, <1>3, <1>4, <1>5

\* A refused recovery changes nothing.
LEMMA RecoveryRefusedKeeps ==
    ASSUME IInv, RecoveryRefused
    PROVE  IInv'
<1> USE RestoreAssumption DEF IInv, RecoveryRefused, Goto, Recovering, RecoverTo, disk, call, bounds, Pending, Named, NoJournal
<1>1. RestoreTypeOK'
  BY DEF RestoreTypeOK, Dirs, Journals, Phases
<1>2. CallInv'
  BY DEF RestoreTypeOK, Dirs, Journals, CallInv, JournalInv, Moving, Activating, Dropping
<1>3. JournalInv'
  BY DEF RestoreTypeOK, Dirs, Journals, CallInv, JournalInv, Moving, Activating, Dropping
<1>4. NoCopyLost'
  BY DEF RestoreTypeOK, Dirs, Journals, CallInv, JournalInv, NoCopyLost, Moving, Activating, Dropping
<1>5. UntouchedInv'
  BY DEF RestoreTypeOK, Dirs, Journals, CallInv, JournalInv, UntouchedInv, Moving, Activating, Dropping
<1> QED BY <1>1, <1>2, <1>3, <1>4, <1>5

\* The world that was moved away returns; the staged copy is still there.
LEMMA PutBackUndoneKeeps ==
    ASSUME IInv, PutBackUndone
    PROVE  IInv'
<1> USE RestoreAssumption DEF IInv, PutBackUndone, Goto, Recovering, PutBack, Raise, disk, call, bounds, Pending, Named, NoJournal
<1>1. RestoreTypeOK'
  BY DEF RestoreTypeOK, Dirs, Journals, Phases
<1>2. CallInv'
  BY DEF RestoreTypeOK, Dirs, Journals, CallInv, JournalInv, Moving, Activating, Dropping
<1>3. JournalInv'
  BY DEF RestoreTypeOK, Dirs, Journals, CallInv, JournalInv, Moving, Activating, Dropping
<1>4. NoCopyLost'
  BY DEF RestoreTypeOK, Dirs, Journals, CallInv, JournalInv, NoCopyLost, Moving, Activating, Dropping
<1>5. UntouchedInv'
  BY DEF RestoreTypeOK, Dirs, Journals, CallInv, JournalInv, UntouchedInv, Moving, Activating, Dropping
<1> QED BY <1>1, <1>2, <1>3, <1>4, <1>5

\* The previous world returns although the restored one was in place.
LEMMA PutBackMissingKeeps ==
    ASSUME IInv, PutBackMissing
    PROVE  IInv'
<1> USE RestoreAssumption DEF IInv, PutBackMissing, Goto, Recovering, PutBack, Raise, disk, call, bounds, Pending, Named, NoJournal
<1>1. RestoreTypeOK'
  BY DEF RestoreTypeOK, Dirs, Journals, Phases
<1>2. CallInv'
  BY DEF RestoreTypeOK, Dirs, Journals, CallInv, JournalInv, Moving, Activating, Dropping
<1>3. JournalInv'
  BY DEF RestoreTypeOK, Dirs, Journals, CallInv, JournalInv, Moving, Activating, Dropping
<1>4. NoCopyLost'
  BY DEF RestoreTypeOK, Dirs, Journals, CallInv, JournalInv, NoCopyLost, Moving, Activating, Dropping
<1>5. UntouchedInv'
  BY DEF RestoreTypeOK, Dirs, Journals, CallInv, JournalInv, UntouchedInv, Moving, Activating, Dropping
<1> QED BY <1>1, <1>2, <1>3, <1>4, <1>5

\* The original is in its place, so only the staged copy will go.
LEMMA KeepOriginalKeeps ==
    ASSUME IInv, KeepOriginal
    PROVE  IInv'
<1> USE RestoreAssumption DEF IInv, KeepOriginal, Goto, Recovering, RecoverTo, disk, call, bounds, Pending, Named, NoJournal
<1>1. RestoreTypeOK'
  BY DEF RestoreTypeOK, Dirs, Journals, Phases
<1>2. CallInv'
  BY DEF RestoreTypeOK, Dirs, Journals, CallInv, JournalInv, Moving, Activating, Dropping
<1>3. JournalInv'
  BY DEF RestoreTypeOK, Dirs, Journals, CallInv, JournalInv, Moving, Activating, Dropping
<1>4. NoCopyLost'
  BY DEF RestoreTypeOK, Dirs, Journals, CallInv, JournalInv, NoCopyLost, Moving, Activating, Dropping
<1>5. UntouchedInv'
  BY DEF RestoreTypeOK, Dirs, Journals, CallInv, JournalInv, UntouchedInv, Moving, Activating, Dropping
<1> QED BY <1>1, <1>2, <1>3, <1>4, <1>5

\* The restored world is in its place, so only the previous one will go.
LEMMA KeepActivatedKeeps ==
    ASSUME IInv, KeepActivated
    PROVE  IInv'
<1> USE RestoreAssumption DEF IInv, KeepActivated, Goto, Recovering, RecoverTo, disk, call, bounds, Pending, Named, NoJournal
<1>1. RestoreTypeOK'
  BY DEF RestoreTypeOK, Dirs, Journals, Phases
<1>2. CallInv'
  BY DEF RestoreTypeOK, Dirs, Journals, CallInv, JournalInv, Moving, Activating, Dropping
<1>3. JournalInv'
  BY DEF RestoreTypeOK, Dirs, Journals, CallInv, JournalInv, Moving, Activating, Dropping
<1>4. NoCopyLost'
  BY DEF RestoreTypeOK, Dirs, Journals, CallInv, JournalInv, NoCopyLost, Moving, Activating, Dropping
<1>5. UntouchedInv'
  BY DEF RestoreTypeOK, Dirs, Journals, CallInv, JournalInv, UntouchedInv, Moving, Activating, Dropping
<1> QED BY <1>1, <1>2, <1>3, <1>4, <1>5

\* There never was an original, and the staged copy is gone.
LEMMA NothingThereKeeps ==
    ASSUME IInv, NothingThere
    PROVE  IInv'
<1> USE RestoreAssumption DEF IInv, NothingThere, Goto, Recovering, RecoverTo, disk, call, bounds, Pending, Named, NoJournal
<1>1. RestoreTypeOK'
  BY DEF RestoreTypeOK, Dirs, Journals, Phases
<1>2. CallInv'
  BY DEF RestoreTypeOK, Dirs, Journals, CallInv, JournalInv, Moving, Activating, Dropping
<1>3. JournalInv'
  BY DEF RestoreTypeOK, Dirs, Journals, CallInv, JournalInv, Moving, Activating, Dropping
<1>4. NoCopyLost'
  BY DEF RestoreTypeOK, Dirs, Journals, CallInv, JournalInv, NoCopyLost, Moving, Activating, Dropping
<1>5. UntouchedInv'
  BY DEF RestoreTypeOK, Dirs, Journals, CallInv, JournalInv, UntouchedInv, Moving, Activating, Dropping
<1> QED BY <1>1, <1>2, <1>3, <1>4, <1>5

\* The staged copy goes: the player never had it.
LEMMA DropStagedKeeps ==
    ASSUME IInv, DropStaged
    PROVE  IInv'
<1> USE RestoreAssumption DEF IInv, DropStaged, Goto, Removal, Raise, disk, call, bounds, Pending, Named, NoJournal
<1>1. RestoreTypeOK'
  BY DEF RestoreTypeOK, Dirs, Journals, Phases
<1>2. CallInv'
  BY DEF RestoreTypeOK, Dirs, Journals, CallInv, JournalInv, Moving, Activating, Dropping
<1>3. JournalInv'
  BY DEF RestoreTypeOK, Dirs, Journals, CallInv, JournalInv, NoCopyLost, Moving, Activating, Dropping
<1>4. NoCopyLost'
  BY DEF RestoreTypeOK, Dirs, Journals, CallInv, JournalInv, NoCopyLost, Moving, Activating, Dropping
<1>5. UntouchedInv'
  BY DEF RestoreTypeOK, Dirs, Journals, CallInv, JournalInv, UntouchedInv, Moving, Activating, Dropping
<1> QED BY <1>1, <1>2, <1>3, <1>4, <1>5

\* The previous directory goes: the player's copy is in its place.
LEMMA DropPreviousKeeps ==
    ASSUME IInv, DropPrevious
    PROVE  IInv'
<1> USE RestoreAssumption DEF IInv, DropPrevious, Goto, Removal, Raise, disk, call, bounds, Pending, Named, NoJournal
<1>1. RestoreTypeOK'
  BY DEF RestoreTypeOK, Dirs, Journals, Phases
<1>2. CallInv'
  BY DEF RestoreTypeOK, Dirs, Journals, CallInv, JournalInv, Moving, Activating, Dropping
<1>3. JournalInv'
  BY DEF RestoreTypeOK, Dirs, Journals, CallInv, JournalInv, Moving, Activating, Dropping
<1>4. NoCopyLost'
  BY DEF RestoreTypeOK, Dirs, Journals, CallInv, JournalInv, NoCopyLost, Moving, Activating, Dropping
<1>5. UntouchedInv'
  BY DEF RestoreTypeOK, Dirs, Journals, CallInv, JournalInv, UntouchedInv, Moving, Activating, Dropping
<1> QED BY <1>1, <1>2, <1>3, <1>4, <1>5

\* A recovery is over.
LEMMA ClearJournalKeeps ==
    ASSUME IInv, ClearJournal
    PROVE  IInv'
<1> USE RestoreAssumption DEF IInv, ClearJournal, Goto, Returned, Raise, disk, call, bounds, Pending, Named, NoJournal
<1>1. RestoreTypeOK'
  <2>1. journal' \in Journals
    <3>1. NoJournal \in Journals
      BY DEF Journals, Phases
    <3>2. journal' = NoJournal \/ journal' = journal
      OBVIOUS
    <3> QED BY <3>1, <3>2 DEF RestoreTypeOK
  <2>2. live' \in [Worlds -> Dirs] /\ staged' \in Dirs /\ previous' \in Dirs
    BY DEF RestoreTypeOK, Dirs, CallInv, Moving
  <2>3. kept' \in [Worlds -> SUBSET Nat] /\ copies' \in Nat /\ crashes' \in Nat /\ meddles' \in Nat
    BY DEF RestoreTypeOK, CallInv, Moving
  <2>4. faults' \in Nat
    BY DEF RestoreTypeOK
  <2>5. /\ pc' \in {"idle", "recover", "drop_staged", "drop_previous", "clear", "extract",
                   "journal", "move", "moved", "activate", "activated", "remove", "finish"}
        /\ cont' \in {"idle", "entry", "handler"} /\ target' \in Worlds \cup {NoWorld}
    BY DEF RestoreTypeOK
  <2> QED BY <2>1, <2>2, <2>3, <2>4, <2>5 DEF RestoreTypeOK
<1>2. CallInv'
  BY DEF RestoreTypeOK, Dirs, Journals, CallInv, JournalInv, Moving, Activating, Dropping
<1>3. JournalInv'
  BY DEF RestoreTypeOK, Dirs, Journals, CallInv, JournalInv, Moving, Activating, Dropping
<1>4. NoCopyLost'
  BY DEF RestoreTypeOK, Dirs, Journals, CallInv, JournalInv, NoCopyLost, Moving, Activating, Dropping
<1>5. UntouchedInv'
  BY DEF RestoreTypeOK, Dirs, Journals, CallInv, JournalInv, UntouchedInv, Moving, Activating, Dropping
<1> QED BY <1>1, <1>2, <1>3, <1>4, <1>5

\* The backup is extracted.
LEMMA ExtractKeeps ==
    ASSUME IInv, Extract
    PROVE  IInv'
<1> USE RestoreAssumption DEF IInv, Extract, Goto, Raise, disk, call, bounds, Pending, Named, NoJournal
<1>1. RestoreTypeOK'
  BY DEF RestoreTypeOK, Dirs, Journals, Phases
<1>2. CallInv'
  BY DEF RestoreTypeOK, Dirs, Journals, CallInv, JournalInv, Moving, Activating, Dropping
<1>3. JournalInv'
  BY DEF RestoreTypeOK, Dirs, Journals, CallInv, JournalInv, Moving, Activating, Dropping
<1>4. NoCopyLost'
  BY DEF RestoreTypeOK, Dirs, Journals, CallInv, JournalInv, NoCopyLost, Moving, Activating, Dropping
<1>5. UntouchedInv'
  BY DEF RestoreTypeOK, Dirs, Journals, CallInv, JournalInv, UntouchedInv, Moving, Activating, Dropping
<1> QED BY <1>1, <1>2, <1>3, <1>4, <1>5

\* The journal is written: nothing has moved.
LEMMA WriteJournalKeeps ==
    ASSUME IInv, WriteJournal
    PROVE  IInv'
<1> USE RestoreAssumption DEF IInv, WriteJournal, Goto, Raise, disk, call, bounds, Pending, Named, NoJournal
<1>1. RestoreTypeOK'
  <2>1. journal' \in Journals
    <3>1. [world |-> target, phase |-> "prepared", had |-> live[target] # Absent] \in Journals
      BY DEF RestoreTypeOK, Journals, Phases, CallInv
    <3> QED BY <3>1 DEF RestoreTypeOK
  <2>2. live' \in [Worlds -> Dirs] /\ staged' \in Dirs /\ previous' \in Dirs
    BY DEF RestoreTypeOK, Dirs, CallInv, Moving
  <2>3. kept' \in [Worlds -> SUBSET Nat] /\ copies' \in Nat /\ crashes' \in Nat /\ meddles' \in Nat
    BY DEF RestoreTypeOK, CallInv, Moving
  <2>4. faults' \in Nat
    BY DEF RestoreTypeOK
  <2>5. /\ pc' \in {"idle", "recover", "drop_staged", "drop_previous", "clear", "extract",
                   "journal", "move", "moved", "activate", "activated", "remove", "finish"}
        /\ cont' \in {"idle", "entry", "handler"} /\ target' \in Worlds \cup {NoWorld}
    BY DEF RestoreTypeOK
  <2> QED BY <2>1, <2>2, <2>3, <2>4, <2>5 DEF RestoreTypeOK
<1>2. CallInv'
  BY DEF RestoreTypeOK, Dirs, Journals, CallInv, JournalInv, Moving, Activating, Dropping
<1>3. JournalInv'
  BY DEF RestoreTypeOK, Dirs, Journals, CallInv, JournalInv, Moving, Activating, Dropping
<1>4. NoCopyLost'
  BY DEF RestoreTypeOK, Dirs, Journals, CallInv, JournalInv, NoCopyLost, Moving, Activating, Dropping
<1>5. UntouchedInv'
  BY DEF RestoreTypeOK, Dirs, Journals, CallInv, JournalInv, UntouchedInv, Moving, Activating, Dropping
<1> QED BY <1>1, <1>2, <1>3, <1>4, <1>5

\* The original is moved to the previous directory.
LEMMA MoveOriginalKeeps ==
    ASSUME IInv, MoveOriginal
    PROVE  IInv'
<1> USE RestoreAssumption DEF IInv, MoveOriginal, Goto, Raise, Fail, disk, call, bounds, Pending, Named, NoJournal
<1>1. RestoreTypeOK'
  <2>1. journal' \in Journals
    BY DEF RestoreTypeOK, Journals, Phases
  <2>2. live' \in [Worlds -> Dirs] /\ staged' \in Dirs /\ previous' \in Dirs
    BY DEF RestoreTypeOK, Dirs, CallInv, Moving
  <2>3. kept' \in [Worlds -> SUBSET Nat] /\ copies' \in Nat /\ crashes' \in Nat /\ meddles' \in Nat
    BY DEF RestoreTypeOK, CallInv, Moving
  <2>4. faults' \in Nat
    BY DEF RestoreTypeOK
  <2>5. /\ pc' \in {"idle", "recover", "drop_staged", "drop_previous", "clear", "extract",
                   "journal", "move", "moved", "activate", "activated", "remove", "finish"}
        /\ cont' \in {"idle", "entry", "handler"} /\ target' \in Worlds \cup {NoWorld}
    BY DEF RestoreTypeOK
  <2> QED BY <2>1, <2>2, <2>3, <2>4, <2>5 DEF RestoreTypeOK
<1>2. CallInv'
  BY DEF RestoreTypeOK, Dirs, Journals, CallInv, JournalInv, Moving, Activating, Dropping
<1>3. JournalInv'
  BY DEF RestoreTypeOK, Dirs, Journals, CallInv, JournalInv, Moving, Activating, Dropping
<1>4. NoCopyLost'
  BY DEF RestoreTypeOK, Dirs, Journals, CallInv, JournalInv, NoCopyLost, Moving, Activating, Dropping
<1>5. UntouchedInv'
  BY DEF RestoreTypeOK, Dirs, Journals, CallInv, JournalInv, UntouchedInv, Moving, Activating, Dropping
<1> QED BY <1>1, <1>2, <1>3, <1>4, <1>5

\* The phase after the move is written.
LEMMA MarkMovedKeeps ==
    ASSUME IInv, MarkMoved
    PROVE  IInv'
<1> USE RestoreAssumption DEF IInv, MarkMoved, Goto, SetPhase, Raise, Fail, disk, call, bounds, Pending, Named, NoJournal
<1>1. RestoreTypeOK'
  BY DEF RestoreTypeOK, Dirs, Journals, Phases
<1>2. CallInv'
  BY DEF RestoreTypeOK, Dirs, Journals, CallInv, JournalInv, Moving, Activating, Dropping
<1>3. JournalInv'
  BY DEF RestoreTypeOK, Dirs, Journals, CallInv, JournalInv, Moving, Activating, Dropping
<1>4. NoCopyLost'
  BY DEF RestoreTypeOK, Dirs, Journals, CallInv, JournalInv, NoCopyLost, Moving, Activating, Dropping
<1>5. UntouchedInv'
  BY DEF RestoreTypeOK, Dirs, Journals, CallInv, JournalInv, UntouchedInv, Moving, Activating, Dropping
<1> QED BY <1>1, <1>2, <1>3, <1>4, <1>5

\* The staged copy takes the place of the world.
LEMMA ActivateKeeps ==
    ASSUME IInv, Activate
    PROVE  IInv'
<1> USE RestoreAssumption DEF IInv, Activate, Goto, Raise, Fail, disk, call, bounds, Pending, Named, NoJournal
<1>1. RestoreTypeOK'
  <2>1. journal' \in Journals
    BY DEF RestoreTypeOK, Journals, Phases
  <2>2. live' \in [Worlds -> Dirs] /\ staged' \in Dirs /\ previous' \in Dirs
    BY DEF RestoreTypeOK, Dirs, CallInv, Moving
  <2>3. kept' \in [Worlds -> SUBSET Nat] /\ copies' \in Nat /\ crashes' \in Nat /\ meddles' \in Nat
    BY DEF RestoreTypeOK, CallInv, Moving
  <2>4. faults' \in Nat
    BY DEF RestoreTypeOK
  <2>5. /\ pc' \in {"idle", "recover", "drop_staged", "drop_previous", "clear", "extract",
                   "journal", "move", "moved", "activate", "activated", "remove", "finish"}
        /\ cont' \in {"idle", "entry", "handler"} /\ target' \in Worlds \cup {NoWorld}
    BY DEF RestoreTypeOK
  <2> QED BY <2>1, <2>2, <2>3, <2>4, <2>5 DEF RestoreTypeOK
<1>2. CallInv'
  BY DEF RestoreTypeOK, Dirs, Journals, CallInv, JournalInv, Moving, Activating, Dropping
<1>3. JournalInv'
  BY DEF RestoreTypeOK, Dirs, Journals, CallInv, JournalInv, Moving, Activating, Dropping
<1>4. NoCopyLost'
  BY DEF RestoreTypeOK, Dirs, Journals, CallInv, JournalInv, NoCopyLost, Moving, Activating, Dropping
<1>5. UntouchedInv'
  BY DEF RestoreTypeOK, Dirs, Journals, CallInv, JournalInv, UntouchedInv, Moving, Activating, Dropping
<1> QED BY <1>1, <1>2, <1>3, <1>4, <1>5

\* The phase after the activation is written.
LEMMA MarkActivatedKeeps ==
    ASSUME IInv, MarkActivated
    PROVE  IInv'
<1> USE RestoreAssumption DEF IInv, MarkActivated, Goto, SetPhase, Raise, Fail, disk, call, bounds, Pending, Named, NoJournal
<1>1. RestoreTypeOK'
  BY DEF RestoreTypeOK, Dirs, Journals, Phases
<1>2. CallInv'
  BY DEF RestoreTypeOK, Dirs, Journals, CallInv, JournalInv, Moving, Activating, Dropping
<1>3. JournalInv'
  BY DEF RestoreTypeOK, Dirs, Journals, CallInv, JournalInv, Moving, Activating, Dropping
<1>4. NoCopyLost'
  BY DEF RestoreTypeOK, Dirs, Journals, CallInv, JournalInv, NoCopyLost, Moving, Activating, Dropping
<1>5. UntouchedInv'
  BY DEF RestoreTypeOK, Dirs, Journals, CallInv, JournalInv, UntouchedInv, Moving, Activating, Dropping
<1> QED BY <1>1, <1>2, <1>3, <1>4, <1>5

\* The previous directory goes after an activation.
LEMMA RemovePreviousKeeps ==
    ASSUME IInv, RemovePrevious
    PROVE  IInv'
<1> USE RestoreAssumption DEF IInv, RemovePrevious, Goto, Removal, Raise, disk, call, bounds, Pending, Named, NoJournal
<1>1. RestoreTypeOK'
  BY DEF RestoreTypeOK, Dirs, Journals, Phases
<1>2. CallInv'
  BY DEF RestoreTypeOK, Dirs, Journals, CallInv, JournalInv, Moving, Activating, Dropping
<1>3. JournalInv'
  BY DEF RestoreTypeOK, Dirs, Journals, CallInv, JournalInv, Moving, Activating, Dropping
<1>4. NoCopyLost'
  BY DEF RestoreTypeOK, Dirs, Journals, CallInv, JournalInv, NoCopyLost, Moving, Activating, Dropping
<1>5. UntouchedInv'
  BY DEF RestoreTypeOK, Dirs, Journals, CallInv, JournalInv, UntouchedInv, Moving, Activating, Dropping
<1> QED BY <1>1, <1>2, <1>3, <1>4, <1>5

\* The restore is over.
LEMMA FinishKeeps ==
    ASSUME IInv, Finish
    PROVE  IInv'
<1> USE RestoreAssumption DEF IInv, Finish, Goto, Raise, Fail, disk, call, bounds, Pending, Named, NoJournal
<1>1. RestoreTypeOK'
  <2>1. journal' \in Journals
    <3>1. NoJournal \in Journals
      BY DEF Journals, Phases
    <3>2. journal' = NoJournal \/ journal' = journal
      OBVIOUS
    <3> QED BY <3>1, <3>2 DEF RestoreTypeOK
  <2>2. live' \in [Worlds -> Dirs] /\ staged' \in Dirs /\ previous' \in Dirs
    BY DEF RestoreTypeOK, Dirs, CallInv, Moving
  <2>3. kept' \in [Worlds -> SUBSET Nat] /\ copies' \in Nat /\ crashes' \in Nat /\ meddles' \in Nat
    BY DEF RestoreTypeOK, CallInv, Moving
  <2>4. faults' \in Nat
    BY DEF RestoreTypeOK
  <2>5. /\ pc' \in {"idle", "recover", "drop_staged", "drop_previous", "clear", "extract",
                   "journal", "move", "moved", "activate", "activated", "remove", "finish"}
        /\ cont' \in {"idle", "entry", "handler"} /\ target' \in Worlds \cup {NoWorld}
    BY DEF RestoreTypeOK
  <2> QED BY <2>1, <2>2, <2>3, <2>4, <2>5 DEF RestoreTypeOK
<1>2. CallInv'
  BY DEF RestoreTypeOK, Dirs, Journals, CallInv, JournalInv, Moving, Activating, Dropping
<1>3. JournalInv'
  BY DEF RestoreTypeOK, Dirs, Journals, CallInv, JournalInv, Moving, Activating, Dropping
<1>4. NoCopyLost'
  BY DEF RestoreTypeOK, Dirs, Journals, CallInv, JournalInv, NoCopyLost, Moving, Activating, Dropping
<1>5. UntouchedInv'
  BY DEF RestoreTypeOK, Dirs, Journals, CallInv, JournalInv, UntouchedInv, Moving, Activating, Dropping
<1> QED BY <1>1, <1>2, <1>3, <1>4, <1>5

\* The launcher dies.
LEMMA CrashKeeps ==
    ASSUME IInv, Crash
    PROVE  IInv'
<1> USE RestoreAssumption DEF IInv, Crash, Goto, disk, call, bounds, Pending, Named, NoJournal
<1>1. RestoreTypeOK'
  BY DEF RestoreTypeOK, Dirs, Journals, Phases
<1>2. CallInv'
  BY DEF RestoreTypeOK, Dirs, Journals, CallInv, JournalInv, Moving, Activating, Dropping
<1>3. JournalInv'
  BY DEF RestoreTypeOK, Dirs, Journals, CallInv, JournalInv, Moving, Activating, Dropping
<1>4. NoCopyLost'
  BY DEF RestoreTypeOK, Dirs, Journals, CallInv, JournalInv, NoCopyLost, Moving, Activating, Dropping
<1>5. UntouchedInv'
  BY DEF RestoreTypeOK, Dirs, Journals, CallInv, JournalInv, UntouchedInv, Moving, Activating, Dropping
<1> QED BY <1>1, <1>2, <1>3, <1>4, <1>5

\* A restore is asked for.
LEMMA RestoreKeeps ==
    ASSUME IInv, NEW w \in Worlds, Restore(w)
    PROVE  IInv'
<1> USE RestoreAssumption DEF IInv, Restore, Goto, disk, call, bounds, Pending, Named, NoJournal
<1>1. RestoreTypeOK'
  BY DEF RestoreTypeOK, Dirs, Journals, Phases
<1>2. CallInv'
  BY DEF RestoreTypeOK, Dirs, Journals, CallInv, JournalInv, Moving, Activating, Dropping
<1>3. JournalInv'
  BY DEF RestoreTypeOK, Dirs, Journals, CallInv, JournalInv, Moving, Activating, Dropping
<1>4. NoCopyLost'
  BY DEF RestoreTypeOK, Dirs, Journals, CallInv, JournalInv, NoCopyLost, Moving, Activating, Dropping
<1>5. UntouchedInv'
  BY DEF RestoreTypeOK, Dirs, Journals, CallInv, JournalInv, UntouchedInv, Moving, Activating, Dropping
<1> QED BY <1>1, <1>2, <1>3, <1>4, <1>5

\* The player saves a world.
LEMMA PlayKeeps ==
    ASSUME IInv, NEW w \in Worlds, Play(w)
    PROVE  IInv'
<1> USE RestoreAssumption DEF IInv, Play, Goto, MayChange, disk, call, bounds, Pending, Named, NoJournal
<1>1. RestoreTypeOK'
  BY DEF RestoreTypeOK, Dirs, Journals, Phases
<1>2. CallInv'
  BY DEF RestoreTypeOK, Dirs, Journals, CallInv, JournalInv, Moving, Activating, Dropping
<1>3. JournalInv'
  BY DEF RestoreTypeOK, Dirs, Journals, CallInv, JournalInv, Moving, Activating, Dropping
<1>4. NoCopyLost'
  BY DEF RestoreTypeOK, Dirs, Journals, CallInv, JournalInv, NoCopyLost, Moving, Activating, Dropping
<1>5. UntouchedInv'
  BY DEF RestoreTypeOK, Dirs, Journals, CallInv, JournalInv, UntouchedInv, Moving, Activating, Dropping
<1> QED BY <1>1, <1>2, <1>3, <1>4, <1>5

\* The player deletes a world.
LEMMA DeleteKeeps ==
    ASSUME IInv, NEW w \in Worlds, Delete(w)
    PROVE  IInv'
<1> USE RestoreAssumption DEF IInv, Delete, Goto, MayChange, disk, call, bounds, Pending, Named, NoJournal
<1>1. RestoreTypeOK'
  BY DEF RestoreTypeOK, Dirs, Journals, Phases
<1>2. CallInv'
  BY DEF RestoreTypeOK, Dirs, Journals, CallInv, JournalInv, Moving, Activating, Dropping
<1>3. JournalInv'
  BY DEF RestoreTypeOK, Dirs, Journals, CallInv, JournalInv, Moving, Activating, Dropping
<1>4. NoCopyLost'
  BY DEF RestoreTypeOK, Dirs, Journals, CallInv, JournalInv, NoCopyLost, Moving, Activating, Dropping
<1>5. UntouchedInv'
  BY DEF RestoreTypeOK, Dirs, Journals, CallInv, JournalInv, UntouchedInv, Moving, Activating, Dropping
<1> QED BY <1>1, <1>2, <1>3, <1>4, <1>5

\* Nothing is open at first, and every copy is in its place.
LEMMA InitIInv == RestoreInit => IInv
BY RestoreAssumption
   DEF RestoreInit, IInv, RestoreTypeOK, CallInv, JournalInv, NoCopyLost, UntouchedInv, Pending, Named,
       NoJournal, Journals, Phases, Dirs, Moving, Activating, Dropping

\* Every step keeps the invariant.
LEMMA NextIInv == IInv /\ [RestoreNext]_restoreVars => IInv'
<1> SUFFICES ASSUME IInv, [RestoreNext]_restoreVars PROVE IInv'
  OBVIOUS
<1>1. CASE Recovery
  BY <1>1, NothingToRecoverKeeps, RecoveryRefusedKeeps, PutBackUndoneKeeps,
     PutBackMissingKeeps, KeepOriginalKeeps, KeepActivatedKeeps, NothingThereKeeps,
     DropStagedKeeps, DropPreviousKeeps, ClearJournalKeeps DEF Recovery
<1>2. CASE Restoring
  BY <1>2, ExtractKeeps, WriteJournalKeeps, MoveOriginalKeeps, MarkMovedKeeps, ActivateKeeps,
     MarkActivatedKeeps, RemovePreviousKeeps, FinishKeeps DEF Restoring
<1>3. CASE \E w \in Worlds : Restore(w) \/ Play(w) \/ Delete(w)
  BY <1>3, RestoreKeeps, PlayKeeps, DeleteKeeps
<1>4. CASE Crash
  BY <1>4, CrashKeeps
<1>5. CASE Finished \/ UNCHANGED restoreVars
  <2>1. UNCHANGED restoreVars
    BY <1>5 DEF Finished
  <2> QED
    BY <2>1 DEF IInv, RestoreTypeOK, CallInv, JournalInv, NoCopyLost, UntouchedInv, Pending, Named,
         restoreVars, disk, call, bounds
<1> QED BY <1>1, <1>2, <1>3, <1>4, <1>5 DEF RestoreNext

\* The strengthened invariant holds in every state of every behaviour.
THEOREM RestoreInvariant == RestoreSpec => []IInv
BY InitIInv, NextIInv, PTL DEF RestoreSpec

\* Every variable has its type.
THEOREM TypeCorrect == RestoreSpec => []RestoreTypeOK
BY RestoreInvariant, PTL DEF IInv

\* No death, error or player makes the launcher discard a copy of a world the player has.
THEOREM CopiesKept == RestoreSpec => []NoCopyLost
BY RestoreInvariant, PTL DEF IInv

\* A journal that is over leaves the worlds whole, each the last copy the player had.
THEOREM SettledWorldsWhole == RestoreSpec => []SettledIsWhole
<1>1. IInv => SettledIsWhole
  BY DEF IInv, UntouchedInv, SettledIsWhole
<1> QED BY <1>1, RestoreInvariant, PTL

\* A recovery is refused only after the player meddled with the journal's world.
THEOREM RecoveryPossible == RestoreSpec => RefusedOnlyAfterMeddling
<1>1. IInv /\ [RestoreNext]_restoreVars => [RecoveryRefused => meddles > 0]_restoreVars
  BY DEF IInv, RestoreTypeOK, UntouchedInv, RecoveryRefused, Recovering
<1> QED BY <1>1, RestoreInvariant, PTL DEF RestoreSpec, RefusedOnlyAfterMeddling

\* No copy of a world is lost, and every world is whole at the end (restore_backup).
THEOREM WorldsKept == RestoreSpec => []WorldsAreKept
BY CopiesKept, SettledWorldsWhole, PTL DEF WorldsAreKept
=============================================================================
