------------------------- MODULE LaunchSessionProofs -------------------------
(***************************************************************************)
(* The inductive invariant of LaunchSession and its consequences.  The     *)
(* argument: a game of this launcher life is known, or is about to be      *)
(* registered by the operation that holds the lease; so whoever found the  *)
(* directory idle under the lease still finds it idle when it writes.      *)
(***************************************************************************)
EXTENDS LaunchSession, TLAPS

Own(g) == games[g].state = "running" /\ games[g].session = session

\* The registry and the monitors agree with the processes.
RegistryInv ==
    /\ \A g \in Games : games[g].session <= session
    /\ \A g \in Games : Own(g) => g \in known \/ (op.step = "register" /\ op.game = g)
    /\ op.step = "register" => op.game \in Games
    /\ \A g \in Games : monitor[g] \in {"diagnosed", "marked"} => games[g].state = "exited"

\* What the running operation has checked still holds.
CheckedInv ==
    op.step \in {"recovering", "apply", "applying", "restoring", "installing"} =>
        \A g \in Games : ~Own(g)

\* The journal is what the step of the operation needs it to be.
RecordInv ==
    /\ torn => journal \in {"open", "marked"}
    /\ op.step = "applying" => journal = "open"
    /\ op.step = "committing" => journal = "committing"

IInv == SessionTypeOK /\ RegistryInv /\ CheckedInv /\ RecordInv

\* The operation goes on with another step.
LEMMA GotoType ==
    ASSUME op \in Ops, NEW s \in Steps, Goto(s)
    PROVE  /\ op' \in Ops /\ op'.step = s
           /\ op'.kind = op.kind /\ op'.game = op.game
BY DEF Goto, Ops

\* The operation ends.
LEMMA EndType ==
    ASSUME slot \in BOOLEAN, End
    PROVE  op' \in Ops /\ op' = NoOp /\ op'.step = "none" /\ slot' \in BOOLEAN
BY DEF End, NoOp, Ops, Kinds, Steps

\* A launch starts.
LEMMA LaunchKeeps ==
    ASSUME IInv, NEW duplicate \in BOOLEAN, Launch(duplicate)
    PROVE  IInv'
<1> USE SessionAssumption DEF IInv, Launch, Begin
<1>1. SessionTypeOK'
  <2>1. op' \in Ops
    BY DEF SessionTypeOK, Ops, Kinds, Steps, NoOp
  <2> QED BY <2>1 DEF SessionTypeOK, Ops, Kinds, Steps, NoOp
<1>2. RegistryInv'
  BY DEF SessionTypeOK, Ops, Kinds, Steps, NoOp, RegistryInv, Own, Running, KnownActive
<1>3. CheckedInv'
  BY DEF SessionTypeOK, Ops, Kinds, Steps, NoOp, RegistryInv, CheckedInv, Own, Running, KnownActive
<1>4. RecordInv'
  BY DEF SessionTypeOK, Ops, Kinds, Steps, NoOp, RecordInv
<1> QED BY <1>1, <1>2, <1>3, <1>4

\* The user synchronizes the pack.
LEMMA SyncKeeps ==
    ASSUME IInv, Sync
    PROVE  IInv'
<1> USE SessionAssumption DEF IInv, Sync, Begin
<1>1. SessionTypeOK'
  <2>1. op' \in Ops
    BY DEF SessionTypeOK, Ops, Kinds, Steps, NoOp
  <2> QED BY <2>1 DEF SessionTypeOK, Ops, Kinds, Steps, NoOp
<1>2. RegistryInv'
  BY DEF SessionTypeOK, Ops, Kinds, Steps, NoOp, RegistryInv, Own, Running, KnownActive
<1>3. CheckedInv'
  BY DEF SessionTypeOK, Ops, Kinds, Steps, NoOp, RegistryInv, CheckedInv, Own, Running, KnownActive
<1>4. RecordInv'
  BY DEF SessionTypeOK, Ops, Kinds, Steps, NoOp, RecordInv
<1> QED BY <1>1, <1>2, <1>3, <1>4

\* A world restore starts in an idle directory.
LEMMA RestoreKeeps ==
    ASSUME IInv, Restore
    PROVE  IInv'
<1> USE SessionAssumption DEF IInv, Restore, Begin
<1>1. SessionTypeOK'
  <2>1. op' \in Ops
    BY DEF SessionTypeOK, Ops, Kinds, Steps, NoOp
  <2> QED BY <2>1 DEF SessionTypeOK, Ops, Kinds, Steps, NoOp
<1>2. RegistryInv'
  BY DEF SessionTypeOK, Ops, Kinds, Steps, NoOp, RegistryInv, Own, Running, KnownActive
<1>3. CheckedInv'
  BY DEF SessionTypeOK, Ops, Kinds, Steps, NoOp, RegistryInv, CheckedInv, Own, Running, KnownActive
<1>4. RecordInv'
  BY DEF SessionTypeOK, Ops, Kinds, Steps, NoOp, RecordInv
<1> QED BY <1>1, <1>2, <1>3, <1>4

\* A content installation starts.
LEMMA InstallKeeps ==
    ASSUME IInv, Install
    PROVE  IInv'
<1> USE SessionAssumption DEF IInv, Install, Begin
<1>1. SessionTypeOK'
  <2>1. op' \in Ops
    BY DEF SessionTypeOK, Ops, Kinds, Steps, NoOp
  <2> QED BY <2>1 DEF SessionTypeOK, Ops, Kinds, Steps, NoOp
<1>2. RegistryInv'
  BY DEF SessionTypeOK, Ops, Kinds, Steps, NoOp, RegistryInv, Own, Running, KnownActive
<1>3. CheckedInv'
  BY DEF SessionTypeOK, Ops, Kinds, Steps, NoOp, RegistryInv, CheckedInv, Own, Running, KnownActive
<1>4. RecordInv'
  BY DEF SessionTypeOK, Ops, Kinds, Steps, NoOp, RecordInv
<1> QED BY <1>1, <1>2, <1>3, <1>4

\* It ends.
LEMMA EndOtherKeeps ==
    ASSUME IInv, EndOther
    PROVE  IInv'
<1> USE SessionAssumption DEF IInv, EndOther, End
<1>1. SessionTypeOK'
  <2>1. op' \in Ops
    BY DEF SessionTypeOK, Ops, Kinds, Steps, NoOp
  <2> QED BY <2>1 DEF SessionTypeOK, Ops, Kinds, Steps, NoOp
<1>2. RegistryInv'
  BY DEF SessionTypeOK, Ops, Kinds, Steps, NoOp, RegistryInv, Own, Running, KnownActive
<1>3. CheckedInv'
  BY DEF SessionTypeOK, Ops, Kinds, Steps, NoOp, RegistryInv, CheckedInv, Own, Running, KnownActive
<1>4. RecordInv'
  BY DEF SessionTypeOK, Ops, Kinds, Steps, NoOp, RecordInv
<1> QED BY <1>1, <1>2, <1>3, <1>4

\* The API is not available.
LEMMA SyncOfflineKeeps ==
    ASSUME IInv, SyncOffline
    PROVE  IInv'
<1>0. /\ op' \in Ops /\ slot' \in BOOLEAN
      /\ op'.step \in {"verify", "none"}
      /\ UNCHANGED <<games, known, monitor, torn, session>>
      /\ journal' = journal
  BY GotoType, EndType DEF IInv, SyncOffline, AfterSync, SessionTypeOK, Steps
<1>g. op.step \in {"sync", "plan"}
  BY DEF SyncOffline, At
<1> USE DEF IInv
<1>1. SessionTypeOK'
  BY <1>0, <1>g DEF SessionTypeOK
<1>2. RegistryInv'
  BY <1>0, <1>g DEF SessionTypeOK, RegistryInv, Own
<1>3. CheckedInv'
  BY <1>0, <1>g DEF CheckedInv, Own
<1>4. RecordInv'
  BY <1>0, <1>g DEF RecordInv
<1> QED BY <1>1, <1>2, <1>3, <1>4

\* The synchronization raises.
LEMMA SyncFailsKeeps ==
    ASSUME IInv, SyncFails
    PROVE  IInv'
<1> USE SessionAssumption DEF IInv, SyncFails, End
<1>1. SessionTypeOK'
  <2>1. op' \in Ops
    BY DEF SessionTypeOK, Ops, Kinds, Steps, NoOp
  <2> QED BY <2>1 DEF SessionTypeOK, Ops, Kinds, Steps, NoOp
<1>2. RegistryInv'
  BY DEF SessionTypeOK, Ops, Kinds, Steps, NoOp, RegistryInv, Own, Running, KnownActive
<1>3. CheckedInv'
  BY DEF SessionTypeOK, Ops, Kinds, Steps, NoOp, RegistryInv, CheckedInv, Own, Running, KnownActive
<1>4. RecordInv'
  BY DEF SessionTypeOK, Ops, Kinds, Steps, NoOp, RecordInv
<1> QED BY <1>1, <1>2, <1>3, <1>4

\* There is nothing to recover.
LEMMA SyncCleanKeeps ==
    ASSUME IInv, SyncClean
    PROVE  IInv'
<1> USE SessionAssumption DEF IInv, SyncClean, At, Goto
<1>1. SessionTypeOK'
  <2>1. op' \in Ops
    BY DEF SessionTypeOK, Ops, Kinds, Steps, NoOp
  <2> QED BY <2>1 DEF SessionTypeOK, Ops, Kinds, Steps, NoOp
<1>2. RegistryInv'
  BY DEF SessionTypeOK, Ops, Kinds, Steps, NoOp, RegistryInv, Own, Running, KnownActive
<1>3. CheckedInv'
  BY DEF SessionTypeOK, Ops, Kinds, Steps, NoOp, RegistryInv, CheckedInv, Own, Running, KnownActive
<1>4. RecordInv'
  BY DEF SessionTypeOK, Ops, Kinds, Steps, NoOp, RecordInv
<1> QED BY <1>1, <1>2, <1>3, <1>4

\* The directory is idle, and its journal is to be recovered.
LEMMA SyncRecoversKeeps ==
    ASSUME IInv, SyncRecovers
    PROVE  IInv'
<1> USE SessionAssumption DEF IInv, SyncRecovers, At, Goto
<1>1. SessionTypeOK'
  <2>1. op' \in Ops
    BY DEF SessionTypeOK, Ops, Kinds, Steps, NoOp
  <2> QED BY <2>1 DEF SessionTypeOK, Ops, Kinds, Steps, NoOp
<1>2. RegistryInv'
  BY DEF SessionTypeOK, Ops, Kinds, Steps, NoOp, RegistryInv, Own, Running, KnownActive
<1>3. CheckedInv'
  BY DEF SessionTypeOK, Ops, Kinds, Steps, NoOp, RegistryInv, CheckedInv, Own, Running, KnownActive
<1>4. RecordInv'
  BY DEF SessionTypeOK, Ops, Kinds, Steps, NoOp, RecordInv
<1> QED BY <1>1, <1>2, <1>3, <1>4

\* The journal is recovered.
LEMMA RecoverKeeps ==
    ASSUME IInv, Recover
    PROVE  IInv'
<1> USE SessionAssumption DEF IInv, Recover, At, Goto
<1>1. SessionTypeOK'
  <2>1. op' \in Ops
    BY DEF SessionTypeOK, Ops, Kinds, Steps, NoOp
  <2> QED BY <2>1 DEF SessionTypeOK, Ops, Kinds, Steps, NoOp
<1>2. RegistryInv'
  BY DEF SessionTypeOK, Ops, Kinds, Steps, NoOp, RegistryInv, Own, Running, KnownActive
<1>3. CheckedInv'
  BY DEF SessionTypeOK, Ops, Kinds, Steps, NoOp, RegistryInv, CheckedInv, Own, Running, KnownActive
<1>4. RecordInv'
  BY DEF SessionTypeOK, Ops, Kinds, Steps, NoOp, RecordInv
<1> QED BY <1>1, <1>2, <1>3, <1>4

\* Nothing is to be changed.
LEMMA PlanUnchangedKeeps ==
    ASSUME IInv, PlanUnchanged
    PROVE  IInv'
<1>0. /\ op' \in Ops /\ slot' \in BOOLEAN
      /\ op'.step \in {"verify", "none"}
      /\ UNCHANGED <<games, known, monitor, torn, session>>
      /\ journal' = journal
  BY GotoType, EndType DEF IInv, PlanUnchanged, At, AfterSync, SessionTypeOK, Steps
<1>g. op.step = "plan"
  BY DEF PlanUnchanged, At
<1> USE DEF IInv
<1>1. SessionTypeOK'
  BY <1>0, <1>g DEF SessionTypeOK
<1>2. RegistryInv'
  BY <1>0, <1>g DEF SessionTypeOK, RegistryInv, Own
<1>3. CheckedInv'
  BY <1>0, <1>g DEF CheckedInv, Own
<1>4. RecordInv'
  BY <1>0, <1>g DEF RecordInv
<1> QED BY <1>1, <1>2, <1>3, <1>4

\* The directory is idle, and files are to be changed.
LEMMA PlanChangesKeeps ==
    ASSUME IInv, PlanChanges
    PROVE  IInv'
<1> USE SessionAssumption DEF IInv, PlanChanges, At, Goto
<1>1. SessionTypeOK'
  <2>1. op' \in Ops
    BY DEF SessionTypeOK, Ops, Kinds, Steps, NoOp
  <2> QED BY <2>1 DEF SessionTypeOK, Ops, Kinds, Steps, NoOp
<1>2. RegistryInv'
  BY DEF SessionTypeOK, Ops, Kinds, Steps, NoOp, RegistryInv, Own, Running, KnownActive
<1>3. CheckedInv'
  BY DEF SessionTypeOK, Ops, Kinds, Steps, NoOp, RegistryInv, CheckedInv, Own, Running, KnownActive
<1>4. RecordInv'
  BY DEF SessionTypeOK, Ops, Kinds, Steps, NoOp, RecordInv
<1> QED BY <1>1, <1>2, <1>3, <1>4

\* The transaction begins.
LEMMA ApplyKeeps ==
    ASSUME IInv, Apply
    PROVE  IInv'
<1> USE SessionAssumption DEF IInv, Apply, At, Goto
<1>1. SessionTypeOK'
  <2>1. op' \in Ops
    BY DEF SessionTypeOK, Ops, Kinds, Steps, NoOp
  <2> QED BY <2>1 DEF SessionTypeOK, Ops, Kinds, Steps, NoOp
<1>2. RegistryInv'
  BY DEF SessionTypeOK, Ops, Kinds, Steps, NoOp, RegistryInv, Own, Running, KnownActive
<1>3. CheckedInv'
  BY DEF SessionTypeOK, Ops, Kinds, Steps, NoOp, RegistryInv, CheckedInv, Own, Running, KnownActive
<1>4. RecordInv'
  BY DEF SessionTypeOK, Ops, Kinds, Steps, NoOp, RecordInv
<1> QED BY <1>1, <1>2, <1>3, <1>4

\* The transaction fails.
LEMMA ApplyFailsKeeps ==
    ASSUME IInv, ApplyFails
    PROVE  IInv'
<1> USE SessionAssumption DEF IInv, ApplyFails, At, End
<1>1. SessionTypeOK'
  <2>1. op' \in Ops
    BY DEF SessionTypeOK, Ops, Kinds, Steps, NoOp
  <2> QED BY <2>1 DEF SessionTypeOK, Ops, Kinds, Steps, NoOp
<1>2. RegistryInv'
  BY DEF SessionTypeOK, Ops, Kinds, Steps, NoOp, RegistryInv, Own, Running, KnownActive
<1>3. CheckedInv'
  BY DEF SessionTypeOK, Ops, Kinds, Steps, NoOp, RegistryInv, CheckedInv, Own, Running, KnownActive
<1>4. RecordInv'
  BY DEF SessionTypeOK, Ops, Kinds, Steps, NoOp, RecordInv
<1> QED BY <1>1, <1>2, <1>3, <1>4

\* The transaction commits.
LEMMA CommitKeeps ==
    ASSUME IInv, Commit
    PROVE  IInv'
<1> USE SessionAssumption DEF IInv, Commit, At, Goto
<1>1. SessionTypeOK'
  <2>1. op' \in Ops
    BY DEF SessionTypeOK, Ops, Kinds, Steps, NoOp
  <2> QED BY <2>1 DEF SessionTypeOK, Ops, Kinds, Steps, NoOp
<1>2. RegistryInv'
  BY DEF SessionTypeOK, Ops, Kinds, Steps, NoOp, RegistryInv, Own, Running, KnownActive
<1>3. CheckedInv'
  BY DEF SessionTypeOK, Ops, Kinds, Steps, NoOp, RegistryInv, CheckedInv, Own, Running, KnownActive
<1>4. RecordInv'
  BY DEF SessionTypeOK, Ops, Kinds, Steps, NoOp, RecordInv
<1> QED BY <1>1, <1>2, <1>3, <1>4

\* The transaction is complete.
LEMMA CompleteKeeps ==
    ASSUME IInv, Complete
    PROVE  IInv'
<1>0. /\ op' \in Ops /\ slot' \in BOOLEAN
      /\ op'.step \in {"verify", "none"}
      /\ UNCHANGED <<games, known, monitor, torn, session>>
      /\ journal' = "settled"
  BY GotoType, EndType DEF IInv, Complete, At, AfterSync, SessionTypeOK, Steps
<1>g. op.step = "committing"
  BY DEF Complete, At
<1> USE DEF IInv
<1>1. SessionTypeOK'
  BY <1>0, <1>g DEF SessionTypeOK
<1>2. RegistryInv'
  BY <1>0, <1>g DEF SessionTypeOK, RegistryInv, Own
<1>3. CheckedInv'
  BY <1>0, <1>g DEF CheckedInv, Own
<1>4. RecordInv'
  BY <1>0, <1>g DEF RecordInv
<1> QED BY <1>1, <1>2, <1>3, <1>4

\* The launch verifies the version.
LEMMA VerifyKeeps ==
    ASSUME IInv, Verify
    PROVE  IInv'
<1>0. /\ op' \in Ops /\ slot' \in BOOLEAN
      /\ op'.step \in {"spawn", "none"}
      /\ UNCHANGED <<games, known, monitor, torn, session>>
      /\ journal' = journal
  BY GotoType, EndType DEF IInv, Verify, At, SessionTypeOK, Steps
<1>g. op.step = "verify"
  BY DEF Verify, At
<1> USE DEF IInv
<1>1. SessionTypeOK'
  BY <1>0, <1>g DEF SessionTypeOK
<1>2. RegistryInv'
  BY <1>0, <1>g DEF SessionTypeOK, RegistryInv, Own
<1>3. CheckedInv'
  BY <1>0, <1>g DEF CheckedInv, Own
<1>4. RecordInv'
  BY <1>0, <1>g DEF RecordInv
<1> QED BY <1>1, <1>2, <1>3, <1>4

\* The game starts, unknown for a moment.
LEMMA SpawnKeeps ==
    ASSUME IInv, Spawn
    PROVE  IInv'
<1>0. At("spawn") /\ UNCHANGED <<known, monitor, journal, torn, session>>
  BY DEF Spawn
<1>1. CASE End /\ UNCHANGED games
  <2>1. op' \in Ops /\ slot' \in BOOLEAN /\ op'.step = "none"
    BY <1>1, EndType DEF IInv, SessionTypeOK
  <2> QED BY <1>0, <1>1, <2>1 DEF IInv, SessionTypeOK, RegistryInv, CheckedInv, RecordInv, Own, At
<1>2. ASSUME NEW g \in Games, games[g].state = "unused",
             games' = [games EXCEPT ![g] = [state |-> "running", session |-> session]],
             op' = [op EXCEPT !.step = "register", !.game = g], UNCHANGED slot
      PROVE  IInv'
  <2> USE <1>0, <1>2 DEF IInv, At
  <2>1. op' \in Ops /\ op'.step = "register" /\ op'.game = g
    BY DEF SessionTypeOK, Ops, Steps
  <2>2. /\ games' \in [Games -> [state : {"unused", "running", "exited"}, session : Nat]]
        /\ games'[g] = [state |-> "running", session |-> session]
        /\ \A h \in Games \ {g} : games'[h] = games[h]
    BY DEF SessionTypeOK
  <2>3. SessionTypeOK'
    BY <2>1, <2>2 DEF SessionTypeOK
  <2>4. RegistryInv'
    BY <2>1, <2>2 DEF SessionTypeOK, RegistryInv, Own
  <2>5. CheckedInv' /\ RecordInv'
    BY <2>1 DEF CheckedInv, RecordInv
  <2> QED BY <2>3, <2>4, <2>5
<1> QED BY <1>1, <1>2 DEF Spawn

\* The game becomes known.
LEMMA RegisterKeeps ==
    ASSUME IInv, Register
    PROVE  IInv'
<1> USE SessionAssumption DEF IInv, Register, At
<1>1. SessionTypeOK'
  <2>1. op' \in Ops
    BY DEF SessionTypeOK, Ops, Kinds, Steps, NoOp
  <2> QED BY <2>1 DEF SessionTypeOK, RegistryInv
<1>2. RegistryInv'
  BY DEF SessionTypeOK, Ops, Kinds, Steps, NoOp, RegistryInv, Own, Running, KnownActive
<1>3. CheckedInv'
  BY DEF SessionTypeOK, Ops, Kinds, Steps, NoOp, RegistryInv, CheckedInv, Own, Running, KnownActive
<1>4. RecordInv'
  BY DEF SessionTypeOK, Ops, Kinds, Steps, NoOp, RecordInv
<1> QED BY <1>1, <1>2, <1>3, <1>4

\* The cooldown is over.
LEMMA CooldownKeeps ==
    ASSUME IInv, Cooldown
    PROVE  IInv'
<1> USE SessionAssumption DEF IInv, Cooldown
<1>1. SessionTypeOK'
  <2>1. op' \in Ops
    BY DEF SessionTypeOK, Ops, Kinds, Steps, NoOp
  <2> QED BY <2>1 DEF SessionTypeOK, Ops, Kinds, Steps, NoOp
<1>2. RegistryInv'
  BY DEF SessionTypeOK, Ops, Kinds, Steps, NoOp, RegistryInv, Own, Running, KnownActive
<1>3. CheckedInv'
  BY DEF SessionTypeOK, Ops, Kinds, Steps, NoOp, RegistryInv, CheckedInv, Own, Running, KnownActive
<1>4. RecordInv'
  BY DEF SessionTypeOK, Ops, Kinds, Steps, NoOp, RecordInv
<1> QED BY <1>1, <1>2, <1>3, <1>4

\* A game ends.
LEMMA ExitKeeps ==
    ASSUME IInv, NEW g \in Games, Exit(g)
    PROVE  IInv'
<1> USE SessionAssumption DEF IInv, Exit
<1>1. SessionTypeOK'
  <2>1. op' \in Ops
    BY DEF SessionTypeOK, Ops, Kinds, Steps, NoOp
  <2> QED BY <2>1 DEF SessionTypeOK, Ops, Kinds, Steps, NoOp
<1>2. RegistryInv'
  BY DEF SessionTypeOK, Ops, Kinds, Steps, NoOp, RegistryInv, Own, Running, KnownActive
<1>3. CheckedInv'
  BY DEF SessionTypeOK, Ops, Kinds, Steps, NoOp, RegistryInv, CheckedInv, Own, Running, KnownActive
<1>4. RecordInv'
  BY DEF SessionTypeOK, Ops, Kinds, Steps, NoOp, RecordInv
<1> QED BY <1>1, <1>2, <1>3, <1>4

\* A monitor sees it.
LEMMA NoticeKeeps ==
    ASSUME IInv, NEW g \in Games, Notice(g)
    PROVE  IInv'
<1> USE SessionAssumption DEF IInv, Notice
<1>1. SessionTypeOK'
  <2>1. op' \in Ops
    BY DEF SessionTypeOK, Ops, Kinds, Steps, NoOp
  <2> QED BY <2>1 DEF SessionTypeOK, Ops, Kinds, Steps, NoOp
<1>2. RegistryInv'
  BY DEF SessionTypeOK, Ops, Kinds, Steps, NoOp, RegistryInv, Own, Running, KnownActive
<1>3. CheckedInv'
  BY DEF SessionTypeOK, Ops, Kinds, Steps, NoOp, RegistryInv, CheckedInv, Own, Running, KnownActive
<1>4. RecordInv'
  BY DEF SessionTypeOK, Ops, Kinds, Steps, NoOp, RecordInv
<1> QED BY <1>1, <1>2, <1>3, <1>4

\* The journal is marked, under the lease.
LEMMA MarkRepairKeeps ==
    ASSUME IInv, NEW g \in Games, MarkRepair(g)
    PROVE  IInv'
<1> USE SessionAssumption DEF IInv, MarkRepair
<1>1. SessionTypeOK'
  <2>1. op' \in Ops
    BY DEF SessionTypeOK, Ops, Kinds, Steps, NoOp
  <2> QED BY <2>1 DEF SessionTypeOK, Ops, Kinds, Steps, NoOp
<1>2. RegistryInv'
  BY DEF SessionTypeOK, Ops, Kinds, Steps, NoOp, RegistryInv, Own, Running, KnownActive
<1>3. CheckedInv'
  BY DEF SessionTypeOK, Ops, Kinds, Steps, NoOp, RegistryInv, CheckedInv, Own, Running, KnownActive
<1>4. RecordInv'
  BY DEF SessionTypeOK, Ops, Kinds, Steps, NoOp, RecordInv
<1> QED BY <1>1, <1>2, <1>3, <1>4

\* A game that has ended is forgotten.
LEMMA ReleaseKeeps ==
    ASSUME IInv, NEW g \in Games, Release(g)
    PROVE  IInv'
<1> USE SessionAssumption DEF IInv, Release
<1>1. SessionTypeOK'
  <2>1. op' \in Ops
    BY DEF SessionTypeOK, Ops, Kinds, Steps, NoOp
  <2> QED BY <2>1 DEF SessionTypeOK, Ops, Kinds, Steps, NoOp
<1>2. RegistryInv'
  BY DEF SessionTypeOK, Ops, Kinds, Steps, NoOp, RegistryInv, Own, Running, KnownActive
<1>3. CheckedInv'
  BY DEF SessionTypeOK, Ops, Kinds, Steps, NoOp, RegistryInv, CheckedInv, Own, Running, KnownActive
<1>4. RecordInv'
  BY DEF SessionTypeOK, Ops, Kinds, Steps, NoOp, RecordInv
<1> QED BY <1>1, <1>2, <1>3, <1>4

\* The launcher restarts: games of an earlier life are nobody's.
LEMMA RestartKeeps ==
    ASSUME IInv, Restart
    PROVE  IInv'
<1>0. /\ op' = NoOp /\ known' = {} /\ slot' = FALSE /\ session' = session + 1
      /\ monitor' = [g \in Games |-> "none"] /\ UNCHANGED <<games, journal, torn>>
  BY DEF Restart
<1>1. op' \in Ops /\ op'.step = "none"
  BY <1>0 DEF NoOp, Ops, Kinds, Steps
<1>2. SessionTypeOK'
  <2>1. session' \in Nat
    BY <1>0 DEF IInv, SessionTypeOK
  <2>2. monitor' \in [Games -> {"none", "watching", "diagnosed", "marked"}]
    BY <1>0
  <2> QED BY <1>0, <1>1, <2>1, <2>2 DEF IInv, SessionTypeOK
<1>3. RegistryInv'
  BY <1>0, <1>1 DEF IInv, SessionTypeOK, RegistryInv, Own
<1>4. CheckedInv' /\ RecordInv'
  BY <1>0, <1>1 DEF IInv, CheckedInv, RecordInv
<1> QED BY <1>2, <1>3, <1>4 DEF IInv

\* At first nothing runs.
LEMMA InitIInv == SessionInit => IInv
<1> SUFFICES ASSUME SessionInit PROVE IInv
  OBVIOUS
<1> USE SessionAssumption DEF SessionInit
<1>1. NoOp \in Ops /\ NoOp.step = "none"
  BY DEF NoOp, Ops, Kinds, Steps
<1>2. SessionTypeOK
  BY <1>1 DEF SessionTypeOK
<1>3. RegistryInv
  BY <1>1 DEF RegistryInv, Own
<1>4. CheckedInv /\ RecordInv
  BY <1>1 DEF CheckedInv, RecordInv
<1> QED BY <1>2, <1>3, <1>4 DEF IInv

\* Every step keeps the invariant.
LEMMA NextIInv == IInv /\ [SessionNext]_sessionVars => IInv'
<1> SUFFICES ASSUME IInv, [SessionNext]_sessionVars PROVE IInv'
  OBVIOUS
<1>1. CASE SyncStep
  BY <1>1, SyncOfflineKeeps, SyncFailsKeeps, SyncCleanKeeps, SyncRecoversKeeps, RecoverKeeps,
     PlanUnchangedKeeps, PlanChangesKeeps, ApplyKeeps, ApplyFailsKeeps, CommitKeeps,
     CompleteKeeps DEF SyncStep
<1>2. CASE EndOther \/ Verify \/ Spawn \/ Register
  BY <1>2, EndOtherKeeps, VerifyKeeps, SpawnKeeps, RegisterKeeps
<1>3. CASE \E duplicate \in BOOLEAN : Launch(duplicate)
  BY <1>3, LaunchKeeps
<1>4. CASE Sync \/ Restore \/ Install \/ Cooldown \/ Restart
  BY <1>4, SyncKeeps, RestoreKeeps, InstallKeeps, CooldownKeeps, RestartKeeps
<1>5. CASE \E g \in Games : Exit(g) \/ Notice(g) \/ MarkRepair(g) \/ Release(g)
  BY <1>5, ExitKeeps, NoticeKeeps, MarkRepairKeeps, ReleaseKeeps
<1>6. CASE UNCHANGED sessionVars
  BY <1>6 DEF IInv, SessionTypeOK, RegistryInv, CheckedInv, RecordInv, Own, sessionVars
<1> QED BY <1>1, <1>2, <1>3, <1>4, <1>5, <1>6 DEF SessionNext, OpStep

\* The strengthened invariant holds in every state of every behaviour.
THEOREM SessionInvariant == SessionSpec => []IInv
BY InitIInv, NextIInv, PTL DEF SessionSpec

\* Every variable has its type.
THEOREM TypeCorrect == SessionSpec => []SessionTypeOK
BY SessionInvariant, PTL DEF IInv

\* No operation replaces files under a game this launcher started.
THEOREM OwnGamesUndisturbed == SessionSpec => []NoWriteUnderOwnGame
<1>1. IInv => NoWriteUnderOwnGame
  BY DEF IInv, CheckedInv, NoWriteUnderOwnGame, Replacing, Running, Own
<1> QED BY <1>1, SessionInvariant, PTL

\* Half-changed files never have a settled journal.
THEOREM DamageNeverHidden == SessionSpec => []DamageIsKnown
<1>1. IInv => DamageIsKnown
  BY DEF IInv, RecordInv, DamageIsKnown
<1> QED BY <1>1, SessionInvariant, PTL

\* The record that would undo a transaction is there as long as it runs.
THEOREM JournalKept == SessionSpec => []JournalIsOwned
<1>1. IInv => JournalIsOwned
  BY DEF IInv, RecordInv, JournalIsOwned
<1> QED BY <1>1, SessionInvariant, PTL
\* The journal tells the truth about the directory, whoever writes it.
THEOREM JournalTrue == SessionSpec => []JournalIsTrue
BY DamageNeverHidden, JournalKept, PTL DEF JournalIsTrue
=============================================================================
