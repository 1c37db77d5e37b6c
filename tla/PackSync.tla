------------------------------ MODULE PackSync ------------------------------
(***************************************************************************)
(* What a synchronization of a TensaCraft pack decides and in which order  *)
(* it carries it out (core/loaders/tensacraft.py,                          *)
(* application/tensacraft_content_install.py, tensacraft_payload.py): which *)
(* files the release manages, which of the instance's it replaces or       *)
(* removes, what becomes of the profile.  The pack's data and its list of  *)
(* files are asked one after the other, and the pack may be published anew *)
(* in between; what a pack preserves is stated with the data, or else with *)
(* the list.  The journal's own steps are FileSyncJournal's, the game    *)
(* that runs in the directory is LaunchSession's: here a rollback is one   *)
(* step and no game runs.                                                  *)
(***************************************************************************)
EXTENDS Naturals, Sequences

CONSTANTS
    Paths,          \* the files of an instance,
    ModFiles,       \* the mods among them,
    Parent,         \* the directory of each,
    Under,          \* and the files below each directory
    Histories,      \* the releases a pack may go through
    NoFile, OwnFile, \* no file, and one the user wrote
    Unforced,       \* a release that leaves the user's option alone
    NoRules,        \* and one whose data does not state what it preserves
    MaxSyncMishaps  \* bound on failures, deaths and the user's edits

ASSUME PackSyncAssumption ==
    /\ ModFiles \subseteq Paths
    /\ \A p \in Paths : Parent[p] \in DOMAIN Under /\ p \in Under[Parent[p]]
    /\ \A d \in DOMAIN Under : Under[d] \subseteq Paths
    /\ MaxSyncMishaps \in Nat
    /\ \A h \in Histories :
          /\ Len(h) \in Nat \ {0} /\ DOMAIN h = 1..Len(h)
          /\ \A i \in DOMAIN h : /\ DOMAIN h[i].files \subseteq Paths
                                /\ h[i].mode \in {"manifest", "metadata", "plain"}
                                /\ h[i].scopes \subseteq DOMAIN Under

VARIABLES
    history, release,   \* the pack's releases, and the one the server offers
    local,              \* the files of the instance
    savedProfile,              \* the profile on the disk: what it runs, the option
    version,            \* the profile the synchronization works on
    syncJournal,            \* the journal: status, identity of the commit, backups
    sync,               \* the synchronization
    mishaps

syncVars == <<history, release, local, savedProfile, version, syncJournal, sync, mishaps>>

NoSync == [at |-> "idle", kind |-> "sync", payload |-> 1, manifest |-> 1,
           recovered |-> FALSE, replace |-> {}, stale |-> {}, todo |-> {}, before |-> <<>>]
ClosedJournal == [status |-> "settled", key |-> Unforced, undo |-> <<>>]

PackSyncInit ==
    /\ history \in Histories /\ release = 1
    /\ local = [p \in Paths |-> NoFile]
    /\ savedProfile = [runs |-> 0, option |-> 0] /\ version = savedProfile
    /\ syncJournal = ClosedJournal /\ sync = NoSync /\ mishaps = 0

Is(s) == sync.at = s
Goes(s) == sync' = [sync EXCEPT !.at = s]
Still == UNCHANGED <<history, release>>
Mishap == mishaps < MaxSyncMishaps /\ mishaps' = mishaps + 1
Resting == sync.at \in {"idle", "done", "skipped", "failed"}

(* ---- Which files a release manages ---- *)

\* A directory is taken as managed when everything the release puts there is
\* forced, and locked or a mod.
InferLockedScopes(m) ==
    {d \in {Parent[p] : p \in DOMAIN m.files} :
       LET here == {p \in DOMAIN m.files : Parent[p] = d}
       IN  here \subseteq m.forced /\ (here \subseteq m.locked \/ here \subseteq ModFiles)}

ManagedDirectories(m) ==
    m.scopes \cup (IF m.mode = "metadata" THEN InferLockedScopes(m) ELSE {})

Below(directories) == UNION {Under[d] : d \in directories}

Expected(m) ==
    CASE m.mode = "manifest" -> DOMAIN m.files
      [] m.mode = "metadata" ->
           {p \in DOMAIN m.files : p \in m.forced \cup Below(ManagedDirectories(m))}
      [] m.mode = "plain" -> DOMAIN m.files \cap ModFiles

\* What the pack's data states is to be preserved, were it nothing, goes before
\* what a manifest states.
Preserved(data, m) ==
    CASE data.rules # NoRules -> data.rules
      [] data.rules = NoRules /\ m.mode = "manifest" -> m.preserved
      [] OTHER -> {}

CollectStale(m, preserved) ==
    {p \in Below(ManagedDirectories(m)) :
       local[p] # NoFile /\ p \notin preserved \cup Expected(m)}

\* A file that is there with the right hash is not downloaded again, unless an
\* interrupted synchronization makes the whole directory doubtful.
DownloadTasks(m, force) ==
    {p \in Expected(m) : force \/ local[p] # m.files[p]}

(* ---- The steps ---- *)

Recovered == sync.kind = "install" \/ sync.recovered \/ syncJournal.status = "settled"

StartPackInstall ==
    /\ Resting /\ savedProfile.runs = 0
    /\ sync' = [NoSync EXCEPT !.at = "asking", !.kind = "install"] /\ version' = savedProfile
    /\ UNCHANGED <<local, savedProfile, syncJournal, mishaps>> /\ Still

StartSync ==
    /\ Resting /\ savedProfile.runs # 0
    /\ sync' = [NoSync EXCEPT !.at = "asking"] /\ version' = savedProfile
    /\ UNCHANGED <<local, savedProfile, syncJournal, mishaps>> /\ Still

FindVersionPayload ==
    /\ Is("asking")
    /\ sync' = [sync EXCEPT !.at = "resolved", !.payload = release]
    /\ UNCHANGED <<local, savedProfile, version, syncJournal, mishaps>> /\ Still

\* Without the pack's data or its list of files nothing is done.
ApiUnavailable ==
    /\ Is("asking") \/ (Is("resolved") /\ Recovered)
    /\ Mishap /\ Goes("skipped")
    /\ UNCHANGED <<local, savedProfile, version, syncJournal>> /\ Still

Undone_Existing ==
    [p \in Paths |-> IF p \in DOMAIN syncJournal.undo /\ syncJournal.undo[p] # NoFile
                     THEN syncJournal.undo[p] ELSE local[p]]

Undone == [p \in Paths |-> IF p \in DOMAIN syncJournal.undo THEN syncJournal.undo[p] ELSE local[p]]
RollBack == local' = Undone /\ syncJournal' = ClosedJournal

\* An interrupted synchronization is undone first; a commit it had begun waits
\* for the transaction.
RecoverFirst ==
    /\ Is("resolved") /\ ~Recovered
    /\ sync' = [sync EXCEPT !.recovered = TRUE]
    /\ IF syncJournal.status = "committing" THEN UNCHANGED <<local, syncJournal>> ELSE RollBack
    /\ UNCHANGED <<savedProfile, version, mishaps>> /\ Still

PreparePlan ==
    LET m == history[release] IN
    /\ Is("resolved") /\ sync.kind = "sync" /\ Recovered
    /\ sync' = [sync EXCEPT !.at = "planned", !.manifest = release, !.before = local,
                  !.replace = DownloadTasks(m, sync.recovered),
                  !.stale = CollectStale(m, Preserved(history[sync.payload], m))]
    /\ UNCHANGED <<local, savedProfile, version, syncJournal, mishaps>> /\ Still

\* An installation takes every file the release has and removes none.
PrepareInstall ==
    /\ Is("resolved") /\ sync.kind = "install"
    /\ sync' = [sync EXCEPT !.at = "planned", !.manifest = release,
                  !.replace = DOMAIN history[release].files]
    /\ UNCHANGED <<local, savedProfile, version, syncJournal, mishaps>> /\ Still

HasChanges == sync.replace \cup sync.stale # {}

\* The Version object gets back what it was when the call began.
RestoreProfile == version' = savedProfile

Fails == Goes("failed") /\ RestoreProfile /\ UNCHANGED savedProfile

\* The loader the pack asks for is installed before the profile names it.
LoaderFails ==
    /\ Is("planned") /\ version.runs # history[sync.payload].runs /\ Mishap
    /\ Fails /\ UNCHANGED <<local, syncJournal>> /\ Still

MergeSyncPayload ==
    LET r == history[sync.payload] IN
    /\ Is("planned")
    /\ version' = [runs |-> r.runs,
                   option |-> IF r.option = Unforced THEN version.option ELSE r.option]
    /\ IF HasChanges \/ sync.kind = "install" THEN Goes("merged") /\ UNCHANGED savedProfile
       ELSE Goes("done") /\ savedProfile' = version'
    /\ UNCHANGED <<local, syncJournal, mishaps>> /\ Still

\* Only the operation that began a commit may finish it; an installation has
\* no commit of its own.
MayResume == sync.kind = "sync" /\ syncJournal.key = version

BeginTransaction ==
    /\ Is("merged") /\ (syncJournal.status = "committing" => MayResume)
    /\ savedProfile' = IF syncJournal.status = "committing" THEN version ELSE savedProfile
    /\ local' = IF syncJournal.status = "applying" THEN Undone ELSE local
    /\ syncJournal' = [status |-> "staging", key |-> version, undo |-> <<>>]
    /\ sync' = [sync EXCEPT !.at = "staged", !.todo = sync.replace \cup sync.stale,
                  !.before = local']
    /\ UNCHANGED <<version, mishaps>> /\ Still

CommitRefused ==
    /\ Is("merged") /\ syncJournal.status = "committing" /\ ~MayResume
    /\ Fails /\ UNCHANGED <<local, syncJournal, mishaps>> /\ Still

\* A download, a check or a replacement fails.
StageFails ==
    /\ sync.at \in {"staged", "applying"} /\ Mishap
    /\ RollBack /\ Fails /\ Still

StartActivation ==
    /\ Is("staged") /\ Goes("applying")
    /\ syncJournal' = [syncJournal EXCEPT !.status = "applying"]
    /\ UNCHANGED <<local, savedProfile, version, mishaps>> /\ Still

ActivateFile(p) ==
    /\ Is("applying") /\ p \in sync.todo
    /\ local' = [local EXCEPT ![p] =
         IF p \in sync.replace THEN history[sync.manifest].files[p] ELSE NoFile]
    /\ syncJournal' = [syncJournal EXCEPT
          !.undo = [q \in DOMAIN @ \cup {p} |-> IF q = p THEN local[p] ELSE @[q]]]
    /\ sync' = [sync EXCEPT !.todo = @ \ {p}]
    /\ UNCHANGED <<savedProfile, version, mishaps>> /\ Still

BeginCommit ==
    /\ Is("applying") /\ sync.todo = {} /\ sync.kind = "sync"
    /\ Goes("committing") /\ syncJournal' = [syncJournal EXCEPT !.status = "committing"]
    /\ UNCHANGED <<local, savedProfile, version, mishaps>> /\ Still

CommitProfile ==
    /\ Is("committing") /\ Goes("committed") /\ savedProfile' = version
    /\ UNCHANGED <<local, version, syncJournal, mishaps>> /\ Still

\* The profile cannot be written, or the journal cannot be closed after it was.
CommitFails ==
    /\ sync.at \in {"committing", "committed"} /\ Mishap
    /\ RollBack /\ Fails /\ Still

Complete ==
    /\ Is("committed") /\ Goes("done") /\ syncJournal' = ClosedJournal
    /\ UNCHANGED <<local, savedProfile, version, mishaps>> /\ Still

CompleteInstall ==
    /\ Is("applying") /\ sync.todo = {} /\ sync.kind = "install"
    /\ Goes("installed") /\ syncJournal' = ClosedJournal
    /\ UNCHANGED <<local, savedProfile, version, mishaps>> /\ Still

SaveInstalled ==
    /\ Is("installed") /\ Goes("done") /\ savedProfile' = version
    /\ UNCHANGED <<local, version, syncJournal, mishaps>> /\ Still

\* The launcher dies; the user edits a file or the option between two
\* synchronizations; the pack is published anew at any time.
SyncDies ==
    /\ ~Resting /\ Mishap /\ sync' = NoSync /\ RestoreProfile
    /\ UNCHANGED <<local, savedProfile, syncJournal>> /\ Still

EditFile(p) ==
    /\ Resting /\ savedProfile.runs # 0 /\ Mishap
    /\ \E content \in {NoFile, OwnFile} \ {local[p]} : local' = [local EXCEPT ![p] = content]
    /\ sync' = NoSync /\ UNCHANGED <<savedProfile, version, syncJournal>> /\ Still

EditOption ==
    /\ Resting /\ savedProfile.runs # 0 /\ savedProfile.option = 0 /\ Mishap
    /\ savedProfile' = [savedProfile EXCEPT !.option = 1] /\ version' = savedProfile'
    /\ sync' = NoSync /\ UNCHANGED <<local, syncJournal>> /\ Still

Publish ==
    /\ release < Len(history) /\ release' = release + 1
    /\ UNCHANGED <<history, local, savedProfile, version, syncJournal, sync, mishaps>>

PackSyncNext ==
    \/ StartPackInstall \/ StartSync \/ FindVersionPayload \/ ApiUnavailable \/ RecoverFirst
    \/ PreparePlan \/ PrepareInstall \/ LoaderFails \/ MergeSyncPayload \/ BeginTransaction
    \/ CommitRefused \/ StageFails \/ StartActivation \/ (\E p \in Paths : ActivateFile(p))
    \/ BeginCommit \/ CommitProfile \/ CommitFails \/ Complete \/ CompleteInstall
    \/ SaveInstalled \/ SyncDies \/ (\E p \in Paths : EditFile(p)) \/ EditOption \/ Publish

PackSyncSpec == PackSyncInit /\ [][PackSyncNext]_syncVars

(* ---- Properties ---- *)

\* Every variable has its type.
PackSyncTypeOK ==
    /\ release \in DOMAIN history /\ DOMAIN local = Paths
    /\ syncJournal.status \in {"settled", "staging", "applying", "committing"}
    /\ sync.kind \in {"install", "sync"}
    /\ sync.replace \subseteq Paths /\ sync.stale \subseteq Paths /\ sync.todo \subseteq Paths
    /\ mishaps \in 0..MaxSyncMishaps

Manifest == history[sync.manifest]
Rules == Preserved(history[sync.payload], Manifest)
Moved(p) == local[p] # sync.before[p]

\* A synchronization that ended well leaves the instance as the release has
\* it: what it manages has the release's content, nothing else is left below
\* its directories but what the rules of the data it began with preserve (what
\* only a list published since preserves is removed), and what it does not
\* manage is as it was.
SyncedRight ==
    Is("done") /\ sync.kind = "sync" =>
       /\ \A p \in Expected(Manifest) : local[p] = Manifest.files[p]
       /\ \A p \in Below(ManagedDirectories(Manifest)) \ Expected(Manifest) :
            IF p \in Rules THEN ~Moved(p) ELSE local[p] = NoFile
       /\ \A p \in Paths \ (Expected(Manifest) \cup Below(ManagedDirectories(Manifest))) :
            ~Moved(p)
       /\ HasChanges => syncJournal.status = "settled"

\* One that failed leaves every file as it found it (FileTransaction.rollback).
FailureUndone ==
    Is("failed") /\ sync.before # <<>> => \A p \in Paths : ~Moved(p)

\* A profile is written only with the files of its release in place, or to
\* finish the very commit the journal has kept.
ProfileFollowsFiles ==
    [][savedProfile' # savedProfile /\ ~Resting /\ sync.kind = "sync" =>
         /\ savedProfile'.runs = history[sync.payload].runs
         /\ \/ \A p \in Expected(Manifest) : local[p] = Manifest.files[p]
            \/ syncJournal.status = "committing" /\ syncJournal.key = savedProfile']_syncVars

\* What a synchronization promises of the files and of the profile.
PackIsManaged == [](SyncedRight /\ FailureUndone) /\ ProfileFollowsFiles
=============================================================================
