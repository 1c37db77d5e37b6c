# Formal verification of TensaLauncher

TLA+ models of the parts of TensaLauncher (`src/launcher`) in which it is a matter of the order of
steps whether a world is lost, a pack is half updated, a file is replaced under a running game or a
page shows what is no longer true; TLC configurations that check them on small instances, and proofs
for every value of the constants. `PROJECT.json` maps every definition to the lines it models and
lists the runs, the mutants that show each property can fail, the hazards and the theorems. Paths
below are relative to `src/launcher/` unless they name `docs/`, `tests/` or `assets/`.

    tlc -workers 2 -config MCFiles.cfg MCFiles     # a run
    tlapm FileSyncProofs.tla                       # a proof module

## 1. Inventory

A desktop launcher: one Python process with a UI thread, background tasks and one monitor thread
per game; the player may start several launchers, any of them may die, and the games outlive them.
Game directories, shared roots and all the journals are on disk.

| Component (source) | State it keeps | Operations | Interacts with | What is hard, what must hold |
|---|---|---|---|---|
| File transactions (`application/file_transaction.py`, `file_sync_journal.py`) | journal, staged and backup trees, live files | begin, stage, activate, commit, complete, roll back, recover | synchronizations and installations call it with a stage and a commit callback | death or error between any two writes, retries of a failed undo. Originals survive; a settled journal has a whole directory |
| Instance operations (`instance_operations.py`, `platform_lock.py`) | active lease per directory, borrow count, kernel lock | acquire, borrow, release, deferred release | every operation on a game directory | threads and processes interleave, release while lent. One operation at a time, no leaked lock |
| Shared resources (`shared_resources.py`) | owner thread and depth per root, kernel lock | enter, re-enter, leave | loaders, Java installation | nesting. No block without the lock |
| World backups (`world_backups.py`, `pages/world_backups.py`) | saves, restore journal, staged and previous directories, archives with metadata | back up, prune, list, delete, restore, recover | instance lease, launch, player | death between renames, pruning beside deletions. No copy of a world is lost |
| Launch and monitor (`core/game.py`, `launch_workflow.py`) | launch slot, registry of running games, monitor threads | start, sync, verify, spawn, register, diagnose, mark for repair | all of the above, TensaCraft | check-then-act over minutes; restarts forget the registry. No write under a game |
| TensaCraft synchronization (`core/loaders/tensacraft.py`, `tensacraft_content_install.py`, `tensacraft_payload.py`) | manifests, plan, version profile | plan, recover, apply, commit | file transactions, launch | releases change between two answers. Only managed files go; profile and files agree |
| Modrinth content (`modrinth_mods.py`, `modrinth_content_install.py`) | content index, own journal | resolve dependencies, install, replace, undo | instance lease, mods page | plans grow old, circular requirements. A plan is closed; only proven files are removed |
| Packs (`core/loaders/modrinth.py`, `curseforge.py`, `modrinth_pack.py`, `curseforge_install.py`) | instance files, profile | validate, stage, activate, commit, undo | file transactions, stores | failure after the commit. Files, profile and runtime agree |
| Single instance (`platform/single_instance.py`) | kernel lock, command queue, identities seen | send, receive, accept, drain, stop | a second launcher process | lost answers and repeats, bounded memory. At most once, none accepted and dropped |
| Stores (`storage/`) | versions, profiles, configuration as JSON | save (three-way merge), remove, rename, encrypt, refresh | UI, synchronization, launch | stale objects, unreadable keys. No update lost, no token in plain text |
| Session tasks (`ui/core/session_tasks.py`, mods page) | tasks and tokens of a page | run, invalidate, cancel, close | all background work | late answers. A list never goes back, a left page does not change |
| Legacy migration (`application/gilea_migration/`) | journal, staged and temporary files | stage, activate, commit, undo, recover | stores, paths | death between a file and its record; files of others. Reversible, theirs survive |
| Updates (`core/updater.py`, `pending_update.py`, `assets/updater/`) | payload, marker, target, backup | prepare, hand over, apply by a script, confirm | restart | power loss between two moves. A launcher stays, and opens again |
| Downloads (`core/async_downloader.py`) | destination, partial files, their metadata | download, resume, restart, retry | every installer | the remote file changes under a resume. Right or absent |
| Loader installation (`core/loaders/base.py`, `mod_loader.py`, `installed_components.py`) | versions tree, markers of interrupted installations | install, verify, repair, remove | shared resources, launch | death between profile, marker and libraries. What is started is whole |
| Java runtimes (`java_runtime.py`) | canonical directory, generations, marker of the active one | find, verify, install, repair, isolate | loaders | files in use, look-ups outside the operation. What is returned is whole |
| Authentication (`core/auth/`, `pages/profiles.py`) | receiver, dialogs, flows, tokens | sign in, device code, refresh | profile store, HTTP, browser | tabs left over, endless waits. The player's own account |
| Feedback (`application/feedback.py`, `ui/feedback/progress_overlay.py`, `pages/activity.py`) | operations, cycles, timers | begin, update, finish, render | launch asks `is_busy` | calls that come after the hide. Busy exactly while something runs |
| Builds (`pages/version_create.py`, `home.py`, `version_settings.py`, `ui/modals/`) | names, ids, directories, records | create, import, copy, rename, delete | stores, loaders | names against ids. A build never takes another's directory |
| Catalogues (`pages/version_create.py`, `modpacks.py`, `version_creation.py`, `version_component_modal.py`) | caches, tokens, timers | filter, search, page, choose | services | answers in any order. Shown is what was asked last |
| Place of the data (`platform/paths.py`, `application/setup_wizard.py`, `pages/setup_wizard.py`, `state.py`) | pointer, state files and Minecraft directories of each place, overrides of the process | select, migrate from older layouts, move, choose | stores, every start | copies that stop half-way, savings beside them, a place that is away. The newest state is followed, none is copied over |
| Diagnosis, mod identity and version ranges, storage preflight | none | functions of their arguments | launch, pages | text and arithmetic |
| Other platform calls, widgets, theme, shell, release tools | presentation and wiring | - | - | not modelled |

The instance lease is what makes the other protocols single-threaded per directory: a restore, a
backup, a synchronization, an installation, a launch up to the registration of its process and the
repair mark of a diagnosis all run under it. `InstanceLease` models it alone, and the other modules
assume what it shows. In the same way the installers of loaders and Java rely on `SharedResource`,
and the packs, content installations and synchronizations on `FileSyncJournal`, which they see as a
transaction that is applied or undone, maybe later. The kernel locks serialise processes; only the
registry of running games is known to one process alone.

## 2. Modules

Three modules put components side by side and are the instances TLC runs: `MCStores`, `MCFiles` and
`MCSessions`. A behaviour of such a module is about one component, its `subject`, and leaves the
variables of the others alone: components that share no state need no product of their states, and
what one assumes of another is said in its head comment. `MCFileSync`, `MCLaunchSession`,
`MCComponents`, `MCModContent` and `MCBuilds` are instances of one module each.

| Module | Models | Instance |
|---|---|---|
| `FileSyncJournal` (abstract: `AtomicUpdate`; proofs: `FileSyncProofs`) | `FileTransaction.execute` over one `FileSyncJournal` | `MCFileSync` |
| `InstanceLease` (abstract: `ExclusiveUse`; proofs: `InstanceLeaseProofs`) | `InstanceOperationCoordinator`, `OSFileLock` | `MCFiles` |
| `SharedResource` (proofs: `StoreProofs`) | `SharedResourceCoordinator`, `OSFileLock` | `MCStores` |
| `WorldRestore` (proofs: `WorldRestoreProofs`) | restore and recovery of `WorldBackupService` | `MCFiles` |
| `LaunchSession` (proofs: `LaunchSessionProofs`) | a pack's directory over the launcher's lives | `MCSessions`, `MCLaunchSession` |
| `JavaRuntime` (proofs: `StoreProofs`) | `JavaRuntimeService` for one runtime | `MCStores` |
| `ConfigStore`, `ProfileStore`, `VersionStore`, `PackInstall` (proofs: `StoreProofs`) | as named | `MCStores` |
| `ModsPage`, `Feedback`, `VersionCatalog`, `ModpackCatalog`, `ComponentChoice` with `LoaderBuilds` (proofs: `PageProofs`) | as named | `MCStores` |
| `PackSync`, `WorldBackups` (proofs: `ContentProofs`) | as named | `MCStores` |
| `ModContent`, `Builds` (proofs: `ContentProofs`) | as named | `MCStores`, and one instance each for a disagreement |
| `GileaMigration`, `DataLocation` (proofs: `LauncherProofs`) | as named | `MCStores` |
| `ComponentInstall` (proofs: `StoreProofs`) | as named | `MCStores`, and one instance for a disagreement |
| `Downloader` (proofs: `StoreProofs`), `ModDependencies` (proofs: `ContentProofs`), `SignIn` (proofs: `LauncherProofs`) | as named | `MCFiles` |
| `SingleInstance`, `LauncherUpdate` (proofs: `LauncherProofs`) | as named | `MCSessions` |

**FileSyncJournal.** `live`, `stage`, `backup` are the three trees, `journal` the file, `mem` the
`payload` of the running call and `pc` its next durable step. Each write of the journal, rename and
copy is one action and may raise (`Raise`) or be the last thing the process does (`Crash`); one
action follows each branch of `recover()`. A file's content is the number of the transaction that
wrote it. `LoseBackup` is somebody else deleting a file of the work directory. `before`, `goal`,
`profileBefore`, `txn` and `lost` are history and guard nothing but bounds.

**InstanceLease.** Each coordinator method runs under its `_lock` and is one action; `try_acquire`
is two, since it takes the kernel lock and then writes the owner's metadata, which may fail. `Hand`
passes a lease object to another thread as `LaunchWorkflow` does, and a thread may borrow with it at
any later time (`Pin`), release it twice (`Release`) or die with its process.

**SharedResource.** The same shape with an owner thread and a depth. `blocks` counts the `with`
blocks the threads really have open, which the coordinator does not know.

**WorldRestore.** The directories of the worlds, the staged and the previous directory and the phase
journal. `rmtree` and `extractall` may stop with a partial directory. Between calls the player
plays, creates and deletes worlds; `kept` is the set of copies she has not given up.

**WorldBackups.** A world is the time of its `level.dat`. An archive is written, then its metadata,
then the older automatic backups are pruned; deaths leave archives without metadata; the page deletes
beside all that, from a list it read earlier. Two worlds may share a directory of backups; `Alone` tells
which has its own.

**LaunchSession.** `op` is the operation that has the lease, `games` the processes, `known` the
registry, `monitor` the monitor threads, `journal` and `torn` what a half-finished synchronization
left on disk. `Restart` ends the launcher in any state and loses its memory. That the application's
`feedback.is_busy()` refuses more launches, and that plain versions verify before they synchronize,
is left out: both only remove interleavings from those checked.

**PackSync.** Two answers of the API, the plan (what to write, what to remove, what to preserve), the
transaction and the profile, over two histories of releases: full and plain lists, managed
directories, preserved files, options the player has changed. `Preserved` is what a synchronization keeps: the rules of the first
answer, were they none, and the manifest's only where that answer has no such list; a release published
between the answers may preserve what is then removed. `SyncedRight` is a reference definition of what
the instance should then hold, written from the manifest and not from the planner.

**PackInstall.** Both loaders from the archive or manifest to the callback. A release has at most one
flaw, met where the code meets it; runs fail, roll back, die and are resumed. `content`, `saved` and
`entity` are the files, the stored profile and the `Version` object that must agree. Modrinth reads the
list of managed files before its transaction settles an earlier one: `ReadManagedList` fixes what is to
go, and `stranded` names the packs whose file the undo brings back behind that list. A CurseForge pack
without any file saves its profile outside a transaction and is left out.

**ModDependencies.** The breadth-first walk of the resolver with its queue, its exact requirements
and its outer repetition over the releases it ended with; what releases require, what is offered and
installed is chosen at the start. The properties compare the plan with a closure under requirements.

**ModContent.** The slots of a directory of jars, enabled and disabled, the index of what came from
the catalogue, a plan that is made at one time and carried out at another, the journal, the backups.
The player, games, failures and deaths come between any two steps. Left out: that Modrinth, asked by hash,
may prove whose a jar is; in the model only the index does.

**ComponentInstall.** `base` is Minecraft itself; `comp` has of each NeoForge, Fabric and Quilt its
profile, what NeoForge's installer adds, and the markers; `libs` are the libraries, which all loaders
share, written one by one to their places, absent, torn or whole. Whoever looks at them asks only
whether each exists (`LibrariesExist`), so a torn one passes, and so does one that another version has
brought; NeoForge's own installation compares hashes. `bare` are the NeoForges whose profile is new and
not yet marked. `work` is the operation that has the shared root. Reuse, `force_check`, retries, moving
a profile, the check before a launch and the page's deletions follow the code's early returns.

**JavaRuntime.** `javaDisk` tells of the canonical directory and each generation whether it is
absent, empty, partial or whole, `activeMarker` which generation is active, `javaCall` the running call.
Removing may fail on files in use; look-ups of the pages do not hold the operation and remove a
marker that points at nothing.

**VersionStore, ConfigStore, ProfileStore.** The stores keep objects of several ages over one file.
`SaveVersion` is the three-way merge of a leaf; a deletion is two steps with a death between them.
`ConfigStore` has pending edits, changes in place, and saves that fail. `ProfileStore` says in which
form the file holds a credential and which answer of the server it is; a refresh is two steps round
the request, under the refresh lock. `promised`, `agreed` and `intent` are history.

**GileaMigration.** `output`, `temporary`, `folder` are what is on disk, `moved` the journal. A file
is renamed into place before its identity is recorded, the user and Gilea meddle in between, and
recovery acts on what it can prove.

**DataLocation.** The starts of the launcher on Linux and its setup wizard. `stateFiles` says for each
place what it holds of config.json (with its `minecraft_game_dir` and the wizard's mark) and of the other
state files, `gameFiles` which builds each Minecraft directory has, `pointer` is storage.json. A start
selects `workDir` and goes through the migration twice, one state file and then one candidate directory
at a time; the wizard copies, switches the pointer (`override`) and starts the launcher again. Any page
may save while it copies. Copies and writes fail and tear files, the launcher dies, the chosen place is
away for a while. `known` and `doubtful` are history: what the user has, and which files a mishap has torn
or left behind; a file that is doubtful is exempt, and so are builds a mishap has hidden.

**Downloader.** A file is a sequence of blocks named by the revision they belong to, so a mixture is
visible. `task` goes through the branches of `_download_file`: skip, resume with a validator, restart
after 200 or 416, retry, validate, replace. The server changes the file and forgets validators.

**SingleInstance.** Every process has one request and a step (`route`); `backlog`, `requests`, `batch`
and `seen` are the connections, the queue, what the UI has drained and the bounded memory of
identities. An answer may be lost and the request repeated under the same identity.

**LauncherUpdate.** The marker and the payload, the launcher's hand-over, and every step of the two
kinds of script (copying on Windows, renaming elsewhere) with its failures and power losses. Nothing keeps the launcher
from being opened while a script works, and two scripts may then be at work; `crossed` remembers it, and
what they leave is not promised (section 5).

**SignIn.** Each sign-in is a thread with a flow (browser, then device code), one receiver at a time,
tabs of the browser that outlive their flow, the dialog, and instances of the accounts page.

**Feedback.** A method changes the service under its lock and leaves calls to be made after it
(`calls`); calls of other threads are queued for the page's. The overlay compares cycles.

**ModsPage.** Tasks of a page (scan, check, change, installation) with the flag that says whether
their token is current; they return whenever they are done. `items` is the age of the directory the
list tells of.

**Builds.** A page compares names, begins its operation and hands the work to a thread; the store and
the disk know ids (`IdOf`). `builds` are the records, `gameDirs` whose files a directory holds. A build
that was renamed, or is a modpack, has an id its name does not protect: `KeepsId` tells it from the
others. `HasOwnId` says that nothing else can be made under its id, which the code does not see to, and
`disturbed` remembers that a copy was begun of one whose directory another has taken.

**VersionCatalog, ModpackCatalog, ComponentChoice, LoaderBuilds.** Pages that ask a service on other
threads: generations, tokens, caches per key and a timer whose thread outlives its cancellation.
`LoaderBuilds` are the functions that choose the builds to offer from what a service lists.

## 3. Runs

| Run | States | Shows |
|---|---|---|
| `sync_safety` | 921k | `FilesAreSafe`: no original is lost, a settled journal has a whole directory. `OwnersAreRespected`: nobody replaces an unfinished transaction, a commit is completed by its owner. `IInv`, the invariant of the proofs |
| `sync_outcome` | 378k | `ImplementsAtomicUpdate`: the journal refines one atomic update. `PreCommitSettles`: an interrupted transaction settles |
| `stores` | 972k | Eighteen components, table below |
| `files` | 259k | Five components, table below |
| `sessions` | 51k | Three components, table below |
| `sync_complete`, `sync_uncommitted`, `launch_running`, `launch_undone`, `base_repaired`, `content_unproven`, `builds_kept` | as few as the counterexample needs | Section 5 |

| Property | Module | Says |
|---|---|---|
| `RootIsExclusive` | `SharedResource` | no open block without the kernel lock, whatever the nesting; exact depth |
| `RecordsAreTrue` | `VersionStore` | what was saved into a field stays until somebody saves another value there, however old the objects; what was removed does not come back; a listed version has its directory |
| `SettingsKept` | `ConfigStore` | a setting saved on purpose stays until another is saved under its key |
| `CredentialsAreKept` | `ProfileStore` | no token is written in plain, none is lost by what is not about it, a deleted account stays deleted, a credential that was replaced is not presented again |
| `MovesAreSafe` | `GileaMigration`, `DataLocation` | files of others survive the migration; after a rollback nothing of it is left; manual repair is asked for only when somebody meddled or a copy was cut short. Wherever the launcher keeps its data, it shows the state saved last and the builds there were; no copy replaces a whole state file |
| `ComponentsAreReady` | `ComponentInstall` | a profile is moved only to, and a game started only with, a loader that is in its place, a NeoForge only when each library is in one piece and patched; exempt are what is deleted meanwhile and a NeoForge whose installation ended between profile and marker |
| `PackIsWhole` | `PackInstall` | when no transaction is open the files are of one pack (but for a file an undo brought back behind the list of what to remove) and the profile names it; the loader of a named pack is there; nothing of a flawed release is put in place |
| `PackIsManaged` | `PackSync` | a synchronization leaves the instance as the release and the rules it began with say, and nothing else touched, one that failed leaves it as it was; the profile follows the files |
| `ModsAreKept` | `ModContent` | an installation takes away only what is proven and backed up, a failed one changes nothing, no jar a game has loaded is changed |
| `PageIsCurrent` | `ModsPage` | the list does not go back, and shows the directory once all is quiet |
| `BackupsAreKept` | `WorldBackups` | manual backups stay, each world with a directory of its own keeps its newest ones, changed worlds are copied |
| `BuildsAreKept` | `Builds` | record and directory of a build whose id is its own go only when it is deleted; the offers are new; what is listed is whole |
| `ProgressIsTrue` | `Feedback` | busy exactly while an operation runs; the ring is there exactly then |
| `PagesAreCurrent` | the catalogues | shown is the answer to the last question |
| `MarkedIsWhole`, `JavaIsReady` | `JavaRuntime` | the marked generation is whole; a call returns a whole runtime, and files in use alone never leave the player without one |
| `LockIsExact`, `RefusedOnlyWhenHeld`, `ImplementsExclusiveUse`, `RequestedIsReleased` | `InstanceLease` | work under the lock, no leaked lock, true refusals, refinement of `ExclusiveUse`, a deferred release happens |
| `WorldsAreKept` | `WorldRestore` | no copy lost, settled worlds whole, recovery possible |
| `InstalledIsRight` | `Downloader` | a declared file is installed as declared or not at all, any other is never a mixture of revisions |
| `PlanIsSound` | `ModDependencies` | a plan without issues finds what it requires and brings nothing else |
| `SignInIsSafe` | `SignIn` | the account is the one chosen in that very sign-in; one flow and one receiver at a time; the page shows what is saved |
| `RequestsEnd` | the four above | restores settle, downloads, plans (circles included) and sign-ins end |
| `ChannelIsSafe`, `ChannelAnswers` | `SingleInstance` | one owner, a repeated request runs once; delivered means taken; what is taken is handled, every start ends |
| `UpdateIsSafe`, `OpensAgain` | `LauncherUpdate` | a whole launcher is on the disk, in place or as the backup, and never an older one, until two scripts have met; if one is in place it opens again |
| `NoWriteUnderOwnGame`, `JournalIsTrue`, `DamageIsRepaired` | `LaunchSession` | no write under a game of this life; damage is known, and repaired |

Each property is broken by a mutant of one mapped definition, listed in `PROJECT.json`; `StoresTypeOK`,
`FilesTypeOK` and `SessionsTypeOK` are the type invariants.

**Bounds.** `sync_*`: two files, two keys and two transactions; two files let the loops of activation
and undo stop between entries, the second transaction meets what the first left, two keys tell the
owner of a commit from a stranger, one error and one death reach the failing undo of a failing
activation (`sync_outcome` has a second error, so that the undo is itself retried).
`SharedResource`: two threads in each of two processes, depth 4. `InstanceLease`: three threads of one
process and one of another, three leases: a lease is lent twice while its owner releases it, and an
old object is used after its successor is active. Stores: two `Version` objects of one id with two
fields, three configuration objects with two settings, two accounts and two refreshers: a merge with
what somebody else changed since, and a refresh that ends under another. Migration: two files (a
directory left half-way), two attempts, one act of others. Components: one Fabric, two NeoForges that share a library with it, two attempts, three
installations or launches with deaths between any two steps, one deletion: a version is left half-way and
taken up again when another has brought the library. `DataLocation`: three legacy places and one chosen, two savings, two mishaps: a failed copy and a
retry over what it left, a death between two migrations. Packs: three runs over two packs, two errors, two
deaths: a failing undo, then the resumption, then another pack. `PackSync`: four paths in three
directories, two histories, two mishaps. `ModContent`: two names, enabled or not, two events of the
player. `ModsPage`: two tasks, two `Version` objects. `WorldBackups`: two worlds, two backups, one
kept: pruning meets a manual backup. `Feedback`: two threads and a timer, two operations, the second
a child or a sibling. `Builds`: three names, a pack, a modpack, two creations, a deletion, a rename, so that a
name goes away and comes back.
Catalogues: two tabs, queries or loaders and three questions, so that an answer passes a later one and meets an older one's.
`JavaRuntime`: three generations, two calls, a death, a damage. `WorldRestore`: two worlds, three
copies, one error, two deaths, one act of the player under an open journal. `Downloader`: two
artifacts of two blocks, two revisions, one retry. `ModDependencies`: three projects. `SignIn`: two
sign-ins over two pages. `SingleInstance`: three processes, a queue of two, three identities, two
attempts. `LauncherUpdate`: two scripts, three versions, one power loss; once two scripts
have met no other update is prepared and the power stays on (`Calmer`): the property promises nothing then
but that the launcher opens again. `LaunchSession`: two games
over three lives, so that one outlives two restarts. The theorems hold without these bounds.

The suites say `CHECK_DEADLOCK FALSE`: each component stops where its bounds are used up.

**Fairness.** Weak fairness of the steps of a call that has started, since Python calls, `with` blocks
and scripts run to their end: `Step`, `Recovery \/ Restoring`, `DownloadStep`, `PlanNext`, `Enter`,
`Unpin` and `Release` of a lease, `SignInGoesOn`, the connection, service and pump of the command
channel, `ScriptStep`, the exit of a launcher that is leaving, `OpStep`. Weak fairness of the clock of a
sign-in, whose codes expire (`ClockGoesOn`). Weak fairness of what the player must do for anything to go
on: to come back to an unsettled directory (`RecoverOnEntry`, `Restore`), to open the launcher after an
update, to end a game. Strong fairness of the successful steps of a synchronization: API and disk fail
intermittently; without it an API that is always down refutes every repair. Errors, deaths, losses,
starts of operations and all else the player does have no fairness.

## 4. Proofs

`tlapm` checks every theorem for all constants allowed by the named assumptions:
`ConstantsAssumption`, `LeaseAssumption` (finitely many threads, each with a process),
`SharedAssumption`, `RestoreAssumption`, `SessionAssumption`, `JavaAssumption`, `UpdateAssumption`,
`ChannelAssumption`, `ConfigAssumption`, `StoreAssumption`, `CredentialAssumption`, `PackAssumption`,
`ContentAssumption`, `PackSyncAssumption`, `BuildsAssumption`, `BackupsAssumption`, `CatalogAssumption`, `ModpacksAssumption`,
`ChoiceAssumption`, `FeedbackAssumption`, `ComponentAssumption`, `DownloadAssumption`,
`MigrationAssumption`, `LocationAssumption`, `SignInAssumption`, `DependencyAssumption` (among the releases offered one is the
newest), `CataloguesAssumption` (the numbers of builds are padded to one length, as
`_version_sort_key` does, and no loader lists a prerelease as stable). They only say that the special values are not among the others,
that sets of threads and of files are finite, that worlds are numbered (in the order of their names), that bounds are numbers and tables have the domains their
names say. Where a theorem needs more, it is a hypothesis of the theorem, named below.

* `FileSyncProofs` (`InductiveInvariant`, `TypeCorrect`, `FilesSafe` from `OriginalsKept` and
  `SettledDirectoryWhole`, `OwnersRespected` from `UnsettledJournalKept` and `CommitOwned`,
  `JournalIsAtomic`). The properties are not inductive: an entry on disk lags behind the file it
  describes, since a write follows the rename it records. `EntryOK` says which situations each recorded
  state allows, for the payload on disk and for the one in memory; `StatusAt` ties the step of the call
  to the status on disk; `LoopInv` and `CallInv` say what the loops of activation and undo have done.
  `JournalIsAtomic` assumes `Keys = {}`: with commit callbacks two findings of section 5 refute it. It
  maps every step to a step or a stutter of `AtomicUpdate`.
* `InstanceLeaseProofs` (`LeaseInvariant`, `TypeCorrect`, `LockExact` from `WorkProtected` and
  `LockNotLeaked`, `RefusalIsTrue`, `LeaseIsExclusive`). The deferred release rests on a count, so the
  invariant says that `_borrow_count` is the cardinality of the borrowers, and that kernel lock,
  `_active` and the threads' leases agree.
* `WorldRestoreProofs` (`RestoreInvariant`, `TypeCorrect`, `WorldsKept` from `CopiesKept`,
  `SettledWorldsWhole` and `RecoveryPossible`). Once the staged directory is gone the player's copy is
  in its place, so removing the previous one takes nothing from her; while it is there the previous
  directory is only moved back.
* `LaunchSessionProofs` (`SessionInvariant`, `TypeCorrect`, `OwnGamesUndisturbed`, `JournalTrue` from
  `DamageNeverHidden` and `JournalKept`). A game of this life is registered, or about to be by the
  operation that holds the lease; so a directory found idle under the lease is idle when written.
* `LauncherProofs`, the update (`UpdateTypeCorrect`, `UpdateSafe`). That a whole launcher is on the disk
  is not inductive: a script moves the old one away before the new one is in place, and a death leaves
  either move alone. `UpdateInv` says for each step of a script what is in place, in the backup and in the
  payload, and that no version on the disk is older than what was confirmed. Nothing in the code keeps
  two scripts apart: `SoloInv` holds, and is kept, until the launcher is opened while one works, and
  `UpdateIsSafe` says so; the types are proved of every behaviour.
* `LauncherProofs`, the command channel (`ChannelTypeCorrect`, `ChannelSafe`,
  `AcknowledgedRequestIsTaken`). An identity is remembered while its request can be repeated, so
  `ChannelInv` ties every step of a sender to where its request is: nowhere, in the backlog, queued,
  drained or handled. The theorems assume `Cardinality(Starter) <= SeenSize`: the owner
  remembers the last 256 identities (`_seen`, `platform/single_instance.py:76`), and a request that is
  repeated after 256 others would run twice. A sender repeats its request within seconds, so what has to
  fit is the starts of those seconds; the model does not forget senders that are done and asks it of all.
* `StoreProofs`, what the launcher stores, each component with an invariant of its own:
  - `SharedInvariant`, `SharedTypeCorrect`, `RootExclusive` from `BlocksProtected` and `DepthExact`:
    kernel lock, owner, depth and open blocks agree except while a thread is entering;
  - `StoreTypeCorrect`, `RecordsStayTrue`: the merge compares an object with what it was loaded from, so
    `StoreInv` says that an object's edits are where it differs from its snapshot, that the file (or, while
    it is unreadable, the cache of the only store there is) has what was promised, that a removal takes the
    record before the directory, and that a version being prepared is nowhere yet;
  - `SettingsAreKept`: a `Config` object saves what it thinks has changed, so `ConfigInv` relates, for
    every object and key, what is pending, deleted or changed in place to what its snapshot and the file say;
  - `PackTypeCorrect`, `PackStaysWhole`: `PackInv` says at each step of an installation which of the
    files, the stored profile, the object and the journal are already the pack's, whose commit key a
    resumed transaction has (`PackCore`), and that what another pack has left was on the list when it was
    read, or came back later (`StaleIsKnown`);
  - `JavaTypes`, `MarkedStaysWhole`: that the marked generation is whole is not inductive, for the
    installation writes directories and the clean-up removes them. `MarkerInv` adds that an installation
    never works in the marked directory, that what is about to be activated is whole, and that the
    clean-up keeps what the marker names. Damage by others is assumed away by the property;
  - `JavaStaysReady`: a call ends with a runtime, or for a reason. `CallEndsWell` adds that a
    game never keeps open the generation being installed, that what a call is about to return is whole and
    is what the marker names, and that a call that returns nothing has met an error that explains it;
  - `ProfileTypeCorrect`, `CredentialsStayKept`: a refresh token is good once, so `CredentialInv` says
    that every stored profile has an issued credential that is not spent, and that the answer of a refresh
    under way is one no other account has. With `CredentialAssumption` (some credential can be issued);
  - `ComponentsStayReady`: what is on disk between two steps of an installation is not whole, so
    `ReadyInv` says which component each step works on (`StepsFit`), that a NeoForge with a marker
    of success, or with a profile under no marker of an interrupted installation and not new in its place, is
    wholly there (`VouchersHold`), what an installation has done before its last steps (`WorkTells`), and that what
    an installation ends with or a launch is about to start is there (`ReadyIsThere`);
  - `InstalledStaysRight`: `DownloadInv` says that a partial file is the beginning of one revision and that
    its metadata are that revision's, unless an answer ended early unnoticed or a file was locked;
* `PageProofs`, what the pages show:
  - `TabsStayCurrent`, `ModpacksStayCurrent` and `ChoicesStaySound` make `PagesStayCurrent`: the
    answers under way carry tokens, and only that of the newest question equals the page's (`CatalogInv`,
    `ModpacksInv`, `ChoiceInv`). That the builds are offered in order is proved without induction: the
    place of a build in the list is the number of those before it (`SortedPlaces`);
  - `ProgressStaysTrue`: the overlay lags behind the service, so `FeedbackInv` follows each call from the
    lock it was made under through the page's queue, and says that whatever is still to come ends in the
    state the service is in;
  - `PageTypeCorrect`, `PageStaysCurrent`: the mods page runs scans and checks it may have given up, so
    `PageInv` says that at most one scan or check is current, what it has read so far, that the list was
    read from the directory of the version shown, and how the list, the display and the directory relate.
* `ContentProofs`, what an instance keeps:
  - `ContentTypeCorrect`, `ModsStayKept`: a plan is made at one time and carried out at another, so
    `ContentInv` says that what goes away for a plan was proven and is not what comes, that the journal
    undoes exactly what has been done, that what is removed has its backup, and that an installation beside a
    running game has none of its jars to touch;
  - `SyncTypeCorrect`, `PackStaysManaged`: `SyncInv` says that the plan fits the release it was made
    for, the rules of the answer before it and the files it was made over, that the files differ from those before only where the plan has placed
    one and the journal has exactly these, and that the profile about to be saved is of the plan's release;
  - `BuildsTypeCorrect`, `BuildsStayKept`: `BuildsInv` says that a task never works under the id of a
    build that has it for its own, what is in the list and in the offers, what the task has written and what
    it copies. It holds whatever ids the names and packs share: only the builds whose id is their own
    (`HasOwnId`) are promised to stay. Of the others `builds_kept` of section 5 is a counterexample;
  - `BackupsStayKept`: `BackupInv` says that archives are numbered in the order they are made, that a
    world that is there is not older than its archives (so the latest one tells whether it has changed),
    that the worlds whose turn has been have their copy, and that the copy just made is not among what
    pruning has chosen. It holds whichever worlds share a directory: what pruning leaves is counted per
    directory, and the copies of a world are promised when it has one of its own (`Alone`);
  - `PlanStaysClosed`: a plan ends when a walk finds the releases the walk before it ended with.
    `PlanInv` says that what the releases visited declare has been met, noted or blocked, or waits
    in the queue (`Followed`), that a project is resolved to the release it is pinned to, or
    else to the one preferred (`ResolvedFit`), and that nothing is brought that none of them requires (`OnlyWanted`). At the end the
    queue is empty, and the plan is closed.
* `LauncherProofs`, the sign-ins (`SignInStaysSafe`): an account is saved minutes after it was chosen, so
  `GrantsAreOwn` says that a code heard by a receiver, exchanged or about to be saved was granted in the
  sign-in that has it, and that no tab of an earlier flow is left that could answer for it.
* `LauncherProofs`, the data that goes to another directory (`MovesStaySafe`, all of `MovesAreSafe`):
  - `MigrationStaysSafe`, the migration from Gilea: a file is in place before the journal knows,
    so `MigrationInv` says which phase of the journal each step works in (`PhasesFit`), that what is there of
    ours can be proven to be ours unless a copy was cut short, and files of others tell of meddling
    (`OursIsKnown`), and that what an undo has passed is gone (`NothingIsLeft`);
  - `LocationStaysSafe`, the place of the data: a start works on what an earlier one has left in four kinds
    of places. For the state files `StateInv` says of every one that is sure that the copy in the directory
    in use, or else the one that would be brought there, is what the user has saved last (`KeptIn`), that a
    torn file is known to be, that after a start nothing is left that could still be brought
    (`NothingIsMissed`), and that a search for the Minecraft directory writes config.json back as it has
    read it (`DraftIsTrue`). The first attempt was refuted by TLC with two directories to choose from: what
    a move leaves behind in a third one was not counted as doubtful. For the builds `FoundInv` says that,
    unless a mishap has hidden them, they are in one of three situations: where config.json of the
    directory to be worked on says, and then a search meets that place first and an older one only when it
    is empty (`InPlace`, `InSession`, `Searching`); in an older layout that no start has come to
    (`NotReached`); or a start has copied the layout's config.json and has its Minecraft directory still
    among the candidates to be tried (`Carrying`).

The modules also prove the types of what their components keep (`StoreTypeCorrect`, `ProfileTypeCorrect`,
`PackTypeCorrect`, `SharedTypeCorrect`, `SyncTypeCorrect`, `PageTypeCorrect`, `JavaTypes`); `PROJECT.json`
lists the theorems a reader should know first.

Only model-checked:

* every liveness property (`RequestsEnd`, `RequestedIsReleased`, `ChannelAnswers`, `OpensAgain`,
  `DamageIsRepaired`, `PreCommitSettles`): the prover does not handle `ENABLED`, on which fairness rests;
* the type invariants of the suites, which join those of their components.

## 5. Disagreements found

1. `sync_complete`: an undo of a `committing` journal that is interrupted leaves the status; the
   matching `recover()` then commits and declares complete a directory whose files are the old ones
   (`application/file_sync_journal.py:210`, against `docs/INSTALLATION_INTEGRITY.md:28`).
2. `sync_uncommitted`: when the commit has run and the write of `complete` raises, the files are
   rolled back and the profile is not (`application/file_transaction.py:101`, against line 29 there).
3. `launch_running`: the registry of running games is process memory; a restarted launcher recovers
   files under a game that still runs (`core/game.py:601`, against lines 36-37 there).
4. `launch_undone`: a crash's repair mark replaces the journal of an open transaction, whose undo is
   lost (`application/file_sync_journal.py:39`, against lines 33-34 there). The directory stays known as
   damaged and a forced synchronization rewrites it (`DamageIsRepaired`).
5. `base_repaired`: a launch that finds Minecraft itself incomplete announces the repair, asks for it
   without `force_check`, and starts the game on the incomplete files (`core/game.py:284`, against its
   own message and `tests/test_game_launch_diagnostics.py:748`).
6. `content_unproven`: which file a content installation replaces is decided before an interrupted
   one is undone; the player's jar that the undo puts back is then removed, without a backup
   (`application/modrinth_content_install.py:128`, against `docs/INSTALLATION_INTEGRITY.md:15`).
7. `builds_kept`: a copy or an import under a name that differs in its case or punctuation takes the
   id of a build and removes its directory (`ui/modals/version_copy_modal.py:257`, against
   `tests/test_version_creation.py:479`).

Met while modelling, and kept out of the runs by an assumption, a named exception in the property, or a
model that ends there:

* a world deleted after an activated restore comes back as the one replaced (`world_backups.py:432`);
  two worlds whose names give one `_safe_name` share their backups, and pruning one takes the other's
  (`world_backups.py:673`; `Alone`);
* an installation that is run again after it died while applying decides what to remove from the list the
  first run had put in place; the undo then puts the files of the pack before back, and nobody manages
  them any more (`modrinth_pack.py:372`, the shape of disagreement 6; `stranded`). A CurseForge pack without
  files commits without a transaction (`curseforge_install.py:193`);
* a library of Fabric or Quilt that a death has cut short passes for whole, since only its existence is asked
  for and nothing marks the installation (`core/integrity.py:253`); a NeoForge that a death has left between
  its profile (`core/loaders/base.py:927`) and its marker (line 831) passes unpatched when another version has
  brought its libraries (`bare`);
* one modpack installed under two names has one id; a pack whose title the player gave to a build takes its
  directory (`HasOwnId`); a deletion is not excluded against a copy or an
  installation under way (`version_store.py:194`; `disturbed` in `Builds`);
* a list that could not be loaded is kept as an empty one (`version_create.py:257`,
  `version_creation.py:207`);
* a look-up of Java removes a marker that a running installation is about to use
  (`java_runtime.py:103`; `unlucky`); pages delete loader components without the shared root
  (`minecraft_components.py:844`) and toggle resource packs without an operation (`mods_manager.py:951`);
* an account renamed during a refresh gets a second record (`auth.py:344`); the device dialog stays open
  when the flow fails (`auth.py:294`); a page left during a sign-in does not show the new account
  (`profiles.py:307`);
* a rendering that was delayed shows the ring again for a moment (`feedback.py:482`; `overlapped`);
* the recovery of a content installation does not ask whether a game runs
  (`modrinth_content_install.py:230`); `_verify` installs without the lease of the launch
  (`core/game.py:212`); a monitor thread that cannot start leaves a game unknown (`core/game.py:460`);
* a Minecraft directory chosen in the settings that is `<state>/minecraft` is forgotten by the restart
  that follows, which works on it all the same, so that what is installed there is not found by the next
  start (`paths.py:514`; `known.hidden`); a configured directory that is away for one start is forgotten
  for good (`state.py:56`); after a failed writing of storage.json the session works on the new place and
  the next start on the old one (`paths.py:236`); what is saved while the wizard copies stays behind
  (`setup_wizard.py:289`; `doubtful`);
* a power loss of `linux_update.sh` after line 65 leaves only the backup, which the script, not the
  launcher, puts back; two update scripts may work at once (`pending_update.py:405`; `crossed`).

## 6. Not modelled, and what is next

Left out for good: theme, shell, widgets, shortcuts and system calls, HTTP clients, release tools
(input, output and presentation), the places of data on Windows and macOS, the directory of the program
as a Minecraft directory, pointers of earlier releases, a default directory that cannot be written to, the diagnosis rules and the storage preflight (functions without
state). What `FileSyncJournal` abstracts: normalisation and containment of paths, the content of staged
files, legacy schema-1 records (in `LaunchSession`), the durability of `fsync`. Components marked
`partly` say in their note what is missing. A hazard without a property says why in its note.

In order of importance:

1. The second journal of a content installation and that of a synchronization over one directory, as
   two instances of `FileSyncJournal`.
2. The version ranges of `mod_compatibility.py` as functions against a reference, the settings pages,
   and the adapters of the legacy migration.
3. The types of the suites, from those of their components.
