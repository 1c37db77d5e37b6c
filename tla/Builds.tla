------------------------------ MODULE Builds ----------------------------------
(***************************************************************************)
(* Creating, importing, copying, renaming and deleting builds, and the     *)
(* packs the home page offers: pages/version_create.py, home.py,           *)
(* version_settings.py and mods_manager.py, the modals of ui/modals/ and   *)
(* application/tensacraft_install_state.py.                                *)
(*                                                                         *)
(* A build lives under an id that is made from its name (a Modrinth        *)
(* modpack's from its project); pages compare names, the store and the     *)
(* disk know ids.  A page checks and begins its operation in one step of   *)
(* the UI thread; the work is a thread's, and deletions run beside it.     *)
(* What a loader writes, step by step, is ComponentInstall's, PackInstall's *)
(* and PackSync's matter; versions.json is VersionStore's.                 *)
(***************************************************************************)
EXTENDS Naturals

CONSTANTS Names,       \* names of builds
          Typed,       \* those the player types
          Folded,      \* name -> its casefold()
          IdOf,        \* name -> normalize_string of it
          Offers,      \* packs TensaCraft lists
          TitleOf,     \* pack -> its title
          Modpacks,    \* ids of Modrinth projects
          Nil,      \* no build, pack or id
          MaxBuilds, MaxDeletions, MaxRenames

BuildIds == {IdOf[n] : n \in Names} \cup Modpacks

BuildRecords == [name : Names, build : 1..MaxBuilds, pack : Offers \cup {Nil}, renamed : BOOLEAN]

ASSUME BuildsAssumption ==
    /\ Typed \subseteq Names /\ DOMAIN IdOf = Names /\ DOMAIN Folded = Names
    /\ TitleOf \in [Offers -> Names]
    /\ \A m, n \in Names : Folded[m] = Folded[n] => IdOf[m] = IdOf[n]
    /\ Nil \notin BuildIds \cup Offers \cup Names \cup BuildRecords
    /\ {MaxBuilds, MaxDeletions, MaxRenames} \subseteq Nat

VARIABLES
    builds,      \* id -> the listed build, and whether it has been renamed
    gameDirs,    \* id -> what its directory holds
    task,        \* the creation or copy under way
    built,       \* builds begun so far, which numbers them
    elsewhere,   \* another operation makes the launcher busy
    wanted,      \* the modpack whose dialog is just closed
    pendingPacks,\* pending_tensacraft_pack_ids
    home,        \* the home page
    removal,     \* the deletion the store is carrying out, under its lock
    disturbed,   \* history: a deletion met the files of the work under way, or a
                 \* copy was begun of a build whose directory another has taken
    deletions, renames

buildsVars == <<builds, gameDirs, task, built, elsewhere, wanted, pendingPacks, home,
                removal, disturbed, deletions, renames>>

NoTask == [at |-> "idle", id |-> Nil, name |-> Nil, pack |-> Nil, source |-> Nil]
NoDir == [build |-> 0, whole |-> FALSE]
NoHome == [open |-> FALSE, awaits |-> FALSE, cards |-> {}, asks |-> Nil]
NoRemoval == [id |-> Nil, files |-> FALSE]

ListedIds == {i \in BuildIds : builds[i] # Nil}
NameTaken(n) == \E i \in ListedIds : builds[i].name = n
FoldTaken(n) == \E i \in ListedIds : Folded[builds[i].name] = Folded[n]
LocalPacks == {builds[i].pack : i \in ListedIds} \ {Nil}

\* A build whose id is the one its name gives: it is no modpack and was never
\* renamed, which frees the name and keeps the id.
KeepsId(i) == builds[i] # Nil /\ IdOf[builds[i].name] = i /\ ~builds[i].renamed

\* ... and nothing else may be made under its id: no other name gives it, no
\* modpack has it and no other pack bears its name.  The code compares names.
HasOwnId(i) ==
    /\ KeepsId(i) /\ i \notin Modpacks
    /\ \A n \in Names : IdOf[n] = i => n = builds[i].name
    /\ \A p \in Offers : TitleOf[p] = builds[i].name => p = builds[i].pack

LauncherBusy == task.at # "idle" \/ elsewhere

BuildsTypeOK ==
    /\ builds \in [BuildIds -> {Nil} \cup BuildRecords]
    /\ gameDirs \in [BuildIds -> [build : 0..MaxBuilds, whole : BOOLEAN]]
    /\ task \in [at : {"idle", "write", "copy", "files", "save", "end"},
                id : BuildIds \cup {Nil}, name : Names \cup {Nil},
                pack : Offers \cup {Nil}, source : BuildIds \cup {Nil}]
    /\ built \in 0..MaxBuilds
    /\ {elsewhere, disturbed} \subseteq BOOLEAN
    /\ wanted = Nil \/ wanted \in [id : Modpacks, name : Typed]
    /\ pendingPacks \subseteq Offers
    /\ home \in [open : BOOLEAN, awaits : BOOLEAN, cards : SUBSET Offers,
                 asks : Offers \cup {Nil}]
    /\ removal \in [id : BuildIds \cup {Nil}, files : BOOLEAN]
    /\ deletions \in 0..MaxDeletions /\ renames \in 0..MaxRenames

BuildsInit ==
    /\ builds = [i \in BuildIds |-> Nil] /\ gameDirs = [i \in BuildIds |-> NoDir]
    /\ task = NoTask /\ built = 0 /\ elsewhere = FALSE /\ wanted = Nil
    /\ pendingPacks = {} /\ home = NoHome /\ removal = NoRemoval /\ disturbed = FALSE
    /\ deletions = 0 /\ renames = 0

-----------------------------------------------------------------------------
\* The pages: their checks, the operation, the task.

\* An installation under the id of a renamed build, of a modpack or of a build
\* of another name takes its directory, and may have failed: what is copied of
\* it then is incomplete.
Overwritten(s) == ~HasOwnId(s) /\ ~gameDirs[s].whole

Begin(n, i, pack, source) ==
    /\ built < MaxBuilds /\ built' = built + 1
    /\ task' = [at |-> "write", id |-> i, name |-> n, pack |-> pack, source |-> source]
    /\ disturbed' = (disturbed \/ (source # Nil /\ Overwritten(source)))
    /\ UNCHANGED <<builds, gameDirs, elsewhere, removal, deletions, renames>>

\* mark_pending and unmark_pending; a build that is no pack has no id.
MarkPending(pack) == pendingPacks' = pendingPacks \cup ({pack} \ {Nil})
UnmarkPending(pack) == pendingPacks' = pendingPacks \ {pack}

\* The create page: a build of a mod loader, or a pack of TensaCraft.
CreateBuild(n, pack) ==
    /\ ~home.open /\ ~FoldTaken(n) /\ ~LauncherBusy
    /\ Begin(n, IdOf[n], pack, Nil)
    /\ MarkPending(pack)
    /\ UNCHANGED <<home, wanted>>

ImportBuild(n) ==
    /\ ~NameTaken(n) /\ ~LauncherBusy
    /\ Begin(n, IdOf[n], Nil, Nil)
    /\ UNCHANGED <<home, wanted, pendingPacks>>

\* A copy of a pack of TensaCraft is not managed.
Unmanaged == Nil

CopyBuild_Unnamed(s, n) ==
    /\ s \in ListedIds /\ ~LauncherBusy
    /\ Begin(n, IdOf[n], Unmanaged, s)
    /\ UNCHANGED <<home, wanted, pendingPacks>>

CopyBuild(s, n) ==
    /\ s \in ListedIds /\ ~NameTaken(n) /\ ~LauncherBusy
    /\ Begin(n, IdOf[n], Unmanaged, s)
    /\ UNCHANGED <<home, wanted, pendingPacks>>

\* What the dialog of a modpack holds: the project and the name typed.
ModpackDialog(m, n) == [id |-> m, name |-> n]

\* The modpack dialog closes first and asks again whether the launcher is busy.
InstallModpack(m, n) ==
    /\ wanted = Nil /\ ~home.open /\ ~NameTaken(n) /\ ~LauncherBusy
    /\ wanted' = ModpackDialog(m, n)
    /\ UNCHANGED <<builds, gameDirs, task, built, elsewhere, pendingPacks, home, removal,
                   disturbed, deletions, renames>>

StartModpack ==
    /\ wanted # Nil /\ wanted' = Nil
    /\ IF LauncherBusy
       THEN UNCHANGED <<builds, gameDirs, task, built, elsewhere, removal, disturbed,
                        deletions, renames>>
       ELSE Begin(wanted.name, wanted.id, Nil, Nil)
    /\ UNCHANGED <<home, pendingPacks>>

\* The settings page saves whatever name it holds.
RenameBuild(i, n) ==
    /\ i \in ListedIds /\ renames < MaxRenames /\ renames' = renames + 1
    /\ builds' = [builds EXCEPT ![i].name = n, ![i].renamed = TRUE]
    /\ UNCHANGED <<gameDirs, task, built, elsewhere, wanted, pendingPacks, home, removal,
                   disturbed, deletions>>

OtherOperation ==
    /\ elsewhere \/ ~LauncherBusy
    /\ elsewhere' = ~elsewhere
    /\ UNCHANGED <<builds, gameDirs, task, built, wanted, pendingPacks, home, removal,
                   disturbed, deletions, renames>>

-----------------------------------------------------------------------------
\* The home page.

OpenHome ==
    /\ ~home.open /\ home' = [NoHome EXCEPT !.open = TRUE, !.awaits = TRUE]
    /\ UNCHANGED <<builds, gameDirs, task, built, elsewhere, wanted, pendingPacks, removal,
                   disturbed, deletions, renames>>

\* before_hide closes the dialog; an answer that comes later is dropped.
LeaveHome ==
    /\ home.open /\ home' = NoHome
    /\ UNCHANGED <<builds, gameDirs, task, built, elsewhere, wanted, pendingPacks, removal,
                   disturbed, deletions, renames>>

ListPacks ==
    /\ home.awaits
    /\ home' = [home EXCEPT !.awaits = FALSE, !.cards = Offers \ (LocalPacks \cup pendingPacks)]
    /\ UNCHANGED <<builds, gameDirs, task, built, elsewhere, wanted, pendingPacks, removal,
                   disturbed, deletions, renames>>

\* A pack that is installed by now is launched instead.
AskPack(p) ==
    /\ p \in home.cards \ LocalPacks /\ home.asks = Nil /\ ~LauncherBusy
    /\ home' = [home EXCEPT !.asks = p]
    /\ UNCHANGED <<builds, gameDirs, task, built, elsewhere, wanted, pendingPacks, removal,
                   disturbed, deletions, renames>>

\* The build of a pack is named after it.
BuildStub(p) == [name |-> TitleOf[p], id |-> IdOf[TitleOf[p]]]

ConfirmPack ==
    LET p == home.asks
    IN  /\ p # Nil
        /\ home' = [home EXCEPT !.asks = Nil, !.cards = @ \ {p}]
        /\ IF LauncherBusy
           THEN /\ UnmarkPending(p)
                /\ UNCHANGED <<builds, gameDirs, task, built, elsewhere, removal, disturbed,
                               deletions, renames>>
           ELSE /\ Begin(BuildStub(p).name, BuildStub(p).id, p, Nil)
                /\ MarkPending(p)
        /\ UNCHANGED wanted

-----------------------------------------------------------------------------
\* The thread of the task.  It puts its files where its id says.

Works(step) == task.at = step
TaskGoesTo(step) == task' = [task EXCEPT !.at = step]
PagesStay == UNCHANGED <<built, elsewhere, wanted, pendingPacks, home, removal, disturbed,
                         deletions, renames>>
Installs == task.source = Nil
SourceExists == gameDirs[task.source] # NoDir
Puts(dir) == gameDirs' = [gameDirs EXCEPT ![task.id] = dir]

InstallBegins ==
    /\ Works("write") /\ Installs /\ TaskGoesTo("files")
    /\ Puts([build |-> built, whole |-> FALSE])
    /\ UNCHANGED builds /\ PagesStay

\* A directory that stands where the copy goes is removed first.
ClearDestination ==
    /\ Works("write") /\ ~Installs /\ SourceExists
    /\ TaskGoesTo("copy") /\ Puts(NoDir)
    /\ UNCHANGED builds /\ PagesStay

CopyBegins ==
    /\ Works("copy") /\ SourceExists
    /\ TaskGoesTo("files") /\ Puts([build |-> built, whole |-> FALSE])
    /\ UNCHANGED builds /\ PagesStay

\* The other half; a copy may miss what is deleted from its source meanwhile.
FilesComplete ==
    /\ Works("files") /\ TaskGoesTo("save")
    /\ Puts([build |-> built,
             whole |-> gameDirs[task.id].build = built
                       /\ (Installs \/ gameDirs[task.source].whole)])
    /\ UNCHANGED builds /\ PagesStay

\* The Version the page or the loader made of the name and what was chosen.
NewBuild == [name |-> task.name, build |-> built, pack |-> task.pack, renamed |-> FALSE]

\* The store's lock is taken while it deletes.
AddBuild ==
    /\ Works("save") /\ removal = NoRemoval /\ TaskGoesTo("end")
    /\ builds' = [builds EXCEPT ![task.id] = NewBuild]
    /\ UNCHANGED gameDirs /\ PagesStay

TaskFails ==
    /\ task.at \in {"write", "copy", "files", "save"} /\ TaskGoesTo("end")
    /\ UNCHANGED <<builds, gameDirs>> /\ PagesStay

\* The page takes the mark back and ends the operation.
EndTask ==
    /\ Works("end") /\ task' = NoTask /\ UnmarkPending(task.pack)
    /\ UNCHANGED <<builds, gameDirs, built, elsewhere, wanted, home, removal, disturbed,
                   deletions, renames>>

-----------------------------------------------------------------------------
\* Deleting needs no operation: the record first, then the files if asked.

DeleteBuild(i, files) ==
    /\ i \in ListedIds /\ removal = NoRemoval
    /\ deletions < MaxDeletions /\ deletions' = deletions + 1
    /\ builds' = [builds EXCEPT ![i] = Nil]
    /\ removal' = IF files THEN [id |-> i, files |-> TRUE] ELSE NoRemoval
    /\ UNCHANGED <<gameDirs, task, built, elsewhere, wanted, pendingPacks, home, disturbed,
                   renames>>

\* All of the directory, or what could be deleted before an error.
DeleteFiles ==
    /\ removal # NoRemoval /\ removal' = NoRemoval
    /\ \E left \in {NoDir, [gameDirs[removal.id] EXCEPT !.whole = FALSE]} :
           gameDirs' = [gameDirs EXCEPT ![removal.id] = left]
    /\ disturbed' = (disturbed \/ removal.id \in {task.id, task.source})
    /\ UNCHANGED <<builds, task, built, elsewhere, wanted, pendingPacks, home, deletions, renames>>

BuildsNext ==
    \/ \E n \in Typed, p \in Offers \cup {Nil} : CreateBuild(n, p)
    \/ \E s \in BuildIds, n \in Typed : CopyBuild(s, n)
    \/ \E n \in Typed : ImportBuild(n)
    \/ \E m \in Modpacks, n \in Typed : InstallModpack(m, n)
    \/ StartModpack
    \/ \E i \in BuildIds, n \in Typed : RenameBuild(i, n)
    \/ OtherOperation
    \/ OpenHome \/ LeaveHome \/ ListPacks \/ ConfirmPack
    \/ \E p \in Offers : AskPack(p)
    \/ InstallBegins \/ ClearDestination \/ CopyBegins \/ FilesComplete \/ AddBuild
    \/ TaskFails \/ EndTask
    \/ \E i \in BuildIds, files \in BOOLEAN : DeleteBuild(i, files)
    \/ DeleteFiles

BuildsSpec == BuildsInit /\ [][BuildsNext]_buildsVars

-----------------------------------------------------------------------------
\* The build under i is the same after a step, or is deleted.
StaysOrIsDeleted(i) ==
    \/ builds'[i] # Nil /\ builds'[i].build = builds[i].build
       /\ gameDirs'[i].build = gameDirs[i].build
    \/ removal.id = i
    \/ builds'[i] = Nil /\ deletions' > deletions

\* A build that keeps its id leaves the list, and loses its directory, only when
\* it is deleted: no creation, import or copy takes its place, the copy's rmtree
\* of its destination and the store's replacement of an equal id notwithstanding.
OtherBuildsAreKept ==
    [][\A i \in BuildIds : KeepsId(i) => StaysOrIsDeleted(i)]_buildsVars

\* The same of every build whose id is its own: the comparison of names, the
\* marks of packs and the busy launcher are then enough, whatever ids the other
\* builds share.
OwnBuildsAreKept ==
    [][\A i \in BuildIds : HasOwnId(i) => StaysOrIsDeleted(i)]_buildsVars

\* A pack is pending exactly while its installation is under way, and the home
\* page never offers one that is pending or already here: the answer of the
\* service may come after either changed, on a page that was left and reopened.
OffersAreNew ==
    /\ pendingPacks = {task.pack} \ {Nil}
    /\ home.cards \cap (pendingPacks \cup LocalPacks) = {}

\* What the list shows is there and complete: the directory is the build's own
\* and no half-made copy is listed, unless a deletion met the work under way or
\* a copy was begun of a build whose directory another has taken.
ListedIsWhole ==
    \A i \in ListedIds : HasOwnId(i) /\ ~disturbed =>
        gameDirs[i] = [build |-> builds[i].build, whole |-> TRUE]

\* The three together.
BuildsAreKept == OwnBuildsAreKept /\ [](OffersAreNew /\ ListedIsWhole)
=============================================================================
