------------------------- MODULE ComponentInstall -------------------------
(***************************************************************************)
(* The technical components under minecraft/versions: Minecraft itself and *)
(* the loaders built on it, installed by the loaders (core/loaders/base.py,*)
(* mod_loader.py, minecraft.py), managed by InstalledComponentsService and *)
(* checked before a launch (core/game.py).  Installers hold the shared     *)
(* root, so one runs at a time; the components page deletes without it.    *)
(* The libraries lie in one directory and are shared by all loaders; what  *)
(* is looked at before they are used again is that each exists.  Forge's   *)
(* installer is the library's own and is left out.                         *)
(***************************************************************************)
EXTENDS Naturals, FiniteSets

CONSTANTS
    Fabrics,         \* the versions of Fabric and Quilt
    NeoForges,       \* the versions of NeoForge
    Libraries,       \* the files of the shared libraries
    Needs,           \* the libraries the profile of each loader lists
    MaxAttempts,     \* attempts of a loader's installer
    MaxRemovals,     \* bound on the components the user deletes
    MaxInstalls      \* bound on the installations and launches

Loaders == Fabrics \cup NeoForges
Components == Loaders \cup {"minecraft"}
NoComponent == "none"

ASSUME ComponentAssumption ==
    /\ Fabrics \cap NeoForges = {} /\ {"minecraft", NoComponent} \cap Loaders = {}
    /\ Needs \in [Loaders -> SUBSET Libraries]
    /\ MaxAttempts \in Nat \ {0}
    /\ {MaxRemovals, MaxInstalls} \subseteq Nat

VARIABLES
    base,       \* Minecraft's own files: absent, part of them, or whole
    comp,       \* the files of each loader
    libs,       \* each library: absent, torn by a download cut short, or whole
    uses,       \* the component the saved profile names
    playing,    \* the component of the game that runs
    work,       \* the installation or launch under way
    bare,       \* the NeoForges with a new profile that no marker tells of yet
    removals, installs

componentVars ==
    <<base, comp, libs, uses, playing, work, bare, removals, installs>>

\* manifest: the profile JSON; patched: what NeoForge's installer adds to the
\* shared libraries for its version; then the two markers.
NoFiles == [manifest |-> "none", patched |-> FALSE,
            incomplete |-> FALSE, successful |-> FALSE]

Exists(l) == comp[l].manifest # "none" \/ comp[l].incomplete \/ comp[l].successful
HasLibraries(l) == \A x \in Needs[l] : libs[x] # "absent"
LibrariesWhole(l) == \A x \in Needs[l] : libs[x] = "whole"

\* A manifest is read with those it inherits from.
ManifestLoads(l) == comp[l].manifest = "good" /\ base # "absent"

\* A library is there when a file of its name is.  Those of the parent are
\* looked at too, of which a part may lack some.
LibrariesExist(l) ==
    IF ~(ManifestLoads(l) /\ HasLibraries(l)) THEN {FALSE}
    ELSE IF base = "whole" THEN {TRUE} ELSE BOOLEAN

\* fetching: the libraries being written; deleted: the target was meanwhile.
NoWork == [step |-> "idle", target |-> NoComponent, force |-> FALSE,
           for |-> "component", attempt |-> 1, fetching |-> {}, deleted |-> FALSE]

ComponentInit ==
    /\ base = "absent" /\ comp = [l \in Loaders |-> NoFiles]
    /\ libs = [x \in Libraries |-> "absent"]
    /\ uses = NoComponent /\ playing = NoComponent /\ work = NoWork
    /\ bare = {} /\ removals = 0 /\ installs = 0

At(step) == work.step = step
Go(step) == work' = [work EXCEPT !.step = step]
Same == UNCHANGED <<uses, playing, removals, installs>>
Disk == <<base, comp, libs, bare>>

\* The files of the component under work, which alone change.
Set(field, value) ==
    comp' = [comp EXCEPT ![work.target][field] = value] /\ UNCHANGED <<base, libs>>

(* ---- Beginning ---- *)

\* The components page, a change of the profile's component, and the
\* creation of a build, which alone does not force the check.
BeginInstall(l, for) ==
    /\ At("idle") /\ installs < MaxInstalls /\ playing = NoComponent
    /\ work' = [NoWork EXCEPT !.step = "base", !.target = l, !.for = for,
                            !.force = for # "build"]
    /\ installs' = installs + 1
    /\ UNCHANGED <<Disk, uses, playing, removals>>

BeginLaunch ==
    /\ At("idle") /\ installs < MaxInstalls /\ playing = NoComponent
    /\ uses # NoComponent
    /\ work' = [NoWork EXCEPT !.step = "verify", !.target = uses, !.for = "launch"]
    /\ installs' = installs + 1
    /\ UNCHANGED <<Disk, uses, playing, removals>>

(* ---- Minecraft's own files ---- *)

\* What follows Minecraft's files.
AfterBase ==
    CASE work.for = "launch" /\ ~work.force -> "ready"
      [] work.target = "minecraft" -> "done"
      [] OTHER -> "loader"

\* A directory that is there is enough unless the check is forced.
BaseNeeded ==
    /\ At("base")
    /\ IF base # "absent" /\ ~work.force
       THEN Go(AfterBase) /\ UNCHANGED base
       ELSE /\ Go("files")
            /\ base' = IF base = "absent" THEN "part" ELSE base
    /\ UNCHANGED <<comp, libs, bare>> /\ Same

BaseInstalled ==
    /\ At("files") /\ base' = "whole" /\ Go(AfterBase)
    /\ UNCHANGED <<comp, libs, bare>> /\ Same

(* ---- A loader ---- *)

Reusable_DespiteMarker(l) ==
    IF Exists(l) /\ ~work.force THEN LibrariesExist(l) ELSE {FALSE}

Reusable(l) ==
    IF Exists(l) /\ ~work.force /\ ~comp[l].incomplete
    THEN LibrariesExist(l) ELSE {FALSE}

LoaderNeeded ==
    /\ At("loader")
    /\ \E reuse \in Reusable(work.target) :
         Go(IF reuse THEN "done" ELSE "java")
    /\ UNCHANGED Disk /\ Same

\* The runtime Minecraft requires is found or installed.
RequireJava ==
    /\ At("java") /\ Go("fetch") /\ UNCHANGED Disk /\ Same

\* The installer is downloaded to a directory of its own and verified.
FetchInstaller ==
    /\ At("fetch")
    /\ Go(IF work.target \in NeoForges THEN "profile" ELSE "installer")
    /\ UNCHANGED Disk /\ Same

\* NeoForge: its profile, the marker, the libraries and files of the profile,
\* the installer, the marker of success.  Until the marker is set nothing
\* tells that what belongs to a profile new in its place is not there yet.
PrepareProfile ==
    /\ At("profile") /\ Set("manifest", "good") /\ Go("mark")
    /\ bare' = IF comp[work.target].manifest = "good" THEN bare
               ELSE bare \cup {work.target}
    /\ Same
MarkIncomplete ==
    /\ At("mark") /\ Set("incomplete", TRUE) /\ Go("unmark")
    /\ bare' = bare \ {work.target} /\ Same
DropSuccessful ==
    /\ At("unmark") /\ Set("successful", FALSE) /\ Go("libraries")
    /\ UNCHANGED bare /\ Same
RunNeoForge ==
    /\ At("installer") /\ work.target \in NeoForges
    /\ comp[work.target].manifest = "good"
    /\ Set("patched", TRUE) /\ Go("succeed")
    /\ UNCHANGED bare /\ Same
MarkSuccessful ==
    /\ At("succeed") /\ Set("successful", TRUE) /\ Go("clear")
    /\ UNCHANGED bare /\ Same
DropIncomplete ==
    /\ At("clear") /\ Set("incomplete", FALSE) /\ Go("done")
    /\ UNCHANGED bare /\ Same

\* Fabric and Quilt: the installer, or Python where Java trusts no
\* certificate, writes the profile; the libraries follow.
RunFabric ==
    /\ At("installer") /\ work.target \in Fabrics
    /\ Set("manifest", "bad") /\ Go("installing")
    /\ UNCHANGED bare /\ Same
FabricWrites ==
    /\ At("installing") /\ Set("manifest", "good") /\ Go("libraries")
    /\ UNCHANGED bare /\ Same

\* Several libraries are written at a time, each straight to its place; one
\* that is whole is kept.
BeginLibrary(x) ==
    /\ At("libraries") /\ x \in Needs[work.target] \ work.fetching
    /\ libs[x] # "whole" /\ libs' = [libs EXCEPT ![x] = "torn"]
    /\ work' = [work EXCEPT !.fetching = @ \cup {x}]
    /\ UNCHANGED <<base, comp, bare>> /\ Same
EndLibrary(x) ==
    /\ At("libraries") /\ x \in work.fetching
    /\ libs' = [libs EXCEPT ![x] = "whole"]
    /\ work' = [work EXCEPT !.fetching = @ \ {x}]
    /\ UNCHANGED <<base, comp, bare>> /\ Same

\* NeoForge lists a hash for each library; a profile of Fabric or Quilt may
\* list none, and then any file that is there will do.  What the profile
\* inherits from Minecraft may be completed on the way.
LibrariesDone ==
    /\ At("libraries") /\ work.fetching = {}
    /\ comp[work.target].manifest = "good"
    /\ IF work.target \in NeoForges THEN LibrariesWhole(work.target) /\ Go("installer")
                                    ELSE HasLibraries(work.target) /\ Go("done")
    /\ base' \in {base, "whole"} /\ UNCHANGED <<comp, libs, bare>> /\ Same

LoaderSteps ==
    {"fetch", "profile", "mark", "unmark", "libraries", "installer", "succeed", "clear",
     "installing"}

\* An error of the network or of a process of the installer; the runtime of
\* Java may be repaired with it.
MayRetry == work.step \in LoaderSteps /\ work.attempt < MaxAttempts

\* Minecraft's files are refreshed before the next attempt; that this fails
\* is only logged.
RetryInstaller ==
    /\ MayRetry /\ base' \in {base, "whole"}
    /\ work' = [work EXCEPT !.attempt = @ + 1, !.step = "fetch", !.fetching = {}]
    /\ UNCHANGED <<comp, libs, bare>> /\ Same

InstallFails ==
    /\ work.step \in LoaderSteps \cup {"files", "loader", "java"}
    /\ work' = NoWork /\ UNCHANGED Disk /\ Same

(* ---- What the installation was for ---- *)

\* The directory holds a manifest that names the component itself.
Found(l) ==
    IF l = "minecraft" THEN base # "absent" ELSE comp[l].manifest = "good"

\* The service looks the component up again; a profile that cannot be saved
\* is restored.
InstallEnds ==
    /\ At("done") /\ work.for # "launch"
    /\ uses' \in (IF work.for = "build" \/ (work.for = "profile" /\ Found(work.target))
                  THEN {uses, work.target} ELSE {uses})
    /\ work' = NoWork /\ UNCHANGED <<Disk, playing, removals, installs>>

\* A launch looks at Minecraft's files first and asks for them.
VerifyBase ==
    /\ At("verify") /\ Go(IF base = "whole" THEN "ready" ELSE "base")
    /\ UNCHANGED Disk /\ Same

ReadyForLaunch(l) ==
    IF l = "minecraft" THEN {base # "absent"}
    ELSE IF comp[l].incomplete /\ ~comp[l].successful THEN {FALSE}
    ELSE LibrariesExist(l)

\* A loader that is not ready is installed again, with the check forced.
VerifyLoader ==
    /\ At("ready")
    /\ \E ready \in ReadyForLaunch(work.target) :
         work' = IF ready THEN [work EXCEPT !.step = "start"]
                 ELSE [work EXCEPT !.step = "base", !.force = TRUE]
    /\ UNCHANGED Disk /\ Same

\* What was restored is looked at once more.
VerifyAgain ==
    /\ At("done") /\ work.for = "launch"
    /\ \E ready \in ReadyForLaunch(work.target) :
         IF ready THEN Go("start") ELSE work' = NoWork
    /\ UNCHANGED Disk /\ Same

StartGame ==
    /\ At("start") /\ playing' = work.target /\ work' = NoWork
    /\ UNCHANGED <<Disk, uses, removals, installs>>
GameEnds ==
    /\ playing # NoComponent /\ playing' = NoComponent
    /\ UNCHANGED <<Disk, uses, work, removals, installs>>

(* ---- The user and the machine ---- *)

\* The page deletes the directory of a component, its markers with it, at any
\* time; the shared libraries stay.
DeleteComponent(l) ==
    /\ removals < MaxRemovals /\ removals' = removals + 1
    /\ Found(l)
    /\ IF l = "minecraft" THEN base' = "absent" /\ UNCHANGED comp
       ELSE /\ comp' = [comp EXCEPT ![l] = [NoFiles EXCEPT !.patched = comp[l].patched]]
            /\ UNCHANGED base
    /\ work' = IF work.target = l THEN [work EXCEPT !.deleted = TRUE] ELSE work
    /\ UNCHANGED <<libs, bare, uses, playing, installs>>

InstallerDies ==
    /\ work # NoWork /\ work' = NoWork
    /\ UNCHANGED <<Disk, uses, playing, removals, installs>>

ComponentNext ==
    \/ \E l \in Components, for \in {"component", "profile", "build"} : BeginInstall(l, for)
    \/ BeginLaunch \/ BaseNeeded \/ BaseInstalled \/ LoaderNeeded
    \/ RequireJava \/ FetchInstaller \/ PrepareProfile \/ MarkIncomplete \/ DropSuccessful
    \/ RunNeoForge \/ MarkSuccessful \/ DropIncomplete
    \/ RunFabric \/ FabricWrites \/ LibrariesDone
    \/ \E x \in Libraries : BeginLibrary(x) \/ EndLibrary(x)
    \/ RetryInstaller \/ InstallFails \/ InstallEnds
    \/ VerifyBase \/ VerifyLoader \/ VerifyAgain \/ StartGame \/ GameEnds
    \/ \E l \in Components : DeleteComponent(l)
    \/ InstallerDies

ComponentSpec == ComponentInit /\ [][ComponentNext]_componentVars

(* ---- Properties ---- *)

\* Every variable has its type.
ComponentTypeOK ==
    /\ base \in {"absent", "part", "whole"}
    /\ comp \in [Loaders -> [manifest : {"none", "bad", "good"}, patched : BOOLEAN,
                             incomplete : BOOLEAN, successful : BOOLEAN]]
    /\ libs \in [Libraries -> {"absent", "torn", "whole"}]
    /\ {uses, playing} \subseteq Components \cup {NoComponent}
    /\ bare \subseteq NeoForges

\* All that the profile names is there, and for NeoForge, whose markers vouch
\* for it, each library in one piece and the files its installer makes.
InPlace(l) == comp[l].manifest = "good" /\ HasLibraries(l)
WhollyThere(l) == LibrariesWhole(l) /\ comp[l].patched

\* Installers die between any two steps, in the middle of a library, and are
\* started again, forced or not, for the page, for a profile or by a launch;
\* still a profile is moved only to a loader that is in its place, and only
\* such a loader is started, a NeoForge only when it is wholly there -- unless
\* the page deletes it meanwhile, or its installation ended between the
\* profile and the marker: the libraries of other versions then let it pass.
\* Fabric has no marker: one of its libraries that was cut short passes too.
ComponentsAreReady ==
    [][\A l \in Loaders :
         (uses' = l /\ uses # l) \/ (playing' = l /\ playing # l) =>
            \/ work.deleted
            \/ InPlace(l)' /\ (l \in NeoForges \ bare' => WhollyThere(l)')]_componentVars

\* "Base Minecraft version is incomplete; minecraft-launcher-lib will repair
\* it" (core/game.py:267): what a launch starts stands on whole files.
BaseIsRepaired ==
    [][playing' # playing /\ playing' # NoComponent => base = "whole"]_componentVars
=============================================================================
