---------------------------- MODULE PackInstall ----------------------------
(***************************************************************************)
(* The installation of a Modrinth or CurseForge pack into an instance      *)
(* (core/loaders/modrinth.py, core/loaders/curseforge.py with              *)
(* application/modrinth_pack.py and curseforge_install.py): its files go   *)
(* through one file transaction whose commit saves the profile.  The       *)
(* journal's own steps are FileSyncJournal's; here they are as coarse as   *)
(* the two loaders see them.  The lease of the instance makes              *)
(* installations follow each other; the launcher may die between any two   *)
(* steps.  Every pack has one file of its own and one that all share; a    *)
(* CurseForge pack without any file, which saves its profile outside a     *)
(* transaction, is left out.                                               *)
(***************************************************************************)
EXTENDS Naturals, FiniteSets

CONSTANTS
    Packs,          \* the releases that can be installed
    Unpacked,       \* the instance before any
    PackRuns,       \* bound on the installations
    PackFaults,     \* bound on the errors the machine or the network causes
    PackDeaths      \* bound on the deaths of the launcher

ASSUME PackAssumption ==
    /\ Packs # {} /\ Unpacked \notin Packs
    /\ {PackRuns, PackFaults, PackDeaths} \subseteq Nat

VARIABLES
    source,     \* the loader: modrinth or curseforge
    content,    \* whose shared file is in place, whose own files, and the
                \* pack whose files the list of managed files names
    runtimes,   \* the packs whose Minecraft and mod loader are installed
    saved,      \* the pack the saved profile names
    entity,     \* the pack the Version object names
    journal,    \* the transaction on the disk and what it replaces
    install,    \* the installation under way
    late,       \* a failure after the profile was saved could not undo it
    stranded,   \* packs whose own file came back behind the list that was read
    runs, faults, fatalities

packVars == <<source, content, runtimes, saved, entity, journal, install, late,
              stranded, runs, faults, fatalities>>

Settled == [status |-> "settled", key |-> Unpacked,
            before |-> [shared |-> Unpacked, own |-> {}, list |-> Unpacked]]
NoInstall == [at |-> "idle", pack |-> Unpacked, snapshot |-> Unpacked,
              flaw |-> "none", stale |-> {}, profileSaved |-> FALSE, resumed |-> FALSE]

PackInit ==
    /\ source \in {"modrinth", "curseforge"}
    /\ content = Settled.before /\ runtimes = {}
    /\ saved = Unpacked /\ entity = Unpacked
    /\ journal = Settled /\ install = NoInstall
    /\ late = FALSE /\ stranded = {} /\ runs = 0 /\ faults = 0 /\ fatalities = 0

InstallAt(step) == install.at = step
GoOn(step) == install' = [install EXCEPT !.at = step]
Quiet == UNCHANGED <<source, late, stranded, runs, faults, fatalities>>

\* What may be wrong with a release: its archive or manifest, a path in it
\* that leaves the instance, passes a link or is named twice, a file that is
\* not what was announced.
Flaws == {"none", "archive", "path", "bytes"}

\* It remembers the Version as it is, to give it back.
NewInstall(p, flaw) ==
    [NoInstall EXCEPT !.at = "archive", !.pack = p, !.flaw = flaw, !.snapshot = entity]

BeginPack(p, flaw) ==
    /\ InstallAt("idle") /\ runs < PackRuns /\ runs' = runs + 1
    /\ install' = NewInstall(p, flaw)
    /\ UNCHANGED <<source, content, runtimes, saved, entity, journal, late,
                   stranded, faults, fatalities>>

Right(flaw) == install.flaw # flaw

\* Every path stays inside the instance, through no link, and is named once.
PathsAreSafe == Right("path")
Prepare(step) ==
    GoOn(step) /\ UNCHANGED <<content, runtimes, saved, entity, journal>> /\ Quiet

\* The archive of a Modrinth pack is downloaded, verified and its index read.
FetchArchive ==
    /\ InstallAt("archive") /\ source = "modrinth" /\ Right("archive")
    /\ Prepare("plan")

\* The manifest of a CurseForge pack is a file the user chose.
LoadManifest ==
    /\ InstallAt("archive") /\ source = "curseforge" /\ Right("archive")
    /\ Prepare("runtime")

\* CurseForge installs the loader before its files, Modrinth between the
\* staging and the activation of them.
InstallRuntime ==
    /\ InstallAt("runtime")
    /\ runtimes' = runtimes \cup {install.pack}
    /\ GoOn(IF source = "modrinth" THEN "activate" ELSE "plan")
    /\ UNCHANGED <<content, saved, entity, journal>> /\ Quiet

\* Every override, every remote file with its size and hash, and every
\* destination is looked at before the transaction begins.
PreflightOverrides ==
    /\ InstallAt("plan") /\ source = "modrinth" /\ PathsAreSafe /\ Prepare("tasks")
BuildDownloads ==
    /\ InstallAt("tasks") /\ Prepare("managed")

\* What the managed list names and the new pack does not bring is to go; that
\* is decided here, before the transaction settles what an earlier one left.
\* CurseForge keeps no record of what it installed.
StaleFiles == {content.list} \ {Unpacked, install.pack}
ReadManagedList ==
    /\ InstallAt("managed")
    /\ install' = [install EXCEPT !.at = "begin", !.stale = StaleFiles]
    /\ UNCHANGED <<content, runtimes, saved, entity, journal>> /\ Quiet

PlanCurseForge ==
    /\ InstallAt("plan") /\ source = "curseforge" /\ PathsAreSafe /\ Prepare("overrides")
PlanOverrides ==
    /\ InstallAt("overrides") /\ Prepare("begin")

CommitKey_Constant(p) == Unpacked
CommitKey(p) == p

\* What an earlier transaction left is settled first: its files are put back,
\* or the commit it was in is finished by the same installation and refused
\* to any other.
RollBackEarlier ==
    /\ InstallAt("begin") /\ journal.status \in {"staging", "applying"}
    /\ content' = journal.before /\ journal' = Settled
    /\ stranded' = stranded \cup (journal.before.own \ (install.stale \cup {install.pack}))
    /\ UNCHANGED <<source, runtimes, saved, entity, install, late, runs, faults, fatalities>>
ResumeCommit ==
    /\ InstallAt("begin") /\ journal.status = "committing"
    /\ journal.key = CommitKey(install.pack)
    /\ saved' = install.pack /\ entity' = install.pack /\ journal' = Settled
    /\ install' = [install EXCEPT !.profileSaved = TRUE, !.resumed = TRUE]
    /\ stranded' = stranded \ {install.pack}
    /\ UNCHANGED <<source, content, runtimes, late, runs, faults, fatalities>>

BeginFiles ==
    /\ InstallAt("begin") /\ journal.status = "settled"
    /\ journal' = [status |-> "staging", key |-> CommitKey(install.pack),
                   before |-> content]
    /\ GoOn("stage")
    /\ UNCHANGED <<content, runtimes, saved, entity>> /\ Quiet

\* Everything goes to the stage and is verified there: Modrinth extracts the
\* overrides, downloads the files and writes the list of what it manages.
ExtractModrinth ==
    /\ InstallAt("stage") /\ source = "modrinth" /\ Prepare("download")
DownloadModrinth ==
    /\ InstallAt("download") /\ source = "modrinth" /\ Right("bytes") /\ Prepare("list")
WriteManagedList ==
    /\ InstallAt("list") /\ Prepare("check")

\* CurseForge downloads first and stops there when a file failed.
DownloadCurseForge ==
    /\ InstallAt("stage") /\ source = "curseforge" /\ Prepare("verify")
VerifyCurseForge ==
    /\ InstallAt("verify") /\ Right("bytes") /\ Prepare("extract")
ExtractCurseForge ==
    /\ InstallAt("extract") /\ Prepare("check")

\* No destination has become a link meanwhile.
CheckDestinations ==
    /\ InstallAt("check")
    /\ Prepare(IF source = "modrinth" THEN "runtime" ELSE "activate")

ActivateShared ==
    /\ InstallAt("activate")
    /\ journal' = [journal EXCEPT !.status = "applying"]
    /\ content' = [content EXCEPT !.shared = install.pack]
    /\ GoOn("activate own") /\ UNCHANGED <<runtimes, saved, entity>> /\ Quiet
ActivateOwn ==
    /\ InstallAt("activate own")
    /\ content' = [content EXCEPT !.own = @ \cup {install.pack}]
    /\ GoOn(IF source = "modrinth" THEN "activate list" ELSE "mark")
    /\ UNCHANGED <<runtimes, saved, entity, journal>> /\ Quiet
ActivateList ==
    /\ InstallAt("activate list")
    /\ content' = [content EXCEPT !.list = install.pack]
    /\ GoOn("drop stale") /\ UNCHANGED <<runtimes, saved, entity, journal>> /\ Quiet
DropStale ==
    /\ InstallAt("drop stale")
    /\ content' = [content EXCEPT !.own = @ \ install.stale]
    /\ GoOn("mark") /\ UNCHANGED <<runtimes, saved, entity, journal>> /\ Quiet

MarkCommitting ==
    /\ InstallAt("mark")
    /\ journal' = [journal EXCEPT !.status = "committing"]
    /\ GoOn("commit") /\ UNCHANGED <<content, runtimes, saved, entity>> /\ Quiet

\* The profile names the pack in memory, then on the disk.
CommitModrinth ==
    /\ InstallAt("commit") /\ source = "modrinth" /\ entity' = install.pack
    /\ GoOn("save") /\ UNCHANGED <<content, runtimes, saved, journal>> /\ Quiet
CommitCurseForge ==
    /\ InstallAt("commit") /\ source = "curseforge" /\ entity' = install.pack
    /\ GoOn("save") /\ UNCHANGED <<content, runtimes, saved, journal>> /\ Quiet
SaveProfile ==
    /\ InstallAt("save") /\ saved' = entity
    /\ install' = [install EXCEPT !.at = "complete", !.profileSaved = TRUE]
    /\ UNCHANGED <<content, runtimes, entity, journal>> /\ Quiet

CompletePack ==
    /\ InstallAt("complete") /\ journal' = Settled /\ GoOn("callback")
    /\ stranded' = stranded \ {install.pack}
    /\ UNCHANGED <<source, content, runtimes, saved, entity, late, runs, faults, fatalities>>

PackInstalled ==
    /\ InstallAt("callback") /\ install' = NoInstall
    /\ UNCHANGED <<content, runtimes, saved, entity, journal>> /\ Quiet

(* ---- Failures ---- *)

Transacting == install.at \in {"stage", "download", "list", "verify", "extract",
                               "check", "activate", "activate own",
                               "activate list", "drop stale",
                               "mark", "commit", "save", "complete"}
                  \/ (InstallAt("runtime") /\ journal.status = "staging")

\* The transaction puts the files back; when even that fails its journal
\* says so and the next transaction does it.
PutBack ==
    IF ~Transacting THEN UNCHANGED <<content, journal>> /\ faults' = faults + 1
    ELSE \/ content' = journal.before /\ journal' = Settled /\ faults' = faults + 1
         \/ /\ faults + 1 < PackFaults /\ faults' = faults + 2
            /\ journal' = [journal EXCEPT !.status = "applying"] /\ UNCHANGED content

\* Any step may fail.
PackFails ==
    /\ install.at \notin {"idle", "undo"} /\ faults < PackFaults
    /\ PutBack
    /\ IF source = "modrinth" /\ InstallAt("callback")
       THEN install' = NoInstall ELSE GoOn("undo")
    /\ UNCHANGED <<source, runtimes, saved, entity, late, stranded, runs, fatalities>>

\* A flaw is met, or the commit of another pack was interrupted: nothing was
\* activated.
RefusePack ==
    /\ \/ InstallAt("archive") /\ ~Right("archive")
       \/ InstallAt("plan") /\ ~PathsAreSafe
       \/ install.at \in {"download", "verify"} /\ ~Right("bytes")
       \/ InstallAt("begin") /\ journal.status = "committing"
                             /\ journal.key # CommitKey(install.pack)
    /\ journal' = IF install.at \in {"download", "verify"} THEN Settled ELSE journal
    /\ GoOn("undo") /\ UNCHANGED <<content, runtimes, saved, entity>> /\ Quiet

\* Both loaders restore the Version object; Modrinth saves it again when the
\* commit had saved it.
UndoProfile ==
    /\ InstallAt("undo") /\ entity' = install.snapshot /\ install' = NoInstall
    /\ \/ /\ saved' = IF source = "modrinth" /\ install.profileSaved
                      THEN install.snapshot ELSE saved
          /\ late' = (late \/ install.resumed
                           \/ (source = "curseforge" /\ install.profileSaved))
          /\ UNCHANGED faults
       \/ /\ source = "modrinth" /\ install.profileSaved
          /\ faults < PackFaults /\ faults' = faults + 1
          /\ late' = TRUE /\ UNCHANGED saved
    /\ UNCHANGED <<source, content, runtimes, journal, stranded, runs, fatalities>>

\* The launcher dies: the disk stays, the next life reads the profile.
LauncherFalls ==
    /\ install.at # "idle" /\ fatalities < PackDeaths
    /\ fatalities' = fatalities + 1
    /\ entity' = saved /\ install' = NoInstall
    /\ late' = (late \/ (InstallAt("undo") /\ install.profileSaved))
    /\ UNCHANGED <<source, content, runtimes, saved, journal, stranded, runs, faults>>

PackNext ==
    \/ \E p \in Packs, flaw \in Flaws : BeginPack(p, flaw)
    \/ FetchArchive \/ LoadManifest \/ InstallRuntime
    \/ PreflightOverrides \/ BuildDownloads \/ ReadManagedList \/ PlanCurseForge \/ PlanOverrides
    \/ RollBackEarlier \/ ResumeCommit \/ BeginFiles
    \/ ExtractModrinth \/ DownloadModrinth \/ WriteManagedList
    \/ DownloadCurseForge \/ VerifyCurseForge \/ ExtractCurseForge \/ CheckDestinations
    \/ ActivateShared \/ ActivateOwn \/ ActivateList \/ DropStale \/ MarkCommitting
    \/ CommitModrinth \/ CommitCurseForge \/ SaveProfile \/ CompletePack \/ PackInstalled
    \/ PackFails \/ RefusePack \/ UndoProfile \/ LauncherFalls

PackSpec == PackInit /\ [][PackNext]_packVars

(* ---- Properties ---- *)

\* Every variable has its type.
PackTypeOK ==
    /\ source \in {"modrinth", "curseforge"}
    /\ content \in [shared : Packs \cup {Unpacked}, own : SUBSET Packs, list : Packs \cup {Unpacked}]
    /\ runtimes \subseteq Packs /\ {saved, entity} \subseteq Packs \cup {Unpacked}
    /\ journal.status \in {"settled", "staging", "applying", "committing"}
    /\ install.pack \in Packs \cup {Unpacked} /\ install.stale \subseteq Packs
    /\ late \in BOOLEAN /\ stranded \subseteq Packs

\* Through errors of any step, errors of the rollback itself and deaths of
\* the launcher: when no transaction is open the instance holds the files of
\* one pack -- a CurseForge pack beside leftovers of earlier ones, a Modrinth
\* pack beside a file that the undo of an interrupted installation brought
\* back after the next had read the list of what to remove -- the list names
\* that pack, and the saved profile and the Version object do, unless a profile
\* already saved could not be undone: by CurseForge never, by Modrinth when it
\* is interrupted again or had first resumed the commit of an earlier life.
\* And a profile never names a pack whose loader was not installed, nor is
\* anything of a flawed release ever put in place.
PackIsWhole ==
    /\ journal.status = "settled" =>
         /\ source = "modrinth" => /\ content.list = content.shared
                                   /\ content.own \subseteq {content.shared} \cup stranded
         /\ content.shared \in content.own \cup {Unpacked}
         /\ saved = content.shared \/ late \/ InstallAt("undo")
    /\ InstallAt("idle") => entity = saved \/ late
    /\ {saved, entity} \subseteq runtimes \cup {Unpacked}
    /\ Transacting /\ content # journal.before => install.flaw = "none"
============================================================================
