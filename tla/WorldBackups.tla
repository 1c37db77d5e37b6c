----------------------------- MODULE WorldBackups -----------------------------
(***************************************************************************)
(* The backups of the worlds of one game directory: WorldBackupService of  *)
(* application/world_backups.py without restore_backup, whose steps are in *)
(* WorldRestore, and the page that lists, creates and deletes backups.     *)
(*                                                                         *)
(* A world is known by the time of its level.dat, 0 if it is not there; a  *)
(* backup holds the world as it was at such a time.  A backup is the zip   *)
(* file, listed once its metadata is beside it.  The lease and the check   *)
(* for a running game (InstanceLease, LaunchSession) keep the game and a   *)
(* restore out while a backup is made; the page deletes without a lease.   *)
(***************************************************************************)
EXTENDS Integers, FiniteSets, FiniteSetsExt

CONSTANTS Worlds, Folders,
          FolderOf,    \* the directory that _safe_name gives to each world
          MaxKeep,     \* bound on the number of automatic backups to keep
          MaxSaves,    \* bound on the changes of the worlds
          MaxBackups,  \* bound on the backups made
          MaxStops     \* bound on the deaths of the launcher

ASSUME BackupsAssumption ==
    /\ Worlds \subseteq Nat    \* in the order of their names
    /\ FolderOf \in [Worlds -> Folders]
    /\ {MaxKeep, MaxSaves, MaxBackups, MaxStops} \subseteq Nat /\ MaxKeep > 0

VARIABLES
    level,     \* disk: the time of each level.dat
    archives,  \* disk: the zip files, and whether their metadata is there
    keep,      \* the setting world_backups_keep_count, the same throughout
    job,       \* the running creation of backups
    rows,      \* the backups the page shows, and the world it shows them of
    saves, made, stops

backupVars == <<level, archives, keep, job, rows, saves, made, stops>>

Kinds == {"auto", "manual"}
Archive == [nr : 1..MaxBackups, folder : Folders, world : Worlds, kind : Kinds,
            stamp : 0..MaxSaves, listed : BOOLEAN]
NoJob == [step |-> "idle", kind |-> "manual", left |-> {}, failed |-> {},
           doomed |-> {}, disturbed |-> FALSE]
NoRows == [of |-> {}, shown |-> {}]

BackupsTypeOK ==
    /\ level \in [Worlds -> 0..MaxSaves]
    /\ archives \subseteq Archive
    /\ keep \in 1..MaxKeep
    /\ job.step \in {"idle", "next", "zip", "describe", "scan", "prune"} /\ job.kind \in Kinds
    /\ job.left \cup job.failed \cup rows.of \subseteq Worlds
    /\ job.doomed \cup rows.shown \subseteq Archive
    /\ saves \in 0..MaxSaves /\ made \in 0..MaxBackups /\ stops \in 0..MaxStops

BackupsInit ==
    /\ level = [w \in Worlds |-> 0]
    /\ archives = {}
    /\ keep \in 1..MaxKeep
    /\ job = NoJob
    /\ rows = NoRows
    /\ saves = 0 /\ made = 0 /\ stops = 0

-----------------------------------------------------------------------------
\* scan_backups of a world, newest first in the code: a greater number is newer.
Listed(w) == {a \in archives : a.folder = FolderOf[w] /\ a.listed}
AutoOf(w) == {a \in Listed(w) : a.kind = "auto"}
Latest(set) == CHOOSE a \in set : \A b \in set : b.nr <= a.nr
Newer(a, set) == {b \in set : b.nr > a.nr}

NeedsAutoBackup_AnyKind(w) ==
    Listed(w) = {} \/ Latest(Listed(w)).stamp < level[w]

\* _rebuild_world_backups, of a world that is there, after disk changed.
RowsOf(w, disk) ==
    [of |-> {w}, shown |-> {a \in disk : a.folder = FolderOf[w] /\ a.listed}]

\* _needs_auto_backup
NeedsAutoBackup(w) == AutoOf(w) = {} \/ Latest(AutoOf(w)).stamp < level[w]

\* The world whose turn it is; scan_worlds sorts them by name.
Current == Min(job.left)
Goto(step) == job' = [job EXCEPT !.step = step]
Done(failed) == job' = [job EXCEPT !.step = "next", !.left = @ \ {Current},
                                   !.failed = @ \cup failed, !.doomed = {}]

\* auto_backup_changed_worlds, under the lease of a launch.
BeginAuto ==
    /\ job = NoJob
    /\ job' = [NoJob EXCEPT !.step = "next", !.kind = "auto",
                             !.left = {w \in Worlds : level[w] # 0}]
    /\ UNCHANGED <<level, archives, keep, rows, saves, made, stops>>

\* create_backup, asked for on the page of the world.
BeginManual(w) ==
    /\ job = NoJob
    /\ rows.of = {w}
    /\ job' = [NoJob EXCEPT !.step = "zip", !.left = {w}]
    /\ UNCHANGED <<level, archives, keep, rows, saves, made, stops>>

NextWorld ==
    /\ job.step = "next" /\ job.left # {}
    /\ IF NeedsAutoBackup(Current) THEN Goto("zip") ELSE Done({})
    /\ UNCHANGED <<level, archives, keep, rows, saves, made, stops>>

EndOfWork ==
    /\ job.step = "next" /\ job.left = {}
    /\ job' = NoJob
    /\ UNCHANGED <<level, archives, keep, rows, saves, made, stops>>

\* The archive is written under a temporary name and moved; there may be no
\* world, no space, or an error of the disk, which leaves nothing.
CreateZip ==
    /\ job.step = "zip"
    /\ \/ /\ level[Current] # 0 /\ made < MaxBackups
          /\ made' = made + 1
          /\ archives' = archives \cup {[nr |-> made + 1, folder |-> FolderOf[Current],
                world |-> Current, kind |-> job.kind, stamp |-> level[Current],
                listed |-> FALSE]}
          /\ Goto("describe")
       \/ Done({Current}) /\ UNCHANGED <<archives, made>>
    /\ UNCHANGED <<level, keep, rows, saves, stops>>

Unlisted(a) == ~a.listed /\ a.nr = made

\* The automatic backups beyond the newest keep_count() ones.
Prunable(w) == {a \in AutoOf(w) : Cardinality(Newer(a, AutoOf(w))) >= keep}

\* The metadata beside the archive is what puts it in the list.
WithMetadata(a) == [a EXCEPT !.listed = TRUE]

\* The metadata is written, or an error takes the archive back.
DescribeBackup ==
    /\ job.step = "describe"
    /\ \E a \in archives :
          /\ Unlisted(a)
          /\ \/ /\ archives' = (archives \ {a}) \cup {WithMetadata(a)}
                /\ \/ job.kind = "auto" /\ Goto("scan") /\ UNCHANGED rows
                   \/ /\ job.kind = "manual" /\ job' = NoJob
                      /\ rows' = RowsOf(Current, archives')
             \/ archives' = archives \ {a} /\ Done({Current}) /\ UNCHANGED rows
    /\ UNCHANGED <<level, keep, saves, made, stops>>

\* _prune_auto_backups decides ...
ScanForPruning ==
    /\ job.step = "scan"
    /\ job' = [job EXCEPT !.step = "prune", !.doomed = Prunable(Current)]
    /\ UNCHANGED <<level, archives, keep, rows, saves, made, stops>>

\* ... and deletes, until a file cannot be removed.
Prune ==
    /\ job.step = "prune"
    /\ \/ /\ job.doomed = {} /\ Done({}) /\ UNCHANGED archives
       \/ /\ job.doomed # {} /\ Done({Current}) /\ UNCHANGED archives
       \/ \E a \in job.doomed :
             /\ Newer(a, job.doomed) = {}
             /\ archives' = archives \ {a}
             /\ job' = [job EXCEPT !.doomed = @ \ {a}]
    /\ UNCHANGED <<level, keep, rows, saves, made, stops>>

\* The launcher dies: an archive without metadata is in nobody's list.
LauncherStops ==
    /\ job # NoJob /\ stops < MaxStops
    /\ stops' = stops + 1
    /\ job' = NoJob
    /\ rows' = NoRows
    /\ UNCHANGED <<level, archives, keep, saves, made>>

-----------------------------------------------------------------------------
\* A session of the game saves a world.
SaveWorld(w) ==
    /\ job = NoJob
    /\ saves < MaxSaves
    /\ saves' = saves + 1
    /\ level' = [level EXCEPT ![w] = saves + 1]
    /\ UNCHANGED <<archives, keep, job, rows, made, stops>>

DeleteWorld(w) ==
    /\ job = NoJob
    /\ level[w] # 0
    /\ level' = [level EXCEPT ![w] = 0]
    /\ UNCHANGED <<archives, keep, job, rows, saves, made, stops>>

\* The page shows the backups of a world as they are on the disk now.
ShowBackups(w) ==
    /\ level[w] # 0
    /\ rows' = RowsOf(w, archives)
    /\ UNCHANGED <<level, archives, keep, job, saves, made, stops>>

\* delete_backup of a row, which may be gone from the disk since.
DeleteBackup(a) ==
    /\ archives' = archives \ {a}
    /\ rows' = RowsOf(CHOOSE w \in rows.of : TRUE, archives')
    /\ job' = [job EXCEPT !.disturbed = job # NoJob]
    /\ UNCHANGED <<level, keep, saves, made, stops>>

\* restore_backup of a row, refused for the backup of another world: the
\* extracted level.dat is of that time, too.
RestoreRow(a) ==
    /\ job = NoJob
    /\ {a.world} = rows.of /\ a \in archives
    /\ saves < MaxSaves
    /\ saves' = saves + 1
    /\ level' = [level EXCEPT ![a.world] = saves + 1]
    /\ rows' = RowsOf(a.world, archives)
    /\ UNCHANGED <<archives, keep, job, made, stops>>

\* The two buttons of a row.
UseRow == \E a \in rows.shown : DeleteBackup(a) \/ RestoreRow(a)

BackupsNext ==
    \/ BeginAuto \/ NextWorld \/ EndOfWork \/ CreateZip \/ DescribeBackup
    \/ ScanForPruning \/ Prune \/ LauncherStops
    \/ \E w \in Worlds : BeginManual(w) \/ SaveWorld(w) \/ DeleteWorld(w) \/ ShowBackups(w)
    \/ UseRow

BackupsSpec == BackupsInit /\ [][BackupsNext]_backupVars

-----------------------------------------------------------------------------
\* Only the user, in the list of the page, removes a manual backup
\* (_prune_auto_backups).
ManualBackupsStay ==
    [][\A a \in archives \ archives' :
          a.kind = "manual" /\ a.listed => a \in rows.shown \ rows'.shown]_backupVars

\* Nothing makes the directories of two worlds differ (_safe_name); a world may
\* have its own all the same.
Alone(w) == \A v \in Worlds : FolderOf[v] = FolderOf[w] => v = w

\* The automatic backups newer than one, in its directory.
NewerThere(a) == {b \in Newer(a, archives) : b.folder = a.folder /\ b.kind = "auto" /\ b.listed}

\* Pruning leaves each directory its newest automatic backups, as many as the
\* user wants, and where a world has its directory alone they are all its own
\* (keep_count; test_world_backup_retention_keeps_latest_auto_backups_per_world).
NewestStayPerWorld ==
    [][\A a \in job'.doomed \ job.doomed :
          /\ Cardinality(NewerThere(a)) >= keep
          /\ Alone(a.world) => \A b \in NewerThere(a) : b.world = a.world]_backupVars

\* "creates a copy of changed worlds before starting the game": when the
\* automatic backup ends, each world is in an automatic backup as it is now,
\* unless its backup failed, the user deleted backups meanwhile, or the backups
\* of another world lie in its directory.
ChangedWorldsAreCopied ==
    [][job.kind = "auto" /\ EndOfWork /\ ~job.disturbed =>
          \A w \in Worlds : level[w] = 0 \/ w \in job.failed \/ ~Alone(w)
              \/ \E a \in archives : a.world = w /\ a.kind = "auto" /\ a.listed
                                     /\ a.stamp = level[w]]_backupVars

\* What the backups promise the player of every world (WorldBackupService).
BackupsAreKept == ManualBackupsStay /\ NewestStayPerWorld /\ ChangedWorldsAreCopied
=============================================================================
