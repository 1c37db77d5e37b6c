----------------------------- MODULE StoreProofs -----------------------------
(***************************************************************************)
(* What the stores of the launcher keep, for any number of objects, keys,  *)
(* packs, accounts, launchers and deaths: the settings a user has saved    *)
(* (ConfigStore), the records of the versions (VersionStore), a pack in    *)
(* one piece (PackInstall), the credentials of an account (ProfileStore),  *)
(* a runtime that is whole where the marker names it (JavaRuntime), the    *)
(* loaders a profile may be moved to (ComponentInstall), the files that a  *)
(* download brings (Downloader) and the roots that launchers share         *)
(* (SharedResource).                                                       *)
(***************************************************************************)
EXTENDS ConfigStore, VersionStore, PackInstall, ProfileStore, JavaRuntime, ComponentInstall,
        Downloader, SharedResource, TLAPS

-----------------------------------------------------------------------------
\* Between two saves an object holds, besides what it has loaded, what its
\* callers want and nothing else: it writes those keys and takes away others.
IntentIsHeld ==
    \A c \in Configs, k \in Keys :
        LET conf == config[c]
            want == intent[c][k]
        IN  IF conf = NoConfig THEN want = "none"
            ELSE /\ want = "none" => /\ k \notin conf.changed \union conf.deleted
                                     /\ conf.data[k] = conf.baseline[k]
                 /\ want \in Settings => /\ conf.data[k] = want /\ k \notin conf.deleted
                                         /\ k \in conf.changed \/ conf.baseline[k] # want
                 /\ want = Unset => conf.data[k] = Unset /\ k \in conf.deleted

\* `new` is the object `old` after somebody has asked for `want` under k.
Wished(old, k, want, new) ==
    /\ new.data = [old.data EXCEPT ![k] = want]
    /\ new.baseline = old.baseline
    /\ \A j \in Keys \ {k} : /\ j \in new.changed <=> j \in old.changed
                             /\ j \in new.deleted <=> j \in old.deleted
    /\ want \in Settings => /\ k \notin new.deleted
                            /\ k \in new.changed \/ new.baseline[k] # want
    /\ want = Unset => k \in new.deleted

ConfigInv ==
    /\ ConfigTypeOK
    /\ IntentIsHeld
    /\ ~configFile.readable => agreed = NoIntent
    /\ SettingsKept

LEMMA ConfigStarts == ASSUME ConfigInit PROVE ConfigInv
  BY DEF ConfigInit, ConfigInv, ConfigTypeOK, IntentIsHeld, SettingsKept, Table, Chosen, Blank,
         NoConfig, NoIntent

\* An object just opened, reloaded or saved holds what is on the disk.
LEMMA FreshIsClean ==
    ASSUME NEW table \in Table
    PROVE  /\ Fresh(table) \in Config
           /\ Fresh(table).data = table /\ Fresh(table).baseline = table
           /\ Fresh(table).changed = {} /\ Fresh(table).deleted = {}
  BY DEF Fresh, Config

\* What save() writes under each key.
LEMMA SaveWritesIntent ==
    ASSUME ConfigInv, NEW c \in Configs, config[c] # NoConfig
    PROVE  /\ SavedTable(config[c]) \in Table
           /\ \A k \in Keys :
                 SavedTable(config[c])[k] =
                     IF intent[c][k] # "none" THEN intent[c][k]
                     ELSE IF configFile.readable THEN configFile.data[k] ELSE config[c].data[k]
<1> USE ConfigAssumption
<1> DEFINE conf == config[c]
<1>1. conf \in Config /\ configFile \in [readable: BOOLEAN, data: Table]
      /\ \A k \in Keys : intent[c][k] \in Chosen \union {"none"}
  BY DEF ConfigInv, ConfigTypeOK
<1>2. conf.data \in Table /\ conf.baseline \in Table /\ configFile.data \in Table
      /\ conf.deleted \subseteq Keys
  BY <1>1 DEF Config
<1>3. SavedTable(conf) \in Table
  BY <1>2 DEF SavedTable, Table, Chosen
<1>4. ASSUME NEW k \in Keys
      PROVE  SavedTable(conf)[k] =
                 IF intent[c][k] # "none" THEN intent[c][k]
                 ELSE IF configFile.readable THEN configFile.data[k] ELSE conf.data[k]
  <2>1. /\ intent[c][k] = "none" => /\ k \notin conf.changed \union conf.deleted
                                    /\ conf.data[k] = conf.baseline[k]
        /\ intent[c][k] \in Settings => /\ conf.data[k] = intent[c][k] /\ k \notin conf.deleted
                                        /\ k \in conf.changed \/ conf.baseline[k] # intent[c][k]
        /\ intent[c][k] = Unset => conf.data[k] = Unset /\ k \in conf.deleted
    BY DEF ConfigInv, IntentIsHeld
  <2>2. /\ k \in Dropped(conf) <=> intent[c][k] = Unset
        /\ k \in Touched(conf) <=> intent[c][k] \in Settings
    BY <1>1, <1>2, <2>1 DEF Dropped, Touched, Chosen, Table
  <2>3. CASE ~configFile.readable
    BY <1>1, <2>1, <2>3 DEF SavedTable, Chosen
  <2>4. CASE configFile.readable
    BY <1>1, <2>1, <2>2, <2>4 DEF SavedTable, Chosen
  <2> QED
    BY <1>1, <2>3, <2>4
<1> QED
  BY <1>3, <1>4

LEMMA ConfigKeeps == ASSUME ConfigInv, [ConfigNext]_configVars PROVE ConfigInv'
<1> USE ConfigAssumption DEF ConfigInv
<1>0. /\ configFile \in [readable: BOOLEAN, data: Table] /\ configFile.data \in Table
      /\ config \in [Configs -> Config \union {NoConfig}]
      /\ intent \in [Configs -> [Keys -> Chosen \union {"none"}]]
      /\ agreed \in [Keys -> Chosen \union {"none"}]
      /\ NoIntent \in [Keys -> Chosen \union {"none"}] /\ Blank \in Table
  BY DEF ConfigTypeOK, NoIntent, Blank, Table, Chosen
<1>1. ASSUME NEW c \in Configs, OpenConfig(c) \/ ReloadConfig(c) PROVE ConfigInv'
  <2>1. PICK table \in Table : config' = [config EXCEPT ![c] = Fresh(table)]
    BY <1>0, <1>1 DEF OpenConfig, ReloadConfig
  <2>2. /\ UNCHANGED <<configFile, agreed>>
        /\ intent' \in [Configs -> [Keys -> Chosen \union {"none"}]]
        /\ \A k \in Keys : intent'[c][k] = "none"
        /\ \A d \in Configs \ {c} : intent'[d] = intent[d]
    BY <1>0, <1>1 DEF OpenConfig, ReloadConfig, IntentIsHeld, NoIntent
  <2>3. /\ config' \in [Configs -> Config \union {NoConfig}] /\ config'[c] = Fresh(table)
        /\ \A d \in Configs \ {c} : config'[d] = config[d]
    BY <1>0, <2>1, FreshIsClean
  <2>4. IntentIsHeld'
    BY <2>2, <2>3, FreshIsClean DEF IntentIsHeld
  <2> QED
    BY <1>0, <2>2, <2>3, <2>4 DEF ConfigTypeOK, SettingsKept
<1>2. ASSUME NEW c \in Configs, NEW k \in Keys,
             DeleteKey(c, k) \/ \E v \in Settings : SetKey(c, k, v) \/ EditInPlace(c, k, v)
      PROVE  ConfigInv'
  <2> DEFINE asked(want, conf) == /\ config' = [config EXCEPT ![c] = conf]
                                  /\ intent' = [intent EXCEPT ![c][k] = want]
                                  /\ Wished(config[c], k, want, conf)
  <2>1. config[c] \in Config /\ config[c] # NoConfig /\ UNCHANGED <<configFile, agreed>>
    BY <1>0, <1>2 DEF DeleteKey, SetKey, EditInPlace
  <2>2. /\ config[c].data \in Table /\ config[c].baseline \in Table
        /\ config[c].changed \subseteq Keys /\ config[c].deleted \subseteq Keys
    BY <2>1 DEF Config
  <2>3. \E want \in Chosen, conf \in Config : asked(want, conf)
    <3>1. CASE DeleteKey(c, k)
      <4> DEFINE conf == WithDelete(config[c], k)
      <4>1. /\ conf \in Config /\ conf.data = [config[c].data EXCEPT ![k] = Unset]
            /\ conf.baseline = config[c].baseline
            /\ conf.changed = config[c].changed \ {k} /\ conf.deleted = config[c].deleted \union {k}
        BY <2>1, <2>2 DEF WithDelete, Config, Table, Chosen
      <4>2. config' = [config EXCEPT ![c] = conf] /\ intent' = [intent EXCEPT ![c][k] = Unset]
        BY <3>1 DEF DeleteKey
      <4> HIDE DEF conf
      <4>3. asked(Unset, conf) /\ Unset \in Chosen
        BY <4>1, <4>2 DEF Wished, Chosen
      <4> QED
        BY <4>1, <4>3
    <3>2. ASSUME NEW v \in Settings, SetKey(c, k, v)
          PROVE  \E want \in Chosen, conf \in Config : asked(want, conf)
      <4> DEFINE conf == WithSet(config[c], k, v)
      <4>1. /\ conf \in Config /\ conf.data = [config[c].data EXCEPT ![k] = v]
            /\ conf.baseline = config[c].baseline
            /\ conf.changed = config[c].changed \union {k} /\ conf.deleted = config[c].deleted \ {k}
        BY <2>1, <2>2 DEF WithSet, Config, Table, Chosen
      <4>2. config' = [config EXCEPT ![c] = conf] /\ intent' = [intent EXCEPT ![c][k] = v]
        BY <3>2 DEF SetKey
      <4> HIDE DEF conf
      <4>3. asked(v, conf) /\ v \in Chosen
        BY <4>1, <4>2 DEF Wished, Chosen
      <4> QED
        BY <4>1, <4>3
    <3>3. ASSUME NEW v \in Settings, EditInPlace(c, k, v)
          PROVE  \E want \in Chosen, conf \in Config : asked(want, conf)
      <4> DEFINE conf == [config[c] EXCEPT !.data[k] = v]
      <4>1. /\ conf \in Config /\ conf.data = [config[c].data EXCEPT ![k] = v]
            /\ conf.baseline = config[c].baseline
            /\ conf.changed = config[c].changed /\ conf.deleted = config[c].deleted
        BY <2>1, <2>2 DEF Config, Table, Chosen
      <4>2. /\ config' = [config EXCEPT ![c] = conf] /\ intent' = [intent EXCEPT ![c][k] = v]
            /\ v # config[c].data[k] /\ intent[c][k] = "none"
        BY <1>0, <3>3 DEF EditInPlace
      <4>3. k \notin config[c].deleted /\ config[c].data[k] = config[c].baseline[k]
        BY <2>1, <4>2 DEF IntentIsHeld
      <4> HIDE DEF conf
      <4>4. asked(v, conf) /\ v \in Chosen
        BY <4>1, <4>2, <4>3 DEF Wished, Chosen
      <4> QED
        BY <4>1, <4>4
    <3> QED
      BY <1>2, <3>1, <3>2, <3>3
  <2>4. PICK want \in Chosen, conf \in Config : asked(want, conf)
    BY <2>3
  <2>5. /\ intent' \in [Configs -> [Keys -> Chosen \union {"none"}]] /\ intent'[c][k] = want
        /\ \A d \in Configs, j \in Keys : d # c \/ j # k => intent'[d][j] = intent[d][j]
    BY <1>0, <2>4
  <2>6. /\ config' \in [Configs -> Config \union {NoConfig}] /\ config'[c] = conf
        /\ \A d \in Configs \ {c} : config'[d] = config[d]
    BY <1>0, <2>4
  <2>7. /\ conf.data[k] = want /\ \A j \in Keys \ {k} : conf.data[j] = config[c].data[j]
    BY <2>2, <2>4 DEF Wished, Table
  <2>8. IntentIsHeld'
    <3> SUFFICES ASSUME NEW d \in Configs, NEW j \in Keys
                 PROVE  IF config'[d] = NoConfig THEN intent'[d][j] = "none"
                        ELSE /\ intent'[d][j] = "none" =>
                                   /\ j \notin config'[d].changed \union config'[d].deleted
                                   /\ config'[d].data[j] = config'[d].baseline[j]
                             /\ intent'[d][j] \in Settings =>
                                   /\ config'[d].data[j] = intent'[d][j] /\ j \notin config'[d].deleted
                                   /\ j \in config'[d].changed \/ config'[d].baseline[j] # intent'[d][j]
                             /\ intent'[d][j] = Unset =>
                                   config'[d].data[j] = Unset /\ j \in config'[d].deleted
      BY DEF IntentIsHeld
    <3>1. CASE d # c
      BY <2>5, <2>6, <3>1 DEF IntentIsHeld
    <3>0. conf # NoConfig
      BY DEF NoConfig
    <3>2. CASE d = c /\ j # k
      <4>1. /\ config'[d] = conf /\ intent'[d][j] = intent[c][j]
            /\ conf.data[j] = config[c].data[j] /\ conf.baseline[j] = config[c].baseline[j]
            /\ j \in conf.changed <=> j \in config[c].changed
            /\ j \in conf.deleted <=> j \in config[c].deleted
        BY <2>4, <2>5, <2>6, <2>7, <3>2 DEF Wished
      <4> QED
        BY <2>1, <3>0, <4>1 DEF IntentIsHeld
    <3>3. CASE d = c /\ j = k
      BY <2>4, <2>5, <2>6, <2>7, <3>0, <3>3 DEF Wished, Chosen
    <3> QED
      BY <3>1, <3>2, <3>3
  <2> QED
    BY <1>0, <2>1, <2>5, <2>6, <2>8 DEF ConfigTypeOK, SettingsKept
<1>3. ASSUME NEW c \in Configs, SaveConfig(c) PROVE ConfigInv'
  <2> DEFINE table == SavedTable(config[c])
  <2>1. /\ config[c] # NoConfig
        /\ configFile' = [readable |-> TRUE, data |-> table]
        /\ config' = [config EXCEPT ![c] = Fresh(table)]
        /\ agreed' = [k \in Keys |-> IF intent[c][k] # "none" THEN intent[c][k] ELSE agreed[k]]
        /\ intent' = [intent EXCEPT ![c] = NoIntent]
    BY <1>3 DEF SaveConfig
  <2>2. table \in Table
        /\ \A k \in Keys : table[k] =
               IF intent[c][k] # "none" THEN intent[c][k]
               ELSE IF configFile.readable THEN configFile.data[k] ELSE config[c].data[k]
    BY <2>1, SaveWritesIntent
  <2> HIDE DEF table
  <2>3. ConfigTypeOK'
    BY <1>0, <2>1, <2>2, FreshIsClean DEF ConfigTypeOK
  <2>4. IntentIsHeld'
    <3>1. config'[c] = Fresh(table) /\ \A d \in Configs \ {c} : config'[d] = config[d]
      BY <1>0, <2>1
    <3>2. intent'[c] = NoIntent /\ \A d \in Configs \ {c} : intent'[d] = intent[d]
      BY <1>0, <2>1
    <3> QED
      BY <2>2, <3>1, <3>2, FreshIsClean DEF IntentIsHeld, NoIntent
  <2>5. SettingsKept'
    BY <1>0, <2>1, <2>2 DEF SettingsKept, NoIntent
  <2> QED
    BY <2>1, <2>3, <2>4, <2>5
<1>4. CASE DamageConfig
  <2>1. configFile' = [configFile EXCEPT !.readable = FALSE] /\ agreed' = NoIntent
        /\ UNCHANGED <<config, intent>>
    BY <1>4 DEF DamageConfig
  <2>2. configFile' \in [readable: BOOLEAN, data: Table] /\ ~configFile'.readable
    BY <1>0, <2>1
  <2>3. ConfigTypeOK' /\ SettingsKept'
    BY <1>0, <2>1, <2>2 DEF ConfigTypeOK, SettingsKept
  <2> QED
    BY <2>1, <2>3 DEF IntentIsHeld
<1>5. CASE UNCHANGED configVars
  BY <1>5 DEF configVars, ConfigTypeOK, IntentIsHeld, SettingsKept
<1> QED
  BY <1>1, <1>2, <1>3, <1>4, <1>5 DEF ConfigNext

\* Whatever the open objects hold, however old it is, and whichever of them is
\* saved, reloaded or edited in place: a setting saved on purpose stays until
\* another one is saved under its key (Config.save).
THEOREM SettingsAreKept == ConfigSpec => []SettingsKept
<1>1. ConfigInit => ConfigInv
  BY ConfigStarts
<1>2. ConfigInv /\ [ConfigNext]_configVars => ConfigInv'
  BY ConfigKeeps
<1>3. ConfigInv => SettingsKept
  BY DEF ConfigInv
<1> QED
  BY <1>1, <1>2, <1>3, PTL DEF ConfigSpec

-----------------------------------------------------------------------------
\* The steps of an installation whose transaction is open, by its status.
AtStaging ==
    \/ install.at \in {"stage", "download", "list", "verify", "extract", "check", "activate"}
    \/ install.at = "runtime" /\ source = "modrinth"
AtApplying == install.at \in {"activate own", "activate list", "drop stale", "mark"}
AtCommitting == install.at \in {"commit", "save", "complete"}
AtBeginning ==
    \/ install.at \in {"archive", "plan", "tasks", "managed", "overrides"}
    \/ install.at = "runtime" /\ source = "curseforge"

InstallSteps ==
    {"idle", "archive", "plan", "tasks", "managed", "overrides", "begin", "runtime", "stage", "download",
     "list", "verify", "extract", "check", "activate", "activate own", "activate list",
     "drop stale", "mark", "commit", "save", "complete", "callback", "undo"}
PackContent == [shared : Packs \cup {Unpacked}, own : SUBSET Packs, list : Packs \cup {Unpacked}]

PackTypes ==
    /\ source \in {"modrinth", "curseforge"}
    /\ content \in PackContent
    /\ runtimes \subseteq Packs
    /\ {saved, entity} \subseteq Packs \cup {Unpacked}
    /\ journal \in [status : {"settled", "staging", "applying", "committing"},
                    key : Packs \cup {Unpacked}, before : PackContent]
    /\ install \in [at : InstallSteps, pack : Packs \cup {Unpacked},
                    snapshot : Packs \cup {Unpacked}, flaw : Flaws, stale : SUBSET Packs,
                    profileSaved : BOOLEAN, resumed : BOOLEAN]
    /\ late \in BOOLEAN
    /\ stranded \subseteq Packs

\* The files of one pack, or those of a CurseForge pack over earlier ones, or those
\* of a Modrinth pack beside what came back unseen.
IsWhole(files) ==
    /\ files.shared \in files.own \cup {Unpacked}
    /\ source = "modrinth" =>
           files.list = files.shared /\ files.own \subseteq {files.shared} \cup stranded

\* The files of p and nothing that p does not want.
HoldsPack(files, p) ==
    /\ files.shared = p /\ p \in files.own /\ p \in Packs
    /\ source = "modrinth" => files.list = p /\ files.own \subseteq {p} \cup stranded

\* What the journal says of the files, with and without an installation.
JournalKnowsFiles ==
    /\ IF journal.status = "settled" THEN IsWhole(content) ELSE IsWhole(journal.before)
    /\ journal.status = "staging" => content = journal.before
    /\ journal.status = "committing" => HoldsPack(content, journal.key)
    /\ install.at = "activate own" =>
           content = [shared |-> install.pack, own |-> journal.before.own,
                      list |-> journal.before.list]
    /\ install.at = "activate list" =>
           content = [shared |-> install.pack, own |-> journal.before.own \cup {install.pack},
                      list |-> journal.before.list]
    /\ install.at = "drop stale" =>
           content = [shared |-> install.pack, own |-> journal.before.own \cup {install.pack},
                      list |-> install.pack]
    /\ install.at \in {"mark", "callback"} => HoldsPack(content, install.pack)

\* What the journal says of the installation under way.
StepsKnowJournal ==
    /\ AtStaging => journal.status = "staging"
    /\ AtApplying => journal.status = "applying"
    /\ AtCommitting => journal.status = "committing"
    /\ AtStaging \/ AtApplying \/ AtCommitting => journal.key = install.pack
    /\ install.at = "callback" => journal.status = "settled"

Verified ==
    \/ install.at \in {"list", "extract", "check", "activate"}
    \/ install.at = "runtime" /\ source = "modrinth"
    \/ AtApplying \/ AtCommitting

\* Which loader takes a step, on which pack, and what it knows of its flaws.
StepsKnowPack ==
    /\ install.at # "idle" => install.pack \in Packs
    /\ install.at \in {"tasks", "managed", "download", "list", "activate list", "drop stale"} =>
           source = "modrinth"
    /\ install.at \in {"overrides", "verify", "extract"} => source = "curseforge"
    /\ install.at \in {"runtime", "plan"} => install.flaw # "archive"
    /\ install.at \in {"tasks", "managed", "overrides", "begin", "stage", "download", "verify"} =>
           install.flaw \in {"none", "bytes"}
    /\ Verified => install.flaw = "none"

\* The pack whose files are in place, or would be after a roll back.
ProfileBefore == IF journal.status = "settled" THEN content.shared ELSE journal.before.shared

\* Whom the profile names, and whom an undone installation would name.
ProfileKnowsFiles ==
    /\ \/ saved = ProfileBefore \/ late
       \/ journal.status = "committing" /\ saved = journal.key /\ install.at \notin {"commit", "save"}
       \/ install.at = "undo" /\ install.profileSaved
    /\ install.at = "idle" => entity = saved \/ late
    /\ install.at \in {"save", "complete", "callback"} => entity = install.pack
    /\ install.at \in {"complete", "callback"} => saved = install.pack /\ install.profileSaved
    /\ install.at # "idle" /\ ~install.profileSaved => install.snapshot = saved \/ late
    /\ source = "modrinth" /\ install.at \notin {"idle", "callback"} /\ ~install.resumed =>
           \/ install.snapshot = ProfileBefore \/ late
           \/ journal.status = "committing" /\ ~install.profileSaved
              /\ (AtBeginning \/ install.at \in {"begin", "undo"})
    /\ install.resumed => install.profileSaved
    /\ install.profileSaved /\ ~install.resumed => install.at \in {"complete", "callback", "undo"}
    /\ install.profileSaved => ~AtBeginning
    /\ install.profileSaved /\ install.at \in {"begin", "undo"} => journal.status # "committing"

RuntimeInstalled ==
    \/ install.at \in {"activate", "callback"} \/ AtApplying \/ AtCommitting
    \/ /\ source = "curseforge"
       /\ install.at \in {"plan", "overrides", "begin", "stage", "verify", "extract", "check"}

\* Whose Minecraft and loader are installed.
RuntimesAreThere ==
    /\ {saved, entity} \subseteq runtimes \cup {Unpacked}
    /\ install.at # "idle" => install.snapshot \in runtimes \cup {Unpacked}
    /\ journal.status = "committing" => journal.key \in runtimes
    /\ RuntimeInstalled => install.pack \in runtimes

PackCore ==
    /\ PackTypes
    /\ JournalKnowsFiles
    /\ StepsKnowJournal
    /\ StepsKnowPack
    /\ ProfileKnowsFiles
    /\ RuntimesAreThere

\* What was to go when the list was read is all that another pack has left, but for
\* what the undo brought back later.
StaleIsKnown ==
    /\ install.pack \notin install.stale
    /\ source = "modrinth" /\ install.at = "begin" /\ journal.status = "settled" =>
           content.own \subseteq install.stale \cup {install.pack} \cup stranded
    /\ source = "modrinth" /\ (AtStaging \/ AtApplying) =>
           journal.before.own \subseteq install.stale \cup {install.pack} \cup stranded

PackInv == PackCore /\ StaleIsKnown

LEMMA PackStarts == ASSUME PackInit PROVE PackInv
<1> USE PackAssumption DEF PackInit, Settled, NoInstall
<1>1. PackTypes
  BY DEF PackTypes, PackContent, InstallSteps, Flaws
<1>2. JournalKnowsFiles /\ StepsKnowJournal /\ StepsKnowPack
  BY DEF JournalKnowsFiles, IsWhole, StepsKnowJournal, StepsKnowPack, Verified, AtStaging, AtApplying, AtCommitting
<1>3. ProfileKnowsFiles /\ RuntimesAreThere
  BY DEF ProfileKnowsFiles, ProfileBefore, RuntimesAreThere, RuntimeInstalled, AtApplying, AtCommitting, AtBeginning
<1>4. StaleIsKnown
  BY DEF StaleIsKnown, AtStaging, AtApplying
<1> QED
  BY <1>1, <1>2, <1>3, <1>4 DEF PackInv, PackCore

\* The step alone changes, and no file, profile or journal.
LEMMA PrepareKeeps ==
    ASSUME PackInv,
           \/ FetchArchive \/ LoadManifest \/ PreflightOverrides \/ BuildDownloads
           \/ PlanCurseForge \/ PlanOverrides \/ ExtractModrinth \/ DownloadModrinth
           \/ WriteManagedList \/ DownloadCurseForge \/ VerifyCurseForge \/ ExtractCurseForge
           \/ CheckDestinations
    PROVE  PackCore'
<1> USE DEF PackInv, PackCore
<1>1. PICK step \in InstallSteps :
        /\ install' = [install EXCEPT !.at = step]
        /\ UNCHANGED <<source, content, runtimes, saved, entity, journal, late, stranded>>
        /\ \/ /\ AtBeginning
              /\ \/ step = "plan" /\ install.flaw # "archive" /\ source = "modrinth"
                 \/ step = "runtime" /\ install.flaw # "archive" /\ source = "curseforge"
                 \/ step = "tasks" /\ install.flaw \in {"none", "bytes"} /\ source = "modrinth"
                 \/ step = "managed" /\ install.flaw \in {"none", "bytes"} /\ source = "modrinth"
                 \/ step = "overrides" /\ install.flaw \in {"none", "bytes"} /\ source = "curseforge" /\ install.pack \in runtimes
                 \/ step = "begin" /\ install.flaw \in {"none", "bytes"} /\ (source = "curseforge" => install.pack \in runtimes)
           \/ /\ AtStaging
              /\ source = "curseforge" => install.pack \in runtimes
              /\ \/ step = "download" /\ source = "modrinth" /\ install.flaw \in {"none", "bytes"}
                 \/ step = "list" /\ source = "modrinth" /\ install.flaw = "none"
                 \/ step = "verify" /\ source = "curseforge" /\ install.flaw \in {"none", "bytes"}
                 \/ step = "extract" /\ source = "curseforge" /\ install.flaw = "none"
                 \/ step = "check" /\ install.flaw = "none"
                 \/ step = "runtime" /\ source = "modrinth" /\ install.flaw = "none"
                 \/ step = "activate" /\ source = "curseforge" /\ install.flaw = "none"
  <2>1. UNCHANGED <<source, content, runtimes, saved, entity, journal, late, stranded>>
    BY DEF FetchArchive, LoadManifest, PreflightOverrides, BuildDownloads, PlanCurseForge,
           PlanOverrides, ExtractModrinth, DownloadModrinth, WriteManagedList, DownloadCurseForge,
           VerifyCurseForge, ExtractCurseForge, CheckDestinations, Prepare, Quiet
  <2>2. CASE FetchArchive \/ LoadManifest \/ PreflightOverrides \/ BuildDownloads
             \/ PlanCurseForge \/ PlanOverrides
    BY <2>1, <2>2
       DEF FetchArchive, LoadManifest, PreflightOverrides, BuildDownloads, PlanCurseForge,
           PlanOverrides, Prepare, GoOn, InstallAt, Right, PathsAreSafe, AtBeginning, InstallSteps,
           StepsKnowPack, RuntimesAreThere, RuntimeInstalled, PackTypes, Flaws
  <2>3. CASE ExtractModrinth \/ DownloadModrinth \/ WriteManagedList
             \/ DownloadCurseForge \/ VerifyCurseForge \/ ExtractCurseForge \/ CheckDestinations
    BY <2>1, <2>3
       DEF ExtractModrinth, DownloadModrinth, WriteManagedList, DownloadCurseForge,
           VerifyCurseForge, ExtractCurseForge, CheckDestinations, Prepare, GoOn, InstallAt, Right,
           AtStaging, InstallSteps, StepsKnowPack, Verified, RuntimesAreThere, RuntimeInstalled,
           PackTypes, Flaws
  <2> QED
    BY <2>2, <2>3
<1>2. PackTypes'
  BY <1>1 DEF PackTypes
<1>3. install'.at = step /\ UNCHANGED <<install.pack, install.snapshot, install.flaw, install.profileSaved, install.stale, install.resumed>>
  BY <1>1 DEF PackTypes
<1>4. JournalKnowsFiles'
  BY <1>1, <1>3 DEF JournalKnowsFiles, IsWhole, HoldsPack
<1>5. StepsKnowJournal'
  BY <1>1, <1>3 DEF StepsKnowJournal, AtStaging, AtApplying, AtCommitting
<1>6. StepsKnowPack'
  BY <1>1, <1>3 DEF StepsKnowPack, Verified, AtStaging, AtApplying, AtCommitting, AtBeginning
<1>7. ProfileKnowsFiles'
  BY <1>1, <1>3 DEF ProfileKnowsFiles, ProfileBefore, AtStaging, AtBeginning, StepsKnowJournal
<1>8. RuntimesAreThere'
  <2>1. RuntimeInstalled' => install.pack \in runtimes
    BY <1>1, <1>3 DEF RuntimeInstalled, AtApplying, AtCommitting, AtBeginning, AtStaging
  <2>2. install.at # "idle"
    BY <1>1 DEF AtBeginning, AtStaging
  <2> QED
    BY <1>1, <1>3, <2>1, <2>2 DEF RuntimesAreThere
<1> QED
  BY <1>2, <1>4, <1>5, <1>6, <1>7, <1>8

LEMMA BeginPackKeeps ==
    ASSUME PackInv, NEW p \in Packs, NEW flaw \in Flaws, BeginPack(p, flaw)
    PROVE  PackCore'
<1> USE DEF PackInv, PackCore
<1>1. /\ install.at = "idle" /\ install' \in [at : InstallSteps, pack : Packs \cup {Unpacked},
                    snapshot : Packs \cup {Unpacked}, flaw : Flaws, stale : SUBSET Packs,
                    profileSaved : BOOLEAN, resumed : BOOLEAN]
      /\ install'.at = "archive" /\ install'.pack = p /\ install'.snapshot = entity
      /\ ~install'.profileSaved /\ ~install'.resumed
      /\ UNCHANGED <<source, content, runtimes, saved, entity, journal, late, stranded>>
  BY DEF BeginPack, InstallAt, NewInstall, NoInstall, InstallSteps, PackTypes
<1>2. PackTypes'
  BY <1>1 DEF PackTypes
<1>3. JournalKnowsFiles' /\ StepsKnowJournal'
  BY <1>1 DEF JournalKnowsFiles, IsWhole, HoldsPack, StepsKnowJournal, AtStaging, AtApplying, AtCommitting
<1>4. StepsKnowPack'
  BY <1>1 DEF StepsKnowPack, Verified, AtApplying, AtCommitting
<1>5. ProfileKnowsFiles'
  BY <1>1 DEF ProfileKnowsFiles, ProfileBefore, AtBeginning
<1>6. RuntimesAreThere'
  BY <1>1 DEF RuntimesAreThere, RuntimeInstalled, AtApplying, AtCommitting
<1> QED
  BY <1>2, <1>3, <1>4, <1>5, <1>6

\* What is to go is noted.
LEMMA ReadListKeeps == ASSUME PackInv, ReadManagedList PROVE PackCore'
<1> USE DEF PackInv, PackCore
<1>1. /\ install.at = "managed" /\ install' = [install EXCEPT !.at = "begin", !.stale = StaleFiles]
      /\ StaleFiles \subseteq Packs
      /\ UNCHANGED <<source, content, runtimes, saved, entity, journal, late, stranded>>
  BY DEF ReadManagedList, InstallAt, Quiet, StaleFiles, PackTypes, PackContent
<1>2. /\ install'.at = "begin" /\ AtBeginning /\ source = "modrinth" /\ install.flaw \in {"none", "bytes"}
      /\ UNCHANGED <<install.pack, install.snapshot, install.flaw, install.profileSaved, install.resumed>>
  BY <1>1 DEF PackTypes, AtBeginning, StepsKnowPack
<1>3. PackTypes'
  BY <1>1 DEF PackTypes, InstallSteps
<1>4. JournalKnowsFiles' /\ StepsKnowJournal'
  BY <1>1, <1>2 DEF JournalKnowsFiles, IsWhole, HoldsPack, StepsKnowJournal, AtStaging, AtApplying, AtCommitting
<1>5. StepsKnowPack'
  BY <1>1, <1>2 DEF StepsKnowPack, Verified, AtApplying, AtCommitting
<1>6. ProfileKnowsFiles'
  BY <1>1, <1>2 DEF ProfileKnowsFiles, ProfileBefore, AtBeginning
<1>7. RuntimesAreThere'
  BY <1>1, <1>2 DEF RuntimesAreThere, RuntimeInstalled, AtApplying, AtCommitting
<1> QED
  BY <1>3, <1>4, <1>5, <1>6, <1>7

LEMMA InstallRuntimeKeeps == ASSUME PackInv, InstallRuntime PROVE PackCore'
<1> USE DEF PackInv, PackCore
<1> DEFINE step == IF source = "modrinth" THEN "activate" ELSE "plan"
<1>1. /\ install.at = "runtime" /\ install' = [install EXCEPT !.at = step]
      /\ runtimes' = runtimes \cup {install.pack} /\ install.pack \in Packs
      /\ UNCHANGED <<source, content, saved, entity, journal, late, stranded>>
  BY DEF InstallRuntime, InstallAt, GoOn, Quiet, StepsKnowPack
<1>2. /\ install'.at = step
      /\ UNCHANGED <<install.pack, install.snapshot, install.flaw, install.profileSaved, install.stale, install.resumed>>
  BY <1>1 DEF PackTypes
<1>3. PackTypes'
  BY <1>1 DEF PackTypes, InstallSteps
<1>4. JournalKnowsFiles' /\ StepsKnowJournal'
  BY <1>1, <1>2 DEF JournalKnowsFiles, IsWhole, HoldsPack, StepsKnowJournal, AtStaging, AtApplying, AtCommitting, PackTypes
<1>5. StepsKnowPack'
  BY <1>1, <1>2 DEF StepsKnowPack, Verified, AtApplying, AtCommitting, PackTypes
<1>6. ProfileKnowsFiles'
  BY <1>1, <1>2 DEF ProfileKnowsFiles, ProfileBefore, AtBeginning, AtStaging, StepsKnowJournal, PackTypes
<1>7. RuntimesAreThere'
  BY <1>1, <1>2 DEF RuntimesAreThere, RuntimeInstalled, AtApplying, AtCommitting
<1> QED
  BY <1>3, <1>4, <1>5, <1>6, <1>7

\* The installation settles what an earlier one has left, then opens its own
\* transaction.
LEMMA BeginFilesKeeps ==
    ASSUME PackInv, RollBackEarlier \/ ResumeCommit \/ BeginFiles
    PROVE  PackCore'
<1> USE DEF PackInv, PackCore
<1>0. /\ install.at = "begin" /\ UNCHANGED <<source, runtimes, late>>
      /\ Settled \in [status : {"settled", "staging", "applying", "committing"},
                      key : Packs \cup {Unpacked}, before : PackContent]
      /\ Settled.status = "settled" /\ install.pack \in Packs
  BY DEF RollBackEarlier, ResumeCommit, BeginFiles, InstallAt, Quiet, Settled, PackContent, StepsKnowPack
<1>1. CASE RollBackEarlier
  <2>1. /\ content' = journal.before /\ journal' = Settled /\ journal.status \in {"staging", "applying"}
        /\ UNCHANGED <<saved, entity, install>>
        /\ stranded \subseteq stranded' /\ stranded' \subseteq Packs
    BY <1>1 DEF RollBackEarlier, PackTypes, PackContent
  <2>2. PackTypes'
    BY <1>0, <2>1 DEF PackTypes
  <2>3. JournalKnowsFiles' /\ StepsKnowJournal'
    BY <1>0, <2>1 DEF JournalKnowsFiles, IsWhole, StepsKnowJournal, AtStaging, AtApplying, AtCommitting
  <2>4. StepsKnowPack' /\ RuntimesAreThere'
    BY <1>0, <2>1 DEF StepsKnowPack, Verified, RuntimesAreThere, RuntimeInstalled, AtApplying, AtCommitting
  <2>5. ProfileKnowsFiles'
    BY <1>0, <2>1 DEF ProfileKnowsFiles, ProfileBefore, AtBeginning
  <2> QED
    BY <2>2, <2>3, <2>4, <2>5
<1>2. CASE ResumeCommit
  <2>1. /\ journal.status = "committing" /\ journal.key = install.pack /\ journal' = Settled
        /\ saved' = install.pack /\ entity' = install.pack
        /\ install' = [install EXCEPT !.profileSaved = TRUE, !.resumed = TRUE]
        /\ UNCHANGED content /\ stranded' = stranded \ {install.pack}
    BY <1>2 DEF ResumeCommit, CommitKey
  <2>2. /\ install'.at = "begin" /\ install'.profileSaved /\ install'.resumed
        /\ UNCHANGED <<install.pack, install.snapshot, install.flaw>>
    BY <1>0, <2>1 DEF PackTypes
  <2>3. PackTypes'
    BY <1>0, <2>1 DEF PackTypes
  <2>4. JournalKnowsFiles' /\ StepsKnowJournal'
    <3>1. HoldsPack(content, install.pack)
      BY <2>1 DEF JournalKnowsFiles
    <3>2. IsWhole(content)'
      BY <1>0, <2>1, <3>1 DEF HoldsPack, IsWhole
    <3> QED
      BY <1>0, <2>1, <2>2, <3>2 DEF JournalKnowsFiles, IsWhole, StepsKnowJournal, AtStaging, AtApplying, AtCommitting
  <2>5. StepsKnowPack' /\ RuntimesAreThere'
    <3>1. install.pack \in runtimes
      BY <2>1 DEF RuntimesAreThere
    <3>2. StepsKnowPack'
      BY <1>0, <2>1, <2>2 DEF StepsKnowPack, Verified, AtApplying, AtCommitting
    <3> QED
      BY <1>0, <2>1, <2>2, <3>1, <3>2 DEF RuntimesAreThere
  <2>6. ProfileKnowsFiles'
    BY <1>0, <2>1, <2>2 DEF ProfileKnowsFiles, ProfileBefore, AtBeginning, JournalKnowsFiles, HoldsPack
  <2> QED
    BY <2>3, <2>4, <2>5, <2>6
<1>3. CASE BeginFiles
  <2>1. /\ journal.status = "settled"
        /\ journal' = [status |-> "staging", key |-> install.pack, before |-> content]
        /\ install' = [install EXCEPT !.at = "stage"]
        /\ UNCHANGED <<content, saved, entity, stranded>>
    BY <1>3 DEF BeginFiles, CommitKey, GoOn, Quiet
  <2>2. /\ install'.at = "stage"
        /\ UNCHANGED <<install.pack, install.snapshot, install.flaw, install.profileSaved, install.stale, install.resumed>>
    BY <2>1 DEF PackTypes
  <2>3. PackTypes'
    BY <1>0, <2>1 DEF PackTypes, InstallSteps
  <2>4. JournalKnowsFiles' /\ StepsKnowJournal'
    BY <1>0, <2>1, <2>2 DEF JournalKnowsFiles, IsWhole, StepsKnowJournal, AtStaging, AtApplying, AtCommitting
  <2>5. StepsKnowPack' /\ RuntimesAreThere'
    BY <1>0, <2>1, <2>2 DEF StepsKnowPack, Verified, RuntimesAreThere, RuntimeInstalled, AtApplying, AtCommitting
  <2>6. ProfileKnowsFiles'
    BY <1>0, <2>1, <2>2 DEF ProfileKnowsFiles, ProfileBefore, AtBeginning
  <2> QED
    BY <2>3, <2>4, <2>5, <2>6
<1> QED
  BY <1>1, <1>2, <1>3

\* The stage goes into the instance: the shared file, the own one, and what
\* is not wanted any more goes away.
LEMMA ActivateKeeps ==
    ASSUME PackInv, ActivateShared \/ ActivateOwn \/ ActivateList \/ DropStale \/ MarkCommitting
    PROVE  PackCore'
<1> USE DEF PackInv, PackCore
<1>0. /\ UNCHANGED <<source, runtimes, saved, entity, late, stranded>>
      /\ install.at \in {"activate", "activate own", "activate list", "drop stale", "mark"}
      /\ AtStaging \/ AtApplying
      /\ journal.status = IF install.at = "activate" THEN "staging" ELSE "applying"
      /\ install.pack \in Packs /\ journal.key = install.pack /\ install.pack \in runtimes
      /\ install.flaw = "none"
      /\ install.at \in {"activate list", "drop stale"} => source = "modrinth"
  BY DEF ActivateShared, ActivateOwn, ActivateList, DropStale, MarkCommitting, InstallAt, Quiet, StepsKnowPack,
         StepsKnowJournal, AtStaging, AtApplying, RuntimesAreThere, RuntimeInstalled, Verified
<1>1. PICK step \in {"activate own", "activate list", "drop stale", "mark", "commit"},
           status \in {"applying", "committing"} :
        /\ install' = [install EXCEPT !.at = step] /\ journal' = [journal EXCEPT !.status = status]
        /\ status = "committing" <=> step = "commit"
        /\ step = "commit" => install.at = "mark"
        /\ step \in {"activate list", "drop stale"} => source = "modrinth"
  <2>1. CASE ActivateShared
    BY <2>1 DEF ActivateShared, GoOn
  <2>2. CASE ActivateOwn \/ ActivateList \/ DropStale
    <3>1. journal = [journal EXCEPT !.status = "applying"]
      BY <1>0, <2>2 DEF ActivateOwn, ActivateList, DropStale, InstallAt, PackTypes
    <3> QED
      BY <1>0, <2>2, <3>1 DEF ActivateOwn, ActivateList, DropStale, GoOn, InstallAt, PackTypes
  <2>3. CASE MarkCommitting
    BY <2>3 DEF MarkCommitting, GoOn, InstallAt
  <2> QED
    BY <2>1, <2>2, <2>3
<1>2. /\ install'.at = step /\ journal'.status = status
      /\ UNCHANGED <<journal.key, journal.before>>
      /\ UNCHANGED <<install.pack, install.snapshot, install.flaw, install.profileSaved, install.stale, install.resumed>>
  BY <1>1 DEF PackTypes
<1>3. /\ content' \in PackContent
      /\ step = "activate own" =>
             content' = [shared |-> install.pack, own |-> journal.before.own,
                         list |-> journal.before.list]
      /\ step = "activate list" =>
             content' = [shared |-> install.pack, own |-> journal.before.own \cup {install.pack},
                         list |-> journal.before.list]
      /\ step = "drop stale" =>
             content' = [shared |-> install.pack, own |-> journal.before.own \cup {install.pack},
                         list |-> install.pack]
      /\ step \in {"mark", "commit"} => HoldsPack(content', install.pack)
  <2>1. CASE ActivateShared
    <3>1. /\ install.at = "activate" /\ install' = [install EXCEPT !.at = "activate own"]
          /\ content' = [content EXCEPT !.shared = install.pack]
          /\ content = journal.before
      BY <1>0, <2>1 DEF ActivateShared, InstallAt, GoOn, JournalKnowsFiles
    <3>2. step = "activate own"
      BY <1>2, <3>1 DEF PackTypes
    <3> QED
      BY <1>0, <3>1, <3>2 DEF PackTypes, PackContent
  <2>2. CASE ActivateOwn
    <3> DEFINE next == IF source = "modrinth" THEN "activate list" ELSE "mark"
    <3>1. /\ install.at = "activate own" /\ install' = [install EXCEPT !.at = next]
          /\ content' = [content EXCEPT !.own = @ \cup {install.pack}]
          /\ content = [shared |-> install.pack, own |-> journal.before.own,
                        list |-> journal.before.list]
      BY <2>2 DEF ActivateOwn, InstallAt, GoOn, JournalKnowsFiles
    <3>2. step = next
      BY <1>2, <3>1 DEF PackTypes
    <3>3. /\ content' = [shared |-> install.pack, own |-> journal.before.own \cup {install.pack},
                         list |-> journal.before.list]
          /\ content' \in PackContent
      BY <1>0, <3>1 DEF PackTypes, PackContent
    <3>4. step = "mark" => HoldsPack(content', install.pack)
      BY <1>0, <3>2, <3>3 DEF HoldsPack
    <3> QED
      BY <3>2, <3>3, <3>4
  <2>3. CASE ActivateList
    <3>1. /\ install.at = "activate list" /\ install' = [install EXCEPT !.at = "drop stale"]
          /\ content' = [content EXCEPT !.list = install.pack]
          /\ content = [shared |-> install.pack, own |-> journal.before.own \cup {install.pack},
                        list |-> journal.before.list]
      BY <2>3 DEF ActivateList, InstallAt, GoOn, JournalKnowsFiles
    <3>2. step = "drop stale"
      BY <1>2, <3>1 DEF PackTypes
    <3> QED
      BY <1>0, <3>1, <3>2 DEF PackTypes, PackContent
  <2>5. CASE DropStale
    <3> DEFINE left == (journal.before.own \cup {install.pack}) \ install.stale
    <3>1. /\ install.at = "drop stale" /\ install' = [install EXCEPT !.at = "mark"]
          /\ content' = [content EXCEPT !.own = @ \ install.stale]
          /\ content = [shared |-> install.pack, own |-> journal.before.own \cup {install.pack},
                        list |-> install.pack]
          /\ UNCHANGED stranded
      BY <2>5 DEF DropStale, InstallAt, GoOn, JournalKnowsFiles, Quiet
    <3>2. step = "mark"
      BY <1>2, <3>1 DEF PackTypes
    <3>3. /\ content' \in PackContent /\ content'.shared = install.pack
          /\ content'.own = left /\ content'.list = install.pack
      BY <1>0, <3>1 DEF PackTypes, PackContent
    <3>4. install.pack \in left /\ (source = "modrinth" => left \subseteq {install.pack} \cup stranded)
      <4>1. AtApplying BY <3>1 DEF AtApplying
      <4> QED BY <1>0, <4>1 DEF StaleIsKnown
    <3>5. HoldsPack(content', install.pack)
      BY <1>0, <3>3, <3>4 DEF HoldsPack
    <3> QED
      BY <3>2, <3>3, <3>5
  <2>4. CASE MarkCommitting
    <3>1. install.at = "mark" /\ install' = [install EXCEPT !.at = "commit"] /\ UNCHANGED content
      BY <2>4 DEF MarkCommitting, InstallAt, GoOn
    <3>2. step = "commit"
      BY <1>2, <3>1 DEF PackTypes
    <3> QED
      BY <3>1, <3>2 DEF PackTypes, JournalKnowsFiles
  <2> QED
    BY <2>1, <2>2, <2>3, <2>4, <2>5
<1>4. PackTypes'
  BY <1>0, <1>1, <1>3 DEF PackTypes, InstallSteps
<1>5. JournalKnowsFiles'
  BY <1>0, <1>1, <1>2, <1>3 DEF JournalKnowsFiles, IsWhole, HoldsPack
<1>6. StepsKnowJournal' /\ StepsKnowPack'
  BY <1>0, <1>1, <1>2 DEF StepsKnowJournal, StepsKnowPack, Verified, AtStaging, AtApplying, AtCommitting
<1>7. ProfileKnowsFiles'
  BY <1>0, <1>1, <1>2 DEF ProfileKnowsFiles, ProfileBefore, AtBeginning
<1>8. RuntimesAreThere'
  <2>1. /\ install.snapshot \in runtimes \cup {Unpacked}
        /\ {saved, entity} \subseteq runtimes \cup {Unpacked}
    BY <1>0 DEF RuntimesAreThere
  <2>2. /\ install'.snapshot = install.snapshot /\ install'.pack = install.pack
        /\ journal'.key = journal.key
    BY <1>2
  <2> QED
    BY <1>0, <2>1, <2>2 DEF RuntimesAreThere
<1> QED
  BY <1>4, <1>5, <1>6, <1>7, <1>8

\* The profile takes the pack over, and the transaction is over.
LEMMA CommitKeeps ==
    ASSUME PackInv,
           CommitModrinth \/ CommitCurseForge \/ SaveProfile \/ CompletePack \/ PackInstalled
    PROVE  PackCore'
<1> USE DEF PackInv, PackCore
<1>0. /\ UNCHANGED <<source, content, runtimes, late>>
      /\ install.at \in {"commit", "save", "complete", "callback"}
      /\ install.pack \in Packs /\ install.pack \in runtimes
      /\ install.flaw = "none" \/ install.at = "callback"
      /\ install.at # "callback" => journal.status = "committing" /\ journal.key = install.pack
      /\ HoldsPack(content, install.pack)
  BY DEF CommitModrinth, CommitCurseForge, SaveProfile, CompletePack, PackInstalled, InstallAt, Quiet,
         StepsKnowPack, StepsKnowJournal, JournalKnowsFiles, AtCommitting, RuntimesAreThere,
         RuntimeInstalled, Verified
<1>1. CASE CommitModrinth \/ CommitCurseForge
  <2>1. /\ install.at = "commit" /\ install' = [install EXCEPT !.at = "save"]
        /\ entity' = install.pack /\ UNCHANGED <<saved, journal, stranded>>
    BY <1>1 DEF CommitModrinth, CommitCurseForge, InstallAt, GoOn, Quiet
  <2>2. /\ install'.at = "save"
        /\ UNCHANGED <<install.pack, install.snapshot, install.flaw, install.profileSaved, install.stale, install.resumed>>
    BY <2>1 DEF PackTypes
  <2>3. PackTypes' /\ JournalKnowsFiles'
    BY <1>0, <2>1, <2>2 DEF PackTypes, InstallSteps, JournalKnowsFiles, IsWhole, HoldsPack
  <2>4. StepsKnowJournal' /\ StepsKnowPack'
    BY <1>0, <2>1, <2>2 DEF StepsKnowJournal, StepsKnowPack, Verified, AtStaging, AtApplying, AtCommitting
  <2>5. ProfileKnowsFiles' /\ RuntimesAreThere'
    BY <1>0, <2>1, <2>2 DEF ProfileKnowsFiles, ProfileBefore, AtBeginning, RuntimesAreThere
  <2> QED
    BY <2>3, <2>4, <2>5
<1>2. CASE SaveProfile
  <2>1. /\ install.at = "save" /\ install' = [install EXCEPT !.at = "complete", !.profileSaved = TRUE]
        /\ saved' = entity /\ entity = install.pack /\ UNCHANGED <<entity, journal, stranded>>
    BY <1>2 DEF SaveProfile, InstallAt, Quiet, ProfileKnowsFiles
  <2>2. /\ install'.at = "complete" /\ install'.profileSaved
        /\ UNCHANGED <<install.pack, install.snapshot, install.flaw, install.stale, install.resumed>>
    BY <2>1 DEF PackTypes
  <2>3. PackTypes' /\ JournalKnowsFiles'
    BY <1>0, <2>1, <2>2 DEF PackTypes, InstallSteps, JournalKnowsFiles, IsWhole, HoldsPack
  <2>4. StepsKnowJournal' /\ StepsKnowPack'
    BY <1>0, <2>1, <2>2 DEF StepsKnowJournal, StepsKnowPack, Verified, AtStaging, AtApplying, AtCommitting
  <2>5. ProfileKnowsFiles' /\ RuntimesAreThere'
    BY <1>0, <2>1, <2>2 DEF ProfileKnowsFiles, ProfileBefore, AtBeginning, RuntimesAreThere
  <2> QED
    BY <2>3, <2>4, <2>5
<1>3. CASE CompletePack
  <2>1. /\ install.at = "complete" /\ install' = [install EXCEPT !.at = "callback"]
        /\ journal' = Settled /\ UNCHANGED <<saved, entity>>
        /\ stranded' = stranded \ {install.pack}
    BY <1>3 DEF CompletePack, InstallAt, GoOn
  <2>2. /\ install'.at = "callback" /\ journal'.status = "settled"
        /\ UNCHANGED <<install.pack, install.snapshot, install.flaw, install.profileSaved, install.stale, install.resumed>>
    BY <2>1 DEF PackTypes, Settled
  <2>3. PackTypes'
    BY <1>0, <2>1 DEF PackTypes, InstallSteps, Settled, PackContent
  <2>4. JournalKnowsFiles'
    BY <1>0, <2>1, <2>2, PackAssumption DEF JournalKnowsFiles, IsWhole, HoldsPack
  <2>5. StepsKnowJournal' /\ StepsKnowPack'
    BY <1>0, <2>2 DEF StepsKnowJournal, StepsKnowPack, Verified, AtStaging, AtApplying, AtCommitting
  <2>6. ProfileKnowsFiles' /\ RuntimesAreThere'
    BY <1>0, <2>1, <2>2 DEF ProfileKnowsFiles, ProfileBefore, AtBeginning, RuntimesAreThere, HoldsPack
  <2> QED
    BY <2>3, <2>4, <2>5, <2>6
<1>4. CASE PackInstalled
  <2>1. /\ install.at = "callback" /\ install' = NoInstall /\ install'.at = "idle"
        /\ ~install'.profileSaved /\ ~install'.resumed
        /\ UNCHANGED <<saved, entity, journal, stranded>>
    BY <1>4 DEF PackInstalled, InstallAt, NoInstall, Quiet
  <2>2. PackTypes'
    BY <1>0, <2>1 DEF PackTypes, InstallSteps, NoInstall, Flaws
  <2>3. JournalKnowsFiles' /\ StepsKnowJournal' /\ StepsKnowPack'
    BY <1>0, <2>1 DEF JournalKnowsFiles, IsWhole, HoldsPack, StepsKnowJournal, StepsKnowPack, Verified,
                      AtStaging, AtApplying, AtCommitting
  <2>4. ProfileKnowsFiles' /\ RuntimesAreThere'
    BY <1>0, <2>1 DEF ProfileKnowsFiles, ProfileBefore, RuntimesAreThere, RuntimeInstalled, AtApplying, AtCommitting
  <2> QED
    BY <2>2, <2>3, <2>4
<1> QED
  BY <1>1, <1>2, <1>3, <1>4

\* What became of the transaction of an installation that has failed.
LEMMA PutBackRestores ==
    ASSUME PackInv, PutBack, install.at \notin {"idle", "undo"}
    PROVE  /\ content' \in PackContent
           /\ journal' \in [status : {"settled", "staging", "applying", "committing"},
                            key : Packs \cup {Unpacked}, before : PackContent]
           /\ ProfileBefore' = ProfileBefore
           /\ IF journal'.status = "settled" THEN IsWhole(content') ELSE IsWhole(journal'.before)
           /\ journal'.status = "staging" => content' = journal'.before
           /\ journal'.status = "committing" =>
                  /\ HoldsPack(content', journal'.key) /\ journal' = journal
                  /\ AtBeginning \/ install.at = "begin"
           /\ journal.status = "committing" => journal'.status = "committing" \/ AtCommitting
<1> USE DEF PackInv, PackCore
<1>1. CASE ~Transacting
  <2>1. UNCHANGED <<content, journal>>
    BY <1>1 DEF PutBack
  <2>2. AtBeginning \/ install.at \in {"begin", "callback"}
    BY <1>1 DEF Transacting, InstallAt, AtBeginning, PackTypes, InstallSteps, StepsKnowJournal, AtStaging
  <2> QED
    BY <2>1, <2>2 DEF PackTypes, ProfileBefore, JournalKnowsFiles, StepsKnowJournal
<1>2. CASE Transacting
  <2>1. journal.status # "settled" /\ (journal.status = "committing" => AtCommitting)
    BY <1>2 DEF Transacting, InstallAt, StepsKnowJournal, AtStaging, AtApplying, AtCommitting
  <2>2. CASE content' = journal.before /\ journal' = Settled
    <3>1. journal'.status = "settled" /\ journal' \in [status : {"settled", "staging", "applying", "committing"},
                            key : Packs \cup {Unpacked}, before : PackContent]
      BY <2>2 DEF Settled, PackContent
    <3> QED
      BY <2>1, <2>2, <3>1 DEF ProfileBefore, JournalKnowsFiles, PackTypes
  <2>3. CASE journal' = [journal EXCEPT !.status = "applying"] /\ UNCHANGED content
    <3>1. journal'.status = "applying" /\ journal'.before = journal.before
          /\ journal' \in [status : {"settled", "staging", "applying", "committing"},
                            key : Packs \cup {Unpacked}, before : PackContent]
      BY <2>3 DEF PackTypes
    <3> QED
      BY <2>1, <2>3, <3>1 DEF ProfileBefore, JournalKnowsFiles, PackTypes
  <2> QED
    BY <1>2, <2>2, <2>3 DEF PutBack
<1> QED
  BY <1>1, <1>2

LEMMA FailureKeeps == ASSUME PackInv, PackFails PROVE PackCore'
<1> USE DEF PackInv, PackCore
<1>1. /\ install.at \notin {"idle", "undo"} /\ PutBack
      /\ UNCHANGED <<source, runtimes, saved, entity, late, stranded>>
  BY DEF PackFails
<1>2. install.pack \in Packs /\ install.snapshot \in runtimes \cup {Unpacked}
  BY <1>1 DEF StepsKnowPack, RuntimesAreThere
<1>3. CASE source = "modrinth" /\ install.at = "callback"
  <2>1. /\ install' = NoInstall /\ install'.at = "idle" /\ ~install'.profileSaved /\ ~install'.resumed
        /\ UNCHANGED <<content, journal>>
    BY <1>1, <1>3 DEF PackFails, InstallAt, NoInstall, PutBack, Transacting
  <2>2. PackTypes'
    BY <1>1, <2>1 DEF PackTypes, InstallSteps, NoInstall, Flaws
  <2>3. JournalKnowsFiles' /\ StepsKnowJournal' /\ StepsKnowPack'
    BY <1>1, <1>3, <2>1 DEF JournalKnowsFiles, IsWhole, HoldsPack, StepsKnowJournal, StepsKnowPack, Verified,
                      AtStaging, AtApplying, AtCommitting
  <2>4. ProfileKnowsFiles' /\ RuntimesAreThere'
    BY <1>1, <1>3, <2>1 DEF ProfileKnowsFiles, ProfileBefore, RuntimesAreThere, RuntimeInstalled, AtApplying, AtCommitting
  <2> QED
    BY <2>2, <2>3, <2>4
<1>4. CASE install' = [install EXCEPT !.at = "undo"] /\ ~(source = "modrinth" /\ install.at = "callback")
  <2>1. /\ install'.at = "undo"
        /\ UNCHANGED <<install.pack, install.snapshot, install.flaw, install.profileSaved, install.stale, install.resumed>>
    BY <1>4 DEF PackTypes
  <2>2. PackTypes'
    BY <1>1, <1>4, PutBackRestores DEF PackTypes, InstallSteps
  <2>3. JournalKnowsFiles' /\ StepsKnowJournal' /\ StepsKnowPack'
    <3>1. JournalKnowsFiles'
      BY <1>1, <2>1, PutBackRestores DEF JournalKnowsFiles, IsWhole, HoldsPack
    <3> QED
      BY <1>1, <1>2, <2>1, <3>1 DEF StepsKnowJournal, StepsKnowPack, Verified, AtStaging, AtApplying, AtCommitting
  <2>4. RuntimesAreThere'
    BY <1>1, <1>2, <2>1, PutBackRestores DEF RuntimesAreThere, RuntimeInstalled, AtApplying, AtCommitting
  <2>5. ProfileKnowsFiles'
    <3>1. ProfileBefore' = ProfileBefore /\ (journal'.status = "committing" =>
              journal' = journal /\ (AtBeginning \/ install.at = "begin"))
      BY <1>1, PutBackRestores
    <3>2. \/ saved = ProfileBefore \/ late \/ install.profileSaved
          \/ journal'.status = "committing" /\ saved = journal'.key
      <4>1. late \in BOOLEAN /\ install.profileSaved \in BOOLEAN
        BY DEF PackTypes
      <4>2. \/ saved = ProfileBefore \/ late \/ install.profileSaved
            \/ journal.status = "committing" /\ saved = journal.key /\ install.at \notin {"commit", "save"}
        BY <1>1, <4>1 DEF ProfileKnowsFiles
      <4>3. install.at = "complete" => install.profileSaved
        BY <4>1 DEF ProfileKnowsFiles
      <4>4. journal.status = "committing" =>
                \/ journal'.status = "committing" /\ journal'.key = journal.key
                \/ install.at \in {"commit", "save", "complete"}
        BY <1>1, <3>1, PutBackRestores DEF AtCommitting
      <4> QED
        BY <4>1, <4>2, <4>3, <4>4
    <3>3. source = "modrinth" /\ ~install.resumed =>
              \/ install.snapshot = ProfileBefore \/ late
              \/ journal'.status = "committing" /\ ~install.profileSaved
      <4>1. ~(AtCommitting /\ (AtBeginning \/ install.at \in {"begin", "undo"}))
        BY DEF AtCommitting, AtBeginning
      <4>2. journal.status = "committing" => journal'.status = "committing" \/ AtCommitting
        BY <1>1, PutBackRestores
      <4> QED
        BY <1>1, <1>4, <4>1, <4>2 DEF ProfileKnowsFiles
    <3>4. install.profileSaved => journal'.status # "committing"
      BY <3>1 DEF ProfileKnowsFiles
    <3> QED
      BY <1>1, <2>1, <3>1, <3>2, <3>3, <3>4 DEF ProfileKnowsFiles, AtBeginning
  <2> QED
    BY <2>2, <2>3, <2>4, <2>5
<1> QED
  BY <1>1, <1>3, <1>4 DEF PackFails, InstallAt, GoOn

\* A release is refused for what is wrong with it, or for a commit of another
\* pack that waits to be finished.
LEMMA RefusalKeeps == ASSUME PackInv, RefusePack PROVE PackCore'
<1> USE DEF PackInv, PackCore
<1>1. /\ install' = [install EXCEPT !.at = "undo"]
      /\ install.profileSaved => install.resumed /\ journal'.status # "committing"
      /\ journal' \in {journal, Settled}
      /\ journal' # journal => journal.status = "staging"
      /\ AtBeginning \/ install.at \in {"begin", "download", "verify"}
      /\ install.at \in {"archive", "plan", "begin"} => UNCHANGED journal
      /\ UNCHANGED <<source, content, runtimes, saved, entity, late, stranded>>
  <2>1. /\ install' = [install EXCEPT !.at = "undo"] /\ UNCHANGED <<source, content, runtimes, saved, entity, late, stranded>>
        /\ journal' = IF install.at \in {"download", "verify"} THEN Settled ELSE journal
        /\ \/ install.at \in {"archive", "plan", "download", "verify"}
           \/ install.at = "begin" /\ journal.status = "committing"
    BY DEF RefusePack, GoOn, Quiet, InstallAt
  <2>2. install.at \in {"download", "verify"} => journal.status = "staging"
    BY DEF StepsKnowJournal, AtStaging
  <2>3. install.profileSaved => install.resumed /\ journal'.status # "committing"
    <3>1. Settled.status = "settled"
      BY DEF Settled
    <3> QED
      BY <2>1, <2>2, <3>1 DEF ProfileKnowsFiles, AtBeginning
  <2>4. AtBeginning \/ install.at \in {"begin", "download", "verify"}
    BY <2>1 DEF AtBeginning
  <2> QED
    BY <2>1, <2>2, <2>3, <2>4
<1>2. /\ install'.at = "undo" /\ install.pack \in Packs
      /\ UNCHANGED <<install.pack, install.snapshot, install.flaw, install.profileSaved, install.stale, install.resumed>>
  BY <1>1 DEF PackTypes, StepsKnowPack, AtBeginning
<1>3. /\ journal' \in [status : {"settled", "staging", "applying", "committing"},
                      key : Packs \cup {Unpacked}, before : PackContent]
      /\ ProfileBefore' = ProfileBefore
      /\ journal' # journal => journal'.status = "settled" /\ IsWhole(content)
  <2>1. Settled \in [status : {"settled", "staging", "applying", "committing"},
                     key : Packs \cup {Unpacked}, before : PackContent] /\ Settled.status = "settled"
    BY DEF Settled, PackContent
  <2>2. journal.status = "staging" => content = journal.before /\ IsWhole(content)
    BY DEF JournalKnowsFiles
  <2>3. CASE UNCHANGED journal
    BY <1>1, <2>3 DEF PackTypes, ProfileBefore
  <2>4. CASE journal' = Settled /\ journal.status = "staging"
    BY <1>1, <2>1, <2>2, <2>4 DEF ProfileBefore
  <2> QED
    BY <1>1, <2>3, <2>4
<1>4. PackTypes'
  BY <1>1, <1>3 DEF PackTypes, InstallSteps
<1>5. JournalKnowsFiles'
  BY <1>1, <1>2, <1>3 DEF JournalKnowsFiles, IsWhole, HoldsPack
<1>6. StepsKnowJournal' /\ StepsKnowPack'
  BY <1>1, <1>2 DEF StepsKnowJournal, StepsKnowPack, Verified, AtStaging, AtApplying, AtCommitting
<1>7. RuntimesAreThere'
  BY <1>1, <1>2, <1>3 DEF RuntimesAreThere, RuntimeInstalled, AtApplying, AtCommitting, AtBeginning
<1>8. ProfileKnowsFiles'
  BY <1>1, <1>2, <1>3 DEF ProfileKnowsFiles, AtBeginning
<1> QED
  BY <1>4, <1>5, <1>6, <1>7, <1>8

LEMMA UndoKeeps == ASSUME PackInv, UndoProfile PROVE PackCore'
<1> USE DEF PackInv, PackCore
<1>1. /\ install.at = "undo" /\ entity' = install.snapshot /\ install' = NoInstall
      /\ saved' = IF late' /\ UNCHANGED saved THEN saved
                  ELSE IF source = "modrinth" /\ install.profileSaved THEN install.snapshot ELSE saved
      /\ late => late'
      /\ install.resumed \/ (source = "curseforge" /\ install.profileSaved) => late'
      /\ late' \in BOOLEAN
      /\ UNCHANGED <<source, content, runtimes, journal, stranded>>
  BY DEF UndoProfile, InstallAt, PackTypes
<1>2. install'.at = "idle" /\ ~install'.profileSaved /\ ~install'.resumed
  BY <1>1 DEF NoInstall
<1>3. PackTypes'
  BY <1>1 DEF PackTypes, NoInstall, InstallSteps, Flaws
<1>4. JournalKnowsFiles' /\ StepsKnowJournal' /\ StepsKnowPack'
  BY <1>1, <1>2 DEF JournalKnowsFiles, IsWhole, HoldsPack, StepsKnowJournal, StepsKnowPack, Verified,
                    AtStaging, AtApplying, AtCommitting
<1>5. RuntimesAreThere'
  BY <1>1, <1>2 DEF RuntimesAreThere, RuntimeInstalled, AtApplying, AtCommitting
<1>6. ProfileKnowsFiles'
  <2>1. ProfileBefore' = ProfileBefore
    BY <1>1 DEF ProfileBefore
  <2>2. CASE ~late'
    <3>1. ~late /\ ~install.resumed /\ ~(source = "curseforge" /\ install.profileSaved)
      BY <1>1, <2>2
    <3>2. CASE ~install.profileSaved
      BY <1>1, <1>2, <2>1, <2>2, <3>1, <3>2 DEF ProfileKnowsFiles, AtBeginning
    <3>3. CASE install.profileSaved /\ source = "modrinth"
      BY <1>1, <1>2, <2>1, <2>2, <3>1, <3>3 DEF ProfileKnowsFiles, AtBeginning
    <3> QED
      BY <3>1, <3>2, <3>3 DEF PackTypes
  <2>3. CASE late'
    BY <1>2, <2>3 DEF ProfileKnowsFiles, AtBeginning
  <2> QED
    BY <2>2, <2>3
<1> QED
  BY <1>3, <1>4, <1>5, <1>6

LEMMA DeathKeeps == ASSUME PackInv, LauncherFalls PROVE PackCore'
<1> USE DEF PackInv, PackCore
<1>1. /\ install.at # "idle" /\ entity' = saved /\ install' = NoInstall
      /\ late' = (late \/ (install.at = "undo" /\ install.profileSaved))
      /\ UNCHANGED <<source, content, runtimes, saved, journal, stranded>>
  BY DEF LauncherFalls, InstallAt
<1>2. install'.at = "idle" /\ ~install'.profileSaved /\ ~install'.resumed
  BY <1>1 DEF NoInstall
<1>3. PackTypes'
  BY <1>1 DEF PackTypes, NoInstall, InstallSteps, Flaws
<1>4. JournalKnowsFiles' /\ StepsKnowJournal' /\ StepsKnowPack'
  BY <1>1, <1>2 DEF JournalKnowsFiles, IsWhole, HoldsPack, StepsKnowJournal, StepsKnowPack, Verified,
                    AtStaging, AtApplying, AtCommitting
<1>5. RuntimesAreThere'
  BY <1>1, <1>2 DEF RuntimesAreThere, RuntimeInstalled, AtApplying, AtCommitting
<1>6. ProfileKnowsFiles'
  BY <1>1, <1>2 DEF ProfileKnowsFiles, ProfileBefore, AtBeginning
<1> QED
  BY <1>3, <1>4, <1>5, <1>6

\* What is known to go is decided once, and what the undo of an earlier
\* transaction brings back is either among it, or noted as having come back.
LEMMA StaleKeeps == ASSUME PackInv, [PackNext]_packVars PROVE StaleIsKnown'
<1> USE DEF PackInv, PackCore
<1>1. CASE ReadManagedList
  <2>1. /\ install.at = "managed" /\ install' = [install EXCEPT !.at = "begin", !.stale = StaleFiles]
        /\ UNCHANGED <<source, content, journal, stranded>>
    BY <1>1 DEF ReadManagedList, InstallAt, Quiet
  <2>2. install'.at = "begin" /\ install'.pack = install.pack /\ install'.stale = StaleFiles
    BY <2>1 DEF PackTypes
  <2>3. source = "modrinth" /\ journal.status = "settled" =>
            content.own \subseteq StaleFiles \cup {install.pack} \cup stranded
    BY PackAssumption DEF JournalKnowsFiles, IsWhole, StaleFiles, PackTypes, PackContent
  <2> QED
    BY <2>1, <2>2, <2>3 DEF StaleIsKnown, AtStaging, AtApplying, StaleFiles
<1>2. CASE RollBackEarlier
  BY <1>2 DEF RollBackEarlier, StaleIsKnown, InstallAt, AtStaging, AtApplying
<1>3. CASE ResumeCommit
  <2>1. /\ install' = [install EXCEPT !.profileSaved = TRUE, !.resumed = TRUE]
        /\ stranded' = stranded \ {install.pack} /\ UNCHANGED <<source, content>>
        /\ install.at = "begin" /\ HoldsPack(content, install.pack)
    BY <1>3 DEF ResumeCommit, InstallAt, CommitKey, JournalKnowsFiles
  <2>2. UNCHANGED <<install.at, install.pack, install.stale>>
    BY <2>1 DEF PackTypes
  <2> QED
    BY <2>1, <2>2 DEF StaleIsKnown, HoldsPack, AtStaging, AtApplying
<1>4. CASE BeginFiles
  <2>1. /\ install' = [install EXCEPT !.at = "stage"] /\ install.at = "begin"
        /\ journal.status = "settled" /\ journal'.before = content /\ UNCHANGED <<source, stranded>>
    BY <1>4 DEF BeginFiles, InstallAt, GoOn, Quiet
  <2>2. install'.at = "stage" /\ UNCHANGED <<install.pack, install.stale>>
    BY <2>1 DEF PackTypes
  <2> QED
    BY <2>1, <2>2 DEF StaleIsKnown
<1>5. CASE install' = NoInstall
  BY <1>5, PackAssumption DEF NoInstall, StaleIsKnown, AtStaging, AtApplying
<1>6. ASSUME NEW p \in Packs, NEW flaw \in Flaws, BeginPack(p, flaw) PROVE StaleIsKnown'
  BY <1>6 DEF BeginPack, NewInstall, NoInstall, StaleIsKnown, AtStaging, AtApplying
<1>7. ASSUME install'.at \in {"undo", "commit", "save", "complete", "callback", "archive", "plan",
                              "tasks", "managed", "overrides"}
                 \/ (install'.at \in {"runtime", "begin"} /\ source' = "curseforge"),
             UNCHANGED <<install.pack, install.stale>>
      PROVE  StaleIsKnown'
  BY <1>7 DEF StaleIsKnown, AtStaging, AtApplying
<1>8. ASSUME AtStaging \/ AtApplying, UNCHANGED <<journal.before, source, stranded>>,
             install'.at # "begin", UNCHANGED <<install.pack, install.stale>>
      PROVE  StaleIsKnown'
  BY <1>8 DEF StaleIsKnown
<1>9. CASE FetchArchive \/ LoadManifest \/ PreflightOverrides \/ BuildDownloads \/ PlanCurseForge
           \/ PlanOverrides
  <2>1. PICK step \in {"plan", "runtime", "tasks", "managed", "overrides", "begin"} :
            /\ install' = [install EXCEPT !.at = step] /\ UNCHANGED source
            /\ step \in {"runtime", "begin"} => source = "curseforge"
    BY <1>9 DEF FetchArchive, LoadManifest, PreflightOverrides, BuildDownloads, PlanCurseForge,
           PlanOverrides, Prepare, GoOn, Quiet, InstallAt, StepsKnowPack
  <2>2. install'.at = step /\ UNCHANGED <<install.pack, install.stale>>
    BY <2>1 DEF PackTypes
  <2> QED
    BY <1>7, <2>1, <2>2
<1>10. CASE ExtractModrinth \/ DownloadModrinth \/ WriteManagedList \/ DownloadCurseForge
            \/ VerifyCurseForge \/ ExtractCurseForge \/ CheckDestinations
            \/ ActivateShared \/ ActivateOwn \/ ActivateList \/ DropStale \/ MarkCommitting
  <2>1. PICK step \in InstallSteps \ {"begin"} : install' = [install EXCEPT !.at = step]
    BY <1>10 DEF ExtractModrinth, DownloadModrinth, WriteManagedList, DownloadCurseForge, VerifyCurseForge,
           ExtractCurseForge, CheckDestinations, ActivateShared, ActivateOwn, ActivateList, DropStale,
           MarkCommitting, Prepare, GoOn, InstallSteps
  <2>2. install'.at = step /\ UNCHANGED <<install.pack, install.stale>>
    BY <2>1 DEF PackTypes
  <2>3. AtStaging \/ AtApplying
    BY <1>10 DEF ExtractModrinth, DownloadModrinth, WriteManagedList, DownloadCurseForge, VerifyCurseForge,
           ExtractCurseForge, CheckDestinations, ActivateShared, ActivateOwn, ActivateList, DropStale,
           MarkCommitting, InstallAt, AtStaging, AtApplying
  <2>4. UNCHANGED <<journal.before, source, stranded>>
    BY <1>10 DEF ExtractModrinth, DownloadModrinth, WriteManagedList, DownloadCurseForge, VerifyCurseForge,
           ExtractCurseForge, CheckDestinations, ActivateShared, ActivateOwn, ActivateList, DropStale,
           MarkCommitting, Prepare, Quiet, PackTypes
  <2> QED
    BY <1>8, <2>1, <2>2, <2>3, <2>4
<1>11. CASE InstallRuntime
  <2> DEFINE step == IF source = "modrinth" THEN "activate" ELSE "plan"
  <2>1. install' = [install EXCEPT !.at = step] /\ install.at = "runtime"
        /\ UNCHANGED <<source, journal, stranded>>
    BY <1>11 DEF InstallRuntime, InstallAt, GoOn, Quiet
  <2>2. install'.at = step /\ UNCHANGED <<install.pack, install.stale>>
    BY <2>1 DEF PackTypes
  <2>3. CASE source = "modrinth"
    BY <1>8, <2>1, <2>2, <2>3 DEF AtStaging
  <2>4. CASE source # "modrinth"
    BY <1>7, <2>2, <2>4
  <2> QED
    BY <2>3, <2>4
<1>12. CASE CommitModrinth \/ CommitCurseForge \/ SaveProfile \/ CompletePack
  <2>1. PICK step \in {"save", "complete", "callback"} :
            \/ install' = [install EXCEPT !.at = step]
            \/ install' = [install EXCEPT !.at = step, !.profileSaved = TRUE]
    BY <1>12 DEF CommitModrinth, CommitCurseForge, SaveProfile, CompletePack, GoOn
  <2>2. install'.at = step /\ UNCHANGED <<install.pack, install.stale>>
    BY <2>1 DEF PackTypes
  <2> QED
    BY <1>7, <2>2
<1>13. CASE install' = [install EXCEPT !.at = "undo"]
  <2>1. install'.at = "undo" /\ UNCHANGED <<install.pack, install.stale>>
    BY <1>13 DEF PackTypes
  <2> QED
    BY <1>7, <2>1
<1>14. CASE UNCHANGED packVars
  BY <1>14 DEF packVars, StaleIsKnown, AtStaging, AtApplying
<1>15. PackFails \/ RefusePack => install' = NoInstall \/ install' = [install EXCEPT !.at = "undo"]
  BY DEF PackFails, RefusePack, GoOn
<1>16. PackInstalled \/ UndoProfile \/ LauncherFalls => install' = NoInstall
  BY DEF PackInstalled, UndoProfile, LauncherFalls
<1> QED
  BY <1>1, <1>2, <1>3, <1>4, <1>5, <1>6, <1>9, <1>10, <1>11, <1>12, <1>13, <1>14, <1>15, <1>16
  DEF PackNext

LEMMA PackKeeps == ASSUME PackInv, [PackNext]_packVars PROVE PackInv'
<1>0. StaleIsKnown'
  BY StaleKeeps
<1>1. CASE \E p \in Packs, flaw \in Flaws : BeginPack(p, flaw)
  BY <1>0, <1>1, BeginPackKeeps DEF PackInv
<1>2. CASE UNCHANGED packVars
  <2>1. UNCHANGED <<source, content, runtimes, saved, entity, journal, install, late, stranded>>
    BY <1>2 DEF packVars
  <2>2. PackTypes' /\ JournalKnowsFiles'
    <3>1. PackTypes'
      BY <2>1 DEF PackInv, PackCore, PackTypes
    <3> QED
      BY <2>1, <3>1 DEF PackInv, PackCore, JournalKnowsFiles, IsWhole, HoldsPack
  <2>3. StepsKnowJournal' /\ StepsKnowPack'
    BY <2>1 DEF PackInv, PackCore, StepsKnowJournal, StepsKnowPack, Verified, AtStaging, AtApplying, AtCommitting
  <2>4. ProfileKnowsFiles'
    BY <2>1 DEF PackInv, PackCore, ProfileKnowsFiles, ProfileBefore, AtBeginning
  <2>5. RuntimesAreThere'
    BY <2>1 DEF PackInv, PackCore, RuntimesAreThere, RuntimeInstalled, AtApplying, AtCommitting
  <2> QED
    BY <1>0, <2>2, <2>3, <2>4, <2>5 DEF PackInv, PackCore
<1> QED
  BY <1>0, <1>1, <1>2, PrepareKeeps, ReadListKeeps, InstallRuntimeKeeps, BeginFilesKeeps, ActivateKeeps, CommitKeeps,
     FailureKeeps, RefusalKeeps, UndoKeeps, DeathKeeps DEF PackNext, PackInv

\* Types of the installation of a pack (modrinth.py, curseforge.py).
THEOREM PackTypeCorrect == PackSpec => []PackTypeOK
<1>1. PackInit => PackInv
  BY PackStarts
<1>2. PackInv /\ [PackNext]_packVars => PackInv'
  BY PackKeeps
<1>3. PackInv => PackTypeOK
  BY DEF PackInv, PackCore, PackTypes, PackContent, PackTypeOK
<1> QED
  BY <1>1, <1>2, <1>3, PTL DEF PackSpec

\* Whatever fails, and whenever the launcher dies: an instance with no open
\* transaction holds the files of one pack, beside what an undo brought back after
\* the list of what to remove was read; the profile names that pack, its loader is
\* installed, and nothing of a flawed release was put in place.
THEOREM PackStaysWhole == PackSpec => []PackIsWhole
<1>1. PackInit => PackInv
  BY PackStarts
<1>2. PackInv /\ [PackNext]_packVars => PackInv'
  BY PackKeeps
<1>3. PackInv => PackIsWhole
  <2> SUFFICES ASSUME PackInv PROVE PackIsWhole
    OBVIOUS
  <2> USE DEF PackInv, PackCore
  <2>1. journal.status = "settled" =>
          /\ source = "modrinth" => /\ content.list = content.shared
                                    /\ content.own \subseteq {content.shared} \cup stranded
          /\ content.shared \in content.own \cup {Unpacked}
          /\ saved = content.shared \/ late \/ InstallAt("undo")
    BY DEF JournalKnowsFiles, IsWhole, ProfileKnowsFiles, ProfileBefore, InstallAt
  <2>2. (InstallAt("idle") => entity = saved \/ late) /\ {saved, entity} \subseteq runtimes \cup {Unpacked}
    BY DEF ProfileKnowsFiles, RuntimesAreThere, InstallAt
  <2>3. Transacting /\ content # journal.before => install.flaw = "none"
    BY DEF Transacting, InstallAt, JournalKnowsFiles, StepsKnowPack, StepsKnowJournal, Verified,
           AtStaging, AtApplying, AtCommitting
  <2> QED
    BY <2>1, <2>2, <2>3 DEF PackIsWhole
<1> QED
  BY <1>1, <1>2, <1>3, PTL DEF PackSpec

-----------------------------------------------------------------------------
Tokens == {"plain", "primary", "legacy", "lost"}
ProfileTable == [Account -> Profile \union {NoProfile}]

\* Every profile of `table` has a credential of its own among the `n` issued,
\* none of the ones in `used`.
Numbered(table, n, used) ==
    \A a \in Account : table[a] # NoProfile =>
        /\ table[a].number \in 0..n /\ table[a].number \notin used
        /\ table[a].form \in Tokens => table[a].number > 0
        /\ \A b \in Account \ {a} :
              table[b] # NoProfile /\ table[b].number = table[a].number => table[a].number = 0

\* A refresh has a credential that no other account has.
AskedFor(table, n) ==
    \A r \in Refresher : refresher[r] # Idle =>
        /\ refresher[r].account \in Account
        /\ refresher[r].step \in {"waiting", "asking"}
        /\ refresher[r].number \in 1..n
        /\ \A b \in Account \ {refresher[r].account} :
              table[b] # NoProfile => table[b].number # refresher[r].number

CredentialInv ==
    /\ ProfileTypeOK
    /\ Numbered(profiles, issued, spent)
    /\ AskedFor(profiles, issued)
CSpec == ProfileSpec

\* `q` is what an operation about another credential may leave of `p`.
Inherits(p, q) ==
    /\ q \in Profile \union {NoProfile}
    /\ q.form = "plain" => p.form = "plain"
    /\ q # NoProfile =>
          \/ q.number = 0 /\ q.form \notin Tokens
          \/ p # NoProfile /\ q.number = p.number /\ (q.form \in Tokens => p.form \in Tokens)

\* `q` holds the credential that is issued next.
Receives(q, n) == q \in Profile /\ q.number = n /\ q.form = "primary"

Handed(table, n, new, a) ==
    /\ Receives(new[a], n + 1)
    /\ \A b \in Account \ {a} : Inherits(table[b], new[b])

LEMMA InheritedNumbers ==
    ASSUME NEW table \in ProfileTable, NEW new \in ProfileTable, NEW n \in Nat, NEW m \in Nat, n <= m,
           NEW used, Numbered(table, n, used), 0 \notin used,
           \A a \in Account : Inherits(table[a], new[a])
    PROVE  Numbered(new, m, used)
<1>1. \A a \in Account : new[a] # NoProfile =>
        /\ new[a].number \in 0..m /\ new[a].number \notin used
        /\ new[a].form \in Tokens => new[a].number > 0
        /\ new[a].number # 0 => table[a] # NoProfile /\ new[a].number = table[a].number
  BY DEF Numbered, Inherits
<1> QED BY <1>1 DEF Numbered

LEMMA HandedNumbers ==
    ASSUME NEW table \in ProfileTable, NEW new \in ProfileTable, NEW n \in Nat, NEW used \in SUBSET (1..n),
           Numbered(table, n, used), NEW a \in Account, Handed(table, n, new, a)
    PROVE  Numbered(new, n + 1, used)
<1>1. \A b \in Account \ {a} : new[b] # NoProfile =>
        /\ new[b].number \in 0..n /\ new[b].number \notin used
        /\ new[b].form \in Tokens => new[b].number > 0
        /\ new[b].number # 0 => table[b] # NoProfile /\ new[b].number = table[b].number
  BY DEF Numbered, Inherits, Handed
<1>2. new[a] # NoProfile => new[a].number = n + 1 /\ new[a].number \notin used
  BY DEF Handed, Receives
<1> QED BY <1>1, <1>2 DEF Numbered

LEMMA StillAskedFor ==
    ASSUME NEW table \in ProfileTable, NEW new \in ProfileTable, NEW n \in Nat, NEW m \in Nat, n <= m,
           AskedFor(table, n),
           \A b \in Account : Inherits(table[b], new[b]) \/ Receives(new[b], n + 1)
    PROVE  AskedFor(new, m)
BY DEF AskedFor, Inherits, Receives

LEMMA ProfilesAreNot == NoProfile \notin Profile
BY DEF NoProfile, Profile, Forms

LEMMA DeprivedIsInherited ==
    ASSUME NEW p \in Profile
    PROVE  Deprived(p) \in Profile /\ Deprived(p).number = 0 /\ Deprived(p).form = "none"
<1> DEFINE yes == TRUE
<1>1. yes \in BOOLEAN OBVIOUS
<1>2. 0 \in 0..MaxCredential BY CredentialAssumption
<1> HIDE DEF yes
<1>3. /\ [p EXCEPT !.form = "none", !.number = 0, !.reauth = yes] \in Profile
      /\ [p EXCEPT !.form = "none", !.number = 0, !.reauth = yes].number = 0
      /\ [p EXCEPT !.form = "none", !.number = 0, !.reauth = yes].form = "none"
  BY <1>1, <1>2 DEF Profile, Forms
<1> QED BY <1>3 DEF Deprived, yes

LEMMA SecuredIsInherited ==
    ASSUME NEW p \in Profile, ProfileTypeOK
    PROVE  /\ Secured(p) \in Profile
           /\ keyReadable => Secured(p).form = "primary" /\ Secured(p).number = p.number
           /\ ~keyReadable => Secured(p).number = 0 /\ Secured(p).form = "none"
BY DeprivedIsInherited DEF Secured, Profile, Forms, ProfileTypeOK

LEMMA KeptIsInherited ==
    ASSUME NEW p \in Profile, ProfileTypeOK
    PROVE  /\ Kept(p) \in Profile /\ Inherits(p, Kept(p))
           /\ Inherits(p, [Kept(p) EXCEPT !.reauth = TRUE])
<1> DEFINE yes == TRUE
<1>1. yes \in BOOLEAN OBVIOUS
<1> HIDE DEF yes
<1>2. Kept(p) \in Profile /\ Inherits(p, Kept(p))
  <2>1. [p EXCEPT !.reauth = yes] \in Profile BY <1>1 DEF Profile
  <2> QED BY <2>1, ProfilesAreNot, DeprivedIsInherited, SecuredIsInherited
          DEF Kept, Inherits, Profile, Forms, IsEncrypted, Decryptable, Tokens, yes
<1>3. [Kept(p) EXCEPT !.reauth = yes] \in Profile
  BY <1>1, <1>2 DEF Profile
<1>4. [Kept(p) EXCEPT !.reauth = yes].form = Kept(p).form
      /\ [Kept(p) EXCEPT !.reauth = yes].number = Kept(p).number
  BY <1>2 DEF Profile
<1> QED BY <1>2, <1>3, <1>4, ProfilesAreNot DEF Inherits, yes

LEMMA FlagsAreInherited ==
    ASSUME NEW p \in Profile, NEW flag \in BOOLEAN
    PROVE  /\ [p EXCEPT !.default = flag] \in Profile
           /\ Inherits(p, [p EXCEPT !.default = flag])
           /\ Inherits(p, [p EXCEPT !.reauth = flag])
           /\ Inherits(p, [p EXCEPT !.fresh = flag])
BY ProfilesAreNot DEF Inherits, Profile

LEMMA MigratedIsInherited ==
    ASSUME NEW p \in Profile, NEW readable \in BOOLEAN
    PROVE  /\ Migrated(p, readable) \in Profile
           /\ Inherits(p, Migrated(p, readable))
BY ProfilesAreNot, DeprivedIsInherited DEF Migrated, Inherits, Profile, Forms, Tokens

LEMMA InheritanceIsTransitive ==
    ASSUME NEW p, NEW q, NEW s, Inherits(p, q), Inherits(q, s)
    PROVE  Inherits(p, s)
BY DEF Inherits

LEMMA SoleIsInherited ==
    ASSUME NEW table \in ProfileTable
    PROVE  /\ SoleIsDefault(table) \in ProfileTable
           /\ \A a \in Account : Inherits(table[a], SoleIsDefault(table)[a])
           /\ \A a \in Account : SoleIsDefault(table)[a] = NoProfile <=> table[a] = NoProfile
<1> DEFINE yes == TRUE
           present == {a \in Account : table[a] # NoProfile}
<1>1. yes \in BOOLEAN OBVIOUS
<1> HIDE DEF yes
<1>2. SoleIsDefault(table) = [a \in Account |->
          IF present = {a} THEN [table[a] EXCEPT !.default = yes] ELSE table[a]]
  BY DEF SoleIsDefault, yes
<1>3. ASSUME NEW a \in Account
      PROVE  /\ SoleIsDefault(table)[a] \in Profile \union {NoProfile}
             /\ Inherits(table[a], SoleIsDefault(table)[a])
             /\ SoleIsDefault(table)[a] = NoProfile <=> table[a] = NoProfile
  <2>1. SoleIsDefault(table)[a] = IF present = {a} THEN [table[a] EXCEPT !.default = yes]
                                  ELSE table[a]
    BY <1>2
  <2>2. table[a] \in Profile \union {NoProfile} BY DEF ProfileTable
  <2>3. Inherits(table[a], table[a]) BY <2>2 DEF Inherits
  <2>4. CASE present = {a}
    <3>1. table[a] \in Profile BY <2>2, <2>4
    <3>2. SoleIsDefault(table)[a] = [table[a] EXCEPT !.default = yes] BY <2>1, <2>4
    <3>3. Inherits(table[a], [table[a] EXCEPT !.default = yes])
          /\ [table[a] EXCEPT !.default = yes] \in Profile
      BY <3>1, <1>1, FlagsAreInherited
    <3> QED BY <3>1, <3>2, <3>3, ProfilesAreNot
  <2>5. CASE present # {a} BY <2>1, <2>2, <2>3, <2>5
  <2> QED BY <2>4, <2>5
<1> QED BY <1>2, <1>3 DEF ProfileTable

LEMMA NotDefaultIsInherited ==
    ASSUME NEW p \in Profile \union {NoProfile}
    PROVE  NotDefault(p) \in Profile \union {NoProfile} /\ Inherits(p, NotDefault(p))
<1> DEFINE no == FALSE
<1>1. no \in BOOLEAN OBVIOUS
<1> HIDE DEF no
<1>2. NotDefault(p) = IF p = NoProfile THEN p ELSE [p EXCEPT !.default = no]
  BY DEF NotDefault, no
<1>3. CASE p = NoProfile BY <1>2, <1>3 DEF Inherits
<1>4. CASE p \in Profile
  <2>1. NotDefault(p) = [p EXCEPT !.default = no] BY <1>2, <1>4, ProfilesAreNot
  <2>2. Inherits(p, [p EXCEPT !.default = no]) /\ [p EXCEPT !.default = no] \in Profile
    BY <1>1, <1>4, FlagsAreInherited
  <2> QED BY <2>1, <2>2
<1> QED BY <1>3, <1>4

\* A step about one profile.
LEMMA OneProfile ==
    ASSUME ProfileTypeOK, NEW a \in Account, Present(a), NEW q \in Profile, Inherits(profiles[a], q)
    PROVE  /\ [profiles EXCEPT ![a] = q] \in ProfileTable
           /\ \A b \in Account : Inherits(profiles[b], [profiles EXCEPT ![a] = q][b])
BY DEF ProfileTypeOK, ProfileTable, Inherits, Present

LEMMA MarkedProfiles ==
    ASSUME ProfileTypeOK, NEW a \in Account, MarkReauth(a)
    PROVE  profiles' \in ProfileTable /\ \A b \in Account : Inherits(profiles[b], profiles'[b])
<1> DEFINE yes == TRUE
           old == profiles[a]
           new == IF old.form = "offline" THEN [old EXCEPT !.reauth = yes]
                  ELSE [Kept(old) EXCEPT !.reauth = yes]
<1>1. yes \in BOOLEAN OBVIOUS
<1>2. CASE UNCHANGED profiles BY <1>2 DEF ProfileTypeOK, ProfileTable, Inherits
<1>3. CASE Present(a) /\ profiles' = [profiles EXCEPT ![a] = new]
  <2>1. old \in Profile BY <1>3 DEF ProfileTypeOK, Present
  <2> HIDE DEF old
  <2>2. Inherits(old, [old EXCEPT !.reauth = yes]) BY <1>1, <2>1, FlagsAreInherited
  <2>3. Inherits(old, [Kept(old) EXCEPT !.reauth = yes]) BY <2>1, KeptIsInherited DEF yes
  <2> HIDE DEF yes
  <2>4. /\ [old EXCEPT !.reauth = yes] \in Profile
        /\ [Kept(old) EXCEPT !.reauth = yes] \in Profile
    BY <1>1, <2>1, KeptIsInherited DEF Profile
  <2>5. new \in Profile /\ Inherits(old, new) BY <2>2, <2>3, <2>4
  <2> HIDE DEF new
  <2> QED BY <1>3, <2>5, OneProfile DEF old
<1> QED BY <1>2, <1>3 DEF MarkReauth, yes, old, new
LEMMA CredentialsInitially == ProfileInit => CredentialInv
<1> SUFFICES ASSUME ProfileInit PROVE CredentialInv OBVIOUS
<1> DEFINE yes == TRUE no == FALSE
<1>1. yes \in BOOLEAN /\ no \in BOOLEAN OBVIOUS
<1>2. PICK form \in {"plain", "legacy"}, known \in Account :
         profiles = [a \in Account |-> IF a = known
              THEN [form |-> form, number |-> 1, default |-> yes, reauth |-> no, fresh |-> no]
              ELSE NoProfile]
  BY DEF ProfileInit
<1>3. keyReadable = no BY DEF ProfileInit
<1>4. \A r \in Refresher : refresher[r] = [account |-> NoAccount, step |-> "idle", force |-> no,
                                            number |-> 0]
  BY DEF ProfileInit, Idle
<1>5. refresher = [r \in Refresher |-> refresher[r]] BY DEF ProfileInit
<1> HIDE DEF yes, no
<1>6. 0 \in 0..MaxCredential /\ 1 \in 0..MaxCredential BY CredentialAssumption
<1>7. ProfileTypeOK
  <2>1. [form |-> form, number |-> 1, default |-> yes, reauth |-> no, fresh |-> no] \in Profile
    BY <1>1, <1>6 DEF Profile, Forms
  <2>2. profiles \in [Account -> Profile \union {NoProfile}] BY <1>2, <2>1
  <2>3. \A r \in Refresher : refresher[r] \in
           [account: Account \union {NoAccount}, step: {"idle", "waiting", "asking"},
            force: BOOLEAN, number: 0..MaxCredential]
    BY <1>1, <1>4, <1>6
  <2>4. issued \in 0..MaxCredential /\ spent \subseteq 1..issued
    BY <1>6 DEF ProfileInit
  <2> QED BY <1>1, <1>3, <1>5, <2>2, <2>3, <2>4 DEF ProfileTypeOK
<1>8. Numbered(profiles, issued, spent)
  BY <1>2 DEF Numbered, ProfileInit
<1>9. AskedFor(profiles, issued)
  BY <1>4 DEF AskedFor, Idle, ProfileInit, no
<1> QED BY <1>7, <1>8, <1>9 DEF CredentialInv

\* The profiles after a step that gives nobody a credential.
LEMMA InheritKeeps ==
    ASSUME CredentialInv, profiles' \in ProfileTable,
           \A b \in Account : Inherits(profiles[b], profiles'[b]),
           keyReadable' \in BOOLEAN, issued' \in 0..MaxCredential, issued <= issued',
           UNCHANGED <<spent, refresher>>
    PROVE  CredentialInv'
<1>1. issued \in Nat /\ issued' \in Nat /\ spent \subseteq 1..issued /\ profiles \in ProfileTable
  BY CredentialAssumption DEF CredentialInv, ProfileTypeOK, ProfileTable
<1>2. 0 \notin spent /\ spent \subseteq 1..issued' BY <1>1
<1>3. Numbered(profiles', issued', spent')
  BY <1>1, <1>2, InheritedNumbers DEF CredentialInv
<1>4. AskedFor(profiles', issued')
  BY <1>1, StillAskedFor DEF CredentialInv
<1>5. AskedFor(profiles, issued)' BY <1>4 DEF AskedFor
<1>6. ProfileTypeOK'
  BY <1>1, <1>2 DEF CredentialInv, ProfileTypeOK, ProfileTable
<1> QED BY <1>3, <1>5, <1>6 DEF CredentialInv, Numbered

LEMMA OpenKeepsCredentials ==
    ASSUME CredentialInv, OpenProfiles
    PROVE  CredentialInv' /\ \A b \in Account : Inherits(profiles[b], profiles'[b])
<1>1. PICK readable \in BOOLEAN, replaced \in BOOLEAN, corrupted \in BOOLEAN, written \in BOOLEAN :
          /\ replaced => readable
          /\ keyReadable' = readable
          /\ LET kept == [a \in Account |->
                     IF corrupted \/ ~Present(a) THEN NoProfile
                     ELSE IF replaced /\ profiles[a].form = "primary"
                     THEN [profiles[a] EXCEPT !.form = "lost"]
                     ELSE profiles[a]]
                 migrated == SoleIsDefault([a \in Account |->
                     IF kept[a] = NoProfile THEN NoProfile
                     ELSE Migrated(kept[a], readable)])
             IN  profiles' = IF written THEN migrated ELSE kept
  BY Zenon DEF OpenProfiles
<1> DEFINE kept == [a \in Account |->
                     IF corrupted \/ ~Present(a) THEN NoProfile
                     ELSE IF replaced /\ profiles[a].form = "primary"
                     THEN [profiles[a] EXCEPT !.form = "lost"]
                     ELSE profiles[a]]
           carried == [a \in Account |-> IF kept[a] = NoProfile THEN NoProfile
                                       ELSE Migrated(kept[a], readable)]
<1>2. \A a \in Account : kept[a] \in Profile \union {NoProfile} /\ Inherits(profiles[a], kept[a])
  <2> SUFFICES ASSUME NEW a \in Account
               PROVE  kept[a] \in Profile \union {NoProfile} /\ Inherits(profiles[a], kept[a])
    OBVIOUS
  <2>1. profiles[a] \in Profile \union {NoProfile} BY DEF CredentialInv, ProfileTypeOK
  <2>2. Inherits(profiles[a], profiles[a]) /\ Inherits(profiles[a], NoProfile)
    BY <2>1 DEF Inherits, NoProfile
  <2>3. ASSUME Present(a), profiles[a].form = "primary"
        PROVE  /\ [profiles[a] EXCEPT !.form = "lost"] \in Profile
               /\ Inherits(profiles[a], [profiles[a] EXCEPT !.form = "lost"])
    BY <2>1, <2>3, ProfilesAreNot DEF Present, Inherits, Profile, Forms, Tokens
  <2> QED BY <2>1, <2>2, <2>3
<1>3. kept \in ProfileTable BY <1>2 DEF ProfileTable
<1> HIDE DEF kept
<1>4. \A a \in Account : carried[a] \in Profile \union {NoProfile} /\ Inherits(kept[a], carried[a])
  BY <1>2, MigratedIsInherited, ProfilesAreNot DEF Inherits, NoProfile
<1>5. carried \in ProfileTable BY <1>4 DEF ProfileTable
<1>6. SoleIsDefault(carried) \in ProfileTable
      /\ \A a \in Account : Inherits(carried[a], SoleIsDefault(carried)[a])
  BY <1>5, SoleIsInherited
<1>7. profiles' = IF written THEN SoleIsDefault(carried) ELSE kept BY <1>1 DEF kept
<1> HIDE DEF carried
<1>8. \A a \in Account : Inherits(profiles[a], SoleIsDefault(carried)[a])
  BY <1>2, <1>4, <1>6, InheritanceIsTransitive
<1>9. profiles' \in ProfileTable /\ \A a \in Account : Inherits(profiles[a], profiles'[a])
  BY <1>2, <1>3, <1>6, <1>7, <1>8
<1>10. UNCHANGED <<issued, spent, refresher>> /\ keyReadable' \in BOOLEAN /\ issued <= issued'
       /\ issued' \in 0..MaxCredential
  BY <1>1, CredentialAssumption DEF OpenProfiles, CredentialInv, ProfileTypeOK
<1> QED BY <1>9, <1>10, InheritKeeps

\* What a step does to the profiles.
Changes ==
    \A b \in Account : Inherits(profiles[b], profiles'[b]) \/ Receives(profiles'[b], issued + 1)

LEMMA AfterReceiving ==
    ASSUME CredentialInv, NEW a \in Account, profiles' \in ProfileTable, issued < MaxCredential,
           issued' = issued + 1, Receives(profiles'[a], issued + 1),
           \A b \in Account \ {a} : Inherits(profiles[b], profiles'[b])
    PROVE  /\ Numbered(profiles', issued', spent) /\ AskedFor(profiles', issued')
           /\ issued' \in 0..MaxCredential /\ spent \in SUBSET (1..issued')
           /\ Changes
<1>1. /\ issued \in Nat /\ issued + 1 \in Nat /\ issued <= issued + 1
      /\ issued + 1 \in 0..MaxCredential /\ spent \in SUBSET (1..issued)
      /\ profiles \in ProfileTable
  BY CredentialAssumption DEF CredentialInv, ProfileTypeOK, ProfileTable
<1>2. Handed(profiles, issued, profiles', a) BY DEF Handed
<1>3. Numbered(profiles', issued + 1, spent)
  BY <1>1, <1>2, HandedNumbers DEF CredentialInv
<1>4. Changes BY DEF Changes
<1>5. AskedFor(profiles', issued + 1)
  BY <1>1, <1>4, StillAskedFor DEF CredentialInv, Changes
<1>6. spent \in SUBSET (1..(issued + 1)) BY <1>1
<1> QED BY <1>1, <1>3, <1>4, <1>5, <1>6

LEMMA CreateKeepsCredentials ==
    ASSUME CredentialInv, NEW a \in Account, CreateProfile(a)
    PROVE  CredentialInv' /\ Changes
<1> DEFINE yes == TRUE no == FALSE
           new == [form |-> "plain", number |-> issued + 1, default |-> yes,
                   reauth |-> no, fresh |-> yes]
<1>1. yes \in BOOLEAN /\ no \in BOOLEAN OBVIOUS
<1>2. /\ issued \in Nat /\ issued < MaxCredential /\ issued' = issued + 1 /\ issued <= issued'
      /\ issued' \in 0..MaxCredential /\ keyReadable' \in BOOLEAN
      /\ UNCHANGED <<spent, refresher>> /\ profiles \in ProfileTable /\ spent \in SUBSET (1..issued)
  BY CredentialAssumption DEF CreateProfile, CredentialInv, ProfileTypeOK, ProfileTable
<1>3. CASE UNCHANGED profiles
  <2>1. \A b \in Account : Inherits(profiles[b], profiles'[b])
    BY <1>2, <1>3 DEF Inherits, ProfileTable
  <2> QED BY <1>2, <1>3, <2>1, InheritKeeps DEF Changes
<1>4. CASE profiles' = [b \in Account |-> IF b = a THEN Secured(new) ELSE NotDefault(profiles[b])]
  <2> HIDE DEF yes, no
  <2>1. new \in Profile /\ new.number = issued + 1 BY <1>1, <1>2 DEF Profile, Forms
  <2> HIDE DEF new
  <2>2. /\ Secured(new) \in Profile
        /\ keyReadable => Secured(new).form = "primary" /\ Secured(new).number = issued + 1
        /\ ~keyReadable => Secured(new).form = "none" /\ Secured(new).number = 0
    BY <2>1, SecuredIsInherited DEF CredentialInv
  <2>3. /\ profiles' \in ProfileTable /\ profiles'[a] = Secured(new)
        /\ \A b \in Account \ {a} : Inherits(profiles[b], profiles'[b])
    BY <1>2, <1>4, <2>2, NotDefaultIsInherited DEF ProfileTable
  <2>4. CASE keyReadable
    <3>1. Receives(profiles'[a], issued + 1) BY <2>2, <2>3, <2>4 DEF Receives
    <3>2. /\ Numbered(profiles', issued', spent) /\ AskedFor(profiles', issued')
          /\ spent \in SUBSET (1..issued') /\ Changes
      BY <1>2, <2>3, <3>1, AfterReceiving
    <3>3. ProfileTypeOK' BY <1>2, <2>3, <3>2 DEF ProfileTypeOK, CredentialInv, ProfileTable
    <3> QED BY <1>2, <3>2, <3>3 DEF CredentialInv, Numbered, AskedFor
  <2>5. CASE ~keyReadable
    <3>1. Inherits(profiles[a], profiles'[a])
      BY <2>2, <2>3, <2>5 DEF Inherits, Tokens
    <3>2. \A b \in Account : Inherits(profiles[b], profiles'[b]) BY <2>3, <3>1
    <3> QED BY <1>2, <2>3, <3>2, InheritKeeps DEF Changes
  <2> QED BY <2>4, <2>5
<1> QED BY <1>3, <1>4 DEF CreateProfile, yes, no, new

LEMMA CreateOfflineKeepsCredentials ==
    ASSUME CredentialInv, NEW a \in Account, CreateOfflineProfile(a)
    PROVE  CredentialInv' /\ Changes
<1> DEFINE yes == TRUE no == FALSE
           new == [form |-> "offline", number |-> 0, default |-> yes, reauth |-> no, fresh |-> no]
<1>1. yes \in BOOLEAN /\ no \in BOOLEAN OBVIOUS
<1>2. profiles' = [b \in Account |-> IF b = a THEN new ELSE NotDefault(profiles[b])]
  BY DEF CreateOfflineProfile
<1> HIDE DEF yes, no
<1>3. new \in Profile /\ new.number = 0 /\ new.form = "offline"
  BY <1>1, CredentialAssumption DEF Profile, Forms
<1> HIDE DEF new
<1>4. Inherits(profiles[a], new) BY <1>3 DEF Inherits, Tokens
<1>5. profiles' \in ProfileTable /\ \A b \in Account : Inherits(profiles[b], profiles'[b])
  BY <1>2, <1>3, <1>4, NotDefaultIsInherited DEF ProfileTable, CredentialInv, ProfileTypeOK
<1>6. /\ keyReadable' \in BOOLEAN /\ issued' \in 0..MaxCredential /\ issued <= issued'
      /\ UNCHANGED <<spent, refresher>>
  BY CredentialAssumption DEF CreateOfflineProfile, CredentialInv, ProfileTypeOK
<1> QED BY <1>5, <1>6, InheritKeeps DEF Changes

LEMMA EditKeepsCredentials ==
    ASSUME CredentialInv, NEW a \in Account,
           EditProfile(a) \/ DeleteProfile(a) \/ SetDefaultProfile(a) \/ TokenExpires(a)
    PROVE  CredentialInv' /\ Changes
<1>1. /\ keyReadable' \in BOOLEAN /\ issued' \in 0..MaxCredential /\ issued <= issued'
      /\ UNCHANGED <<spent, refresher>> /\ profiles \in ProfileTable /\ ProfileTypeOK
  BY CredentialAssumption
  DEF EditProfile, DeleteProfile, SetDefaultProfile, TokenExpires, CredentialInv, ProfileTypeOK, ProfileTable
<1>2. profiles[a] \in Profile
  BY <1>1 DEF EditProfile, DeleteProfile, SetDefaultProfile, TokenExpires, Present, ProfileTable
<1>3. CASE EditProfile(a)
  <2>1. profiles' = [profiles EXCEPT ![a] = Kept(profiles[a])] /\ Present(a)
    BY <1>3 DEF EditProfile
  <2>2. profiles' \in ProfileTable /\ \A b \in Account : Inherits(profiles[b], profiles'[b])
    BY <1>1, <1>2, <2>1, KeptIsInherited, OneProfile
  <2> QED BY <1>1, <2>2, InheritKeeps DEF Changes
<1>4. CASE DeleteProfile(a)
  <2> DEFINE left == [profiles EXCEPT ![a] = NoProfile]
  <2>1. left \in ProfileTable /\ \A b \in Account : Inherits(profiles[b], left[b])
    BY <1>1 DEF ProfileTable, Inherits, NoProfile
  <2>2. profiles' = SoleIsDefault(left) BY <1>4 DEF DeleteProfile
  <2> HIDE DEF left
  <2>3. profiles' \in ProfileTable /\ \A b \in Account : Inherits(left[b], profiles'[b])
    BY <2>1, <2>2, SoleIsInherited
  <2>4. \A b \in Account : Inherits(profiles[b], profiles'[b])
    BY <2>1, <2>3, InheritanceIsTransitive
  <2> QED BY <1>1, <2>3, <2>4, InheritKeeps DEF Changes
<1>5. CASE SetDefaultProfile(a)
  <2>1. ASSUME NEW b \in Account
        PROVE  Inherits(profiles[b], profiles'[b]) /\ profiles'[b] \in Profile \union {NoProfile}
    <3> DEFINE chosen == b = a
    <3>1. profiles'[b] = IF profiles[b] = NoProfile THEN NoProfile
                         ELSE [profiles[b] EXCEPT !.default = chosen]
      BY <1>5 DEF SetDefaultProfile
    <3>2. chosen \in BOOLEAN OBVIOUS
    <3> HIDE DEF chosen
    <3>3. CASE profiles[b] = NoProfile BY <3>1, <3>3 DEF Inherits
    <3>4. CASE profiles[b] \in Profile
      <4>1. Inherits(profiles[b], [profiles[b] EXCEPT !.default = chosen])
            /\ [profiles[b] EXCEPT !.default = chosen] \in Profile
        BY <3>2, <3>4, FlagsAreInherited
      <4> QED BY <3>1, <3>4, <4>1, ProfilesAreNot
    <3> QED BY <3>3, <3>4, <1>1 DEF ProfileTable
  <2>2. profiles' \in ProfileTable BY <1>5, <2>1 DEF SetDefaultProfile, ProfileTable
  <2> QED BY <1>1, <2>1, <2>2, InheritKeeps DEF Changes
<1>6. CASE TokenExpires(a)
  <2> DEFINE no == FALSE
  <2>1. no \in BOOLEAN OBVIOUS
  <2>2. profiles' = [profiles EXCEPT ![a] = [@ EXCEPT !.fresh = no]] /\ Present(a)
    BY <1>6 DEF TokenExpires
  <2> HIDE DEF no
  <2>3. [profiles[a] EXCEPT !.fresh = no] \in Profile BY <1>2, <2>1 DEF Profile
  <2>4. Inherits(profiles[a], [profiles[a] EXCEPT !.fresh = no]) BY <1>2, <2>1, FlagsAreInherited
  <2>5. profiles' \in ProfileTable /\ \A b \in Account : Inherits(profiles[b], profiles'[b])
    BY <1>1, <2>2, <2>3, <2>4, OneProfile
  <2> QED BY <1>1, <2>5, InheritKeeps DEF Changes
<1> QED BY <1>3, <1>4, <1>5, <1>6

Work == [account: Account \union {NoAccount}, step: {"idle", "waiting", "asking"},
         force: BOOLEAN, number: 0..MaxCredential]

\* The credential `job` asks with belongs to its account alone.
AsksWith(job, table, n) ==
    /\ job.account \in Account
    /\ job.step \in {"waiting", "asking"}
    /\ job.number \in 1..n
    /\ \A b \in Account \ {job.account} : table[b] # NoProfile => table[b].number # job.number

LEMMA IdleIsWork == Idle \in Work
<1> DEFINE no == FALSE
<1>1. no \in BOOLEAN OBVIOUS
<1>2. Idle = [account |-> NoAccount, step |-> "idle", force |-> no, number |-> 0] BY DEF Idle
<1> HIDE DEF no
<1> QED BY <1>1, <1>2, CredentialAssumption DEF Work

LEMMA WorkKeepsCredentials ==
    ASSUME CredentialInv, NEW r \in Refresher, NEW job \in Work,
           refresher' = [refresher EXCEPT ![r] = job],
           profiles' \in ProfileTable, \A b \in Account : Inherits(profiles[b], profiles'[b]),
           UNCHANGED <<keyReadable, issued, spent>>,
           job = Idle \/ AsksWith(job, profiles, issued)
    PROVE  CredentialInv' /\ Changes
<1>1. issued \in Nat /\ spent \in SUBSET (1..issued) /\ 0 \notin spent /\ profiles \in ProfileTable
      /\ refresher \in [Refresher -> Work] /\ issued <= issued
  BY CredentialAssumption DEF CredentialInv, ProfileTypeOK, ProfileTable, Work
<1>2. Numbered(profiles', issued, spent) BY <1>1, InheritedNumbers DEF CredentialInv
<1>3. AskedFor(profiles', issued)
  BY <1>1, StillAskedFor DEF CredentialInv
<1>4. refresher' \in [Refresher -> Work] BY <1>1
<1>5. ProfileTypeOK' BY <1>1, <1>4 DEF CredentialInv, ProfileTypeOK, ProfileTable, Work
<1>6. job # Idle => AsksWith(job, profiles', issued)
  BY <1>1 DEF AsksWith, Inherits
<1>7. \A s \in Refresher : refresher'[s] = IF s = r THEN job ELSE refresher[s]
  BY <1>1
<1>8. AskedFor(profiles, issued)'
  BY <1>3, <1>6, <1>7 DEF AskedFor, AsksWith
<1> QED BY <1>2, <1>5, <1>8 DEF CredentialInv, Numbered, Changes

LEMMA BeginKeepsCredentials ==
    ASSUME CredentialInv, NEW r \in Refresher, NEW a \in Account, BeginRefresh(r, a)
    PROVE  CredentialInv' /\ Changes
<1>1. profiles \in ProfileTable /\ ProfileTypeOK /\ profiles[a] \in Profile /\ issued \in Nat
      /\ issued \in 0..MaxCredential
  BY CredentialAssumption DEF CredentialInv, ProfileTypeOK, ProfileTable, BeginRefresh, Present
<1>2. UNCHANGED <<keyReadable, issued, spent>> BY DEF BeginRefresh
<1>3. CASE MarkReauth(a) /\ UNCHANGED refresher
  <2>1. profiles' \in ProfileTable /\ \A b \in Account : Inherits(profiles[b], profiles'[b])
    BY <1>1, <1>3, MarkedProfiles
  <2>2. keyReadable' \in BOOLEAN /\ issued' \in 0..MaxCredential /\ issued <= issued'
    BY <1>1, <1>2 DEF ProfileTypeOK
  <2> QED BY <1>2, <1>3, <2>1, <2>2, InheritKeeps DEF Changes
<1>4. ASSUME NEW force \in BOOLEAN, ~RequiresReauth(profiles[a]), UNCHANGED profiles,
             refresher' = [refresher EXCEPT ![r] =
                    [account |-> a, step |-> "waiting", force |-> force,
                     number |-> profiles[a].number]]
      PROVE  CredentialInv' /\ Changes
  <2> DEFINE job == [account |-> a, step |-> "waiting", force |-> force,
                      number |-> profiles[a].number]
  <2>1. profiles[a].form \in Tokens /\ profiles[a] # NoProfile
    BY <1>1, <1>4, ProfilesAreNot
    DEF RequiresReauth, Decryptable, BeginRefresh, Tokens
  <2>2. profiles[a].number \in 1..issued /\ profiles[a].number \in 0..MaxCredential
    BY <1>1, <2>1 DEF CredentialInv, Numbered, Profile
  <2>3. \A b \in Account \ {a} : profiles[b] # NoProfile => profiles[b].number # profiles[a].number
    BY <2>1, <2>2 DEF CredentialInv, Numbered
  <2>4. job \in Work BY <2>2 DEF Work
  <2>5. AsksWith(job, profiles, issued) BY <2>2, <2>3 DEF AsksWith
  <2>6. profiles' \in ProfileTable /\ \A b \in Account : Inherits(profiles[b], profiles'[b])
    BY <1>1, <1>4 DEF Inherits, ProfileTable
  <2> HIDE DEF job
  <2> QED BY <1>2, <1>4, <2>4, <2>5, <2>6, WorkKeepsCredentials DEF job
<1> QED BY <1>3, <1>4 DEF BeginRefresh

LEMMA EnterKeepsCredentials ==
    ASSUME CredentialInv, NEW r \in Refresher, EnterRefresh(r)
    PROVE  CredentialInv' /\ Changes
<1> DEFINE a == refresher[r].account
<1>1. profiles \in ProfileTable /\ ProfileTypeOK /\ issued \in Nat /\ issued \in 0..MaxCredential
      /\ refresher[r] \in Work /\ refresher \in [Refresher -> Work]
  BY CredentialAssumption DEF CredentialInv, ProfileTypeOK, ProfileTable, Work
<1>2. refresher[r].step = "waiting" /\ UNCHANGED <<keyReadable, issued, spent>>
  BY DEF EnterRefresh
<1>3. refresher[r] # Idle BY <1>2 DEF Idle
<1>4. AsksWith(refresher[r], profiles, issued) BY <1>3 DEF CredentialInv, AskedFor, AsksWith
<1>5. a \in Account BY <1>4 DEF AsksWith
<1> HIDE DEF a
<1>6. ASSUME UNCHANGED profiles
      PROVE  profiles' \in ProfileTable /\ \A b \in Account : Inherits(profiles[b], profiles'[b])
  BY <1>1, <1>6 DEF Inherits, ProfileTable
<1>7. CASE ~Present(a) /\ UNCHANGED profiles /\ refresher' = [refresher EXCEPT ![r].step = "asking"]
  <2> DEFINE job == [refresher[r] EXCEPT !.step = "asking"]
  <2>1. job \in Work /\ AsksWith(job, profiles, issued)
    BY <1>1, <1>4 DEF Work, AsksWith
  <2>2. refresher' = [refresher EXCEPT ![r] = job] BY <1>7
  <2> HIDE DEF job
  <2> QED BY <1>2, <1>6, <1>7, <2>1, <2>2, WorkKeepsCredentials
<1>8. CASE refresher' = [refresher EXCEPT ![r] = Idle] /\ (UNCHANGED profiles \/ MarkReauth(a))
  <2>1. profiles' \in ProfileTable /\ \A b \in Account : Inherits(profiles[b], profiles'[b])
    BY <1>1, <1>5, <1>6, <1>8, MarkedProfiles
  <2> QED BY <1>2, <1>8, <2>1, IdleIsWork, WorkKeepsCredentials
<1>9. CASE /\ Present(a) /\ ~RequiresReauth(profiles[a]) /\ profiles[a].form # "offline"
           /\ UNCHANGED profiles
           /\ refresher' = [refresher EXCEPT ![r].step = "asking", ![r].number = profiles[a].number]
  <2> DEFINE job == [refresher[r] EXCEPT !.step = "asking", !.number = profiles[a].number]
  <2>1. profiles[a].form \in Tokens /\ profiles[a] # NoProfile /\ profiles[a] \in Profile
    BY <1>1, <1>5, <1>9 DEF RequiresReauth, Decryptable, Tokens, Present, ProfileTable
  <2>2. profiles[a].number \in 1..issued /\ profiles[a].number \in 0..MaxCredential
    BY <1>1, <1>5, <2>1 DEF CredentialInv, Numbered, Profile
  <2>3. \A b \in Account \ {a} : profiles[b] # NoProfile => profiles[b].number # profiles[a].number
    BY <1>5, <2>1, <2>2 DEF CredentialInv, Numbered
  <2>4. job \in Work /\ AsksWith(job, profiles, issued)
    BY <1>1, <1>5, <2>2, <2>3 DEF Work, AsksWith, a
  <2>5. refresher' = [refresher EXCEPT ![r] = job] BY <1>1, <1>9
  <2> HIDE DEF job
  <2> QED BY <1>2, <1>6, <1>9, <2>4, <2>5, WorkKeepsCredentials
<1> QED BY <1>7, <1>8, <1>9 DEF EnterRefresh, a

LEMMA AnswerKeepsCredentials ==
    ASSUME CredentialInv, NEW r \in Refresher, RefreshAnswered(r)
    PROVE  CredentialInv' /\ Changes
<1> DEFINE a == refresher[r].account
<1>1. /\ profiles \in ProfileTable /\ ProfileTypeOK /\ issued \in Nat /\ issued \in 0..MaxCredential
      /\ refresher \in [Refresher -> Work] /\ spent \in SUBSET (1..issued) /\ 0 \notin spent
  BY CredentialAssumption DEF CredentialInv, ProfileTypeOK, ProfileTable, Work
<1>2. /\ refresher[r].step = "asking" /\ UNCHANGED keyReadable
      /\ issued < MaxCredential /\ issued' = issued + 1
      /\ refresher' = [refresher EXCEPT ![r] = Idle]
  BY DEF RefreshAnswered
<1>3. refresher[r] # Idle BY <1>2 DEF Idle
<1>4. AsksWith(refresher[r], profiles, issued) BY <1>3 DEF CredentialInv, AskedFor, AsksWith
<1>5. a \in Account BY <1>4 DEF AsksWith
<1> HIDE DEF a
<1>6. issued' \in 0..MaxCredential /\ issued' \in Nat /\ issued <= issued'
  BY <1>1, <1>2, CredentialAssumption
<1>7. ASSUME Numbered(profiles', issued', spent'), AskedFor(profiles', issued'),
             profiles' \in ProfileTable, spent' \in SUBSET (1..issued'), Changes
      PROVE  CredentialInv' /\ Changes
  <2>1. refresher' \in [Refresher -> Work] BY <1>1, <1>2, IdleIsWork
  <2>2. ProfileTypeOK' BY <1>1, <1>2, <1>6, <1>7, <2>1 DEF ProfileTypeOK, ProfileTable, Work
  <2>3. AskedFor(profiles, issued)' BY <1>1, <1>2, <1>7 DEF AskedFor
  <2> QED BY <1>7, <2>2, <2>3 DEF CredentialInv, Numbered
<1>8. CASE UNCHANGED <<profiles, spent>>
  <2>1. profiles' \in ProfileTable /\ \A b \in Account : Inherits(profiles[b], profiles'[b])
    BY <1>1, <1>8 DEF Inherits, ProfileTable
  <2>2. Numbered(profiles', issued', spent')
    BY <1>1, <1>6, <1>8, <2>1, InheritedNumbers DEF CredentialInv
  <2>3. AskedFor(profiles', issued') BY <1>1, <1>6, <2>1, StillAskedFor DEF CredentialInv
  <2>4. spent' \in SUBSET (1..issued') BY <1>1, <1>2, <1>8
  <2> QED BY <1>7, <2>1, <2>2, <2>3, <2>4 DEF Changes
<1>9. CASE /\ Present(a) /\ profiles' = [profiles EXCEPT ![a] = Refreshed(@)]
           /\ spent' = spent \union {refresher[r].number}
  <2> DEFINE yes == TRUE no == FALSE
             plain == [profiles[a] EXCEPT !.form = "plain", !.number = issued + 1,
                                  !.reauth = no, !.fresh = yes]
  <2>1. yes \in BOOLEAN /\ no \in BOOLEAN OBVIOUS
  <2>2. Refreshed(profiles[a]) = Secured(plain) BY DEF Refreshed
  <2> HIDE DEF yes, no
  <2>3. profiles[a] \in Profile BY <1>1, <1>5, <1>9 DEF ProfileTable, Present
  <2>4. plain \in Profile /\ plain.number = issued + 1
    BY <1>2, <1>6, <2>1, <2>3 DEF Profile, Forms
  <2> HIDE DEF plain
  <2>5. /\ Secured(plain) \in Profile
        /\ keyReadable => Secured(plain).form = "primary" /\ Secured(plain).number = issued + 1
        /\ ~keyReadable => Secured(plain).form = "none" /\ Secured(plain).number = 0
    BY <1>1, <2>4, SecuredIsInherited
  <2>6. /\ profiles' \in ProfileTable /\ profiles'[a] = Secured(plain)
        /\ \A b \in Account \ {a} : profiles'[b] = profiles[b] /\ Inherits(profiles[b], profiles'[b])
    BY <1>1, <1>5, <1>9, <2>2, <2>5 DEF ProfileTable, Inherits
  <2>7. /\ Numbered(profiles', issued', spent) /\ AskedFor(profiles', issued')
        /\ spent \in SUBSET (1..issued') /\ Changes
    <3>1. CASE keyReadable
      <4>1. Receives(profiles'[a], issued + 1) BY <2>5, <2>6, <3>1 DEF Receives
      <4> QED BY <1>2, <1>5, <2>6, <4>1, AfterReceiving
    <3>2. CASE ~keyReadable
      <4>1. \A b \in Account : Inherits(profiles[b], profiles'[b])
        BY <2>5, <2>6, <3>2 DEF Inherits, Tokens
      <4>2. Numbered(profiles', issued', spent)
        BY <1>1, <1>6, <2>6, <4>1, InheritedNumbers DEF CredentialInv
      <4>3. AskedFor(profiles', issued')
        BY <1>1, <1>6, <2>6, <4>1, StillAskedFor DEF CredentialInv
      <4> QED BY <1>1, <1>2, <4>1, <4>2, <4>3 DEF Changes
    <3> QED BY <3>1, <3>2
  <2>8. \A b \in Account : profiles'[b] # NoProfile => profiles'[b].number # refresher[r].number
    BY <1>1, <1>4, <2>5, <2>6 DEF AsksWith, a
  <2>9. Numbered(profiles', issued', spent') BY <1>9, <2>7, <2>8 DEF Numbered
  <2>10. spent' \in SUBSET (1..issued')
    <3>1. refresher[r].number \in 1..issued BY <1>4 DEF AsksWith
    <3>2. 1..issued \subseteq 1..issued' BY <1>1, <1>2
    <3> QED BY <1>1, <1>9, <3>1, <3>2
  <2> QED BY <1>7, <2>6, <2>7, <2>9, <2>10
<1> QED BY <1>8, <1>9 DEF RefreshAnswered, a

LEMMA RefusalKeepsCredentials ==
    ASSUME CredentialInv, NEW r \in Refresher, RefreshRefused(r)
    PROVE  CredentialInv' /\ Changes
<1> DEFINE a == refresher[r].account
<1>1. refresher[r].step = "asking" /\ MarkReauth(a) /\ UNCHANGED <<keyReadable, issued, spent>>
      /\ refresher' = [refresher EXCEPT ![r] = Idle]
  BY DEF RefreshRefused
<1>2. a \in Account BY <1>1 DEF CredentialInv, AskedFor, Idle
<1> HIDE DEF a
<1>3. profiles' \in ProfileTable /\ \A b \in Account : Inherits(profiles[b], profiles'[b])
  BY <1>1, <1>2, MarkedProfiles DEF CredentialInv
<1> QED BY <1>1, <1>3, IdleIsWork, WorkKeepsCredentials

LEMMA CredentialsStep ==
    ASSUME CredentialInv, [ProfileNext]_profileVars
    PROVE  CredentialInv' /\ Changes
<1>1. CASE UNCHANGED profileVars
  BY <1>1 DEF profileVars, CredentialInv, ProfileTypeOK, Numbered, AskedFor, Changes, Inherits
<1>2. CASE ProfileNext
  BY <1>2, OpenKeepsCredentials, CreateKeepsCredentials, CreateOfflineKeepsCredentials,
     EditKeepsCredentials, BeginKeepsCredentials, EnterKeepsCredentials,
     AnswerKeepsCredentials, RefusalKeepsCredentials
  DEF ProfileNext, Changes
<1> QED BY <1>1, <1>2

LEMMA KeptTokens ==
    ASSUME ProfileTypeOK, NEW p \in Profile, IsEncrypted(p)
    PROVE  \/ IsEncrypted(Kept(p)) /\ Kept(p).number = p.number
              /\ IsEncrypted([Kept(p) EXCEPT !.reauth = TRUE])
              /\ [Kept(p) EXCEPT !.reauth = TRUE].number = p.number
           \/ p.form = "legacy" /\ ~keyReadable
<1>1. SUFFICES ASSUME ~(p.form = "legacy" /\ ~keyReadable)
               PROVE  IsEncrypted(Kept(p)) /\ Kept(p).number = p.number
  <2>1. Kept(p) \in Profile BY KeptIsInherited
  <2> QED BY <1>1, <2>1 DEF IsEncrypted, Profile
<1>2. CASE Decryptable(p)
  <2>1. keyReadable BY <1>1, <1>2 DEF Decryptable
  <2>2. Kept(p) = Secured(p) BY <1>2 DEF Kept, IsEncrypted
  <2> QED BY <2>1, <2>2, SecuredIsInherited DEF IsEncrypted
<1>3. CASE ~Decryptable(p)
  BY <1>3 DEF Kept, IsEncrypted, Profile
<1> QED BY <1>2, <1>3

LEMMA MarkingKeepsTokens ==
    ASSUME ProfileTypeOK, NEW b \in Account, MarkReauth(b),
           NEW a \in Account, Present(a), IsEncrypted(profiles[a])
    PROVE  \/ IsEncrypted(profiles'[a]) /\ profiles'[a].number = profiles[a].number
           \/ profiles[a].form = "legacy" /\ ~keyReadable
<1>1. profiles[a] \in Profile /\ profiles[a].form # "offline"
  BY DEF ProfileTypeOK, Present, IsEncrypted
<1>2. CASE b # a \/ UNCHANGED profiles
  <2>1. profiles'[a] = profiles[a] BY <1>2 DEF MarkReauth, ProfileTypeOK
  <2> QED BY <2>1
<1>3. CASE b = a /\ ~UNCHANGED profiles
  <2>1. profiles'[a] = [Kept(profiles[a]) EXCEPT !.reauth = TRUE]
    BY <1>1, <1>3 DEF MarkReauth, ProfileTypeOK
  <2> QED BY <1>1, <2>1, KeptTokens
<1> QED BY <1>2, <1>3

LEMMA TokensSurvive ==
    ASSUME CredentialInv, NEW a \in Account, Present(a), IsEncrypted(profiles[a]),
           EditProfile(a) \/ \E r \in Refresher :
                 BeginRefresh(r, a) \/ EnterRefresh(r) \/ RefreshRefused(r)
    PROVE  \/ IsEncrypted(profiles'[a]) /\ profiles'[a].number = profiles[a].number
           \/ profiles[a].form = "legacy" /\ ~keyReadable
<1>1. ProfileTypeOK /\ profiles[a] \in Profile BY DEF CredentialInv, ProfileTypeOK, Present
<1>2. CASE UNCHANGED profiles BY <1>2
<1>3. CASE EditProfile(a)
  <2>1. profiles'[a] = Kept(profiles[a]) BY <1>1, <1>3 DEF EditProfile, ProfileTypeOK
  <2> QED BY <1>1, <2>1, KeptTokens
<1>4. ASSUME NEW r \in Refresher, BeginRefresh(r, a)
      PROVE  UNCHANGED profiles \/ MarkReauth(a)
  BY <1>4 DEF BeginRefresh
<1>5. ASSUME NEW r \in Refresher, EnterRefresh(r) \/ RefreshRefused(r)
      PROVE  UNCHANGED profiles \/ \E b \in Account : MarkReauth(b)
  <2>1. refresher[r].account \in Account
    BY <1>5 DEF CredentialInv, AskedFor, EnterRefresh, RefreshRefused, Idle
  <2> QED BY <1>5, <2>1 DEF EnterRefresh, RefreshRefused
<1> QED BY <1>1, <1>2, <1>3, <1>4, <1>5, MarkingKeepsTokens

LEMMA NobodyComesBack ==
    ASSUME CredentialInv, ProfileNext, NEW a \in Account, ~Present(a), profiles'[a] # NoProfile
    PROVE  refresher' = refresher
<1>1. ProfileTypeOK BY DEF CredentialInv
<1>2. ASSUME NEW b \in Account, MarkReauth(b) PROVE FALSE
  BY <1>1, <1>2 DEF MarkReauth, Present, ProfileTypeOK
<1>3. profiles' # profiles BY DEF Present
<1>4. ASSUME NEW r \in Refresher,
             EnterRefresh(r) \/ RefreshAnswered(r) \/ RefreshRefused(r)
      PROVE  FALSE
  <2>1. refresher[r].account \in Account
    BY <1>4 DEF CredentialInv, AskedFor, EnterRefresh, RefreshAnswered, RefreshRefused, Idle
  <2>2. CASE EnterRefresh(r) \/ RefreshRefused(r)
    BY <1>2, <1>3, <2>1, <2>2 DEF EnterRefresh, RefreshRefused
  <2>3. CASE RefreshAnswered(r)
    BY <1>1, <1>3, <2>1, <2>3 DEF RefreshAnswered, Present, ProfileTypeOK
  <2> QED BY <1>4, <2>2, <2>3
<1>5. ASSUME NEW r \in Refresher, NEW b \in Account, BeginRefresh(r, b) PROVE FALSE
  BY <1>2, <1>3, <1>5 DEF BeginRefresh
<1> QED BY <1>4, <1>5
    DEF ProfileNext, OpenProfiles, CreateProfile, CreateOfflineProfile, EditProfile,
        DeleteProfile, SetDefaultProfile, TokenExpires

LEMMA AskedUnspent ==
    ASSUME CredentialInv, ProfileNext, NEW r \in Refresher,
           refresher[r].step = "waiting", refresher'[r].step = "asking"
    PROVE  refresher'[r].number \notin spent \/ ~Present(refresher[r].account)
<1>1. refresher \in [Refresher -> Work] /\ profiles \in ProfileTable
  BY DEF CredentialInv, ProfileTypeOK, Work, ProfileTable
<1>2. refresher' # refresher BY <1>1
<1>3. ASSUME NEW s \in Refresher, NEW a \in Account, BeginRefresh(s, a) PROVE FALSE
  BY <1>1, <1>2, <1>3 DEF BeginRefresh, Idle
<1>4. ASSUME NEW s \in Refresher, RefreshAnswered(s) \/ RefreshRefused(s) PROVE FALSE
  BY <1>1, <1>2, <1>4 DEF RefreshAnswered, RefreshRefused, Idle
<1>5. PICK s \in Refresher : EnterRefresh(s)
  BY <1>2, <1>3, <1>4
  DEF ProfileNext, OpenProfiles, CreateProfile, CreateOfflineProfile, EditProfile,
        DeleteProfile, SetDefaultProfile, TokenExpires
<1>6. s = r BY <1>1, <1>5 DEF EnterRefresh, Idle
<1>7. refresher[r].account \in Account BY DEF CredentialInv, AskedFor, Idle
<1>8. CASE Present(refresher[r].account)
  <2>1. refresher'[r].number = profiles[refresher[r].account].number
    BY <1>1, <1>5, <1>6, <1>8 DEF EnterRefresh, Idle, Work
  <2> QED BY <1>7, <1>8, <2>1 DEF CredentialInv, Numbered, Present
<1> QED BY <1>8

\* In every execution the tokens of an account are neither written in plain nor
\* lost on the way, and a refresh works on the account as it is when its turn
\* comes (storage/profile_store.py, refresh_access_token).
THEOREM CredentialsStayKept == ProfileSpec => CredentialsAreKept
<1>1. ProfileInit => CredentialInv BY CredentialsInitially
<1>2. CredentialInv /\ [ProfileNext]_profileVars => CredentialInv' BY CredentialsStep
<1>3. CredentialInv /\ [ProfileNext]_profileVars
      => [\A a \in Account : profiles'[a].form = "plain"
             => profiles[a] = profiles'[a] \/ profiles[a].form = "plain"]_profileVars
  BY CredentialsStep DEF Changes, Inherits, Receives
<1>4. CredentialInv /\ [ProfileNext]_profileVars
      => [\A a \in Account :
          (/\ Present(a) /\ IsEncrypted(profiles[a])
           /\ EditProfile(a) \/ \E r \in Refresher :
                 BeginRefresh(r, a) \/ EnterRefresh(r) \/ RefreshRefused(r))
          => \/ IsEncrypted(profiles'[a]) /\ profiles'[a].number = profiles[a].number
             \/ profiles[a].form = "legacy" /\ ~keyReadable]_profileVars
  BY TokensSurvive
<1>5. CredentialInv /\ [ProfileNext]_profileVars
      => [\A a \in Account : ~Present(a) /\ profiles'[a] # NoProfile
             => \A r \in Refresher : refresher'[r] = refresher[r]]_profileVars
  BY NobodyComesBack
<1>6. CredentialInv /\ [ProfileNext]_profileVars
      => [\A r \in Refresher : refresher[r].step = "waiting" /\ refresher'[r].step = "asking"
             => refresher'[r].number \notin spent \/ ~Present(refresher[r].account)]_profileVars
  BY AskedUnspent
<1> QED BY <1>1, <1>2, <1>3, <1>4, <1>5, <1>6, PTL
    DEF ProfileSpec, CredentialsAreKept, PlaintextNeverWritten, TokensKept, DeletedStaysDeleted,
        SpentNeverPresented

\* Every variable of the store and of the refresh of credentials has its type.
THEOREM ProfileTypeCorrect == ProfileSpec => []ProfileTypeOK
<1>1. CredentialInv /\ [ProfileNext]_profileVars => CredentialInv' BY CredentialsStep
<1>2. CredentialInv => ProfileTypeOK BY DEF CredentialInv
<1> QED BY CredentialsInitially, <1>1, <1>2, PTL DEF ProfileSpec

-----------------------------------------------------------------------------
\* The marker alone does not tell that what it names is whole: an installation must
\* not work in the directory it names, what is about to be activated must be whole,
\* and the clean-up must keep what is named.
Trusted == javaEvents.damages = 0 /\ ~javaEvents.stuck

MarkerInv ==
    /\ JavaTypeOK
    /\ MarkedIsWhole
    /\ javaCall.step = "install" => javaCall.place \in Places \ {activeMarker}
    /\ javaCall.step = "activate" =>
          javaCall.place \in Places /\ javaDisk[javaCall.place] = "whole"
    /\ javaCall.step = "clean" /\ Trusted => activeMarker \in {javaCall.place, NoJava}

LEMMA MarkerInit == ASSUME JavaInit PROVE MarkerInv
<1> USE JavaAssumption DEF JavaInit
<1>1. javaDisk \in [Places -> Conditions]
  BY DEF Places, Conditions
<1>2. javaEvents \in [calls : 0..MaxJavaCalls, deaths : 0..MaxJavaDeaths,
                      damages : 0..MaxDamages, stuck : BOOLEAN]
  BY SMT
<1>3. javaCall \in [step : {"idle", "install", "activate", "clean", "return"},
                    place : Places \cup {NoJava}, attempt : 0..2,
                    errors : SUBSET (Places \X JavaErrors), unlucky : BOOLEAN]
  BY SMT DEF NoCall
<1>4. javaCall.step = "idle"
  BY DEF NoCall
<1> QED
  BY <1>1, <1>2, <1>3, <1>4 DEF MarkerInv, MarkedIsWhole, JavaTypeOK

\* A removal, and an installation that stops half-way, are about one directory.
LEMMA OneDirectory ==
    ASSUME JavaTypeOK, NEW p \in Places, RemoveTree(p) \/ LeftPartly(p)
    PROVE  /\ javaDisk' \in [Places -> Conditions]
           /\ \A q \in Places \ {p} : javaDisk'[q] = javaDisk[q]
<1>1. javaDisk \in [Places -> Conditions] /\ javaDisk[p] \in Conditions
  BY DEF JavaTypeOK
<1>2. PICK c \in Conditions : javaDisk' = [javaDisk EXCEPT ![p] = c]
  BY <1>1 DEF RemoveTree, Removals, LeftPartly, Conditions
<1> QED
  BY <1>1, <1>2

\* What a look for the path returns is a directory, and it keeps the marker or
\* removes it.
LEMMA LookKeepsTypes ==
    ASSUME JavaTypeOK
    PROVE  /\ Executable \in Places \cup {NoJava}
           /\ MarkerAfter \in {activeMarker, NoJava}
  BY DEF JavaTypeOK, Executable, MarkerAfter, Named, Places

LEMMA MarkerStep == ASSUME MarkerInv, [JavaNext]_javaVars PROVE MarkerInv'
<1> USE JavaAssumption DEF MarkerInv
<1> DEFINE Calls == [step : {"idle", "install", "activate", "clean", "return"},
                     place : Places \cup {NoJava}, attempt : 0..2,
                     errors : SUBSET (Places \X JavaErrors), unlucky : BOOLEAN]
           Events == [calls : 0..MaxJavaCalls, deaths : 0..MaxJavaDeaths,
                      damages : 0..MaxDamages, stuck : BOOLEAN]
<1>a. /\ javaDisk \in [Places -> Conditions] /\ javaCall \in Calls /\ javaEvents \in Events
      /\ activeMarker \in Generations \cup {NoJava} /\ lookup \in Generations \cup {NoJava}
      /\ {javaResult, javaGame} \subseteq Places \cup {NoJava}
  BY DEF JavaTypeOK
<1>b. NoCall \in Calls /\ NoCall.step = "idle"
  BY DEF NoCall
<1>n. 1 \in 0..2 /\ 2 \in 0..2
  OBVIOUS
<1>c. ASSUME NEW e \in {"calls", "deaths", "damages"}, Counted(e),
             javaEvents[e] < (IF e = "calls" THEN MaxJavaCalls
                              ELSE IF e = "deaths" THEN MaxJavaDeaths ELSE MaxDamages)
      PROVE  /\ javaEvents' \in Events /\ javaEvents'.stuck = javaEvents.stuck
             /\ e # "damages" => javaEvents'.damages = javaEvents.damages
             /\ e = "damages" => javaEvents'.damages # 0
  BY <1>a, <1>c DEF Counted
<1>d. ASSUME Install(Canonical)
      PROVE  javaCall' \in Calls /\ javaCall'.step = "install" /\ javaCall'.place = Canonical
  <2>1. Canonical \in Places \cup {NoJava}
    BY DEF Places
  <2>2. javaCall' = [step |-> "install", place |-> Canonical, attempt |-> 1,
                     errors |-> {}, unlucky |-> FALSE]
    BY <1>d DEF Install, NoCall
  <2>3. [step |-> "install", place |-> Canonical, attempt |-> 1, errors |-> {},
         unlucky |-> FALSE] \in Calls
    BY <1>n, <2>1
  <2>4. javaCall'.step = "install" /\ javaCall'.place = Canonical
    BY <2>2
  <2> HIDE DEF Calls
  <2> QED
    BY <2>2, <2>3, <2>4
<1>1. CASE EnsureRuntime
  <2>1. /\ javaEvents' \in Events /\ javaEvents'.stuck = javaEvents.stuck
        /\ javaEvents'.damages = javaEvents.damages
    BY <1>1, <1>c DEF EnsureRuntime, CallBegins, IsComplete
  <2>2. activeMarker' \in {activeMarker, NoJava} /\ Executable \in Places \cup {NoJava}
    BY <1>1, LookKeepsTypes DEF EnsureRuntime, CallBegins, IsComplete
  <2>3. CASE UNCHANGED <<javaDisk, javaCall>> /\ javaResult' = Executable
    BY <1>1, <1>a, <2>1, <2>2, <2>3 DEF EnsureRuntime, CallBegins, IsComplete, JavaTypeOK, MarkedIsWhole, Trusted
  <2>4. CASE RemoveTree(Canonical) /\ Install(Canonical) /\ UNCHANGED javaResult
    <3>1. /\ javaDisk' \in [Places -> Conditions]
          /\ \A q \in Places \ {Canonical} : javaDisk'[q] = javaDisk[q]
      BY <2>4, OneDirectory DEF Places
    <3> QED
      BY <1>1, <1>a, <1>d, <2>1, <2>2, <2>4, <3>1
         DEF EnsureRuntime, CallBegins, IsComplete, JavaTypeOK, MarkedIsWhole, Trusted, Places
  <2> QED BY <1>1, <2>3, <2>4 DEF EnsureRuntime, CallBegins, IsComplete
<1>2. CASE RepairRuntime
  <2>1. /\ javaEvents' \in Events /\ javaEvents'.stuck = javaEvents.stuck
        /\ javaEvents'.damages = javaEvents.damages
    BY <1>2, <1>c DEF RepairRuntime, CallBegins
  <2>2. /\ javaDisk' \in [Places -> Conditions]
        /\ \A q \in Places \ {Canonical} : javaDisk'[q] = javaDisk[q]
    BY <1>2, OneDirectory DEF Places, RepairRuntime, CallBegins
  <2> QED
    BY <1>2, <1>a, <1>d, <2>1, <2>2
       DEF RepairRuntime, CallBegins, JavaTypeOK, MarkedIsWhole, Trusted, Places
<1>3. CASE JavaInstalls
  <2>1. /\ javaCall' \in Calls /\ javaCall'.step = "activate" /\ javaCall'.place = javaCall.place
        /\ javaCall.place \in Places \ {activeMarker}
    BY <1>3, <1>a DEF JavaInstalls
  <2>2. /\ javaDisk' \in [Places -> Conditions] /\ javaDisk'[javaCall.place] = "whole"
        /\ \A q \in Places \ {javaCall.place} : javaDisk'[q] = javaDisk[q]
    BY <1>3, <1>a, <2>1 DEF JavaInstalls, Conditions
  <2> QED
    BY <1>3, <1>a, <2>1, <2>2 DEF JavaInstalls, JavaTypeOK, MarkedIsWhole, Trusted, Places
<1>4. ASSUME NEW error \in JavaErrors, JavaInstallFails(error) PROVE MarkerInv'
  <2>1. /\ javaCall.place \in Places \ {activeMarker} /\ javaCall.step = "install"
        /\ UNCHANGED <<activeMarker, javaGame, lookup, javaEvents, javaResult>>
    BY <1>4 DEF JavaInstallFails
  <2>2. /\ javaDisk' \in [Places -> Conditions]
        /\ \A q \in Places \ {javaCall.place} : javaDisk'[q] = javaDisk[q]
    BY <1>4, <2>1, OneDirectory DEF JavaInstallFails
  <2>3. PICK errors \in SUBSET (Places \X JavaErrors) :
          errors = javaCall.errors \cup {<<javaCall.place, error>>}
    <3>1. javaCall.errors \in SUBSET (Places \X JavaErrors)
      BY <1>a
    <3>2. <<javaCall.place, error>> \in Places \X JavaErrors
      BY <1>4, <2>1
    <3>3. javaCall.errors \cup {<<javaCall.place, error>>} \in SUBSET (Places \X JavaErrors)
      BY <3>1, <3>2
    <3> QED BY <3>3
  <2>4. /\ javaCall' \in Calls /\ javaCall'.step \in {"install", "return"}
        /\ javaCall'.step = "install" => javaCall'.place \in Places \ {activeMarker}
    <3>1. CASE javaCall' = [javaCall EXCEPT !.attempt = 2, !.errors = errors]
      BY <1>a, <1>n, <2>1, <3>1
    <3>2. CASE \E g \in Generations :
                  /\ g # activeMarker
                  /\ javaCall' = [javaCall EXCEPT !.place = g, !.attempt = 1,
                                                  !.errors = errors]
      BY <1>a, <1>n, <2>1, <3>2 DEF Places
    <3>3. CASE javaCall' = [javaCall EXCEPT !.step = "return", !.place = NoJava,
                                               !.errors = errors]
      BY <1>a, <2>1, <3>3
    <3> QED BY <1>4, <2>3, <3>1, <3>2, <3>3 DEF JavaInstallFails
  <2> QED
    BY <1>a, <2>1, <2>2, <2>4 DEF JavaTypeOK, MarkedIsWhole, Trusted, Places
<1>5. CASE Activate
  <2>1. PICK fails \in BOOLEAN :
          /\ fails => javaCall.place = Canonical /\ activeMarker # NoJava
          /\ activeMarker' = IF javaCall.place # Canonical THEN javaCall.place
                             ELSE IF fails THEN activeMarker ELSE NoJava
          /\ javaCall' = [javaCall EXCEPT !.step = "clean", !.unlucky = @ \/ fails]
          /\ javaEvents' = [javaEvents EXCEPT !.stuck = @ \/ fails]
    BY <1>5 DEF Activate
  <2>2. /\ javaCall' \in Calls /\ javaCall'.step = "clean" /\ javaCall'.place = javaCall.place
        /\ javaEvents' \in Events /\ javaEvents'.damages = javaEvents.damages
        /\ (~javaEvents'.stuck) => ~fails /\ ~javaEvents.stuck
    BY <1>a, <2>1
  <2>3. javaCall.place \in Places /\ javaDisk[javaCall.place] = "whole"
    BY <1>5 DEF Activate
  <2> QED
    BY <1>5, <1>a, <2>1, <2>2, <2>3
       DEF Activate, JavaTypeOK, MarkedIsWhole, Trusted, Places
<1>6. CASE CleanGenerations
  <2>1. /\ javaCall' \in Calls /\ javaCall'.step = "return"
    BY <1>6, <1>a DEF CleanGenerations
  <2>2. PICK disk \in [Generations -> Conditions] :
          /\ disk[javaCall.place] = javaDisk[javaCall.place] \/ javaCall.place \notin Generations
          /\ javaDisk' = [p \in Places |-> IF p = Canonical THEN javaDisk[p] ELSE disk[p]]
    BY <1>6 DEF CleanGenerations
  <2>3. /\ javaDisk' \in [Places -> Conditions]
        /\ javaCall.place \in Places => javaDisk'[javaCall.place] = javaDisk[javaCall.place]
    BY <1>a, <2>2 DEF Places
  <2> QED
    BY <1>6, <1>a, <2>1, <2>3 DEF CleanGenerations, JavaTypeOK, MarkedIsWhole, Trusted, Places
<1>7. CASE Return
  <2>1. activeMarker' \in {activeMarker, NoJava} /\ javaResult' \in Places \cup {NoJava}
    BY <1>7, LookKeepsTypes DEF Return, Returned
  <2> QED
    BY <1>7, <1>a, <1>b, <2>1 DEF Return, Returned, JavaTypeOK, MarkedIsWhole, Trusted
<1>8. CASE LookUp
  BY <1>8, <1>a DEF LookUp, Named, JavaTypeOK, MarkedIsWhole, Trusted
<1>9. CASE LookUpEnds
  <2>1. CASE UNCHANGED <<activeMarker, javaCall>>
    BY <1>9, <1>a, <2>1 DEF LookUpEnds, JavaTypeOK, MarkedIsWhole, Trusted
  <2>2. CASE ~UNCHANGED <<activeMarker, javaCall>>
    <3> DEFINE stuckCase == javaCall.step # "idle" /\ activeMarker \notin {lookup, NoJava}
    <3>a. javaCall' = [javaCall EXCEPT !.unlucky = @ \/ stuckCase]
      BY <1>9, <2>2 DEF LookUpEnds
    <3>b. stuckCase \in BOOLEAN
      OBVIOUS
    <3> HIDE DEF stuckCase
    <3>1. /\ javaCall' \in Calls /\ javaCall'.step = javaCall.step
          /\ javaCall'.place = javaCall.place
      BY <1>a, <3>a, <3>b
    <3> QED
      BY <1>9, <1>a, <2>2, <3>1
         DEF LookUpEnds, JavaTypeOK, MarkedIsWhole, Trusted, Places
  <2> QED BY <2>1, <2>2
<1>10. CASE GameStarts \/ GameExits
  BY <1>10, <1>a DEF GameStarts, GameExits, JavaTypeOK, MarkedIsWhole, Trusted
<1>11. ASSUME NEW p \in Places, Damage(p) PROVE MarkerInv'
  <2>1. javaEvents' \in Events /\ javaEvents'.damages # 0
    BY <1>11, <1>c DEF Damage
  <2>2. javaDisk' \in [Places -> Conditions]
    BY <1>11, <1>a DEF Damage, Conditions
  <2> QED
    BY <1>11, <1>a, <2>1, <2>2 DEF Damage, JavaTypeOK, MarkedIsWhole, Trusted
<1>12. CASE JavaCallDies
  <2>1. /\ javaEvents' \in Events /\ javaEvents'.stuck = javaEvents.stuck
        /\ javaEvents'.damages = javaEvents.damages
    BY <1>12, <1>c DEF JavaCallDies
  <2>2. /\ javaDisk' \in [Places -> Conditions]
        /\ activeMarker # NoJava => javaDisk'[activeMarker] = javaDisk[activeMarker]
    BY <1>12, <1>a, OneDirectory DEF JavaCallDies, Places
  <2> QED
    BY <1>12, <1>a, <1>b, <2>1, <2>2 DEF JavaCallDies, JavaTypeOK, MarkedIsWhole, Trusted
<1>13. CASE ActivateFails
  BY <1>13, <1>a, <1>b DEF ActivateFails, Returned, JavaTypeOK, MarkedIsWhole, Trusted
<1>14. CASE UNCHANGED javaVars
  BY <1>14 DEF javaVars, JavaTypeOK, MarkedIsWhole, Trusted
<1> QED
  BY <1>1, <1>2, <1>3, <1>4, <1>5, <1>6, <1>7, <1>8, <1>9, <1>10, <1>11, <1>12, <1>13, <1>14
     DEF JavaNext

\* What the marker names is whole as long as no file is lost and no marker
\* stays that had to go: _write_active_runtime comes after the check of the
\* new generation, and _cleanup_runtime_generations keeps it.
THEOREM MarkedStaysWhole == JavaSpec => []MarkedIsWhole
<1>1. JavaInit => MarkerInv
  BY MarkerInit
<1>2. MarkerInv /\ [JavaNext]_javaVars => MarkerInv'
  BY MarkerStep
<1>3. MarkerInv => MarkedIsWhole
  BY DEF MarkerInv
<1> QED
  BY <1>1, <1>2, <1>3, PTL DEF JavaSpec

\* Every variable of the runtimes has its type.
THEOREM JavaTypes == JavaSpec => []JavaTypeOK
<1>1. MarkerInv => JavaTypeOK
  BY DEF MarkerInv
<1> QED
  BY MarkerInit, MarkerStep, <1>1, PTL DEF JavaSpec

\* Why a call ends without Java although no marker was taken from it: an attempt
\* failed for a reason that is not a file in use.
ReasonFor(errors) ==
    \E e \in errors : e[2] = "failed" \/ (e[1] # Canonical /\ e[2] = "incomplete")

\* The end of a call finds what it has installed: whole, and named by the marker
\* when it is a generation; nothing runs from a generation being installed, so
\* a file in use cannot stop it there.
CallEndsWell ==
    /\ javaCall.step = "install" /\ javaCall.place # Canonical => javaGame # javaCall.place
    /\ javaCall.step = "clean" => javaCall.place \in Places
    /\ javaCall.step \in {"clean", "return"} /\ javaCall.place # NoJava =>
          javaDisk[javaCall.place] = "whole"
    /\ javaCall.step \in {"clean", "return"} /\ javaCall.place # NoJava /\ ~javaCall.unlucky =>
          activeMarker = (IF javaCall.place = Canonical THEN NoJava ELSE javaCall.place)
    /\ javaCall.step = "return" /\ javaCall.place = NoJava => ReasonFor(javaCall.errors)

JavaInv == MarkerInv /\ CallEndsWell

LEMMA CallEndsWellStep == ASSUME JavaInv, [JavaNext]_javaVars PROVE CallEndsWell'
<1> USE JavaAssumption DEF JavaInv
<1> DEFINE Calls == [step : {"idle", "install", "activate", "clean", "return"},
                     place : Places \cup {NoJava}, attempt : 0..2,
                     errors : SUBSET (Places \X JavaErrors), unlucky : BOOLEAN]
<1>a. /\ javaDisk \in [Places -> Conditions] /\ javaCall \in Calls
      /\ activeMarker \in Generations \cup {NoJava} /\ lookup \in Generations \cup {NoJava}
  BY DEF MarkerInv, JavaTypeOK
<1>b. NoCall.step = "idle"
  BY DEF NoCall
<1>c. ASSUME javaCall'.step = "idle" PROVE CallEndsWell'
  BY <1>c DEF CallEndsWell
<1>d. ASSUME javaCall' = NoCall PROVE CallEndsWell'
  BY <1>b, <1>c, <1>d
<1>e. ASSUME Install(Canonical) PROVE CallEndsWell'
  <2>1. javaCall' = [step |-> "install", place |-> Canonical, attempt |-> 1,
                     errors |-> {}, unlucky |-> FALSE]
    BY <1>e DEF Install, NoCall
  <2> QED
    BY <2>1 DEF CallEndsWell
<1>f. ASSUME UNCHANGED <<javaDisk, activeMarker, javaCall, javaGame>> PROVE CallEndsWell'
  BY <1>f DEF CallEndsWell
<1>1. CASE EnsureRuntime
  <2>1. CASE Install(Canonical)
    BY <1>e, <2>1
  <2>2. CASE UNCHANGED javaCall
    BY <1>1, <1>c, <2>2 DEF EnsureRuntime, CallBegins
  <2> QED
    BY <1>1, <2>1, <2>2 DEF EnsureRuntime
<1>2. CASE RepairRuntime
  BY <1>2, <1>e DEF RepairRuntime
<1>3. CASE JavaInstalls
  BY <1>3, <1>a DEF JavaInstalls, CallEndsWell
<1>4. ASSUME NEW error \in JavaErrors, JavaInstallFails(error) PROVE CallEndsWell'
  <2> DEFINE place == javaCall.place
             errors == javaCall.errors \cup {<<place, error>>}
  <2>1. /\ javaCall.step = "install" /\ javaGame' = javaGame
        /\ error = "locked" => javaGame = place
        /\ place # Canonical => javaGame # place
    BY <1>4 DEF JavaInstallFails, CallEndsWell
  <2>2. \/ javaCall' = [javaCall EXCEPT !.attempt = 2, !.errors = errors]
        \/ \E g \in Generations :
              /\ g # javaGame
              /\ javaCall' = [javaCall EXCEPT !.place = g, !.attempt = 1, !.errors = errors]
        \/ /\ ~Isolated(error)
           /\ javaCall' = [javaCall EXCEPT !.step = "return", !.place = NoJava,
                                           !.errors = errors]
    BY <1>4 DEF JavaInstallFails
  <2> HIDE DEF errors
  <2>3. CASE javaCall' = [javaCall EXCEPT !.attempt = 2, !.errors = errors]
    <3>1. javaCall'.step = "install" /\ javaCall'.place = place
      BY <1>a, <2>1, <2>3
    <3> QED
      BY <2>1, <3>1 DEF CallEndsWell
  <2>4. ASSUME NEW g \in Generations, g # javaGame,
               javaCall' = [javaCall EXCEPT !.place = g, !.attempt = 1, !.errors = errors]
        PROVE  CallEndsWell'
    <3>1. javaCall'.step = "install" /\ javaCall'.place = g
      BY <1>a, <2>1, <2>4
    <3> QED
      BY <2>1, <2>4, <3>1 DEF CallEndsWell
  <2>5. CASE /\ ~Isolated(error)
             /\ javaCall' = [javaCall EXCEPT !.step = "return", !.place = NoJava,
                                             !.errors = errors]
    <3>1. javaCall'.step = "return" /\ javaCall'.place = NoJava /\ javaCall'.errors = errors
      BY <1>a, <2>5
    <3>2. error = "failed" \/ (place # Canonical /\ error = "incomplete")
      BY <2>1, <2>5, <1>4 DEF Isolated, JavaErrors
    <3>3. <<place, error>> \in errors
      BY DEF errors
    <3>4. ReasonFor(errors)
      BY <3>2, <3>3 DEF ReasonFor
    <3> QED
      BY <3>1, <3>4 DEF CallEndsWell
  <2> QED
    BY <2>2, <2>3, <2>4, <2>5
<1>5. CASE Activate
  <2>1. PICK fails \in BOOLEAN :
          /\ activeMarker' = IF javaCall.place # Canonical THEN javaCall.place
                             ELSE IF fails THEN activeMarker ELSE NoJava
          /\ javaCall' = [javaCall EXCEPT !.step = "clean", !.unlucky = @ \/ fails]
    BY <1>5 DEF Activate
  <2>2. /\ javaCall'.step = "clean" /\ javaCall'.place = javaCall.place
        /\ ~javaCall'.unlucky => ~fails
    BY <1>a, <2>1
  <2>3. /\ javaCall.place \in Places /\ javaDisk[javaCall.place] = "whole"
        /\ javaDisk' = javaDisk
    BY <1>5 DEF Activate, MarkerInv
  <2> QED
    BY <2>1, <2>2, <2>3 DEF CallEndsWell
<1>6. CASE CleanGenerations
  <2>1. /\ javaCall.step = "clean" /\ javaCall'.step = "return"
        /\ javaCall'.place = javaCall.place /\ javaCall'.unlucky = javaCall.unlucky
        /\ activeMarker' = activeMarker
    BY <1>6, <1>a DEF CleanGenerations
  <2>2. PICK disk \in [Generations -> Conditions] :
          /\ \A g \in Generations : g = javaCall.place => disk[g] = javaDisk[g]
          /\ javaDisk' = [p \in Places |-> IF p = Canonical THEN javaDisk[p] ELSE disk[p]]
    BY <1>6 DEF CleanGenerations
  <2>3. javaCall.place \in Places /\ javaDisk[javaCall.place] = "whole"
    BY <2>1 DEF CallEndsWell, Places
  <2>4. javaDisk'[javaCall.place] = "whole"
    BY <2>2, <2>3 DEF Places
  <2> QED
    BY <2>1, <2>3, <2>4 DEF CallEndsWell, Places
<1>7. CASE Return
  BY <1>7, <1>d DEF Return, Returned
<1>8. CASE ActivateFails
  BY <1>8, <1>d DEF ActivateFails, Returned
<1>9. CASE LookUp \/ GameExits
  <2>1. CASE LookUp
    BY <1>f, <2>1 DEF LookUp
  <2>2. CASE GameExits
    BY <2>2, <1>a DEF GameExits, CallEndsWell, MarkerInv, Places
  <2> QED BY <1>9, <2>1, <2>2
<1>10. CASE LookUpEnds
  <2>1. CASE UNCHANGED <<activeMarker, javaCall>>
    BY <1>10, <1>f, <2>1 DEF LookUpEnds
  <2>2. CASE ~Runnable(lookup)
    <3> DEFINE takes == javaCall.step # "idle" /\ activeMarker \notin {lookup, NoJava}
    <3>1. /\ javaCall' = [javaCall EXCEPT !.unlucky = @ \/ takes] /\ activeMarker' = NoJava
          /\ UNCHANGED <<javaDisk, javaGame>>
      BY <1>10, <2>2 DEF LookUpEnds
    <3>2. takes \in BOOLEAN
      OBVIOUS
    <3>3. ASSUME javaCall.step # "idle", ~takes PROVE activeMarker \in {lookup, NoJava}
      BY <3>3
    <3> HIDE DEF takes
    <3>4. /\ javaCall'.step = javaCall.step /\ javaCall'.place = javaCall.place
          /\ javaCall'.errors = javaCall.errors
          /\ ~javaCall'.unlucky => ~javaCall.unlucky /\ ~takes
      BY <1>a, <3>1, <3>2
    <3>5. ASSUME javaCall.step \in {"clean", "return"}, javaCall.place # NoJava,
                 ~javaCall'.unlucky
          PROVE  javaCall.place = Canonical
      <4>1. /\ javaDisk[javaCall.place] = "whole"
            /\ activeMarker = (IF javaCall.place = Canonical THEN NoJava ELSE javaCall.place)
        BY <3>4, <3>5 DEF CallEndsWell
      <4>2. activeMarker \in {lookup, NoJava}
        BY <3>3, <3>4, <3>5
      <4>3. javaDisk[lookup] # "whole"
        BY <2>2 DEF Runnable
      <4> QED
        BY <3>5, <4>1, <4>2, <4>3
    <3> QED
      BY <3>1, <3>4, <3>5 DEF CallEndsWell
  <2> QED BY <1>10, <2>1, <2>2 DEF LookUpEnds
<1>11. CASE GameStarts
  BY <1>11, <1>c DEF GameStarts
<1>12. ASSUME NEW p \in Places, Damage(p) PROVE CallEndsWell'
  BY <1>12, <1>c DEF Damage
<1>13. CASE JavaCallDies
  BY <1>13, <1>d DEF JavaCallDies
<1>14. CASE UNCHANGED javaVars
  BY <1>14, <1>f DEF javaVars
<1> QED
  BY <1>1, <1>2, <1>3, <1>4, <1>5, <1>6, <1>7, <1>8, <1>9, <1>10, <1>11, <1>12, <1>13, <1>14
     DEF JavaNext

\* What a call returns at its end, and what the step before the end knew.
LEMMA CallReturns ==
    ASSUME JavaInv, Return \/ EnsureRuntime \/ ActivateFails \/ RepairRuntime,
           javaCall'.step = "idle"
    PROVE  /\ javaResult' # NoJava => javaDisk'[javaResult'] = "whole" \/ javaCall.unlucky
           /\ javaCall.step = "return" /\ javaResult' = NoJava =>
                 javaCall.unlucky \/ ReasonFor(javaCall.errors)
<1> USE JavaAssumption
<1>1. CASE EnsureRuntime
  <2>1. ~Install(Canonical)
    BY DEF Install, NoCall
  <2> QED
    BY <1>1, <2>1 DEF EnsureRuntime, CallBegins, IsComplete
<1>2. CASE RepairRuntime
  BY <1>2 DEF RepairRuntime, Install, NoCall
<1>3. CASE ActivateFails
  BY <1>3 DEF ActivateFails, Returned
<1>4. CASE Return
  <2>1. /\ javaCall.step = "return" /\ javaDisk' = javaDisk
        /\ javaCall.place = NoJava => javaResult' = NoJava
        /\ javaCall.place # NoJava => javaResult' = Executable
    BY <1>4 DEF Return, Returned
  <2>2. CASE javaCall.place = NoJava
    BY <2>1, <2>2 DEF JavaInv, CallEndsWell
  <2>3. CASE javaCall.place # NoJava
    <3>1. /\ javaDisk[javaCall.place] = "whole"
          /\ ~javaCall.unlucky =>
                activeMarker = (IF javaCall.place = Canonical THEN NoJava ELSE javaCall.place)
      BY <2>1, <2>3 DEF JavaInv, CallEndsWell
    <3>2. ~javaCall.unlucky => Executable = javaCall.place
      BY <2>3, <3>1 DEF Executable, Named, Runnable
    <3> QED
      BY <2>1, <2>3, <3>1, <3>2
  <2> QED BY <2>2, <2>3
<1> QED BY <1>1, <1>2, <1>3, <1>4

\* The steps that can end a call, but for the death of the launcher, are those above.
LEMMA CallEnds ==
    ASSUME JavaInv, [JavaNext]_javaVars, javaCall'.step = "idle",
           javaEvents'.deaths = javaEvents.deaths, javaEvents'.damages = javaEvents.damages,
           javaCall.step # "idle" \/ javaEvents'.calls # javaEvents.calls
    PROVE  Return \/ EnsureRuntime \/ ActivateFails \/ RepairRuntime
<1> USE JavaAssumption
<1>a. /\ javaCall \in [step : {"idle", "install", "activate", "clean", "return"},
                       place : Places \cup {NoJava}, attempt : 0..2,
                       errors : SUBSET (Places \X JavaErrors), unlucky : BOOLEAN]
      /\ javaEvents \in [calls : 0..MaxJavaCalls, deaths : 0..MaxJavaDeaths,
                         damages : 0..MaxDamages, stuck : BOOLEAN]
  BY DEF JavaInv, MarkerInv, JavaTypeOK
<1>1. ~JavaInstalls
  BY <1>a DEF JavaInstalls
<1>2. ASSUME NEW error \in JavaErrors, JavaInstallFails(error) PROVE FALSE
  <2>1. \E errors : \/ javaCall' = [javaCall EXCEPT !.attempt = 2, !.errors = errors]
                    \/ \E g \in Generations : javaCall' =
                          [javaCall EXCEPT !.place = g, !.attempt = 1, !.errors = errors]
                    \/ javaCall' = [javaCall EXCEPT !.step = "return", !.place = NoJava,
                                                    !.errors = errors]
    BY <1>2 DEF JavaInstallFails
  <2> QED BY <1>2, <1>a, <2>1 DEF JavaInstallFails
<1>3. ~Activate
  BY <1>a DEF Activate
<1>4. ~CleanGenerations
  BY <1>a DEF CleanGenerations
<1>5. ~(LookUp \/ GameStarts \/ GameExits)
  BY DEF LookUp, GameStarts, GameExits
<1>6. ~LookUpEnds
  <2>1. LookUpEnds => javaCall'.step = javaCall.step /\ javaEvents' = javaEvents
    BY <1>a DEF LookUpEnds
  <2> QED BY <2>1
<1>7. ~JavaCallDies
  BY <1>a DEF JavaCallDies, Counted
<1>8. ASSUME NEW p \in Places, Damage(p) PROVE FALSE
  BY <1>8, <1>a DEF Damage, Counted
<1>9. ~UNCHANGED javaVars
  BY DEF javaVars
<1> QED
  BY <1>1, <1>2, <1>3, <1>4, <1>5, <1>6, <1>7, <1>8, <1>9 DEF JavaNext

\* A call ends with a whole runtime, whatever earlier calls, deaths and games have
\* left, and files in use alone never end it without one; ensure_runtime and
\* repair_runtime hand out only what was checked, or what the marker names.
THEOREM JavaStaysReady == JavaSpec => JavaIsReady
<1>1. JavaInit => JavaInv
  <2>1. JavaInit => javaCall.step = "idle"
    BY DEF JavaInit, NoCall
  <2> QED
    BY MarkerInit, <2>1 DEF JavaInv, CallEndsWell
<1>2. JavaInv /\ [JavaNext]_javaVars => JavaInv'
  BY MarkerStep, CallEndsWellStep DEF JavaInv
<1>3. JavaInv /\ [JavaNext]_javaVars =>
        [javaCall'.step = "idle" /\ javaEvents'.deaths = javaEvents.deaths
         /\ javaEvents'.damages = javaEvents.damages
         /\ (javaCall.step # "idle" \/ javaEvents'.calls # javaEvents.calls)
         /\ javaResult' # NoJava =>
             javaDisk'[javaResult'] = "whole" \/ javaCall.unlucky]_javaVars
  BY CallEnds, CallReturns
<1>4. JavaInv /\ [JavaNext]_javaVars =>
        [javaCall.step = "return" /\ javaResult' = NoJava /\ javaCall'.step = "idle"
         /\ javaEvents'.deaths = javaEvents.deaths =>
             \/ javaCall.unlucky
             \/ \E e \in javaCall.errors :
                    e[2] = "failed" \/ (e[1] # Canonical /\ e[2] = "incomplete")]_javaVars
  <2> SUFFICES ASSUME JavaInv, [JavaNext]_javaVars, javaCall.step = "return",
                      javaResult' = NoJava, javaCall'.step = "idle",
                      javaEvents'.deaths = javaEvents.deaths
               PROVE  javaCall.unlucky \/ ReasonFor(javaCall.errors)
    BY DEF ReasonFor
  <2>1. javaEvents'.damages = javaEvents.damages
    <3>1. javaEvents \in [calls : 0..MaxJavaCalls, deaths : 0..MaxJavaDeaths,
                          damages : 0..MaxDamages, stuck : BOOLEAN]
      BY DEF JavaInv, MarkerInv, JavaTypeOK
    <3>2. javaEvents' = javaEvents \/ javaEvents' = [javaEvents EXCEPT !["deaths"] = @ + 1]
      BY DEF JavaNext, EnsureRuntime, RepairRuntime, CallBegins, JavaInstalls, Activate,
             ActivateFails, CleanGenerations, Return, LookUp, LookUpEnds, GameStarts, GameExits,
             JavaCallDies, JavaInstallFails, Damage, javaVars, Counted
    <3> QED
      BY <3>1, <3>2
  <2> QED
    BY <2>1, CallEnds, CallReturns
<1> QED
  BY <1>1, <1>2, <1>3, <1>4, PTL DEF JavaSpec, JavaIsReady, ReturnedIsWhole, LockedIsNoReason

-----------------------------------------------------------------------------
\* The leaves an object knows to be changed are those that differ from its snapshot.
EditsAreChanges ==
    \A s \in Stores, id \in Ids :
       /\ loaded[s][id] # NoObject => \A f \in Fields :
             f \in loaded[s][id].edited <=> loaded[s][id].current[f] # loaded[s][id].baseline[f]
       /\ prepared[s][id] # NoObject => \A f \in Fields :
             f \in prepared[s][id].edited <=> prepared[s][id].current[f] # prepared[s][id].baseline[f]

\* A store that is not open has nothing.
OpenStoresOnly ==
    \A s \in Stores, id \in Ids : s > store =>
       cached[s][id] = NoRecord /\ loaded[s][id] = NoObject /\ prepared[s][id] = NoObject

\* Records with the last value promised for each of their leaves.
Keeps(records) ==
    \A id \in Ids : /\ records[id] = NoRecord => promised[id] = NoPromise
                    /\ \A f \in Fields : records[id] # NoRecord /\ promised[id][f] # NoSaver
                                            => records[id][f] = promised[id][f]

\* Without a readable file the only store there is has the promises in its cache.
PromisesAreKept ==
    /\ onFile.readable => Keeps(onFile.records)
    /\ ~onFile.readable => (\A id \in Ids : promised[id] = NoPromise) \/ (store = 1 /\ Keeps(cached[1]))

FirstStoreKnowsAll ==
    store = 1 =>
       /\ onFile.readable => cached[1] = onFile.records
       /\ \A id \in Ids : loaded[1][id] # NoObject => cached[1][id] # NoRecord

\* Until the file is damaged under two stores: a directory goes only with its
\* record, and a version that is prepared is nowhere yet.
RemovalIsHalfDone ==
    removing # Missing =>
       /\ onFile.readable /\ onFile.records[removing] = NoRecord
       /\ store # 0 /\ loaded[store][removing] = NoObject
       /\ ~damaged => \A s \in Stores : prepared[s][removing] = NoObject

FoldersAreThere ==
    ~damaged => \A id \in Ids :
       /\ onFile.readable /\ onFile.records[id] # NoRecord => id \in folders
       /\ store # 0 /\ loaded[store][id] # NoObject => id \in folders
       /\ \A s \in Stores : ~onFile.readable /\ (loaded[s][id] # NoObject \/ cached[s][id] # NoRecord)
             => id \in folders

PreparedIsNew ==
    ~damaged => \A id \in Ids, s \in Stores : prepared[s][id] # NoObject =>
       /\ id \in folders
       /\ onFile.readable => onFile.records[id] = NoRecord
       /\ ~onFile.readable => \A t \in Stores : cached[t][id] = NoRecord /\ loaded[t][id] = NoObject
       /\ loaded[store][id] = NoObject
       /\ \A t \in Stores : t # s => prepared[t][id] = NoObject

StoreInv ==
    /\ StoreTypeOK /\ EditsAreChanges /\ OpenStoresOnly /\ PromisesAreKept
    /\ FirstStoreKnowsAll /\ RemovalIsHalfDone /\ FoldersAreThere /\ PreparedIsNew

\* A record is loaded without changes; the merge of a save is a record.
LEMMA LoadedObject ==
    ASSUME NEW record \in Record \union {NoRecord}
    PROVE  /\ ObjectOf(record) \in Object \union {NoObject}
           /\ ObjectOf(record) # NoObject <=> record # NoRecord
           /\ record # NoRecord => ObjectOf(record) = Loaded(record)
           /\ \A r \in Record : Loaded(r) \in Object /\ Loaded(r) # NoObject /\ Loaded(r).edited = {}
                  /\ Loaded(r).current = r /\ Loaded(r).baseline = r
<1>1. \A r \in Record : Loaded(r) \in Object BY DEF Loaded, Object
<1>2. \A r \in Record : /\ Loaded(r) # NoObject /\ Loaded(r).edited = {}
                        /\ Loaded(r).current = r /\ Loaded(r).baseline = r
  BY <1>1, StoreAssumption DEF Loaded, NoObject
<1> QED BY <1>1, <1>2 DEF ObjectOf

LEMMA SavedRecord ==
    ASSUME StoreTypeOK, NEW s \in Stores, NEW id \in Ids, NEW object \in Object
    PROVE  /\ Base(s) \in Records /\ Saved(s, id, object) \in Record /\ Saved(s, id, object) # NoRecord
           /\ [Base(s) EXCEPT ![id] = Saved(s, id, object)] \in Records
           /\ AfterSave(object) \in Object /\ AfterSave(object) # NoObject
<1>1. Base(s) \in Records BY DEF Base, StoreTypeOK
<1>2. /\ object.current \in Record /\ object.baseline \in Record
  BY DEF Object
<1>3. ASSUME Base(s)[id] # NoRecord PROVE MergeChanges(object.current, object.baseline, Base(s)[id]) \in Record
  <2>1. Base(s)[id] \in Record BY <1>1, <1>3 DEF Records
  <2> QED BY <1>2, <2>1 DEF MergeChanges, Record
<1>4. Saved(s, id, object) \in Record BY <1>2, <1>3 DEF Saved
<1>5. NoRecord \notin Record BY StoreAssumption DEF NoRecord
<1>6. [Base(s) EXCEPT ![id] = Saved(s, id, object)] \in Records BY <1>1, <1>4 DEF Records
<1>7. AfterSave(object) \in Object /\ AfterSave(object) # NoObject
  BY <1>2, LoadedObject DEF AfterSave
<1> QED BY <1>1, <1>4, <1>5, <1>6, <1>7

\* What a save writes, in the file, in the cache of its store and among the promises.
Promise(id, object) ==
    [promised EXCEPT ![id] = [f \in Fields |-> IF f \in object.edited THEN object.current[f] ELSE @[f]]]

LEMMA PromisedTypes ==
    ASSUME StoreTypeOK, NEW id \in Ids, NEW object \in Object
    PROVE  /\ Promise(id, object) \in [Ids -> [Fields -> Leaves \union {NoSaver}]]
           /\ \A i \in Ids \ {id} : Promise(id, object)[i] = promised[i]
           /\ \A f \in Fields : Promise(id, object)[id][f] =
                  IF f \in object.edited THEN object.current[f] ELSE promised[id][f]
<1> DEFINE row == [f \in Fields |-> IF f \in object.edited THEN object.current[f] ELSE promised[id][f]]
<1>1. promised \in [Ids -> [Fields -> Leaves \union {NoSaver}]] BY DEF StoreTypeOK
<1>2. object.current \in [Fields -> Leaves] BY DEF Object, Record
<1>3. row \in [Fields -> Leaves \union {NoSaver}] BY <1>1, <1>2
<1>4. Promise(id, object) = [promised EXCEPT ![id] = row] BY DEF Promise
<1>5. \A f \in Fields : row[f] = IF f \in object.edited THEN object.current[f] ELSE promised[id][f]
  OBVIOUS
<1> HIDE DEF row
<1> QED BY <1>1, <1>3, <1>4, <1>5

LEMMA WrittenTypes ==
    ASSUME StoreTypeOK, NEW s \in Stores, NEW id \in Ids, NEW object \in Object,
           WriteSaved(s, id, object), prepared' \in [Stores -> [Ids -> Object \union {NoObject}]]
    PROVE  StoreTypeOK'
<1> DEFINE data == [Base(s) EXCEPT ![id] = Saved(s, id, object)]
<1>1. data \in Records /\ AfterSave(object) \in Object BY SavedRecord
<1>2. /\ onFile' = [readable |-> TRUE, records |-> data]
      /\ cached' = [cached EXCEPT ![s] = data]
      /\ loaded' = [loaded EXCEPT ![s][id] = AfterSave(object)]
      /\ UNCHANGED <<folders, store, removing, damaged>>
  BY DEF WriteSaved
<1>3. promised' = Promise(id, object) BY DEF WriteSaved, Promise
<1>4. promised' \in [Ids -> [Fields -> Leaves \union {NoSaver}]] BY <1>3, PromisedTypes
<1> HIDE DEF data
<1>5. onFile' \in [readable : BOOLEAN, records : Records] BY <1>1, <1>2
<1>6. cached' \in [Stores -> Records] BY <1>1, <1>2 DEF StoreTypeOK
<1>7. loaded' \in [Stores -> [Ids -> Object \union {NoObject}]] BY <1>1, <1>2 DEF StoreTypeOK
<1> QED BY <1>2, <1>4, <1>5, <1>6, <1>7 DEF StoreTypeOK

LEMMA LoadTypes ==
    ASSUME StoreTypeOK, NEW caches \in [Stores -> Records],
           NEW objects \in [Stores -> [Ids -> Object \union {NoObject}]], LoadFile(caches, objects)
    PROVE  /\ store' = store + 1 /\ store' \in Stores
           /\ cached' \in [Stores -> Records]
           /\ loaded' \in [Stores -> [Ids -> Object \union {NoObject}]]
           /\ promised' \in [Ids -> [Fields -> Leaves \union {NoSaver}]]
           /\ \A t \in Stores \ {store'} : cached'[t] = caches[t] /\ loaded'[t] = objects[t]
           /\ cached'[store'] = IF onFile.readable THEN onFile.records ELSE NoRecords
           /\ \A id \in Ids : loaded'[store'][id] = ObjectOf(cached'[store'][id])
           /\ onFile.readable => promised' = promised
           /\ ~onFile.readable => promised' = [id \in Ids |-> NoPromise]
<1> DEFINE found == IF onFile.readable THEN onFile.records ELSE NoRecords
           objectsFound == [id \in Ids |-> ObjectOf(found[id])]
           s == store + 1
<1>1. found \in Records BY DEF StoreTypeOK, NoRecords, Records
<1>2. objectsFound \in [Ids -> Object \union {NoObject}]
  <2>1. \A id \in Ids : ObjectOf(found[id]) \in Object \union {NoObject} BY <1>1, LoadedObject DEF Records
  <2> QED BY <2>1
<1>3. /\ s \in Stores /\ store' = s /\ cached' = [caches EXCEPT ![s] = found]
      /\ loaded' = [objects EXCEPT ![s] = objectsFound]
      /\ promised' = IF onFile.readable THEN promised ELSE [id \in Ids |-> NoPromise]
  BY DEF LoadFile
<1>4. promised' \in [Ids -> [Fields -> Leaves \union {NoSaver}]]
  BY <1>3 DEF StoreTypeOK, NoPromise
<1>5. \A id \in Ids : objectsFound[id] = ObjectOf(found[id]) OBVIOUS
<1> HIDE DEF objectsFound, found
<1>6. cached' \in [Stores -> Records] /\ loaded' \in [Stores -> [Ids -> Object \union {NoObject}]]
  BY <1>1, <1>2, <1>3
<1>7. cached'[s] = found /\ loaded'[s] = objectsFound BY <1>3
<1>8. \A t \in Stores \ {s} : cached'[t] = caches[t] /\ loaded'[t] = objects[t] BY <1>3
<1> QED BY <1>3, <1>4, <1>5, <1>6, <1>7, <1>8 DEF found

LEMMA NothingTypes ==
    /\ NothingCached \in [Stores -> Records]
    /\ NothingLoaded \in [Stores -> [Ids -> Object \union {NoObject}]]
    /\ \A s \in Stores, id \in Ids : NothingCached[s][id] = NoRecord /\ NothingLoaded[s][id] = NoObject
<1>1. NoRecords \in Records /\ \A id \in Ids : NoRecords[id] = NoRecord BY DEF NoRecords, Records
<1>2. NothingCached \in [Stores -> Records] /\ \A s \in Stores : NothingCached[s] = NoRecords
  BY <1>1 DEF NothingCached
<1>3. /\ NothingLoaded \in [Stores -> [Ids -> Object \union {NoObject}]]
      /\ \A s \in Stores, id \in Ids : NothingLoaded[s][id] = NoObject
  BY DEF NothingLoaded
<1> QED BY <1>1, <1>2, <1>3

\* What each action does to the objects, in terms of one object at a time.
LEMMA EditedObject ==
    ASSUME StoreTypeOK, NEW s \in Stores, NEW id \in Ids, NEW f \in Fields, NEW v \in Leaves,
           EditLeaf(s, id, f, v)
    PROVE  /\ loaded' \in [Stores -> [Ids -> Object \union {NoObject}]]
           /\ \A t \in Stores, i \in Ids : t # s \/ i # id => loaded'[t][i] = loaded[t][i]
           /\ loaded[s][id] # NoObject /\ loaded'[s][id] # NoObject
           /\ loaded'[s][id].baseline = loaded[s][id].baseline
           /\ loaded'[s][id].edited = loaded[s][id].edited \union {f}
           /\ \A g \in Fields : loaded'[s][id].current[g] = IF g = f THEN v ELSE loaded[s][id].current[g]
           /\ f \notin loaded[s][id].edited /\ v # loaded[s][id].current[f]
<1> DEFINE old == loaded[s][id]
           new == [current |-> [old.current EXCEPT ![f] = v], baseline |-> old.baseline,
                   edited |-> old.edited \union {f}]
<1>1. old \in Object BY DEF EditLeaf, StoreTypeOK
<1>2. new \in Object BY <1>1 DEF Object, Record
<1>3. new # NoObject BY <1>2, StoreAssumption DEF NoObject
<1>4. loaded' = [loaded EXCEPT ![s][id].current[f] = v, ![s][id].edited = @ \union {f}] BY DEF EditLeaf
<1>5. loaded \in [Stores -> [Ids -> Object \union {NoObject}]] BY DEF StoreTypeOK
<1>6. loaded' = [loaded EXCEPT ![s][id] = new]
  <2> DEFINE mid == [current |-> [old.current EXCEPT ![f] = v], baseline |-> old.baseline, edited |-> old.edited]
  <2>1. [old EXCEPT !.current[f] = v] = mid BY <1>1 DEF Object
  <2>5. mid \in Object /\ mid.current = new.current /\ mid.baseline = old.baseline /\ mid.edited = old.edited
    BY <1>1 DEF Object, Record
  <2>2. [mid EXCEPT !.edited = @ \union {f}] = new
    <3> DEFINE more == mid.edited \union {f}
    <3> HIDE DEF mid, more
    <3>1. [mid EXCEPT !.edited = more] =
              [current |-> mid.current, baseline |-> mid.baseline, edited |-> more]
      BY <2>5 DEF Object
    <3> QED BY <2>5, <3>1 DEF more
  <2> HIDE DEF mid, new
  <2>3. [loaded EXCEPT ![s][id].current[f] = v] = [loaded EXCEPT ![s][id] = mid] BY <1>5, <2>1
  <2>4. [[loaded EXCEPT ![s][id] = mid] EXCEPT ![s][id].edited = @ \union {f}] = [loaded EXCEPT ![s][id] = new]
    BY <1>5, <2>2
  <2>6. loaded' = [[loaded EXCEPT ![s][id].current[f] = v] EXCEPT ![s][id].edited = @ \union {f}]
    BY <1>4
  <2> QED BY <2>3, <2>4, <2>6
<1>7. \A g \in Fields : new.current[g] = IF g = f THEN v ELSE old.current[g] BY <1>1 DEF Object, Record
<1>8. new.baseline = old.baseline /\ new.edited = old.edited \union {f} OBVIOUS
<1>9. f \notin old.edited /\ v # old.current[f] /\ old # NoObject BY DEF EditLeaf
<1> HIDE DEF new
<1>10. loaded' \in [Stores -> [Ids -> Object \union {NoObject}]] /\ loaded'[s][id] = new
  BY <1>2, <1>5, <1>6
<1>11. \A t \in Stores, i \in Ids : t # s \/ i # id => loaded'[t][i] = loaded[t][i] BY <1>5, <1>6
<1> QED BY <1>3, <1>7, <1>8, <1>9, <1>10, <1>11

LEMMA PreparedObject ==
    ASSUME StoreTypeOK, NEW id \in Ids, NEW record \in Record, PrepareVersion(id, record)
    PROVE  /\ prepared' \in [Stores -> [Ids -> Object \union {NoObject}]]
           /\ \A t \in Stores, i \in Ids : t # store \/ i # id => prepared'[t][i] = prepared[t][i]
           /\ prepared'[store][id] # NoObject
           /\ \A f \in Fields : f \in prepared'[store][id].edited
                    <=> prepared'[store][id].current[f] # prepared'[store][id].baseline[f]
<1> DEFINE new == [current |-> record, baseline |-> Nothing, edited |-> {f \in Fields : record[f] # Missing}]
<1>1. new \in Object BY DEF Object, Record, Nothing, Leaves
<1>2. new # NoObject BY <1>1, StoreAssumption DEF NoObject
<1>3. \A f \in Fields : f \in new.edited <=> new.current[f] # new.baseline[f] BY DEF Nothing
<1>4. store \in Stores /\ prepared' = [prepared EXCEPT ![store][id] = new] BY DEF PrepareVersion, StoreTypeOK
<1>5. prepared \in [Stores -> [Ids -> Object \union {NoObject}]] BY DEF StoreTypeOK
<1> HIDE DEF new
<1>6. prepared' \in [Stores -> [Ids -> Object \union {NoObject}]] /\ prepared'[store][id] = new
  BY <1>1, <1>4, <1>5
<1>7. \A t \in Stores, i \in Ids : t # store \/ i # id => prepared'[t][i] = prepared[t][i] BY <1>4, <1>5
<1> QED BY <1>2, <1>3, <1>6, <1>7

LEMMA RemovedRecord ==
    ASSUME StoreTypeOK, NEW id \in Ids, RemoveRecord(id)
    PROVE  /\ onFile'.readable /\ onFile'.records[id] = NoRecord
           /\ \A i \in Ids \ {id} : onFile'.records[i] = Base(store)[i]
           /\ StoreTypeOK'
           /\ \A t \in Stores, i \in Ids : t # store \/ i # id => loaded'[t][i] = loaded[t][i]
           /\ loaded'[store][id] = NoObject
           /\ promised'[id] = NoPromise /\ \A i \in Ids \ {id} : promised'[i] = promised[i]
           /\ cached'[store] = onFile'.records /\ \A t \in Stores \ {store} : cached'[t] = cached[t]
<1> DEFINE data == [Base(store) EXCEPT ![id] = NoRecord]
<1>1. store \in Stores BY DEF RemoveRecord, StoreTypeOK
<1>2. Base(store) \in Records BY <1>1 DEF Base, StoreTypeOK
<1>3. data \in Records /\ data[id] = NoRecord /\ \A i \in Ids \ {id} : data[i] = Base(store)[i]
  BY <1>2 DEF Records
<1>4. /\ onFile' = [readable |-> TRUE, records |-> data] /\ cached' = [cached EXCEPT ![store] = data]
      /\ loaded' = [loaded EXCEPT ![store][id] = NoObject]
      /\ promised' = [promised EXCEPT ![id] = NoPromise] /\ removing' = id
      /\ UNCHANGED <<folders, store, prepared, damaged>>
  BY DEF RemoveRecord
<1>5. NoPromise \in [Fields -> Leaves \union {NoSaver}] BY DEF NoPromise
<1> HIDE DEF data
<1>6. /\ onFile' \in [readable : BOOLEAN, records : Records] /\ cached' \in [Stores -> Records]
      /\ loaded' \in [Stores -> [Ids -> Object \union {NoObject}]]
      /\ promised' \in [Ids -> [Fields -> Leaves \union {NoSaver}]]
  BY <1>1, <1>3, <1>4, <1>5 DEF StoreTypeOK
<1>7. StoreTypeOK' BY <1>4, <1>6 DEF StoreTypeOK
<1>8. /\ \A t \in Stores, i \in Ids : t # store \/ i # id => loaded'[t][i] = loaded[t][i]
      /\ loaded'[store][id] = NoObject
  BY <1>1, <1>4 DEF StoreTypeOK
<1>9. promised'[id] = NoPromise /\ \A i \in Ids \ {id} : promised'[i] = promised[i]
  BY <1>4 DEF StoreTypeOK
<1>10. cached'[store] = data /\ \A t \in Stores \ {store} : cached'[t] = cached[t]
  BY <1>1, <1>4 DEF StoreTypeOK
<1> QED BY <1>3, <1>4, <1>7, <1>8, <1>9, <1>10

LEMMA SavedPreparedTypes ==
    ASSUME StoreTypeOK, NEW s \in Stores, NEW id \in Ids, SavePrepared(s, id)
    PROVE  /\ prepared' \in [Stores -> [Ids -> Object \union {NoObject}]]
           /\ prepared'[s][id] = NoObject
           /\ \A t \in Stores, i \in Ids : t # s \/ i # id => prepared'[t][i] = prepared[t][i]
           /\ prepared[s][id] \in Object
  BY DEF SavePrepared, StoreTypeOK

LEMMA StoreTypesKept ==
    ASSUME StoreTypeOK, [StoreNext]_storeVars PROVE StoreTypeOK'
<1>1. CASE UNCHANGED storeVars BY <1>1 DEF storeVars, StoreTypeOK
<1>2. CASE OpenStore
  <2>1. LoadFile(cached, loaded) /\ UNCHANGED <<onFile, folders, prepared, removing, damaged>>
    BY <1>2 DEF OpenStore
  <2>2. cached \in [Stores -> Records] /\ loaded \in [Stores -> [Ids -> Object \union {NoObject}]]
    BY DEF StoreTypeOK
  <2> QED BY <2>1, <2>2, LoadTypes DEF StoreTypeOK
<1>3. CASE StoreCrash
  <2>1. /\ LoadFile(NothingCached, NothingLoaded) /\ UNCHANGED <<onFile, folders, damaged>>
        /\ prepared' = NothingLoaded /\ removing' = Missing
    BY <1>3 DEF StoreCrash
  <2> QED BY <2>1, NothingTypes, LoadTypes DEF StoreTypeOK
<1>4. ASSUME NEW s \in Stores, NEW id \in Ids, NEW f \in Fields, NEW v \in Leaves, EditLeaf(s, id, f, v)
      PROVE  StoreTypeOK'
  BY <1>4, EditedObject DEF EditLeaf, StoreTypeOK
<1>5. ASSUME NEW s \in Stores, NEW id \in Ids, SaveVersion(s, id) \/ SavePrepared(s, id)
      PROVE  StoreTypeOK'
  <2>1. CASE SaveVersion(s, id)
    <3>1. loaded[s][id] \in Object BY <2>1 DEF SaveVersion, StoreTypeOK
    <3> QED BY <2>1, <3>1, WrittenTypes DEF SaveVersion, StoreTypeOK
  <2>2. CASE SavePrepared(s, id)
    BY <2>2, SavedPreparedTypes, WrittenTypes DEF SavePrepared
  <2> QED BY <1>5, <2>1, <2>2
<1>6. ASSUME NEW id \in Ids, RemoveRecord(id) PROVE StoreTypeOK' BY <1>6, RemovedRecord
<1>7. ASSUME NEW id \in Ids, NEW record \in Record, PrepareVersion(id, record) PROVE StoreTypeOK'
  <2>1. folders' \in SUBSET Ids BY <1>7 DEF PrepareVersion, StoreTypeOK
  <2> QED BY <1>7, <2>1, PreparedObject DEF PrepareVersion, StoreTypeOK
<1>8. CASE RemoveDirectory BY <1>8 DEF RemoveDirectory, StoreTypeOK
<1>9. CASE DamageFile
  <2>1. onFile' \in [readable : BOOLEAN, records : Records]
    BY <1>9 DEF DamageFile, StoreTypeOK
  <2>2. promised' \in [Ids -> [Fields -> Leaves \union {NoSaver}]]
    BY <1>9 DEF DamageFile, StoreTypeOK, NoPromise
  <2>3. damaged' \in BOOLEAN BY <1>9 DEF DamageFile, StoreTypeOK
  <2> QED BY <1>9, <2>1, <2>2, <2>3 DEF DamageFile, StoreTypeOK
<1>10. \A v \in Values : [f \in Fields |-> v] \in Record BY DEF Record, Leaves
<1> QED BY <1>1, <1>2, <1>3, <1>4, <1>5, <1>6, <1>7, <1>8, <1>9, <1>10 DEF StoreNext

LEMMA EditsStayChanges ==
    ASSUME StoreTypeOK, EditsAreChanges, [StoreNext]_storeVars PROVE EditsAreChanges'
<1> DEFINE Fits(o) == o # NoObject => \A f \in Fields : f \in o.edited <=> o.current[f] # o.baseline[f]
<1>0. \A s \in Stores, id \in Ids : Fits(loaded[s][id]) /\ Fits(prepared[s][id]) BY DEF EditsAreChanges
<1>a. \A record \in Record : Fits(Loaded(record)) BY LoadedObject
<1>b. Fits(NoObject) OBVIOUS
<1>c. \A record \in Record \union {NoRecord} : Fits(ObjectOf(record)) BY <1>a, <1>b DEF ObjectOf
<1>1. CASE UNCHANGED storeVars BY <1>1 DEF storeVars, EditsAreChanges
<1>2. CASE OpenStore \/ StoreCrash
  <2>1. PICK caches \in [Stores -> Records], objects \in [Stores -> [Ids -> Object \union {NoObject}]] :
           /\ LoadFile(caches, objects)
           /\ \A s \in Stores, id \in Ids : Fits(objects[s][id])
           /\ \A s \in Stores, id \in Ids : Fits(prepared'[s][id])
    <3>1. CASE OpenStore BY <3>1, <1>0 DEF OpenStore, StoreTypeOK
    <3>2. CASE StoreCrash BY <3>2, <1>b, NothingTypes DEF StoreCrash
    <3> QED BY <1>2, <3>1, <3>2
  <2> HIDE DEF Fits
  <2>2. \A s \in Stores, id \in Ids : Fits(loaded'[s][id])
    <3> TAKE s \in Stores, id \in Ids
    <3>1. CASE s = store'
      <4>1. cached'[store'][id] \in Record \union {NoRecord} BY <2>1, LoadTypes DEF Records
      <4> QED BY <1>c, <2>1, <3>1, <4>1, LoadTypes
    <3>2. CASE s # store' BY <2>1, <3>2, LoadTypes
    <3> QED BY <3>1, <3>2
  <2> QED BY <2>1, <2>2 DEF EditsAreChanges, Fits
<1>3. ASSUME NEW s \in Stores, NEW id \in Ids, NEW f \in Fields, NEW v \in Leaves, EditLeaf(s, id, f, v)
      PROVE  EditsAreChanges'
  <2>1. Fits(loaded'[s][id])
    <3> SUFFICES ASSUME NEW g \in Fields
                 PROVE g \in loaded'[s][id].edited <=> loaded'[s][id].current[g] # loaded'[s][id].baseline[g]
      OBVIOUS
    <3> QED BY <1>3, <1>0, EditedObject
  <2>2. UNCHANGED prepared BY <1>3 DEF EditLeaf
  <2>3. \A t \in Stores, i \in Ids : Fits(loaded'[t][i]) BY <1>0, <1>3, <2>1, EditedObject
  <2> QED BY <1>0, <2>2, <2>3 DEF EditsAreChanges
<1>4. ASSUME NEW s \in Stores, NEW id \in Ids, SaveVersion(s, id) \/ SavePrepared(s, id)
      PROVE  EditsAreChanges'
  <2>1. PICK object \in Object : WriteSaved(s, id, object)
    BY <1>4 DEF SaveVersion, SavePrepared, StoreTypeOK
  <2>2. loaded' = [loaded EXCEPT ![s][id] = AfterSave(object)] BY <2>1 DEF WriteSaved
  <2>3. Fits(AfterSave(object)) BY <1>a DEF AfterSave, Object
  <2>4. \A t \in Stores, i \in Ids : loaded'[t][i] \in {loaded[t][i], AfterSave(object)}
    BY <2>2 DEF StoreTypeOK
  <2>5. \A t \in Stores, i \in Ids : prepared'[t][i] \in {prepared[t][i], NoObject}
    BY <1>4, SavedPreparedTypes DEF SaveVersion
  <2>6. \A t \in Stores, i \in Ids : Fits(loaded'[t][i]) /\ Fits(prepared'[t][i])
    <3> HIDE DEF Fits
    <3> QED BY <1>0, <1>b, <2>3, <2>4, <2>5
  <2> QED BY <2>6 DEF EditsAreChanges
<1>5. ASSUME NEW id \in Ids, RemoveRecord(id) PROVE EditsAreChanges'
  <2>1. \A t \in Stores, i \in Ids : loaded'[t][i] \in {loaded[t][i], NoObject} BY <1>5, RemovedRecord
  <2>2. UNCHANGED prepared BY <1>5 DEF RemoveRecord
  <2>3. \A t \in Stores, i \in Ids : Fits(loaded'[t][i]) /\ Fits(prepared'[t][i])
    <3> HIDE DEF Fits
    <3> QED BY <1>0, <1>b, <2>1, <2>2
  <2> QED BY <2>3 DEF EditsAreChanges
<1>6. ASSUME NEW id \in Ids, NEW record \in Record, PrepareVersion(id, record) PROVE EditsAreChanges'
  <2>1. UNCHANGED loaded BY <1>6 DEF PrepareVersion
  <2>2. \A t \in Stores, i \in Ids : Fits(prepared'[t][i]) BY <1>0, <1>6, PreparedObject
  <2> QED BY <1>0, <2>1, <2>2 DEF EditsAreChanges
<1>7. CASE RemoveDirectory \/ DamageFile BY <1>7 DEF RemoveDirectory, DamageFile, EditsAreChanges
<1>8. \A v \in Values : [f \in Fields |-> v] \in Record BY DEF Record, Leaves
<1> QED BY <1>1, <1>2, <1>3, <1>4, <1>5, <1>6, <1>7, <1>8 DEF StoreNext

\* A save and a removal write the file and the cache of their store alike; the
\* others stay, and so do the objects but the one that is saved.
LEMMA WrittenFile ==
    ASSUME StoreTypeOK, NEW s \in Stores, NEW id \in Ids, NEW object \in Object, WriteSaved(s, id, object)
    PROVE  /\ onFile'.readable /\ cached'[s] = onFile'.records
           /\ onFile'.records[id] = Saved(s, id, object) /\ onFile'.records[id] # NoRecord
           /\ \A i \in Ids \ {id} : onFile'.records[i] = Base(s)[i]
           /\ \A t \in Stores \ {s} : cached'[t] = cached[t]
           /\ \A t \in Stores, i \in Ids : t # s \/ i # id => loaded'[t][i] = loaded[t][i]
           /\ loaded'[s][id] # NoObject
           /\ promised' = Promise(id, object)
           /\ UNCHANGED <<folders, store, removing, damaged>>
<1> DEFINE data == [Base(s) EXCEPT ![id] = Saved(s, id, object)]
<1>1. data \in Records /\ Base(s) \in Records /\ Saved(s, id, object) # NoRecord /\ AfterSave(object) # NoObject
  BY SavedRecord
<1>2. data[id] = Saved(s, id, object) /\ \A i \in Ids \ {id} : data[i] = Base(s)[i]
  BY <1>1 DEF Records
<1>3. /\ onFile' = [readable |-> TRUE, records |-> data]
      /\ cached' = [cached EXCEPT ![s] = data]
      /\ loaded' = [loaded EXCEPT ![s][id] = AfterSave(object)]
      /\ UNCHANGED <<folders, store, removing, damaged>>
  BY DEF WriteSaved
<1>4. promised' = Promise(id, object) BY DEF WriteSaved, Promise
<1> HIDE DEF data
<1>5. onFile'.readable /\ onFile'.records = data BY <1>3
<1>6. cached'[s] = data /\ \A t \in Stores \ {s} : cached'[t] = cached[t] BY <1>3 DEF StoreTypeOK
<1>7. /\ \A t \in Stores, i \in Ids : t # s \/ i # id => loaded'[t][i] = loaded[t][i]
      /\ loaded'[s][id] = AfterSave(object)
  BY <1>3 DEF StoreTypeOK
<1> QED BY <1>1, <1>2, <1>3, <1>4, <1>5, <1>6, <1>7

LEMMA StoreNumbers ==
    ASSUME StoreTypeOK PROVE /\ store \in Nat /\ \A s \in Stores : s \in Nat /\ s > 0
                             /\ store # 0 => store \in Stores
  BY StoreAssumption DEF StoreTypeOK

LEMMA OnlyOpenStores ==
    ASSUME StoreTypeOK, OpenStoresOnly, [StoreNext]_storeVars PROVE OpenStoresOnly'
<1> USE StoreNumbers
<1>1. CASE UNCHANGED storeVars BY <1>1 DEF storeVars, OpenStoresOnly
<1>2. CASE OpenStore
  <2>1. LoadFile(cached, loaded) /\ UNCHANGED prepared BY <1>2 DEF OpenStore
  <2>2. cached \in [Stores -> Records] /\ loaded \in [Stores -> [Ids -> Object \union {NoObject}]]
    BY DEF StoreTypeOK
  <2>3. store' = store + 1 /\ \A s \in Stores : s > store' => s > store /\ s # store'
    BY <2>1, <2>2, LoadTypes
  <2>4. \A s \in Stores \ {store'} : cached'[s] = cached[s] /\ loaded'[s] = loaded[s]
    BY <2>1, <2>2, LoadTypes
  <2> QED BY <2>1, <2>3, <2>4 DEF OpenStoresOnly
<1>3. CASE StoreCrash
  <2>1. LoadFile(NothingCached, NothingLoaded) /\ prepared' = NothingLoaded
    BY <1>3 DEF StoreCrash
  <2>2. \A s \in Stores : s > store' => s # store' BY <2>1, NothingTypes, LoadTypes
  <2>3. \A s \in Stores \ {store'} : cached'[s] = NothingCached[s] /\ loaded'[s] = NothingLoaded[s]
    BY <2>1, NothingTypes, LoadTypes
  <2> QED BY <2>1, <2>2, <2>3, NothingTypes DEF OpenStoresOnly
<1>4. ASSUME NEW s \in Stores, NEW id \in Ids, NEW f \in Fields, NEW v \in Leaves, EditLeaf(s, id, f, v)
      PROVE  OpenStoresOnly'
  <2>1. UNCHANGED <<store, cached, prepared>> BY <1>4 DEF EditLeaf
  <2>2. ~(s > store) BY <1>4, EditedObject DEF OpenStoresOnly
  <2>3. \A t \in Stores, i \in Ids : t > store => loaded'[t][i] = loaded[t][i]
    BY <1>4, <2>2, EditedObject
  <2> QED BY <2>1, <2>3 DEF OpenStoresOnly
<1>5. ASSUME NEW s \in Stores, NEW id \in Ids, SaveVersion(s, id) \/ SavePrepared(s, id)
      PROVE  OpenStoresOnly'
  <2>1. PICK object \in Object : WriteSaved(s, id, object)
    BY <1>5 DEF SaveVersion, SavePrepared, StoreTypeOK
  <2>2. s <= store BY <1>5 DEF SaveVersion, SavePrepared, OpenStoresOnly
  <2>3. \A t \in Stores, i \in Ids : prepared'[t][i] \in {prepared[t][i], NoObject}
    BY <1>5, SavedPreparedTypes DEF SaveVersion
  <2> QED BY <2>1, <2>2, <2>3, WrittenFile DEF OpenStoresOnly
<1>6. ASSUME NEW id \in Ids, RemoveRecord(id) PROVE OpenStoresOnly'
  <2>1. UNCHANGED <<store, prepared>> BY <1>6 DEF RemoveRecord
  <2> QED BY <1>6, <2>1, RemovedRecord DEF OpenStoresOnly
<1>7. ASSUME NEW id \in Ids, NEW record \in Record, PrepareVersion(id, record) PROVE OpenStoresOnly'
  <2>1. UNCHANGED <<store, cached, loaded>> BY <1>7 DEF PrepareVersion
  <2> QED BY <1>7, <2>1, PreparedObject DEF OpenStoresOnly
<1>8. CASE RemoveDirectory \/ DamageFile BY <1>8 DEF RemoveDirectory, DamageFile, OpenStoresOnly
<1>9. \A v \in Values : [f \in Fields |-> v] \in Record BY DEF Record, Leaves
<1> QED BY <1>1, <1>2, <1>3, <1>4, <1>5, <1>6, <1>7, <1>8, <1>9 DEF StoreNext

LEMMA FirstStoreStillKnows ==
    ASSUME StoreTypeOK, OpenStoresOnly, FirstStoreKnowsAll, [StoreNext]_storeVars PROVE FirstStoreKnowsAll'
<1> USE StoreNumbers
<1>1. CASE UNCHANGED storeVars BY <1>1 DEF storeVars, FirstStoreKnowsAll
<1>2. CASE OpenStore \/ StoreCrash
  <2>1. PICK caches \in [Stores -> Records], objects \in [Stores -> [Ids -> Object \union {NoObject}]] :
           LoadFile(caches, objects) /\ UNCHANGED onFile
    BY <1>2, NothingTypes DEF OpenStore, StoreCrash, StoreTypeOK
  <2>2. \A id \in Ids : loaded'[store'][id] # NoObject => cached'[store'][id] # NoRecord
    <3>1. cached'[store'] \in Records BY <2>1, LoadTypes
    <3> QED BY <2>1, <3>1, LoadTypes, LoadedObject DEF Records
  <2>3. onFile'.readable => cached'[store'] = onFile'.records BY <2>1, LoadTypes
  <2> QED BY <2>2, <2>3 DEF FirstStoreKnowsAll
<1>4. ASSUME NEW s \in Stores, NEW id \in Ids, NEW f \in Fields, NEW v \in Leaves, EditLeaf(s, id, f, v)
      PROVE  FirstStoreKnowsAll'
  <2>1. UNCHANGED <<onFile, store, cached>> BY <1>4 DEF EditLeaf
  <2>2. \A i \in Ids : loaded'[1][i] # NoObject /\ 1 \in Stores => loaded[1][i] # NoObject
    BY <1>4, EditedObject
  <2> QED BY <2>1, <2>2 DEF FirstStoreKnowsAll
<1>5. ASSUME NEW s \in Stores, NEW id \in Ids, SaveVersion(s, id) \/ SavePrepared(s, id)
      PROVE  FirstStoreKnowsAll'
  <2>1. PICK object \in Object : WriteSaved(s, id, object)
    BY <1>5 DEF SaveVersion, SavePrepared, StoreTypeOK
  <2>2. s <= store BY <1>5 DEF SaveVersion, SavePrepared, OpenStoresOnly
  <2>3. store = 1 => s = 1 BY <2>2
  <2>4. ASSUME store = 1, NEW i \in Ids, i # id, loaded[1][i] # NoObject PROVE Base(1)[i] # NoRecord
    BY <2>4 DEF FirstStoreKnowsAll, Base
  <2> QED BY <2>1, <2>3, <2>4, WrittenFile DEF FirstStoreKnowsAll
<1>6. ASSUME NEW id \in Ids, RemoveRecord(id) PROVE FirstStoreKnowsAll'
  <2>1. UNCHANGED store BY <1>6 DEF RemoveRecord
  <2>2. ASSUME store = 1, NEW i \in Ids, i # id, loaded[1][i] # NoObject PROVE Base(1)[i] # NoRecord
    BY <2>2 DEF FirstStoreKnowsAll, Base
  <2> QED BY <1>6, <2>1, <2>2, RemovedRecord DEF FirstStoreKnowsAll
<1>7. ASSUME NEW id \in Ids, NEW record \in Record, PrepareVersion(id, record) PROVE FirstStoreKnowsAll'
  BY <1>7 DEF PrepareVersion, FirstStoreKnowsAll
<1>8. CASE RemoveDirectory \/ DamageFile BY <1>8 DEF RemoveDirectory, DamageFile, FirstStoreKnowsAll, StoreTypeOK
<1>9. \A v \in Values : [f \in Fields |-> v] \in Record BY DEF Record, Leaves
<1> QED BY <1>1, <1>2, <1>4, <1>5, <1>6, <1>7, <1>8, <1>9 DEF StoreNext

LEMMA BaseKeeps ==
    ASSUME StoreTypeOK, PromisesAreKept, NEW s \in Stores, s <= store PROVE Keeps(Base(s))
<1>1. CASE onFile.readable BY <1>1 DEF PromisesAreKept, Base
<1>2. CASE \A id \in Ids : promised[id] = NoPromise BY <1>2 DEF Keeps, NoPromise
<1>3. CASE ~onFile.readable /\ store = 1 /\ Keeps(cached[1])
  <2>1. s = 1 BY <1>3, StoreNumbers
  <2> QED BY <1>3, <2>1 DEF Base
<1> QED BY <1>1, <1>2, <1>3 DEF PromisesAreKept

LEMMA SaveKeeps ==
    ASSUME StoreTypeOK, NEW s \in Stores, NEW id \in Ids, NEW object \in Object, Keeps(Base(s)),
           \A f \in Fields : f \in object.edited <=> object.current[f] # object.baseline[f],
           WriteSaved(s, id, object)
    PROVE  onFile'.readable /\ Keeps(onFile.records)'
<1>1. \A i \in Ids \ {id} : onFile'.records[i] = Base(s)[i] /\ promised'[i] = promised[i]
  BY WrittenFile, PromisedTypes
<1>2. onFile'.records[id] # NoRecord BY WrittenFile
<1>3. ASSUME NEW f \in Fields, promised'[id][f] # NoSaver PROVE onFile'.records[id][f] = promised'[id][f]
  <2>1. promised'[id][f] = IF f \in object.edited THEN object.current[f] ELSE promised[id][f]
    BY WrittenFile, PromisedTypes
  <2>2. onFile'.records[id] = Saved(s, id, object) BY WrittenFile
  <2>3. CASE Base(s)[id] = NoRecord
    <3>1. promised[id][f] = NoSaver BY <2>3 DEF Keeps, NoPromise
    <3> QED BY <1>3, <2>1, <2>2, <2>3, <3>1 DEF Saved
  <2>4. CASE Base(s)[id] # NoRecord
    <3>1. Saved(s, id, object)[f] = IF object.current[f] # object.baseline[f] THEN object.current[f] ELSE Base(s)[id][f]
      BY <2>4 DEF Saved, MergeChanges
    <3> QED BY <1>3, <2>1, <2>2, <2>4, <3>1 DEF Keeps
  <2> QED BY <2>3, <2>4
<1>4. onFile'.readable BY WrittenFile
<1> QED BY <1>1, <1>2, <1>3, <1>4 DEF Keeps

LEMMA PromisesStayKept ==
    ASSUME StoreTypeOK, EditsAreChanges, OpenStoresOnly, FirstStoreKnowsAll, PromisesAreKept,
           [StoreNext]_storeVars
    PROVE  PromisesAreKept'
<1>1. CASE UNCHANGED <<onFile, promised, store, cached>> BY <1>1 DEF PromisesAreKept, Keeps
<1>2. CASE OpenStore \/ StoreCrash
  <2>1. PICK caches \in [Stores -> Records], objects \in [Stores -> [Ids -> Object \union {NoObject}]] :
           LoadFile(caches, objects) /\ UNCHANGED onFile
    BY <1>2, NothingTypes DEF OpenStore, StoreCrash, StoreTypeOK
  <2>2. CASE onFile.readable BY <2>1, <2>2, LoadTypes DEF PromisesAreKept, Keeps
  <2>3. CASE ~onFile.readable BY <2>1, <2>3, LoadTypes DEF PromisesAreKept
  <2> QED BY <2>2, <2>3
<1>3. ASSUME NEW s \in Stores, NEW id \in Ids, SaveVersion(s, id) \/ SavePrepared(s, id)
      PROVE  PromisesAreKept'
  <2>1. PICK object \in Object : /\ WriteSaved(s, id, object)
                                 /\ \A f \in Fields : f \in object.edited <=> object.current[f] # object.baseline[f]
    <3>1. CASE SaveVersion(s, id)
      <4>1. loaded[s][id] \in Object /\ loaded[s][id] # NoObject /\ WriteSaved(s, id, loaded[s][id])
        BY <3>1 DEF SaveVersion, StoreTypeOK
      <4> QED BY <4>1 DEF EditsAreChanges
    <3>2. CASE SavePrepared(s, id)
      <4>1. prepared[s][id] \in Object /\ prepared[s][id] # NoObject /\ WriteSaved(s, id, prepared[s][id])
        BY <3>2 DEF SavePrepared, StoreTypeOK
      <4> QED BY <4>1 DEF EditsAreChanges
    <3> QED BY <1>3, <3>1, <3>2
  <2>2. s <= store BY <1>3, StoreNumbers DEF SaveVersion, SavePrepared, OpenStoresOnly
  <2> QED BY <2>1, <2>2, BaseKeeps, SaveKeeps DEF PromisesAreKept
<1>4. ASSUME NEW id \in Ids, RemoveRecord(id) PROVE PromisesAreKept'
  <2>1. store \in Stores /\ store <= store BY <1>4, StoreNumbers DEF RemoveRecord
  <2>2. Keeps(Base(store)) BY <2>1, BaseKeeps
  <2> QED BY <1>4, <2>2, RemovedRecord DEF PromisesAreKept, Keeps, NoPromise
<1>5. CASE DamageFile
  <2>1. ~onFile'.readable /\ UNCHANGED <<store, cached>> BY <1>5 DEF DamageFile, StoreTypeOK
  <2>2. CASE store = 1
    <3>1. promised' = promised /\ Keeps(cached[1])
      BY <1>5, <2>2 DEF DamageFile, FirstStoreKnowsAll, PromisesAreKept
    <3> QED BY <2>1, <2>2, <3>1 DEF PromisesAreKept, Keeps
  <2>3. CASE store # 1 BY <1>5, <2>1, <2>3 DEF DamageFile, PromisesAreKept
  <2> QED BY <2>2, <2>3
<1>6. ASSUME NEW s \in Stores, NEW id \in Ids, NEW f \in Fields, NEW v \in Leaves, EditLeaf(s, id, f, v)
      PROVE  PromisesAreKept'
  BY <1>1, <1>6 DEF EditLeaf
<1>7. ASSUME NEW id \in Ids, NEW record, PrepareVersion(id, record) PROVE PromisesAreKept'
  BY <1>1, <1>7 DEF PrepareVersion
<1>8. CASE RemoveDirectory \/ UNCHANGED storeVars BY <1>1, <1>8 DEF RemoveDirectory, storeVars
<1> QED BY <1>2, <1>3, <1>4, <1>5, <1>6, <1>7, <1>8 DEF StoreNext

LEMMA RemovalStaysHalfDone ==
    ASSUME StoreInv, [StoreNext]_storeVars PROVE RemovalIsHalfDone'
<1> USE DEF StoreInv
<1>1. CASE removing' = Missing BY <1>1 DEF RemovalIsHalfDone
<1>2. CASE UNCHANGED storeVars BY <1>2 DEF storeVars, RemovalIsHalfDone
<1>3. ASSUME NEW s \in Stores, NEW id \in Ids, NEW f \in Fields, NEW v \in Leaves, EditLeaf(s, id, f, v)
      PROVE  RemovalIsHalfDone'
  <2>1. UNCHANGED <<onFile, store, prepared, removing, damaged>> BY <1>3 DEF EditLeaf
  <2>2. CASE removing # Missing
    <3>1. removing \in Ids /\ store \in Stores /\ ~(s = store /\ id = removing)
      BY <1>3, <2>2, StoreNumbers DEF RemovalIsHalfDone, EditLeaf, StoreTypeOK
    <3> QED BY <1>3, <2>1, <2>2, <3>1, EditedObject DEF RemovalIsHalfDone
  <2> QED BY <1>1, <2>1, <2>2
<1>4. ASSUME NEW id \in Ids, RemoveRecord(id) PROVE RemovalIsHalfDone'
  <2>1. removing' = id /\ loaded[store][id] # NoObject /\ store # 0 /\ UNCHANGED <<store, prepared, damaged>>
    BY <1>4 DEF RemoveRecord
  <2>2. ~damaged => \A s \in Stores : prepared[s][id] = NoObject BY <2>1 DEF PreparedIsNew
  <2> QED BY <1>4, <2>1, <2>2, RemovedRecord DEF RemovalIsHalfDone
<1>5. CASE UNCHANGED removing /\ LockFree BY <1>1, <1>5 DEF LockFree
<1> QED BY <1>1, <1>2, <1>3, <1>4, <1>5
    DEF StoreNext, OpenStore, StoreCrash, SaveVersion, SavePrepared, WriteSaved, PrepareVersion,
        RemoveDirectory, DamageFile

\* A save puts nothing on file that has no directory, and no version that is
\* still to be saved.
LEMMA WrittenHasFolder ==
    ASSUME StoreInv, ~damaged, NEW s \in Stores, NEW id \in Ids, SaveVersion(s, id) \/ SavePrepared(s, id)
    PROVE  /\ id \in folders /\ \A i \in Ids : onFile'.records[i] # NoRecord => i \in folders
           /\ \A t \in Stores, i \in Ids : prepared'[t][i] # NoObject =>
                 prepared[t][i] # NoObject /\ i # id /\ onFile'.records[i] = NoRecord
<1> USE DEF StoreInv
<1>1. PICK object \in Object : WriteSaved(s, id, object)
  BY DEF SaveVersion, SavePrepared, StoreTypeOK
<1>2. id \in folders
  <2>1. CASE SaveVersion(s, id) BY <2>1 DEF SaveVersion, StillThere, FoldersAreThere
  <2>2. CASE SavePrepared(s, id) BY <2>2 DEF SavePrepared, PreparedIsNew
  <2> QED BY <2>1, <2>2
<1>3. \A i \in Ids \ {id} : onFile'.records[i] = Base(s)[i] BY <1>1, WrittenFile
<1>4. \A i \in Ids : Base(s)[i] # NoRecord => i \in folders BY DEF Base, FoldersAreThere
<1>5. ASSUME NEW t \in Stores, NEW i \in Ids, prepared'[t][i] # NoObject
      PROVE  prepared[t][i] # NoObject /\ i # id /\ onFile'.records[i] = NoRecord
  <2>1. prepared[t][i] # NoObject
    <3>1. CASE SaveVersion(s, id) BY <1>5, <3>1 DEF SaveVersion
    <3>2. CASE SavePrepared(s, id) BY <1>5, <3>2, SavedPreparedTypes
    <3> QED BY <3>1, <3>2
  <2>2. i # id
    <3>1. CASE SaveVersion(s, id) BY <2>1, <3>1 DEF SaveVersion, StillThere, PreparedIsNew
    <3>2. CASE SavePrepared(s, id)
      <4>1. prepared[s][id] # NoObject /\ prepared'[s][id] = NoObject
        BY <3>2, SavedPreparedTypes DEF SavePrepared
      <4> QED BY <1>5, <2>1, <4>1 DEF PreparedIsNew
    <3> QED BY <3>1, <3>2
  <2>3. Base(s)[i] = NoRecord BY <2>1 DEF Base, PreparedIsNew
  <2> QED BY <1>3, <2>1, <2>2, <2>3
<1> QED BY <1>2, <1>3, <1>4, <1>5

LEMMA FoldersStayThere ==
    ASSUME StoreInv, [StoreNext]_storeVars PROVE FoldersAreThere'
<1> USE DEF StoreInv
<1> USE StoreNumbers
<1>0. SUFFICES ASSUME ~damaged', NEW id \in Ids
      PROVE  /\ onFile'.readable /\ onFile'.records[id] # NoRecord => id \in folders'
             /\ store' # 0 /\ loaded'[store'][id] # NoObject => id \in folders'
             /\ \A s \in Stores : ~onFile'.readable /\ (loaded'[s][id] # NoObject \/ cached'[s][id] # NoRecord)
                   => id \in folders'
  BY DEF FoldersAreThere
<1> DEFINE Goal == /\ onFile'.readable /\ onFile'.records[id] # NoRecord => id \in folders'
                   /\ store' # 0 /\ loaded'[store'][id] # NoObject => id \in folders'
                   /\ \A s \in Stores : ~onFile'.readable /\ (loaded'[s][id] # NoObject \/ cached'[s][id] # NoRecord)
                         => id \in folders'
<1>1. CASE UNCHANGED storeVars BY <1>0, <1>1 DEF storeVars, FoldersAreThere
<1>2. CASE OpenStore \/ StoreCrash
  <2>1. PICK caches \in [Stores -> Records], objects \in [Stores -> [Ids -> Object \union {NoObject}]] :
           /\ LoadFile(caches, objects) /\ UNCHANGED <<onFile, folders, damaged>>
           /\ \A s \in Stores : /\ caches[s][id] # NoRecord => caches[s][id] = cached[s][id]
                                /\ objects[s][id] # NoObject => objects[s][id] = loaded[s][id]
    <3>1. CASE OpenStore BY <3>1 DEF OpenStore, StoreTypeOK
    <3>2. CASE StoreCrash BY <3>2, NothingTypes DEF StoreCrash
    <3> QED BY <1>2, <3>1, <3>2
  <2>2. onFile.records[id] # NoRecord /\ onFile.readable => id \in folders BY <1>0, <2>1 DEF FoldersAreThere
  <2>3. cached'[store'][id] # NoRecord => onFile.readable /\ onFile.records[id] # NoRecord
    BY <2>1, LoadTypes DEF NoRecords
  <2>4. loaded'[store'][id] # NoObject => cached'[store'][id] # NoRecord
    BY <2>1, LoadTypes, LoadedObject DEF Records
  <2>5. ASSUME NEW s \in Stores, s # store', ~onFile.readable,
               loaded'[s][id] # NoObject \/ cached'[s][id] # NoRecord
        PROVE  id \in folders
    <3>1. loaded[s][id] # NoObject \/ cached[s][id] # NoRecord BY <2>1, <2>5, LoadTypes
    <3> QED BY <1>0, <2>1, <2>5, <3>1 DEF FoldersAreThere
  <2> QED BY <2>1, <2>2, <2>3, <2>4, <2>5
<1>3. ASSUME NEW s \in Stores, NEW i \in Ids, NEW f \in Fields, NEW v \in Leaves, EditLeaf(s, i, f, v)
      PROVE  Goal
  <2>1. UNCHANGED <<onFile, folders, store, cached, damaged>> BY <1>3 DEF EditLeaf
  <2>2. \A t \in Stores : loaded'[t][id] # NoObject <=> loaded[t][id] # NoObject BY <1>3, EditedObject
  <2> QED BY <1>0, <2>1, <2>2 DEF FoldersAreThere
<1>4. ASSUME NEW s \in Stores, NEW i \in Ids, SaveVersion(s, i) \/ SavePrepared(s, i) PROVE Goal
  <2>1. PICK object \in Object : WriteSaved(s, i, object)
    BY <1>4 DEF SaveVersion, SavePrepared, StoreTypeOK
  <2>2. onFile'.readable /\ UNCHANGED <<folders, store, damaged>> BY <2>1, WrittenFile
  <2>3. i \in folders /\ (onFile'.records[id] # NoRecord => id \in folders)
    BY <1>0, <1>4, <2>2, WrittenHasFolder
  <2>4. i # id => \A t \in Stores : loaded'[t][id] = loaded[t][id] BY <2>1, WrittenFile
  <2> QED BY <1>0, <2>2, <2>3, <2>4 DEF FoldersAreThere
<1>5. ASSUME NEW i \in Ids, RemoveRecord(i) PROVE Goal
  <2>1. UNCHANGED <<folders, store, damaged>> /\ store \in Stores BY <1>5 DEF RemoveRecord
  <2>2. Base(store)[id] # NoRecord => id \in folders BY <1>0, <2>1 DEF Base, FoldersAreThere
  <2>3. onFile'.readable /\ (onFile'.records[id] # NoRecord => Base(store)[id] # NoRecord)
    BY <1>5, RemovedRecord
  <2>4. loaded'[store][id] # NoObject => loaded[store][id] # NoObject BY <1>5, <2>1, RemovedRecord
  <2> QED BY <1>0, <2>1, <2>2, <2>3, <2>4 DEF FoldersAreThere
<1>6. ASSUME NEW i \in Ids, NEW record, PrepareVersion(i, record) PROVE Goal
  <2>1. UNCHANGED <<onFile, store, cached, loaded, damaged>> /\ folders' = folders \union {i}
    BY <1>6 DEF PrepareVersion
  <2> QED BY <1>0, <2>1 DEF FoldersAreThere
<1>7. CASE RemoveDirectory
  <2>1. UNCHANGED <<onFile, store, cached, loaded, damaged>> BY <1>7 DEF RemoveDirectory
  <2>2. id # removing /\ id \in folders => id \in folders' BY <1>7 DEF RemoveDirectory
  <2>3. id = removing => /\ onFile.readable /\ onFile.records[id] = NoRecord
                         /\ loaded[store][id] = NoObject
    BY <1>7 DEF RemoveDirectory, RemovalIsHalfDone
  <2> QED BY <1>0, <2>1, <2>2, <2>3 DEF FoldersAreThere
<1>8. CASE DamageFile
  <2>1. UNCHANGED <<folders, store, cached, loaded>> /\ onFile.readable /\ ~onFile'.readable
    BY <1>8 DEF DamageFile, StoreTypeOK
  <2>2. ~damaged /\ ~(store > 1) BY <1>0, <1>8 DEF DamageFile
  <2>3. ASSUME NEW s \in Stores, loaded[s][id] # NoObject \/ cached[s][id] # NoRecord PROVE id \in folders
    <3>1. ~(s > store) BY <2>3 DEF OpenStoresOnly
    <3>2. s = 1 /\ store = 1 BY <2>2, <3>1
    <3>3. onFile.records[id] # NoRecord BY <2>1, <2>3, <3>2 DEF FirstStoreKnowsAll
    <3> QED BY <2>1, <2>2, <3>3 DEF FoldersAreThere
  <2> QED BY <1>0, <2>1, <2>2, <2>3 DEF FoldersAreThere
<1>9. \A v \in Values : [f \in Fields |-> v] \in Record BY DEF Record, Leaves
<1> QED BY <1>1, <1>2, <1>3, <1>4, <1>5, <1>6, <1>7, <1>8, <1>9 DEF StoreNext

LEMMA PreparedStaysNew ==
    ASSUME StoreInv, [StoreNext]_storeVars PROVE PreparedIsNew'
<1> USE DEF StoreInv
<1> USE StoreNumbers
<1>0. SUFFICES ASSUME ~damaged', NEW id \in Ids, NEW s \in Stores, prepared'[s][id] # NoObject
      PROVE  /\ id \in folders'
             /\ onFile'.readable => onFile'.records[id] = NoRecord
             /\ ~onFile'.readable => \A t \in Stores : cached'[t][id] = NoRecord /\ loaded'[t][id] = NoObject
             /\ loaded'[store'][id] = NoObject
             /\ \A t \in Stores : t # s => prepared'[t][id] = NoObject
  BY DEF PreparedIsNew
<1> DEFINE Goal == /\ id \in folders'
                   /\ onFile'.readable => onFile'.records[id] = NoRecord
                   /\ ~onFile'.readable => \A t \in Stores : cached'[t][id] = NoRecord /\ loaded'[t][id] = NoObject
                   /\ loaded'[store'][id] = NoObject
                   /\ \A t \in Stores : t # s => prepared'[t][id] = NoObject
<1>1. CASE UNCHANGED storeVars BY <1>0, <1>1 DEF storeVars, PreparedIsNew
<1>2. CASE OpenStore
  <2>1. /\ LoadFile(cached, loaded) /\ UNCHANGED <<onFile, folders, prepared, damaged>>
        /\ cached \in [Stores -> Records] /\ loaded \in [Stores -> [Ids -> Object \union {NoObject}]]
    BY <1>2 DEF OpenStore, StoreTypeOK
  <2>2. /\ id \in folders
        /\ onFile.readable => onFile.records[id] = NoRecord
        /\ ~onFile.readable => \A t \in Stores : cached[t][id] = NoRecord /\ loaded[t][id] = NoObject
        /\ \A t \in Stores : t # s => prepared[t][id] = NoObject
    BY <1>0, <2>1 DEF PreparedIsNew
  <2>3. cached'[store'][id] = NoRecord BY <2>1, <2>2, LoadTypes DEF NoRecords
  <2>4. loaded'[store'][id] = NoObject BY <2>1, <2>3, LoadTypes, LoadedObject
  <2>5. \A t \in Stores \ {store'} : cached'[t] = cached[t] /\ loaded'[t] = loaded[t] BY <2>1, LoadTypes
  <2>6. ~onFile'.readable => \A t \in Stores : cached'[t][id] = NoRecord /\ loaded'[t][id] = NoObject
    BY <2>1, <2>2, <2>3, <2>4, <2>5
  <2> QED BY <2>1, <2>2, <2>4, <2>6
<1>3. CASE StoreCrash BY <1>0, <1>3, NothingTypes DEF StoreCrash
<1>4. ASSUME NEW u \in Stores, NEW i \in Ids, NEW f \in Fields, NEW v \in Leaves, EditLeaf(u, i, f, v)
      PROVE  Goal
  <2>1. UNCHANGED <<onFile, folders, store, cached, prepared, damaged>> BY <1>4 DEF EditLeaf
  <2>2. \A t \in Stores : loaded'[t][id] # NoObject <=> loaded[t][id] # NoObject BY <1>4, EditedObject
  <2>3. store \in Stores BY <1>0, <2>1 DEF OpenStoresOnly
  <2> QED BY <1>0, <2>1, <2>2, <2>3 DEF PreparedIsNew
<1>5. ASSUME NEW u \in Stores, NEW i \in Ids, SaveVersion(u, i) \/ SavePrepared(u, i) PROVE Goal
  <2>1. PICK object \in Object : WriteSaved(u, i, object)
    BY <1>5 DEF SaveVersion, SavePrepared, StoreTypeOK
  <2>2. onFile'.readable /\ UNCHANGED <<folders, store, damaged>> BY <2>1, WrittenFile
  <2>3. \A t \in Stores : prepared'[t][id] # NoObject =>
            prepared[t][id] # NoObject /\ id # i /\ onFile'.records[id] = NoRecord
    BY <1>0, <1>5, <2>2, WrittenHasFolder
  <2>4. \A t \in Stores : loaded'[t][id] = loaded[t][id] BY <1>0, <2>1, <2>3, WrittenFile
  <2>5. store \in Stores BY <1>0, <2>3 DEF OpenStoresOnly
  <2> QED BY <1>0, <2>2, <2>3, <2>4, <2>5 DEF PreparedIsNew
<1>6. ASSUME NEW i \in Ids, RemoveRecord(i) PROVE Goal
  <2>1. UNCHANGED <<folders, store, prepared, damaged>> /\ store \in Stores BY <1>6 DEF RemoveRecord
  <2>2. Base(store)[id] = NoRecord BY <1>0, <2>1 DEF Base, PreparedIsNew
  <2>3. onFile'.readable /\ onFile'.records[id] = NoRecord BY <1>6, <2>2, RemovedRecord
  <2>4. loaded'[store][id] # NoObject => loaded[store][id] # NoObject BY <1>6, <2>1, RemovedRecord
  <2> QED BY <1>0, <2>1, <2>3, <2>4 DEF PreparedIsNew
<1>7. ASSUME NEW i \in Ids, NEW record \in Record, PrepareVersion(i, record) PROVE Goal
  <2>1. /\ UNCHANGED <<onFile, store, cached, loaded, damaged>> /\ folders' = folders \union {i}
        /\ onFile.records[i] = NoRecord /\ i \notin folders /\ store \in Stores
    BY <1>7 DEF PrepareVersion
  <2>2. CASE id = i
    <3>1. \A t \in Stores : prepared[t][i] = NoObject BY <1>0, <2>1 DEF PreparedIsNew
    <3>2. s = store /\ \A t \in Stores : t # s => prepared'[t][id] = NoObject
      BY <1>0, <1>7, <2>1, <2>2, <3>1, PreparedObject
    <3>3. /\ loaded[store][i] = NoObject
          /\ ~onFile.readable => \A t \in Stores : cached[t][i] = NoRecord /\ loaded[t][i] = NoObject
      BY <1>0, <2>1 DEF FoldersAreThere
    <3> QED BY <2>1, <2>2, <3>2, <3>3
  <2>3. CASE id # i
    <3>1. \A t \in Stores : prepared'[t][id] = prepared[t][id] BY <1>7, <2>3, PreparedObject
    <3> QED BY <1>0, <2>1, <3>1 DEF PreparedIsNew
  <2> QED BY <2>2, <2>3
<1>8. CASE RemoveDirectory
  <2>1. UNCHANGED <<onFile, store, cached, loaded, prepared, damaged>> BY <1>8 DEF RemoveDirectory
  <2>2. id # removing BY <1>0, <1>8, <2>1 DEF RemoveDirectory, RemovalIsHalfDone
  <2>3. id \in folders => id \in folders' BY <1>8, <2>2 DEF RemoveDirectory
  <2> QED BY <1>0, <2>1, <2>3 DEF PreparedIsNew
<1>9. CASE DamageFile
  <2>1. UNCHANGED <<folders, store, cached, loaded, prepared>> /\ onFile.readable /\ ~onFile'.readable
    BY <1>9 DEF DamageFile, StoreTypeOK
  <2>2. ~damaged /\ ~(store > 1) BY <1>0, <1>9 DEF DamageFile
  <2>3. s = 1 /\ store = 1
    <3>1. ~(s > store) BY <1>0, <2>1 DEF OpenStoresOnly
    <3> QED BY <2>2, <3>1
  <2>4. onFile.records[id] = NoRecord /\ loaded[1][id] = NoObject BY <1>0, <2>1, <2>2, <2>3 DEF PreparedIsNew
  <2>5. ASSUME NEW t \in Stores PROVE cached[t][id] = NoRecord /\ loaded[t][id] = NoObject
    <3>1. CASE t = 1 BY <2>1, <2>3, <2>4, <3>1 DEF FirstStoreKnowsAll
    <3>2. CASE t # 1
      <4>1. t > store BY <2>3, <3>2
      <4> QED BY <4>1 DEF OpenStoresOnly
    <3> QED BY <3>1, <3>2
  <2> QED BY <1>0, <2>1, <2>2, <2>5 DEF PreparedIsNew
<1>10. \A v \in Values : [f \in Fields |-> v] \in Record BY DEF Record, Leaves
<1> QED BY <1>1, <1>2, <1>3, <1>4, <1>5, <1>6, <1>7, <1>8, <1>9, <1>10 DEF StoreNext

LEMMA StoreInvInit == StoreInit => StoreInv
<1> SUFFICES ASSUME StoreInit PROVE StoreInv OBVIOUS
<1>1. StoreTypeOK
  <2>1. NoRecords \in Records BY DEF NoRecords, Records
  <2>2. promised \in [Ids -> [Fields -> Leaves \union {NoSaver}]] BY DEF StoreInit, NoPromise
  <2>3. onFile \in [readable : BOOLEAN, records : Records] BY <2>1 DEF StoreInit
  <2> QED BY <2>2, <2>3, NothingTypes DEF StoreInit, StoreTypeOK
<1>2. \A s \in Stores, id \in Ids : cached[s][id] = NoRecord /\ loaded[s][id] = NoObject /\ prepared[s][id] = NoObject
  BY NothingTypes DEF StoreInit
<1>3. EditsAreChanges BY <1>2 DEF EditsAreChanges
<1>4. OpenStoresOnly BY <1>2 DEF OpenStoresOnly
<1>5. PromisesAreKept BY DEF PromisesAreKept, Keeps, StoreInit, NoRecords
<1>6. FirstStoreKnowsAll BY DEF FirstStoreKnowsAll, StoreInit
<1>7. RemovalIsHalfDone BY DEF RemovalIsHalfDone, StoreInit
<1>8. FoldersAreThere BY <1>2 DEF FoldersAreThere, StoreInit, NoRecords
<1>9. PreparedIsNew BY <1>2 DEF PreparedIsNew
<1> QED BY <1>1, <1>3, <1>4, <1>5, <1>6, <1>7, <1>8, <1>9 DEF StoreInv

LEMMA StoreInvKept == StoreInv /\ [StoreNext]_storeVars => StoreInv'
  BY StoreTypesKept, EditsStayChanges, OnlyOpenStores, PromisesStayKept, FirstStoreStillKnows,
     RemovalStaysHalfDone, FoldersStayThere, PreparedStaysNew DEF StoreInv

LEMMA RecordsComeFromNew ==
    ASSUME StoreInv, [StoreNext]_storeVars, NEW id \in Ids,
           onFile.readable, onFile.records[id] = NoRecord, onFile'.records[id] # NoRecord
    PROVE  \E s \in Stores : prepared[s][id] # NoObject /\ prepared'[s][id] = NoObject
<1> USE DEF StoreInv
<1>1. onFile' # onFile OBVIOUS
<1>2. ASSUME NEW s \in Stores, NEW i \in Ids, SaveVersion(s, i) PROVE FALSE
  <2>1. PICK object \in Object : WriteSaved(s, i, object) BY <1>2 DEF SaveVersion, StoreTypeOK
  <2>2. i # id BY <1>2 DEF SaveVersion, StillThere
  <2>3. Base(s)[id] = NoRecord BY DEF Base
  <2> QED BY <2>1, <2>2, <2>3, WrittenFile
<1>3. ASSUME NEW s \in Stores, NEW i \in Ids, SavePrepared(s, i)
      PROVE  prepared[s][id] # NoObject /\ prepared'[s][id] = NoObject
  <2>1. PICK object \in Object : WriteSaved(s, i, object) BY <1>3 DEF SavePrepared, StoreTypeOK
  <2>2. Base(s)[id] = NoRecord BY DEF Base
  <2>3. i = id BY <2>1, <2>2, WrittenFile
  <2> QED BY <1>3, <2>3, SavedPreparedTypes DEF SavePrepared
<1>4. ASSUME NEW i \in Ids, RemoveRecord(i) PROVE FALSE
  <2>1. Base(store)[id] = NoRecord BY DEF Base
  <2> QED BY <1>4, <2>1, RemovedRecord
<1>5. CASE DamageFile
  <2>1. onFile'.records = onFile.records BY <1>5 DEF DamageFile, StoreTypeOK
  <2> QED BY <2>1
<1>6. ASSUME NEW s \in Stores, NEW i \in Ids, NEW f \in Fields, NEW v \in Leaves, EditLeaf(s, i, f, v) PROVE FALSE
  BY <1>1, <1>6 DEF EditLeaf
<1>7. ASSUME NEW i \in Ids, NEW record, PrepareVersion(i, record) PROVE FALSE
  BY <1>1, <1>7 DEF PrepareVersion
<1>8. CASE OpenStore \/ StoreCrash \/ RemoveDirectory \/ UNCHANGED storeVars
  BY <1>1, <1>8 DEF OpenStore, StoreCrash, RemoveDirectory, storeVars
<1> QED BY <1>2, <1>3, <1>4, <1>5, <1>6, <1>7, <1>8 DEF StoreNext

\* The records, caches and objects have their types.
THEOREM StoreTypeCorrect == StoreSpec => []StoreTypeOK
<1>1. StoreInv => StoreTypeOK BY DEF StoreInv
<1> QED BY <1>1, StoreInvInit, StoreInvKept, PTL DEF StoreSpec

\* Whatever objects of whatever stores are saved in whatever order over deaths
\* and a damaged file, versions.json keeps what was saved last of each leaf, a
\* listed version has its directory, and what was removed does not come back
\* (_save_version, _remove).
THEOREM RecordsStayTrue == StoreSpec => RecordsAreTrue
<1>1. StoreInv => NoUpdateLost BY DEF StoreInv, PromisesAreKept, Keeps, NoUpdateLost
<1>2. StoreInv => ListedHasDirectory BY DEF StoreInv, FoldersAreThere, ListedHasDirectory, StoreTypeOK
<1>3. StoreInv /\ [StoreNext]_storeVars =>
        [\A id \in Ids :
          onFile.readable /\ onFile.records[id] = NoRecord /\ onFile'.records[id] # NoRecord
              => \E s \in Stores : prepared[s][id] # NoObject /\ prepared'[s][id] = NoObject]_storeVars
  BY RecordsComeFromNew
<1> QED BY <1>1, <1>2, <1>3, StoreInvInit, StoreInvKept, PTL DEF StoreSpec, RecordsAreTrue, NotResurrected

-----------------------------------------------------------------------------
(* The shared roots: the three places that record who has a root (kernel    *)
(* lock, owner and depth, open blocks) agree, but for the moment in which a *)
(* thread has the kernel lock and is entering.                              *)

\* A thread is the owner exactly when it has open blocks, and the depth counts them.
OwnerInv(w) ==
    /\ active[Home[w]].owner = w <=> blocks[w] > 0
    /\ active[Home[w]].owner = w => active[Home[w]].depth = blocks[w]

\* The kernel lock is the owner's, or the one's that is entering.
KernelInv(w) ==
    /\ kernel = w <=> active[Home[w]].owner = w \/ block[w] = "locked"
    /\ block[w] = "locked" <=> mutex[Home[w]] = w
    /\ block[w] = "locked" => active[Home[w]].owner = None
    /\ block[w] # "lost"

\* Launchers record their own threads only.
HomeInv ==
    /\ \A p \in Processes : active[p].owner # None => Home[active[p].owner] = p
    /\ \A p \in Processes : mutex[p] # None => Home[mutex[p]] = p

SharedInv == SharedTypeOK /\ HomeInv /\ \A w \in Workers : OwnerInv(w) /\ KernelInv(w)

RootRecords == [owner : Workers \cup {None}, depth : Nat]

\* One launcher's record is replaced, the others are kept.
LEMMA RootRecorded ==
    ASSUME active \in [Processes -> RootRecords], NEW p \in Processes,
           NEW o \in Workers \cup {None}, NEW n \in Nat,
           active' = [active EXCEPT ![p] = [owner |-> o, depth |-> n]]
    PROVE  /\ active' \in [Processes -> RootRecords]
           /\ active'[p].owner = o /\ active'[p].depth = n
           /\ \A q \in Processes \ {p} : active'[q] = active[q]
BY DEF RootRecords

\* One thread's count is replaced, the others are kept.
LEMMA BlocksCounted ==
    ASSUME blocks \in [Workers -> Nat], NEW w \in Workers, NEW n \in Nat,
           blocks' = [blocks EXCEPT ![w] = n]
    PROVE  /\ blocks' \in [Workers -> Nat] /\ blocks'[w] = n
           /\ \A v \in Workers \ {w} : blocks'[v] = blocks[v]
OBVIOUS

\* A refused thread changes nothing but its own step.
LEMMA RefuseKeeps ==
    ASSUME SharedInv, NEW w \in Workers, Refuse(w)
    PROVE  SharedInv'
<1> USE SharedAssumption DEF Refuse, SharedInv, Unlocked, Nobody, Other
<1>1. SharedTypeOK'
  BY DEF SharedTypeOK, OwnerInv
<1>2. HomeInv'
  BY DEF SharedTypeOK, HomeInv, OwnerInv
<1>3. ASSUME NEW v \in Workers PROVE OwnerInv(v)'
  BY <1>3 DEF SharedTypeOK, HomeInv, OwnerInv, KernelInv
<1>4. ASSUME NEW v \in Workers PROVE KernelInv(v)'
  BY <1>4 DEF SharedTypeOK, HomeInv, OwnerInv, KernelInv
<1> QED BY <1>1, <1>2, <1>3, <1>4

\* The error is caught.
LEMMA DismissKeeps ==
    ASSUME SharedInv, NEW w \in Workers, Dismiss(w)
    PROVE  SharedInv'
<1> USE SharedAssumption DEF Dismiss, SharedInv, Unlocked, Nobody
<1>1. SharedTypeOK'
  BY DEF SharedTypeOK, OwnerInv
<1>2. HomeInv'
  BY DEF SharedTypeOK, HomeInv, OwnerInv
<1>3. ASSUME NEW v \in Workers PROVE OwnerInv(v)'
  BY <1>3 DEF SharedTypeOK, HomeInv, OwnerInv, KernelInv
<1>4. ASSUME NEW v \in Workers PROVE KernelInv(v)'
  BY <1>4 DEF SharedTypeOK, HomeInv, OwnerInv, KernelInv
<1> QED BY <1>1, <1>2, <1>3, <1>4

\* The kernel lock is free when it is taken.
LEMMA LockFileKeeps ==
    ASSUME SharedInv, NEW w \in Workers, LockFile(w)
    PROVE  SharedInv'
<1> USE SharedAssumption DEF LockFile, SharedInv, Unlocked, Nobody
<1>1. SharedTypeOK'
  BY DEF SharedTypeOK, OwnerInv
<1>2. HomeInv'
  BY DEF SharedTypeOK, HomeInv, OwnerInv
<1>3. ASSUME NEW v \in Workers PROVE OwnerInv(v)'
  BY <1>3 DEF SharedTypeOK, HomeInv, OwnerInv, KernelInv
<1>4. ASSUME NEW v \in Workers PROVE KernelInv(v)'
  BY <1>4 DEF SharedTypeOK, HomeInv, OwnerInv, KernelInv
<1> QED BY <1>1, <1>2, <1>3, <1>4

\* The thread that entered is the owner, one block deep.
LEMMA EnterKeeps ==
    ASSUME SharedInv, NEW w \in Workers, Enter(w)
    PROVE  SharedInv'
<1>z. /\ w # None /\ active[Home[w]].owner = None
  BY SharedAssumption DEF SharedInv, Enter, KernelInv
<1>y. ~(blocks[w] > 0)
  BY <1>z DEF SharedInv, OwnerInv
<1>0. Home[w] \in Processes /\ blocks[w] \in Nat /\ blocks[w] = 0
      /\ active \in [Processes -> RootRecords] /\ blocks \in [Workers -> Nat] /\ w # None
  BY <1>y, <1>z, SharedAssumption DEF SharedInv, SharedTypeOK, RootRecords
<1>a. /\ active' \in [Processes -> RootRecords]
      /\ active'[Home[w]].owner = w /\ active'[Home[w]].depth = 1
      /\ \A q \in Processes \ {Home[w]} : active'[q] = active[q]
  BY <1>0, RootRecorded DEF Enter
<1>b. /\ blocks' \in [Workers -> Nat] /\ blocks'[w] = blocks[w] + 1
      /\ \A v \in Workers \ {w} : blocks'[v] = blocks[v]
  BY <1>0, BlocksCounted DEF Enter
<1>c. /\ block[w] = "locked" /\ block' = [block EXCEPT ![w] = "run"]
      /\ mutex' = [mutex EXCEPT ![Home[w]] = None] /\ UNCHANGED kernel
  BY DEF Enter
<1> USE SharedAssumption, <1>0, <1>a, <1>b, <1>c DEF SharedInv
<1>1. SharedTypeOK'
  BY DEF SharedTypeOK, RootRecords
<1>2. HomeInv'
  <2>1. ASSUME NEW p \in Processes, active'[p].owner # None PROVE Home[active'[p].owner] = p
    BY <2>1 DEF HomeInv
  <2>2. ASSUME NEW p \in Processes, mutex'[p] # None PROVE Home[mutex'[p]] = p
    BY <2>2 DEF SharedTypeOK, HomeInv
  <2> QED BY <2>1, <2>2 DEF HomeInv
<1>3. ASSUME NEW v \in Workers PROVE OwnerInv(v)'
  <2>1. CASE v = w
    BY <2>1 DEF OwnerInv
  <2>2. CASE v # w
    BY <1>3, <2>2 DEF SharedTypeOK, OwnerInv, KernelInv
  <2> QED BY <2>1, <2>2
<1>4. ASSUME NEW v \in Workers PROVE KernelInv(v)'
  BY <1>4 DEF SharedTypeOK, HomeInv, OwnerInv, KernelInv
<1> QED BY <1>1, <1>2, <1>3, <1>4

\* A failed entry frees the kernel lock.
LEMMA FailToEnterKeeps ==
    ASSUME SharedInv, NEW w \in Workers, FailToEnter(w)
    PROVE  SharedInv'
<1> USE SharedAssumption DEF FailToEnter, SharedInv, Unlocked, Nobody
<1>1. SharedTypeOK'
  BY DEF SharedTypeOK, OwnerInv
<1>2. HomeInv'
  BY DEF SharedTypeOK, HomeInv, OwnerInv
<1>3. ASSUME NEW v \in Workers PROVE OwnerInv(v)'
  BY <1>3 DEF SharedTypeOK, HomeInv, OwnerInv, KernelInv
<1>4. ASSUME NEW v \in Workers PROVE KernelInv(v)'
  BY <1>4 DEF SharedTypeOK, HomeInv, OwnerInv, KernelInv
<1> QED BY <1>1, <1>2, <1>3, <1>4

\* A nested block adds one to both counts.
LEMMA ReenterKeeps ==
    ASSUME SharedInv, NEW w \in Workers, Reenter(w)
    PROVE  SharedInv'
<1>0. Home[w] \in Processes /\ blocks[w] \in Nat /\ active[Home[w]].depth \in Nat
      /\ active \in [Processes -> RootRecords] /\ blocks \in [Workers -> Nat] /\ w # None
  BY SharedAssumption DEF SharedInv, SharedTypeOK, RootRecords
<1>z. active[Home[w]].depth + 1 \in Nat
  BY <1>0
<1>a. /\ active' \in [Processes -> RootRecords]
      /\ active'[Home[w]].owner = w /\ active'[Home[w]].depth = active[Home[w]].depth + 1
      /\ \A q \in Processes \ {Home[w]} : active'[q] = active[q]
  BY <1>0, <1>z, RootRecorded DEF Reenter
<1>b. /\ blocks' \in [Workers -> Nat] /\ blocks'[w] = blocks[w] + 1
      /\ \A v \in Workers \ {w} : blocks'[v] = blocks[v]
  BY <1>0, BlocksCounted DEF Reenter
<1>c. /\ active[Home[w]].owner = w /\ UNCHANGED <<kernel, mutex, block>>
  BY DEF Reenter
<1> USE SharedAssumption, <1>0, <1>a, <1>b, <1>c DEF SharedInv
<1>1. SharedTypeOK'
  BY DEF SharedTypeOK, RootRecords
<1>2. HomeInv'
  <2>1. ASSUME NEW p \in Processes, active'[p].owner # None PROVE Home[active'[p].owner] = p
    BY <2>1 DEF HomeInv
  <2>2. ASSUME NEW p \in Processes, mutex'[p] # None PROVE Home[mutex'[p]] = p
    BY <2>2 DEF SharedTypeOK, HomeInv
  <2> QED BY <2>1, <2>2 DEF HomeInv
<1>3. ASSUME NEW v \in Workers PROVE OwnerInv(v)'
  <2>1. CASE v = w
    BY <2>1 DEF OwnerInv
  <2>2. CASE v # w
    BY <1>3, <2>2 DEF SharedTypeOK, OwnerInv, KernelInv
  <2> QED BY <2>1, <2>2
<1>4. ASSUME NEW v \in Workers PROVE KernelInv(v)'
  BY <1>4 DEF SharedTypeOK, HomeInv, OwnerInv, KernelInv
<1> QED BY <1>1, <1>2, <1>3, <1>4

\* An end takes one from both counts, and the last one frees the root.
LEMMA LeaveKeeps ==
    ASSUME SharedInv, NEW w \in Workers, Leave(w)
    PROVE  SharedInv'
<1>0. /\ Home[w] \in Processes /\ w # None /\ blocks[w] \in Nat
      /\ active \in [Processes -> RootRecords] /\ blocks \in [Workers -> Nat]
  BY SharedAssumption DEF SharedInv, SharedTypeOK, RootRecords
<1>o. active[Home[w]].owner = w /\ active[Home[w]].depth = blocks[w] /\ blocks[w] > 0
  BY DEF Leave, SharedInv, OwnerInv
<1>m. blocks[w] - 1 \in Nat
  BY <1>0, <1>o
<1>b. /\ blocks' \in [Workers -> Nat] /\ blocks'[w] = blocks[w] - 1
      /\ \A v \in Workers \ {w} : blocks'[v] = blocks[v]
  BY <1>0, <1>m, BlocksCounted DEF Leave
<1>1. CASE blocks[w] > 1
  <2>0. active[Home[w]].depth > 1 /\ ~(active[Home[w]].depth <= 1)
    BY <1>0, <1>o, <1>1
  <2>1. UNCHANGED <<kernel, block, mutex>>
    BY <1>o, <2>0 DEF Leave
  <2>2. active' = [active EXCEPT ![Home[w]] = [owner |-> w, depth |-> blocks[w] - 1]]
    BY <1>o, <2>0 DEF Leave
  <2>3. /\ active' \in [Processes -> RootRecords]
        /\ active'[Home[w]].owner = w /\ active'[Home[w]].depth = blocks[w] - 1
        /\ \A q \in Processes \ {Home[w]} : active'[q] = active[q]
    BY <1>0, <1>m, <2>2, RootRecorded
  <2>4. SharedTypeOK'
    BY <1>b, <2>1, <2>3 DEF SharedInv, SharedTypeOK, RootRecords
  <2>5. HomeInv'
    BY <1>o, <2>1, <2>3 DEF SharedInv, HomeInv
  <2>6. ASSUME NEW v \in Workers PROVE OwnerInv(v)'
    <3>1. CASE v = w
      BY <1>0, <1>1, <1>b, <2>3, <3>1 DEF OwnerInv
    <3>2. CASE v # w
      BY <1>b, <1>o, <2>3, <3>2, SharedAssumption DEF SharedInv, OwnerInv
    <3> QED BY <3>1, <3>2
  <2>7. ASSUME NEW v \in Workers PROVE KernelInv(v)'
    BY <1>o, <2>1, <2>3, SharedAssumption DEF SharedInv, KernelInv
  <2> QED BY <2>4, <2>5, <2>6, <2>7 DEF SharedInv
<1>2. CASE ~(blocks[w] > 1)
  <2>1. UNCHANGED <<block, mutex>> /\ kernel' = IF kernel = w THEN None ELSE kernel
    BY <1>o, <1>2 DEF Leave
  <2>2. active' = [active EXCEPT ![Home[w]] = [owner |-> None, depth |-> 0]]
    BY <1>o, <1>2 DEF Leave, Nobody
  <2>3. /\ active' \in [Processes -> RootRecords]
        /\ active'[Home[w]].owner = None /\ active'[Home[w]].depth = 0
        /\ \A q \in Processes \ {Home[w]} : active'[q] = active[q]
    BY <1>0, <2>2, RootRecorded
  <2>0. kernel = w /\ kernel' = None /\ blocks'[w] = 0
    BY <1>0, <1>2, <1>o, <1>b, <2>1 DEF SharedInv, KernelInv
  <2>4. SharedTypeOK'
    BY <1>b, <2>0, <2>1, <2>3 DEF SharedInv, SharedTypeOK, RootRecords
  <2>5. HomeInv'
    BY <2>1, <2>3 DEF SharedInv, HomeInv
  <2>6. ASSUME NEW v \in Workers PROVE OwnerInv(v)'
    <3>1. CASE v = w
      BY <1>0, <2>0, <2>3, <3>1 DEF OwnerInv
    <3>2. CASE v # w
      BY <1>b, <1>o, <2>3, <3>2, SharedAssumption DEF SharedInv, OwnerInv
    <3> QED BY <3>1, <3>2
  <2>7. ASSUME NEW v \in Workers PROVE KernelInv(v)'
    BY <1>0, <1>o, <2>0, <2>1, <2>3, SharedAssumption DEF SharedInv, SharedTypeOK, KernelInv
  <2> QED BY <2>4, <2>5, <2>6, <2>7 DEF SharedInv
<1> QED BY <1>1, <1>2

\* A launcher that dies leaves nothing behind.
LEMMA DieKeeps ==
    ASSUME SharedInv, NEW p \in Processes, Die(p)
    PROVE  SharedInv'
<1> USE SharedAssumption DEF Die, SharedInv, Nobody
<1>1. SharedTypeOK'
  BY DEF SharedTypeOK
<1>2. HomeInv'
  BY DEF SharedTypeOK, HomeInv
<1>3. ASSUME NEW v \in Workers PROVE OwnerInv(v)'
  BY <1>3 DEF SharedTypeOK, HomeInv, OwnerInv, KernelInv
<1>4. ASSUME NEW v \in Workers PROVE KernelInv(v)'
  BY <1>4 DEF SharedTypeOK, HomeInv, OwnerInv, KernelInv
<1> QED BY <1>1, <1>2, <1>3, <1>4

\* At first nobody has the root.
LEMMA SharedInvInit == SharedInit => SharedInv
BY SharedAssumption DEF SharedInit, SharedInv, SharedTypeOK, HomeInv, OwnerInv, KernelInv, Nobody

\* Every step keeps the invariant.
LEMMA SharedInvKept == SharedInv /\ [SharedNext]_sharedVars => SharedInv'
<1> SUFFICES ASSUME SharedInv, [SharedNext]_sharedVars PROVE SharedInv'
  OBVIOUS
<1>1. CASE UNCHANGED sharedVars
  BY <1>1 DEF SharedInv, SharedTypeOK, HomeInv, OwnerInv, KernelInv, sharedVars
<1> QED BY <1>1, RefuseKeeps, DismissKeeps, LockFileKeeps, EnterKeeps, FailToEnterKeeps,
           ReenterKeeps, LeaveKeeps, DieKeeps DEF SharedNext

\* The strengthened invariant holds in every state of every behaviour.
THEOREM SharedInvariant == SharedSpec => []SharedInv
BY SharedInvInit, SharedInvKept, PTL DEF SharedSpec

\* The recorded owner, depth and lock have their types in every reachable state.
THEOREM SharedTypeCorrect == SharedSpec => []SharedTypeOK
BY SharedInvariant, PTL DEF SharedInv

\* An open block, however deep, has the kernel lock of the root (operation's nesting).
THEOREM BlocksProtected == SharedSpec => []BlocksAreProtected
<1>1. SharedInv => BlocksAreProtected
  BY SharedAssumption DEF SharedInv, BlocksAreProtected, SharedTypeOK, OwnerInv, KernelInv
<1> QED BY <1>1, SharedInvariant, PTL

\* The depth that decides when the root is freed is the number of open blocks.
THEOREM DepthExact == SharedSpec => []DepthIsExact
<1>1. SharedInv => DepthIsExact
  BY SharedAssumption DEF SharedInv, DepthIsExact, SharedTypeOK, OwnerInv, KernelInv
<1> QED BY <1>1, SharedInvariant, PTL
\* The root is locked under every block, and freed by the last of them (operation).
THEOREM RootExclusive == SharedSpec => []RootIsExclusive
BY BlocksProtected, DepthExact, PTL DEF RootIsExclusive

-----------------------------------------------------------------------------
\* The steps of NeoForge's installation that mark the directory.
MarkSteps == {"profile", "mark", "unmark", "succeed", "clear"}

WorkSteps ==
    {"idle", "base", "files", "loader", "java", "done", "verify", "ready", "start"} \cup LoaderSteps

Works == [step : WorkSteps, target : Components \cup {NoComponent}, force : BOOLEAN,
          for : {"component", "profile", "build", "launch"}, attempt : Nat,
          fetching : SUBSET Libraries, deleted : BOOLEAN]

FilesOfLoader == [manifest : {"none", "bad", "good"}, patched : BOOLEAN,
                  incomplete : BOOLEAN, successful : BOOLEAN]

\* Each step is one of the component it belongs to.
Fits(step, target) ==
    /\ step # "idle" => target \in Components
    /\ step \in LoaderSteps \cup {"loader", "java"} => target \in Loaders
    /\ step \in MarkSteps => target \in NeoForges
    /\ step = "installing" => target \in Fabrics
StepsFit == work \in Works /\ Fits(work.step, work.target)

\* A marker of success, or a profile without the marker of an interrupted
\* installation that is not new in its place, vouches for a whole NeoForge.
Vouched(l) ==
    comp[l].successful \/ (comp[l].manifest = "good" /\ ~comp[l].incomplete /\ l \notin bare)
        => WhollyThere(l)
VouchersHold == \A l \in NeoForges : Vouched(l)

\* What an installation of NeoForge has done before its last steps.
WorkTells ==
    /\ work.step = "installer" /\ work.target \in NeoForges => LibrariesWhole(work.target)
    /\ work.step \in {"succeed", "clear"} =>
          WhollyThere(work.target) /\ (~work.deleted => comp[work.target].manifest = "good")

\* What an installation ends with, and what a launch is about to start, is there.
LoaderThere(l) == InPlace(l) /\ (l \in NeoForges \ bare => WhollyThere(l))
ReadyIsThere ==
    work.step \in {"done", "start"} /\ ~work.deleted /\ work.target \in Loaders =>
        LoaderThere(work.target)

ReadyInv == ComponentTypeOK /\ StepsFit /\ VouchersHold /\ WorkTells /\ ReadyIsThere

LEMMA StepKinds ==
    /\ LoaderSteps \subseteq WorkSteps
    /\ {"idle", "base", "files", "loader", "java", "done", "verify", "ready", "start"}
         \subseteq WorkSteps \ LoaderSteps
    /\ MarkSteps \subseteq LoaderSteps
    /\ {"fetch", "installer", "libraries", "installing"} \subseteq LoaderSteps \ MarkSteps
  BY DEF WorkSteps, LoaderSteps, MarkSteps

\* To go on to another step changes nothing else of the work.
LEMMA GoesOn ==
    ASSUME StepsFit, NEW step \in WorkSteps, Go(step), Fits(step, work.target)
    PROVE  /\ StepsFit' /\ work'.step = step /\ work'.target = work.target
           /\ work'.deleted = work.deleted
<1>1. work' \in Works /\ work'.step = step /\ work'.target = work.target
      /\ work'.deleted = work.deleted
  BY DEF StepsFit, Works, Go
<1> QED BY <1>1 DEF StepsFit, Fits

LEMMA NothingAtWork ==
    /\ NoWork \in Works /\ NoWork.step = "idle" /\ ~NoWork.deleted
  BY DEF Works, NoWork, WorkSteps, Components

\* A loader whose libraries are found is in its place.
LEMMA LibrariesFound ==
    ASSUME NEW l \in Loaders, TRUE \in LibrariesExist(l)
    PROVE  InPlace(l)
  BY DEF LibrariesExist, ManifestLoads, InPlace

\* A loader that is found, and whose markers do not tell of an interrupted
\* installation, is there.
LEMMA FoundIsThere ==
    ASSUME ReadyInv, NEW l \in Loaders, TRUE \in LibrariesExist(l),
           ~(comp[l].incomplete /\ ~comp[l].successful)
    PROVE  LoaderThere(l)
<1>1. InPlace(l)
  BY LibrariesFound
<1>2. ASSUME l \in NeoForges \ bare PROVE WhollyThere(l)
  <2>1. Vouched(l) /\ comp[l].manifest = "good"
    BY <1>1, <1>2 DEF ReadyInv, VouchersHold, InPlace
  <2>2. comp[l].incomplete \in BOOLEAN /\ comp[l].successful \in BOOLEAN
    BY DEF ReadyInv, ComponentTypeOK
  <2> QED BY <1>2, <2>1, <2>2 DEF Vouched
<1> QED BY <1>1, <1>2 DEF LoaderThere

LEMMA ReadyStep == ASSUME ReadyInv, [ComponentNext]_componentVars PROVE ReadyInv'
<1>a. /\ ComponentTypeOK /\ StepsFit /\ VouchersHold /\ WorkTells /\ ReadyIsThere
      /\ work \in Works /\ Fits(work.step, work.target)
      /\ comp \in [Loaders -> FilesOfLoader]
      /\ libs \in [Libraries -> {"absent", "torn", "whole"}]
  BY DEF ReadyInv, StepsFit, ComponentTypeOK, FilesOfLoader
<1>n. /\ NeoForges \subseteq Loaders /\ Fabrics \subseteq Loaders /\ Loaders \subseteq Components
      /\ NeoForges \cap Fabrics = {}
  BY ComponentAssumption DEF Loaders, Components
\* A step that leaves the loaders alone, for a work that proves nothing of them.
<1>b. ASSUME UNCHANGED <<comp, libs, bare>>, ComponentTypeOK', StepsFit',
             work'.step \notin {"installer", "succeed", "clear"},
             work'.step \in {"done", "start"} /\ ~work'.deleted /\ work'.target \in Loaders =>
                 LoaderThere(work'.target)
      PROVE  ReadyInv'
  <2>1. VouchersHold'
    BY <1>a, <1>b DEF VouchersHold, Vouched, WhollyThere, LibrariesWhole
  <2>2. ReadyIsThere'
    BY <1>b DEF ReadyIsThere, LoaderThere, InPlace, HasLibraries, WhollyThere, LibrariesWhole
  <2>3. WorkTells'
    BY <1>b DEF WorkTells
  <2> QED BY <1>b, <2>1, <2>2, <2>3 DEF ReadyInv
<1>c. ASSUME UNCHANGED <<comp, libs, bare, uses, playing>>, base' \in {"absent", "part", "whole"}
      PROVE  ComponentTypeOK'
  BY <1>a, <1>c DEF ComponentTypeOK
\* The work goes on to a step of the same component that proves nothing of it.
<1>d. ASSUME UNCHANGED <<comp, libs, bare, uses, playing>>,
             base' \in {"absent", "part", "whole"},
             NEW step \in WorkSteps \ {"installer", "succeed", "clear"},
             Go(step), Fits(step, work.target),
             step \in {"done", "start"} /\ ~work.deleted /\ work.target \in Loaders =>
                 LoaderThere(work.target)
      PROVE  ReadyInv'
  BY <1>a, <1>b, <1>c, <1>d, GoesOn
<1>e. ASSUME UNCHANGED <<comp, libs, bare>>, ComponentTypeOK', work' = NoWork PROVE ReadyInv'
  <2>1. StepsFit'
    BY <1>e, NothingAtWork, StepKinds DEF StepsFit, Fits
  <2> QED BY <1>b, <1>e, <2>1, NothingAtWork
<1>1. ASSUME NEW l \in Components, NEW for \in {"component", "profile", "build"},
             BeginInstall(l, for)
      PROVE  ReadyInv'
  <2>1. work' = [step |-> "base", target |-> l, force |-> for # "build", for |-> for,
                 attempt |-> 1, fetching |-> {}, deleted |-> FALSE]
    BY <1>1 DEF BeginInstall, NoWork
  <2>2. work' \in Works /\ work'.step = "base" /\ work'.target = l
    BY <2>1 DEF Works, WorkSteps
  <2>3. StepsFit'
    BY <2>2, StepKinds DEF StepsFit, Fits
  <2>4. UNCHANGED <<comp, libs, bare, uses, playing>> /\ base' \in {"absent", "part", "whole"}
    BY <1>1, <1>a DEF BeginInstall, ComponentTypeOK, Disk
  <2> QED BY <1>b, <1>c, <2>2, <2>3, <2>4
<1>2. CASE BeginLaunch
  <2>1. work' = [step |-> "verify", target |-> uses, force |-> FALSE, for |-> "launch",
                 attempt |-> 1, fetching |-> {}, deleted |-> FALSE]
    BY <1>2 DEF BeginLaunch, NoWork
  <2>u. uses \in Components
    BY <1>2, <1>a DEF BeginLaunch, ComponentTypeOK
  <2>2. work' \in Works /\ work'.step = "verify" /\ work'.target = uses
    BY <2>1, <2>u DEF Works, WorkSteps
  <2>3. StepsFit'
    BY <2>2, <2>u, StepKinds DEF StepsFit, Fits
  <2>4. UNCHANGED <<comp, libs, bare, uses, playing>> /\ base' \in {"absent", "part", "whole"}
    BY <1>2, <1>a DEF BeginLaunch, ComponentTypeOK, Disk
  <2> QED BY <1>b, <1>c, <2>2, <2>3, <2>4
\* What follows Minecraft's files.
<1>g. ASSUME work.step \in {"base", "files"}, Go(AfterBase), UNCHANGED <<comp, libs, bare>>, Same,
             base' \in {"absent", "part", "whole"}
      PROVE  ReadyInv'
  <2>1. /\ AfterBase \in {"ready", "done", "loader"}
        /\ AfterBase = "done" => work.target = "minecraft"
        /\ AfterBase = "loader" => work.target \in Loaders
        /\ work.target \in Components
    BY <1>a, <1>g DEF AfterBase, Fits, Components
  <2>2. "minecraft" \notin Loaders
    BY ComponentAssumption
  <2>3. Fits(AfterBase, work.target)
    BY <2>1, StepKinds DEF Fits
  <2> HIDE DEF AfterBase
  <2> QED BY <1>d, <1>g, <2>1, <2>2, <2>3, StepKinds DEF Same
<1>3. CASE BaseNeeded
  <2>1. CASE Go(AfterBase) /\ UNCHANGED base
    BY <1>3, <1>a, <1>g, <2>1 DEF BaseNeeded, At, ComponentTypeOK
  <2>2. CASE Go("files") /\ base' \in {"part", base}
    <3>1. Fits("files", work.target)
      BY <1>3, <1>a, StepKinds DEF BaseNeeded, At, Fits
    <3> QED BY <1>3, <1>a, <1>d, <2>2, <3>1, StepKinds DEF BaseNeeded, Same, ComponentTypeOK
  <2> QED BY <1>3, <2>1, <2>2 DEF BaseNeeded
<1>4. CASE BaseInstalled
  BY <1>4, <1>g DEF BaseInstalled, At
\* A step that leaves the disk alone.
<1>h. ASSUME UNCHANGED Disk, Same
      PROVE  UNCHANGED <<comp, libs, bare, uses, playing>> /\ base' \in {"absent", "part", "whole"}
  BY <1>a, <1>h DEF Disk, Same, ComponentTypeOK
<1>5. CASE LoaderNeeded
  <2>t. work.target \in Loaders /\ work.step = "loader" /\ UNCHANGED Disk /\ Same
    BY <1>5, <1>a DEF LoaderNeeded, At, Fits
  <2>f. Fits("java", work.target) /\ Fits("done", work.target)
    BY <1>n, <2>t, StepKinds DEF Fits
  <2>1. CASE Go("java")
    BY <1>d, <1>h, <2>1, <2>t, <2>f, StepKinds
  <2>2. CASE TRUE \in Reusable(work.target) /\ Go("done")
    <3>1. TRUE \in LibrariesExist(work.target) /\ ~comp[work.target].incomplete
      BY <2>2 DEF Reusable
    <3>2. LoaderThere(work.target)
      BY <2>t, <3>1, FoundIsThere
    <3> QED
      BY <1>d, <1>h, <2>2, <2>t, <2>f, <3>2, StepKinds
  <2>3. \A reuse \in Reusable(work.target) : reuse \in BOOLEAN
    BY DEF Reusable, LibrariesExist
  <2> QED BY <1>5, <2>1, <2>2, <2>3 DEF LoaderNeeded
<1>6. CASE RequireJava
  <2>1. Fits("fetch", work.target) /\ UNCHANGED Disk /\ Same
    BY <1>6, <1>a, <1>n, StepKinds DEF RequireJava, At, Fits
  <2> QED BY <1>6, <1>d, <1>h, <2>1, StepKinds DEF RequireJava
<1>7. CASE FetchInstaller
  <2>0. work.step = "fetch" /\ work.target \in Loaders /\ UNCHANGED Disk /\ Same
    BY <1>7, <1>a, StepKinds DEF FetchInstaller, At, Fits
  <2>1. CASE Go("profile") /\ work.target \in NeoForges
    <3>1. Fits("profile", work.target)
      BY <1>n, <2>1, <2>0, StepKinds DEF Fits
    <3> QED BY <1>d, <1>h, <2>0, <2>1, <3>1 DEF WorkSteps, LoaderSteps
  <2>2. CASE Go("installer") /\ work.target \notin NeoForges
    <3>1. Fits("installer", work.target)
      BY <1>n, <2>0, StepKinds DEF Fits
    <3>2. /\ StepsFit' /\ work'.step = "installer" /\ work'.target = work.target
      BY <1>a, <2>2, <3>1, GoesOn, StepKinds
    <3>3. WorkTells' /\ ReadyIsThere'
      BY <2>2, <3>2 DEF WorkTells, ReadyIsThere
    <3>4. VouchersHold' /\ ComponentTypeOK'
      BY <1>a, <1>c, <1>h, <2>0 DEF VouchersHold, Vouched, WhollyThere, LibrariesWhole
    <3> QED BY <3>2, <3>3, <3>4 DEF ReadyInv
  <2> QED BY <1>7, <2>1, <2>2 DEF FetchInstaller
\* A step of an installer writes one file, leaves the rest of the disk alone and
\* goes on.
<1>i. ASSUME work.step \in LoaderSteps,
             NEW field \in {"manifest", "patched", "incomplete", "successful"},
             NEW value \in (IF field = "manifest" THEN {"none", "bad", "good"} ELSE BOOLEAN),
             Set(field, value), NEW step \in WorkSteps, Go(step), Fits(step, work.target),
             bare' \subseteq NeoForges, Same
      PROVE  /\ work.target \in Loaders /\ UNCHANGED libs
             /\ ComponentTypeOK' /\ StepsFit'
             /\ work'.step = step /\ work'.target = work.target /\ work'.deleted = work.deleted
             /\ comp[work.target] \in FilesOfLoader
             /\ comp'[work.target] = [comp[work.target] EXCEPT ![field] = value]
             /\ \A m \in Loaders \ {work.target} : comp'[m] = comp[m]
  <2>0. work.target \in Loaders
    BY <1>a, <1>i DEF Fits
  <2> DEFINE l == work.target
  <2>1. comp[l] \in FilesOfLoader
    BY <1>a, <2>0
  <2>2. comp' = [comp EXCEPT ![l] = [comp[l] EXCEPT ![field] = value]] /\ UNCHANGED <<base, libs>>
    BY <1>i DEF Set
  <2>3. [comp[l] EXCEPT ![field] = value] \in FilesOfLoader
    BY <1>i, <2>1 DEF FilesOfLoader
  <2>4. /\ comp' \in [Loaders -> FilesOfLoader]
        /\ comp'[l] = [comp[l] EXCEPT ![field] = value]
        /\ \A m \in Loaders \ {l} : comp'[m] = comp[m]
    BY <1>a, <2>0, <2>2, <2>3
  <2>5. ComponentTypeOK'
    BY <1>a, <1>i, <2>2, <2>4 DEF ComponentTypeOK, Same, FilesOfLoader
  <2> QED BY <1>a, <1>i, <2>0, <2>1, <2>2, <2>4, <2>5, GoesOn
\* What vouches for the other loaders still does.
<1>j. ASSUME UNCHANGED libs, work'.target = work.target,
             \A m \in Loaders \ {work.target} : comp'[m] = comp[m],
             \A m \in NeoForges \ {work.target} : m \in bare => m \in bare',
             work.target \in NeoForges => Vouched(work.target)'
      PROVE  VouchersHold'
  <2>1. ASSUME NEW m \in NeoForges \ {work.target} PROVE Vouched(m)'
    <3>1. Vouched(m) /\ comp'[m] = comp[m] /\ (m \in bare => m \in bare')
      BY <1>a, <1>j, <1>n, <2>1 DEF VouchersHold
    <3> QED BY <1>j, <3>1 DEF Vouched, WhollyThere, LibrariesWhole
  <2> QED BY <1>j, <2>1 DEF VouchersHold
<1>m. ASSUME work.step \in MarkSteps
      PROVE  work.target \in NeoForges /\ work.step \in LoaderSteps
  BY <1>a, <1>m, StepKinds DEF Fits
<1>k. ASSUME NEW step \in LoaderSteps, work.target \in NeoForges, step # "installing"
      PROVE  Fits(step, work.target) /\ step \in WorkSteps
  BY <1>k, <1>n, StepKinds DEF Fits
<1>bare. bare \subseteq NeoForges
  BY <1>a DEF ComponentTypeOK
<1>v. work.target \in NeoForges => Vouched(work.target)
  BY <1>a DEF VouchersHold
<1>8. CASE PrepareProfile
  <2>1. work.step = "profile" /\ work.target \in NeoForges /\ work.step \in LoaderSteps
    BY <1>8, <1>m DEF PrepareProfile, At, MarkSteps
  <2>2. /\ ComponentTypeOK' /\ StepsFit' /\ UNCHANGED libs /\ work'.step = "mark"
        /\ work'.target = work.target /\ comp[work.target] \in FilesOfLoader
        /\ comp'[work.target] = [comp[work.target] EXCEPT !.manifest = "good"]
        /\ \A m \in Loaders \ {work.target} : comp'[m] = comp[m]
    BY <1>8, <1>i, <1>k, <1>bare, <2>1, StepKinds DEF PrepareProfile, MarkSteps
  <2>3. Vouched(work.target)'
    BY <1>8, <1>v, <2>1, <2>2
       DEF PrepareProfile, FilesOfLoader, Vouched, WhollyThere, LibrariesWhole, Set, Go
  <2>4. VouchersHold'
    BY <1>8, <1>j, <2>2, <2>3 DEF PrepareProfile
  <2> QED BY <2>2, <2>4 DEF ReadyInv, WorkTells, ReadyIsThere
<1>9. CASE MarkIncomplete
  <2>1. work.step = "mark" /\ work.target \in NeoForges /\ work.step \in LoaderSteps
    BY <1>9, <1>m DEF MarkIncomplete, At, MarkSteps
  <2>2. /\ ComponentTypeOK' /\ StepsFit' /\ UNCHANGED libs /\ work'.step = "unmark"
        /\ work'.target = work.target /\ comp[work.target] \in FilesOfLoader
        /\ comp'[work.target] = [comp[work.target] EXCEPT !.incomplete = TRUE]
        /\ \A m \in Loaders \ {work.target} : comp'[m] = comp[m]
    BY <1>9, <1>i, <1>k, <1>bare, <2>1, StepKinds DEF MarkIncomplete, MarkSteps
  <2>3. Vouched(work.target)'
    BY <1>v, <2>1, <2>2 DEF FilesOfLoader, Vouched, WhollyThere, LibrariesWhole
  <2>4. VouchersHold'
    BY <1>9, <1>j, <2>2, <2>3 DEF MarkIncomplete
  <2> QED BY <2>2, <2>4 DEF ReadyInv, WorkTells, ReadyIsThere
<1>10. CASE DropSuccessful
  <2>1. work.step = "unmark" /\ work.target \in NeoForges /\ work.step \in LoaderSteps
    BY <1>10, <1>m DEF DropSuccessful, At, MarkSteps
  <2>2. /\ ComponentTypeOK' /\ StepsFit' /\ UNCHANGED libs /\ work'.step = "libraries"
        /\ work'.target = work.target /\ comp[work.target] \in FilesOfLoader
        /\ comp'[work.target] = [comp[work.target] EXCEPT !.successful = FALSE]
        /\ \A m \in Loaders \ {work.target} : comp'[m] = comp[m]
    BY <1>10, <1>i, <1>k, <1>bare, <2>1, StepKinds DEF DropSuccessful, MarkSteps
  <2>3. Vouched(work.target)'
    BY <1>10, <1>v, <2>1, <2>2
       DEF DropSuccessful, FilesOfLoader, Vouched, WhollyThere, LibrariesWhole
  <2>4. VouchersHold'
    BY <1>10, <1>j, <2>2, <2>3 DEF DropSuccessful
  <2> QED BY <2>2, <2>4 DEF ReadyInv, WorkTells, ReadyIsThere
<1>11. CASE RunNeoForge
  <2>1. /\ work.step = "installer" /\ work.target \in NeoForges /\ work.step \in LoaderSteps
        /\ comp[work.target].manifest = "good" /\ LibrariesWhole(work.target)
    BY <1>11, <1>a, StepKinds DEF RunNeoForge, At, WorkTells
  <2>2. /\ ComponentTypeOK' /\ StepsFit' /\ UNCHANGED libs /\ work'.step = "succeed"
        /\ work'.target = work.target /\ comp[work.target] \in FilesOfLoader
        /\ comp'[work.target] = [comp[work.target] EXCEPT !.patched = TRUE]
        /\ \A m \in Loaders \ {work.target} : comp'[m] = comp[m]
    BY <1>11, <1>i, <1>k, <1>bare, <2>1, StepKinds DEF RunNeoForge, MarkSteps
  <2>3. WhollyThere(work.target)' /\ comp'[work.target].manifest = "good"
    BY <2>1, <2>2 DEF FilesOfLoader, WhollyThere, LibrariesWhole
  <2>4. VouchersHold'
    BY <1>11, <1>j, <2>2, <2>3 DEF RunNeoForge, Vouched, WhollyThere, LibrariesWhole
  <2>5. WorkTells'
    BY <2>2, <2>3 DEF WorkTells, WhollyThere, LibrariesWhole
  <2> QED BY <2>2, <2>4, <2>5 DEF ReadyInv, ReadyIsThere
<1>12. CASE MarkSuccessful
  <2>1. /\ work.step = "succeed" /\ work.target \in NeoForges /\ work.step \in LoaderSteps
        /\ WhollyThere(work.target)
        /\ ~work.deleted => comp[work.target].manifest = "good"
    BY <1>12, <1>a, <1>m DEF MarkSuccessful, At, MarkSteps, WorkTells
  <2>2. /\ ComponentTypeOK' /\ StepsFit' /\ UNCHANGED libs /\ work'.step = "clear"
        /\ work'.target = work.target /\ work'.deleted = work.deleted
        /\ comp[work.target] \in FilesOfLoader
        /\ comp'[work.target] = [comp[work.target] EXCEPT !.successful = TRUE]
        /\ \A m \in Loaders \ {work.target} : comp'[m] = comp[m]
    BY <1>12, <1>i, <1>k, <1>bare, <2>1, StepKinds DEF MarkSuccessful, MarkSteps
  <2>3. WhollyThere(work.target)' /\ comp'[work.target].manifest = comp[work.target].manifest
    BY <2>1, <2>2 DEF FilesOfLoader, WhollyThere, LibrariesWhole
  <2>4. VouchersHold'
    BY <1>12, <1>j, <2>2, <2>3 DEF MarkSuccessful, Vouched, WhollyThere, LibrariesWhole
  <2>5. WorkTells'
    BY <2>1, <2>2, <2>3 DEF WorkTells, WhollyThere, LibrariesWhole
  <2> QED BY <2>2, <2>4, <2>5 DEF ReadyInv, ReadyIsThere
<1>13. CASE DropIncomplete
  <2>1. /\ work.step = "clear" /\ work.target \in NeoForges /\ work.step \in LoaderSteps
        /\ WhollyThere(work.target)
        /\ ~work.deleted => comp[work.target].manifest = "good"
    BY <1>13, <1>a, <1>m DEF DropIncomplete, At, MarkSteps, WorkTells
  <2>f. Fits("done", work.target)
    BY <1>n, <2>1, StepKinds DEF Fits
  <2>2. /\ ComponentTypeOK' /\ StepsFit' /\ UNCHANGED libs /\ work'.step = "done"
        /\ work'.target = work.target /\ work'.deleted = work.deleted
        /\ comp[work.target] \in FilesOfLoader
        /\ comp'[work.target] = [comp[work.target] EXCEPT !.incomplete = FALSE]
        /\ \A m \in Loaders \ {work.target} : comp'[m] = comp[m]
    BY <1>13, <1>i, <1>bare, <2>1, <2>f, StepKinds DEF DropIncomplete
  <2>3. WhollyThere(work.target)' /\ comp'[work.target].manifest = comp[work.target].manifest
    BY <2>1, <2>2 DEF FilesOfLoader, WhollyThere, LibrariesWhole
  <2>4. VouchersHold'
    BY <1>13, <1>j, <2>2, <2>3 DEF DropIncomplete, Vouched, WhollyThere, LibrariesWhole
  <2>5. ReadyIsThere'
    BY <2>1, <2>2, <2>3
       DEF ReadyIsThere, LoaderThere, InPlace, HasLibraries, WhollyThere, LibrariesWhole
  <2> QED BY <2>2, <2>4, <2>5 DEF ReadyInv, WorkTells
<1>14. CASE RunFabric
  <2>1. work.step = "installer" /\ work.target \in Fabrics /\ work.step \in LoaderSteps
    BY <1>14, StepKinds DEF RunFabric, At
  <2>f. Fits("installing", work.target)
    BY <1>n, <2>1, StepKinds DEF Fits
  <2>2. /\ ComponentTypeOK' /\ StepsFit' /\ UNCHANGED libs /\ work'.step = "installing"
        /\ work'.target = work.target
        /\ \A m \in Loaders \ {work.target} : comp'[m] = comp[m]
    BY <1>14, <1>i, <1>bare, <2>1, <2>f, StepKinds DEF RunFabric
  <2>3. VouchersHold'
    BY <1>14, <1>j, <1>n, <2>1, <2>2 DEF RunFabric
  <2> QED BY <2>2, <2>3 DEF ReadyInv, WorkTells, ReadyIsThere
<1>15. CASE FabricWrites
  <2>1. work.step = "installing" /\ work.target \in Fabrics /\ work.step \in LoaderSteps
    BY <1>15, <1>a, StepKinds DEF FabricWrites, At, Fits
  <2>f. Fits("libraries", work.target)
    BY <1>n, <2>1, StepKinds DEF Fits
  <2>2. /\ ComponentTypeOK' /\ StepsFit' /\ UNCHANGED libs /\ work'.step = "libraries"
        /\ work'.target = work.target
        /\ \A m \in Loaders \ {work.target} : comp'[m] = comp[m]
    BY <1>15, <1>i, <1>bare, <2>1, <2>f, StepKinds DEF FabricWrites
  <2>3. VouchersHold'
    BY <1>15, <1>j, <1>n, <2>1, <2>2 DEF FabricWrites
  <2> QED BY <2>2, <2>3 DEF ReadyInv, WorkTells, ReadyIsThere
\* While a library is written none that is whole stops being so.
<1>l. ASSUME work.step = "libraries", work'.step = "libraries", work'.target = work.target,
             work' \in Works, NEW x \in Libraries, NEW state \in {"torn", "whole"},
             state = "torn" => libs[x] # "whole",
             libs' = [libs EXCEPT ![x] = state], UNCHANGED <<base, comp, bare>>, Same
      PROVE  ReadyInv'
  <2>1. /\ libs' \in [Libraries -> {"absent", "torn", "whole"}]
        /\ \A y \in Libraries : libs[y] = "whole" => libs'[y] = "whole"
    BY <1>a, <1>l
  <2>2. ComponentTypeOK' /\ StepsFit'
    BY <1>a, <1>l, <2>1 DEF ComponentTypeOK, Same, StepsFit, Fits
  <2>3. \A l \in Loaders : WhollyThere(l) => WhollyThere(l)'
    <3>1. \A l \in Loaders : Needs[l] \subseteq Libraries
      BY ComponentAssumption
    <3> QED BY <1>l, <2>1, <3>1 DEF WhollyThere, LibrariesWhole
  <2>4. VouchersHold'
    BY <1>a, <1>l, <1>n, <2>3 DEF VouchersHold, Vouched
  <2> QED BY <1>l, <2>2, <2>4 DEF ReadyInv, WorkTells, ReadyIsThere
<1>16. ASSUME NEW x \in Libraries, BeginLibrary(x) PROVE ReadyInv'
  <2>1. /\ work.step = "libraries" /\ libs[x] # "whole" /\ libs' = [libs EXCEPT ![x] = "torn"]
        /\ work' = [work EXCEPT !.fetching = @ \cup {x}]
        /\ UNCHANGED <<base, comp, bare>> /\ Same
    BY <1>16 DEF BeginLibrary, At
  <2>2. work' \in Works /\ work'.step = work.step /\ work'.target = work.target
    BY <1>a, <2>1 DEF Works
  <2> QED BY <1>l, <2>1, <2>2
<1>17. ASSUME NEW x \in Libraries, EndLibrary(x) PROVE ReadyInv'
  <2>1. /\ work.step = "libraries" /\ libs' = [libs EXCEPT ![x] = "whole"]
        /\ work' = [work EXCEPT !.fetching = @ \ {x}]
        /\ UNCHANGED <<base, comp, bare>> /\ Same
    BY <1>17 DEF EndLibrary, At
  <2>2. work' \in Works /\ work'.step = work.step /\ work'.target = work.target
    BY <1>a, <2>1 DEF Works
  <2> QED BY <1>l, <2>1, <2>2
<1>18. CASE LibrariesDone
  <2>0. /\ work.target \in Loaders /\ comp[work.target].manifest = "good"
        /\ UNCHANGED <<comp, libs, bare, uses, playing>>
        /\ base' \in {"absent", "part", "whole"}
    BY <1>18, <1>a, StepKinds DEF LibrariesDone, At, Fits, Same, ComponentTypeOK
  <2>1. CASE work.target \in NeoForges /\ LibrariesWhole(work.target) /\ Go("installer")
    <3>1. /\ StepsFit' /\ work'.step = "installer" /\ work'.target = work.target
      BY <1>a, <1>k, <2>1, GoesOn, StepKinds
    <3>2. WorkTells' /\ ReadyIsThere'
      BY <2>0, <2>1, <3>1 DEF WorkTells, ReadyIsThere, LibrariesWhole
    <3>3. VouchersHold' /\ ComponentTypeOK'
      BY <1>a, <1>c, <2>0 DEF VouchersHold, Vouched, WhollyThere, LibrariesWhole
    <3> QED BY <3>1, <3>2, <3>3 DEF ReadyInv
  <2>2. CASE work.target \notin NeoForges /\ HasLibraries(work.target) /\ Go("done")
    <3>1. Fits("done", work.target)
      BY <1>n, <2>0, StepKinds DEF Fits
    <3>2. LoaderThere(work.target)
      BY <2>0, <2>2 DEF LoaderThere, InPlace
    <3> QED BY <1>d, <2>0, <2>2, <3>1, <3>2, StepKinds
  <2> QED BY <1>18, <2>1, <2>2 DEF LibrariesDone
<1>19. CASE RetryInstaller
  <2>1. /\ work.step \in LoaderSteps /\ UNCHANGED <<comp, libs, bare, uses, playing>>
        /\ base' \in {"absent", "part", "whole"}
        /\ work' = [work EXCEPT !.attempt = @ + 1, !.step = "fetch", !.fetching = {}]
    BY <1>19, <1>a DEF RetryInstaller, MayRetry, Same, ComponentTypeOK
  <2>2. work' \in Works /\ work'.step = "fetch" /\ work'.target = work.target
    <3>1. work.attempt + 1 \in Nat /\ "fetch" \in WorkSteps
      BY <1>a, StepKinds DEF Works
    <3> QED BY <1>a, <2>1, <3>1 DEF Works
  <2>3. StepsFit'
    BY <1>a, <1>n, <2>1, <2>2, StepKinds DEF StepsFit, Fits
  <2> QED BY <1>b, <1>c, <2>1, <2>2, <2>3
<1>20. CASE InstallFails
  BY <1>20, <1>c, <1>e, <1>h DEF InstallFails
<1>21. CASE InstallEnds
  <2>1. ComponentTypeOK' /\ UNCHANGED <<comp, libs, bare>>
    BY <1>21, <1>a DEF InstallEnds, At, ComponentTypeOK, Fits, Disk
  <2> QED BY <1>21, <1>e, <2>1 DEF InstallEnds
<1>22. CASE VerifyBase
  <2>1. /\ \E step \in {"ready", "base"} : Go(step)
        /\ UNCHANGED Disk /\ Same
        /\ Fits("ready", work.target) /\ Fits("base", work.target)
    BY <1>22, <1>a, StepKinds DEF VerifyBase, At, Fits
  <2> QED BY <1>d, <1>h, <2>1, StepKinds
\* A loader that is ready is there.
<1>r. ASSUME work.target \in Loaders, TRUE \in ReadyForLaunch(work.target)
      PROVE  LoaderThere(work.target)
  <2>1. work.target # "minecraft"
    BY <1>r, ComponentAssumption
  <2> QED BY <1>r, <2>1, FoundIsThere DEF ReadyForLaunch
<1>t. \A l \in Components : ReadyForLaunch(l) \subseteq BOOLEAN
  BY DEF ReadyForLaunch, LibrariesExist
<1>f. ASSUME work.target \in Components
      PROVE  Fits("start", work.target) /\ Fits("base", work.target)
  BY <1>f, StepKinds DEF Fits
<1>23. CASE VerifyLoader
  <2>0. work.target \in Components /\ UNCHANGED Disk /\ Same
    BY <1>23, <1>a DEF VerifyLoader, At, Fits
  <2>1. CASE TRUE \in ReadyForLaunch(work.target) /\ Go("start")
    BY <1>d, <1>f, <1>h, <1>r, <2>0, <2>1, StepKinds
  <2>2. CASE work' = [work EXCEPT !.step = "base", !.force = TRUE]
    <3>1. work' \in Works /\ work'.step = "base" /\ work'.target = work.target
      BY <1>a, <2>2, StepKinds DEF Works
    <3>2. StepsFit'
      BY <1>f, <2>0, <3>1 DEF StepsFit, Fits
    <3> QED BY <1>b, <1>c, <1>h, <2>0, <3>1, <3>2
  <2> QED BY <1>23, <1>t, <2>0, <2>1, <2>2 DEF VerifyLoader, Go
<1>24. CASE VerifyAgain
  <2>0. work.target \in Components /\ UNCHANGED Disk /\ Same
    BY <1>24, <1>a DEF VerifyAgain, At, Fits
  <2>1. CASE TRUE \in ReadyForLaunch(work.target) /\ Go("start")
    BY <1>d, <1>f, <1>h, <1>r, <2>0, <2>1, StepKinds
  <2>2. CASE work' = NoWork
    BY <1>c, <1>e, <1>h, <2>0, <2>2
  <2> QED BY <1>24, <1>t, <2>0, <2>1, <2>2 DEF VerifyAgain
<1>25. CASE StartGame
  <2>1. ComponentTypeOK' /\ UNCHANGED <<comp, libs, bare>>
    BY <1>25, <1>a DEF StartGame, At, ComponentTypeOK, Fits, Disk
  <2> QED BY <1>25, <1>e, <2>1 DEF StartGame
<1>26. CASE GameEnds
  <2>1. ComponentTypeOK' /\ UNCHANGED <<comp, libs, bare, work>>
    BY <1>26, <1>a DEF GameEnds, ComponentTypeOK, Disk
  <2> QED
    BY <1>a, <2>1 DEF ReadyInv, StepsFit, Fits, VouchersHold, Vouched, WorkTells, ReadyIsThere,
       LoaderThere, InPlace, HasLibraries, WhollyThere, LibrariesWhole
<1>27. ASSUME NEW l \in Components, DeleteComponent(l) PROVE ReadyInv'
  <2>1. /\ UNCHANGED <<libs, bare, uses, playing>>
        /\ work' \in Works /\ work'.step = work.step /\ work'.target = work.target
        /\ ~work'.deleted => ~work.deleted /\ work.target # l
    <3>1. CASE work.target = l
      BY <1>27, <1>a, <3>1 DEF DeleteComponent, Works
    <3>2. CASE work.target # l
      BY <1>27, <1>a, <3>2 DEF DeleteComponent
    <3> QED BY <3>1, <3>2
  <2>2. StepsFit'
    BY <1>a, <2>1 DEF StepsFit, Fits
  <2>3. /\ comp' \in [Loaders -> FilesOfLoader] /\ base' \in {"absent", "part", "whole"}
        /\ \A m \in Loaders \ {l} : comp'[m] = comp[m]
        /\ \A m \in Loaders : comp'[m].patched = comp[m].patched
        /\ \A m \in Loaders : comp'[m] # comp[m] =>
              comp'[m].manifest = "none" /\ ~comp'[m].successful
    <3>1. CASE l = "minecraft"
      BY <1>27, <1>a, <3>1 DEF DeleteComponent
    <3>2. CASE l # "minecraft"
      <4> DEFINE left == [NoFiles EXCEPT !.patched = comp[l].patched]
      <4>1. l \in Loaders /\ comp[l] \in FilesOfLoader
        BY <1>a, <3>2 DEF Components
      <4>2. comp' = [comp EXCEPT ![l] = left] /\ UNCHANGED base
        BY <1>27, <3>2 DEF DeleteComponent
      <4>3. /\ left \in FilesOfLoader /\ left.patched = comp[l].patched
            /\ left.manifest = "none" /\ ~left.successful
        BY <4>1 DEF NoFiles, FilesOfLoader
      <4> HIDE DEF left
      <4>4. base' \in {"absent", "part", "whole"}
        BY <1>a, <4>2 DEF ComponentTypeOK
      <4> QED BY <1>a, <4>1, <4>2, <4>3, <4>4
    <3> QED BY <3>1, <3>2
  <2>4. ComponentTypeOK'
    BY <1>a, <2>1, <2>3 DEF ComponentTypeOK, FilesOfLoader
  <2>5. \A m \in Loaders : WhollyThere(m)' <=> WhollyThere(m)
    BY <2>1, <2>3 DEF WhollyThere, LibrariesWhole
  <2>6. VouchersHold'
    BY <1>a, <1>n, <2>1, <2>3, <2>5 DEF VouchersHold, Vouched
  <2>7. WorkTells'
    <3>1. work.step = "installer" /\ work.target \in NeoForges => LibrariesWhole(work.target)'
      BY <1>a, <2>1 DEF WorkTells, LibrariesWhole
    <3>2. ASSUME work.step \in {"succeed", "clear"}
          PROVE  /\ WhollyThere(work.target)'
                 /\ ~work'.deleted => comp'[work.target].manifest = "good"
      <4>1. work.target \in Loaders
        BY <1>m, <1>n, <3>2 DEF MarkSteps
      <4> QED BY <1>a, <2>1, <2>3, <2>5, <3>2, <4>1 DEF WorkTells
    <3> QED BY <2>1, <3>1, <3>2 DEF WorkTells, WhollyThere, LibrariesWhole
  <2>8. ReadyIsThere'
    BY <1>a, <2>1, <2>3
       DEF ReadyIsThere, LoaderThere, InPlace, HasLibraries, WhollyThere, LibrariesWhole
  <2> QED BY <2>2, <2>4, <2>6, <2>7, <2>8 DEF ReadyInv
<1>28. CASE InstallerDies
  <2>1. ComponentTypeOK' /\ UNCHANGED <<comp, libs, bare>>
    BY <1>28, <1>a DEF InstallerDies, ComponentTypeOK, Disk
  <2> QED BY <1>28, <1>e, <2>1 DEF InstallerDies
<1>29. CASE UNCHANGED componentVars
  BY <1>29, <1>a
     DEF componentVars, ReadyInv, ComponentTypeOK, StepsFit, Fits, VouchersHold, Vouched, WorkTells,
         ReadyIsThere, LoaderThere, InPlace, HasLibraries, WhollyThere, LibrariesWhole
<1> QED
  BY <1>1, <1>2, <1>3, <1>4, <1>5, <1>6, <1>7, <1>8, <1>9, <1>10, <1>11, <1>12, <1>13, <1>14,
     <1>15, <1>16, <1>17, <1>18, <1>19, <1>20, <1>21, <1>22, <1>23, <1>24, <1>25, <1>26, <1>27,
     <1>28, <1>29
     DEF ComponentNext

\* Whatever versions share the libraries, and however often installers die -- in the middle
\* of a library too -- and are started again, a profile is moved only to a loader that is in
\* its place and only such a loader is started, a NeoForge only when it is wholly there,
\* but for one deleted under the installation or left between its profile and its marker
\* (mod_loader.py, core/loaders/base.py, Game of core/game.py).
THEOREM ComponentsStayReady == ComponentSpec => ComponentsAreReady
<1>1. ComponentInit => ReadyInv
  <2>1. ASSUME ComponentInit PROVE ComponentTypeOK
    BY <2>1 DEF ComponentInit, ComponentTypeOK, NoFiles, Components
  <2>2. ASSUME ComponentInit PROVE StepsFit
    BY <2>2, NothingAtWork, StepKinds DEF ComponentInit, StepsFit, Fits
  <2>3. ASSUME ComponentInit PROVE VouchersHold
    BY <2>3 DEF ComponentInit, VouchersHold, Vouched, NoFiles, Loaders
  <2>4. ASSUME ComponentInit PROVE WorkTells /\ ReadyIsThere
    BY <2>4, NothingAtWork DEF ComponentInit, WorkTells, ReadyIsThere
  <2> QED BY <2>1, <2>2, <2>3, <2>4 DEF ReadyInv
<1>2. ReadyInv /\ [ComponentNext]_componentVars =>
        [\A l \in Loaders :
           (uses' = l /\ uses # l) \/ (playing' = l /\ playing # l) =>
              \/ work.deleted
              \/ InPlace(l)' /\ (l \in NeoForges \ bare' => WhollyThere(l)')]_componentVars
  <2> SUFFICES ASSUME ReadyInv, ComponentNext, NEW l \in Loaders,
                      (uses' = l /\ uses # l) \/ (playing' = l /\ playing # l)
               PROVE  work.deleted \/ (InPlace(l)' /\ (l \in NeoForges \ bare' => WhollyThere(l)'))
    OBVIOUS
  <2>1. InstallEnds \/ StartGame
    <3>1. ~(GameEnds /\ playing' = l)
      BY ComponentAssumption DEF GameEnds
    <3> QED
      BY <3>1 DEF ComponentNext, BeginInstall, BeginLaunch, BaseNeeded, BaseInstalled, LoaderNeeded,
       RequireJava, FetchInstaller, PrepareProfile, MarkIncomplete, DropSuccessful,
       BeginLibrary, EndLibrary, LibrariesDone, RunNeoForge, MarkSuccessful, DropIncomplete,
       RunFabric, FabricWrites, RetryInstaller, InstallFails, VerifyBase, VerifyLoader,
       VerifyAgain, DeleteComponent, InstallerDies, Same, GameEnds
  <2>2. /\ work.step \in {"done", "start"} /\ work.target = l /\ UNCHANGED <<comp, libs, bare>>
    BY <2>1 DEF InstallEnds, StartGame, At, Disk
  <2>3. work.deleted \/ LoaderThere(l)
    BY <2>2 DEF ReadyInv, ReadyIsThere
  <2> QED BY <2>2, <2>3 DEF LoaderThere, InPlace, HasLibraries, WhollyThere, LibrariesWhole
<1> QED
  BY <1>1, <1>2, ReadyStep, PTL DEF ComponentSpec, ComponentsAreReady

-----------------------------------------------------------------------------
DownloadSteps == {"idle", "prepare", "recheck", "request", "answer", "open", "receive", "validate"}
DownloadTasks ==
    [artifact : Artifact \cup {NoArtifact}, declares : Declarations, step : DownloadSteps,
     attempt : Nat, append : BOOLEAN, answer : 0..MaxRevision, restarted : BOOLEAN]

DownloadTypes ==
    /\ partial \in [Artifact -> Seq(1..MaxRevision)]
    /\ meta \in [artifact : Artifact \cup {NoArtifact}, tag : 0..MaxRevision]
    /\ revision \in 1..MaxRevision
    /\ tagged \in BOOLEAN
    /\ task \in DownloadTasks
    /\ task.step # "idle" => task.artifact \in Artifact
    /\ task.step \in {"open", "receive"} => task.answer # 0

Of(piece, r) == \A i \in 1..Len(piece) : piece[i] = r

\* Every partial file is of one revision, and of the one its validator names;
\* an answer goes on with what there is only if it is of the same revision; what
\* is to be validated has come to its end.
PartialsAreOfOne ==
    /\ \A a \in Artifact : \E r \in 1..MaxRevision : Of(partial[a], r)
    /\ meta.tag # 0 => meta.artifact \in Artifact /\ Of(partial[meta.artifact], meta.tag)
    /\ task.step \in {"answer", "open"} /\ task.append =>
          meta.artifact = task.artifact /\ meta.tag # 0
    /\ task.step \in {"answer", "open"} /\ ~task.append => Mine = <<>>
    /\ task.step = "open" /\ task.append => task.answer = meta.tag
    /\ task.step = "receive" =>
          /\ Of(Mine, task.answer)
          /\ meta.artifact = task.artifact /\ meta.tag \in {0, task.answer}
    /\ task.step \in {"recheck", "validate"} /\ Mine # <<>> => Len(Mine) = Blocks

DownloadInv == DownloadTypes /\ (mishap = {} => PartialsAreOfOne)

LEMMA IdleTask ==
    /\ NoTask \in DownloadTasks /\ NoTask.step = "idle" /\ NoTask.artifact = NoArtifact
<1> DEFINE no == FALSE
<1>1. no \in BOOLEAN /\ 0 \in 0..MaxRevision
  BY DownloadAssumption
<1>2. NoTask = [artifact |-> NoArtifact, declares |-> "nothing", step |-> "idle", attempt |-> 0,
                append |-> no, answer |-> 0, restarted |-> no]
  BY DEF NoTask
<1> HIDE DEF no
<1> QED BY <1>1, <1>2 DEF DownloadTasks, Declarations, DownloadSteps

\* A file that is removed is gone, unless it is locked.
LEMMA Unlinks ==
    ASSUME DownloadTypes, NEW a \in Artifact, NEW after, after \in Unlinked(partial, a)
    PROVE  /\ after \in [Artifact -> Seq(1..MaxRevision)]
           /\ \A b \in Artifact : after[b] \in {partial[b], <<>>}
           /\ mishap = {} => after[a] = <<>>
<1>1. partial \in [Artifact -> Seq(1..MaxRevision)] /\ <<>> \in Seq(1..MaxRevision)
  BY DEF DownloadTypes
<1> QED BY <1>1 DEF Unlinked

\* The other tries of a task, or its end.
LEMMA TriesAgain ==
    ASSUME DownloadTypes, task.artifact \in Artifact, AgainOrFailed
    PROVE  /\ task' \in DownloadTasks /\ task'.step \in {"prepare", "idle"}
           /\ task'.step # "idle" => task'.artifact \in Artifact
<1>1. CASE task' = NoTask
  BY <1>1, IdleTask
<1>2. CASE task' = [NoTask EXCEPT !.artifact = task.artifact, !.declares = task.declares,
                                  !.step = "prepare", !.attempt = task.attempt + 1]
  <2>1. task \in DownloadTasks /\ task.attempt + 1 \in Nat
    BY DEF DownloadTypes, DownloadTasks
  <2>2. /\ task.artifact \in Artifact \cup {NoArtifact} /\ task.declares \in Declarations
        /\ "prepare" \in DownloadSteps
    BY <2>1 DEF DownloadTasks, DownloadSteps
  <2>3. task' \in DownloadTasks /\ task'.step = "prepare" /\ task'.artifact = task.artifact
    BY <1>2, <2>1, <2>2, IdleTask DEF DownloadTasks
  <2> QED BY <2>3
<1> QED BY <1>1, <1>2 DEF AgainOrFailed

\* Files of which some were removed are of one revision as they were.
LEMMA RemovalsKeepOne ==
    ASSUME DownloadTypes, PartialsAreOfOne, NEW after,
           \A b \in Artifact : after[b] \in {partial[b], <<>>}
    PROVE  /\ \A a \in Artifact : \E r \in 1..MaxRevision : Of(after[a], r)
           /\ meta.tag # 0 => meta.artifact \in Artifact /\ Of(after[meta.artifact], meta.tag)
<1>1. \A r : Of(<<>>, r)
  BY DEF Of
<1>2. 1 \in 1..MaxRevision
  BY DownloadAssumption
<1> QED BY <1>1, <1>2 DEF PartialsAreOfOne

LEMMA DownloadStepKeeps == ASSUME DownloadInv, [DownloadNext]_downloadVars PROVE DownloadInv'
<1> USE DownloadAssumption
<1>a. /\ DownloadTypes /\ task \in DownloadTasks /\ task.artifact \in Artifact \cup {NoArtifact}
      /\ partial \in [Artifact -> Seq(1..MaxRevision)]
      /\ meta \in [artifact : Artifact \cup {NoArtifact}, tag : 0..MaxRevision]
      /\ revision \in 1..MaxRevision /\ tagged \in BOOLEAN
      /\ task.step # "idle" => task.artifact \in Artifact
      /\ task.step \in {"open", "receive"} => task.answer # 0
      /\ mishap = {} => PartialsAreOfOne
  BY DEF DownloadInv, DownloadTypes, DownloadTasks
<1>b. /\ \A r : Of(<<>>, r)
      /\ 0 \in 0..MaxRevision /\ <<>> \in Seq(1..MaxRevision)
  BY DEF Of
<1>v. revision \in 0..MaxRevision /\ revision # 0
  BY <1>a
\* A task that begins anew, or ends, over files of which some were removed.
<1>q. ASSUME partial' \in [Artifact -> Seq(1..MaxRevision)],
             \A b \in Artifact : partial'[b] \in {partial[b], <<>>},
             meta' \in {meta, NoMeta}, UNCHANGED <<tagged, mishap>>, revision' \in 1..MaxRevision,
             task' \in DownloadTasks, task'.step \in {"prepare", "idle"},
             task'.step # "idle" => task'.artifact \in Artifact
      PROVE  DownloadInv'
  <2>0. NoMeta \in [artifact : Artifact \cup {NoArtifact}, tag : 0..MaxRevision] /\ NoMeta.tag = 0
    BY <1>b DEF NoMeta
  <2>1. DownloadTypes'
    BY <1>a, <1>q, <2>0 DEF DownloadTypes
  <2>2. ASSUME mishap = {} PROVE PartialsAreOfOne'
    BY <1>a, <1>q, <2>0, <2>2, RemovalsKeepOne DEF PartialsAreOfOne
  <2> QED BY <1>q, <2>1, <2>2 DEF DownloadInv
\* The steps of one task over files of which some were removed.
<1>r. ASSUME partial' \in [Artifact -> Seq(1..MaxRevision)],
             \A b \in Artifact : partial'[b] \in {partial[b], <<>>},
             meta' = [artifact |-> task.artifact, tag |-> 0] \/ meta' = meta,
             UNCHANGED <<tagged, mishap, revision>>,
             task' \in DownloadTasks, task'.artifact = task.artifact, task.artifact \in Artifact,
             task'.step \in {"recheck", "request", "answer", "open", "validate"},
             task'.step = "open" => task'.answer # 0,
             mishap = {} =>
               /\ task'.step \in {"answer", "open"} /\ task'.append =>
                     meta'.artifact = task'.artifact /\ meta'.tag # 0
               /\ task'.step \in {"answer", "open"} /\ ~task'.append => Mine' = <<>>
               /\ task'.step = "open" /\ task'.append => task'.answer = meta'.tag
               /\ task'.step \in {"recheck", "validate"} /\ Mine' # <<>> => Len(Mine') = Blocks
      PROVE  DownloadInv'
  <2> DEFINE fresh == [artifact |-> task.artifact, tag |-> 0]
  <2>0. fresh \in [artifact : Artifact \cup {NoArtifact}, tag : 0..MaxRevision] /\ fresh.tag = 0
    BY <1>a, <1>b
  <2> HIDE DEF fresh
  <2>d. meta' \in {fresh, meta}
    BY <1>r DEF fresh
  <2>1. DownloadTypes'
    BY <1>a, <1>r, <2>0, <2>d DEF DownloadTypes
  <2>2. ASSUME mishap = {} PROVE PartialsAreOfOne'
    <3>1. /\ \A a \in Artifact : \E r \in 1..MaxRevision : Of(partial'[a], r)
          /\ meta.tag # 0 => meta.artifact \in Artifact /\ Of(partial'[meta.artifact], meta.tag)
      BY <1>a, <1>r, <2>2, RemovalsKeepOne
    <3> QED BY <1>r, <2>0, <2>d, <2>2, <3>1 DEF PartialsAreOfOne
  <2> QED BY <1>r, <2>1, <2>2 DEF DownloadInv
<1>s. ASSUME StartAfresh, task.artifact \in Artifact
      PROVE  /\ partial' \in [Artifact -> Seq(1..MaxRevision)]
             /\ \A b \in Artifact : partial'[b] \in {partial[b], <<>>}
             /\ mishap = {} => partial'[task.artifact] = <<>>
             /\ meta' = [artifact |-> task.artifact, tag |-> 0]
  BY <1>a, <1>s, Unlinks DEF StartAfresh
<1>1. ASSUME NEW a \in Artifact, NEW declares \in Declarations, BeginDownload(a, declares)
      PROVE  DownloadInv'
  <2>1. task' = [NoTask EXCEPT !.artifact = a, !.declares = declares, !.step = "prepare", !.attempt = 1]
    BY <1>1 DEF BeginDownload
  <2>2. task' \in DownloadTasks /\ task'.step = "prepare" /\ task'.artifact = a
    BY <2>1, IdleTask DEF DownloadTasks, DownloadSteps
  <2>3. UNCHANGED <<partial, meta, revision, tagged, mishap>>
    BY <1>1 DEF BeginDownload
  <2> QED BY <1>a, <1>q, <2>2, <2>3
<1>2. CASE PreparePartial
  <2>0. task.step = "prepare" /\ task.artifact \in Artifact /\ UNCHANGED <<dest, revision, tagged, mishap>>
    BY <1>2, <1>a DEF PreparePartial
  <2>1. /\ partial' \in [Artifact -> Seq(1..MaxRevision)]
        /\ \A b \in Artifact : partial'[b] \in {partial[b], <<>>}
        /\ partial'[task.artifact] = partial[task.artifact]
    <3>1. CASE UNCHANGED partial
      BY <1>a, <3>1
    <3>2. CASE meta.artifact \notin {task.artifact, NoArtifact}
      <4>1. meta.artifact \in Artifact \ {task.artifact} /\ partial' \in Unlinked(partial, meta.artifact)
        BY <1>2, <1>a, <3>2 DEF PreparePartial
      <4>2. partial'[task.artifact] = partial[task.artifact]
        BY <1>a, <2>0, <4>1 DEF Unlinked
      <4> QED BY <1>a, <4>1, <4>2, Unlinks
    <3> QED BY <1>2, <3>1, <3>2 DEF PreparePartial
  <2>2. meta' = [artifact |-> task.artifact, tag |-> 0] \/ meta' = meta
    BY <1>2 DEF PreparePartial
  <2>3. PICK x \in {"recheck", "request"} : /\ task' = [task EXCEPT !.step = x]
                                            /\ x = "recheck" => Len(Mine) = Blocks
    BY <1>2 DEF PreparePartial, Step
  <2>4. task' \in DownloadTasks /\ task'.step = x /\ task'.artifact = task.artifact
    BY <1>a, <2>3 DEF DownloadTasks, DownloadSteps
  <2>5. Mine' = Mine
    BY <2>1, <2>4 DEF Mine
  <2> QED BY <1>r, <2>0, <2>1, <2>2, <2>3, <2>4, <2>5
<1>3. CASE SendRequest
  <2> DEFINE resumes == CanResume
  <2>0. task.step = "request" /\ task.artifact \in Artifact /\ UNCHANGED <<dest, revision, tagged, mishap>>
    BY <1>3, <1>a DEF SendRequest
  <2>1. resumes \in BOOLEAN /\ task' = [task EXCEPT !.step = "answer", !.append = resumes]
    BY <1>3 DEF SendRequest, CanResume
  <2>2. resumes => meta.artifact = task.artifact /\ meta.tag # 0 /\ UNCHANGED <<partial, meta>>
    BY <1>3 DEF SendRequest, CanResume
  <2>3. ~resumes => StartAfresh \/ (Mine = <<>> /\ UNCHANGED <<partial, meta>>)
    BY <1>3 DEF SendRequest, CanResume
  <2> HIDE DEF resumes
  <2>4. task' \in DownloadTasks /\ task'.step = "answer" /\ task'.artifact = task.artifact
        /\ (task'.append <=> resumes)
    BY <1>a, <2>1 DEF DownloadTasks, DownloadSteps
  <2>5. CASE UNCHANGED <<partial, meta>> /\ (~resumes => Mine = <<>>)
    <3>1. Mine' = Mine
      BY <2>4, <2>5 DEF Mine
    <3> QED BY <1>a, <1>r, <2>0, <2>2, <2>4, <2>5, <3>1
  <2>6. CASE StartAfresh /\ ~resumes
    <3>1. mishap = {} => Mine' = <<>>
      BY <1>s, <2>0, <2>4, <2>6 DEF Mine
    <3> QED BY <1>r, <1>s, <2>0, <2>4, <2>6, <3>1
  <2> QED BY <2>2, <2>3, <2>5, <2>6
<1>4. CASE AnswerWhole
  <2> DEFINE no == FALSE
  <2>0. task.step = "answer" /\ task.artifact \in Artifact /\ UNCHANGED <<dest, revision, tagged, mishap>>
    BY <1>4, <1>a DEF AnswerWhole
  <2>1. no \in BOOLEAN /\ task' = [task EXCEPT !.step = "open", !.append = no, !.answer = revision]
    BY <1>4 DEF AnswerWhole
  <2>n. ~no OBVIOUS
  <2> HIDE DEF no
  <2>2. /\ task' \in DownloadTasks /\ task'.step = "open" /\ task'.artifact = task.artifact
        /\ ~task'.append /\ task'.answer # 0
    BY <1>a, <1>v, <2>1, <2>n DEF DownloadTasks, DownloadSteps
  <2>3. CASE StartAfresh
    <3>1. mishap = {} => Mine' = <<>>
      BY <1>s, <2>0, <2>2, <2>3 DEF Mine
    <3> QED BY <1>r, <1>s, <2>0, <2>2, <2>3, <3>1
  <2>4. CASE ~task.append /\ UNCHANGED <<partial, meta>>
    <3>1. mishap = {} => Mine' = <<>>
      BY <1>a, <2>0, <2>2, <2>4 DEF Mine, PartialsAreOfOne
    <3> QED BY <1>a, <1>r, <2>0, <2>2, <2>4, <3>1
  <2> QED BY <1>4, <2>3, <2>4 DEF AnswerWhole
<1>5. CASE AnswerRest
  <2>0. /\ task.step = "answer" /\ task.artifact \in Artifact /\ task.append /\ meta.tag = revision
        /\ UNCHANGED <<dest, partial, meta, revision, tagged, mishap>>
        /\ task' = [task EXCEPT !.step = "open", !.answer = revision]
    BY <1>5, <1>a DEF AnswerRest, ValidatorHolds
  <2>1. /\ task' \in DownloadTasks /\ task'.step = "open" /\ task'.artifact = task.artifact
        /\ task'.append /\ task'.answer = revision /\ revision # 0
    BY <1>a, <1>v, <2>0 DEF DownloadTasks, DownloadSteps
  <2>2. mishap = {} => meta.artifact = task.artifact
    BY <1>a, <2>0 DEF PartialsAreOfOne
  <2> QED BY <1>a, <1>r, <2>0, <2>1, <2>2
<1>6. CASE AnswerUnsafe
  <2> DEFINE no == FALSE
             yes == TRUE
  <2>0. /\ task.step = "answer" /\ task.artifact \in Artifact /\ StartAfresh
        /\ UNCHANGED <<dest, revision, tagged, mishap>>
    BY <1>6, <1>a DEF AnswerUnsafe
  <2>1. /\ no \in BOOLEAN /\ yes \in BOOLEAN
        /\ \/ task' = [task EXCEPT !.step = "validate", !.append = no]
           \/ task' = [task EXCEPT !.step = "request", !.restarted = yes, !.append = no]
    BY <1>6 DEF AnswerUnsafe
  <2> HIDE DEF no, yes
  <2>2. /\ task' \in DownloadTasks /\ task'.step \in {"validate", "request"}
        /\ task'.artifact = task.artifact
    BY <1>a, <2>1 DEF DownloadTasks, DownloadSteps
  <2>3. mishap = {} => Mine' = <<>>
    BY <1>s, <2>0, <2>2 DEF Mine
  <2> QED BY <1>r, <1>s, <2>0, <2>2, <2>3
<1>m. ForgetMeta => meta' \in {meta, NoMeta}
  BY DEF ForgetMeta
<1>7. CASE AnswerTooLong
  <2>1. task.artifact \in Artifact /\ partial' \in Unlinked(partial, task.artifact)
    BY <1>7, <1>a DEF AnswerTooLong
  <2> QED BY <1>7, <1>a, <1>m, <1>q, <2>1, Unlinks, IdleTask DEF AnswerTooLong
<1>8. CASE ConnectionFails
  <2>1. task.artifact \in Artifact
    BY <1>8, <1>a DEF ConnectionFails
  <2> QED BY <1>8, <1>a, <1>q, <2>1, TriesAgain DEF ConnectionFails
<1>9. CASE StoreValidators
  <2> DEFINE tag == IF tagged THEN task.answer ELSE 0
             now == [artifact |-> task.artifact, tag |-> tag]
  <2>0. /\ task.step = "open" /\ task.artifact \in Artifact /\ meta' = now
        /\ UNCHANGED <<dest, revision, tagged, mishap>>
    BY <1>9, <1>a DEF StoreValidators
  <2>1. tag \in 0..MaxRevision /\ tag \in {0, task.answer} /\ task.answer \in 0..MaxRevision
    BY <1>a, <1>b DEF DownloadTasks
  <2> HIDE DEF tag
  <2>2. /\ now \in [artifact : Artifact \cup {NoArtifact}, tag : 0..MaxRevision]
        /\ now.artifact = task.artifact /\ now.tag = tag
    BY <2>0, <2>1
  <2> HIDE DEF now
  <2>3. mishap = {} => task.answer # 0 /\ Of(Mine, task.answer) /\ (~task.append => Mine = <<>>)
    BY <1>a, <1>b, <2>0 DEF PartialsAreOfOne, Mine
  <2>4. CASE /\ task' = [task EXCEPT !.step = "receive"]
             /\ partial' = IF task.append THEN partial
                           ELSE [partial EXCEPT ![task.artifact] = <<>>]
    <3>1. task' \in DownloadTasks /\ task'.step = "receive" /\ task'.artifact = task.artifact
          /\ task'.answer = task.answer
      BY <1>a, <2>4 DEF DownloadTasks, DownloadSteps
    <3>2. /\ partial' \in [Artifact -> Seq(1..MaxRevision)]
          /\ \A b \in Artifact : partial'[b] \in {partial[b], <<>>}
          /\ mishap = {} => Of(Mine', task.answer)
      BY <1>a, <1>b, <2>0, <2>3, <2>4, <3>1 DEF Mine
    <3>3. DownloadTypes'
      BY <1>a, <2>0, <2>2, <3>1, <3>2 DEF DownloadTypes
    <3>4. ASSUME mishap = {} PROVE PartialsAreOfOne'
      <4>1. \A a \in Artifact : \E r \in 1..MaxRevision : Of(partial'[a], r)
        BY <1>a, <3>2, <3>4, RemovalsKeepOne
      <4>2. meta'.tag # 0 => meta'.artifact \in Artifact /\ Of(partial'[meta'.artifact], meta'.tag)
        BY <2>0, <2>1, <2>2, <3>1, <3>2, <3>4 DEF Mine
      <4> QED BY <2>0, <2>1, <2>2, <2>3, <3>1, <3>2, <3>4, <4>1, <4>2 DEF PartialsAreOfOne
    <3> QED BY <2>0, <3>3, <3>4 DEF DownloadInv
  <2>5. CASE task' = NoTask /\ UNCHANGED partial
    <3>1. DownloadTypes'
      BY <1>a, <2>0, <2>2, <2>5, IdleTask DEF DownloadTypes
    <3>2. ASSUME mishap = {} PROVE PartialsAreOfOne'
      <4>1. \A a \in Artifact : \E r \in 1..MaxRevision : Of(partial'[a], r)
        BY <1>a, <2>5, <3>2 DEF PartialsAreOfOne
      <4>2. meta'.tag # 0 => meta'.artifact \in Artifact /\ Of(partial'[meta'.artifact], meta'.tag)
        BY <2>0, <2>1, <2>2, <2>3, <2>5, <3>2 DEF Mine
      <4> QED BY <2>5, <4>1, <4>2, IdleTask DEF PartialsAreOfOne
    <3> QED BY <2>0, <3>1, <3>2 DEF DownloadInv
  <2> QED BY <1>9, <2>4, <2>5 DEF StoreValidators, Step
<1>10. CASE ReceiveBlock
  <2>0. /\ task.step = "receive" /\ task.artifact \in Artifact
        /\ partial' = [partial EXCEPT ![task.artifact] = Append(@, task.answer)]
        /\ UNCHANGED <<dest, meta, revision, tagged, mishap, task>>
    BY <1>10, <1>a DEF ReceiveBlock
  <2>a. task.answer \in 0..MaxRevision /\ Mine \in Seq(1..MaxRevision)
    BY <1>a, <2>0 DEF DownloadTasks, Mine
  <2>1. task.answer \in 1..MaxRevision
    BY <1>a, <2>0, <2>a
  <2>2. Append(Mine, task.answer) \in Seq(1..MaxRevision)
    BY <2>1, <2>a
  <2>3. /\ partial' \in [Artifact -> Seq(1..MaxRevision)]
        /\ Mine' = Append(Mine, task.answer)
        /\ \A b \in Artifact \ {task.artifact} : partial'[b] = partial[b]
    BY <1>a, <2>0, <2>2 DEF Mine
  <2>4. DownloadTypes'
    BY <1>a, <2>0, <2>3 DEF DownloadTypes
  <2>5. ASSUME mishap = {} PROVE PartialsAreOfOne'
    <3>1. /\ Of(Mine, task.answer) /\ meta.artifact = task.artifact /\ meta.tag \in {0, task.answer}
          /\ \A a \in Artifact : \E r \in 1..MaxRevision : Of(partial[a], r)
      BY <1>a, <2>0, <2>5 DEF PartialsAreOfOne
    <3>2. Of(Mine', task.answer)
      BY <2>a, <2>1, <2>3, <3>1 DEF Of
    <3>3. Mine' = partial'[task.artifact]
      BY <2>0 DEF Mine
    <3>4. \A a \in Artifact : \E r \in 1..MaxRevision : Of(partial'[a], r)
      BY <2>1, <2>3, <3>1, <3>2, <3>3
    <3> QED BY <2>0, <3>1, <3>2, <3>3, <3>4 DEF PartialsAreOfOne
  <2> QED BY <2>0, <2>4, <2>5 DEF DownloadInv
<1>11. CASE EndOfAnswer
  <2> DEFINE no == FALSE
  <2>0. task.step = "receive" /\ task.artifact \in Artifact
        /\ UNCHANGED <<dest, partial, meta, revision, tagged, mishap>>
    BY <1>11, <1>a DEF EndOfAnswer
  <2>1. CASE task' = NoTask
    BY <1>a, <1>q, <2>0, <2>1, IdleTask
  <2>2. CASE task' = [task EXCEPT !.step = "validate", !.append = no, !.answer = 0]
    <3>1. no \in BOOLEAN OBVIOUS
    <3> HIDE DEF no
    <3>2. task' \in DownloadTasks /\ task'.step = "validate" /\ task'.artifact = task.artifact
      BY <1>a, <1>b, <2>2, <3>1 DEF DownloadTasks, DownloadSteps
    <3>3. mishap = {} => Len(Mine) = Blocks
      BY <1>11 DEF EndOfAnswer
    <3>4. Mine' = Mine
      BY <2>0, <3>2 DEF Mine
    <3> QED BY <1>a, <1>r, <2>0, <3>2, <3>3, <3>4
  <2> QED BY <1>11, <2>1, <2>2 DEF EndOfAnswer
<1>12. CASE ActivateFile
  <2>0. /\ task.artifact \in Artifact /\ partial' = [partial EXCEPT ![task.artifact] = <<>>]
        /\ task' = NoTask /\ UNCHANGED <<revision, tagged, mishap>> /\ ForgetMeta
    BY <1>12, <1>a DEF ActivateFile
  <2>1. /\ partial' \in [Artifact -> Seq(1..MaxRevision)]
        /\ \A b \in Artifact : partial'[b] \in {partial[b], <<>>}
    BY <1>a, <1>b, <2>0
  <2> QED BY <1>a, <1>m, <1>q, <2>0, <2>1, IdleTask
<1>13. CASE RejectPartial
  <2>0. /\ task.step \in {"recheck", "validate"} /\ task.artifact \in Artifact
        /\ partial' \in Unlinked(partial, task.artifact)
        /\ UNCHANGED <<dest, revision, tagged, mishap>>
    BY <1>13, <1>a DEF RejectPartial
  <2>1. /\ partial' \in [Artifact -> Seq(1..MaxRevision)]
        /\ \A b \in Artifact : partial'[b] \in {partial[b], <<>>}
    BY <1>a, <2>0, Unlinks
  <2>2. CASE task' = [task EXCEPT !.step = "request"] /\ meta' = [artifact |-> task.artifact, tag |-> 0]
    <3>1. task' \in DownloadTasks /\ task'.step = "request" /\ task'.artifact = task.artifact
      BY <1>a, <2>2 DEF DownloadTasks, DownloadSteps
    <3> QED BY <1>r, <2>0, <2>1, <2>2, <3>1
  <2>3. CASE AgainOrFailed /\ ForgetMeta
    BY <1>a, <1>m, <1>q, <2>0, <2>1, <2>3, TriesAgain
  <2> QED BY <1>13, <2>2, <2>3 DEF RejectPartial, Step
<1>14. CASE LauncherDies
  BY <1>14, <1>a, <1>q, IdleTask DEF LauncherDies
<1>15. CASE ServerReplacesFile \/ UNCHANGED downloadVars
  <2>1. UNCHANGED <<partial, meta, tagged, mishap, task>> /\ revision' \in 1..MaxRevision
    BY <1>15, <1>a DEF ServerReplacesFile, downloadVars
  <2> QED BY <1>a, <2>1 DEF DownloadInv, DownloadTypes, PartialsAreOfOne, Mine
<1> QED
  BY <1>1, <1>2, <1>3, <1>4, <1>5, <1>6, <1>7, <1>8, <1>9, <1>10, <1>11, <1>12, <1>13, <1>14, <1>15
     DEF DownloadNext, DownloadStep

LEMMA DownloadStarts == ASSUME DownloadInit PROVE DownloadInv
<1> USE DownloadAssumption
<1>1. /\ NoMeta \in [artifact : Artifact \cup {NoArtifact}, tag : 0..MaxRevision] /\ NoMeta.tag = 0
      /\ <<>> \in Seq(1..MaxRevision) /\ 1 \in 1..MaxRevision
      /\ \A r : Of(<<>>, r)
  BY DEF NoMeta, Of
<1>2. DownloadTypes
  BY <1>1, IdleTask DEF DownloadInit, DownloadTypes
<1>3. PartialsAreOfOne
  BY <1>1, IdleTask DEF DownloadInit, PartialsAreOfOne
<1> QED BY <1>2, <1>3 DEF DownloadInv

\* Only the validation of a partial file replaces the destination.
LEMMA OnlyActivated ==
    ASSUME DownloadNext, dest' # dest
    PROVE  /\ task.step \in {"recheck", "validate"} /\ Acceptable /\ dest' = Mine
           /\ UNCHANGED mishap
  BY DEF DownloadNext, DownloadStep, PreparePartial, SendRequest, AnswerWhole, AnswerRest,
         AnswerUnsafe, AnswerTooLong, ConnectionFails, StoreValidators, ReceiveBlock, EndOfAnswer,
         ActivateFile, RejectPartial, LauncherDies, ServerReplacesFile, BeginDownload

\* A file with a declared hash is installed as declared or not at all, and any file
\* is of one revision of the server's, whole, over retries, restarts and resumptions
\* (_download_file, _validate_and_move).
THEOREM InstalledStaysRight == DownloadSpec => InstalledIsRight
<1>1. [DownloadNext]_downloadVars =>
        [dest' # dest /\ task.declares = "hash" => dest' = [i \in 1..Blocks |-> 1]]_downloadVars
  BY OnlyActivated DEF Acceptable
<1>2. DownloadInv /\ [DownloadNext]_downloadVars =>
        [dest' # dest /\ mishap = {} => Whole(dest')]_downloadVars
  <2> SUFFICES ASSUME DownloadInv, DownloadNext, dest' # dest, mishap = {}
               PROVE  Whole(dest')
    OBVIOUS
  <2>1. task.step \in {"recheck", "validate"} /\ Mine # <<>> /\ dest' = Mine
    BY OnlyActivated DEF Acceptable
  <2>2. PartialsAreOfOne /\ task.artifact \in Artifact /\ partial \in [Artifact -> Seq(1..MaxRevision)]
    BY <2>1 DEF DownloadInv, DownloadTypes
  <2>3. PICK r \in 1..MaxRevision : Of(Mine, r)
    BY <2>2 DEF PartialsAreOfOne, Mine
  <2>4. Mine \in Seq(1..MaxRevision) /\ Len(Mine) = Blocks
    BY <2>1, <2>2 DEF PartialsAreOfOne, Mine
  <2>5. Mine = [i \in 1..Blocks |-> r]
    BY <2>3, <2>4 DEF Of
  <2> QED BY <2>1, <2>5 DEF Whole
<1> QED
  BY DownloadStarts, DownloadStepKeeps, <1>1, <1>2, PTL
     DEF DownloadSpec, InstalledIsRight, DeclaredIsExact, InstalledIsOneRevision
=============================================================================
