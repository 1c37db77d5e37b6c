------------------------------ MODULE MCStores ------------------------------
(*****************************************************************************)
(* The components that keep the launcher's data to one truth, checked one    *)
(* beside the other: a behaviour is about one of them, its subject, and      *)
(* leaves the variables of the others alone.                                 *)
(*****************************************************************************)
EXTENDS SharedResource, VersionStore, ConfigStore, ProfileStore,
        GileaMigration, ComponentInstall, PackInstall, ModsPage, PackSync,
        ModContent, WorldBackups, Feedback, Builds, VersionCatalog,
        ModpackCatalog, ComponentChoice, JavaRuntime, DataLocation, TLC

CONSTANTS w1, w2, w3, w4, p1, p2, Wk
MCHome == (w1 :> p1) @@ (w2 :> p1) @@ (w3 :> p2) @@ (w4 :> p2)

\* Two histories of a pack: its manifest takes over more directories and
\* preserves a file there, which the data of the release before does not;
\* forced files beside a mod of the user's become a plain list.
MCPaths == {"mods/a", "mods/b", "config/c", "maps/d"}
MCModFiles == {"mods/a", "mods/b"}
MCParent == ("mods/a" :> "mods") @@ ("mods/b" :> "mods") @@ ("config/c" :> "config") @@ ("maps/d" :> "maps")
MCUnder == [d \in {"mods", "config", "maps"} |-> {p \in MCPaths : MCParent[p] = d}]
PackRelease(md, rn, op, fs, sc, fo, lo, pr, ru) ==
    [mode |-> md, runs |-> rn, option |-> op, files |-> fs, scopes |-> sc,
     forced |-> fo, locked |-> lo, preserved |-> pr, rules |-> ru]
MCHistories ==
    {<<PackRelease("manifest", 1, Unforced, ("mods/a" :> 1) @@ ("mods/b" :> 1) @@ ("config/c" :> 1),
               {"mods"}, {}, {}, {}, {}),
       PackRelease("manifest", 2, Unforced, ("mods/a" :> 2) @@ ("config/c" :> 1),
               {"mods", "config", "maps"}, {}, {}, {"maps/d"}, NoRules)>>,
     <<PackRelease("metadata", 1, 2, ("mods/a" :> 1) @@ ("maps/d" :> 1),
               {}, {"mods/a", "maps/d"}, {"maps/d"}, {}, {"mods/b"}),
       PackRelease("plain", 1, Unforced, ("mods/a" :> 2) @@ ("config/c" :> 1),
               {}, {}, {}, {}, NoRules)>>}

\* Every loader lists all libraries.
MCNeeds == [l \in Loaders |-> Libraries]

\* A project that keeps the name of its file, one that does not.
MCPublications == {<<"a", "a">>, <<"a", "b">>}

\* Two worlds whose names give two directories.
MCFolderOf == <<1, 2>>

\* Names that differ in their letters; a pack whose title nobody types.
MCNames == [x |-> "x", y |-> "y", t |-> "t"]
MCTitles == [k |-> "t"]

\* Two pages of everything, one of what is searched.
MCPagesOf == ("" :> 2) @@ ("a" :> 1)

\* A loader with two lines of releases and prereleases of a release that is out
\* and of one that is not; and one that lists a part of them, or nothing.
LoaderBuild(line, nr, word, pre) == [nums |-> <<0, line, nr>>, word |-> word, pre |-> pre]
MCReleases == {LoaderBuild(1, 9, "release", 0), LoaderBuild(2, 0, "release", 0), LoaderBuild(2, 1, "release", 0)}
MCPrereleases == {LoaderBuild(2, 1, "beta", 2), LoaderBuild(2, 2, "rc", 1), LoaderBuild(2, 2, "beta", 1)}
MCCatalogues ==
    [stable : SUBSET MCReleases,
     listed : {{}, MCReleases \cup MCPrereleases, MCReleases \cup {LoaderBuild(2, 2, "beta", 1)},
               {LoaderBuild(1, 9, "release", 0), LoaderBuild(2, 1, "beta", 2)}}]

VARIABLE subject
vars == <<sharedVars, storeVars, configVars, profileVars, migrationVars,
          componentVars, packVars, pageVars, syncVars, contentVars,
          backupVars, feedbackVars, buildsVars, catalogVars, modpackVars,
          choiceVars, javaVars, locationVars, subject>>

Init ==
    /\ SharedInit /\ StoreInit /\ ConfigInit /\ ProfileInit /\ MigrationInit
       /\ ComponentInit /\ PackInit /\ PageInit /\ PackSyncInit /\ ContentInit
       /\ BackupsInit /\ FeedbackInit /\ BuildsInit /\ CatalogInit /\
       ModpacksInit /\ ChoiceInit /\ JavaInit /\ LocationInit
    /\ subject \in {"shared", "store", "config", "profile", "migration",
                   "component", "pack", "page", "sync_of_pack", "content",
                   "backups", "progress", "builds", "tabs", "modpacks",
                   "choice", "java", "location"}
    /\ subject # "profile" => profiles[CHOOSE a \in Account : TRUE].form = "plain"
    /\ subject # "pack" => source = "modrinth"
    /\ subject # "sync_of_pack" => release = 1 /\ history = CHOOSE h \in Histories : TRUE
    /\ subject # "content" => published = CHOOSE p \in Publications : TRUE
    /\ subject # "choice" => listing = CHOOSE c \in Catalogues : TRUE
    /\ subject # "java" => javaDisk[Canonical] = "absent"
    /\ subject # "location" => known.rev["config"] = 0

Next ==
    /\ UNCHANGED subject
    /\ \/ /\ subject = "shared" /\ SharedNext
          /\ UNCHANGED <<storeVars, configVars, profileVars, migrationVars,
                        componentVars, packVars, pageVars, syncVars,
                        contentVars, backupVars, feedbackVars, buildsVars,
                        catalogVars, modpackVars, choiceVars, javaVars,
                        locationVars>>
       \/ /\ subject = "store" /\ StoreNext
          /\ UNCHANGED <<sharedVars, configVars, profileVars, migrationVars,
                        componentVars, packVars, pageVars, syncVars,
                        contentVars, backupVars, feedbackVars, buildsVars,
                        catalogVars, modpackVars, choiceVars, javaVars,
                        locationVars>>
       \/ /\ subject = "config" /\ ConfigNext
          /\ UNCHANGED <<sharedVars, storeVars, profileVars, migrationVars,
                        componentVars, packVars, pageVars, syncVars,
                        contentVars, backupVars, feedbackVars, buildsVars,
                        catalogVars, modpackVars, choiceVars, javaVars,
                        locationVars>>
       \/ /\ subject = "profile" /\ ProfileNext
          /\ UNCHANGED <<sharedVars, storeVars, configVars, migrationVars,
                        componentVars, packVars, pageVars, syncVars,
                        contentVars, backupVars, feedbackVars, buildsVars,
                        catalogVars, modpackVars, choiceVars, javaVars,
                        locationVars>>
       \/ /\ subject = "migration" /\ MigrationNext
          /\ UNCHANGED <<sharedVars, storeVars, configVars, profileVars,
                        componentVars, packVars, pageVars, syncVars,
                        contentVars, backupVars, feedbackVars, buildsVars,
                        catalogVars, modpackVars, choiceVars, javaVars,
                        locationVars>>
       \/ /\ subject = "component" /\ ComponentNext
          /\ UNCHANGED <<sharedVars, storeVars, configVars, profileVars,
                        migrationVars, packVars, pageVars, syncVars,
                        contentVars, backupVars, feedbackVars, buildsVars,
                        catalogVars, modpackVars, choiceVars, javaVars,
                        locationVars>>
       \/ /\ subject = "pack" /\ PackNext
          /\ UNCHANGED <<sharedVars, storeVars, configVars, profileVars,
                        migrationVars, componentVars, pageVars, syncVars,
                        contentVars, backupVars, feedbackVars, buildsVars,
                        catalogVars, modpackVars, choiceVars, javaVars,
                        locationVars>>
       \/ /\ subject = "page" /\ PageNext
          /\ UNCHANGED <<sharedVars, storeVars, configVars, profileVars,
                        migrationVars, componentVars, packVars, syncVars,
                        contentVars, backupVars, feedbackVars, buildsVars,
                        catalogVars, modpackVars, choiceVars, javaVars,
                        locationVars>>
       \/ /\ subject = "sync_of_pack" /\ PackSyncNext
          /\ UNCHANGED <<sharedVars, storeVars, configVars, profileVars,
                        migrationVars, componentVars, packVars, pageVars,
                        contentVars, backupVars, feedbackVars, buildsVars,
                        catalogVars, modpackVars, choiceVars, javaVars,
                        locationVars>>
       \/ /\ subject = "content" /\ ContentNext
          /\ UNCHANGED <<sharedVars, storeVars, configVars, profileVars,
                        migrationVars, componentVars, packVars, pageVars,
                        syncVars, backupVars, feedbackVars, buildsVars,
                        catalogVars, modpackVars, choiceVars, javaVars,
                        locationVars>>
       \/ /\ subject = "backups" /\ BackupsNext
          /\ UNCHANGED <<sharedVars, storeVars, configVars, profileVars,
                        migrationVars, componentVars, packVars, pageVars,
                        syncVars, contentVars, feedbackVars, buildsVars,
                        catalogVars, modpackVars, choiceVars, javaVars,
                        locationVars>>
       \/ /\ subject = "progress" /\ FeedbackNext
          /\ UNCHANGED <<sharedVars, storeVars, configVars, profileVars,
                        migrationVars, componentVars, packVars, pageVars,
                        syncVars, contentVars, backupVars, buildsVars,
                        catalogVars, modpackVars, choiceVars, javaVars,
                        locationVars>>
       \/ /\ subject = "builds" /\ BuildsNext
          /\ UNCHANGED <<sharedVars, storeVars, configVars, profileVars,
                        migrationVars, componentVars, packVars, pageVars,
                        syncVars, contentVars, backupVars, feedbackVars,
                        catalogVars, modpackVars, choiceVars, javaVars,
                        locationVars>>
       \/ /\ subject = "tabs" /\ CatalogNext
          /\ UNCHANGED <<sharedVars, storeVars, configVars, profileVars,
                        migrationVars, componentVars, packVars, pageVars,
                        syncVars, contentVars, backupVars, feedbackVars,
                        buildsVars, modpackVars, choiceVars, javaVars,
                        locationVars>>
       \/ /\ subject = "modpacks" /\ ModpacksNext
          /\ UNCHANGED <<sharedVars, storeVars, configVars, profileVars,
                        migrationVars, componentVars, packVars, pageVars,
                        syncVars, contentVars, backupVars, feedbackVars,
                        buildsVars, catalogVars, choiceVars, javaVars,
                        locationVars>>
       \/ /\ subject = "choice" /\ ChoiceNext
          /\ UNCHANGED <<sharedVars, storeVars, configVars, profileVars,
                        migrationVars, componentVars, packVars, pageVars,
                        syncVars, contentVars, backupVars, feedbackVars,
                        buildsVars, catalogVars, modpackVars, javaVars,
                        locationVars>>
       \/ /\ subject = "java" /\ JavaNext
          /\ UNCHANGED <<sharedVars, storeVars, configVars, profileVars,
                        migrationVars, componentVars, packVars, pageVars,
                        syncVars, contentVars, backupVars, feedbackVars,
                        buildsVars, catalogVars, modpackVars, choiceVars,
                        locationVars>>
       \/ /\ subject = "location" /\ LocationNext
          /\ UNCHANGED <<sharedVars, storeVars, configVars, profileVars,
                        migrationVars, componentVars, packVars, pageVars,
                        syncVars, contentVars, backupVars, feedbackVars,
                        buildsVars, catalogVars, modpackVars, choiceVars,
                        javaVars>>

Spec ==
    /\ Init /\ [][Next]_vars

\* Every variable of the subject has its type; the others keep their values.
StoresTypeOK ==
    /\ subject = "shared" => SharedTypeOK
    /\ subject = "store" => StoreTypeOK
    /\ subject = "config" => ConfigTypeOK
    /\ subject = "profile" => ProfileTypeOK
    /\ subject = "migration" => MigrationTypeOK
    /\ subject = "component" => ComponentTypeOK
    /\ subject = "pack" => PackTypeOK
    /\ subject = "page" => PageTypeOK
    /\ subject = "sync_of_pack" => PackSyncTypeOK
    /\ subject = "content" => ContentTypeOK
    /\ subject = "backups" => BackupsTypeOK
    /\ subject = "progress" => FeedbackTypeOK
    /\ subject = "builds" => BuildsTypeOK
    /\ subject = "tabs" => CatalogTypeOK
    /\ subject = "modpacks" => ModpacksTypeOK
    /\ subject = "choice" => ChoiceTypeOK
    /\ subject = "java" => JavaTypeOK
    /\ subject = "location" => LocationTypeOK
=============================================================================
