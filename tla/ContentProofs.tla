---------------------------- MODULE ContentProofs ----------------------------
(***************************************************************************)
(* What an instance keeps of its content, for any set of jars and files,   *)
(* any publications and any releases of a pack: an installation of a       *)
(* Modrinth mod replaces what it can prove and nothing else (ModContent),  *)
(* a synchronization leaves what its release manages as the release has it *)
(* and the rest as it was (PackSync); no creation or copy takes the place  *)
(* of a build that keeps its id (Builds); backups of worlds stay as long   *)
(* as the player was promised (WorldBackups); the plan of a mod holds what *)
(* its releases require (ModDependencies).                                 *)
(***************************************************************************)
EXTENDS ModContent, PackSync, Builds, WorldBackups, ModDependencies, WellFoundedInduction,
        FiniteSetTheorems, TLAPS

-----------------------------------------------------------------------------
(* Modrinth content *)

\* What a jar may contain, what the index may say of it.
Releases == UNION {DOMAIN p : p \in Publications}
Contents == {NoJar, OwnJar} \cup Releases
Shelves == [Slots -> Contents]
Indexes == [Jars -> {0} \cup Releases]
Plans == [at : {"none", "shown", "entered", "copied", "staged", "placed", "indexed", "applied"},
          release : {0} \cup Releases, item : Slots \cup {NoSlot}, owned : BOOLEAN,
          stale : Slots \cup {NoSlot}, index : Indexes \cup {<<>>}, before : Shelves \cup {<<>>},
          late : BOOLEAN]

Installing == plan.at \in {"staged", "placed", "indexed", "applied"}
Placed == plan.at \in {"placed", "indexed", "applied"}
Replaced == UNION {[S -> Contents] : S \in SUBSET Slots}
Journals == [open : BOOLEAN, jars : Replaced \cup {<<>>}, index : Indexes \cup {<<>>}]

ContentTypes ==
    /\ published \in Publications
    /\ shelf \in Shelves /\ copies \in [Jars -> Contents] /\ noted \in Indexes
    /\ inGame \in BOOLEAN /\ loadedJars \subseteq Slots
    /\ plan \in Plans /\ contentJournal \in Journals
    /\ Installing => plan.index \in Indexes
    /\ events \in 0..MaxJarEvents

\* A plan is for a published release; the jar that goes away for it is another
\* than the new one, and was proven.
PlanFits ==
    plan.at # "none" =>
       /\ plan.release \in DOMAIN published
       /\ plan.owned => plan.item \in Slots
       /\ plan.stale # NoSlot => plan.stale = plan.item /\ plan.owned /\ plan.stale # Destination

\* The journal has the jars that have been replaced and no other: an undo gives
\* back the directory as it was.
JournalUndoes ==
    /\ ~contentJournal.open => contentJournal.jars = <<>>
    /\ Installing => /\ contentJournal.open /\ ShelfBefore = plan.before
                     /\ DOMAIN contentJournal.jars \subseteq {Destination, plan.stale}
    /\ plan.at \in {"placed", "indexed"} => DOMAIN contentJournal.jars \subseteq {Destination}
    /\ plan.at = "staged" => DOMAIN contentJournal.jars = {}

\* What has been done so far of the plan.
PlanIsDone ==
    /\ Placed => shelf[Destination] = plan.release
    /\ Installing => plan.index[Destination[1]] = plan.release
    /\ plan.at \in {"indexed", "applied"} => noted = plan.index

\* The jar that goes away is in the backups as it was found.
BackedUp ==
    /\ plan.at = "copied" /\ plan.owned => copies[plan.item[1]] = shelf[plan.item]
    /\ Installing /\ ~plan.late /\ plan.owned => copies[plan.item[1]] = plan.before[plan.item]

\* An installation under a running game has no jar of the game to touch.
GameKeeps ==
    /\ loadedJars # {} => inGame
    /\ \A s \in loadedJars : shelf[s] # NoJar
    /\ Leased => Destination \notin loadedJars /\ (loadedJars # {} => plan.stale = NoSlot)

ContentInv ==
    ContentTypes /\ PlanFits /\ JournalUndoes /\ PlanIsDone /\ BackedUp /\ GameKeeps

LEMMA SlotFacts == NoSlot \notin Slots /\ \A s \in Slots : s[1] \in Jars /\ <<s[1], ~s[2]>> \in Slots
<1>1. \A s \in Slots : s[1] \in Jars /\ <<s[1], ~s[2]>> \in Slots BY DEF Slots
<1>2. NoSlot \notin Slots BY DEF NoSlot, Slots
<1> QED BY <1>1, <1>2

LEMMA NothingReplaced == DOMAIN <<>> = {}
  OBVIOUS

LEMMA ReplacedJars ==
    /\ \A S \in SUBSET Slots : \A jars \in [S -> Contents] : jars \in Replaced
    /\ \A jars \in Replaced \cup {<<>>} :
          DOMAIN jars \subseteq Slots /\ \A s \in DOMAIN jars : jars[s] \in Contents
<1>1. \A S \in SUBSET Slots : \A jars \in [S -> Contents] : jars \in Replaced BY DEF Replaced
<1>2. ASSUME NEW jars \in Replaced
      PROVE  DOMAIN jars \subseteq Slots /\ \A s \in DOMAIN jars : jars[s] \in Contents
  <2>1. PICK S \in SUBSET Slots : jars \in [S -> Contents] BY DEF Replaced
  <2> QED BY <2>1
<1> QED BY <1>1, <1>2, NothingReplaced

LEMMA DestinationSlot == ASSUME ContentTypes, plan.release \in DOMAIN published
                         PROVE  Destination \in Slots /\ Destination[1] \in Jars
  BY ContentAssumption DEF ContentTypes, Destination, Slots

LEMMA Matched == ASSUME ContentTypes PROVE
    /\ MatchProject.item \in Slots \cup {NoSlot}
    /\ MatchProject.owned \in BOOLEAN
    /\ MatchProject.owned => MatchProject.item \in Slots
<1> DEFINE enabled == {s \in Declaring : s[2] /\ Owned(s)}
           all == {s \in Declaring : Owned(s)}
           candidates == IF Cardinality(enabled) = 1 THEN enabled
                         ELSE IF all # {} THEN all ELSE Declaring
           chosen == CHOOSE c \in candidates : TRUE
           found == [item |-> chosen, owned |-> Owned(chosen)]
           nothing == [item |-> NoSlot, owned |-> FALSE]
<1>1. candidates \subseteq Slots BY DEF Declaring, InstalledMods
<1>2. Cardinality(candidates) = 1 => candidates # {}
  BY FS_EmptySet
<1>3. MatchProject = IF Cardinality(candidates) = 1 THEN found ELSE nothing BY DEF MatchProject
<1> HIDE DEF candidates
<1>4. candidates # {} => chosen \in Slots BY <1>1
<1>5. Owned(chosen) \in BOOLEAN BY DEF Owned, InIndex, Verified
<1>6. nothing.item = NoSlot /\ nothing.owned = FALSE /\ found.item = chosen /\ found.owned = Owned(chosen)
  OBVIOUS
<1> HIDE DEF found, nothing, chosen
<1> QED BY <1>2, <1>3, <1>4, <1>5, <1>6

LEMMA ShelfTypes == ASSUME ContentTypes PROVE
    /\ ShelfBefore \in Shelves /\ IndexBefore \in Indexes
    /\ \A s \in Slots : ShelfBefore[s] =
          IF s \in DOMAIN contentJournal.jars THEN contentJournal.jars[s] ELSE shelf[s]
<1>1. \A s \in DOMAIN contentJournal.jars : contentJournal.jars[s] \in Contents
  <2>1. contentJournal.jars \in Replaced \cup {<<>>} BY DEF ContentTypes, Journals
  <2> QED BY <2>1, ReplacedJars
<1>2. ShelfBefore \in Shelves BY <1>1 DEF ShelfBefore, ContentTypes, Shelves
<1>3. contentJournal.index \in Indexes \cup {<<>>} /\ noted \in Indexes BY DEF ContentTypes, Journals
<1>4. IndexBefore \in Indexes BY <1>3 DEF IndexBefore
<1> QED BY <1>2, <1>4 DEF ShelfBefore

LEMMA JournalledTypes == ASSUME ContentTypes, NEW s \in Slots PROVE
    /\ Journalled(s) \in Journals
    /\ Journalled(s).open = contentJournal.open
    /\ DOMAIN Journalled(s).jars = DOMAIN contentJournal.jars \cup {s}
    /\ \A t \in DOMAIN Journalled(s).jars :
          Journalled(s).jars[t] = IF t = s THEN shelf[s] ELSE contentJournal.jars[t]
<1> DEFINE S == DOMAIN contentJournal.jars \cup {s}
           jars == [t \in S |-> IF t = s THEN shelf[s] ELSE contentJournal.jars[t]]
<1>1. contentJournal.jars \in Replaced \cup {<<>>} BY DEF ContentTypes, Journals
<1>2. S \subseteq Slots /\ \A t \in DOMAIN contentJournal.jars : contentJournal.jars[t] \in Contents
  BY <1>1, ReplacedJars
<1>3. jars \in [S -> Contents] BY <1>2 DEF ContentTypes, Shelves
<1>4. jars \in Replaced \cup {<<>>} BY <1>2, <1>3, ReplacedJars
<1>5. Journalled(s) = [contentJournal EXCEPT !.jars = jars] BY DEF Journalled
<1>6. DOMAIN jars = S /\ \A t \in S : jars[t] = IF t = s THEN shelf[s] ELSE contentJournal.jars[t]
  OBVIOUS
<1> HIDE DEF jars
<1>7. Journalled(s) \in Journals /\ Journalled(s).open = contentJournal.open /\ Journalled(s).jars = jars
  BY <1>4, <1>5 DEF ContentTypes, Journals
<1> QED BY <1>6, <1>7

LEMMA ContentTypesInit == ContentInit => ContentTypes
<1> SUFFICES ASSUME ContentInit PROVE ContentTypes OBVIOUS
<1>1. shelf \in Shelves /\ copies \in [Jars -> Contents] /\ noted \in Indexes
  BY DEF ContentInit, Shelves, Contents, Indexes
<1>2. plan \in Plans BY DEF ContentInit, NoPlan, Plans
<1>3. contentJournal \in Journals BY DEF ContentInit, NoUndo, Journals
<1>4. events \in 0..MaxJarEvents BY ContentAssumption DEF ContentInit
<1>5. ~Installing BY DEF ContentInit, NoPlan, Installing
<1> QED BY <1>1, <1>2, <1>3, <1>4, <1>5 DEF ContentInit, ContentTypes

LEMMA ContentTypesKept == ASSUME ContentTypes, PlanFits, [ContentNext]_contentVars PROVE ContentTypes'
<1>0. /\ NoPlan \in Plans /\ NoPlan.at = "none" /\ NoUndo \in Journals
      /\ \A r \in DOMAIN published : r \in Releases
      /\ Event => events' \in 0..MaxJarEvents
  <2>1. NoPlan \in Plans /\ NoPlan.at = "none" BY DEF NoPlan, Plans
  <2>2. NoUndo \in Journals BY DEF NoUndo, Journals
  <2>3. \A r \in DOMAIN published : r \in Releases BY DEF ContentTypes, Releases
  <2>4. Event => events' \in 0..MaxJarEvents BY ContentAssumption DEF ContentTypes, Event
  <2> QED BY <2>1, <2>2, <2>3, <2>4
<1>1. CASE UNCHANGED contentVars BY <1>1 DEF contentVars, ContentTypes, Installing
<1>2. ASSUME NEW r \in DOMAIN published, PlanInstall(r) PROVE ContentTypes'
  <2> DEFINE item == MatchProject.item
             owned == MatchProject.owned
  <2>1. item \in Slots \cup {NoSlot} /\ owned \in BOOLEAN BY Matched
  <2>2. plan' = [NoPlan EXCEPT !.at = "shown", !.release = r, !.item = item, !.owned = owned]
    BY <1>2 DEF PlanInstall
  <2> HIDE DEF item, owned
  <2>3. plan' \in Plans /\ plan'.at = "shown" BY <1>0, <2>1, <2>2 DEF NoPlan, Plans
  <2> QED BY <1>2, <2>3 DEF PlanInstall, Files, Game, ContentTypes, Installing
<1>3. CASE DismissPlan \/ RefuseInstall
  BY <1>0, <1>3 DEF DismissPlan, RefuseInstall, Files, Game, ContentTypes, Installing
<1>4. CASE EnterInstall
  <2>1. AuthorizedStalePath \in Slots \cup {NoSlot} BY DEF AuthorizedStalePath, ContentTypes, Plans
  <2>2. plan' \in Plans /\ plan'.at = "entered" BY <1>4, <2>1 DEF EnterInstall, ContentTypes, Plans
  <2> QED BY <1>4, <2>2 DEF EnterInstall, Files, Game, ContentTypes, Installing
<1>5. CASE BackUpReplaced
  <2>1. plan' \in Plans /\ plan'.at \in {"none", "copied"}
    BY <1>0, <1>5 DEF BackUpReplaced, ContentTypes, Plans
  <2>2. copies' \in [Jars -> Contents]
    <3>1. plan.owned => plan.item \in Slots BY <1>5 DEF BackUpReplaced, Reached, PlanFits
    <3>2. plan.owned => plan.item[1] \in Jars /\ shelf[plan.item] \in Contents
      BY <3>1, SlotFacts DEF ContentTypes, Shelves
    <3> QED BY <1>5, <3>2 DEF BackUpReplaced, ContentTypes
  <2> QED BY <1>5, <2>1, <2>2 DEF BackUpReplaced, Game, ContentTypes, Installing
<1>6. CASE BeginContent
  <2>1. shelf' \in Shelves /\ noted' \in Indexes BY <1>6, ShelfTypes DEF BeginContent
  <2> DEFINE index == [n \in Jars |->
                     CASE n = Destination[1] -> plan.release
                       [] n # Destination[1] /\ plan.stale # NoSlot /\ n = plan.stale[1] -> 0
                       [] OTHER -> noted'[n]]
  <2>2. index \in Indexes BY <2>1 DEF Indexes, ContentTypes, Plans
  <2>3. plan' = [plan EXCEPT !.at = "staged", !.before = shelf', !.late = contentJournal.open, !.index = index]
    BY <1>6 DEF BeginContent
  <2>4. contentJournal.open \in BOOLEAN BY DEF ContentTypes, Journals
  <2> HIDE DEF index
  <2>5. plan' \in Plans /\ plan'.index = index BY <2>1, <2>2, <2>3, <2>4 DEF ContentTypes, Plans
  <2>6. contentJournal' \in Journals BY <1>6 DEF BeginContent, NoUndo, Journals
  <2>7. loadedJars' \subseteq Slots BY <1>6 DEF BeginContent, ContentTypes
  <2> QED BY <1>6, <2>1, <2>2, <2>5, <2>6, <2>7 DEF BeginContent, ContentTypes
<1>7. CASE ActivateJar
  <2>1. Destination \in Slots BY <1>7, DestinationSlot DEF ActivateJar, Reached, PlanFits
  <2>2. contentJournal' \in Journals BY <1>7, <2>1, JournalledTypes DEF ActivateJar
  <2>3. shelf' \in Shelves
    <3>1. plan.release \in Contents
      BY <1>0, <1>7 DEF ActivateJar, Reached, PlanFits, Contents
    <3> QED BY <1>7, <2>1, <3>1 DEF ActivateJar, ContentTypes, Shelves
  <2>4. plan' \in Plans /\ plan'.index = plan.index /\ plan.index \in Indexes
    BY <1>7 DEF ActivateJar, Reached, Installing, ContentTypes, Plans
  <2> QED BY <1>7, <2>2, <2>3, <2>4 DEF ActivateJar, Game, ContentTypes
<1>8. CASE ActivateIndex
  <2>1. plan.index \in Indexes BY <1>8 DEF ActivateIndex, Reached, Installing, ContentTypes
  <2>2. contentJournal' \in Journals BY <1>8 DEF ActivateIndex, ContentTypes, Journals
  <2>3. plan' \in Plans /\ plan'.index = plan.index BY <1>8 DEF ActivateIndex, ContentTypes, Plans
  <2> QED BY <1>8, <2>1, <2>2, <2>3 DEF ActivateIndex, Game, ContentTypes
<1>9. CASE RemoveStale
  <2>1. plan' \in Plans /\ plan'.index = plan.index /\ plan.index \in Indexes
    BY <1>9 DEF RemoveStale, Reached, Installing, ContentTypes, Plans
  <2>2. CASE plan.stale = NoSlot
    BY <1>9, <2>1, <2>2 DEF RemoveStale, Game, ContentTypes
  <2>3. CASE plan.stale # NoSlot
    <3>1. plan.stale \in Slots BY <2>3 DEF ContentTypes, Plans
    <3>2. contentJournal' \in Journals BY <1>9, <2>3, <3>1, JournalledTypes DEF RemoveStale
    <3>3. shelf' \in Shelves BY <1>9, <2>3, <3>1 DEF RemoveStale, ContentTypes, Shelves, Contents
    <3> QED BY <1>9, <2>1, <3>2, <3>3 DEF RemoveStale, Game, ContentTypes
  <2> QED BY <2>2, <2>3
<1>10. CASE CompleteContent BY <1>0, <1>10 DEF CompleteContent, Files, Game, ContentTypes, Installing
<1>11. CASE ContentFails
  BY <1>0, <1>11, ShelfTypes DEF ContentFails, Game, ContentTypes, Installing
<1>12. CASE LauncherDies
  BY <1>0, <1>12 DEF LauncherDies, Files, Game, ContentTypes, Installing
<1>13. ASSUME NEW s \in Slots, ToggleMod(s) \/ CreateBackup(s) \/ RestoreBackup(s) \/ DeleteMod(s) \/ CopyIn(s)
       PROVE  ContentTypes'
  <2>1. UNCHANGED <<plan, contentJournal, published, inGame, loadedJars, noted>> /\ events' \in 0..MaxJarEvents
    BY <1>0, <1>13 DEF ToggleMod, CreateBackup, RestoreBackup, DeleteMod, CopyIn, Mutates, Game
  <2>2. s[1] \in Jars /\ <<s[1], ~s[2]>> \in Slots /\ shelf[s] \in Contents /\ copies[s[1]] \in Contents
    BY SlotFacts DEF ContentTypes, Shelves
  <2>3. shelf' \in Shelves
    BY <1>13, <2>2 DEF ToggleMod, CreateBackup, RestoreBackup, DeleteMod, CopyIn, ContentTypes, Shelves, Contents
  <2>4. copies' \in [Jars -> Contents]
    BY <1>13, <2>2 DEF ToggleMod, CreateBackup, RestoreBackup, DeleteMod, CopyIn, ContentTypes
  <2> QED BY <2>1, <2>3, <2>4 DEF ContentTypes, Installing
<1>14. CASE Play \/ StopPlaying
  BY <1>14 DEF Play, StopPlaying, Files, ContentTypes, Installing
<1> QED BY <1>1, <1>2, <1>3, <1>4, <1>5, <1>6, <1>7, <1>8, <1>9, <1>10, <1>11, <1>12, <1>13, <1>14
    DEF ContentNext

\* From its entry on a plan keeps what it was made for.
LEMMA PlanGoesOn ==
    ASSUME ContentTypes, BeginContent \/ ActivateJar \/ ActivateIndex \/ RemoveStale
    PROVE  /\ plan' \in Plans /\ UNCHANGED <<published, copies, inGame>>
           /\ plan'.release = plan.release /\ plan'.item = plan.item /\ plan'.owned = plan.owned
           /\ plan'.stale = plan.stale /\ Destination' = Destination
           /\ ~BeginContent => /\ plan'.before = plan.before /\ plan'.index = plan.index
                               /\ plan'.late = plan.late /\ UNCHANGED loadedJars
<1>1. CASE ActivateJar \/ ActivateIndex \/ RemoveStale
  <2>1. PICK at \in {"placed", "indexed", "applied"} : plan' = [plan EXCEPT !.at = at]
    BY <1>1 DEF ActivateJar, ActivateIndex, RemoveStale
  <2>2. /\ plan' \in Plans /\ plan'.release = plan.release /\ plan'.item = plan.item /\ plan'.owned = plan.owned
        /\ plan'.stale = plan.stale /\ plan'.before = plan.before /\ plan'.index = plan.index
        /\ plan'.late = plan.late
    BY <2>1 DEF ContentTypes, Plans
  <2>3. UNCHANGED <<published, copies, inGame, loadedJars>>
    BY <1>1 DEF ActivateJar, ActivateIndex, RemoveStale, Game
  <2> QED BY <2>2, <2>3 DEF Destination
<1>2. CASE BeginContent
  <2> DEFINE index == [n \in Jars |->
                     CASE n = Destination[1] -> plan.release
                       [] n # Destination[1] /\ plan.stale # NoSlot /\ n = plan.stale[1] -> 0
                       [] OTHER -> noted'[n]]
  <2>1. shelf' \in Shelves /\ noted' \in Indexes BY <1>2, ShelfTypes DEF BeginContent
  <2>2. index \in Indexes BY <2>1 DEF Indexes, ContentTypes, Plans
  <2>3. plan' = [plan EXCEPT !.at = "staged", !.before = shelf', !.late = contentJournal.open, !.index = index]
    BY <1>2 DEF BeginContent
  <2>4. contentJournal.open \in BOOLEAN BY DEF ContentTypes, Journals
  <2> HIDE DEF index
  <2>5. /\ plan' \in Plans /\ plan'.release = plan.release /\ plan'.item = plan.item
        /\ plan'.owned = plan.owned /\ plan'.stale = plan.stale
    BY <2>1, <2>2, <2>3, <2>4 DEF ContentTypes, Plans
  <2> QED BY <1>2, <1>1, <2>5 DEF BeginContent, Destination
<1> QED BY <1>1, <1>2

\* What BeginContent writes into the plan.
LEMMA Begun ==
    ASSUME ContentTypes, PlanFits, BeginContent
    PROVE  /\ plan'.at = "staged" /\ plan'.before = ShelfBefore /\ shelf' = ShelfBefore
           /\ plan'.late = contentJournal.open /\ plan'.index[Destination[1]] = plan.release
           /\ contentJournal'.open /\ contentJournal'.jars = <<>>
           /\ loadedJars' = {s \in loadedJars : shelf'[s] = shelf[s]}
           /\ Destination \in Slots /\ plan.at = "copied" /\ UNCHANGED copies
<1> DEFINE index == [n \in Jars |->
                     CASE n = Destination[1] -> plan.release
                       [] n # Destination[1] /\ plan.stale # NoSlot /\ n = plan.stale[1] -> 0
                       [] OTHER -> noted'[n]]
<1>1. plan' = [plan EXCEPT !.at = "staged", !.before = shelf', !.late = contentJournal.open, !.index = index]
  BY DEF BeginContent
<1>2. Destination \in Slots /\ Destination[1] \in Jars /\ plan.at = "copied"
  BY DestinationSlot DEF BeginContent, Reached, PlanFits
<1>3. index[Destination[1]] = plan.release BY <1>2
<1> HIDE DEF index
<1>4. plan'.at = "staged" /\ plan'.before = shelf' /\ plan'.late = contentJournal.open /\ plan'.index = index
  BY <1>1 DEF ContentTypes, Plans
<1>5. contentJournal'.open /\ contentJournal'.jars = <<>> BY DEF BeginContent, NoUndo
<1>6. /\ shelf' = ShelfBefore /\ UNCHANGED copies
      /\ loadedJars' = {s \in loadedJars : shelf'[s] = shelf[s]}
  BY DEF BeginContent
<1> QED BY <1>2, <1>3, <1>4, <1>5, <1>6

\* The steps that end an installation, or are none of it.
LEMMA NoneIsNothing == NoPlan.at = "none" /\ ~NoUndo.open /\ NoUndo.jars = <<>>
  BY DEF NoPlan, NoUndo

LEMMA UserSteps ==
    ASSUME ContentTypes, NEW s \in Slots,
           ToggleMod(s) \/ CreateBackup(s) \/ RestoreBackup(s) \/ DeleteMod(s) \/ CopyIn(s)
    PROVE  ~Leased /\ ~inGame /\ UNCHANGED <<plan, contentJournal, published, inGame, loadedJars, noted>>
  BY DEF ToggleMod, CreateBackup, RestoreBackup, DeleteMod, CopyIn, Mutates, Game

LEMMA PlanStaysFit == ASSUME ContentTypes, PlanFits, [ContentNext]_contentVars PROVE PlanFits'
<1>0. UNCHANGED <<published, plan>> => PlanFits' BY DEF PlanFits, Destination
<1>1. UNCHANGED contentVars => PlanFits' BY <1>0 DEF contentVars
<1>2. ASSUME NEW r \in DOMAIN published, PlanInstall(r) PROVE PlanFits'
  <2> DEFINE item == MatchProject.item
             owned == MatchProject.owned
  <2>1. owned => item \in Slots BY Matched
  <2>2. plan' = [NoPlan EXCEPT !.at = "shown", !.release = r, !.item = item, !.owned = owned]
        /\ UNCHANGED published
    BY <1>2 DEF PlanInstall, Game
  <2> HIDE DEF item, owned
  <2>3. plan'.release = r /\ plan'.item = item /\ plan'.owned = owned /\ plan'.stale = NoSlot
    BY <2>2 DEF NoPlan
  <2> QED BY <2>1, <2>2, <2>3 DEF PlanFits
<1>3. CASE plan' = NoPlan BY <1>3, NoneIsNothing DEF PlanFits
<1>4. CASE EnterInstall
  <2>1. /\ plan'.release = plan.release /\ plan'.item = plan.item /\ plan'.owned = plan.owned
        /\ plan'.stale = AuthorizedStalePath /\ plan.at = "shown" /\ UNCHANGED published
    BY <1>4 DEF EnterInstall, Reached, Game, ContentTypes, Plans
  <2>2. Destination' = Destination BY <2>1 DEF Destination
  <2> QED BY <2>1, <2>2 DEF PlanFits, AuthorizedStalePath
<1>5. CASE BackUpReplaced /\ plan' # NoPlan
  <2>1. /\ plan'.release = plan.release /\ plan'.item = plan.item /\ plan'.owned = plan.owned
        /\ plan'.stale = plan.stale /\ plan.at = "entered" /\ UNCHANGED published
    BY <1>5 DEF BackUpReplaced, Reached, Game, ContentTypes, Plans
  <2>2. Destination' = Destination BY <2>1 DEF Destination
  <2> QED BY <2>1, <2>2 DEF PlanFits
<1>6. CASE BeginContent \/ ActivateJar \/ ActivateIndex \/ RemoveStale
  <2>1. plan.at # "none" BY <1>6 DEF BeginContent, ActivateJar, ActivateIndex, RemoveStale, Reached
  <2> QED BY <1>6, <2>1, PlanGoesOn DEF PlanFits
<1>7. ASSUME NEW s \in Slots, ToggleMod(s) \/ CreateBackup(s) \/ RestoreBackup(s) \/ DeleteMod(s) \/ CopyIn(s)
      PROVE  PlanFits'
  BY <1>0, <1>7, UserSteps
<1>8. CASE Play \/ StopPlaying BY <1>0, <1>8 DEF Play, StopPlaying
<1> QED BY <1>1, <1>2, <1>3, <1>4, <1>5, <1>6, <1>7, <1>8
    DEF ContentNext, DismissPlan, RefuseInstall, CompleteContent, ContentFails, LauncherDies

\* An action either is a step of the installation under the lease, or leaves none under way.
LEMMA OtherSteps ==
    ASSUME ContentTypes, [ContentNext]_contentVars
    PROVE  \/ UNCHANGED contentVars
           \/ BeginContent \/ ActivateJar \/ ActivateIndex \/ RemoveStale
           \/ EnterInstall \/ StopPlaying
           \/ BackUpReplaced /\ plan' # NoPlan
           \/ /\ ~Leased'
              /\ \/ UNCHANGED <<contentJournal>>
                 \/ contentJournal' = NoUndo
              /\ \/ plan' = NoPlan /\ UNCHANGED <<inGame, loadedJars>>
                 \/ ~Leased
<1>0. \A p : p = NoPlan => p.at = "none" BY NoneIsNothing
<1>1. CASE \E r \in DOMAIN published : PlanInstall(r)
  <2>1. plan'.at = "shown" /\ UNCHANGED contentJournal /\ plan.at = "none"
    BY <1>1 DEF PlanInstall, NoPlan, Reached
  <2> QED BY <2>1 DEF Leased
<1>2. CASE DismissPlan \/ RefuseInstall
  BY <1>0, <1>2 DEF DismissPlan, RefuseInstall, Leased, Game
<1>3. CASE CompleteContent \/ ContentFails \/ LauncherDies
  BY <1>0, <1>3 DEF CompleteContent, ContentFails, LauncherDies, Leased, Game
<1>4. CASE BackUpReplaced /\ plan' = NoPlan BY <1>0, <1>4 DEF BackUpReplaced, Leased, Game
<1>5. ASSUME NEW s \in Slots, ToggleMod(s) \/ CreateBackup(s) \/ RestoreBackup(s) \/ DeleteMod(s) \/ CopyIn(s)
      PROVE  ~Leased /\ ~Leased' /\ UNCHANGED contentJournal
  BY <1>5, UserSteps DEF Leased
<1>6. CASE Play
  BY <1>6 DEF Play, Leased
<1> QED BY <1>1, <1>2, <1>3, <1>4, <1>5, <1>6 DEF ContentNext

LEMMA JournalStillUndoes ==
    ASSUME ContentTypes, PlanFits, JournalUndoes, [ContentNext]_contentVars PROVE JournalUndoes'
<1>1. CASE UNCHANGED <<published, shelf, contentJournal, plan>>
  BY <1>1 DEF JournalUndoes, Installing, ShelfBefore, Destination
<1>2. CASE ~Leased' /\ (contentJournal' = NoUndo \/ UNCHANGED contentJournal)
  BY <1>2, NoneIsNothing DEF JournalUndoes, Leased, Installing
<1>3. CASE EnterInstall \/ (BackUpReplaced /\ plan' # NoPlan)
  <2>1. plan'.at \in {"entered", "copied"} /\ UNCHANGED contentJournal
    BY <1>3 DEF EnterInstall, BackUpReplaced, ContentTypes, Plans
  <2> QED BY <2>1 DEF JournalUndoes, Installing
<1>4. CASE BeginContent
  <2>1. ShelfBefore' = shelf'
    <3>1. shelf' \in Shelves /\ DOMAIN contentJournal'.jars = {}
      BY <1>4, Begun, ShelfTypes, NothingReplaced
    <3> QED BY <3>1 DEF ShelfBefore, Shelves
  <2> QED BY <1>4, <2>1, Begun, NothingReplaced DEF JournalUndoes, Installing
<1>5. CASE ActivateJar \/ (RemoveStale /\ plan.stale # NoSlot)
  <2> DEFINE slot == IF plan.at = "staged" THEN Destination ELSE plan.stale
  <2>1. /\ plan.at \in {"staged", "indexed"} /\ Installing /\ plan'.at \in {"placed", "applied"}
        /\ plan'.at = "placed" <=> plan.at = "staged"
    BY <1>5 DEF ActivateJar, RemoveStale, Reached, Installing, ContentTypes, Plans
  <2>2. slot \in Slots /\ contentJournal' = Journalled(slot) /\ \A s \in Slots : s # slot => shelf'[s] = shelf[s]
    BY <1>5, DestinationSlot
       DEF ActivateJar, RemoveStale, Reached, PlanFits, ContentTypes, Plans, Shelves
  <2>3. slot \notin DOMAIN contentJournal.jars
    BY <2>1, <2>2, <1>5 DEF JournalUndoes, PlanFits, ActivateJar, RemoveStale, Reached
  <2>4. /\ contentJournal'.open /\ DOMAIN contentJournal'.jars = DOMAIN contentJournal.jars \cup {slot}
        /\ \A t \in DOMAIN contentJournal'.jars :
              contentJournal'.jars[t] = IF t = slot THEN shelf[slot] ELSE contentJournal.jars[t]
    BY <2>1, <2>2, JournalledTypes DEF JournalUndoes
  <2>5. ShelfBefore' = ShelfBefore
    <3>1. \A s \in Slots : (IF s \in DOMAIN contentJournal'.jars THEN contentJournal'.jars[s] ELSE shelf'[s])
                         = (IF s \in DOMAIN contentJournal.jars THEN contentJournal.jars[s] ELSE shelf[s])
      BY <2>2, <2>3, <2>4
    <3> HIDE DEF slot
    <3> QED BY <3>1 DEF ShelfBefore
  <2>6. plan'.before = plan.before /\ plan'.stale = plan.stale /\ Destination' = Destination
    BY <1>5, PlanGoesOn DEF ActivateJar, RemoveStale, BeginContent, Reached
  <2> QED BY <2>1, <2>4, <2>5, <2>6 DEF JournalUndoes
<1>6. CASE ActivateIndex \/ (RemoveStale /\ plan.stale = NoSlot)
  <2>1. /\ plan.at \in {"placed", "indexed"} /\ Installing /\ plan'.at \in {"indexed", "applied"}
        /\ contentJournal'.open = contentJournal.open /\ contentJournal'.jars = contentJournal.jars
        /\ UNCHANGED shelf
    BY <1>6 DEF ActivateIndex, RemoveStale, Reached, Installing, ContentTypes, Plans, Journals
  <2>2. plan'.before = plan.before /\ plan'.stale = plan.stale /\ Destination' = Destination
    BY <1>6, PlanGoesOn DEF ActivateIndex, RemoveStale, BeginContent, Reached
  <2>3. ShelfBefore' = ShelfBefore BY <2>1 DEF ShelfBefore
  <2> QED BY <2>1, <2>2, <2>3 DEF JournalUndoes
<1>7. CASE StopPlaying BY <1>1, <1>7 DEF StopPlaying, Files
<1>8. CASE UNCHANGED contentVars BY <1>1, <1>8 DEF contentVars
<1> QED BY <1>2, <1>3, <1>4, <1>5, <1>6, <1>7, <1>8, OtherSteps

LEMMA PlanStaysDone ==
    ASSUME ContentTypes, PlanFits, PlanIsDone, [ContentNext]_contentVars PROVE PlanIsDone'
<1>1. CASE UNCHANGED <<published, shelf, noted, plan>>
  BY <1>1 DEF PlanIsDone, Placed, Installing, Destination
<1>2. CASE ~Leased' BY <1>2 DEF PlanIsDone, Leased, Placed, Installing
<1>3. CASE EnterInstall \/ (BackUpReplaced /\ plan' # NoPlan)
  <2>1. plan'.at \in {"entered", "copied"}
    BY <1>3 DEF EnterInstall, BackUpReplaced, ContentTypes, Plans
  <2> QED BY <2>1 DEF PlanIsDone, Placed, Installing
<1>4. CASE BeginContent BY <1>4, Begun, PlanGoesOn DEF PlanIsDone, Placed, Installing
<1>5. CASE ActivateJar
  <2>1. /\ Destination \in Slots /\ Installing /\ plan'.at = "placed"
        /\ shelf' = [shelf EXCEPT ![Destination] = plan.release]
    BY <1>5, DestinationSlot DEF ActivateJar, Reached, PlanFits, Installing, ContentTypes, Plans
  <2>2. shelf'[Destination] = plan.release BY <2>1 DEF ContentTypes, Shelves
  <2>3. plan'.index = plan.index /\ plan'.release = plan.release /\ Destination' = Destination
    BY <1>5, PlanGoesOn DEF ActivateJar, BeginContent, Reached
  <2> QED BY <2>1, <2>2, <2>3 DEF PlanIsDone, Placed, Installing
<1>6. CASE ActivateIndex \/ RemoveStale
  <2>1. /\ Placed /\ Installing /\ plan'.at \in {"indexed", "applied"}
        /\ plan.at = "indexed" => UNCHANGED noted
        /\ plan.at = "placed" => noted' = plan.index
        /\ plan.at \in {"placed", "indexed"}
    BY <1>6 DEF ActivateIndex, RemoveStale, Reached, Placed, Installing, ContentTypes, Plans
  <2>2. /\ plan'.index = plan.index /\ plan'.release = plan.release /\ Destination' = Destination
    BY <1>6, PlanGoesOn DEF ActivateIndex, RemoveStale, BeginContent, Reached
  <2>3. shelf'[Destination] = shelf[Destination]
    <3>1. UNCHANGED shelf \/ (plan.stale # NoSlot /\ shelf' = [shelf EXCEPT ![plan.stale] = NoJar])
      BY <1>6 DEF ActivateIndex, RemoveStale
    <3>2. Destination \in Slots /\ (plan.stale # NoSlot => plan.stale # Destination)
      BY <2>1, DestinationSlot DEF PlanFits
    <3> QED BY <3>1, <3>2 DEF ContentTypes, Shelves
  <2> QED BY <2>1, <2>2, <2>3 DEF PlanIsDone, Placed, Installing
<1>7. CASE StopPlaying BY <1>1, <1>7 DEF StopPlaying, Files
<1>8. CASE UNCHANGED contentVars BY <1>1, <1>8 DEF contentVars
<1> QED BY <1>2, <1>3, <1>4, <1>5, <1>6, <1>7, <1>8, OtherSteps

LEMMA StaysBackedUp ==
    ASSUME ContentTypes, PlanFits, JournalUndoes, BackedUp, [ContentNext]_contentVars PROVE BackedUp'
<1>1. CASE UNCHANGED <<published, shelf, copies, plan>> BY <1>1 DEF BackedUp, Installing
<1>2. CASE ~Leased' BY <1>2 DEF BackedUp, Leased, Installing
<1>3. CASE EnterInstall
  <2>1. plan'.at = "entered" BY <1>3 DEF EnterInstall, ContentTypes, Plans
  <2> QED BY <2>1 DEF BackedUp, Installing
<1>4. CASE BackUpReplaced /\ plan' # NoPlan
  <2>1. /\ plan'.at = "copied" /\ plan'.item = plan.item /\ plan'.owned = plan.owned /\ UNCHANGED shelf
        /\ plan.owned => copies' = [copies EXCEPT ![plan.item[1]] = shelf[plan.item]] /\ plan.item \in Slots
    BY <1>4 DEF BackUpReplaced, ContentTypes, Plans, PlanFits, Reached
  <2>2. plan.owned => copies'[plan.item[1]] = shelf[plan.item]
    BY <2>1, SlotFacts DEF ContentTypes
  <2> QED BY <2>1, <2>2 DEF BackedUp, Installing
<1>5. CASE BeginContent
  <2>1. /\ plan.at = "copied" /\ plan'.at = "staged" /\ plan'.before = ShelfBefore
        /\ plan'.late = contentJournal.open /\ plan'.item = plan.item /\ plan'.owned = plan.owned
        /\ UNCHANGED copies
    BY <1>5, Begun, PlanGoesOn
  <2>2. plan.owned => plan.item \in Slots BY <2>1 DEF PlanFits
  <2>3. ~contentJournal.open /\ plan.owned => ShelfBefore[plan.item] = shelf[plan.item]
    BY <2>2, ShelfTypes, NothingReplaced DEF JournalUndoes
  <2> QED BY <2>1, <2>2, <2>3 DEF BackedUp, Installing
<1>6. CASE ActivateJar \/ ActivateIndex \/ RemoveStale
  <2>1. /\ Installing /\ plan'.at # "copied" /\ ~BeginContent
    BY <1>6 DEF ActivateJar, ActivateIndex, RemoveStale, BeginContent, Reached, Installing, ContentTypes, Plans
  <2> QED BY <1>6, <2>1, PlanGoesOn DEF BackedUp
<1>7. CASE StopPlaying BY <1>1, <1>7 DEF StopPlaying, Files
<1>8. CASE UNCHANGED contentVars BY <1>1, <1>8 DEF contentVars
<1> QED BY <1>2, <1>3, <1>4, <1>5, <1>6, <1>7, <1>8, OtherSteps

\* An installation changes no jar the game has loaded; a late one takes those
\* it undoes from what the game is known to have.
LEMMA LoadedAreLeft ==
    ASSUME ContentInv, [ContentNext]_contentVars, Leased, NEW s \in loadedJars,
           BeginContent => ~contentJournal.open
    PROVE  shelf'[s] = shelf[s]
<1> USE DEF ContentInv
<1>0. s \in Slots BY DEF ContentTypes
<1>1. CASE BeginContent
  <2>1. s \notin DOMAIN contentJournal.jars BY <1>1, NothingReplaced DEF JournalUndoes
  <2> QED BY <1>0, <1>1, <2>1, Begun, ShelfTypes
<1>2. CASE ActivateJar
  <2>1. s # Destination BY DEF GameKeeps
  <2> QED BY <1>0, <1>2, <2>1 DEF ActivateJar, ContentTypes, Shelves
<1>3. CASE RemoveStale
  <2>1. plan.stale = NoSlot BY DEF GameKeeps
  <2> QED BY <1>3, <2>1 DEF RemoveStale
<1>4. CASE ContentFails
  <2>1. Installing /\ shelf' = ShelfBefore BY <1>4 DEF ContentFails, Installing
  <2>2. s # Destination /\ plan.stale = NoSlot BY DEF GameKeeps
  <2>3. s \notin DOMAIN contentJournal.jars BY <1>0, <2>1, <2>2, SlotFacts DEF JournalUndoes
  <2> QED BY <1>0, <2>1, <2>3, ShelfTypes
<1>5. ASSUME NEW t \in Slots, ToggleMod(t) \/ CreateBackup(t) \/ RestoreBackup(t) \/ DeleteMod(t) \/ CopyIn(t)
      PROVE  FALSE
  BY <1>5, UserSteps
<1>6. CASE UNCHANGED shelf BY <1>6
<1> QED BY <1>1, <1>2, <1>3, <1>4, <1>5, <1>6
    DEF ContentNext, contentVars, PlanInstall, DismissPlan, EnterInstall, RefuseInstall, BackUpReplaced,
        ActivateIndex, CompleteContent, LauncherDies, Play, StopPlaying, Files

LEMMA GameStaysKept ==
    ASSUME ContentInv, [ContentNext]_contentVars PROVE GameKeeps'
<1> USE DEF ContentInv
<1>1. CASE UNCHANGED <<published, shelf, inGame, loadedJars, plan>>
  BY <1>1 DEF GameKeeps, Leased, Destination
<1>2. CASE StopPlaying \/ Play
  <2>1. UNCHANGED <<published, shelf, plan>>
    BY <1>2 DEF StopPlaying, Play, Files
  <2>2. CASE StopPlaying BY <2>1, <2>2 DEF GameKeeps, StopPlaying, Leased, Destination
  <2>3. CASE Play BY <2>1, <2>3 DEF GameKeeps, Play, Leased
  <2> QED BY <1>2, <2>2, <2>3
<1>3. CASE EnterInstall
  <2>1. /\ plan.at = "shown" /\ MayInstallLive /\ plan'.release = plan.release /\ plan'.stale = AuthorizedStalePath
        /\ UNCHANGED <<published, shelf, inGame, loadedJars>>
    BY <1>3 DEF EnterInstall, Reached, Files, Game, ContentTypes, Plans
  <2>2. Destination' = Destination BY <2>1 DEF Destination
  <2>3. loadedJars # {} => Destination \notin loadedJars /\ AuthorizedStalePath = NoSlot
    BY <2>1 DEF GameKeeps, MayInstallLive, AuthorizedStalePath
  <2> QED BY <2>1, <2>2, <2>3 DEF GameKeeps
<1>4. CASE BackUpReplaced /\ plan' # NoPlan
  <2>1. /\ plan.at = "entered" /\ plan'.release = plan.release /\ plan'.stale = plan.stale
        /\ UNCHANGED <<published, shelf, inGame, loadedJars>>
    BY <1>4 DEF BackUpReplaced, Reached, Game, ContentTypes, Plans
  <2>2. Destination' = Destination BY <2>1 DEF Destination
  <2> QED BY <2>1, <2>2 DEF GameKeeps, Leased
<1>5. CASE BeginContent \/ ActivateJar \/ ActivateIndex \/ RemoveStale
  <2>1. Leased BY <1>5 DEF BeginContent, ActivateJar, ActivateIndex, RemoveStale, Reached, Leased
  <2>2. /\ Destination' = Destination /\ plan'.stale = plan.stale /\ UNCHANGED inGame
        /\ ~BeginContent => UNCHANGED loadedJars
    BY <1>5, PlanGoesOn
  <2>3. loadedJars' \subseteq loadedJars /\ \A s \in loadedJars' : shelf'[s] = shelf[s]
    <3>1. CASE BeginContent BY <3>1, Begun
    <3>2. CASE ~BeginContent BY <2>1, <2>2, <3>2, LoadedAreLeft
    <3> QED BY <3>1, <3>2
  <2> QED BY <2>1, <2>2, <2>3 DEF GameKeeps
<1>6. CASE ~Leased' /\ plan' = NoPlan /\ UNCHANGED <<inGame, loadedJars>>
  <2>1. \A s \in loadedJars : shelf'[s] = shelf[s]
    <3>1. CASE Leased
      <4>1. ~BeginContent BY <1>6, Begun, NoneIsNothing
      <4> QED BY <3>1, <4>1, LoadedAreLeft
    <3>2. CASE UNCHANGED shelf BY <3>2
    <3>3. CASE ~Leased /\ shelf' # shelf
      <4>1. PICK s \in Slots : ToggleMod(s) \/ RestoreBackup(s) \/ DeleteMod(s) \/ CopyIn(s) \/ CreateBackup(s)
        BY <3>3 DEF ContentNext, contentVars, PlanInstall, DismissPlan, EnterInstall, RefuseInstall, BackUpReplaced,
             BeginContent, ActivateJar, ActivateIndex, RemoveStale, CompleteContent, ContentFails, LauncherDies,
             Play, StopPlaying, Files, Leased, Reached
      <4>2. loadedJars = {} BY <4>1, UserSteps DEF GameKeeps
      <4> QED BY <4>2
    <3> QED BY <3>1, <3>2, <3>3
  <2> QED BY <1>6, <2>1 DEF GameKeeps
<1>7. CASE ~Leased /\ ~Leased' /\ ~Play /\ ~StopPlaying
  <2>1. CASE UNCHANGED <<shelf, inGame, loadedJars>> BY <1>7, <2>1 DEF GameKeeps
  <2>2. ASSUME NEW s \in Slots, ToggleMod(s) \/ CreateBackup(s) \/ RestoreBackup(s) \/ DeleteMod(s) \/ CopyIn(s)
        PROVE  GameKeeps'
    BY <1>7, <2>2, UserSteps DEF GameKeeps
  <2> QED BY <1>7, <2>1, <2>2
      DEF ContentNext, contentVars, PlanInstall, DismissPlan, EnterInstall, RefuseInstall, BackUpReplaced,
          BeginContent, ActivateJar, ActivateIndex, RemoveStale, CompleteContent, ContentFails, LauncherDies,
          Files, Game, Leased, Reached
<1>8. CASE UNCHANGED contentVars BY <1>1, <1>8 DEF contentVars
<1> QED BY <1>2, <1>3, <1>4, <1>5, <1>6, <1>7, <1>8, OtherSteps

LEMMA ContentInvInit == ContentInit => ContentInv
<1> SUFFICES ASSUME ContentInit PROVE ContentInv OBVIOUS
<1>1. ContentTypes BY ContentTypesInit
<1>2. plan.at = "none" /\ ~contentJournal.open /\ contentJournal.jars = <<>> /\ loadedJars = {}
  BY NoneIsNothing DEF ContentInit
<1>3. ~Installing /\ ~Placed /\ ~Leased BY <1>2 DEF Installing, Placed, Leased
<1> QED BY <1>1, <1>2, <1>3
    DEF ContentInv, PlanFits, JournalUndoes, PlanIsDone, BackedUp, GameKeeps

LEMMA ContentInvKept == ContentInv /\ [ContentNext]_contentVars => ContentInv'
<1> SUFFICES ASSUME ContentInv, [ContentNext]_contentVars PROVE ContentInv' OBVIOUS
<1>1. ContentTypes' /\ PlanFits' BY ContentTypesKept, PlanStaysFit DEF ContentInv
<1>2. JournalUndoes' /\ PlanIsDone' BY JournalStillUndoes, PlanStaysDone DEF ContentInv
<1>3. BackedUp' BY StaysBackedUp DEF ContentInv
<1>4. GameKeeps' BY GameStaysKept
<1> QED BY <1>1, <1>2, <1>3, <1>4 DEF ContentInv

\* An installation that ends is as planned.
LEMMA EndedIsProven ==
    ASSUME ContentInv, CompleteContent, ~plan.late
    PROVE  /\ shelf[Destination] = plan.release /\ noted[Destination[1]] = plan.release
           /\ Proven
<1> USE DEF ContentInv
<1>1. plan.at = "applied" /\ Installing /\ Placed
  BY DEF CompleteContent, Reached, Installing, Placed
<1>2. shelf[Destination] = plan.release /\ noted[Destination[1]] = plan.release
  BY <1>1 DEF PlanIsDone
<1>3. ASSUME NEW s \in Slots \ {Destination}, shelf[s] # plan.before[s]
      PROVE  s = plan.item /\ plan.owned /\ copies[s[1]] = plan.before[s]
  <2>1. s \in DOMAIN contentJournal.jars BY <1>1, <1>3, ShelfTypes DEF JournalUndoes
  <2>2. s = plan.stale BY <1>1, <1>3, <2>1 DEF JournalUndoes
  <2>3. s = plan.item /\ plan.owned BY <1>1, <1>3, <2>2, SlotFacts DEF PlanFits
  <2> QED BY <1>1, <2>3 DEF BackedUp
<1> QED BY <1>2, <1>3 DEF Proven

\* Every variable has its type, and only a running game has jars loaded.
THEOREM ContentTypeCorrect == ContentSpec => []ContentTypeOK
<1>1. ContentInv => ContentTypeOK
  BY DEF ContentInv, ContentTypes, GameKeeps, ContentTypeOK, Shelves, Indexes, Plans
<1> QED BY <1>1, ContentInvInit, ContentInvKept, PTL DEF ContentSpec

\* However the user's doings, deaths and failures come in between, an
\* installation that ends has its release in place and in the index and took
\* away only what was proven and is backed up; one that fails changes nothing;
\* and no jar that a game has loaded is changed (modrinth_content_install.py).
THEOREM ModsStayKept == ContentSpec => ModsAreKept
<1>1. ContentInv /\ [ContentNext]_contentVars =>
        [CompleteContent /\ ~plan.late =>
            /\ shelf[Destination] = plan.release /\ noted[Destination[1]] = plan.release
            /\ Proven]_contentVars
  BY EndedIsProven
<1>2. ContentInv /\ [ContentNext]_contentVars => [ContentFails => shelf' = plan.before]_contentVars
  <2> SUFFICES ASSUME ContentInv, ContentFails PROVE shelf' = plan.before OBVIOUS
  <2>1. Installing /\ shelf' = ShelfBefore BY DEF ContentFails, Installing
  <2> QED BY <2>1 DEF ContentInv, JournalUndoes
<1>3. ContentInv /\ [ContentNext]_contentVars =>
        [Leased /\ ~(Reached("copied") /\ contentJournal.open) =>
            \A s \in loadedJars : shelf'[s] = shelf[s]]_contentVars
  <2> SUFFICES ASSUME ContentInv, [ContentNext]_contentVars, Leased, ~(Reached("copied") /\ contentJournal.open),
                      NEW s \in loadedJars
               PROVE  shelf'[s] = shelf[s]
    OBVIOUS
  <2>1. BeginContent => ~contentJournal.open BY DEF BeginContent
  <2> QED BY <2>1, LoadedAreLeft
<1> QED BY <1>1, <1>2, <1>3, ContentInvInit, ContentInvKept, PTL DEF ContentSpec, ModsAreKept

-----------------------------------------------------------------------------
(* TensaCraft synchronization *)

\* What the files of an instance may hold.
FileContents ==
    {NoFile, OwnFile} \cup
    UNION {UNION {{h[i].files[p] : p \in DOMAIN h[i].files} : i \in DOMAIN h} : h \in Histories}
FileTrees == [Paths -> FileContents]
Syncs ==
    [at : {"idle", "asking", "resolved", "skipped", "planned", "merged", "staged", "applying",
           "committing", "committed", "installed", "done", "failed"},
     kind : {"install", "sync"}, payload : Nat, manifest : Nat, recovered : BOOLEAN,
     replace : SUBSET Paths, stale : SUBSET Paths, todo : SUBSET Paths,
     before : FileTrees \cup {<<>>}]

Working == sync.at \in {"staged", "applying", "committing", "committed"}
Planned == sync.at \in {"planned", "merged"} \/ Working
AllTouched == sync.replace \cup sync.stale
NewContent(p) == IF p \in sync.replace THEN Manifest.files[p] ELSE NoFile

SyncTypes ==
    /\ history \in Histories /\ release \in DOMAIN history
    /\ local \in FileTrees
    /\ sync \in Syncs /\ sync.payload \in DOMAIN history /\ sync.manifest \in DOMAIN history
    /\ syncJournal = [status |-> syncJournal.status, key |-> syncJournal.key,
                      undo |-> syncJournal.undo]
    /\ syncJournal.status \in {"settled", "staging", "applying", "committing"}
    /\ DOMAIN syncJournal.undo \subseteq Paths
    /\ \A p \in DOMAIN syncJournal.undo : syncJournal.undo[p] \in FileContents
    /\ mishaps \in 0..MaxSyncMishaps

\* A plan replaces what differs from the release and removes what is not of it.
SyncPlanFits ==
    /\ sync.at \in {"asking", "resolved"} => sync.before = <<>>
    /\ Planned => sync.replace \subseteq DOMAIN Manifest.files
    /\ Planned /\ sync.kind = "sync" =>
         /\ sync.replace \subseteq Expected(Manifest)
         /\ \A p \in Expected(Manifest) \ sync.replace : sync.before[p] = Manifest.files[p]
         /\ sync.stale = {p \in Below(ManagedDirectories(Manifest)) :
               sync.before[p] # NoFile /\ p \notin Rules \cup Expected(Manifest)}

\* The files are those before the plan, but for the ones it has placed, and the
\* journal has exactly these as they were.
UndoIsComplete ==
    /\ sync.at \in {"planned", "merged"} =>
          /\ sync.kind = "sync" => syncJournal.status \in {"settled", "committing"}
          /\ sync.kind = "sync" \/ sync.before # <<>> => \A p \in Paths : local[p] = sync.before[p]
    /\ Working =>
          /\ sync.todo \subseteq AllTouched
          /\ DOMAIN syncJournal.undo = AllTouched \ sync.todo
          /\ \A p \in AllTouched \ sync.todo : syncJournal.undo[p] = sync.before[p]
          /\ \A p \in Paths : local[p] = IF p \in AllTouched \ sync.todo THEN NewContent(p)
                                         ELSE sync.before[p]
    /\ sync.at \in {"committing", "committed"} => sync.todo = {} /\ sync.kind = "sync"
    /\ Is("installed") => sync.kind = "install"
    /\ Is("asking") => ~sync.recovered
    /\ Is("resolved") /\ sync.recovered => syncJournal.status \in {"settled", "committing"}

VersionFits ==
    sync.at \in {"merged", "staged", "applying", "committing", "committed"} =>
       version.runs = history[sync.payload].runs

\* What a synchronization leaves, when it ends well and when it fails.
RightOrUndone == SyncedRight /\ FailureUndone

SyncInv == SyncTypes /\ SyncPlanFits /\ UndoIsComplete /\ VersionFits /\ RightOrUndone

-----------------------------------------------------------------------------
\* A release's files are files of the instance, and so is what it manages.
LEMMA ReleaseFiles ==
    ASSUME NEW h \in Histories, NEW i \in DOMAIN h
    PROVE  /\ DOMAIN h[i].files \subseteq Paths
           /\ \A p \in DOMAIN h[i].files : h[i].files[p] \in FileContents
           /\ Expected(h[i]) \subseteq DOMAIN h[i].files
           /\ Below(ManagedDirectories(h[i])) \subseteq Paths
<1>1. DOMAIN h[i].files \subseteq Paths /\ h[i].mode \in {"manifest", "metadata", "plain"}
      /\ h[i].scopes \subseteq DOMAIN Under
  BY PackSyncAssumption
<1>2. ASSUME NEW p \in DOMAIN h[i].files PROVE h[i].files[p] \in FileContents
  BY DEF FileContents
<1>3. Expected(h[i]) \subseteq DOMAIN h[i].files
  <2>1. CASE h[i].mode = "manifest" BY <2>1 DEF Expected
  <2>2. CASE h[i].mode = "metadata" BY <2>2 DEF Expected
  <2>3. CASE h[i].mode = "plain" BY <2>3 DEF Expected
  <2> QED BY <1>1, <2>1, <2>2, <2>3
<1>4. InferLockedScopes(h[i]) \subseteq DOMAIN Under
  BY <1>1, PackSyncAssumption DEF InferLockedScopes
<1>5. ManagedDirectories(h[i]) \subseteq DOMAIN Under
  BY <1>1, <1>4 DEF ManagedDirectories
<1>6. Below(ManagedDirectories(h[i])) \subseteq Paths
  BY <1>5, PackSyncAssumption DEF Below
<1> QED BY <1>1, <1>2, <1>3, <1>6

\* Once all a plan names is placed, the files are as the release has them.
LEMMA PlacedIsRight ==
    ASSUME SyncTypes, SyncPlanFits, Planned, sync.kind = "sync",
           \A p \in Paths : local[p] = IF p \in AllTouched THEN NewContent(p) ELSE sync.before[p]
    PROVE  /\ \A p \in Expected(Manifest) : local[p] = Manifest.files[p]
           /\ \A p \in Below(ManagedDirectories(Manifest)) \ Expected(Manifest) :
                IF p \in Rules THEN ~Moved(p) ELSE local[p] = NoFile
           /\ \A p \in Paths \ (Expected(Manifest) \cup Below(ManagedDirectories(Manifest))) :
                ~Moved(p)
<1> DEFINE m == Manifest
<1>1. Expected(m) \subseteq Paths /\ Below(ManagedDirectories(m)) \subseteq Paths
  BY ReleaseFiles DEF SyncTypes, Manifest
<1> HIDE DEF m
<1> USE DEF SyncPlanFits, AllTouched, NewContent
<1>2. \A p \in Expected(m) : local[p] = m.files[p] BY <1>1 DEF m
<1>3. ASSUME NEW p \in Below(ManagedDirectories(m)) \ Expected(m)
      PROVE  IF p \in Rules THEN ~Moved(p) ELSE local[p] = NoFile
  BY <1>1, <1>3 DEF m, Moved
<1>4. ASSUME NEW p \in Paths \ (Expected(m) \cup Below(ManagedDirectories(m)))
      PROVE  ~Moved(p)
  BY <1>1, <1>4 DEF m, Moved
<1> QED BY <1>2, <1>3, <1>4 DEF m

\* An undo puts every file back.
LEMMA UndoneIsBefore ==
    ASSUME SyncTypes, UndoIsComplete, Working
    PROVE  \A p \in Paths : Undone[p] = sync.before[p]
BY DEF SyncTypes, UndoIsComplete, Undone

LEMMA UndoneIsATree ==
    ASSUME SyncTypes PROVE Undone \in FileTrees
BY DEF SyncTypes, Undone, FileTrees

LEMMA NoSyncIsASync == NoSync \in Syncs /\ NoSync.payload = 1 /\ NoSync.manifest = 1
BY DEF NoSync, Syncs

LEMMA FirstRelease == ASSUME NEW h \in Histories PROVE 1 \in DOMAIN h /\ DOMAIN h \subseteq Nat
BY PackSyncAssumption

\* The journal that is closed, opened or taken a step further is a journal.
LEMMA SettledJournal ==
    ASSUME SyncTypes, syncJournal' = ClosedJournal
    PROVE  /\ syncJournal' = [status |-> syncJournal'.status, key |-> syncJournal'.key,
                              undo |-> syncJournal'.undo]
           /\ syncJournal'.status = "settled" /\ DOMAIN syncJournal'.undo = {}
<1>1. DOMAIN <<>> = {} OBVIOUS
<1> QED BY <1>1 DEF ClosedJournal

LEMMA SyncTypesStep == ASSUME SyncTypes, SyncPlanFits, PackSyncNext PROVE SyncTypes'
<1> USE DEF Goes, Still, Is, Resting, Mishap
<1> DEFINE Rest == syncJournal' = syncJournal /\ local' = local
           Kept == history' = history /\ release' = release
           Shape == syncJournal' = [status |-> syncJournal'.status, key |-> syncJournal'.key,
                                    undo |-> syncJournal'.undo]
           Undoes == \A p \in DOMAIN syncJournal'.undo :
                        p \in Paths /\ syncJournal'.undo[p] \in FileContents
<1>0. history \in Histories /\ release \in DOMAIN history /\ release \in Nat
      /\ sync.payload \in Nat /\ sync.manifest \in Nat /\ 1 \in DOMAIN history
  BY FirstRelease DEF SyncTypes
<1>1. ASSUME Kept, local' \in FileTrees, sync' \in Syncs, sync'.payload \in DOMAIN history,
             sync'.manifest \in DOMAIN history, mishaps' \in 0..MaxSyncMishaps,
             Shape, Undoes,
             syncJournal'.status \in {"settled", "staging", "applying", "committing"}
      PROVE  SyncTypes'
  BY <1>0, <1>1 DEF SyncTypes
<1>2. ASSUME Mishap PROVE mishaps' \in 0..MaxSyncMishaps
  BY <1>2, PackSyncAssumption DEF SyncTypes
<1>3. syncJournal' = syncJournal => /\ Shape /\ Undoes
           /\ syncJournal'.status \in {"settled", "staging", "applying", "committing"}
  BY DEF SyncTypes
<1>4. syncJournal' = ClosedJournal => /\ Shape /\ Undoes
           /\ syncJournal'.status \in {"settled", "staging", "applying", "committing"}
  BY SettledJournal DEF SyncTypes
<1>5. mishaps' = mishaps => mishaps' \in 0..MaxSyncMishaps BY DEF SyncTypes
<1>6. local' = local => local' \in FileTrees BY DEF SyncTypes
<1>7. local' = Undone => local' \in FileTrees BY UndoneIsATree
<1>8. ASSUME NEW s \in {"asking", "resolved", "skipped", "planned", "merged", "staged", "applying",
                        "committing", "committed", "installed", "done", "failed"}, Goes(s)
      PROVE  sync' \in Syncs /\ sync'.payload \in DOMAIN history /\ sync'.manifest \in DOMAIN history
  BY <1>8 DEF SyncTypes, Syncs
<1>9. sync' = NoSync => sync' \in Syncs /\ sync'.payload \in DOMAIN history
                        /\ sync'.manifest \in DOMAIN history
  BY <1>0, NoSyncIsASync
<1> HIDE DEF Shape, Undoes, Goes, Mishap
<1>a. CASE StartPackInstall
  <2>1. sync' \in Syncs /\ sync'.payload = 1 /\ sync'.manifest = 1
    BY <1>a, NoSyncIsASync DEF StartPackInstall, Syncs
  <2> QED BY <1>a, <1>0, <1>1, <1>3, <1>5, <1>6, <2>1 DEF StartPackInstall
<1>b. CASE StartSync
  <2>1. sync' \in Syncs /\ sync'.payload = 1 /\ sync'.manifest = 1
    BY <1>b, NoSyncIsASync DEF StartSync, Syncs
  <2> QED BY <1>b, <1>0, <1>1, <1>3, <1>5, <1>6, <2>1 DEF StartSync
<1>c. CASE FindVersionPayload
  <2>1. sync' \in Syncs /\ sync'.payload = release /\ sync'.manifest = sync.manifest
    BY <1>c, <1>0 DEF FindVersionPayload, SyncTypes, Syncs
  <2> QED BY <1>c, <1>0, <1>1, <1>3, <1>5, <1>6, <2>1 DEF FindVersionPayload, SyncTypes
<1>d. CASE ApiUnavailable
  BY <1>d, <1>1, <1>2, <1>3, <1>6, <1>8 DEF ApiUnavailable
<1>e. CASE RecoverFirst
  <2>1. sync' \in Syncs /\ sync'.payload = sync.payload /\ sync'.manifest = sync.manifest
    BY <1>e DEF RecoverFirst, SyncTypes, Syncs
  <2>2. local' \in FileTrees BY <1>e, <1>6, <1>7 DEF RecoverFirst, RollBack
  <2>3. Shape /\ Undoes /\ syncJournal'.status \in {"settled", "staging", "applying", "committing"}
    BY <1>e, <1>3, <1>4 DEF RecoverFirst, RollBack
  <2> QED BY <1>e, <1>1, <1>5, <2>1, <2>2, <2>3 DEF RecoverFirst, SyncTypes
<1>f. CASE PreparePlan
  <2> DEFINE m == history[release]
             tasks == DownloadTasks(m, sync.recovered)
             kept == Preserved(history[sync.payload], m)
             gone == CollectStale(m, kept)
  <2>1. tasks \subseteq Paths /\ gone \subseteq Paths
    BY <1>0, ReleaseFiles DEF DownloadTasks, CollectStale
  <2>2. sync' = [sync EXCEPT !.at = "planned", !.manifest = release, !.before = local,
                             !.replace = tasks, !.stale = gone]
    BY <1>f DEF PreparePlan
  <2> HIDE DEF tasks, gone, kept
  <2>3. sync' \in Syncs /\ sync'.payload = sync.payload /\ sync'.manifest = release
    BY <1>0, <2>1, <2>2 DEF SyncTypes, Syncs
  <2> QED BY <1>f, <1>0, <1>1, <1>3, <1>5, <1>6, <2>3 DEF PreparePlan, SyncTypes
<1>g. CASE PrepareInstall
  <2> DEFINE files == DOMAIN history[release].files
  <2>1. files \subseteq Paths
    BY <1>0, ReleaseFiles
  <2>2. sync' = [sync EXCEPT !.at = "planned", !.manifest = release, !.replace = files]
    BY <1>g DEF PrepareInstall
  <2> HIDE DEF files
  <2>3. sync' \in Syncs /\ sync'.payload = sync.payload /\ sync'.manifest = release
    BY <1>0, <2>1, <2>2 DEF SyncTypes, Syncs
  <2> QED BY <1>g, <1>0, <1>1, <1>3, <1>5, <1>6, <2>3 DEF PrepareInstall, SyncTypes
<1>h. CASE LoaderFails
  BY <1>h, <1>1, <1>2, <1>3, <1>6, <1>8 DEF LoaderFails, Fails
<1>i. CASE MergeSyncPayload
  <2>1. Goes("merged") \/ Goes("done") BY <1>i DEF MergeSyncPayload
  <2> QED BY <1>i, <1>1, <1>3, <1>5, <1>6, <1>8, <2>1 DEF MergeSyncPayload
<1>j. CASE BeginTransaction
  <2>1. local' \in FileTrees BY <1>j, <1>6, <1>7 DEF BeginTransaction
  <2>2. syncJournal' = [status |-> "staging", key |-> version, undo |-> <<>>]
    BY <1>j DEF BeginTransaction
  <2>3. DOMAIN <<>> = {} OBVIOUS
  <2>4. Shape /\ Undoes /\ syncJournal'.status \in {"settled", "staging", "applying", "committing"}
    BY <2>2, <2>3 DEF Shape, Undoes
  <2> DEFINE all == sync.replace \cup sync.stale
  <2>5. all \subseteq Paths BY DEF SyncTypes, Syncs
  <2>6. sync' = [sync EXCEPT !.at = "staged", !.todo = all, !.before = local']
    BY <1>j DEF BeginTransaction
  <2> HIDE DEF all
  <2>7. sync' \in Syncs /\ sync'.payload = sync.payload /\ sync'.manifest = sync.manifest
    BY <2>1, <2>5, <2>6 DEF SyncTypes, Syncs
  <2> QED BY <1>j, <1>1, <1>5, <2>1, <2>4, <2>7 DEF BeginTransaction, SyncTypes
<1>k. CASE CommitRefused
  BY <1>k, <1>1, <1>3, <1>5, <1>6, <1>8 DEF CommitRefused, Fails
<1>l. CASE StageFails
  BY <1>l, <1>1, <1>2, <1>4, <1>7, <1>8 DEF StageFails, Fails, RollBack
<1>m. CASE StartActivation
  <2>1. Shape /\ Undoes /\ syncJournal'.status = "applying"
    BY <1>m DEF StartActivation, SyncTypes, Shape, Undoes
  <2> QED BY <1>m, <1>1, <1>5, <1>6, <1>8, <2>1 DEF StartActivation
<1>o. CASE BeginCommit
  <2>1. Shape /\ Undoes /\ syncJournal'.status = "committing"
    BY <1>o DEF BeginCommit, SyncTypes, Shape, Undoes
  <2> QED BY <1>o, <1>1, <1>5, <1>6, <1>8, <2>1 DEF BeginCommit
<1>p. CASE CommitProfile
  BY <1>p, <1>1, <1>3, <1>5, <1>6, <1>8 DEF CommitProfile
<1>q. CASE CommitFails
  BY <1>q, <1>1, <1>2, <1>4, <1>7, <1>8 DEF CommitFails, Fails, RollBack
<1>r. CASE Complete
  BY <1>r, <1>1, <1>4, <1>5, <1>6, <1>8 DEF Complete
<1>s. CASE CompleteInstall
  BY <1>s, <1>1, <1>4, <1>5, <1>6, <1>8 DEF CompleteInstall
<1>t. CASE SaveInstalled
  BY <1>t, <1>1, <1>3, <1>5, <1>6, <1>8 DEF SaveInstalled
<1>u. CASE SyncDies
  BY <1>u, <1>1, <1>2, <1>3, <1>6, <1>9 DEF SyncDies
<1>v. ASSUME NEW p \in Paths, EditFile(p) PROVE SyncTypes'
  <2>1. local' \in FileTrees
    BY <1>v DEF EditFile, SyncTypes, FileTrees, FileContents
  <2> QED BY <1>v, <1>1, <1>2, <1>3, <1>9, <2>1 DEF EditFile
<1>w. CASE EditOption
  BY <1>w, <1>1, <1>2, <1>3, <1>6, <1>9 DEF EditOption
<1>x. CASE Publish
  <2>1. release + 1 \in DOMAIN history
    BY <1>x, <1>0, PackSyncAssumption DEF Publish
  <2> QED BY <1>x, <2>1 DEF Publish, SyncTypes
<1> DEFINE placed(p) == IF p \in sync.replace THEN Manifest.files[p] ELSE NoFile
<1>n. ASSUME NEW p \in Paths, ActivateFile(p)
      PROVE SyncTypes'
  <2>0. sync.replace \subseteq DOMAIN Manifest.files
    BY <1>n DEF ActivateFile, SyncPlanFits, Planned, Working
  <2>1. placed(p) \in FileContents
    BY <1>n, <1>0, <2>0, ReleaseFiles DEF Manifest, SyncTypes, FileContents
  <2>2. local' = [local EXCEPT ![p] = placed(p)]
    BY <1>n DEF ActivateFile, Manifest
  <2> HIDE DEF placed
  <2>3. local' \in FileTrees BY <2>1, <2>2 DEF SyncTypes, FileTrees
  <2> DEFINE back == [q \in DOMAIN syncJournal.undo \cup {p} |->
                        IF q = p THEN local[p] ELSE syncJournal.undo[q]]
  <2>4. \A q \in DOMAIN back : q \in Paths /\ back[q] \in FileContents
    BY DEF SyncTypes, FileTrees
  <2>5. syncJournal' = [syncJournal EXCEPT !.undo = back]
    BY <1>n DEF ActivateFile
  <2> HIDE DEF back
  <2>6. Shape /\ syncJournal'.undo = back /\ syncJournal'.status = syncJournal.status
    BY <2>5 DEF SyncTypes, Shape
  <2>7. Undoes BY <2>4, <2>6 DEF Undoes
  <2> DEFINE rest == sync.todo \ {p}
  <2>8. rest \subseteq Paths BY DEF SyncTypes, Syncs
  <2>9. sync' = [sync EXCEPT !.todo = rest] BY <1>n DEF ActivateFile
  <2> HIDE DEF rest
  <2>10. sync' \in Syncs /\ sync'.payload = sync.payload /\ sync'.manifest = sync.manifest
    BY <2>8, <2>9 DEF SyncTypes, Syncs
  <2> QED BY <1>n, <1>1, <1>5, <2>3, <2>6, <2>7, <2>10 DEF ActivateFile, SyncTypes
<1> QED BY <1>a, <1>b, <1>c, <1>d, <1>e, <1>f, <1>g, <1>h, <1>i, <1>j, <1>k, <1>l, <1>m, <1>n, <1>o,
           <1>p, <1>q, <1>r, <1>s, <1>t, <1>u, <1>v, <1>w, <1>x DEF PackSyncNext

\* Nothing that a plan depends on changes while its synchronization is at work.
LEMMA PlanStays ==
    ASSUME SyncTypes, SyncPlanFits, history' = history, sync'.payload = sync.payload,
           sync'.manifest = sync.manifest, sync'.kind = sync.kind, sync'.replace = sync.replace,
           sync'.stale = sync.stale, Planned,
           sync.kind = "sync" => \A p \in Paths : sync'.before[p] = sync.before[p],
           sync'.at \notin {"asking", "resolved"}
    PROVE  SyncPlanFits'
<1> DEFINE m == Manifest
<1>1. Expected(m) \subseteq Paths /\ Below(ManagedDirectories(m)) \subseteq Paths
  BY ReleaseFiles DEF SyncTypes, Manifest
<1>2. Manifest' = Manifest /\ Rules' = Rules BY DEF Manifest, Rules
<1> QED BY <1>1, <1>2 DEF SyncPlanFits

LEMMA SyncPlanStep ==
    ASSUME SyncTypes, SyncTypes', SyncPlanFits, UndoIsComplete, PackSyncNext
    PROVE  SyncPlanFits'
<1> USE DEF Still, Is
<1>1. ASSUME sync'.at \notin {"asking", "resolved"}, ~Planned' PROVE SyncPlanFits'
  BY <1>1 DEF SyncPlanFits
<1>2. ASSUME sync'.at \in {"asking", "resolved"}, sync'.before = <<>> PROVE SyncPlanFits'
  BY <1>2 DEF SyncPlanFits, Planned, Working
<1>3. ASSUME NEW s \in {"asking", "resolved", "skipped", "planned", "merged", "staged", "applying",
                        "committing", "committed", "installed", "done", "failed"}, Goes(s)
      PROVE  /\ sync'.at = s /\ sync'.manifest = sync.manifest /\ sync'.kind = sync.kind
             /\ sync'.replace = sync.replace /\ sync'.stale = sync.stale
             /\ sync'.before = sync.before /\ sync'.payload = sync.payload
  BY <1>3 DEF Goes, SyncTypes, Syncs
<1>4. ASSUME NEW s \in {"merged", "applying", "committing", "committed"}, Goes(s), Planned,
             history' = history
      PROVE  SyncPlanFits'
  BY <1>3, <1>4, PlanStays
<1>5. ASSUME NEW s \in {"skipped", "installed", "done", "failed"}, Goes(s)
      PROVE  SyncPlanFits'
  BY <1>1, <1>3, <1>5 DEF Planned, Working
<1>6. ASSUME sync' = NoSync PROVE SyncPlanFits'
  BY <1>1, <1>6 DEF NoSync, Planned, Working
<1>a. CASE StartPackInstall
  BY <1>a, <1>2 DEF StartPackInstall, NoSync
<1>b. CASE StartSync
  BY <1>b, <1>2 DEF StartSync, NoSync
<1>c. CASE FindVersionPayload
  BY <1>c, <1>2 DEF FindVersionPayload, SyncTypes, Syncs, SyncPlanFits
<1>d. CASE ApiUnavailable
  BY <1>d, <1>5 DEF ApiUnavailable
<1>e. CASE RecoverFirst
  BY <1>e, <1>2 DEF RecoverFirst, SyncTypes, Syncs, SyncPlanFits
<1>f. CASE PreparePlan
  <2> DEFINE m == history[release]
             tasks == DownloadTasks(m, sync.recovered)
             kept == Preserved(history[sync.payload], m)
             gone == CollectStale(m, kept)
  <2>1. /\ tasks \subseteq Expected(m)
        /\ \A p \in Expected(m) \ tasks : local[p] = m.files[p]
        /\ gone = {p \in Below(ManagedDirectories(m)) :
                     local[p] # NoFile /\ p \notin kept \cup Expected(m)}
    BY DEF DownloadTasks, CollectStale
  <2>2. Expected(m) \subseteq DOMAIN m.files
    BY ReleaseFiles DEF SyncTypes
  <2>3. sync' = [sync EXCEPT !.at = "planned", !.manifest = release, !.before = local,
                             !.replace = tasks, !.stale = gone]
    BY <1>f DEF PreparePlan
  <2> HIDE DEF tasks, gone
  <2>4. /\ sync'.at = "planned" /\ sync'.manifest = release /\ sync'.before = local
        /\ sync'.payload = sync.payload /\ sync'.replace = tasks /\ sync'.stale = gone
    BY <2>3 DEF SyncTypes, Syncs
  <2>5. Manifest' = m BY <1>f, <2>4 DEF Manifest, PreparePlan
  <2>6. Rules' = kept BY <1>f, <2>4, <2>5 DEF Rules, PreparePlan
  <2> HIDE DEF m, kept
  <2> QED BY <2>1, <2>2, <2>4, <2>5, <2>6 DEF SyncPlanFits
<1>g. CASE PrepareInstall
  <2> DEFINE files == DOMAIN history[release].files
  <2>1. sync' = [sync EXCEPT !.at = "planned", !.manifest = release, !.replace = files]
    BY <1>g DEF PrepareInstall
  <2> HIDE DEF files
  <2>2. sync'.at = "planned" /\ sync'.manifest = release /\ sync'.replace = files
        /\ sync'.kind = "install"
    BY <1>g, <2>1 DEF PrepareInstall, SyncTypes, Syncs
  <2>3. DOMAIN Manifest'.files = files BY <1>g, <2>2 DEF Manifest, PrepareInstall, files
  <2> QED BY <2>2, <2>3 DEF SyncPlanFits
<1>h. CASE LoaderFails
  BY <1>h, <1>5 DEF LoaderFails, Fails
<1>i. CASE MergeSyncPayload
  <2>1. (Goes("merged") \/ Goes("done")) /\ Planned /\ history' = history
    BY <1>i DEF MergeSyncPayload, Planned
  <2> QED BY <1>4, <1>5, <2>1
<1>j. CASE BeginTransaction
  <2> DEFINE all == sync.replace \cup sync.stale
  <2>1. sync' = [sync EXCEPT !.at = "staged", !.todo = all, !.before = local']
    BY <1>j DEF BeginTransaction
  <2> HIDE DEF all
  <2>2. /\ sync'.at = "staged" /\ sync'.manifest = sync.manifest /\ sync'.kind = sync.kind
        /\ sync'.replace = sync.replace /\ sync'.stale = sync.stale
        /\ sync'.before = local' /\ sync'.payload = sync.payload
    BY <2>1 DEF SyncTypes, Syncs
  <2>3. ASSUME sync.kind = "sync" PROVE \A p \in Paths : sync'.before[p] = sync.before[p]
    BY <1>j, <2>2, <2>3 DEF BeginTransaction, UndoIsComplete
  <2> QED BY <1>j, <2>2, <2>3, PlanStays DEF BeginTransaction, Planned
<1>k. CASE CommitRefused
  BY <1>k, <1>5 DEF CommitRefused, Fails
<1>l. CASE StageFails
  BY <1>l, <1>5 DEF StageFails, Fails
<1>m. CASE StartActivation
  BY <1>m, <1>4 DEF StartActivation, Planned, Working
<1>n. ASSUME NEW p \in Paths, ActivateFile(p) PROVE SyncPlanFits'
  <2> DEFINE rest == sync.todo \ {p}
  <2>1. sync' = [sync EXCEPT !.todo = rest] BY <1>n DEF ActivateFile
  <2> HIDE DEF rest
  <2>2. /\ sync'.at = sync.at /\ sync'.manifest = sync.manifest /\ sync'.kind = sync.kind
        /\ sync'.replace = sync.replace /\ sync'.stale = sync.stale
        /\ sync'.before = sync.before /\ sync'.payload = sync.payload
    BY <2>1 DEF SyncTypes, Syncs
  <2> QED BY <1>n, <2>2, PlanStays DEF ActivateFile, Planned, Working
<1>o. CASE BeginCommit
  BY <1>o, <1>4 DEF BeginCommit, Planned, Working
<1>p. CASE CommitProfile
  BY <1>p, <1>4 DEF CommitProfile, Planned, Working
<1>q. CASE CommitFails
  BY <1>q, <1>5 DEF CommitFails, Fails
<1>r. CASE Complete
  BY <1>r, <1>5 DEF Complete
<1>s. CASE CompleteInstall
  BY <1>s, <1>5 DEF CompleteInstall
<1>t. CASE SaveInstalled
  BY <1>t, <1>5 DEF SaveInstalled
<1>u. CASE SyncDies
  BY <1>u, <1>6 DEF SyncDies
<1>v. ASSUME NEW p \in Paths, EditFile(p) PROVE SyncPlanFits'
  BY <1>v, <1>6 DEF EditFile
<1>w. CASE EditOption
  BY <1>w, <1>6 DEF EditOption
<1>x. CASE Publish
  BY <1>x DEF Publish, SyncPlanFits, Planned, Working, Manifest, Rules
<1> QED BY <1>a, <1>b, <1>c, <1>d, <1>e, <1>f, <1>g, <1>h, <1>i, <1>j, <1>k, <1>l, <1>m, <1>n, <1>o,
           <1>p, <1>q, <1>r, <1>s, <1>t, <1>u, <1>v, <1>w, <1>x DEF PackSyncNext

LEMMA UndoStep ==
    ASSUME SyncTypes, SyncTypes', SyncPlanFits, UndoIsComplete, PackSyncNext
    PROVE  UndoIsComplete'
<1> USE DEF Still, Is
<1>1. ASSUME sync'.at \in {"idle", "asking", "skipped", "done", "failed"},
             sync'.at = "asking" => ~sync'.recovered
      PROVE  UndoIsComplete'
  BY <1>1 DEF UndoIsComplete, Working
<1>2. ASSUME sync'.at = "resolved",
             sync'.recovered => syncJournal'.status \in {"settled", "committing"}
      PROVE  UndoIsComplete'
  BY <1>2 DEF UndoIsComplete, Working
<1>3. ASSUME NEW s \in {"asking", "resolved", "skipped", "planned", "merged", "staged", "applying",
                        "committing", "committed", "installed", "done", "failed"}, Goes(s)
      PROVE  /\ sync'.at = s /\ sync'.manifest = sync.manifest /\ sync'.kind = sync.kind
             /\ sync'.replace = sync.replace /\ sync'.stale = sync.stale
             /\ sync'.todo = sync.todo /\ sync'.before = sync.before
  BY <1>3 DEF Goes, SyncTypes, Syncs
<1>4. ASSUME NEW s \in {"skipped", "done", "failed"}, Goes(s) PROVE UndoIsComplete'
  BY <1>1, <1>3, <1>4
<1>5. ASSUME sync' = NoSync PROVE UndoIsComplete'
  BY <1>1, <1>5 DEF NoSync
<1>6. ASSUME NEW s \in {"applying", "committing", "committed"}, Goes(s), Working,
             history' = history, local' = local, syncJournal'.undo = syncJournal.undo,
             s \in {"committing", "committed"} => sync.todo = {} /\ sync.kind = "sync"
      PROVE  UndoIsComplete'
  <2>1. AllTouched' = AllTouched /\ \A p \in Paths : NewContent(p)' = NewContent(p)
    BY <1>3, <1>6 DEF AllTouched, NewContent, Manifest
  <2>2. Working' BY <1>3, <1>6 DEF Working
  <2> QED BY <1>3, <1>6, <2>1, <2>2 DEF UndoIsComplete
<1>a. CASE StartPackInstall
  BY <1>a, <1>1 DEF StartPackInstall, NoSync
<1>b. CASE StartSync
  BY <1>b, <1>1 DEF StartSync, NoSync
<1>c. CASE FindVersionPayload
  <2>1. sync'.at = "resolved" /\ sync'.recovered = sync.recovered
    BY <1>c DEF FindVersionPayload, SyncTypes, Syncs
  <2>2. ~sync.recovered BY <1>c DEF FindVersionPayload, UndoIsComplete
  <2> QED BY <1>2, <2>1, <2>2
<1>d. CASE ApiUnavailable
  BY <1>d, <1>4 DEF ApiUnavailable
<1>e. CASE RecoverFirst
  <2>1. sync'.at = "resolved" BY <1>e DEF RecoverFirst, SyncTypes, Syncs
  <2>2. syncJournal'.status \in {"settled", "committing"}
    BY <1>e, SettledJournal DEF RecoverFirst, RollBack
  <2> QED BY <1>2, <2>1, <2>2
<1>f. CASE PreparePlan
  <2>1. sync'.at = "planned" /\ sync'.before = local
    BY <1>f DEF PreparePlan, SyncTypes, Syncs
  <2>2. syncJournal.status \in {"settled", "committing"}
    BY <1>f DEF PreparePlan, UndoIsComplete, Recovered
  <2> QED BY <1>f, <2>1, <2>2 DEF PreparePlan, UndoIsComplete, Working
<1>g. CASE PrepareInstall
  <2>1. sync'.at = "planned" /\ sync'.kind = "install" /\ sync'.before = sync.before
    BY <1>g DEF PrepareInstall, SyncTypes, Syncs
  <2>2. sync.before = <<>> BY <1>g DEF PrepareInstall, SyncPlanFits
  <2> QED BY <2>1, <2>2 DEF UndoIsComplete, Working
<1>h. CASE LoaderFails
  BY <1>h, <1>4 DEF LoaderFails, Fails
<1>i. CASE MergeSyncPayload
  <2>1. CASE Goes("done") BY <1>4, <2>1
  <2>2. CASE Goes("merged")
    BY <1>i, <1>3, <2>2 DEF MergeSyncPayload, UndoIsComplete, Working
  <2> QED BY <1>i, <2>1, <2>2 DEF MergeSyncPayload
<1>j. CASE BeginTransaction
  <2> DEFINE all == sync.replace \cup sync.stale
  <2>1. sync' = [sync EXCEPT !.at = "staged", !.todo = all, !.before = local']
    BY <1>j DEF BeginTransaction
  <2> HIDE DEF all
  <2>2. /\ sync'.at = "staged" /\ sync'.replace = sync.replace /\ sync'.stale = sync.stale
        /\ sync'.before = local' /\ sync'.todo = all
    BY <2>1 DEF SyncTypes, Syncs
  <2>3. AllTouched' \ sync'.todo = {} BY <2>2 DEF AllTouched, all
  <2>a. sync'.todo \subseteq AllTouched' BY <2>2 DEF AllTouched, all
  <2>4. syncJournal'.undo = <<>> BY <1>j DEF BeginTransaction
  <2>5. DOMAIN <<>> = {} OBVIOUS
  <2> QED BY <2>2, <2>a, <2>3, <2>4, <2>5 DEF UndoIsComplete, Working
<1>k. CASE CommitRefused
  BY <1>k, <1>4 DEF CommitRefused, Fails
<1>l. CASE StageFails
  BY <1>l, <1>4 DEF StageFails, Fails
<1>m. CASE StartActivation
  <2>1. syncJournal'.undo = syncJournal.undo BY <1>m DEF StartActivation, SyncTypes
  <2> QED BY <1>m, <1>6, <2>1 DEF StartActivation, Working
<1>n. ASSUME NEW p \in Paths, ActivateFile(p) PROVE UndoIsComplete'
  <2> DEFINE rest == sync.todo \ {p}
  <2>1. sync' = [sync EXCEPT !.todo = rest] BY <1>n DEF ActivateFile
  <2> HIDE DEF rest
  <2>2. /\ sync'.at = "applying" /\ sync'.manifest = sync.manifest /\ sync'.kind = sync.kind
        /\ sync'.replace = sync.replace /\ sync'.stale = sync.stale
        /\ sync'.before = sync.before /\ sync'.todo = rest
    BY <1>n, <2>1 DEF SyncTypes, Syncs, ActivateFile
  <2> DEFINE back == [q \in DOMAIN syncJournal.undo \cup {p} |->
                        IF q = p THEN local[p] ELSE syncJournal.undo[q]]
  <2>3. /\ DOMAIN back = DOMAIN syncJournal.undo \cup {p}
        /\ back[p] = local[p] /\ \A q \in DOMAIN syncJournal.undo \ {p} : back[q] = syncJournal.undo[q]
    OBVIOUS
  <2>4. syncJournal' = [syncJournal EXCEPT !.undo = back]
    BY <1>n DEF ActivateFile
  <2> HIDE DEF back
  <2>5. syncJournal'.undo = back BY <2>4 DEF SyncTypes
  <2>6. AllTouched' = AllTouched /\ \A q \in Paths : NewContent(q)' = NewContent(q)
    BY <1>n, <2>2 DEF AllTouched, NewContent, Manifest, ActivateFile
  <2> DEFINE new == IF p \in sync.replace THEN history[sync.manifest].files[p] ELSE NoFile
  <2>7. new = NewContent(p) BY DEF NewContent, Manifest
  <2>8. local' = [local EXCEPT ![p] = new] BY <1>n DEF ActivateFile
  <2> HIDE DEF new
  <2>9. local'[p] = NewContent(p) /\ \A q \in Paths \ {p} : local'[q] = local[q]
    BY <2>7, <2>8 DEF SyncTypes, FileTrees
  <2>10. p \in sync.todo /\ Working BY <1>n DEF ActivateFile, Working
  <2>11. (AllTouched \ sync.todo) \cup ({p} \cap AllTouched) = AllTouched \ rest
    BY DEF rest
  <2>12. p \in AllTouched
    BY <1>n, <2>10 DEF ActivateFile, UndoIsComplete, AllTouched
  <2>13. AllTouched \ rest = (AllTouched \ sync.todo) \cup {p} BY <2>11, <2>12
  <2>14. local[p] = sync.before[p] BY <2>10 DEF UndoIsComplete
  <2>a. sync'.todo \subseteq AllTouched'
    BY <2>2, <2>6, <2>10 DEF UndoIsComplete, rest
  <2>15. DOMAIN syncJournal'.undo = AllTouched' \ sync'.todo
    BY <2>2, <2>3, <2>5, <2>6, <2>10, <2>13 DEF UndoIsComplete
  <2>16. ASSUME NEW q \in AllTouched' \ sync'.todo PROVE syncJournal'.undo[q] = sync'.before[q]
    BY <2>2, <2>3, <2>5, <2>6, <2>10, <2>13, <2>14, <2>16 DEF UndoIsComplete
  <2>17. ASSUME NEW q \in Paths
         PROVE  local'[q] = IF q \in AllTouched' \ sync'.todo THEN NewContent(q)' ELSE sync'.before[q]
    BY <2>2, <2>6, <2>9, <2>10, <2>13, <2>17 DEF UndoIsComplete
  <2> QED BY <2>2, <2>a, <2>15, <2>16, <2>17 DEF UndoIsComplete
<1>o. CASE BeginCommit
  <2>1. syncJournal'.undo = syncJournal.undo BY <1>o DEF BeginCommit, SyncTypes
  <2> QED BY <1>o, <1>6, <2>1 DEF BeginCommit, Working
<1>p. CASE CommitProfile
  BY <1>p, <1>6 DEF CommitProfile, Working, UndoIsComplete
<1>q. CASE CommitFails
  BY <1>q, <1>4 DEF CommitFails, Fails
<1>r. CASE Complete
  BY <1>r, <1>4 DEF Complete
<1>s. CASE CompleteInstall
  BY <1>s, <1>3 DEF CompleteInstall, UndoIsComplete, Working
<1>t. CASE SaveInstalled
  BY <1>t, <1>4 DEF SaveInstalled
<1>u. CASE SyncDies
  BY <1>u, <1>5 DEF SyncDies
<1>v. ASSUME NEW p \in Paths, EditFile(p) PROVE UndoIsComplete'
  BY <1>v, <1>5 DEF EditFile
<1>w. CASE EditOption
  BY <1>w, <1>5 DEF EditOption
<1>x. CASE Publish
  BY <1>x DEF Publish, UndoIsComplete, Working, AllTouched, NewContent, Manifest
<1> QED BY <1>a, <1>b, <1>c, <1>d, <1>e, <1>f, <1>g, <1>h, <1>i, <1>j, <1>k, <1>l, <1>m, <1>n, <1>o,
           <1>p, <1>q, <1>r, <1>s, <1>t, <1>u, <1>v, <1>w, <1>x DEF PackSyncNext

LEMMA VersionStep ==
    ASSUME SyncTypes, SyncTypes', UndoIsComplete, VersionFits, PackSyncNext
    PROVE  VersionFits'
<1> USE DEF Still, Is, Goes, VersionFits, NoSync
<1>a. CASE StartPackInstall \/ StartSync \/ FindVersionPayload \/ ApiUnavailable \/ RecoverFirst
           \/ PreparePlan \/ PrepareInstall
  BY <1>a DEF StartPackInstall, StartSync, FindVersionPayload, ApiUnavailable, RecoverFirst,
     PreparePlan, PrepareInstall, SyncTypes, Syncs
<1>b. CASE LoaderFails \/ CommitRefused \/ StageFails \/ CommitFails \/ SyncDies \/ EditOption
           \/ CompleteInstall \/ SaveInstalled \/ Complete \/ \E p \in Paths : EditFile(p)
  BY <1>b DEF LoaderFails, CommitRefused, StageFails, CommitFails, SyncDies, EditOption,
     CompleteInstall, SaveInstalled, Complete, EditFile, Fails, SyncTypes, Syncs
<1>c. CASE MergeSyncPayload
  <2>1. version'.runs = history[sync.payload].runs BY <1>c DEF MergeSyncPayload
  <2>2. sync'.payload = sync.payload BY <1>c DEF MergeSyncPayload, SyncTypes, Syncs
  <2> QED BY <1>c, <2>1, <2>2 DEF MergeSyncPayload
<1>d. CASE BeginTransaction
  BY <1>d DEF BeginTransaction, SyncTypes, Syncs
<1>e. CASE StartActivation \/ BeginCommit \/ CommitProfile
  BY <1>e DEF StartActivation, BeginCommit, CommitProfile, SyncTypes, Syncs
<1>f. CASE \E p \in Paths : ActivateFile(p)
  BY <1>f DEF ActivateFile, SyncTypes, Syncs
<1>g. CASE Publish
  BY <1>g DEF Publish
<1> QED BY <1>a, <1>b, <1>c, <1>d, <1>e, <1>f, <1>g DEF PackSyncNext

\* What has been placed once is right as long as nothing moves.
LEMMA RightStays ==
    ASSUME SyncTypes, RightOrUndone, history' = history, local' = local, sync' = sync,
           syncJournal' = syncJournal
    PROVE  RightOrUndone'
<1>1. Manifest' = Manifest /\ Rules' = Rules BY DEF Manifest, Rules
<1> QED BY <1>1 DEF RightOrUndone, SyncedRight, FailureUndone, Is, Moved, HasChanges

\* A synchronization is right where it ends well.
LEMMA DoneIsRight ==
    ASSUME SyncTypes, SyncPlanFits, Planned, sync.kind = "sync", history' = history,
           local' = local, Goes("done"), HasChanges => syncJournal'.status = "settled",
           \A p \in Paths : local[p] = IF p \in AllTouched THEN NewContent(p) ELSE sync.before[p]
    PROVE  RightOrUndone'
<1> DEFINE m == Manifest
           E == Expected(m)
           B == Below(ManagedDirectories(m))
<1>1. /\ \A p \in E : local[p] = m.files[p]
      /\ \A p \in B \ E : IF p \in Rules THEN local[p] = sync.before[p] ELSE local[p] = NoFile
      /\ \A p \in Paths \ (E \cup B) : local[p] = sync.before[p]
  BY PlacedIsRight DEF Moved
<1>2. /\ sync'.at = "done" /\ sync'.before = sync.before /\ sync'.manifest = sync.manifest
      /\ sync'.replace = sync.replace /\ sync'.stale = sync.stale
      /\ sync'.payload = sync.payload
  BY DEF Goes, SyncTypes, Syncs
<1>3. Manifest' = m /\ Rules' = Rules BY <1>2 DEF Manifest, Rules
<1> HIDE DEF m
<1> QED BY <1>1, <1>2, <1>3 DEF RightOrUndone, SyncedRight, FailureUndone, Is, Moved, HasChanges

\* One that fails leaves every file as it found it.
LEMMA FailedIsRight ==
    ASSUME SyncTypes, Goes("failed"),
           sync.before # <<>> => \A p \in Paths : local'[p] = sync.before[p]
    PROVE  RightOrUndone'
<1>1. sync'.at = "failed" /\ sync'.before = sync.before BY DEF Goes, SyncTypes, Syncs
<1> QED BY <1>1 DEF RightOrUndone, SyncedRight, FailureUndone, Is, Moved

LEMMA RightStep ==
    ASSUME SyncInv, SyncTypes', PackSyncNext
    PROVE  RightOrUndone'
<1> USE DEF Still, SyncInv
<1>1. ASSUME sync'.at \notin {"done", "failed"} PROVE RightOrUndone'
  BY <1>1 DEF RightOrUndone, SyncedRight, FailureUndone, Is
<1>2. ASSUME NEW s \in {"asking", "resolved", "skipped", "planned", "merged", "staged", "applying",
                        "committing", "committed", "installed", "done", "failed"}, Goes(s)
      PROVE  sync'.at = s /\ sync'.kind = sync.kind
  BY <1>2 DEF Goes, SyncTypes, Syncs
<1>3. ASSUME NEW s \in {"asking", "resolved", "skipped", "planned", "merged", "staged", "applying",
                        "committing", "committed", "installed"}, Goes(s)
      PROVE  RightOrUndone'
  BY <1>1, <1>2, <1>3
<1>4. ASSUME Goes("done"), sync.kind = "install" PROVE RightOrUndone'
  BY <1>2, <1>4 DEF RightOrUndone, SyncedRight, FailureUndone, Is
<1>5. ASSUME sync' = NoSync PROVE RightOrUndone'
  BY <1>1, <1>5 DEF NoSync
<1>a. CASE StartPackInstall
  BY <1>a, <1>1 DEF StartPackInstall, NoSync
<1>b. CASE StartSync
  BY <1>b, <1>1 DEF StartSync, NoSync
<1>c. CASE FindVersionPayload
  BY <1>c, <1>1 DEF FindVersionPayload, SyncTypes, Syncs
<1>d. CASE ApiUnavailable
  BY <1>d, <1>3 DEF ApiUnavailable
<1>e. CASE RecoverFirst
  BY <1>e, <1>1 DEF RecoverFirst, SyncTypes, Syncs, Is
<1>f. CASE PreparePlan
  BY <1>f, <1>1 DEF PreparePlan, SyncTypes, Syncs
<1>g. CASE PrepareInstall
  BY <1>g, <1>1 DEF PrepareInstall, SyncTypes, Syncs
<1>h. CASE LoaderFails
  BY <1>h, FailedIsRight DEF LoaderFails, Fails, Is, UndoIsComplete
<1>i. CASE MergeSyncPayload
  <2>1. CASE Goes("merged") BY <1>3, <2>1
  <2>2. CASE Goes("done") /\ ~HasChanges /\ sync.kind = "sync"
    <3>1. AllTouched = {} /\ Planned BY <1>i, <2>2 DEF HasChanges, AllTouched, MergeSyncPayload, Planned, Is
    <3>2. \A p \in Paths : local[p] = sync.before[p]
      BY <1>i, <2>2 DEF MergeSyncPayload, UndoIsComplete, Is
    <3> QED BY <1>i, <2>2, <3>1, <3>2, DoneIsRight DEF MergeSyncPayload
  <2> QED BY <1>i, <2>1, <2>2 DEF MergeSyncPayload, SyncTypes, Syncs
<1>j. CASE BeginTransaction
  BY <1>j, <1>1 DEF BeginTransaction, SyncTypes, Syncs
<1>k. CASE CommitRefused
  BY <1>k, FailedIsRight DEF CommitRefused, Fails, Is, UndoIsComplete
<1>l. CASE StageFails
  <2>1. \A p \in Paths : local'[p] = sync.before[p]
    BY <1>l, UndoneIsBefore DEF StageFails, RollBack, Working
  <2> QED BY <1>l, <2>1, FailedIsRight DEF StageFails, Fails
<1>m. CASE StartActivation
  BY <1>m, <1>3 DEF StartActivation
<1>n. ASSUME NEW p \in Paths, ActivateFile(p) PROVE RightOrUndone'
  BY <1>n, <1>1 DEF ActivateFile, SyncTypes, Syncs, Is
<1>o. CASE BeginCommit
  BY <1>o, <1>3 DEF BeginCommit
<1>p. CASE CommitProfile
  BY <1>p, <1>3 DEF CommitProfile
<1>q. CASE CommitFails
  <2>1. \A p \in Paths : local'[p] = sync.before[p]
    BY <1>q, UndoneIsBefore DEF CommitFails, RollBack, Working
  <2> QED BY <1>q, <2>1, FailedIsRight DEF CommitFails, Fails
<1>r. CASE Complete
  <2>1. sync.kind = "sync" /\ Planned /\ AllTouched \ sync.todo = AllTouched
    BY <1>r DEF Complete, Is, UndoIsComplete, Planned, Working
  <2>2. \A p \in Paths : local[p] = IF p \in AllTouched THEN NewContent(p) ELSE sync.before[p]
    BY <1>r, <2>1 DEF Complete, Is, UndoIsComplete, Working
  <2> QED BY <1>r, <2>1, <2>2, SettledJournal, DoneIsRight DEF Complete
<1>s. CASE CompleteInstall
  BY <1>s, <1>3 DEF CompleteInstall
<1>t. CASE SaveInstalled
  BY <1>t, <1>4 DEF SaveInstalled, UndoIsComplete
<1>u. CASE SyncDies
  BY <1>u, <1>5 DEF SyncDies
<1>v. ASSUME NEW p \in Paths, EditFile(p) PROVE RightOrUndone'
  BY <1>v, <1>5 DEF EditFile
<1>w. CASE EditOption
  BY <1>w, <1>5 DEF EditOption
<1>x. CASE Publish
  BY <1>x, RightStays DEF Publish
<1> QED BY <1>a, <1>b, <1>c, <1>d, <1>e, <1>f, <1>g, <1>h, <1>i, <1>j, <1>k, <1>l, <1>m, <1>n, <1>o,
           <1>p, <1>q, <1>r, <1>s, <1>t, <1>u, <1>v, <1>w, <1>x DEF PackSyncNext

LEMMA SyncInvInit == PackSyncInit => SyncInv
<1> SUFFICES ASSUME PackSyncInit PROVE SyncInv OBVIOUS
<1> USE DEF PackSyncInit
<1>1. history \in Histories /\ 1 \in DOMAIN history BY FirstRelease
<1>2. local \in FileTrees BY DEF FileTrees, FileContents
<1>3. sync \in Syncs /\ sync.payload = 1 /\ sync.manifest = 1 /\ sync.at = "idle"
  BY NoSyncIsASync DEF NoSync
<1>4. DOMAIN <<>> = {} OBVIOUS
<1>5. SyncTypes BY <1>1, <1>2, <1>3, <1>4, PackSyncAssumption DEF SyncTypes, ClosedJournal
<1> QED BY <1>3, <1>5 DEF SyncInv, SyncPlanFits, UndoIsComplete, VersionFits, RightOrUndone,
                          SyncedRight, FailureUndone, Is, Planned, Working

\* The invariant that keeps a synchronization right.
LEMMA SyncInvKept == PackSyncSpec => []SyncInv
<1>1. ASSUME SyncInv, PackSyncNext PROVE SyncInv'
  <2> USE DEF SyncInv
  <2>1. SyncTypes' BY <1>1, SyncTypesStep
  <2>2. SyncPlanFits' BY <1>1, <2>1, SyncPlanStep
  <2>3. UndoIsComplete' BY <1>1, <2>1, UndoStep
  <2>4. VersionFits' BY <1>1, <2>1, VersionStep
  <2>5. RightOrUndone' BY <1>1, <2>1, RightStep
  <2> QED BY <2>1, <2>2, <2>3, <2>4, <2>5
<1>2. SyncInv /\ UNCHANGED syncVars => SyncInv'
  BY DEF SyncInv, syncVars, SyncTypes, SyncPlanFits, UndoIsComplete, VersionFits, RightOrUndone,
         SyncedRight, FailureUndone, Is, Planned, Working, AllTouched, NewContent, Manifest, Rules, Moved, HasChanges
<1> QED BY SyncInvInit, <1>1, <1>2, PTL DEF PackSyncSpec

\* Every variable of a synchronization has its type.
THEOREM SyncTypeCorrect == PackSyncSpec => []PackSyncTypeOK
<1>1. SyncInv => PackSyncTypeOK
  BY DEF SyncInv, SyncTypes, PackSyncTypeOK, FileTrees, Syncs
<1> QED BY SyncInvKept, <1>1, PTL

\* A profile follows its files: one step of a synchronization.
LEMMA ProfileStep ==
    ASSUME SyncInv, PackSyncNext, savedProfile' # savedProfile, ~Resting, sync.kind = "sync"
    PROVE  /\ savedProfile'.runs = history[sync.payload].runs
           /\ \/ \A p \in Expected(Manifest) : local[p] = Manifest.files[p]
              \/ syncJournal.status = "committing" /\ syncJournal.key = savedProfile'
<1> USE DEF SyncInv
<1>1. ASSUME MergeSyncPayload
      PROVE  /\ savedProfile'.runs = history[sync.payload].runs
             /\ \A p \in Expected(Manifest) : local[p] = Manifest.files[p]
  <2>1. AllTouched = {} /\ Planned /\ savedProfile' = version'
    BY <1>1 DEF MergeSyncPayload, HasChanges, AllTouched, Planned, Is
  <2>2. \A p \in Paths : local[p] = sync.before[p]
    BY <1>1 DEF MergeSyncPayload, UndoIsComplete, Is
  <2>3. version'.runs = history[sync.payload].runs BY <1>1 DEF MergeSyncPayload
  <2> QED BY <2>1, <2>2, <2>3, PlacedIsRight
<1>2. ASSUME BeginTransaction
      PROVE  /\ savedProfile'.runs = history[sync.payload].runs
             /\ syncJournal.status = "committing" /\ syncJournal.key = savedProfile'
  BY <1>2 DEF BeginTransaction, MayResume, VersionFits, Is
<1>3. ASSUME CommitProfile
      PROVE  /\ savedProfile'.runs = history[sync.payload].runs
             /\ \A p \in Expected(Manifest) : local[p] = Manifest.files[p]
  <2>1. Planned /\ AllTouched \ sync.todo = AllTouched
    BY <1>3 DEF CommitProfile, Is, UndoIsComplete, Planned, Working
  <2>2. \A p \in Paths : local[p] = IF p \in AllTouched THEN NewContent(p) ELSE sync.before[p]
    BY <1>3, <2>1 DEF CommitProfile, Is, UndoIsComplete, Working
  <2> QED BY <1>3, <2>1, <2>2, PlacedIsRight DEF CommitProfile, VersionFits, Is
<1>4. ~SaveInstalled BY DEF SaveInstalled, UndoIsComplete
<1>5. ~EditOption BY DEF EditOption
<1> QED BY <1>1, <1>2, <1>3, <1>4, <1>5 DEF PackSyncNext, StartPackInstall, StartSync,
      FindVersionPayload, ApiUnavailable, RecoverFirst, PreparePlan, PrepareInstall, LoaderFails,
      CommitRefused, StageFails, StartActivation, ActivateFile, BeginCommit, CommitFails, Complete,
      CompleteInstall, SyncDies, EditFile, Publish, Fails

\* A synchronization that ends well leaves what the release manages as it has
\* it and the rest as it was, one that fails leaves everything as it was, and a
\* profile is written only over the files of its release, or to finish the very
\* commit the journal has kept (TensaCraftSync.sync).
THEOREM PackStaysManaged == PackSyncSpec => PackIsManaged
<1>1. SyncInv => SyncedRight /\ FailureUndone BY DEF SyncInv, RightOrUndone
<1>2. SyncInv /\ [PackSyncNext]_syncVars =>
        [savedProfile' # savedProfile /\ ~Resting /\ sync.kind = "sync" =>
         /\ savedProfile'.runs = history[sync.payload].runs
         /\ \/ \A p \in Expected(Manifest) : local[p] = Manifest.files[p]
            \/ syncJournal.status = "committing" /\ syncJournal.key = savedProfile']_syncVars
  BY ProfileStep DEF syncVars
<1> QED BY SyncInvKept, <1>1, <1>2, PTL DEF PackSyncSpec, PackIsManaged, ProfileFollowsFiles

-----------------------------------------------------------------------------
(* Builds *)

\* A task never works under the id of a build that has it for its own.
Doing == task.at \in {"write", "copy", "files", "save"}

TaskHolds ==
    /\ task.at = "idle" => task = NoTask
    /\ task.at # "idle" => /\ task.id \in BuildIds /\ task.name \in Names /\ built >= 1
    /\ Doing => ~HasOwnId(task.id)

\* A closed page and one that waits for its list show nothing; what is asked
\* about is shown.
HomeHolds ==
    /\ ~home.open \/ home.awaits => home.cards = {}
    /\ home.awaits => home.open
    /\ home.asks # Nil => home.asks \in home.cards

\* What is being deleted is in the list no more.
RemovalHolds == removal # NoRemoval => removal.id \in BuildIds /\ removal.id \notin ListedIds

\* What the task has written, and what it copies.
FilesHold ==
    /\ task.at = "copy" => gameDirs[task.id] = NoDir
    /\ task.at = "files" /\ ~Installs => task.source # task.id
    /\ ~disturbed =>
         /\ task.at = "files" => gameDirs[task.id].build = built
         /\ task.at = "save" => gameDirs[task.id] = [build |-> built, whole |-> TRUE]
         /\ task.at \in {"write", "copy", "files"} /\ ~Installs =>
              gameDirs[task.source].whole \/ (task.at = "copy" /\ task.source = task.id)

BuildsInv ==
    /\ BuildsTypeOK
    /\ TaskHolds /\ HomeHolds /\ RemovalHolds /\ FilesHold
    /\ OffersAreNew /\ ListedIsWhole

Dirs == [build : 0..MaxBuilds, whole : BOOLEAN]
Tasks == [at : {"idle", "write", "copy", "files", "save", "end"},
          id : BuildIds \cup {Nil}, name : Names \cup {Nil},
          pack : Offers \cup {Nil}, source : BuildIds \cup {Nil}]
Homes == [open : BOOLEAN, awaits : BOOLEAN, cards : SUBSET Offers, asks : Offers \cup {Nil}]

LEMMA BuildConstants ==
    /\ Nil \notin BuildIds /\ Nil \notin Offers /\ Nil \notin Names /\ Nil \notin BuildRecords
    /\ \A n \in Names : IdOf[n] \in BuildIds
    /\ Modpacks \subseteq BuildIds /\ Typed \subseteq Names
    /\ \A p \in Offers : TitleOf[p] \in Names
    /\ MaxBuilds \in Nat /\ MaxDeletions \in Nat /\ MaxRenames \in Nat
    /\ NoDir \in Dirs
BY BuildsAssumption DEF BuildIds, NoDir, Dirs

\* What a listed build is.
LEMMA ListedBuild ==
    ASSUME BuildsTypeOK, NEW i \in BuildIds, builds[i] # Nil
    PROVE  /\ builds[i] \in BuildRecords /\ builds[i].name \in Names
           /\ builds[i].pack \in Offers \cup {Nil} /\ builds[i].build \in 1..MaxBuilds
           /\ i \in ListedIds
BY DEF BuildsTypeOK, BuildRecords, ListedIds

\* A build's record may only be renamed, replaced by the task's or removed.
LEMMA RenamedRecord ==
    ASSUME BuildsTypeOK, NEW i \in BuildIds, NEW n \in Typed, RenameBuild(i, n)
    PROVE  /\ builds' \in [BuildIds -> {Nil} \cup BuildRecords]
           /\ builds'[i].name = n /\ builds'[i].renamed = TRUE /\ builds'[i] # Nil
           /\ builds'[i].pack = builds[i].pack /\ builds'[i].build = builds[i].build
           /\ \A j \in BuildIds \ {i} : builds'[j] = builds[j]
<1> DEFINE new == [builds[i] EXCEPT !.name = n, !.renamed = TRUE]
<1>1. builds[i] \in BuildRecords BY ListedBuild DEF RenameBuild, ListedIds
<1>2. n \in Names BY BuildConstants
<1>3. /\ new \in BuildRecords /\ new.name = n /\ new.renamed = TRUE
      /\ new.pack = builds[i].pack /\ new.build = builds[i].build
  BY <1>1, <1>2 DEF BuildRecords
<1>4. builds' = [builds EXCEPT ![i] = new] BY DEF RenameBuild
<1> HIDE DEF new
<1> QED BY <1>3, <1>4, BuildConstants DEF BuildsTypeOK

LEMMA AddedRecord ==
    ASSUME BuildsTypeOK, TaskHolds, AddBuild
    PROVE  /\ builds' \in [BuildIds -> {Nil} \cup BuildRecords]
           /\ builds'[task.id] = NewBuild /\ task.id \in BuildIds
           /\ \A j \in BuildIds \ {task.id} : builds'[j] = builds[j]
<1>1. task.id \in BuildIds /\ task.name \in Names /\ built >= 1
  BY DEF AddBuild, Works, TaskHolds
<1>2. NewBuild \in BuildRecords
  BY <1>1, BuildConstants DEF NewBuild, BuildRecords, BuildsTypeOK
<1> QED BY <1>1, <1>2 DEF AddBuild, BuildsTypeOK

LEMMA PutDirectory ==
    ASSUME BuildsTypeOK, task.id \in BuildIds, NEW dir \in Dirs, Puts(dir)
    PROVE  /\ gameDirs' \in [BuildIds -> Dirs] /\ gameDirs'[task.id] = dir
           /\ \A j \in BuildIds \ {task.id} : gameDirs'[j] = gameDirs[j]
BY DEF Puts, BuildsTypeOK, Dirs

LEMMA TaskWent ==
    ASSUME BuildsTypeOK, NEW s \in {"write", "copy", "files", "save", "end"}, TaskGoesTo(s)
    PROVE  /\ task' \in Tasks /\ task'.at = s /\ task'.id = task.id /\ task'.name = task.name
           /\ task'.pack = task.pack /\ task'.source = task.source
BY DEF TaskGoesTo, BuildsTypeOK, Tasks

LEMMA HomeStep ==
    ASSUME BuildsTypeOK,
           OpenHome \/ LeaveHome \/ ListPacks \/ ConfirmPack \/ \E p \in Offers : AskPack(p)
    PROVE  home' \in Homes
<1> USE DEF BuildsTypeOK, Homes, NoHome
<1>1. CASE OpenHome BY <1>1 DEF OpenHome
<1>2. CASE LeaveHome BY <1>2 DEF LeaveHome
<1>3. CASE ListPacks
  <2> DEFINE new == Offers \ (LocalPacks \cup pendingPacks)
  <2>1. home' = [home EXCEPT !.awaits = FALSE, !.cards = new] BY <1>3 DEF ListPacks
  <2>2. new \in SUBSET Offers OBVIOUS
  <2> HIDE DEF new
  <2> QED BY <2>1, <2>2
<1>4. CASE ConfirmPack
  <2> DEFINE new == home.cards \ {home.asks}
  <2>1. home' = [home EXCEPT !.asks = Nil, !.cards = new] BY <1>4 DEF ConfirmPack
  <2>2. new \in SUBSET Offers OBVIOUS
  <2> HIDE DEF new
  <2> QED BY <2>1, <2>2
<1>5. ASSUME NEW p \in Offers, AskPack(p) PROVE home' \in Homes BY <1>5 DEF AskPack
<1> QED BY <1>1, <1>2, <1>3, <1>4, <1>5

\* The work that begins.
LEMMA BegunTask ==
    ASSUME BuildsTypeOK, NEW n \in Names, NEW i \in BuildIds, NEW pack \in Offers \cup {Nil},
           NEW source \in BuildIds \cup {Nil}, Begin(n, i, pack, source)
    PROVE  /\ task' = [at |-> "write", id |-> i, name |-> n, pack |-> pack, source |-> source]
           /\ task' \in Tasks /\ built' \in 0..MaxBuilds /\ built' >= 1 /\ disturbed' \in BOOLEAN
<1>1. built \in 0..MaxBuilds /\ built < MaxBuilds /\ built' = built + 1
  BY DEF Begin, BuildsTypeOK
<1>2. disturbed' \in BOOLEAN BY DEF Begin, BuildsTypeOK
<1> QED BY <1>1, <1>2, BuildConstants DEF Begin, Tasks

\* What a page begins: a task under an id of its name.
LEMMA Begins ==
    ASSUME BuildsTypeOK, TaskHolds, HomeHolds
    PROVE  /\ \A n \in Typed, p \in Offers \cup {Nil} : CreateBuild(n, p) =>
                 Begin(n, IdOf[n], p, Nil) /\ IdOf[n] \in BuildIds /\ n \in Names
           /\ \A n \in Typed : ImportBuild(n) =>
                 Begin(n, IdOf[n], Nil, Nil) /\ IdOf[n] \in BuildIds /\ n \in Names
           /\ \A s \in BuildIds, n \in Typed : CopyBuild(s, n) =>
                 Begin(n, IdOf[n], Nil, s) /\ IdOf[n] \in BuildIds /\ n \in Names
           /\ StartModpack /\ ~LauncherBusy =>
                 /\ Begin(wanted.name, wanted.id, Nil, Nil)
                 /\ wanted.id \in Modpacks /\ wanted.id \in BuildIds
                 /\ wanted.name \in Typed /\ wanted.name \in Names
           /\ ConfirmPack /\ ~LauncherBusy =>
                 /\ Begin(TitleOf[home.asks], IdOf[TitleOf[home.asks]], home.asks, Nil)
                 /\ home.asks \in Offers /\ TitleOf[home.asks] \in Names
                 /\ IdOf[TitleOf[home.asks]] \in BuildIds
<1>1. ASSUME StartModpack, ~LauncherBusy
      PROVE  /\ Begin(wanted.name, wanted.id, Nil, Nil)
             /\ wanted.id \in Modpacks /\ wanted.id \in BuildIds
             /\ wanted.name \in Typed /\ wanted.name \in Names
  BY <1>1, BuildConstants DEF StartModpack, BuildsTypeOK
<1>2. ASSUME ConfirmPack, ~LauncherBusy
      PROVE  /\ Begin(TitleOf[home.asks], IdOf[TitleOf[home.asks]], home.asks, Nil)
             /\ home.asks \in Offers /\ TitleOf[home.asks] \in Names
             /\ IdOf[TitleOf[home.asks]] \in BuildIds
  <2>1. home.asks \in Offers BY <1>2 DEF ConfirmPack, BuildsTypeOK
  <2> QED BY <1>2, <2>1, BuildConstants DEF ConfirmPack, BuildStub
<1> QED BY <1>1, <1>2, BuildConstants DEF CreateBuild, ImportBuild, CopyBuild, Unmanaged

LEMMA BuildsTypeStep ==
    ASSUME BuildsTypeOK, TaskHolds, HomeHolds, RemovalHolds, BuildsNext
    PROVE  BuildsTypeOK'
<1> DEFINE Buildings == builds' \in [BuildIds -> {Nil} \cup BuildRecords]
           Counts == deletions' \in 0..MaxDeletions /\ renames' \in 0..MaxRenames
           Wants == wanted' = Nil \/ wanted' \in [id : Modpacks, name : Typed]
           Removals == removal' \in [id : BuildIds \cup {Nil}, files : BOOLEAN]
           Flags == elsewhere' \in BOOLEAN /\ disturbed' \in BOOLEAN
<1>1. ASSUME Buildings, gameDirs' \in [BuildIds -> Dirs], task' \in Tasks, built' \in 0..MaxBuilds,
             Flags, Wants, pendingPacks' \subseteq Offers, home' \in Homes, Removals, Counts
      PROVE  BuildsTypeOK'
  BY <1>1 DEF BuildsTypeOK, Dirs, Tasks, Homes
<1>2. /\ builds' = builds => Buildings
      /\ gameDirs' = gameDirs => gameDirs' \in [BuildIds -> Dirs]
      /\ task' = task => task' \in Tasks
      /\ built' = built => built' \in 0..MaxBuilds
      /\ elsewhere' = elsewhere /\ disturbed' \in {disturbed, TRUE, FALSE} => Flags
      /\ wanted' = wanted \/ wanted' = Nil => Wants
      /\ pendingPacks' = pendingPacks => pendingPacks' \subseteq Offers
      /\ home' = home => home' \in Homes
      /\ removal' = removal => Removals
      /\ deletions' = deletions /\ renames' = renames => Counts
  BY DEF BuildsTypeOK, Dirs, Tasks, Homes
<1>3. \A p \in Offers \cup {Nil} : MarkPending(p) \/ UnmarkPending(p) => pendingPacks' \subseteq Offers
  BY DEF MarkPending, UnmarkPending, BuildsTypeOK
<1>4. ASSUME NEW n \in Names, NEW i \in BuildIds, NEW pack \in Offers \cup {Nil},
             NEW source \in BuildIds \cup {Nil}, Begin(n, i, pack, source),
             Wants, pendingPacks' \subseteq Offers, home' \in Homes
      PROVE  BuildsTypeOK'
  <2>1. Buildings /\ gameDirs' \in [BuildIds -> Dirs] /\ Removals /\ Counts /\ elsewhere' = elsewhere
    BY <1>2, <1>4 DEF Begin
  <2>2. task' \in Tasks /\ built' \in 0..MaxBuilds /\ disturbed' \in BOOLEAN
    BY <1>4, BegunTask
  <2>3. Flags BY <2>1, <2>2 DEF BuildsTypeOK
  <2> HIDE DEF Buildings, Counts, Wants, Removals, Flags
  <2> QED BY <1>1, <1>4, <2>1, <2>2, <2>3
<1>5. ASSUME NEW s \in {"write", "copy", "files", "save", "end"}, TaskGoesTo(s), PagesStay,
             gameDirs' \in [BuildIds -> Dirs], Buildings
      PROVE  BuildsTypeOK'
  <2>1. task' \in Tasks BY <1>5, TaskWent
  <2> HIDE DEF Buildings, Counts, Wants, Removals, Flags
  <2> QED BY <1>1, <1>2, <1>5, <2>1 DEF PagesStay
<1>6. Nil \in Offers \cup {Nil} /\ Nil \in BuildIds \cup {Nil} OBVIOUS
<1> HIDE DEF Buildings, Counts, Wants, Removals, Flags
<1>a. ASSUME NEW n \in Typed, NEW p \in Offers \cup {Nil}, CreateBuild(n, p) PROVE BuildsTypeOK'
  <2>1. Wants /\ home' \in Homes /\ pendingPacks' \subseteq Offers
    BY <1>a, <1>2, <1>3 DEF CreateBuild
  <2> QED BY <1>a, <1>4, <1>6, <2>1, Begins
<1>b. ASSUME NEW n \in Typed, ImportBuild(n) PROVE BuildsTypeOK'
  <2>1. Wants /\ home' \in Homes /\ pendingPacks' \subseteq Offers BY <1>b, <1>2 DEF ImportBuild
  <2> QED BY <1>b, <1>4, <1>6, <2>1, Begins
<1>c. ASSUME NEW s \in BuildIds, NEW n \in Typed, CopyBuild(s, n) PROVE BuildsTypeOK'
  <2>1. Wants /\ home' \in Homes /\ pendingPacks' \subseteq Offers BY <1>c, <1>2 DEF CopyBuild
  <2>2. s \in BuildIds \cup {Nil} OBVIOUS
  <2> QED BY <1>c, <1>4, <1>6, <2>1, <2>2, Begins
<1>d. ASSUME NEW m \in Modpacks, NEW n \in Typed, InstallModpack(m, n) PROVE BuildsTypeOK'
  <2>1. Wants BY <1>d DEF InstallModpack, ModpackDialog, Wants
  <2> QED BY <1>d, <1>1, <1>2, <2>1 DEF InstallModpack
<1>e. CASE StartModpack
  <2>1. Wants BY <1>e, <1>2 DEF StartModpack
  <2>2. home' \in Homes /\ pendingPacks' \subseteq Offers BY <1>e, <1>2 DEF StartModpack
  <2>3. CASE LauncherBusy BY <1>e, <1>1, <1>2, <2>1, <2>2, <2>3 DEF StartModpack
  <2>4. CASE ~LauncherBusy
    BY <1>e, <1>4, <1>6, <2>1, <2>2, <2>4, Begins
  <2> QED BY <2>3, <2>4
<1>f. ASSUME NEW i \in BuildIds, NEW n \in Typed, RenameBuild(i, n) PROVE BuildsTypeOK'
  <2>1. Buildings BY <1>f, RenamedRecord DEF Buildings
  <2>2. Counts BY <1>f, BuildConstants DEF RenameBuild, Counts, BuildsTypeOK
  <2> QED BY <1>f, <1>1, <1>2, <2>1, <2>2 DEF RenameBuild
<1>g. CASE OtherOperation
  <2>1. Flags BY <1>g DEF OtherOperation, Flags, BuildsTypeOK
  <2> QED BY <1>g, <1>1, <1>2, <2>1 DEF OtherOperation
<1>h. CASE OpenHome \/ LeaveHome \/ ListPacks \/ \E p \in Offers : AskPack(p)
  <2>1. home' \in Homes BY <1>h, HomeStep
  <2> QED BY <1>h, <1>1, <1>2, <2>1 DEF OpenHome, LeaveHome, ListPacks, AskPack
<1>i. CASE ConfirmPack
  <2>1. home' \in Homes BY <1>i, HomeStep
  <2>2. home.asks \in Offers \cup {Nil} BY DEF BuildsTypeOK
  <2>3. Wants /\ pendingPacks' \subseteq Offers
    BY <1>i, <1>2, <1>3, <2>2 DEF ConfirmPack
  <2>4. CASE LauncherBusy BY <1>i, <1>1, <1>2, <2>1, <2>3, <2>4 DEF ConfirmPack
  <2>5. CASE ~LauncherBusy BY <1>i, <1>4, <1>6, <2>1, <2>2, <2>3, <2>5, Begins
  <2> QED BY <2>4, <2>5
<1>j. CASE InstallBegins \/ CopyBegins \/ ClearDestination \/ FilesComplete
  <2> DEFINE half == [build |-> built, whole |-> FALSE]
             whole == [build |-> built, whole |-> gameDirs[task.id].build = built
                                                  /\ (Installs \/ gameDirs[task.source].whole)]
  <2>1. half \in Dirs BY DEF Dirs, BuildsTypeOK
  <2>2. ASSUME FilesComplete PROVE whole \in Dirs
    <3>1. Installs \/ task.source \in BuildIds BY DEF Installs, BuildsTypeOK
    <3>2. Installs \/ gameDirs[task.source].whole \in BOOLEAN BY <3>1 DEF BuildsTypeOK
    <3>3. (gameDirs[task.id].build = built /\ (Installs \/ gameDirs[task.source].whole)) \in BOOLEAN
      BY <3>2
    <3> QED BY <3>3 DEF Dirs, BuildsTypeOK
  <2> HIDE DEF half, whole
  <2>3. /\ InstallBegins \/ CopyBegins => Puts(half)
        /\ ClearDestination => Puts(NoDir)
        /\ FilesComplete => Puts(whole)
    BY DEF InstallBegins, CopyBegins, ClearDestination, FilesComplete, half, whole
  <2>4. task.id \in BuildIds
    BY <1>j DEF TaskHolds, Works, InstallBegins, CopyBegins, ClearDestination, FilesComplete
  <2>5. gameDirs' \in [BuildIds -> Dirs]
    <3>1. ASSUME Puts(half) PROVE gameDirs' \in [BuildIds -> Dirs]
      BY <2>1, <2>4, <3>1, PutDirectory
    <3>2. ASSUME Puts(NoDir) PROVE gameDirs' \in [BuildIds -> Dirs]
      BY <2>4, <3>2, PutDirectory, BuildConstants
    <3>3. ASSUME Puts(whole), whole \in Dirs PROVE gameDirs' \in [BuildIds -> Dirs]
      BY <2>4, <3>3, PutDirectory
    <3> QED BY <1>j, <2>2, <2>3, <3>1, <3>2, <3>3
  <2> QED BY <1>j, <1>2, <1>5, <2>5 DEF InstallBegins, CopyBegins, ClearDestination, FilesComplete
<1>k. CASE AddBuild
  <2>1. Buildings BY <1>k, AddedRecord DEF Buildings
  <2> QED BY <1>k, <1>2, <1>5, <2>1 DEF AddBuild
<1>l. CASE TaskFails
  BY <1>l, <1>2, <1>5 DEF TaskFails
<1>m. CASE EndTask
  <2>1. task' \in Tasks BY <1>m DEF EndTask, NoTask, Tasks
  <2>2. task.pack \in Offers \cup {Nil} BY DEF BuildsTypeOK
  <2> QED BY <1>m, <1>1, <1>2, <1>3, <2>1, <2>2 DEF EndTask
<1>n. ASSUME NEW i \in BuildIds, NEW files \in BOOLEAN, DeleteBuild(i, files) PROVE BuildsTypeOK'
  <2>1. Buildings BY <1>n DEF DeleteBuild, BuildsTypeOK, Buildings
  <2>2. Counts BY <1>n, BuildConstants DEF DeleteBuild, Counts, BuildsTypeOK
  <2>3. Removals BY <1>n DEF DeleteBuild, NoRemoval, Removals
  <2> QED BY <1>n, <1>1, <1>2, <2>1, <2>2, <2>3 DEF DeleteBuild
<1>o. CASE DeleteFiles
  <2>1. removal.id \in BuildIds BY <1>o DEF DeleteFiles, RemovalHolds
  <2>2. PICK left \in {NoDir, [gameDirs[removal.id] EXCEPT !.whole = FALSE]} :
           gameDirs' = [gameDirs EXCEPT ![removal.id] = left]
    BY <1>o DEF DeleteFiles
  <2>3. left \in Dirs BY <2>1, <2>2, BuildConstants DEF BuildsTypeOK, Dirs
  <2>4. gameDirs' \in [BuildIds -> Dirs] BY <2>2, <2>3 DEF BuildsTypeOK, Dirs
  <2>5. Removals BY <1>o DEF DeleteFiles, NoRemoval, Removals
  <2>6. Flags BY <1>o DEF DeleteFiles, Flags, BuildsTypeOK
  <2> QED BY <1>o, <1>1, <1>2, <2>4, <2>5, <2>6 DEF DeleteFiles
<1> QED BY <1>a, <1>b, <1>c, <1>d, <1>e, <1>f, <1>g, <1>h, <1>i, <1>j, <1>k, <1>l, <1>m, <1>n, <1>o
        DEF BuildsNext

LEMMA SameBuilds ==
    ASSUME builds' = builds
    PROVE  /\ LocalPacks' = LocalPacks /\ ListedIds' = ListedIds
           /\ \A i \in BuildIds : HasOwnId(i)' = HasOwnId(i)
BY DEF LocalPacks, ListedIds, HasOwnId, KeepsId, HasOwnId

\* A pack comes into the list only while it is pending.
LEMMA LocalPacksStep ==
    ASSUME BuildsTypeOK, TaskHolds, OffersAreNew, BuildsNext
    PROVE  LocalPacks' \subseteq LocalPacks \cup pendingPacks
<1>1. CASE builds' = builds BY <1>1, SameBuilds
<1>2. ASSUME NEW i \in BuildIds, NEW n \in Typed, RenameBuild(i, n)
      PROVE  LocalPacks' \subseteq LocalPacks
  <2>1. builds[i] # Nil BY <1>2 DEF RenameBuild, ListedIds
  <2>2. \A j \in BuildIds : builds'[j] # Nil =>
           builds[j] # Nil /\ builds'[j].pack = builds[j].pack
    BY <1>2, <2>1, RenamedRecord
  <2> QED BY <2>2 DEF LocalPacks, ListedIds
<1>3. ASSUME NEW i \in BuildIds, NEW files \in BOOLEAN, DeleteBuild(i, files)
      PROVE  LocalPacks' \subseteq LocalPacks
  BY <1>3 DEF LocalPacks, ListedIds, DeleteBuild, BuildsTypeOK
<1>4. CASE AddBuild
  <2>1. NewBuild.pack = task.pack BY DEF NewBuild
  <2>2. ASSUME NEW p \in LocalPacks' PROVE p \in LocalPacks \cup pendingPacks
    <3>1. PICK i \in BuildIds : builds'[i] # Nil /\ p = builds'[i].pack /\ p # Nil
      BY <2>2 DEF LocalPacks, ListedIds
    <3>2. CASE i = task.id BY <1>4, <2>1, <3>1, <3>2, AddedRecord DEF OffersAreNew
    <3>3. CASE i # task.id BY <1>4, <3>1, <3>3, AddedRecord DEF LocalPacks, ListedIds
    <3> QED BY <3>2, <3>3
  <2> QED BY <2>2
<1>5. builds' = builds \/ AddBuild \/ (\E i \in BuildIds, n \in Typed : RenameBuild(i, n))
      \/ \E i \in BuildIds, files \in BOOLEAN : DeleteBuild(i, files)
  BY DEF BuildsNext, CreateBuild, ImportBuild, CopyBuild, InstallModpack, StartModpack, Begin,
         OtherOperation, OpenHome, LeaveHome, ListPacks, ConfirmPack, AskPack, InstallBegins,
         ClearDestination, CopyBegins, FilesComplete, TaskFails, EndTask, DeleteFiles
<1> QED BY <1>1, <1>2, <1>3, <1>4, <1>5

\* Where a page begins something nothing is under way and nothing is pending.
LEMMA BuildBegun ==
    ASSUME BuildsTypeOK, TaskHolds, HomeHolds, OffersAreNew,
           NEW n \in Names, NEW i \in BuildIds, NEW pack \in Offers \cup {Nil},
           NEW source \in BuildIds \cup {Nil}, ~LauncherBusy, Begin(n, i, pack, source),
           home'.cards \cap {pack} = {}, home'.cards \subseteq home.cards,
           pendingPacks' = pendingPacks \cup ({pack} \ {Nil})
    PROVE  OffersAreNew'
<1>1. task = NoTask BY DEF TaskHolds, LauncherBusy
<1>2. pendingPacks = {} BY <1>1 DEF OffersAreNew, NoTask
<1>3. task'.pack = pack BY BegunTask
<1>4. LocalPacks' = LocalPacks BY SameBuilds DEF Begin
<1> QED BY <1>2, <1>3, <1>4 DEF OffersAreNew

LEMMA OffersStep ==
    ASSUME BuildsTypeOK, TaskHolds, HomeHolds, OffersAreNew, BuildsNext
    PROVE  OffersAreNew' /\ HomeHolds'
<1>1. ASSUME home' = home, task'.pack = task.pack, pendingPacks' = pendingPacks
      PROVE  OffersAreNew' /\ HomeHolds'
  <2>1. OffersAreNew' BY <1>1, LocalPacksStep DEF OffersAreNew
  <2>2. HomeHolds' BY <1>1 DEF HomeHolds
  <2> QED BY <2>1, <2>2
<1>2. home' = home => HomeHolds' BY DEF HomeHolds
<1>3. Nil \in Offers \cup {Nil} /\ Nil \in BuildIds \cup {Nil} OBVIOUS
<1>4. Nil \notin home.cards BY BuildConstants DEF BuildsTypeOK
<1>a. ASSUME NEW n \in Typed, NEW p \in Offers \cup {Nil}, CreateBuild(n, p)
      PROVE  OffersAreNew' /\ HomeHolds'
  <2>1. home' = home /\ home.cards = {} BY <1>a DEF CreateBuild, HomeHolds
  <2>2. pendingPacks' = pendingPacks \cup ({p} \ {Nil}) /\ ~LauncherBusy
    BY <1>a DEF CreateBuild, MarkPending
  <2> QED BY <1>a, <1>2, <1>3, <2>1, <2>2, Begins, BuildBegun
<1>b. ASSUME NEW n \in Typed, ImportBuild(n) PROVE OffersAreNew' /\ HomeHolds'
  <2>1. /\ home' = home /\ ~LauncherBusy /\ home'.cards \cap {Nil} = {}
        /\ pendingPacks' = pendingPacks \cup ({Nil} \ {Nil})
    BY <1>b, <1>4 DEF ImportBuild
  <2> QED BY <1>b, <1>2, <1>3, <2>1, Begins, BuildBegun
<1>c. ASSUME NEW s \in BuildIds, NEW n \in Typed, CopyBuild(s, n) PROVE OffersAreNew' /\ HomeHolds'
  <2>1. /\ home' = home /\ ~LauncherBusy /\ home'.cards \cap {Nil} = {}
        /\ pendingPacks' = pendingPacks \cup ({Nil} \ {Nil})
    BY <1>c, <1>4 DEF CopyBuild
  <2>2. s \in BuildIds \cup {Nil} OBVIOUS
  <2> QED BY <1>c, <1>2, <1>3, <2>1, <2>2, Begins, BuildBegun
<1>d. CASE StartModpack
  <2>1. CASE LauncherBusy BY <1>d, <1>1, <2>1 DEF StartModpack
  <2>2. CASE ~LauncherBusy
    <3>1. /\ home' = home /\ home'.cards \cap {Nil} = {}
          /\ pendingPacks' = pendingPacks \cup ({Nil} \ {Nil})
      BY <1>d, <1>4 DEF StartModpack
    <3> QED BY <1>d, <1>2, <1>3, <2>2, <3>1, Begins, BuildBegun
  <2> QED BY <2>1, <2>2
<1>e. CASE ConfirmPack
  <2> DEFINE p == home.asks
             rest == home.cards \ {p}
  <2>1. p \in Offers /\ p \in home.cards BY <1>e DEF ConfirmPack, BuildsTypeOK, HomeHolds
  <2>2. home' = [home EXCEPT !.asks = Nil, !.cards = rest] BY <1>e DEF ConfirmPack
  <2>3. rest \subseteq home.cards /\ p \notin rest OBVIOUS
  <2> HIDE DEF rest
  <2>4. home'.asks = Nil /\ home'.cards = rest /\ home'.open = home.open /\ home'.awaits = home.awaits
    BY <2>2 DEF BuildsTypeOK
  <2>5. HomeHolds' BY <2>3, <2>4 DEF HomeHolds
  <2>6. CASE LauncherBusy
    <3>1. p \notin pendingPacks BY <2>1 DEF OffersAreNew
    <3>2. pendingPacks' = pendingPacks /\ task' = task
      BY <1>e, <2>6, <3>1 DEF ConfirmPack, UnmarkPending
    <3> QED BY <2>3, <2>4, <2>5, <3>2, LocalPacksStep DEF OffersAreNew
  <2>7. CASE ~LauncherBusy
    <3>1. pendingPacks' = pendingPacks \cup ({p} \ {Nil})
      BY <1>e, <2>7 DEF ConfirmPack, MarkPending
    <3>2. home'.cards \cap {p} = {} /\ home'.cards \subseteq home.cards
      BY <2>3, <2>4
    <3>3. p \in Offers \cup {Nil} BY <2>1
    <3> QED BY <1>e, <1>3, <2>5, <2>7, <3>1, <3>2, <3>3, Begins, BuildBegun
  <2> QED BY <2>6, <2>7
<1>f. CASE OpenHome \/ LeaveHome
  <2>1. home' = NoHome \/ home' = [NoHome EXCEPT !.open = TRUE, !.awaits = TRUE]
    BY <1>f DEF OpenHome, LeaveHome
  <2> DEFINE none == {}
  <2>a. NoHome = [open |-> FALSE, awaits |-> FALSE, cards |-> none, asks |-> Nil] BY DEF NoHome
  <2> HIDE DEF none
  <2>b. home'.cards = none /\ home'.asks = Nil /\ (home'.awaits => home'.open)
    <3>1. CASE home' = NoHome BY <2>a, <3>1
    <3>2. CASE home' = [NoHome EXCEPT !.open = TRUE, !.awaits = TRUE]
      <4>1. home' = [open |-> TRUE, awaits |-> TRUE, cards |-> none, asks |-> Nil] BY <2>a, <3>2
      <4> QED BY <4>1
    <3> QED BY <2>1, <3>1, <3>2
  <2>2. home'.cards = {} /\ home'.asks = Nil /\ (home'.awaits => home'.open)
    BY <2>b DEF none
  <2>3. pendingPacks' = pendingPacks /\ task' = task BY <1>f DEF OpenHome, LeaveHome
  <2> QED BY <2>2, <2>3, LocalPacksStep DEF OffersAreNew, HomeHolds
<1>g. CASE ListPacks
  <2> DEFINE new == Offers \ (LocalPacks \cup pendingPacks)
  <2>1. home' = [home EXCEPT !.awaits = FALSE, !.cards = new] BY <1>g DEF ListPacks
  <2> HIDE DEF new
  <2>2. home'.cards = new /\ home'.asks = home.asks /\ home'.open = home.open /\ ~home'.awaits
    BY <2>1 DEF BuildsTypeOK
  <2>3. new \cap (LocalPacks \cup pendingPacks) = {} BY DEF new
  <2>4. home.cards = {} /\ home.asks = Nil /\ home.open
    BY <1>g DEF ListPacks, HomeHolds, OffersAreNew
  <2>5. pendingPacks' = pendingPacks /\ task' = task BY <1>g DEF ListPacks
  <2>6. OffersAreNew' BY <2>2, <2>3, <2>5, LocalPacksStep DEF OffersAreNew
  <2> QED BY <2>2, <2>4, <2>6 DEF HomeHolds
<1>h. ASSUME NEW p \in Offers, AskPack(p) PROVE OffersAreNew' /\ HomeHolds'
  <2>1. home'.cards = home.cards /\ home'.asks = p /\ home'.open = home.open
        /\ home'.awaits = home.awaits
    BY <1>h DEF AskPack, BuildsTypeOK
  <2>2. pendingPacks' = pendingPacks /\ task' = task /\ p \in home.cards BY <1>h DEF AskPack
  <2> QED BY <2>1, <2>2, LocalPacksStep DEF OffersAreNew, HomeHolds
<1>i. CASE EndTask
  <2>1. task'.pack = Nil /\ pendingPacks' = {} /\ home' = home
    BY <1>i DEF EndTask, NoTask, UnmarkPending, OffersAreNew
  <2> QED BY <1>2, <2>1, LocalPacksStep DEF OffersAreNew
<1>j. CASE InstallBegins \/ ClearDestination \/ CopyBegins \/ FilesComplete \/ AddBuild \/ TaskFails
  <2>1. task'.pack = task.pack
    BY <1>j, TaskWent DEF InstallBegins, ClearDestination, CopyBegins, FilesComplete, AddBuild, TaskFails
  <2> QED BY <1>j, <1>1, <2>1 DEF InstallBegins, ClearDestination, CopyBegins, FilesComplete,
             AddBuild, TaskFails, PagesStay
<1>k. ASSUME \/ \E m \in Modpacks, n \in Typed : InstallModpack(m, n)
             \/ \E i \in BuildIds, n \in Typed : RenameBuild(i, n)
             \/ OtherOperation \/ DeleteFiles
             \/ \E i \in BuildIds, files \in BOOLEAN : DeleteBuild(i, files)
      PROVE  OffersAreNew' /\ HomeHolds'
  BY <1>k, <1>1 DEF InstallModpack, RenameBuild, OtherOperation, DeleteFiles, DeleteBuild
<1> QED BY <1>a, <1>b, <1>c, <1>d, <1>e, <1>f, <1>g, <1>h, <1>i, <1>j, <1>k DEF BuildsNext

\* A free name has an id that is no other build's own.
LEMMA FreeName ==
    ASSUME BuildsTypeOK, NEW n \in Names, ~NameTaken(n)
    PROVE  ~HasOwnId(IdOf[n])
<1>1. SUFFICES ASSUME HasOwnId(IdOf[n]) PROVE FALSE OBVIOUS
<1>2. IdOf[n] \in ListedIds BY <1>1, BuildConstants DEF HasOwnId, KeepsId, ListedIds
<1>3. builds[IdOf[n]].name = n BY <1>1 DEF HasOwnId
<1> QED BY <1>2, <1>3 DEF NameTaken

\* So has the title of a pack that is not here.
LEMMA FreeTitle ==
    ASSUME BuildsTypeOK, NEW p \in Offers, p \notin LocalPacks
    PROVE  ~HasOwnId(IdOf[TitleOf[p]])
<1> DEFINE i == IdOf[TitleOf[p]]
<1>1. SUFFICES ASSUME HasOwnId(i) PROVE FALSE OBVIOUS
<1>2. TitleOf[p] \in Names /\ i \in ListedIds
  BY <1>1, BuildConstants DEF HasOwnId, KeepsId, ListedIds
<1>3. builds[i].pack = p BY <1>1, <1>2 DEF HasOwnId
<1>4. p # Nil BY BuildConstants
<1> QED BY <1>2, <1>3, <1>4 DEF LocalPacks

\* What the list, the files and the task keep of each other.
WorkHolds == TaskHolds /\ RemovalHolds /\ FilesHold /\ ListedIsWhole

LEMMA WorkUnmoved ==
    ASSUME WorkHolds, UNCHANGED <<builds, gameDirs, task, built, removal, disturbed>>
    PROVE  WorkHolds'
BY DEF WorkHolds, TaskHolds, RemovalHolds, FilesHold, ListedIsWhole, Doing,
       HasOwnId, KeepsId, ListedIds, Installs

LEMMA WorkBegins ==
    ASSUME BuildsTypeOK, WorkHolds, NEW n \in Names, NEW i \in BuildIds,
           NEW pack \in Offers \cup {Nil}, NEW source \in ListedIds \cup {Nil},
           Begin(n, i, pack, source), ~HasOwnId(i)
    PROVE  WorkHolds'
<1> USE DEF WorkHolds
<1>1. source \in BuildIds \cup {Nil} BY DEF ListedIds
<1>2. /\ task' = [at |-> "write", id |-> i, name |-> n, pack |-> pack, source |-> source]
      /\ built' >= 1
  BY <1>1, BegunTask
<1>3. builds' = builds /\ gameDirs' = gameDirs /\ removal' = removal BY DEF Begin
<1>4. TaskHolds' BY <1>2, <1>3 DEF TaskHolds, Doing, HasOwnId, KeepsId
<1>6. RemovalHolds' BY <1>3 DEF RemovalHolds, ListedIds
<1>7. ~disturbed' => /\ ~disturbed
                     /\ source # Nil => HasOwnId(source) \/ gameDirs[source].whole
  BY DEF Begin, Overwritten, BuildsTypeOK
<1>8. ListedIsWhole' BY <1>3, <1>7 DEF ListedIsWhole, ListedIds, HasOwnId, KeepsId
<1>9. ASSUME ~disturbed', source # Nil PROVE gameDirs[source].whole
  <2>1. CASE HasOwnId(source)
    <3>1. gameDirs[source] = [build |-> builds[source].build, whole |-> TRUE]
      BY <1>7, <1>9, <2>1 DEF ListedIsWhole
    <3> QED BY <3>1
  <2> QED BY <1>7, <1>9, <2>1
<1>10. FilesHold' BY <1>2, <1>3, <1>9 DEF FilesHold, Installs
<1> QED BY <1>4, <1>6, <1>8, <1>10

\* The thread of the task: whatever it writes is under its own id.
LEMMA WorkGoesOn ==
    ASSUME BuildsTypeOK, WorkHolds,
           NEW s \in {"write", "copy", "files", "save", "end"}, TaskGoesTo(s), PagesStay,
           builds' = builds, Doing,
           gameDirs' = gameDirs \/ \E dir \in Dirs : Puts(dir),
           /\ s = "copy" => gameDirs'[task.id] = NoDir
           /\ s = "files" => /\ gameDirs'[task.id].build = built
                             /\ ~Installs => task.source # task.id
           /\ s = "save" /\ ~disturbed => gameDirs'[task.id] = [build |-> built, whole |-> TRUE]
           /\ s \in {"copy", "files"} /\ ~Installs /\ ~disturbed =>
                gameDirs[task.source].whole \/ task.source = task.id,
           s # "write"
    PROVE  WorkHolds'
<1> USE DEF WorkHolds
<1>1. /\ task'.at = s /\ task'.id = task.id /\ task'.name = task.name
      /\ task'.pack = task.pack /\ task'.source = task.source
  BY TaskWent
<1>2. built' = built /\ removal' = removal /\ disturbed' = disturbed BY DEF PagesStay
<1>3. task.id \in BuildIds /\ ~HasOwnId(task.id) /\ task.at # "idle" BY DEF TaskHolds, Doing
<1>4. \A j \in BuildIds \ {task.id} : gameDirs'[j] = gameDirs[j]
  BY <1>3, PutDirectory
<1>5. TaskHolds' BY <1>1, <1>2, <1>3 DEF TaskHolds, HasOwnId, KeepsId
<1>7. RemovalHolds' BY <1>2 DEF RemovalHolds, ListedIds
<1>8. ListedIsWhole' BY <1>2, <1>3, <1>4 DEF ListedIsWhole, ListedIds, HasOwnId, KeepsId
<1>9. task.source # Nil => task.source \in BuildIds BY DEF BuildsTypeOK
<1>10. Installs' = Installs BY <1>1 DEF Installs
<1>11. FilesHold' BY <1>1, <1>2, <1>4, <1>9, <1>10 DEF FilesHold, Installs
<1> QED BY <1>5, <1>7, <1>8, <1>11

\* The steps of the thread, one by one.
LEMMA ThreadStep ==
    ASSUME BuildsTypeOK, WorkHolds,
           InstallBegins \/ ClearDestination \/ CopyBegins \/ FilesComplete \/ TaskFails
    PROVE  WorkHolds'
<1> USE DEF WorkHolds, Works
<1>0. Doing
  BY DEF InstallBegins, ClearDestination, CopyBegins, FilesComplete, TaskFails, Doing
<1>1. task.id \in BuildIds BY <1>0 DEF TaskHolds, Doing
<1>2. task.source # Nil => task.source \in BuildIds BY DEF BuildsTypeOK
<1> DEFINE half == [build |-> built, whole |-> FALSE]
<1>3. half \in Dirs /\ half.build = built BY DEF BuildsTypeOK, Dirs
<1> HIDE DEF half
<1>a. CASE InstallBegins
  <2>1. TaskGoesTo("files") /\ PagesStay /\ builds' = builds /\ Puts(half) /\ Installs
    BY <1>a DEF InstallBegins, half
  <2>2. gameDirs'[task.id].build = built BY <1>1, <1>3, <2>1, PutDirectory
  <2> QED BY <1>0, <1>3, <2>1, <2>2, WorkGoesOn
<1>b. CASE ClearDestination
  <2>1. TaskGoesTo("copy") /\ PagesStay /\ builds' = builds /\ Puts(NoDir) /\ ~Installs /\ task.at = "write"
    BY <1>b DEF ClearDestination
  <2>2. gameDirs'[task.id] = NoDir BY <1>1, <2>1, PutDirectory, BuildConstants
  <2>3. ~disturbed => gameDirs[task.source].whole BY <2>1 DEF FilesHold
  <2>4. \E dir \in Dirs : Puts(dir) BY <2>1, BuildConstants
  <2> QED BY <1>0, <2>1, <2>2, <2>3, <2>4, WorkGoesOn
<1>c. CASE CopyBegins
  <2>1. TaskGoesTo("files") /\ PagesStay /\ builds' = builds /\ Puts(half) /\ task.at = "copy"
        /\ gameDirs[task.source] # NoDir
    BY <1>c DEF CopyBegins, half, SourceExists
  <2>2. gameDirs'[task.id].build = built BY <1>1, <1>3, <2>1, PutDirectory
  <2>3. task.source # task.id BY <2>1 DEF FilesHold
  <2>4. ~Installs /\ ~disturbed => gameDirs[task.source].whole BY <2>1, <2>3 DEF FilesHold
  <2> QED BY <1>0, <1>3, <2>1, <2>2, <2>3, <2>4, WorkGoesOn
<1>d. CASE FilesComplete
  <2> DEFINE all == gameDirs[task.id].build = built /\ (Installs \/ gameDirs[task.source].whole)
             dir == [build |-> built, whole |-> all]
  <2>1. TaskGoesTo("save") /\ PagesStay /\ builds' = builds /\ Puts(dir) /\ task.at = "files"
    BY <1>d DEF FilesComplete
  <2>2. all \in BOOLEAN
    <3>1. Installs \/ gameDirs[task.source].whole \in BOOLEAN BY <1>2 DEF BuildsTypeOK, Installs
    <3> QED BY <3>1
  <2>3. ~disturbed => all BY <2>1 DEF FilesHold
  <2>4. ~disturbed => all = TRUE BY <2>2, <2>3
  <2> HIDE DEF all
  <2>5. dir \in Dirs BY <2>2 DEF Dirs, BuildsTypeOK
  <2>6. gameDirs'[task.id] = dir BY <1>1, <2>1, <2>5, PutDirectory
  <2>7. ~disturbed => gameDirs'[task.id] = [build |-> built, whole |-> TRUE] BY <2>4, <2>6
  <2> HIDE DEF dir
  <2> QED BY <1>0, <2>1, <2>5, <2>7, WorkGoesOn
<1>e. CASE TaskFails
  BY <1>e, <1>0, WorkGoesOn DEF TaskFails
<1> QED BY <1>a, <1>b, <1>c, <1>d, <1>e

LEMMA AddStep ==
    ASSUME BuildsTypeOK, WorkHolds, AddBuild
    PROVE  WorkHolds'
<1> USE DEF WorkHolds
<1>1. /\ task'.at = "end" /\ task'.id = task.id /\ task'.name = task.name
      /\ task'.pack = task.pack /\ task'.source = task.source
  BY TaskWent DEF AddBuild
<1>2. /\ built' = built /\ removal' = removal /\ disturbed' = disturbed /\ gameDirs' = gameDirs
      /\ removal = NoRemoval /\ task.at = "save"
  BY DEF AddBuild, PagesStay, Works
<1>3. /\ builds'[task.id] = NewBuild /\ task.id \in BuildIds
      /\ \A j \in BuildIds \ {task.id} : builds'[j] = builds[j]
  BY AddedRecord
<1>4. task.name \in Names /\ built >= 1
  BY <1>2 DEF TaskHolds
<1>5. TaskHolds' BY <1>1, <1>2, <1>3, <1>4 DEF TaskHolds, Doing
<1>6. NewBuild.name = task.name /\ NewBuild.pack = task.pack /\ NewBuild.build = built
  BY DEF NewBuild
<1>8. RemovalHolds' BY <1>2 DEF RemovalHolds
<1>9. ~disturbed => gameDirs[task.id] = [build |-> built, whole |-> TRUE] BY <1>2 DEF FilesHold
<1>10. ListedIsWhole' BY <1>2, <1>3, <1>6, <1>9 DEF ListedIsWhole, ListedIds, HasOwnId, KeepsId
<1>11. FilesHold' BY <1>1 DEF FilesHold
<1> QED BY <1>5, <1>8, <1>10, <1>11

LEMMA RenameStep ==
    ASSUME BuildsTypeOK, WorkHolds, NEW i \in BuildIds, NEW n \in Typed, RenameBuild(i, n)
    PROVE  WorkHolds'
<1> USE DEF WorkHolds
<1>1. /\ builds'[i].name = n /\ builds'[i].renamed = TRUE /\ builds'[i] # Nil
      /\ \A j \in BuildIds \ {i} : builds'[j] = builds[j]
  BY RenamedRecord
<1>2. UNCHANGED <<gameDirs, task, built, removal, disturbed>> /\ builds[i] # Nil
  BY DEF RenameBuild, ListedIds
<1>3. ~HasOwnId(i)' /\ \A j \in BuildIds \ {i} : HasOwnId(j)' = HasOwnId(j)
  BY <1>1 DEF HasOwnId, KeepsId
<1>4. ListedIds' = ListedIds BY <1>1, <1>2 DEF ListedIds
<1>5. TaskHolds' BY <1>2, <1>3 DEF TaskHolds, Doing
<1>7. RemovalHolds' BY <1>2, <1>4 DEF RemovalHolds
<1>8. ListedIsWhole' BY <1>1, <1>2, <1>3, <1>4 DEF ListedIsWhole, ListedIds
<1>9. FilesHold' BY <1>2 DEF FilesHold, Installs
<1> QED BY <1>5, <1>7, <1>8, <1>9

LEMMA DeleteStep ==
    ASSUME BuildsTypeOK, WorkHolds, NEW i \in BuildIds, NEW files \in BOOLEAN, DeleteBuild(i, files)
    PROVE  WorkHolds'
<1> USE DEF WorkHolds
<1>1. builds'[i] = Nil /\ \A j \in BuildIds \ {i} : builds'[j] = builds[j]
  BY DEF DeleteBuild, BuildsTypeOK
<1>2. UNCHANGED <<gameDirs, task, built, disturbed>> BY DEF DeleteBuild
<1>3. ~HasOwnId(i)' /\ \A j \in BuildIds \ {i} : HasOwnId(j)' = HasOwnId(j)
  BY <1>1 DEF HasOwnId, KeepsId
<1>4. ListedIds' = ListedIds \ {i} BY <1>1 DEF ListedIds
<1>5. TaskHolds' BY <1>2, <1>3 DEF TaskHolds, Doing
<1>7. removal' = NoRemoval \/ removal'.id = i BY DEF DeleteBuild
<1>8. RemovalHolds' BY <1>4, <1>7 DEF RemovalHolds
<1>9. ListedIsWhole' BY <1>1, <1>2, <1>3, <1>4 DEF ListedIsWhole, ListedIds
<1>10. FilesHold' BY <1>2 DEF FilesHold, Installs
<1> QED BY <1>5, <1>8, <1>9, <1>10

LEMMA DeleteFilesStep ==
    ASSUME BuildsTypeOK, WorkHolds, DeleteFiles
    PROVE  WorkHolds'
<1> USE DEF WorkHolds
<1> DEFINE k == removal.id
<1>1. k \in BuildIds /\ k \notin ListedIds BY DEF DeleteFiles, RemovalHolds
<1>2. PICK left \in {NoDir, [gameDirs[k] EXCEPT !.whole = FALSE]} :
         gameDirs' = [gameDirs EXCEPT ![k] = left]
  BY DEF DeleteFiles
<1>3. gameDirs'[k] = left /\ \A j \in BuildIds \ {k} : gameDirs'[j] = gameDirs[j]
  BY <1>1, <1>2 DEF BuildsTypeOK
<1>4. UNCHANGED <<builds, task, built>> /\ removal' = NoRemoval
      /\ disturbed' = (disturbed \/ k \in {task.id, task.source})
  BY DEF DeleteFiles
<1>5. [NoDir EXCEPT !.whole = FALSE] = NoDir
  <2>1. \A d \in Dirs : d.whole = FALSE => [d EXCEPT !.whole = FALSE] = d BY DEF Dirs
  <2>2. NoDir.whole = FALSE BY DEF NoDir
  <2> QED BY <2>1, <2>2, BuildConstants
<1>6. TaskHolds' BY <1>4 DEF TaskHolds, Doing, HasOwnId, KeepsId
<1>8. RemovalHolds' BY <1>4 DEF RemovalHolds
<1>9. ListedIsWhole'
  <2>1. ~disturbed' => ~disturbed BY <1>4 DEF BuildsTypeOK
  <2>2. ListedIds' = ListedIds BY <1>4 DEF ListedIds
  <2>3. \A j \in ListedIds : gameDirs'[j] = gameDirs[j] BY <1>1, <1>3 DEF ListedIds
  <2>4. \A j \in ListedIds : HasOwnId(j)' = HasOwnId(j) BY <1>4 DEF HasOwnId, KeepsId
  <2> QED BY <1>4, <2>1, <2>2, <2>3, <2>4 DEF ListedIsWhole
<1>10. FilesHold'
  <2>1. task.at = "copy" => gameDirs'[task.id] = NoDir
    <3>1. task.at = "copy" => task.id \in BuildIds BY DEF TaskHolds
    <3>2. task.at = "copy" /\ task.id = k => left = NoDir BY <1>2, <1>5 DEF FilesHold
    <3> QED BY <1>3, <3>1, <3>2 DEF FilesHold
  <2>2. ~disturbed' => /\ ~disturbed /\ k # task.id /\ k # task.source
    BY <1>4 DEF BuildsTypeOK
  <2>3. task.source # Nil => task.source \in BuildIds BY DEF BuildsTypeOK
  <2>4. task.at # "idle" => task.id \in BuildIds BY DEF TaskHolds
  <2>5. ~disturbed' /\ task.at # "idle" => gameDirs'[task.id] = gameDirs[task.id]
    BY <1>3, <2>2, <2>4
  <2>6. ~disturbed' /\ task.source # Nil => gameDirs'[task.source] = gameDirs[task.source]
    BY <1>3, <2>2, <2>3
  <2> QED BY <1>4, <2>1, <2>2, <2>5, <2>6 DEF FilesHold, Installs
<1> QED BY <1>6, <1>8, <1>9, <1>10

LEMMA WorkStep ==
    ASSUME BuildsTypeOK, WorkHolds, HomeHolds, OffersAreNew, BuildsNext
    PROVE  WorkHolds'
<1> USE DEF WorkHolds
<1>1. Nil \in Offers \cup {Nil} /\ Nil \in ListedIds \cup {Nil} OBVIOUS
<1>a. ASSUME NEW n \in Typed, NEW p \in Offers \cup {Nil}, CreateBuild(n, p) PROVE WorkHolds'
  <2>1. Begin(n, IdOf[n], p, Nil) /\ IdOf[n] \in BuildIds /\ n \in Names BY <1>a, Begins DEF CreateBuild
  <2>2. ~NameTaken(n) BY <1>a DEF CreateBuild, FoldTaken, NameTaken
  <2>3. ~HasOwnId(IdOf[n]) BY <2>1, <2>2, FreeName
  <2> QED BY <1>1, <2>1, <2>3, WorkBegins
<1>b. ASSUME NEW n \in Typed, ImportBuild(n) PROVE WorkHolds'
  <2>1. Begin(n, IdOf[n], Nil, Nil) /\ IdOf[n] \in BuildIds /\ n \in Names
    BY <1>b, BuildConstants DEF ImportBuild
  <2>2. ~HasOwnId(IdOf[n]) BY <1>b, <2>1, FreeName DEF ImportBuild
  <2> QED BY <1>1, <2>1, <2>2, WorkBegins
<1>c. ASSUME NEW s \in BuildIds, NEW n \in Typed, CopyBuild(s, n) PROVE WorkHolds'
  <2>1. /\ Begin(n, IdOf[n], Nil, s) /\ IdOf[n] \in BuildIds /\ n \in Names
        /\ s \in ListedIds \cup {Nil}
    BY <1>c, BuildConstants DEF CopyBuild, Unmanaged
  <2>2. ~HasOwnId(IdOf[n]) BY <1>c, <2>1, FreeName DEF CopyBuild
  <2> QED BY <1>1, <2>1, <2>2, WorkBegins
<1>d. CASE StartModpack
  <2>1. CASE LauncherBusy BY <1>d, <2>1, WorkUnmoved DEF StartModpack
  <2>2. CASE ~LauncherBusy
    <3>1. /\ Begin(wanted.name, wanted.id, Nil, Nil)
          /\ wanted.id \in Modpacks /\ wanted.id \in BuildIds
          /\ wanted.name \in Typed /\ wanted.name \in Names
      BY <1>d, <2>2, Begins
    <3>2. ~HasOwnId(wanted.id)
      BY <3>1, ListedBuild DEF HasOwnId
    <3> QED BY <1>1, <3>1, <3>2, WorkBegins
  <2> QED BY <2>1, <2>2
<1>e. CASE ConfirmPack
  <2> DEFINE p == home.asks
  <2>1. CASE LauncherBusy BY <1>e, <2>1, WorkUnmoved DEF ConfirmPack
  <2>2. CASE ~LauncherBusy
    <3>1. /\ Begin(TitleOf[p], IdOf[TitleOf[p]], p, Nil)
          /\ p \in Offers /\ TitleOf[p] \in Names /\ IdOf[TitleOf[p]] \in BuildIds
      BY <1>e, <2>2, Begins
    <3>2. p \notin LocalPacks BY <1>e DEF ConfirmPack, HomeHolds, OffersAreNew
    <3>3. ~HasOwnId(IdOf[TitleOf[p]]) BY <3>1, <3>2, FreeTitle
    <3>4. p \in Offers \cup {Nil} BY <3>1
    <3> HIDE DEF p
    <3> QED BY <1>1, <3>1, <3>3, <3>4, WorkBegins
  <2> QED BY <2>1, <2>2
<1>f. CASE InstallBegins \/ ClearDestination \/ CopyBegins \/ FilesComplete \/ TaskFails
  BY <1>f, ThreadStep
<1>g. CASE EndTask
  <2>1. task' = NoTask /\ UNCHANGED <<builds, gameDirs, built, removal, disturbed>> BY <1>g DEF EndTask
  <2>2. TaskHolds' /\ FilesHold' BY <2>1 DEF TaskHolds, FilesHold, Doing, NoTask
  <2>4. RemovalHolds' BY <2>1 DEF RemovalHolds, ListedIds
  <2>5. ListedIsWhole' BY <2>1 DEF ListedIsWhole, ListedIds, HasOwnId, KeepsId
  <2> QED BY <2>2, <2>4, <2>5
<1>h. ASSUME \/ \E m \in Modpacks, n \in Typed : InstallModpack(m, n)
             \/ OtherOperation \/ OpenHome \/ LeaveHome \/ ListPacks
             \/ \E p \in Offers : AskPack(p)
      PROVE  WorkHolds'
  BY <1>h, WorkUnmoved DEF InstallModpack, OtherOperation, OpenHome, LeaveHome, ListPacks, AskPack
<1> QED BY <1>a, <1>b, <1>c, <1>d, <1>e, <1>f, <1>g, <1>h, AddStep, RenameStep, DeleteStep,
           DeleteFilesStep DEF BuildsNext

LEMMA BuildsInvInit == BuildsInit => BuildsInv
<1> SUFFICES ASSUME BuildsInit PROVE BuildsInv OBVIOUS
<1> USE DEF BuildsInit
<1>1. BuildsTypeOK
  <2>1. builds \in [BuildIds -> {Nil} \cup BuildRecords] OBVIOUS
  <2>2. gameDirs \in [BuildIds -> [build : 0..MaxBuilds, whole : BOOLEAN]]
    <3>1. NoDir \in [build : 0..MaxBuilds, whole : BOOLEAN] BY BuildConstants DEF NoDir
    <3> QED BY <3>1
  <2>3. task \in [at : {"idle", "write", "copy", "files", "save", "end"},
                 id : BuildIds \cup {Nil}, name : Names \cup {Nil},
                 pack : Offers \cup {Nil}, source : BuildIds \cup {Nil}]
    BY DEF NoTask
  <2>4. home \in [open : BOOLEAN, awaits : BOOLEAN, cards : SUBSET Offers,
                 asks : Offers \cup {Nil}]
    BY DEF NoHome
  <2>5. removal \in [id : BuildIds \cup {Nil}, files : BOOLEAN] BY DEF NoRemoval
  <2>6. built \in 0..MaxBuilds /\ deletions \in 0..MaxDeletions /\ renames \in 0..MaxRenames
    BY BuildConstants
  <2>7. {elsewhere, disturbed} \subseteq BOOLEAN
    <3>1. elsewhere = FALSE /\ disturbed = FALSE OBVIOUS
    <3> HIDE DEF BuildsInit
    <3> QED BY <3>1
  <2>8. (wanted = Nil \/ wanted \in [id : Modpacks, name : Typed]) /\ pendingPacks \subseteq Offers
    OBVIOUS
  <2> QED BY <2>1, <2>2, <2>3, <2>4, <2>5, <2>6, <2>7, <2>8 DEF BuildsTypeOK
<1>2. ListedIds = {} BY DEF ListedIds
<1>3. LocalPacks = {} BY <1>2 DEF LocalPacks
<1>4. TaskHolds /\ FilesHold BY DEF TaskHolds, FilesHold, Doing, NoTask
<1>5. ListedIsWhole BY <1>2 DEF ListedIsWhole
<1>6. HomeHolds BY DEF HomeHolds, NoHome
<1>7. RemovalHolds BY DEF RemovalHolds
<1>8. OffersAreNew BY <1>3 DEF OffersAreNew, NoTask, NoHome
<1> QED BY <1>1, <1>4, <1>5, <1>6, <1>7, <1>8 DEF BuildsInv

LEMMA BuildsInvKept == BuildsSpec => []BuildsInv
<1>1. ASSUME BuildsInv, BuildsNext PROVE BuildsInv'
  <2> USE DEF BuildsInv
  <2>1. BuildsTypeOK' BY <1>1, BuildsTypeStep
  <2>2. OffersAreNew' /\ HomeHolds' BY <1>1, OffersStep
  <2>3. WorkHolds' BY <1>1, WorkStep DEF WorkHolds
  <2> QED BY <2>1, <2>2, <2>3 DEF WorkHolds
<1>2. ASSUME BuildsInv, UNCHANGED buildsVars PROVE BuildsInv'
  <2>1. WorkHolds' BY <1>2, WorkUnmoved DEF BuildsInv, buildsVars, WorkHolds
  <2>2. BuildsTypeOK' BY <1>2 DEF BuildsInv, buildsVars, BuildsTypeOK
  <2>3. HomeHolds' /\ OffersAreNew'
    BY <1>2, SameBuilds DEF BuildsInv, buildsVars, HomeHolds, OffersAreNew
  <2> QED BY <2>1, <2>2, <2>3 DEF BuildsInv, WorkHolds
<1> QED BY BuildsInvInit, <1>1, <1>2, PTL DEF BuildsSpec

\* Every variable of the builds and of the home page has its type.
THEOREM BuildsTypeCorrect == BuildsSpec => []BuildsTypeOK
<1>1. BuildsInv => BuildsTypeOK BY DEF BuildsInv
<1> QED BY BuildsInvKept, <1>1, PTL

\* A build whose id is its own is left alone by every step but its own deletion.
LEMMA BuildStays ==
    ASSUME BuildsInv, BuildsNext, NEW i \in BuildIds, HasOwnId(i)
    PROVE  StaysOrIsDeleted(i)
<1> USE DEF BuildsInv
<1>1. builds[i] # Nil BY DEF HasOwnId, KeepsId
<1>2. CASE builds' = builds /\ gameDirs' = gameDirs BY <1>1, <1>2 DEF StaysOrIsDeleted
<1>3. ASSUME InstallBegins \/ ClearDestination \/ CopyBegins \/ FilesComplete
      PROVE  builds' = builds /\ gameDirs'[i] = gameDirs[i]
  <2>1. Doing BY <1>3 DEF InstallBegins, ClearDestination, CopyBegins, FilesComplete, Works, Doing
  <2>2. task.id # i BY <2>1 DEF TaskHolds
  <2>3. PICK dir : Puts(dir) /\ builds' = builds
    BY <1>3 DEF InstallBegins, ClearDestination, CopyBegins, FilesComplete
  <2> QED BY <2>2, <2>3 DEF Puts, BuildsTypeOK
<1>4. ASSUME AddBuild PROVE builds'[i] = builds[i] /\ gameDirs' = gameDirs
  <2>1. task.id # i BY <1>4 DEF AddBuild, Works, TaskHolds, Doing
  <2> QED BY <1>4, <2>1, AddedRecord DEF AddBuild
<1>5. ASSUME NEW j \in BuildIds, NEW n \in Typed, RenameBuild(j, n)
      PROVE  builds'[i] # Nil /\ builds'[i].build = builds[i].build /\ gameDirs' = gameDirs
  BY <1>1, <1>5, RenamedRecord DEF RenameBuild
<1>6. ASSUME NEW j \in BuildIds, NEW files \in BOOLEAN, DeleteBuild(j, files)
      PROVE  \/ builds'[i] = builds[i] /\ gameDirs' = gameDirs
             \/ builds'[i] = Nil /\ deletions' > deletions
  BY <1>6 DEF DeleteBuild, BuildsTypeOK
<1>7. ASSUME DeleteFiles PROVE builds' = builds /\ (removal.id = i \/ gameDirs'[i] = gameDirs[i])
  BY <1>7 DEF DeleteFiles, BuildsTypeOK
<1>8. \/ builds' = builds /\ gameDirs' = gameDirs
      \/ InstallBegins \/ ClearDestination \/ CopyBegins \/ FilesComplete \/ AddBuild \/ DeleteFiles
      \/ \E j \in BuildIds, n \in Typed : RenameBuild(j, n)
      \/ \E j \in BuildIds, files \in BOOLEAN : DeleteBuild(j, files)
  BY DEF BuildsNext, CreateBuild, ImportBuild, CopyBuild, InstallModpack, StartModpack, Begin,
         OtherOperation, OpenHome, LeaveHome, ListPacks, ConfirmPack, AskPack, TaskFails, EndTask
<1> QED BY <1>1, <1>2, <1>3, <1>4, <1>5, <1>6, <1>7, <1>8 DEF StaysOrIsDeleted

\* No creation, import, copy or pack takes the place or the files of a build
\* whose id is its own, what is listed under such an id is complete, and the
\* home page offers nothing that is here or under way, for any number of
\* builds, names and packs, whatever ids they share (VersionStore, copy_version,
\* home page).
THEOREM BuildsStayKept == BuildsSpec => BuildsAreKept
<1>1. BuildsInv => OffersAreNew /\ ListedIsWhole BY DEF BuildsInv
<1>2. BuildsInv /\ [BuildsNext]_buildsVars =>
        [\A i \in BuildIds : HasOwnId(i) => StaysOrIsDeleted(i)]_buildsVars
  BY BuildStays
<1> QED BY BuildsInvKept, <1>1, <1>2, PTL DEF BuildsSpec, BuildsAreKept, OwnBuildsAreKept

-----------------------------------------------------------------------------
(* World backups *)

BackupJobs ==
    [step : {"idle", "next", "zip", "describe", "scan", "prune"}, kind : Kinds,
     left : SUBSET Worlds, failed : SUBSET Worlds, doomed : SUBSET Archive, disturbed : BOOLEAN]

BackupTypes ==
    /\ level \in [Worlds -> 0..MaxSaves]
    /\ archives \subseteq Archive
    /\ keep \in 1..MaxKeep
    /\ job \in BackupJobs
    /\ rows \in [of : SUBSET Worlds, shown : SUBSET Archive]
    /\ saves \in 0..MaxSaves /\ made \in 0..MaxBackups /\ stops \in 0..MaxStops

\* An archive is numbered in the order they are made; a world that is there is
\* not older than its archives.
ArchivesHold ==
    /\ \A a \in archives : a.folder = FolderOf[a.world] /\ a.nr <= made /\ a.stamp <= saves
    /\ \A a, b \in archives : a.nr = b.nr => a = b
    /\ \A w \in Worlds : level[w] <= saves
    /\ \A a \in archives : level[a.world] # 0 => a.stamp <= level[a.world]

RowsHold ==
    /\ \A a \in rows.shown : a.listed
    /\ rows.shown # {} => rows.of # {}

\* What pruning deletes, and what has just been written.
JobHolds ==
    /\ job.step \in {"zip", "describe", "scan", "prune"} => job.left # {}
    /\ \A a \in job.doomed : a.kind = "auto" /\ a.folder = FolderOf[Current]
    /\ job.step # "prune" => job.doomed = {}
    /\ job.step = "describe" =>
         \A a \in archives : Unlisted(a) =>
            a.kind = job.kind /\ a.world = Current /\ a.stamp = level[Current]

CopyOf(a, w) == a.world = w /\ a.kind = "auto" /\ a.listed /\ a.stamp = level[w]

\* The worlds whose turn has been and whose directory is their own have their copy, and the one whose turn it is
\* has it in an archive that pruning keeps.
CopiedSoFar ==
    job.kind = "auto" /\ ~job.disturbed =>
       /\ \A w \in Worlds \ job.left :
             level[w] = 0 \/ w \in job.failed \/ ~Alone(w) \/ \E a \in archives : CopyOf(a, w)
       /\ job.step = "scan" => \E a \in archives : CopyOf(a, Current) /\ a.nr = made
       /\ job.step = "prune" => \E a \in archives \ job.doomed : CopyOf(a, Current)

BackupInv == BackupTypes /\ ArchivesHold /\ RowsHold /\ JobHolds /\ CopiedSoFar

\* A set of numbers that is not empty has a least one.
LEMMA LeastNumber ==
    ASSUME NEW S \in SUBSET Nat, S # {} PROVE \E n \in S : \A m \in S : n <= m
<1> DEFINE R == OpToRel(<, Nat)
<1>1. IsWellFoundedOn(R, Nat) BY NatLessThanWellFounded, Zenon
<1>2. \A m, n \in Nat : m < n => <<m, n>> \in R BY Zenon DEF OpToRel
<1> HIDE DEF R
<1>3. PICK n \in S : \A m \in S : <<m, n>> \notin R BY <1>1, WFMin, Zenon
<1>4. \A m \in S : ~(m < n) BY <1>2, <1>3
<1> QED BY <1>4

\* The world whose turn it is is one of those left.
LEMMA CurrentIsLeft ==
    ASSUME BackupTypes, job.left # {} PROVE Current \in job.left /\ Current \in Worlds
<1>1. job.left \subseteq Worlds /\ Worlds \subseteq Nat
  BY BackupsAssumption DEF BackupTypes, BackupJobs
<1>2. PICK w \in job.left : \A v \in job.left : w <= v BY <1>1, LeastNumber
<1>3. Current \in job.left BY <1>2 DEF Current, Min
<1> QED BY <1>1, <1>3

\* The latest of some archives is one of them.
LEMMA LatestIsThere ==
    ASSUME NEW S \in SUBSET Archive, S # {} PROVE Latest(S) \in S
<1> DEFINE ages == {MaxBackups - a.nr : a \in S}
<1>1. MaxBackups \in Nat BY BackupsAssumption
<1>2. \A a \in S : a.nr \in 1..MaxBackups BY DEF Archive
<1>3. ages \subseteq Nat /\ ages # {} BY <1>1, <1>2
<1>4. PICK n \in ages : \A m \in ages : n <= m BY <1>3, LeastNumber
<1>5. PICK a \in S : n = MaxBackups - a.nr BY <1>4
<1>6. \A b \in S : b.nr <= a.nr BY <1>1, <1>2, <1>4, <1>5
<1> QED BY <1>5, <1>6 DEF Latest

\* Of a world that is there, alone in its directory, and needs no backup there is one as it is now.
LEMMA CopyIsThere ==
    ASSUME BackupTypes, ArchivesHold, NEW w \in Worlds, Alone(w), ~NeedsAutoBackup(w)
    PROVE  level[w] = 0 \/ \E a \in archives : CopyOf(a, w)
<1>1. AutoOf(w) \in SUBSET Archive /\ AutoOf(w) # {} BY DEF BackupTypes, AutoOf, Listed, NeedsAutoBackup
<1>2. PICK a \in AutoOf(w) : ~(a.stamp < level[w])
  BY <1>1, LatestIsThere DEF NeedsAutoBackup
<1>3. a \in archives /\ a.kind = "auto" /\ a.listed /\ a.folder = FolderOf[w] BY DEF AutoOf, Listed
<1>4. a.world = w /\ a.stamp \in Nat /\ level[w] \in Nat
  <2>1. a \in Archive /\ a.folder = FolderOf[a.world] BY <1>3 DEF BackupTypes, ArchivesHold
  <2>2. a.world \in Worlds /\ a.stamp \in 0..MaxSaves BY <2>1 DEF Archive
  <2>3. level[w] \in 0..MaxSaves BY DEF BackupTypes
  <2>4. a.world = w BY <1>3, <2>1, <2>2 DEF Alone
  <2>5. MaxSaves \in Nat BY BackupsAssumption
  <2> QED BY <2>2, <2>3, <2>4, <2>5
<1>5. level[w] # 0 => a.stamp <= level[w] BY <1>3, <1>4 DEF ArchivesHold
<1> QED BY <1>2, <1>3, <1>4, <1>5 DEF CopyOf

\* The newest automatic backup of a world is kept.
LEMMA NewestIsKept ==
    ASSUME BackupTypes, ArchivesHold, NEW w \in Worlds, NEW a \in archives, a.nr = made
    PROVE  a \notin Prunable(w)
<1>1. Newer(a, AutoOf(w)) = {}
  <2>1. \A b \in AutoOf(w) : b \in archives /\ b.nr \in Nat /\ b.nr <= made
    BY DEF AutoOf, Listed, ArchivesHold, BackupTypes, Archive
  <2>2. made \in Nat BY BackupsAssumption DEF BackupTypes
  <2> QED BY <2>1, <2>2 DEF Newer
<1>2. Cardinality(Newer(a, AutoOf(w))) = 0 BY <1>1, FS_EmptySet
<1>3. keep \in Nat /\ keep >= 1 BY BackupsAssumption DEF BackupTypes
<1> QED BY <1>2, <1>3 DEF Prunable

\* What the steps of the work do to its record.
LEMMA JobSteps ==
    ASSUME BackupTypes
    PROVE  /\ \A s \in {"idle", "next", "zip", "describe", "scan", "prune"} :
                 Goto(s) => job' = [job EXCEPT !.step = s] /\ job' \in BackupJobs
           /\ \A failed \in SUBSET Worlds : Done(failed) =>
                 /\ job' \in BackupJobs
                 /\ job'.step = "next" /\ job'.kind = job.kind /\ job'.disturbed = job.disturbed
                 /\ job'.left = job.left \ {Current} /\ job'.failed = job.failed \cup failed
                 /\ job'.doomed = {}
           /\ NoJob \in BackupJobs
           /\ \A set \in SUBSET archives, w \in Worlds :
                 RowsOf(w, set) \in [of : SUBSET Worlds, shown : SUBSET Archive]
<1>1. job \in BackupJobs /\ archives \subseteq Archive BY DEF BackupTypes
<1>2. ASSUME NEW failed \in SUBSET Worlds, Done(failed)
      PROVE  /\ job' \in BackupJobs
             /\ job'.step = "next" /\ job'.kind = job.kind /\ job'.disturbed = job.disturbed
             /\ job'.left = job.left \ {Current} /\ job'.failed = job.failed \cup failed
             /\ job'.doomed = {}
  BY <1>1, <1>2 DEF Done, BackupJobs
<1>3. \A s \in {"idle", "next", "zip", "describe", "scan", "prune"} :
         Goto(s) => job' = [job EXCEPT !.step = s] /\ job' \in BackupJobs
  BY <1>1 DEF Goto, BackupJobs
<1>4. NoJob \in BackupJobs BY DEF NoJob, BackupJobs, Kinds
<1>5. \A set \in SUBSET archives, w \in Worlds :
         RowsOf(w, set) \in [of : SUBSET Worlds, shown : SUBSET Archive]
  BY <1>1 DEF RowsOf
<1> QED BY <1>2, <1>3, <1>4, <1>5

LEMMA BackupTypesStep ==
    ASSUME BackupInv, BackupsNext PROVE BackupTypes'
<1> USE DEF BackupInv
<1>0. /\ MaxSaves \in Nat /\ MaxBackups \in Nat /\ MaxStops \in Nat
      /\ FolderOf \in [Worlds -> Folders]
  BY BackupsAssumption
<1>a. CASE BeginAuto
  <2>1. job' \in BackupJobs
    <3>1. {w \in Worlds : level[w] # 0} \in SUBSET Worlds OBVIOUS
    <3> QED BY <1>a, <3>1, JobSteps DEF BeginAuto, BackupJobs, Kinds
  <2> QED BY <1>a, <2>1 DEF BeginAuto, BackupTypes
<1>b. ASSUME NEW w \in Worlds, BeginManual(w) PROVE BackupTypes'
  <2>1. job' \in BackupJobs BY <1>b, JobSteps DEF BeginManual, BackupJobs
  <2> QED BY <1>b, <2>1 DEF BeginManual, BackupTypes
<1>c. CASE NextWorld
  <2>1. job' \in BackupJobs BY <1>c, JobSteps DEF NextWorld
  <2> QED BY <1>c, <2>1 DEF NextWorld, BackupTypes
<1>d. CASE EndOfWork
  BY <1>d, JobSteps DEF EndOfWork, BackupTypes
<1>e. CASE CreateZip
  <2>1. Current \in Worlds BY <1>e, CurrentIsLeft DEF CreateZip, JobHolds
  <2>2. job' \in BackupJobs BY <1>e, <2>1, JobSteps DEF CreateZip
  <2>3. archives' \subseteq Archive /\ made' \in 0..MaxBackups
    <3>1. CASE UNCHANGED <<archives, made>> BY <3>1 DEF BackupTypes
    <3>2. CASE /\ made < MaxBackups /\ made' = made + 1
               /\ archives' = archives \cup {[nr |-> made + 1, folder |-> FolderOf[Current],
                     world |-> Current, kind |-> job.kind, stamp |-> level[Current],
                     listed |-> FALSE]}
      <4>1. made + 1 \in 1..MaxBackups /\ level[Current] \in 0..MaxSaves /\ job.kind \in Kinds
            /\ FolderOf[Current] \in Folders
        BY <1>0, <2>1, <3>2 DEF BackupTypes, BackupJobs
      <4> DEFINE new == [nr |-> made + 1, folder |-> FolderOf[Current], world |-> Current,
                         kind |-> job.kind, stamp |-> level[Current], listed |-> FALSE]
      <4>2. new \in Archive BY <2>1, <4>1 DEF Archive
      <4>3. archives' = archives \cup {new} BY <3>2
      <4> HIDE DEF new
      <4>4. made' \in 0..MaxBackups BY <1>0, <3>2 DEF BackupTypes
      <4> QED BY <4>2, <4>3, <4>4 DEF BackupTypes
    <3> QED BY <1>e, <3>1, <3>2 DEF CreateZip
  <2> QED BY <1>e, <2>2, <2>3 DEF CreateZip, BackupTypes
<1>f. CASE DescribeBackup
  <2>1. Current \in Worlds BY <1>f, CurrentIsLeft DEF DescribeBackup, JobHolds
  <2>2. job' \in BackupJobs BY <1>f, <2>1, JobSteps DEF DescribeBackup
  <2>3. archives' \subseteq Archive
    <3>1. PICK a \in archives :
             archives' = (archives \ {a}) \cup {WithMetadata(a)} \/ archives' = archives \ {a}
      BY <1>f DEF DescribeBackup
    <3>2. a \in Archive /\ archives \subseteq Archive BY DEF BackupTypes
    <3>3. WithMetadata(a) \in Archive BY <3>2 DEF WithMetadata, Archive
    <3> QED BY <3>1, <3>2, <3>3
  <2>4. rows' \in [of : SUBSET Worlds, shown : SUBSET Archive]
    BY <1>f, <2>1, <2>3 DEF DescribeBackup, RowsOf, BackupTypes
  <2> QED BY <1>f, <2>2, <2>3, <2>4 DEF DescribeBackup, BackupTypes
<1>g. CASE ScanForPruning
  <2>1. Prunable(Current) \in SUBSET Archive BY DEF Prunable, AutoOf, Listed, BackupTypes
  <2>2. job' \in BackupJobs BY <1>g, <2>1 DEF ScanForPruning, BackupTypes, BackupJobs
  <2> QED BY <1>g, <2>2 DEF ScanForPruning, BackupTypes
<1>h. CASE Prune
  <2>1. Current \in Worlds BY <1>h, CurrentIsLeft DEF Prune, JobHolds
  <2>2. job' \in BackupJobs
    <3>1. CASE \E a \in job.doomed : job' = [job EXCEPT !.doomed = @ \ {a}]
      BY <3>1 DEF BackupTypes, BackupJobs
    <3> QED BY <1>h, <2>1, <3>1, JobSteps DEF Prune
  <2>3. archives' \subseteq archives BY <1>h DEF Prune
  <2> QED BY <1>h, <2>2, <2>3 DEF Prune, BackupTypes
<1>i. CASE LauncherStops
  <2>1. rows' \in [of : SUBSET Worlds, shown : SUBSET Archive] BY <1>i DEF LauncherStops, NoRows
  <2>2. stops' \in 0..MaxStops BY <1>0, <1>i DEF LauncherStops, BackupTypes
  <2> QED BY <1>i, <2>1, <2>2, JobSteps DEF LauncherStops, BackupTypes
<1>j. ASSUME NEW w \in Worlds, SaveWorld(w) \/ DeleteWorld(w) PROVE BackupTypes'
  <2>1. saves' \in 0..MaxSaves BY <1>0, <1>j DEF SaveWorld, DeleteWorld, BackupTypes
  <2>2. level' \in [Worlds -> 0..MaxSaves]
    <3>1. saves < MaxSaves => saves + 1 \in 0..MaxSaves BY <1>0 DEF BackupTypes
    <3>2. 0 \in 0..MaxSaves BY <1>0
    <3> QED BY <1>j, <3>1, <3>2 DEF SaveWorld, DeleteWorld, BackupTypes
  <2> QED BY <1>j, <2>1, <2>2 DEF SaveWorld, DeleteWorld, BackupTypes
<1>k. ASSUME NEW w \in Worlds, ShowBackups(w) PROVE BackupTypes'
  <2>1. rows' \in [of : SUBSET Worlds, shown : SUBSET Archive] BY <1>k, JobSteps DEF ShowBackups
  <2> QED BY <1>k, <2>1 DEF ShowBackups, BackupTypes
<1>l. CASE UseRow
  <2>1. PICK a \in rows.shown : DeleteBackup(a) \/ RestoreRow(a) BY <1>l DEF UseRow
  <2>2. CASE DeleteBackup(a)
    <3>1. (CHOOSE w \in rows.of : TRUE) \in Worlds
      BY DEF BackupTypes, RowsHold
    <3>2. rows' \in [of : SUBSET Worlds, shown : SUBSET Archive]
      <4>1. archives' \in SUBSET archives BY <2>2 DEF DeleteBackup
      <4> QED BY <2>2, <3>1, <4>1, JobSteps DEF DeleteBackup
    <3>3. job' \in BackupJobs BY <2>2 DEF DeleteBackup, BackupTypes, BackupJobs
    <3> QED BY <2>2, <3>2, <3>3 DEF DeleteBackup, BackupTypes
  <2>3. CASE RestoreRow(a)
    <3>1. a \in Archive BY DEF BackupTypes
    <3>2. a.world \in Worlds BY <3>1 DEF Archive
    <3>3. rows' \in [of : SUBSET Worlds, shown : SUBSET Archive]
      BY <2>3, <3>2, JobSteps DEF RestoreRow
    <3>4. saves + 1 \in 0..MaxSaves BY <1>0, <2>3 DEF RestoreRow, BackupTypes
    <3> QED BY <2>3, <3>3, <3>4 DEF RestoreRow, BackupTypes
  <2> QED BY <2>1, <2>2, <2>3
<1> QED BY <1>a, <1>b, <1>c, <1>d, <1>e, <1>f, <1>g, <1>h, <1>i, <1>j, <1>k, <1>l DEF BackupsNext

\* An archive that is on the disk after a step was there before, or has just been
\* written or described.
LEMMA ArchivesMove ==
    ASSUME BackupInv, BackupsNext
    PROVE  \/ archives' \subseteq archives /\ made' = made
           \/ /\ CreateZip /\ made' = made + 1 /\ made < MaxBackups /\ UNCHANGED level
              /\ Goto("describe")
              /\ archives' = archives \cup {[nr |-> made + 1, folder |-> FolderOf[Current],
                    world |-> Current, kind |-> job.kind, stamp |-> level[Current],
                    listed |-> FALSE]}
           \/ /\ DescribeBackup /\ UNCHANGED <<made, level>>
              /\ \E a \in archives : Unlisted(a)
                    /\ archives' = (archives \ {a}) \cup {WithMetadata(a)}
                    /\ \/ job.kind = "auto" /\ Goto("scan")
                       \/ job.kind = "manual" /\ job' = NoJob /\ rows' = RowsOf(Current, archives')
  BY DEF BackupsNext, BeginAuto, BeginManual, NextWorld, EndOfWork, CreateZip, DescribeBackup,
         ScanForPruning, Prune, LauncherStops, SaveWorld, DeleteWorld, ShowBackups, UseRow,
         DeleteBackup, RestoreRow

LEMMA LevelsMove ==
    ASSUME BackupInv, BackupsNext
    PROVE  /\ saves' = saves \/ saves' = saves + 1
           /\ \/ UNCHANGED level
              \/ job = NoJob /\ archives' = archives /\ \E w \in Worlds :
                   \/ level' = [level EXCEPT ![w] = saves + 1] /\ saves' = saves + 1
                   \/ level' = [level EXCEPT ![w] = 0] /\ saves' = saves
<1>1. \A a \in rows.shown : a.world \in Worlds BY DEF BackupInv, BackupTypes, Archive
<1> QED BY <1>1 DEF BackupsNext, BeginAuto, BeginManual, NextWorld, EndOfWork, CreateZip, DescribeBackup,
         ScanForPruning, Prune, LauncherStops, SaveWorld, DeleteWorld, ShowBackups, UseRow,
         DeleteBackup, RestoreRow

LEMMA ArchivesHoldStep ==
    ASSUME BackupInv, BackupsNext PROVE ArchivesHold'
<1> USE DEF BackupInv
<1>0. /\ MaxSaves \in Nat /\ MaxBackups \in Nat /\ saves \in Nat /\ made \in Nat
      /\ \A w \in Worlds : level[w] \in Nat
      /\ \A a \in archives : a.world \in Worlds /\ a.stamp \in Nat /\ a.nr \in Nat
  <2>1. MaxSaves \in Nat /\ MaxBackups \in Nat BY BackupsAssumption
  <2>2. \A a \in archives : a.world \in Worlds /\ a.stamp \in Nat /\ a.nr \in Nat
    BY <2>1 DEF BackupTypes, Archive
  <2> QED BY <2>1, <2>2 DEF BackupTypes
<1>1. CASE UNCHANGED level /\ archives' \subseteq archives /\ made' = made
  <2>1. saves' >= saves /\ saves' \in Nat BY <1>0, LevelsMove
  <2>2. \A a \in archives' : a.folder = FolderOf[a.world] /\ a.nr <= made' /\ a.stamp <= saves'
    BY <1>0, <1>1, <2>1 DEF ArchivesHold
  <2>3. \A w \in Worlds : level'[w] <= saves' BY <1>0, <1>1, <2>1 DEF ArchivesHold
  <2> QED BY <1>1, <2>2, <2>3 DEF ArchivesHold
<1>2. ASSUME archives' = archives, made' = made, NEW w \in Worlds,
             \/ level' = [level EXCEPT ![w] = saves + 1] /\ saves' = saves + 1
             \/ level' = [level EXCEPT ![w] = 0] /\ saves' = saves
      PROVE  ArchivesHold'
  <2>1. /\ \A v \in Worlds : v # w => level'[v] = level[v]
        /\ \/ level'[w] = saves + 1 /\ saves' = saves + 1
           \/ level'[w] = 0 /\ saves' = saves
    BY <1>2 DEF BackupTypes
  <2>2. \A a \in archives : a.folder = FolderOf[a.world] /\ a.nr <= made /\ a.stamp <= saves'
    BY <1>0, <2>1 DEF ArchivesHold
  <2>3. \A v \in Worlds : level'[v] <= saves' BY <1>0, <2>1 DEF ArchivesHold
  <2>4. \A a \in archives : level'[a.world] # 0 => a.stamp <= level'[a.world]
    BY <1>0, <2>1 DEF ArchivesHold
  <2>5. \A a, b \in archives : a.nr = b.nr => a = b BY DEF ArchivesHold
  <2> QED BY <1>2, <2>2, <2>3, <2>4, <2>5 DEF ArchivesHold
<1>3. CASE /\ CreateZip /\ made' = made + 1 /\ UNCHANGED level
           /\ archives' = archives \cup {[nr |-> made + 1, folder |-> FolderOf[Current],
                 world |-> Current, kind |-> job.kind, stamp |-> level[Current],
                 listed |-> FALSE]}
  <2> DEFINE new == [nr |-> made + 1, folder |-> FolderOf[Current], world |-> Current,
                     kind |-> job.kind, stamp |-> level[Current], listed |-> FALSE]
  <2>1. Current \in Worlds BY <1>3, CurrentIsLeft DEF CreateZip, JobHolds
  <2>2. saves' = saves BY <1>3 DEF CreateZip
  <2>3. new.nr = made + 1 /\ new.folder = FolderOf[new.world] /\ new.stamp = level[new.world]
        /\ new.world = Current
    OBVIOUS
  <2>4. archives' = archives \cup {new} BY <1>3
  <2> HIDE DEF new
  <2>5. \A a \in archives' : a.folder = FolderOf[a.world] /\ a.nr <= made' /\ a.stamp <= saves'
    BY <1>0, <1>3, <2>1, <2>2, <2>3, <2>4 DEF ArchivesHold
  <2>6. \A a, b \in archives' : a.nr = b.nr => a = b
    <3>1. \A a \in archives : a.nr # new.nr BY <1>0, <2>3 DEF ArchivesHold
    <3> QED BY <2>4, <3>1 DEF ArchivesHold
  <2>7. \A a \in archives' : level[a.world] # 0 => a.stamp <= level[a.world]
    BY <1>0, <2>1, <2>3, <2>4 DEF ArchivesHold
  <2> QED BY <1>3, <2>2, <2>5, <2>6, <2>7 DEF ArchivesHold
<1>4. ASSUME DescribeBackup, UNCHANGED <<made, level>>, NEW a \in archives,
             archives' = (archives \ {a}) \cup {WithMetadata(a)}
      PROVE  ArchivesHold'
  <2>1. saves' = saves BY <1>4 DEF DescribeBackup
  <2>2. a \in Archive BY DEF BackupTypes
  <2>3. /\ WithMetadata(a).nr = a.nr /\ WithMetadata(a).folder = a.folder
        /\ WithMetadata(a).world = a.world /\ WithMetadata(a).stamp = a.stamp
    BY <2>2 DEF WithMetadata, Archive
  <2>4. \A b \in archives' : \E c \in archives :
           b.nr = c.nr /\ b.folder = c.folder /\ b.world = c.world /\ b.stamp = c.stamp
    BY <1>4, <2>3
  <2>5. \A b, c \in archives' : b.nr = c.nr => b = c BY <1>4, <2>3 DEF ArchivesHold
  <2>6. \A b \in archives' : b.folder = FolderOf[b.world] /\ b.nr <= made /\ b.stamp <= saves
    BY <2>4 DEF ArchivesHold
  <2>7. \A b \in archives' : level[b.world] # 0 => b.stamp <= level[b.world]
    BY <2>4 DEF ArchivesHold
  <2> QED BY <1>4, <2>1, <2>5, <2>6, <2>7 DEF ArchivesHold
<1>5. archives' = archives /\ job = NoJob => made' = made
  <2>1. archives' = archives /\ job = NoJob => ~CreateZip BY DEF CreateZip, NoJob
  <2> QED BY <2>1, ArchivesMove DEF DescribeBackup
<1> QED BY <1>1, <1>2, <1>3, <1>4, <1>5, ArchivesMove, LevelsMove

LEMMA RowsHoldStep ==
    ASSUME BackupInv, BackupsNext PROVE RowsHold'
<1> USE DEF BackupInv
<1>1. rows' = rows \/ rows' = NoRows \/ \E w, disk : rows' = RowsOf(w, disk)
  BY DEF BackupsNext, BeginAuto, BeginManual, NextWorld, EndOfWork, CreateZip, DescribeBackup,
         ScanForPruning, Prune, LauncherStops, SaveWorld, DeleteWorld, ShowBackups, UseRow,
         DeleteBackup, RestoreRow
<1>2. CASE rows' = rows BY <1>2 DEF RowsHold
<1>3. CASE rows' = NoRows BY <1>3 DEF RowsHold, NoRows
<1>4. CASE \E w, disk : rows' = RowsOf(w, disk) BY <1>4 DEF RowsHold, RowsOf
<1> QED BY <1>1, <1>2, <1>3, <1>4

\* Between two steps of the work nothing is added and no world changes.
LEMMA JobWaits ==
    ASSUME BackupInv, BackupTypes', archives' \subseteq archives, made' = made,
           level' = level \/ job = NoJob,
           job'.step = job.step, job'.kind = job.kind, job'.left = job.left, job'.doomed = job.doomed
    PROVE  JobHolds'
<1> USE DEF BackupInv
<1>1. Current' = Current BY DEF Current
<1>2. CASE job = NoJob
  BY <1>2 DEF JobHolds, NoJob
<1>3. CASE level' = level
  <2>1. /\ job'.step \in {"zip", "describe", "scan", "prune"} => job'.left # {}
        /\ \A a \in job'.doomed : a.kind = "auto" /\ a.folder = FolderOf[Current']
        /\ job'.step # "prune" => job'.doomed = {}
    BY <1>1 DEF JobHolds
  <2>2. job'.step = "describe" =>
          \A a \in archives' : Unlisted(a)' => a.kind = job'.kind /\ a.world = Current'
                                               /\ a.stamp = level'[Current']
    BY <1>1, <1>3 DEF JobHolds, Unlisted
  <2> QED BY <2>1, <2>2 DEF JobHolds
<1> QED BY <1>2, <1>3

LEMMA JobHoldsStep ==
    ASSUME BackupInv, BackupTypes', BackupsNext PROVE JobHolds'
<1> USE DEF BackupInv
<1>0. job \in BackupJobs BY DEF BackupTypes
<1>1. ASSUME job'.step = "next" \/ job'.step = "idle", job'.doomed = {} PROVE JobHolds'
  BY <1>1 DEF JobHolds
<1>2. ASSUME job' = NoJob PROVE JobHolds' BY <1>1, <1>2 DEF NoJob
<1>3. ASSUME NEW failed \in SUBSET Worlds, Done(failed) PROVE JobHolds'
  BY <1>1, <1>3, JobSteps
<1>a. CASE BeginAuto
  <2>1. job'.step = "next" /\ job'.doomed = {} BY <1>a DEF BeginAuto, NoJob
  <2> QED BY <1>1, <2>1
<1>b. ASSUME NEW w \in Worlds, BeginManual(w) PROVE JobHolds'
  <2>1. job'.step = "zip" /\ job'.doomed = {} /\ job'.left = {w} BY <1>b DEF BeginManual, NoJob
  <2> QED BY <2>1 DEF JobHolds
<1>c. CASE NextWorld
  <2>1. CASE Done({}) BY <1>3, <2>1
  <2>2. CASE Goto("zip")
    <3>1. job'.step = "zip" /\ job'.doomed = job.doomed /\ job'.left = job.left /\ job.step = "next"
      BY <1>0, <1>c, <2>2 DEF Goto, NextWorld, BackupJobs
    <3> QED BY <1>c, <3>1 DEF JobHolds, NextWorld
  <2> QED BY <1>c, <2>1, <2>2 DEF NextWorld
<1>d. CASE EndOfWork BY <1>d, <1>2 DEF EndOfWork
<1>e. CASE CreateZip
  <2>1. CASE Done({Current})
    <3>1. Current \in Worlds BY <1>e, CurrentIsLeft DEF CreateZip, JobHolds
    <3> QED BY <1>3, <2>1, <3>1
  <2>2. CASE ~Done({Current})
    <3> DEFINE new == [nr |-> made + 1, folder |-> FolderOf[Current], world |-> Current,
                       kind |-> job.kind, stamp |-> level[Current], listed |-> FALSE]
    <3>1. archives' = archives \cup {new} /\ Goto("describe") /\ made' = made + 1 /\ level' = level
          /\ job.step = "zip"
      BY <1>e, <2>2 DEF CreateZip
    <3>2. /\ job'.step = "describe" /\ job'.left = job.left /\ job'.kind = job.kind
          /\ job'.doomed = job.doomed
      BY <1>0, <3>1 DEF Goto, BackupJobs
    <3>3. Current' = Current BY <3>2 DEF Current
    <3>4. new.kind = job.kind /\ new.world = Current /\ new.stamp = level[Current] OBVIOUS
    <3> HIDE DEF new
    <3>5. \A a \in archives : a.nr # made'
      <4>1. made \in Nat BY BackupsAssumption DEF BackupTypes
      <4>2. \A a \in archives : a.nr \in Nat /\ a.nr <= made
        BY BackupsAssumption DEF BackupTypes, Archive, ArchivesHold
      <4> QED BY <3>1, <4>1, <4>2
    <3>6. \A a \in archives' : Unlisted(a)' => a.kind = job'.kind /\ a.world = Current'
                                               /\ a.stamp = level'[Current']
      BY <3>1, <3>2, <3>3, <3>4, <3>5 DEF Unlisted
    <3> QED BY <3>1, <3>2, <3>6 DEF JobHolds
  <2> QED BY <2>1, <2>2
<1>f. CASE DescribeBackup
  <2>1. Current \in Worlds BY <1>f, CurrentIsLeft DEF DescribeBackup, JobHolds
  <2>2. CASE Goto("scan")
    <3>1. job'.step = "scan" /\ job'.doomed = job.doomed /\ job'.left = job.left
          /\ job.step = "describe"
      BY <1>0, <1>f, <2>2 DEF Goto, DescribeBackup, BackupJobs
    <3> QED BY <3>1 DEF JobHolds
  <2> QED BY <1>2, <1>3, <1>f, <2>1, <2>2 DEF DescribeBackup
<1>g. CASE ScanForPruning
  <2>1. job'.step = "prune" /\ job'.doomed = Prunable(Current) /\ job'.left = job.left
        /\ job.step = "scan"
    BY <1>0, <1>g DEF ScanForPruning, BackupJobs
  <2>2. Current' = Current BY <2>1 DEF Current
  <2>3. \A a \in Prunable(Current) : a.kind = "auto" /\ a.folder = FolderOf[Current]
    BY DEF Prunable, AutoOf, Listed
  <2> QED BY <2>1, <2>2, <2>3 DEF JobHolds
<1>h. CASE Prune
  <2>1. Current \in Worlds BY <1>h, CurrentIsLeft DEF Prune, JobHolds
  <2>2. ASSUME NEW a \in job.doomed, job' = [job EXCEPT !.doomed = @ \ {a}] PROVE JobHolds'
    <3>1. job'.step = job.step /\ job'.doomed \subseteq job.doomed /\ job'.left = job.left
          /\ job.step = "prune"
      BY <1>0, <1>h, <2>2 DEF Prune, BackupJobs
    <3>2. Current' = Current BY <3>1 DEF Current
    <3> QED BY <3>1, <3>2 DEF JobHolds
  <2>3. {Current} \in SUBSET Worlds /\ {} \in SUBSET Worlds BY <2>1
  <2> QED BY <1>3, <1>h, <2>2, <2>3 DEF Prune
<1>i. CASE LauncherStops BY <1>i, <1>2 DEF LauncherStops
<1>j. ASSUME NEW w \in Worlds, SaveWorld(w) \/ DeleteWorld(w) \/ ShowBackups(w) PROVE JobHolds'
  <2>1. archives' = archives /\ made' = made /\ job' = job /\ (level' = level \/ job = NoJob)
    BY <1>j DEF SaveWorld, DeleteWorld, ShowBackups
  <2> QED BY <2>1, JobWaits
<1>k. CASE UseRow
  <2>1. /\ archives' \subseteq archives /\ made' = made /\ (level' = level \/ job = NoJob)
        /\ job'.step = job.step /\ job'.kind = job.kind /\ job'.left = job.left
        /\ job'.doomed = job.doomed
    BY <1>0, <1>k DEF UseRow, DeleteBackup, RestoreRow, BackupJobs
  <2> QED BY <2>1, JobWaits
<1> QED BY <1>a, <1>b, <1>c, <1>d, <1>e, <1>f, <1>g, <1>h, <1>i, <1>j, <1>k DEF BackupsNext

LEMMA CopiedStep ==
    ASSUME BackupInv, BackupTypes', BackupsNext PROVE CopiedSoFar'
<1> USE DEF BackupInv
<1>0. job \in BackupJobs BY DEF BackupTypes
<1>1. ASSUME job'.kind = "manual" PROVE CopiedSoFar' BY <1>1 DEF CopiedSoFar
<1>2. ASSUME job' = NoJob PROVE CopiedSoFar' BY <1>1, <1>2 DEF NoJob
\* The turn of the world ends: those before it keep their copies, and so does it.
<1>3. ASSUME NEW failed \in SUBSET Worlds, Done(failed), level' = level, Current \in Worlds,
             \A a \in archives \ archives' : ~a.listed,
             job.kind = "auto" /\ ~job.disturbed =>
                level[Current] = 0 \/ Current \in failed \/ ~Alone(Current) \/ \E a \in archives : CopyOf(a, Current)
      PROVE  CopiedSoFar'
  <2>1. /\ job'.step = "next" /\ job'.kind = job.kind /\ job'.disturbed = job.disturbed
        /\ job'.left = job.left \ {Current} /\ job'.failed = job.failed \cup failed
    BY <1>3, JobSteps
  <2>2. \A w \in Worlds, a \in archives : CopyOf(a, w) => a \in archives' /\ CopyOf(a, w)'
    BY <1>3 DEF CopyOf
  <2>3. ASSUME job.kind = "auto", ~job.disturbed, NEW w \in Worlds \ job'.left
        PROVE  level'[w] = 0 \/ w \in job'.failed \/ ~Alone(w) \/ \E a \in archives' : CopyOf(a, w)'
    <3>1. CASE w = Current BY <1>3, <2>1, <2>2, <2>3, <3>1
    <3>2. CASE w # Current
      <4>1. level[w] = 0 \/ w \in job.failed \/ ~Alone(w) \/ \E a \in archives : CopyOf(a, w)
        BY <2>1, <2>3, <3>2 DEF CopiedSoFar
      <4> QED BY <1>3, <2>1, <2>2, <4>1
    <3> QED BY <3>1, <3>2
  <2>4. ASSUME job.kind = "auto", ~job.disturbed, NEW w \in Worlds \ job'.left
        PROVE  (level[w] = 0 \/ w \in job.failed \/ ~Alone(w) \/ \E a \in archives : CopyOf(a, w))'
    BY <2>3, <2>4
  <2> QED BY <2>1, <2>4 DEF CopiedSoFar
\* What is written or described joins what is there.
<1>4. ASSUME level' = level, job'.left = job.left, job'.failed = job.failed, job'.kind = job.kind,
             job'.disturbed = job.disturbed, \A a \in archives \ archives' : ~a.listed,
             job'.step \notin {"scan", "prune"}
      PROVE  CopiedSoFar'
  <2>1. \A w \in Worlds, a \in archives : CopyOf(a, w) => a \in archives' /\ CopyOf(a, w)'
    BY <1>4 DEF CopyOf
  <2> QED BY <1>4, <2>1 DEF CopiedSoFar
<1>a. CASE BeginAuto
  <2>1. /\ job'.step = "next" /\ job'.left = {w \in Worlds : level[w] # 0} /\ level' = level
    BY <1>a DEF BeginAuto, NoJob
  <2> QED BY <2>1 DEF CopiedSoFar
<1>b. ASSUME NEW w \in Worlds, BeginManual(w) PROVE CopiedSoFar'
  <2>1. job'.kind = "manual" BY <1>b DEF BeginManual, NoJob
  <2> QED BY <1>1, <2>1
<1>c. CASE NextWorld
  <2>1. Current \in Worlds BY <1>c, CurrentIsLeft DEF NextWorld
  <2>2. CASE NeedsAutoBackup(Current)
    <3>1. /\ job'.step = "zip" /\ job'.left = job.left /\ job'.failed = job.failed
          /\ job'.kind = job.kind /\ job'.disturbed = job.disturbed
      BY <1>0, <1>c, <2>2 DEF NextWorld, Goto, BackupJobs
    <3>2. level' = level /\ archives' = archives BY <1>c DEF NextWorld
    <3> QED BY <1>4, <3>1, <3>2
  <2>3. CASE ~NeedsAutoBackup(Current)
    <3>1. Done({}) /\ level' = level /\ archives' = archives BY <1>c, <2>3 DEF NextWorld
    <3>2. level[Current] = 0 \/ ~Alone(Current) \/ \E a \in archives : CopyOf(a, Current)
      BY <2>1, <2>3, CopyIsThere
    <3> QED BY <1>3, <2>1, <3>1, <3>2
  <2> QED BY <2>2, <2>3
<1>d. CASE EndOfWork BY <1>d, <1>2 DEF EndOfWork
<1>e. CASE CreateZip
  <2>1. Current \in Worlds BY <1>e, CurrentIsLeft DEF CreateZip, JobHolds
  <2>2. level' = level /\ archives \subseteq archives' BY <1>e DEF CreateZip
  <2>3. CASE Done({Current}) BY <1>3, <2>1, <2>2, <2>3
  <2>4. CASE Goto("describe")
    <3>1. /\ job'.step = "describe" /\ job'.left = job.left /\ job'.failed = job.failed
          /\ job'.kind = job.kind /\ job'.disturbed = job.disturbed
      BY <1>0, <2>4 DEF Goto, BackupJobs
    <3> QED BY <1>4, <2>2, <3>1
  <2> QED BY <1>e, <2>3, <2>4 DEF CreateZip
<1>f. CASE DescribeBackup
  <2>1. Current \in Worlds BY <1>f, CurrentIsLeft DEF DescribeBackup, JobHolds
  <2>2. PICK a \in archives : Unlisted(a) /\
           \/ /\ archives' = (archives \ {a}) \cup {WithMetadata(a)}
              /\ \/ job.kind = "auto" /\ Goto("scan")
                 \/ job' = NoJob
           \/ archives' = archives \ {a} /\ Done({Current})
    BY <1>f DEF DescribeBackup
  <2>3. level' = level /\ job.step = "describe" /\ made' = made BY <1>f DEF DescribeBackup
  <2>4. CASE Done({Current})
    <3>1. \A b \in archives \ archives' : ~b.listed BY <2>2 DEF Unlisted
    <3> QED BY <1>3, <2>1, <2>3, <2>4, <3>1
  <2>5. CASE /\ archives' = (archives \ {a}) \cup {WithMetadata(a)}
             /\ job.kind = "auto" /\ Goto("scan")
    <3>1. /\ job'.step = "scan" /\ job'.left = job.left /\ job'.failed = job.failed
          /\ job'.kind = job.kind /\ job'.disturbed = job.disturbed
      BY <1>0, <2>5 DEF Goto, BackupJobs
    <3>2. Current' = Current BY <3>1 DEF Current
    <3>3. \A w \in Worlds, b \in archives : CopyOf(b, w) => b \in archives' /\ CopyOf(b, w)'
      BY <2>2, <2>3, <2>5 DEF CopyOf, Unlisted
    <3>4. CopyOf(WithMetadata(a), Current)' /\ WithMetadata(a).nr = made'
      <4>1. a.kind = "auto" /\ a.world = Current /\ a.stamp = level[Current] /\ a.nr = made
        BY <2>2, <2>3, <2>5 DEF JobHolds, Unlisted
      <4>2. a \in Archive BY DEF BackupTypes
      <4>3. /\ WithMetadata(a).kind = "auto" /\ WithMetadata(a).world = Current
            /\ WithMetadata(a).stamp = level[Current] /\ WithMetadata(a).nr = made
            /\ WithMetadata(a).listed
        BY <4>1, <4>2 DEF WithMetadata, Archive
      <4> QED BY <2>3, <3>2, <4>3 DEF CopyOf
    <3>5. \E b \in archives' : CopyOf(b, Current)' /\ b.nr = made' BY <2>5, <3>4
    <3>6. ASSUME job.kind = "auto", ~job.disturbed, NEW w \in Worlds \ job'.left
          PROVE  (level[w] = 0 \/ w \in job.failed \/ ~Alone(w) \/ \E b \in archives : CopyOf(b, w))'
      BY <2>3, <3>1, <3>3, <3>6 DEF CopiedSoFar
    <3> QED BY <3>1, <3>5, <3>6 DEF CopiedSoFar
  <2> QED BY <1>2, <2>2, <2>4, <2>5
<1>g. CASE ScanForPruning
  <2>1. /\ job'.step = "prune" /\ job'.doomed = Prunable(Current) /\ job'.left = job.left
        /\ job'.failed = job.failed /\ job'.kind = job.kind /\ job'.disturbed = job.disturbed
        /\ job.step = "scan" /\ level' = level /\ archives' = archives
    BY <1>0, <1>g DEF ScanForPruning, BackupJobs
  <2>2. Current' = Current /\ Current \in Worlds
    BY <2>1, CurrentIsLeft DEF Current, JobHolds
  <2>3. \A a \in archives, w \in Worlds : CopyOf(a, w)' <=> CopyOf(a, w) BY <2>1 DEF CopyOf
  <2>4. job.kind = "auto" /\ ~job.disturbed =>
           \E a \in archives \ Prunable(Current) : CopyOf(a, Current)
    BY <2>1, <2>2, NewestIsKept DEF CopiedSoFar
  <2>5. job.kind = "auto" /\ ~job.disturbed =>
           \E a \in archives' \ job'.doomed : CopyOf(a, Current)'
    BY <2>1, <2>2, <2>3, <2>4
  <2> QED BY <2>1, <2>3, <2>5 DEF CopiedSoFar
<1>h. CASE Prune
  <2>1. Current \in Worlds /\ Current \in job.left BY <1>h, CurrentIsLeft DEF Prune, JobHolds
  <2>2. level' = level /\ job.step = "prune" BY <1>h DEF Prune
  <2>3. CASE job.doomed = {} /\ Done({}) /\ archives' = archives
    <3>1. job.kind = "auto" /\ ~job.disturbed => \E a \in archives : CopyOf(a, Current)
      BY <2>2 DEF CopiedSoFar
    <3> QED BY <1>3, <2>1, <2>2, <2>3, <3>1
  <2>4. CASE Done({Current}) /\ archives' = archives BY <1>3, <2>1, <2>2, <2>4
  <2>5. ASSUME NEW a \in job.doomed, archives' = archives \ {a},
               job' = [job EXCEPT !.doomed = @ \ {a}]
        PROVE  CopiedSoFar'
    <3>1. /\ job'.step = "prune" /\ job'.doomed = job.doomed \ {a} /\ job'.left = job.left
          /\ job'.failed = job.failed /\ job'.kind = job.kind /\ job'.disturbed = job.disturbed
      BY <1>0, <2>2, <2>5 DEF BackupJobs
    <3>2. Current' = Current BY <3>1 DEF Current
    <3>3. ASSUME a \in archives PROVE \A w \in Worlds \ {Current} : Alone(w) => a.world # w
      <4>1. a.world \in Worlds /\ a.folder = FolderOf[a.world] /\ a.folder = FolderOf[Current]
        BY <3>3, <2>5 DEF BackupTypes, Archive, ArchivesHold, JobHolds
      <4> QED BY <2>1, <4>1 DEF Alone
    <3>4. \A w \in Worlds \ {Current}, b \in archives :
             Alone(w) /\ CopyOf(b, w) => b \in archives' /\ CopyOf(b, w)'
      BY <2>2, <2>5, <3>3 DEF CopyOf
    <3>5. ASSUME job.kind = "auto", ~job.disturbed, NEW w \in Worlds \ job'.left
          PROVE  (level[w] = 0 \/ w \in job.failed \/ ~Alone(w) \/ \E b \in archives : CopyOf(b, w))'
      BY <2>1, <2>2, <3>1, <3>4, <3>5 DEF CopiedSoFar
    <3>6. ASSUME job.kind = "auto", ~job.disturbed
          PROVE  \E b \in archives' \ job'.doomed : CopyOf(b, Current)'
      <4>1. PICK b \in archives \ job.doomed : CopyOf(b, Current) BY <2>2, <3>6 DEF CopiedSoFar
      <4>2. CopyOf(b, Current)' BY <2>2, <3>2, <4>1 DEF CopyOf
      <4> QED BY <2>5, <3>1, <4>1, <4>2
    <3> QED BY <3>1, <3>5, <3>6 DEF CopiedSoFar
  <2> QED BY <1>h, <2>3, <2>4, <2>5 DEF Prune
<1>i. CASE LauncherStops BY <1>i, <1>2 DEF LauncherStops
<1>j. ASSUME NEW w \in Worlds, SaveWorld(w) \/ DeleteWorld(w) PROVE CopiedSoFar'
  BY <1>j, <1>2 DEF SaveWorld, DeleteWorld
<1>k. ASSUME NEW w \in Worlds, ShowBackups(w) PROVE CopiedSoFar'
  BY <1>k DEF ShowBackups, CopiedSoFar, CopyOf, Current
<1>l. CASE UseRow
  <2>1. PICK a \in rows.shown : DeleteBackup(a) \/ RestoreRow(a) BY <1>l DEF UseRow
  <2>2. CASE RestoreRow(a) BY <1>2, <2>2 DEF RestoreRow
  <2>3. CASE DeleteBackup(a)
    <3>1. job'.kind = job.kind /\ job'.disturbed = (job # NoJob)
      BY <1>0, <2>3 DEF DeleteBackup, BackupJobs
    <3>2. CASE job = NoJob BY <1>1, <3>1, <3>2 DEF NoJob
    <3>3. CASE job # NoJob BY <3>1, <3>3 DEF CopiedSoFar
    <3> QED BY <3>2, <3>3
  <2> QED BY <2>1, <2>2, <2>3
<1> QED BY <1>a, <1>b, <1>c, <1>d, <1>e, <1>f, <1>g, <1>h, <1>i, <1>j, <1>k, <1>l DEF BackupsNext

LEMMA BackupInvInit == BackupsInit => BackupInv
<1> SUFFICES ASSUME BackupsInit PROVE BackupInv OBVIOUS
<1>1. MaxSaves \in Nat /\ MaxBackups \in Nat /\ MaxStops \in Nat BY BackupsAssumption
<1>2. /\ level \in [Worlds -> 0..MaxSaves] /\ archives = {} /\ keep \in 1..MaxKeep
      /\ saves \in 0..MaxSaves /\ made \in 0..MaxBackups /\ stops \in 0..MaxStops
      /\ job = NoJob /\ rows = NoRows /\ saves = 0 /\ \A w \in Worlds : level[w] = 0
  BY <1>1 DEF BackupsInit
<1>3. NoJob \in BackupJobs BY DEF NoJob, BackupJobs, Kinds
<1>4. NoRows \in [of : SUBSET Worlds, shown : SUBSET Archive] BY DEF NoRows
<1>5. BackupTypes BY <1>2, <1>3, <1>4 DEF BackupTypes
<1>6. ArchivesHold BY <1>2 DEF ArchivesHold
<1>7. RowsHold BY <1>2 DEF RowsHold, NoRows
<1>8. JobHolds /\ CopiedSoFar BY <1>2 DEF JobHolds, CopiedSoFar, NoJob
<1> QED BY <1>5, <1>6, <1>7, <1>8 DEF BackupInv

\* The invariant that keeps the copies of the worlds.
LEMMA BackupInvKept == BackupsSpec => []BackupInv
<1>1. ASSUME BackupInv, BackupsNext PROVE BackupInv'
  <2>1. BackupTypes' BY <1>1, BackupTypesStep
  <2>2. ArchivesHold' BY <1>1, ArchivesHoldStep
  <2>3. RowsHold' BY <1>1, RowsHoldStep
  <2>4. JobHolds' BY <1>1, <2>1, JobHoldsStep
  <2>5. CopiedSoFar' BY <1>1, <2>1, CopiedStep
  <2> QED BY <2>1, <2>2, <2>3, <2>4, <2>5 DEF BackupInv
<1>2. ASSUME BackupInv, UNCHANGED backupVars PROVE BackupInv'
  <2>1. Current' = Current BY <1>2 DEF backupVars, Current
  <2>2. BackupTypes' /\ ArchivesHold' /\ RowsHold'
    BY <1>2 DEF BackupInv, backupVars, BackupTypes, ArchivesHold, RowsHold
  <2>3. JobHolds' BY <1>2, <2>1 DEF BackupInv, backupVars, JobHolds, Unlisted
  <2>4. CopiedSoFar' BY <1>2, <2>1 DEF BackupInv, backupVars, CopiedSoFar, CopyOf
  <2> QED BY <2>2, <2>3, <2>4 DEF BackupInv
<1> QED BY BackupInvInit, <1>1, <1>2, PTL DEF BackupsSpec

\* What leaves the disk is half-made, pruned or deleted in the page's list.
LEMMA ManualStay ==
    ASSUME BackupInv, BackupsNext, NEW a \in archives \ archives', a.kind = "manual", a.listed
    PROVE  a \in rows.shown \ rows'.shown
<1>1. UseRow
  <2>1. ~DescribeBackup BY DEF DescribeBackup, Unlisted
  <2>2. ~Prune BY DEF Prune, BackupInv, JobHolds
  <2>3. archives' = archives \/ \E r \in rows.shown : DeleteBackup(r) \/ RestoreRow(r) \/ CreateZip
    BY <2>1, <2>2 DEF BackupsNext, BeginAuto, BeginManual, NextWorld, EndOfWork, CreateZip,
         ScanForPruning, LauncherStops, SaveWorld, DeleteWorld, ShowBackups, UseRow
  <2>4. ~CreateZip BY DEF CreateZip
  <2> QED BY <2>3, <2>4 DEF UseRow
<1>2. PICK r \in rows.shown : DeleteBackup(r) \/ RestoreRow(r) BY <1>1 DEF UseRow
<1>3. r = a /\ archives' = archives \ {a} BY <1>2 DEF DeleteBackup, RestoreRow
<1>4. rows'.shown \subseteq archives' BY <1>2, <1>3 DEF DeleteBackup, RestoreRow, RowsOf
<1> QED BY <1>2, <1>3, <1>4

\* What is chosen for pruning has as many newer ones as are to be kept.
LEMMA NewestStay ==
    ASSUME BackupInv, BackupsNext, NEW a \in job'.doomed \ job.doomed
    PROVE  /\ Cardinality(NewerThere(a)) >= keep
           /\ Alone(a.world) => \A b \in NewerThere(a) : b.world = a.world
<1>0. job \in BackupJobs BY DEF BackupInv, BackupTypes
<1>1. ScanForPruning
  <2>1. job'.doomed \subseteq job.doomed \/ ScanForPruning
    <3>1. CASE Prune BY <1>0, <3>1 DEF Prune, Done, BackupJobs
    <3>a. ASSUME job' = NoJob PROVE job'.doomed = {} BY <3>a DEF NoJob
    <3>b. ASSUME NEW set, Done(set) PROVE job'.doomed = {} BY <1>0, <3>b DEF Done, BackupJobs
    <3>c. ASSUME NEW t, Goto(t) PROVE job'.doomed = job.doomed BY <1>0, <3>c DEF Goto, BackupJobs
    <3>2. CASE NextWorld \/ CreateZip \/ DescribeBackup
      BY <3>2, <3>a, <3>b, <3>c DEF NextWorld, CreateZip, DescribeBackup
    <3>3. CASE UseRow BY <1>0, <3>3 DEF UseRow, DeleteBackup, RestoreRow, BackupJobs
    <3>4. CASE \/ BeginAuto \/ EndOfWork \/ LauncherStops
               \/ \E w \in Worlds : BeginManual(w) \/ SaveWorld(w) \/ DeleteWorld(w) \/ ShowBackups(w)
      <4>1. CASE EndOfWork \/ LauncherStops BY <3>a, <4>1 DEF EndOfWork, LauncherStops
      <4>2. CASE BeginAuto
        <5>1. job'.doomed = {} BY <4>2 DEF BeginAuto, NoJob
        <5> QED BY <5>1
      <4>3. ASSUME NEW w \in Worlds, BeginManual(w) PROVE job'.doomed = {}
        BY <4>3 DEF BeginManual, NoJob
      <4>4. CASE \E w \in Worlds : SaveWorld(w) \/ DeleteWorld(w) \/ ShowBackups(w)
        BY <4>4 DEF SaveWorld, DeleteWorld, ShowBackups
      <4> QED BY <3>4, <4>1, <4>2, <4>3, <4>4
    <3> QED BY <3>1, <3>2, <3>3, <3>4 DEF BackupsNext
  <2> QED BY <2>1
<1>2. a \in Prunable(Current) BY <1>0, <1>1 DEF ScanForPruning, BackupJobs
<1>3. Current \in Worlds BY <1>1, CurrentIsLeft DEF ScanForPruning, BackupInv, JobHolds
<1>4. \A b \in archives : b.folder = FolderOf[b.world] /\ b.world \in Worlds
  BY <1>3 DEF BackupInv, BackupTypes, ArchivesHold, Archive
<1>5. a \in archives /\ a.folder = FolderOf[Current] BY <1>2 DEF Prunable, AutoOf, Listed
<1>6. NewerThere(a) = Newer(a, AutoOf(Current))
  BY <1>5 DEF NewerThere, Newer, AutoOf, Listed
<1>7. Alone(a.world) => \A b \in NewerThere(a) : b.world = a.world
  BY <1>4, <1>5 DEF NewerThere, Newer, Alone
<1> QED BY <1>2, <1>6, <1>7 DEF Prunable

\* Only the player removes a manual backup, pruning leaves each directory its newest
\* automatic backups, and an automatic backup that ends undisturbed has copied
\* every world that has changed and shares its directory with no other, whatever
\* directories _safe_name gives the worlds (WorldBackupService).
THEOREM BackupsStayKept == BackupsSpec => BackupsAreKept
<1>1. BackupInv /\ [BackupsNext]_backupVars =>
        [\A a \in archives \ archives' :
           a.kind = "manual" /\ a.listed => a \in rows.shown \ rows'.shown]_backupVars
  BY ManualStay
<1>2. BackupInv /\ [BackupsNext]_backupVars =>
        [\A a \in job'.doomed \ job.doomed :
           /\ Cardinality(NewerThere(a)) >= keep
           /\ Alone(a.world) => \A b \in NewerThere(a) : b.world = a.world]_backupVars
  BY NewestStay
<1>3. BackupInv /\ [BackupsNext]_backupVars =>
        [job.kind = "auto" /\ EndOfWork /\ ~job.disturbed =>
          \A w \in Worlds : level[w] = 0 \/ w \in job.failed \/ ~Alone(w)
              \/ \E a \in archives : a.world = w /\ a.kind = "auto" /\ a.listed
                                     /\ a.stamp = level[w]]_backupVars
  BY DEF BackupInv, CopiedSoFar, CopyOf, EndOfWork
<1> QED BY BackupInvKept, <1>1, <1>2, <1>3, PTL
        DEF BackupsSpec, BackupsAreKept, ManualBackupsStay, NewestStayPerWorld, ChangedWorldsAreCopied

-----------------------------------------------------------------------------
(* The plan of a mod *)

Dependencies == [to : Projects, exact : Nat, kind : {"required", "incompatible", "optional"}]

PlanTypes ==
    /\ catalogue \in [DOMAIN catalogue -> Seq(Dependencies)]
    /\ Main \in DOMAIN catalogue
    /\ inventory \in [Projects -> Nat]
    /\ queue \in Seq(Dependencies)
    /\ resolved \in [Projects -> Nat] /\ lastWalk \in [Projects -> Nat]
    /\ resolved[MainProject] = 0 /\ lastWalk[MainProject] = 0
    /\ pinned \in [Projects -> Nat] /\ pinned[MainProject] = MainRelease
    /\ traversed \subseteq Projects /\ MainProject \in traversed

\* What stands for a project that nothing requires in one release.
Preferred(p) == Resolve([to |-> p, exact |-> 0, kind |-> "required"])

\* A project has the release it is pinned to or the preferred one.
ResolvedFit ==
    \A p \in Projects \ {MainProject} :
        /\ pinned[p] # 0 => resolved[p] = pinned[p]
        /\ pinned[p] = 0 /\ resolved[p] # 0 => resolved[p] = Preferred(p)
        /\ resolved[p] # 0 <=> p \in traversed

\* The releases whose requirements the plan will have, if this walk is the last.
Counted(p) == p = MainProject \/ lastWalk[p] # 0
Source(p) == IF p = MainProject THEN Main ELSE <<p, lastWalk[p]>>

Waits(d) == \E j \in DOMAIN queue : queue[j] = d
Met(d) ==
    /\ d.kind = "required" => \/ d.to \in issues
                              \/ d.to = MainProject /\ d.exact \in {0, MainRelease}
                              \/ /\ d.to # MainProject /\ resolved[d.to] # 0
                                 /\ d.exact # 0 => pinned[d.to] = d.exact
    /\ d.kind = "incompatible" => d.to \in incompatible

\* What they declare has been met, noted or blocked, or waits in the queue.
Followed ==
    \A p \in traversed : Counted(p) =>
        /\ Source(p) \in DOMAIN catalogue
        /\ \A i \in DOMAIN catalogue[Source(p)] :
              Met(catalogue[Source(p)][i]) \/ Waits(catalogue[Source(p)][i])

\* Only what one of them requires, and Fabric's API, is brought.
WantedBy(p, q) ==
    Counted(q) => \E i \in DOMAIN catalogue[Source(q)] : catalogue[Source(q)][i].to = p
Wanted(p) == \E q \in traversed : WantedBy(p, q)
OnlyWanted ==
    /\ \A j \in DOMAIN queue : queue[j].to = FabricApi \/ Wanted(queue[j].to)
    /\ \A p \in traversed \ {MainProject, FabricApi} : Wanted(p)

PlanInv == planning => PlanTypes /\ ResolvedFit /\ Followed /\ OnlyWanted

LEMMA ResolveIsRelease ==
  ASSUME NEW d \in Dependencies, inventory \in [Projects -> Nat]
  PROVE  /\ Resolve(d) \in Nat
         /\ d.exact # 0 /\ Resolve(d) # 0 => Resolve(d) = d.exact
         /\ d.exact = 0 => Resolve(d) = Preferred(d.to)
<1>1. d.to \in Projects /\ Offered[d.to] \subseteq Nat \ {0}
  BY DependencyAssumption DEF Dependencies
<1>2. Offered[d.to] # {} => Newest(Offered[d.to]) \in Offered[d.to]
  BY <1>1, DependencyAssumption DEF Newest
<1>3. Resolve(d) \in Nat
  BY <1>1, <1>2 DEF Resolve, CurrentRelease, Dependencies
<1> QED
  BY <1>3 DEF Resolve, Preferred, CurrentRelease

LEMMA PlanBegins == PlanInit => PlanInv
<1> SUFFICES ASSUME PlanInit PROVE PlanInv
  OBVIOUS
<1>1. PICK list \in Lists : catalogue = [r \in {Main} |-> list] /\ queue = list
  BY DEF PlanInit, AskedFor
<1>2. list \in Seq(Dependencies) /\ MainRelease \in Nat \ {0} /\ MainProject \in Projects
      /\ inventory \in [Projects -> Nat]
  BY DependencyAssumption DEF Dependencies, PlanInit, AskedFor
<1>3. PlanTypes
  BY <1>1, <1>2 DEF PlanTypes, PlanInit, None0
<1>4. ResolvedFit
  BY <1>2 DEF ResolvedFit, PlanInit, None0
<1>5. traversed = {MainProject} /\ Source(MainProject) = Main /\ catalogue[Main] = queue
  BY <1>1 DEF PlanInit, Source
<1>6. Followed
  BY <1>1, <1>5 DEF Followed, Waits
<1>7. OnlyWanted
  BY <1>1, <1>5 DEF OnlyWanted, Wanted, WantedBy, Main
<1> QED
  BY <1>3, <1>4, <1>6, <1>7 DEF PlanInv

\* The first of the queue has been looked at.
LEMMA QueueMoves ==
  ASSUME queue \in Seq(Dependencies), queue # <<>>
  PROVE  /\ Dependency \in Dependencies
         /\ Tail(queue) \in Seq(Dependencies)
         /\ \A d : Waits(d) => d = Dependency \/ \E j \in DOMAIN Tail(queue) : Tail(queue)[j] = d
         /\ \A j \in DOMAIN Tail(queue) : j + 1 \in DOMAIN queue /\ Tail(queue)[j] = queue[j + 1]
         /\ \E j \in DOMAIN queue : queue[j] = Dependency
<1>1. 1 \in DOMAIN queue /\ Dependency = queue[1] /\ Dependency \in Dependencies
  BY DEF Dependency
<1>2. Tail(queue) \in Seq(Dependencies)
  OBVIOUS
<1>3. \A j \in DOMAIN Tail(queue) : j + 1 \in DOMAIN queue /\ Tail(queue)[j] = queue[j + 1]
  OBVIOUS
<1>4. ASSUME NEW j \in DOMAIN queue, j # 1
      PROVE  j - 1 \in DOMAIN Tail(queue) /\ Tail(queue)[j - 1] = queue[j]
  BY <1>4
<1> QED
  BY <1>1, <1>2, <1>3, <1>4 DEF Waits

\* What is known of the catalogue stays.
LEMMA WantedStays ==
  ASSUME Followed, traversed \subseteq traversed', lastWalk' = lastWalk,
         \A s \in DOMAIN catalogue : s \in DOMAIN catalogue' /\ catalogue'[s] = catalogue[s],
         NEW r, Wanted(r)
  PROVE  Wanted(r)'
<1>1. PICK q \in traversed : WantedBy(r, q)
  BY DEF Wanted
<1>2. Counted(q) => Source(q) \in DOMAIN catalogue
  BY <1>1 DEF Followed
<1>3. WantedBy(r, q)'
  BY <1>1, <1>2 DEF WantedBy, Counted, Source
<1> QED
  BY <1>1, <1>3 DEF Wanted

\* A dependency that is met and changes nothing but what is in the way.
LEMMA DropKeeps ==
  ASSUME PlanTypes, ResolvedFit, Followed, OnlyWanted, queue # <<>>, Drop,
         UNCHANGED <<catalogue, inventory, resolved, lastWalk, pinned, traversed>>,
         issues \subseteq issues', incompatible \subseteq incompatible',
         NEW first, first = Dependency, Met(first)'
  PROVE  (PlanTypes /\ ResolvedFit /\ Followed /\ OnlyWanted)'
<1>1. /\ queue' \in Seq(Dependencies)
      /\ \A d : Waits(d) => d = first \/ Waits(d)'
      /\ \A j \in DOMAIN queue' : j + 1 \in DOMAIN queue /\ queue'[j] = queue[j + 1]
  BY QueueMoves DEF PlanTypes, Drop, Waits
<1>2. PlanTypes'
  BY <1>1 DEF PlanTypes
<1>3. ResolvedFit'
  BY DEF ResolvedFit, Preferred, Resolve, CurrentRelease
<1>4. \A d : Met(d) => Met(d)'
  BY DEF Met
<1>5. Followed'
  BY <1>1, <1>4 DEF Followed, Counted, Source
<1>6. \A r : Wanted(r) => Wanted(r)'
  BY WantedStays
<1>7. OnlyWanted'
  BY <1>1, <1>6 DEF OnlyWanted
<1> QED
  BY <1>2, <1>3, <1>5, <1>7

LEMMA TakeKeeps ==
  ASSUME PlanTypes, ResolvedFit, Followed, OnlyWanted, TakeRequired
  PROVE  (PlanTypes /\ ResolvedFit /\ Followed /\ OnlyWanted)'
<1> DEFINE d0 == Dependency
           p0 == d0.to
           taken == Resolve(d0)
           source == <<p0, Chosen(p0, taken)>>
<1>1. /\ queue \in Seq(Dependencies) /\ queue # <<>> /\ d0.kind = "required"
      /\ p0 # MainProject /\ taken # 0 /\ ~Conflicts
      /\ UNCHANGED <<inventory, lastWalk, issues, incompatible, planning>>
  BY DEF TakeRequired, Walking, RestStays, PlanTypes
<1>2. d0 \in Dependencies /\ p0 \in Projects /\ d0.exact \in Nat
  BY <1>1, QueueMoves DEF Dependencies
<1>3. /\ taken \in Nat
      /\ d0.exact # 0 => taken = d0.exact
      /\ d0.exact = 0 => taken = Preferred(p0)
  BY <1>1, <1>2, ResolveIsRelease DEF PlanTypes
<1>4. /\ pinned' = [pinned EXCEPT ![p0] = IF d0.exact = 0 THEN @ ELSE d0.exact]
      /\ resolved' = [resolved EXCEPT ![p0] =
             IF resolved[p0] = 0 \/ d0.exact # 0 \/ (pinned[p0] = 0 /\ taken > resolved[p0])
             THEN taken ELSE @]
      /\ traversed' = traversed \cup {p0}
  BY DEF TakeRequired
<1>5. d0.exact # 0 => pinned[p0] \in {0, d0.exact}
  BY <1>1 DEF Conflicts
<1>6. /\ pinned' \in [Projects -> Nat] /\ resolved' \in [Projects -> Nat]
      /\ traversed' \subseteq Projects
      /\ pinned'[MainProject] = MainRelease /\ resolved'[MainProject] = 0
      /\ \A p \in Projects \ {p0} : pinned'[p] = pinned[p] /\ resolved'[p] = resolved[p]
  BY <1>1, <1>2, <1>3, <1>4, DependencyAssumption DEF PlanTypes
<1>7. /\ pinned[p0] # 0 => pinned'[p0] = pinned[p0] /\ resolved'[p0] = pinned[p0]
      /\ pinned[p0] = 0 => pinned'[p0] = d0.exact
      /\ pinned[p0] = 0 /\ d0.exact # 0 => resolved'[p0] = d0.exact
      /\ pinned[p0] = 0 /\ d0.exact = 0 => resolved'[p0] = Preferred(p0)
      /\ resolved'[p0] # 0
  <2> HIDE DEF d0, p0, taken, source
  <2>1. /\ pinned[p0] # 0 => resolved[p0] = pinned[p0]
        /\ pinned[p0] = 0 /\ resolved[p0] # 0 => resolved[p0] = Preferred(p0)
    BY <1>1, <1>2 DEF ResolvedFit
  <2>2. /\ pinned'[p0] = IF d0.exact = 0 THEN pinned[p0] ELSE d0.exact
        /\ resolved'[p0] =
             IF resolved[p0] = 0 \/ d0.exact # 0 \/ (pinned[p0] = 0 /\ taken > resolved[p0])
             THEN taken ELSE resolved[p0]
    BY <1>2, <1>4 DEF PlanTypes
  <2> QED
    BY <1>1, <1>3, <1>5, <2>1, <2>2
<1>8. ResolvedFit'
  <2> HIDE DEF d0, p0, taken, source
  <2>1. \A p : Preferred(p)' = Preferred(p)
    BY <1>1 DEF Preferred, Resolve, CurrentRelease
  <2>2. ASSUME NEW p \in Projects \ {MainProject}
        PROVE  /\ pinned'[p] # 0 => resolved'[p] = pinned'[p]
               /\ pinned'[p] = 0 /\ resolved'[p] # 0 => resolved'[p] = Preferred(p)
               /\ resolved'[p] # 0 <=> p \in traversed'
    <3>1. CASE p = p0
      BY <1>4, <1>7, <3>1
    <3>2. CASE p # p0
      BY <1>4, <1>6, <3>2 DEF ResolvedFit
    <3> QED
      BY <3>1, <3>2
  <2> QED
    BY <2>1, <2>2 DEF ResolvedFit
<1>9. ASSUME NEW d \in Dependencies, Met(d)
      PROVE  Met(d)'
  <2> HIDE DEF d0, p0, taken, source
  <2>1. resolved[d.to] # 0 => resolved'[d.to] # 0
    BY <1>6, <1>7 DEF Dependencies
  <2>2. d.exact # 0 /\ pinned[d.to] = d.exact => pinned'[d.to] = d.exact
    BY <1>6, <1>7 DEF Dependencies
  <2> QED
    BY <1>1, <1>9, <2>1, <2>2 DEF Met
<1>10. \A d : d = d0 => Met(d)'
  <2>1. pinned'[p0] = d0.exact \/ d0.exact = 0
    BY <1>5, <1>7
  <2>2. ASSUME NEW d, d = d0 PROVE Met(d)'
    BY <1>1, <1>7, <2>1, <2>2 DEF Met
  <2> QED
    BY <2>2
<1>11. /\ catalogue' \in [DOMAIN catalogue' -> Seq(Dependencies)]
       /\ \A s \in DOMAIN catalogue : s \in DOMAIN catalogue' /\ catalogue'[s] = catalogue[s]
       /\ queue' \in Seq(Dependencies)
       /\ \A j \in DOMAIN Tail(queue) : \E k \in DOMAIN queue' : queue'[k] = Tail(queue)[j]
       /\ \A k \in DOMAIN queue' :
            \/ \E j \in DOMAIN Tail(queue) : queue'[k] = Tail(queue)[j]
            \/ p0 \notin traversed /\ \E i \in DOMAIN catalogue'[source] : queue'[k] = catalogue'[source][i]
       /\ p0 \notin traversed =>
            /\ source \in DOMAIN catalogue'
            /\ \A i \in DOMAIN catalogue'[source] :
                 \E k \in DOMAIN queue' : queue'[k] = catalogue'[source][i]
  <2>1. Tail(queue) \in Seq(Dependencies)
    BY <1>1
  <2>2. CASE p0 \in traversed
    <3>1. queue' = Tail(queue) /\ catalogue' = catalogue
      BY <2>2 DEF TakeRequired, Drop
    <3> QED
      BY <2>1, <2>2, <3>1 DEF PlanTypes
  <2>3. CASE p0 \notin traversed
    <3>1. PICK list \in Answered(source) :
             /\ catalogue' = [r \in DOMAIN catalogue \cup {source} |->
                                IF r = source THEN list ELSE catalogue[r]]
             /\ queue' = Tail(queue) \o list
      BY <2>3 DEF TakeRequired
    <3> HIDE DEF d0, p0, taken, source
    <3>2. list \in Seq(Dependencies) /\ (source \in DOMAIN catalogue => list = catalogue[source])
      BY <3>1, DependencyAssumption DEF Answered, PlanTypes, Dependencies
    <3>3. source \in DOMAIN catalogue' /\ catalogue'[source] = list
      BY <3>1
    <3>4. \A s \in DOMAIN catalogue : s \in DOMAIN catalogue' /\ catalogue'[s] = catalogue[s]
      BY <3>1, <3>2
    <3>5. catalogue' \in [DOMAIN catalogue' -> Seq(Dependencies)]
      BY <3>1, <3>2 DEF PlanTypes
    <3>6. queue' \in Seq(Dependencies)
      BY <2>1, <3>1, <3>2
    <3>7. \A j \in DOMAIN Tail(queue) : j \in DOMAIN queue' /\ queue'[j] = Tail(queue)[j]
      BY <2>1, <3>1, <3>2
    <3>8. \A i \in DOMAIN list :
             /\ Len(Tail(queue)) + i \in DOMAIN queue'
             /\ queue'[Len(Tail(queue)) + i] = list[i]
      BY <2>1, <3>1, <3>2
    <3>9. ASSUME NEW k \in DOMAIN queue'
          PROVE  \/ k \in DOMAIN Tail(queue) /\ queue'[k] = Tail(queue)[k]
                 \/ k - Len(Tail(queue)) \in DOMAIN list /\ queue'[k] = list[k - Len(Tail(queue))]
      BY <2>1, <3>1, <3>2
    <3>10. \A k \in DOMAIN queue' :
              \/ \E j \in DOMAIN Tail(queue) : queue'[k] = Tail(queue)[j]
              \/ \E i \in DOMAIN list : queue'[k] = list[i]
      BY <3>9
    <3> QED
      BY <2>3, <3>3, <3>4, <3>5, <3>6, <3>7, <3>8, <3>10
  <2> QED
    BY <2>2, <2>3
<1>12. \A d : Waits(d) => d = d0 \/ Waits(d)'
  <2>1. ASSUME NEW d, Waits(d), d # d0
        PROVE  \E j \in DOMAIN queue' : queue'[j] = d
    BY <1>1, <1>11, <2>1, QueueMoves
  <2> QED
    BY <2>1 DEF Waits
<1>13. PlanTypes'
  BY <1>1, <1>4, <1>6, <1>11 DEF PlanTypes
<1>14. Followed'
  <2> HIDE DEF d0, p0, taken
  <2> SUFFICES ASSUME NEW p \in traversed', Counted(p)
               PROVE  /\ Source(p) \in DOMAIN catalogue'
                      /\ \A i \in DOMAIN catalogue'[Source(p)] :
                            \A d : d = catalogue'[Source(p)][i] => Met(d)' \/ Waits(d)'
    BY <1>1 DEF Followed, Counted, Source
  <2>1. CASE p \in traversed
    <3>1. /\ Source(p) \in DOMAIN catalogue /\ Source(p) \in DOMAIN catalogue'
          /\ catalogue'[Source(p)] = catalogue[Source(p)]
          /\ catalogue[Source(p)] \in Seq(Dependencies)
      BY <1>11, <2>1 DEF Followed, PlanTypes
    <3>2. ASSUME NEW i \in DOMAIN catalogue[Source(p)], NEW d, d = catalogue[Source(p)][i]
          PROVE  Met(d)' \/ Waits(d)'
      <4>1. d \in Dependencies /\ (Met(d) \/ Waits(d))
        BY <2>1, <3>1, <3>2 DEF Followed
      <4> QED
        BY <1>9, <1>10, <1>12, <4>1
    <3> QED
      BY <3>1, <3>2
  <2>2. CASE p \notin traversed
    <3>1. p = p0 /\ p0 \notin traversed
      BY <1>4, <2>2
    <3>2. Source(p) = source
      BY <1>1, <3>1 DEF Source, Counted, Chosen
    <3>3. Source(p) \in DOMAIN catalogue'
      BY <1>11, <3>1, <3>2
    <3>4. ASSUME NEW i \in DOMAIN catalogue'[Source(p)], NEW d, d = catalogue'[Source(p)][i]
          PROVE  \E k \in DOMAIN queue' : queue'[k] = d
      BY <1>11, <3>1, <3>2, <3>4
    <3> QED
      BY <3>3, <3>4 DEF Waits
  <2> QED
    BY <2>1, <2>2
<1>15. \A r : Wanted(r) => Wanted(r)'
  BY <1>1, <1>4, <1>11, WantedStays
<1>16. OnlyWanted'
  <2> HIDE DEF d0, p0, taken
  <2>1. ASSUME NEW k \in DOMAIN queue', NEW r, r = queue'[k].to
        PROVE  r = FabricApi \/ Wanted(r)'
    <3>1. CASE \E j \in DOMAIN Tail(queue) : queue'[k] = Tail(queue)[j]
      <4>1. PICK j \in DOMAIN Tail(queue) : queue'[k] = Tail(queue)[j]
        BY <3>1
      <4>2. j + 1 \in DOMAIN queue /\ r = queue[j + 1].to
        BY <1>1, <2>1, <4>1, QueueMoves
      <4>3. r = FabricApi \/ Wanted(r)
        BY <4>2 DEF OnlyWanted
      <4> QED
        BY <1>15, <4>3
    <3>2. CASE p0 \notin traversed /\ \E i \in DOMAIN catalogue'[source] : queue'[k] = catalogue'[source][i]
      <4>1. p0 \in traversed'
        BY <1>4
      <4>2. Counted(p0) => Source(p0) = source
        BY <1>1 DEF Source, Counted, Chosen
      <4>3. \A q : q = p0 => WantedBy(r, q)'
        BY <1>1, <2>1, <3>2, <4>2 DEF WantedBy, Counted, Source
      <4> QED
        BY <4>1, <4>3 DEF Wanted
    <3> QED
      BY <1>11, <3>1, <3>2
  <2>2. ASSUME NEW r \in traversed' \ {MainProject, FabricApi}
        PROVE  Wanted(r)'
    <3>1. CASE r \in traversed
      BY <1>15, <2>2, <3>1 DEF OnlyWanted
    <3>2. CASE r \notin traversed
      <4>1. r = p0 /\ r # FabricApi
        BY <1>4, <2>2, <3>2
      <4>2. \E j \in DOMAIN queue : queue[j].to = r
        BY <1>1, <4>1, QueueMoves DEF d0, p0
      <4> QED
        BY <1>15, <4>1, <4>2 DEF OnlyWanted
    <3> QED
      BY <3>1, <3>2
  <2> QED
    BY <2>1, <2>2 DEF OnlyWanted
<1> QED
  BY <1>8, <1>13, <1>14, <1>16

LEMMA PlanSteps == PlanInv /\ [PlanNext]_planVars => PlanInv'
<1> SUFFICES ASSUME PlanInv, [PlanNext]_planVars, planning' PROVE (PlanTypes /\ ResolvedFit /\ Followed /\ OnlyWanted)'
  BY DEF PlanInv
<1>1. planning
  BY DEF PlanNext, planVars, ShowOptional, NoteIncompatible, BlockRequired, RequireMain,
         TakeRequired, AddFabricApi, WalkAgain, MakePlan, Walking, WalkEnded
<1>2. PlanTypes /\ ResolvedFit /\ Followed /\ OnlyWanted
  BY <1>1 DEF PlanInv
<1>3. CASE ShowOptional
  <2>1. \A d : d = Dependency => Met(d)'
    BY <1>3 DEF ShowOptional, Walking, Met
  <2> QED
    BY <1>2, <1>3, <2>1, DropKeeps DEF ShowOptional, Walking, RestStays
<1>4. CASE NoteIncompatible
  <2>1. \A d : d = Dependency => Met(d)'
    BY <1>4 DEF NoteIncompatible, Walking, Met
  <2> QED
    BY <1>2, <1>4, <2>1, DropKeeps DEF NoteIncompatible, Walking, RestStays
<1>5. CASE BlockRequired
  <2>1. \A d : d = Dependency => Met(d)'
    BY <1>5 DEF BlockRequired, BlocksPlan, Walking, Met
  <2>2. issues \subseteq issues'
    BY <1>5 DEF BlockRequired, BlocksPlan
  <2> QED
    BY <1>2, <1>5, <2>1, <2>2, DropKeeps DEF BlockRequired, Walking, RestStays
<1>6. CASE RequireMain
  <2>1. Dependency.exact \in {0, MainRelease}
    BY <1>2, <1>6, DependencyAssumption DEF RequireMain, Conflicts, PlanTypes
  <2>2. \A d : d = Dependency => Met(d)'
    BY <1>6, <2>1 DEF RequireMain, Walking, Met
  <2> QED
    BY <1>2, <1>6, <2>2, DropKeeps DEF RequireMain, Walking, RestStays
<1>7. CASE TakeRequired
  BY <1>2, <1>7, TakeKeeps
<1>8. CASE AddFabricApi
  <2>1. /\ queue = <<>>
        /\ UNCHANGED <<catalogue, inventory, resolved, lastWalk, pinned, traversed,
                       incompatible, issues>>
    BY <1>8 DEF AddFabricApi
  <2>8. ASSUME NEW api, api = [to |-> FabricApi, exact |-> 0, kind |-> "required"]
        PROVE  api \in Dependencies /\ (queue' = <<>> \/ queue' = <<api>>)
    BY <1>8, <2>8, DependencyAssumption DEF AddFabricApi, Dependencies
  <2>9. queue' \in Seq(Dependencies) /\ \A j \in DOMAIN queue' : queue'[j].to = FabricApi
    <3>1. PICK api : api = [to |-> FabricApi, exact |-> 0, kind |-> "required"]
      OBVIOUS
    <3>2. api \in Dependencies /\ (queue' = <<>> \/ queue' = <<api>>) /\ api.to = FabricApi
      BY <2>8, <3>1
    <3>3. CASE queue' = <<>>
      BY <3>3
    <3>4. CASE queue' = <<api>>
      BY <3>2, <3>4
    <3> QED
      BY <3>2, <3>3, <3>4
  <2>2. PlanTypes'
    BY <1>2, <2>1, <2>9 DEF PlanTypes
  <2>3. ResolvedFit'
    BY <1>2, <2>1 DEF ResolvedFit, Preferred, Resolve, CurrentRelease
  <2>4. \A d : Met(d) \/ Waits(d) => Met(d)'
    BY <2>1 DEF Met, Waits
  <2>5. Followed'
    BY <1>2, <2>1, <2>4 DEF Followed, Counted, Source
  <2>6. \A r : Wanted(r) => Wanted(r)'
    BY <1>2, <2>1, WantedStays
  <2>7. OnlyWanted'
    BY <1>2, <2>1, <2>6, <2>9 DEF OnlyWanted
  <2> QED
    BY <2>2, <2>3, <2>5, <2>7
<1>9. CASE WalkAgain
  <2>1. /\ queue' = catalogue[Main] /\ resolved' = None0 /\ traversed' = {MainProject}
        /\ pinned' = [None0 EXCEPT ![MainProject] = MainRelease]
        /\ lastWalk' = resolved
        /\ UNCHANGED <<catalogue, inventory>>
    BY <1>9 DEF WalkAgain, StartWalk
  <2>2. MainRelease \in Nat \ {0} /\ MainProject \in Projects
    BY DependencyAssumption
  <2>3. PlanTypes'
    BY <1>2, <2>1, <2>2 DEF PlanTypes, None0
  <2>4. ResolvedFit'
    BY <2>1, <2>2 DEF ResolvedFit, None0
  <2>5. Source(MainProject)' = Main /\ Source(MainProject) = Main
    BY DEF Source
  <2>6. Followed'
    BY <1>2, <2>1, <2>5 DEF Followed, Waits, PlanTypes
  <2>7. OnlyWanted'
    BY <1>2, <2>1, <2>5 DEF OnlyWanted, Wanted, WantedBy, PlanTypes
  <2> QED
    BY <2>3, <2>4, <2>6, <2>7
<1>10. CASE MakePlan
  BY <1>10 DEF MakePlan
<1>11. CASE UNCHANGED planVars
  <2>1. UNCHANGED <<catalogue, inventory, queue, resolved, lastWalk, pinned, traversed,
                    incompatible, issues>>
    BY <1>11 DEF planVars
  <2>2. PlanTypes' /\ ResolvedFit'
    BY <1>2, <2>1 DEF PlanTypes, ResolvedFit, Preferred, Resolve, CurrentRelease
  <2>3. Followed'
    BY <1>2, <2>1 DEF Followed, Counted, Source, Met, Waits
  <2>4. \A r : Wanted(r) => Wanted(r)'
    BY <1>2, <2>1, WantedStays
  <2>5. OnlyWanted'
    BY <1>2, <2>1, <2>4 DEF OnlyWanted
  <2> QED
    BY <2>2, <2>3, <2>5
<1> QED
  BY <1>3, <1>4, <1>5, <1>6, <1>7, <1>8, <1>9, <1>10, <1>11 DEF PlanNext

\* What a made plan carries out is what the walk resolved.
LEMMA AfterIsResolved ==
  ASSUME PlanTypes, ResolvedFit, NEW p \in Projects \ {MainProject}, resolved[p] # 0
  PROVE  After[p] = resolved[p]
<1>1. After[p] = IF CandidateAction(p, pinned[p] # 0) = "satisfied" THEN inventory[p] ELSE resolved[p]
  BY DEF After
<1>2. resolved[p] \in Nat \ {0} /\ inventory[p] \in Nat /\ pinned[p] \in Nat
  BY DEF PlanTypes
<1>3. CurrentRelease(p) = inventory[p] \/ CurrentRelease(p) = 0
  BY DEF CurrentRelease
<1>4. CASE pinned[p] = 0 /\ CurrentRelease(p) # 0
  <2>1. resolved[p] = Preferred(p)
    BY <1>4 DEF ResolvedFit
  <2>2. Preferred(p) = CurrentRelease(p)
    BY <1>4 DEF Preferred, Resolve
  <2> QED
    BY <1>1, <1>3, <1>4, <2>1, <2>2
<1>5. CASE ~(pinned[p] = 0 /\ CurrentRelease(p) # 0)
  BY <1>1, <1>2, <1>3, <1>5 DEF CandidateAction, IsInstalled
<1> QED
  BY <1>4, <1>5

\* The conclusion of PlanIsClosed, of the walk's end.
Closed ==
    /\ \A p \in Candidates : <<p, After[p]>> \in DOMAIN catalogue
    /\ \A p \in Candidates : \A d \in Declared(p) :
         /\ d.kind = "required" => After[d.to] # 0 /\ d.exact \in {0, After[d.to]}
         /\ d.kind = "incompatible" => After[d.to] = 0
    /\ \A p \in Candidates \ {MainProject, FabricApi} :
         \E q \in Candidates : \E d \in Declared(q) : d.to = p

\* A walk over the releases it ends with, without a conflict, closes the plan.
LEMMA WalkCloses ==
  ASSUME PlanTypes, ResolvedFit, Followed, OnlyWanted,
         queue = <<>>, issues = {}, InTheWay = {}, resolved = lastWalk
  PROVE  Closed
<1>1. /\ MainProject \in Projects /\ MainRelease \in Nat \ {0}
      /\ inventory \in [Projects -> Nat] /\ resolved \in [Projects -> Nat]
  BY DependencyAssumption DEF PlanTypes
<1>2. After[MainProject] = MainRelease
  BY <1>1 DEF After
<1>3. ASSUME NEW p \in Candidates
      PROVE  /\ p \in traversed /\ Counted(p) /\ Source(p) = <<p, After[p]>>
             /\ Source(p) \in DOMAIN catalogue
  <2>1. p \in Projects /\ (p = MainProject \/ resolved[p] # 0)
    BY <1>3 DEF Candidates
  <2>2. p \in traversed /\ Counted(p)
    BY <2>1 DEF ResolvedFit, PlanTypes, Counted
  <2>3. Source(p) = <<p, After[p]>>
    BY <1>2, <2>1, AfterIsResolved DEF Source, Main
  <2> QED
    BY <2>2, <2>3 DEF Followed
<1>4. ASSUME NEW p \in Candidates, NEW d \in Declared(p)
      PROVE  d \in Dependencies /\ Met(d)
  <2>1. PICK i \in DOMAIN catalogue[Source(p)] : d = catalogue[Source(p)][i]
    BY <1>3, <1>4 DEF Declared
  <2>2. catalogue[Source(p)] \in Seq(Dependencies)
    BY <1>3 DEF PlanTypes
  <2>3. ~ Waits(d)
    BY DEF Waits
  <2> QED
    BY <1>3, <2>1, <2>2, <2>3 DEF Followed
<1>5. ASSUME NEW p \in Candidates, NEW i \in DOMAIN catalogue[Source(p)]
      PROVE  catalogue[Source(p)][i] \in Declared(p)
  BY <1>3, <1>5 DEF Declared
<1>6. ASSUME NEW p \in Candidates, NEW d \in Declared(p), d.kind = "required"
      PROVE  After[d.to] # 0 /\ d.exact \in {0, After[d.to]}
  <2>1. d \in Dependencies /\ d.to \in Projects /\ Met(d)
    BY <1>4 DEF Dependencies
  <2>2. CASE d.to = MainProject
    BY <1>1, <1>2, <1>6, <2>1, <2>2 DEF Met
  <2>3. CASE d.to # MainProject
    <3>1. resolved[d.to] # 0 /\ (d.exact # 0 => pinned[d.to] = d.exact)
      BY <1>6, <2>1, <2>3 DEF Met
    <3>2. After[d.to] = resolved[d.to]
      BY <2>1, <2>3, <3>1, AfterIsResolved
    <3>3. d.exact # 0 => resolved[d.to] = d.exact
      BY <2>1, <2>3, <3>1 DEF ResolvedFit
    <3> QED
      BY <3>1, <3>2, <3>3
  <2> QED
    BY <2>2, <2>3
<1>7. ASSUME NEW p \in Candidates, NEW d \in Declared(p), d.kind = "incompatible"
      PROVE  After[d.to] = 0
  <2>1. d.to \in Projects /\ d.to \in incompatible
    BY <1>4, <1>7 DEF Dependencies, Met
  <2>2. d.to # MainProject /\ resolved[d.to] = 0 /\ inventory[d.to] = 0
    BY <2>1 DEF InTheWay, IsInstalled
  <2> QED
    BY <2>1, <2>2 DEF After
<1>8. ASSUME NEW p \in Candidates \ {MainProject, FabricApi}
      PROVE  \E q \in Candidates : \E d \in Declared(q) : d.to = p
  <2>1. PICK q \in traversed : WantedBy(p, q)
    BY <1>3, <1>8 DEF OnlyWanted, Wanted
  <2>2. q \in Candidates /\ Counted(q)
    BY <2>1 DEF Candidates, ResolvedFit, PlanTypes, Counted
  <2>3. PICK i \in DOMAIN catalogue[Source(q)] : catalogue[Source(q)][i].to = p
    BY <2>1, <2>2 DEF WantedBy
  <2> QED
    BY <1>5, <2>2, <2>3
<1> QED
  BY <1>3, <1>6, <1>7, <1>8 DEF Closed

LEMMA PlanIsMade ==
  ASSUME PlanInv, [PlanNext]_planVars, planning, ~planning'
  PROVE  PlanIsClosed'
<1>1. MakePlan
  BY DEF PlanNext, planVars, ShowOptional, NoteIncompatible, BlockRequired, RequireMain,
         TakeRequired, AddFabricApi, WalkAgain, Walking, RestStays
<1> SUFFICES ASSUME issues' = {} PROVE Closed'
  BY DEF PlanIsClosed, CanInstall, Closed
<1>2. issues = {} /\ InTheWay = {} /\ resolved = lastWalk /\ queue = <<>>
  BY <1>1 DEF MakePlan, BlocksPlan, WalkEnded
<1>3. Closed
  BY <1>2, WalkCloses DEF PlanInv
<1>4. UNCHANGED <<catalogue, inventory, resolved, pinned>>
  BY <1>1 DEF MakePlan
<1>5. After' = After
  BY <1>4 DEF After, CandidateAction, IsInstalled, CurrentRelease
<1>6. Candidates' = Candidates /\ \A p : Declared(p)' = Declared(p)
  BY <1>4, <1>5 DEF Candidates, Declared
<1> QED
  BY <1>3, <1>4, <1>5, <1>6 DEF Closed

\* A plan that the walk over what releases require ends in, and that can be
\* installed, is closed under what its releases declare, whatever the catalogue
\* answers, whatever is installed before and however often the walk is repeated
\* (ModrinthModsService.build_dependency_plan).
THEOREM PlanStaysClosed == PlanSpec => PlanIsSound
<1>1. PlanInit => PlanInv
  BY PlanBegins
<1>2. PlanInv /\ [PlanNext]_planVars => PlanInv'
  BY PlanSteps
<1>3. PlanInv /\ [PlanNext]_planVars => [PlanIsClosed']_planVars
  <2> SUFFICES ASSUME PlanInv, PlanNext PROVE PlanIsClosed'
    BY DEF planVars
  <2>1. planning
    BY DEF PlanNext, ShowOptional, NoteIncompatible, BlockRequired, RequireMain, TakeRequired,
           AddFabricApi, WalkAgain, MakePlan, Walking, WalkEnded
  <2>2. CASE planning'
    BY <2>2 DEF PlanIsClosed, CanInstall
  <2>3. CASE ~planning'
    BY <2>1, <2>3, PlanIsMade
  <2> QED
    BY <2>2, <2>3
<1> QED
  BY <1>1, <1>2, <1>3, PTL DEF PlanSpec, PlanIsSound
=============================================================================
