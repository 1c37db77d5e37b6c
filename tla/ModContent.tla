----------------------------- MODULE ModContent -----------------------------
(***************************************************************************)
(* Mods of an instance: a project's release is planned over a scan of the  *)
(* directory and installed later, by one file transaction with the index   *)
(* of what came from the catalogue (application/modrinth_content_install.py, *)
(* version_content.py, mod_identity.py), while the user toggles, deletes,  *)
(* backs up, restores and copies in jars of the same names and plays.  The *)
(* journal's own steps are FileSyncJournal's: a rollback is one step here. *)
(***************************************************************************)
EXTENDS Naturals, FiniteSets

CONSTANTS
    Jars,           \* the names of jars
    Publications,   \* the names a project may give its releases
    OwnJar,         \* what a jar contains that no release does
    MaxJarEvents    \* bound on the user's doings, failures and deaths

ASSUME ContentAssumption ==
    MaxJarEvents \in Nat /\ \A p \in Publications : \A r \in DOMAIN p : p[r] \in Jars

NoJar == 0
Slots == Jars \X BOOLEAN        \* enabled, or under the name with ".disabled"
NoSlot == <<>>

VARIABLES
    published,      \* the file name of each release
    shelf,          \* the jars of the directory
    copies,         \* their backups, by name
    noted,          \* the release the index has for each name
    inGame,        \* the game runs with the directory, and
    loadedJars,         \* the jars it has loaded, while they are there
    contentJournal, \* an open transaction and what it has replaced
    plan,           \* the installation
    events

contentVars == <<published, shelf, copies, noted, inGame, loadedJars, contentJournal, plan, events>>

NoPlan == [at |-> "none", release |-> 0, item |-> NoSlot, owned |-> FALSE,
           stale |-> NoSlot, index |-> <<>>, before |-> <<>>, late |-> FALSE]
NoUndo == [open |-> FALSE, jars |-> <<>>, index |-> <<>>]

ContentInit ==
    /\ published \in Publications
    /\ shelf = [s \in Slots |-> NoJar] /\ copies = [n \in Jars |-> NoJar]
    /\ noted = [n \in Jars |-> 0] /\ inGame = FALSE /\ loadedJars = {}
    /\ contentJournal = NoUndo /\ plan = NoPlan /\ events = 0

Event == events < MaxJarEvents /\ events' = events + 1
Reached(at) == plan.at = at
Leased == plan.at \notin {"none", "shown"}
Files == UNCHANGED <<shelf, copies, noted>>
Game == UNCHANGED <<published, inGame, loadedJars>>

(* ---- What the directory is known to have ---- *)

\* The index proves a jar's origin only while the jar has the recorded hash.
InIndex(s) == noted[s[1]] # 0
Verified(s) == shelf[s] = noted[s[1]]
Owned(s) == InIndex(s) /\ Verified(s)

\* A jar tells its identity itself; here every one is the project's.
InstalledMods == {s \in Slots : shelf[s] # NoJar}
Declaring == InstalledMods

\* Without proof a single jar of a fitting name is a hint.
MatchProject ==
    LET enabled == {s \in Declaring : s[2] /\ Owned(s)}
        all == {s \in Declaring : Owned(s)}
        candidates == IF Cardinality(enabled) = 1 THEN enabled
                      ELSE IF all # {} THEN all ELSE Declaring
    IN  IF Cardinality(candidates) = 1
        THEN LET s == CHOOSE c \in candidates : TRUE IN [item |-> s, owned |-> Owned(s)]
        ELSE [item |-> NoSlot, owned |-> FALSE]

Destination == <<published[plan.release], TRUE>>

(* ---- An installation ---- *)

PlanInstall(r) ==
    LET match == MatchProject IN
    /\ Reached("none")
    /\ ~(match.owned /\ match.item[2] /\ noted[match.item[1]] = r)     \* satisfied
    /\ plan' = [NoPlan EXCEPT !.at = "shown", !.release = r,
                  !.item = match.item, !.owned = match.owned]
    /\ UNCHANGED <<contentJournal, events>> /\ Files /\ Game

DismissPlan ==
    /\ Reached("shown") /\ plan' = NoPlan
    /\ UNCHANGED <<contentJournal, events>> /\ Files /\ Game

\* Under a running game mods are only added, and under a name that is free.
MayInstallLive == inGame => ~plan.owned /\ shelf[Destination] = NoJar

AuthorizedStalePath_Hint ==
    IF plan.item \notin {NoSlot, Destination} /\ shelf[plan.item] # NoJar THEN plan.item ELSE NoSlot

\* Only a proven jar may go away for the new one.
AuthorizedStalePath ==
    IF plan.owned /\ plan.item # Destination /\ shelf[plan.item] # NoJar THEN plan.item ELSE NoSlot

EnterInstall ==
    /\ Reached("shown") /\ MayInstallLive
    /\ plan' = [plan EXCEPT !.at = "entered", !.stale = AuthorizedStalePath]
    /\ UNCHANGED <<contentJournal, events>> /\ Files /\ Game

RefuseInstall ==
    /\ Reached("shown") /\ ~MayInstallLive /\ plan' = NoPlan
    /\ UNCHANGED <<contentJournal, events>> /\ Files /\ Game

\* What is replaced is copied first; a jar that went away in the meantime
\* cannot be.
BackUpReplaced ==
    /\ Reached("entered")
    /\ IF plan.owned /\ shelf[plan.item] = NoJar THEN plan' = NoPlan /\ UNCHANGED copies
       ELSE /\ plan' = [plan EXCEPT !.at = "copied"]
            /\ copies' = IF plan.owned THEN [copies EXCEPT ![plan.item[1]] = shelf[plan.item]]
                         ELSE copies
    /\ UNCHANGED <<shelf, noted, contentJournal, events>> /\ Game

\* An interrupted installation is undone by the next one.
ShelfBefore ==
    [s \in Slots |-> IF s \in DOMAIN contentJournal.jars THEN contentJournal.jars[s] ELSE shelf[s]]
IndexBefore == IF contentJournal.open /\ contentJournal.index # <<>>
               THEN contentJournal.index ELSE noted

BeginContent ==
    /\ Reached("copied")
    /\ shelf' = ShelfBefore /\ noted' = IndexBefore
    /\ contentJournal' = [NoUndo EXCEPT !.open = TRUE]
    /\ plan' = [plan EXCEPT !.at = "staged", !.before = shelf', !.late = contentJournal.open,
                  !.index = [n \in Jars |->
                     CASE n = Destination[1] -> plan.release
                       [] n # Destination[1] /\ plan.stale # NoSlot /\ n = plan.stale[1] -> 0
                       [] OTHER -> noted'[n]]]
    /\ loadedJars' = {s \in loadedJars : shelf'[s] = shelf[s]}
    /\ UNCHANGED <<published, inGame, copies, events>>

\* What a step replaces is in the journal before it goes.
Journalled(s) ==
    [contentJournal EXCEPT !.jars = [t \in DOMAIN @ \cup {s} |-> IF t = s THEN shelf[s] ELSE @[t]]]

ActivateJar ==
    /\ Reached("staged") /\ plan' = [plan EXCEPT !.at = "placed"]
    /\ shelf' = [shelf EXCEPT ![Destination] = plan.release]
    /\ contentJournal' = Journalled(Destination)
    /\ UNCHANGED <<copies, noted, events>> /\ Game

ActivateIndex ==
    /\ Reached("placed") /\ plan' = [plan EXCEPT !.at = "indexed"]
    /\ noted' = plan.index /\ contentJournal' = [contentJournal EXCEPT !.index = noted]
    /\ UNCHANGED <<shelf, copies, events>> /\ Game

RemoveStale ==
    /\ Reached("indexed") /\ plan' = [plan EXCEPT !.at = "applied"]
    /\ IF plan.stale = NoSlot THEN UNCHANGED <<shelf, contentJournal>>
       ELSE /\ shelf' = [shelf EXCEPT ![plan.stale] = NoJar]
            /\ contentJournal' = Journalled(plan.stale)
    /\ UNCHANGED <<copies, noted, events>> /\ Game

CompleteContent ==
    /\ Reached("applied") /\ plan' = NoPlan /\ contentJournal' = NoUndo
    /\ UNCHANGED events /\ Files /\ Game

ContentFails ==
    /\ plan.at \in {"staged", "placed", "indexed", "applied"} /\ Event
    /\ shelf' = ShelfBefore /\ noted' = IndexBefore
    /\ contentJournal' = NoUndo /\ plan' = NoPlan /\ UNCHANGED copies /\ Game

LauncherDies ==
    /\ Leased /\ Event /\ plan' = NoPlan
    /\ UNCHANGED contentJournal /\ Files /\ Game

(* ---- The user ---- *)

Mutates == ~Leased /\ ~inGame /\ Event /\ UNCHANGED <<plan, contentJournal>> /\ Game

\* The name a toggled jar gets may be taken: it is overwritten, or the rename
\* refused, as the platform has it.
ToggleMod(s) ==
    /\ Mutates /\ shelf[s] # NoJar
    /\ shelf' = [shelf EXCEPT ![s] = NoJar, ![<<s[1], ~s[2]>>] = shelf[s]]
    /\ UNCHANGED <<copies, noted>>

CreateBackup(s) ==
    /\ Mutates /\ shelf[s] # NoJar /\ copies' = [copies EXCEPT ![s[1]] = shelf[s]]
    /\ UNCHANGED <<shelf, noted>>

RestoreBackup(s) ==
    /\ Mutates /\ shelf[s] # NoJar /\ copies[s[1]] # NoJar
    /\ shelf' = [shelf EXCEPT ![s] = copies[s[1]]] /\ UNCHANGED <<copies, noted>>

DeleteMod(s) ==
    /\ Mutates /\ shelf[s] # NoJar /\ shelf' = [shelf EXCEPT ![s] = NoJar]
    /\ UNCHANGED <<copies, noted>>

\* By hand, without the launcher.
CopyIn(s) ==
    /\ ~Leased /\ ~inGame /\ Event
    /\ shelf' = [shelf EXCEPT ![s] = OwnJar]
    /\ UNCHANGED <<copies, noted, plan, contentJournal>> /\ Game

Play ==
    /\ ~inGame /\ ~Leased /\ inGame' = TRUE
    /\ loadedJars' = {s \in Slots : s[2] /\ shelf[s] # NoJar}
    /\ UNCHANGED <<published, contentJournal, plan, events>> /\ Files

StopPlaying ==
    /\ inGame /\ inGame' = FALSE /\ loadedJars' = {}
    /\ UNCHANGED <<published, contentJournal, plan, events>> /\ Files

ContentNext ==
    \/ (\E r \in DOMAIN published : PlanInstall(r)) \/ DismissPlan \/ EnterInstall
    \/ RefuseInstall \/ BackUpReplaced \/ BeginContent \/ ActivateJar \/ ActivateIndex
    \/ RemoveStale \/ CompleteContent \/ ContentFails \/ LauncherDies \/ Play \/ StopPlaying
    \/ \E s \in Slots : ToggleMod(s) \/ CreateBackup(s) \/ RestoreBackup(s) \/ DeleteMod(s)
                        \/ CopyIn(s)

ContentSpec == ContentInit /\ [][ContentNext]_contentVars

(* ---- Properties ---- *)

\* Every variable has its type.
ContentTypeOK ==
    /\ DOMAIN shelf = Slots /\ DOMAIN copies = Jars /\ DOMAIN noted = Jars
    /\ loadedJars \subseteq Slots /\ (loadedJars # {} => inGame)
    /\ plan.item \in Slots \cup {NoSlot} /\ events \in 0..MaxJarEvents

\* What an installation has taken away, its own destination aside, is the jar
\* it was to replace, and the last content of that is in the backups.
Proven ==
    \A s \in Slots \ {Destination} : shelf[s] # plan.before[s] =>
       s = plan.item /\ plan.owned /\ copies[s[1]] = plan.before[s]

\* Whatever happened between the plan and the installation, and whatever came
\* in between its steps: an installation that ended has the release in its
\* place and in the index, and has taken away only what is proven; one that
\* failed has changed nothing; and no jar a game has loaded is changed.  The
\* installation that finds an interrupted one is left out: it undoes that one
\* under the game too, and after it has planned.
ModsAreKept ==
    /\ [][CompleteContent /\ ~plan.late =>
            /\ shelf[Destination] = plan.release /\ noted[Destination[1]] = plan.release
            /\ Proven]_contentVars
    /\ [][ContentFails => shelf' = plan.before]_contentVars
    /\ [][Leased /\ ~(Reached("copied") /\ contentJournal.open) =>
            \A s \in loadedJars : shelf'[s] = shelf[s]]_contentVars

\* A file is removed only when it is proven to be the provider's, and an
\* interrupted installation is undone before a new one starts
\* (docs/INSTALLATION_INTEGRITY.md).  Here it is undone after the new one has
\* decided what is proven: a jar that comes back then is removed with it.
StaleIsProven == [][CompleteContent => Proven]_contentVars
=============================================================================
