---------------------------- MODULE DataLocation ----------------------------
(***************************************************************************)
(* Where the launcher keeps its data: platform/paths.py, the setup wizard  *)
(* (application/setup_wizard.py, pages/setup_wizard.py) and the start that *)
(* follows them (state.py), as they work on Linux.  storage.json beside    *)
(* the default directory points to the one the user chose; every start     *)
(* brings over, twice, the state files and the Minecraft directory of      *)
(* older layouts; the wizard copies the state files to the directory it    *)
(* is given, then switches the pointer.  Copies and writes may fail or be  *)
(* cut by a death, and a chosen directory may be away for a while.  The    *)
(* other way data moves is the migration from Gilea (GileaMigration).      *)
(***************************************************************************)
EXTENDS GileaMigration, Sequences

CONSTANTS Locations,     \* directories the user may choose
          GameBuilds,    \* builds in Minecraft directories
          MaxEdits,      \* savings of a state file
          MaxTroubles    \* failures, deaths and absences of a directory

\* The default directory (~/.config), that of earlier releases (~/.local/share),
\* which is the default Minecraft directory now, and the program's own.
Standard == "config"
Homes == Locations \cup {Standard}
Roots == {"data", "beside"} \cup Homes
NoRoot == "none"
Own(r) == <<r, "own">>
Sub(r) == <<r, "minecraft">>
GamePlaces == Roots \X {"own", "minecraft"}
NoPlace == Own(NoRoot)
Relative == Sub(NoRoot)          \* "minecraft", relative to the directory of the settings

ASSUME LocationAssumption ==
    /\ Locations \cap {Standard, "data", "beside", NoRoot} = {}
    /\ MaxEdits \in Nat \ {0} /\ MaxTroubles \in Nat

DefaultGames(r) == IF r = Standard THEN Own("data") ELSE Sub(r)
Resolved(p, r) == IF p = Relative THEN Sub(r) ELSE p

\* config.json with its minecraft_game_dir and the wizard's mark; profiles.json
\* and versions.json.
StateNames == {"config", "records"}
StateFiles == <<"config", "records">>     \* in the order of STATE_FILENAMES
NoContent == [form |-> "none", rev |-> 0, games |-> NoPlace, done |-> FALSE]
TornContent == [NoContent EXCEPT !.form = "torn"]
FileContents == [form : {"none", "torn", "whole"}, rev : 0..MaxEdits,
             games : GamePlaces \cup {NoPlace, Relative}, done : BOOLEAN]

VARIABLES stateFiles,  \* what each directory holds of the launcher's state
          gameFiles,   \* the builds in each Minecraft directory
          pointer,     \* storage.json: the chosen directory; torn it says nothing
          away,        \* chosen directories that cannot be written to now
          override,    \* _runtime_app_state_dir_override
          workDir,     \* the directory this session works on
          gameDir,     \* the Minecraft directory it uses
          session,     \* where the session is: "off", "files", "games" and "open" as
                       \* it starts, "ready", "wizard", "moving" and "switched"
          again,       \* the second util.init of a start is still to come
          todo,        \* state files still to be looked at
          carried,     \* legacy directories a file was brought from
          configFrom,  \* migrated_config_root
          candidates,  \* Minecraft directories still to be considered
          draft,       \* config while they are, and config_changed
          moveTo,      \* the directory the wizard moves to
          doubtful,    \* state files a mishap has left torn or behind
          known,       \* the state and the builds the user has, and whether
                       \* a mishap has hidden builds
          edits, troubles

onDisk == <<stateFiles, gameFiles, pointer>>
starting == <<again, todo, carried, configFrom, candidates, draft>>
locationVars == <<onDisk, away, override, workDir, gameDir, session, starting,
                  moveTo, doubtful, known, edits, troubles>>

Holds(r, f) == stateFiles[r][f].form # "none"
\* What a copy goes by: a file that is there, torn or whole, is not copied over.
Lacks_Anything(r, f) == TRUE
Lacks(r, f) == ~Holds(r, f)
\* A file that cannot be read counts as empty.
ConfigAt(r) == IF stateFiles[r]["config"].form = "whole" THEN stateFiles[r]["config"]
               ELSE [NoContent EXCEPT !.form = "whole"]
SelectRoot(r) == IF r = NoRoot \/ r \in away THEN Standard ELSE r
Usable(p) == p[1] \notin away
\* The directory the user means the launcher to work on.
Aim == IF override # NoRoot THEN override ELSE IF pointer # NoRoot THEN pointer ELSE Standard
Aside == workDir # Aim
\* What is saved in another directory meanwhile is not the state to be followed.
SavedAside(f) == doubtful' = IF Aside THEN doubtful \cup {<<workDir, f>>} ELSE doubtful

NoDraft == [config |-> NoContent, changed |-> FALSE]
BuildsHidden(hidden) ==
    known' = IF hidden /\ ~Aside THEN [known EXCEPT !.hidden = TRUE] ELSE known

----------------------------------------------------------------------------
\* A start of the launcher, or the restart a page asks for.
StartOn(r, p) ==
    /\ session' = "files" /\ again' = TRUE /\ todo' = StateFiles
    /\ workDir' = r /\ gameDir' = p

OpenLocation ==
    /\ session = "off"
    /\ LET r == SelectRoot(pointer) IN StartOn(r, DefaultGames(r))
    /\ UNCHANGED <<onDisk, away, override, carried, configFrom, candidates, draft, moveTo,
                   doubtful, known, edits, troubles>>

LegacyRoots ==
    IF gameDir[2] = "own" THEN <<gameDir[1], Standard, "data", "beside">>
    ELSE <<Standard, "data", "beside">>
\* A directory counts where it is first named, and never the one in use.
IsLegacyAt(roots, i) == roots[i] # workDir /\ \A j \in 1..(i - 1) : roots[j] # roots[i]

\* The next state file: one that is there stays; otherwise it comes from the first
\* legacy directory it can be copied from.  A copy that fails may leave a part.
MigrateFile ==
    /\ session = "files" /\ todo # <<>>
    /\ todo' = Tail(todo)
    /\ LET f == Head(todo)
           sources == {i \in DOMAIN LegacyRoots : IsLegacyAt(LegacyRoots, i) /\ Holds(LegacyRoots[i], f)}
           failed(i) == Cardinality({j \in sources : j < i})
       IN  \/ /\ ~Lacks(workDir, f) \/ sources = {}
              /\ UNCHANGED <<stateFiles, carried, configFrom, doubtful, known, troubles>>
           \/ /\ Lacks(workDir, f) /\ sources # {}
              /\ troubles' = troubles + Cardinality(sources) /\ troubles' <= MaxTroubles
              /\ \E c \in {NoContent, TornContent} : stateFiles' = [stateFiles EXCEPT ![workDir][f] = c]
              /\ doubtful' = doubtful \cup {<<workDir, f>>}
              /\ BuildsHidden(f = "config")
              /\ UNCHANGED <<carried, configFrom>>
           \/ /\ Lacks(workDir, f)
              /\ \E i \in sources :
                    LET r == LegacyRoots[i]
                    IN  /\ troubles' = troubles + failed(i) /\ troubles' <= MaxTroubles
                        /\ stateFiles' = [stateFiles EXCEPT ![workDir][f] = stateFiles[r][f]]
                        /\ doubtful' = IF <<r, f>> \in doubtful \/ failed(i) # 0
                                       THEN doubtful \cup {<<workDir, f>>}
                                       ELSE doubtful \ {<<workDir, f>>}
                        /\ carried' = Append(carried, r)
                        /\ configFrom' = IF f = "config" THEN r ELSE configFrom
              /\ UNCHANGED known
    /\ UNCHANGED <<gameFiles, pointer, away, override, workDir, gameDir, session, again,
                   candidates, draft, moveTo, edits>>

\* The Minecraft directories to be considered, by number: those of the one config
\* names, then what older layouts have left.
GamesOf(r) == IF gameFiles[Sub(r)] # {} THEN Sub(r) ELSE Own(r)
Candidate(nr, kind, p, r) == [nr |-> nr, kind |-> kind, at |-> p, root |-> r, tried |-> FALSE]
LeftGames ==
    LET roots == carried \o LegacyRoots
        left == {i \in DOMAIN roots :
                    /\ IsLegacyAt(roots, i) /\ gameFiles[GamesOf(roots[i])] # {}
                    /\ GamesOf(roots[i]) # DefaultGames(workDir)}
    IN  {Candidate(2 + i, "left", GamesOf(roots[i]), roots[i]) : i \in left}
NamedGames(p) ==
    IF p # Relative THEN {Candidate(1, "absolute", p, configFrom)}
    ELSE {Candidate(1, "relative", Sub(workDir), workDir)} \cup
         (IF configFrom = NoRoot THEN {}
          ELSE {Candidate(2, "carried", Sub(configFrom), configFrom)})
FirstCandidate == CHOOSE c \in candidates : \A d \in candidates : c.nr <= d.nr

BeginLooking ==
    /\ session = "files" /\ todo = <<>>
    /\ session' = "games"
    /\ LET config == ConfigAt(workDir)
       IN  /\ draft' = [config |-> config, changed |-> FALSE]
           /\ candidates' = IF stateFiles[workDir]["config"].form = "torn" THEN {}
                        ELSE IF config.games # NoPlace THEN NamedGames(config.games) \cup LeftGames
                        ELSE IF gameFiles[DefaultGames(workDir)] # {} THEN {}
                        ELSE LeftGames
    /\ UNCHANGED <<onDisk, away, override, workDir, gameDir, again, todo, carried, configFrom,
                   moveTo, doubtful, known, edits, troubles>>

\* _is_legacy_default_minecraft_dir: it is moved to today's default directory, if
\* there is something to move or that holds something already.
Movable(c) ==
    /\ c.at # DefaultGames(workDir) /\ ~c.tried
    /\ \/ c.at \in {Sub(workDir), Sub("data")}
       \/ c.root # NoRoot /\ c.at = Sub(c.root) /\ \E f \in StateNames : Holds(c.root, f)
    /\ gameFiles[DefaultGames(workDir)] # {} \/ gameFiles[c.at] # {}

\* write_text of config.json may fail, before or after it has cut the file.
WriteDraft(config) ==
    /\ stateFiles' = [stateFiles EXCEPT ![workDir]["config"] = config]
    /\ SavedAside("config") /\ UNCHANGED troubles
WriteDraftFails ==
    /\ troubles' = troubles + 1 /\ troubles' <= MaxTroubles
    /\ BuildsHidden(TRUE)
    /\ \/ UNCHANGED <<stateFiles, doubtful>>
       \/ /\ stateFiles' = [stateFiles EXCEPT ![workDir]["config"] = TornContent]
          /\ doubtful' = doubtful \cup {<<workDir, "config">>}
NoWrite == UNCHANGED <<stateFiles, doubtful, troubles>>

\* After the second of the two searches the pages are shown, and the wizard over a
\* config that holds nothing yet.
NothingSet == LET c == ConfigAt(workDir) IN ~c.done /\ c.rev = 0 /\ c.games = NoPlace
SearchEnds ==
    /\ UNCHANGED <<pointer, away, override, workDir, gameDir, again, todo, moveTo, edits>>
    /\ candidates' = {} /\ draft' = NoDraft /\ carried' = <<>> /\ configFrom' = NoRoot
    /\ session' = IF again THEN "open" ELSE IF NothingSet' THEN "wizard" ELSE "ready"

NothingMore ==
    /\ session = "games" /\ candidates = {}
    /\ UNCHANGED gameFiles
    /\ \/ ~draft.changed /\ NoWrite /\ UNCHANGED known
       \/ draft.changed /\ WriteDraft(draft.config) /\ UNCHANGED known
       \/ draft.changed /\ WriteDraftFails
    /\ SearchEnds

\* _migrate_legacy_default_minecraft_dir has copied it, or found the default in use;
\* what config names is forgotten, in its three keys, even if it has just been chosen:
\* this session goes on with it, the next one does not.
WithoutGames(config) == [config EXCEPT !.games = NoPlace, !.done = FALSE]
GamesMoved ==
    /\ session = "games" /\ candidates # {}
    /\ LET c == FirstCandidate
           home == DefaultGames(workDir)
           hidden == \/ c.at = gameDir
                     \/ gameFiles[home] # {} /\ ~(gameFiles[c.at] \subseteq gameFiles[home])
           write == c.kind # "left" \/ draft.changed
           config == IF c.kind # "left" THEN WithoutGames(draft.config) ELSE draft.config
       IN  /\ Movable(c)
           /\ gameFiles' = IF gameFiles[home] = {} THEN [gameFiles EXCEPT ![home] = gameFiles[c.at]]
                           ELSE gameFiles
           /\ \/ ~write /\ NoWrite /\ BuildsHidden(hidden)
              \/ write /\ WriteDraft(config) /\ BuildsHidden(hidden)
              \/ write /\ WriteDraftFails
    /\ SearchEnds

\* The copy fails on the way: what has come stays in the default directory.
MoveGamesFails ==
    /\ session = "games" /\ candidates # {}
    /\ LET c == FirstCandidate
       IN  /\ Movable(c) /\ gameFiles[DefaultGames(workDir)] = {}
           /\ \E part \in SUBSET gameFiles[c.at] :
                 gameFiles' = [gameFiles EXCEPT ![DefaultGames(workDir)] = part]
           /\ candidates' = (candidates \ {c}) \cup {[c EXCEPT !.tried = TRUE]}
    /\ troubles' = troubles + 1 /\ troubles' <= MaxTroubles
    /\ BuildsHidden(TRUE)
    /\ UNCHANGED <<stateFiles, pointer, away, override, workDir, gameDir, session, again, todo,
                   carried, configFrom, draft, moveTo, doubtful, edits>>

\* What is not moved is used where it stands, if it can be.
GamesKept ==
    /\ session = "games" /\ candidates # {}
    /\ LET c == FirstCandidate
       IN  /\ ~Movable(c)
           /\ \/ c.kind = "absolute" /\ Usable(c.at) /\ NoWrite /\ UNCHANGED known
              \/ c.kind = "relative" /\ gameFiles[c.at] # {} /\ NoWrite /\ UNCHANGED known
              \/ /\ c.kind \in {"carried", "left"}
                 /\ WriteDraft([draft.config EXCEPT !.games = c.at]) /\ UNCHANGED known
    /\ UNCHANGED gameFiles
    /\ SearchEnds

GamesPassed ==
    /\ session = "games" /\ candidates # {}
    /\ LET c == FirstCandidate
       IN  /\ ~Movable(c)
           /\ \/ /\ c.kind = "absolute" /\ ~Usable(c.at)
                 /\ draft' = [config |-> WithoutGames(draft.config), changed |-> TRUE]
                 /\ NoWrite /\ BuildsHidden(TRUE)
              \/ c.kind = "relative" /\ gameFiles[c.at] = {} /\ NoWrite /\ UNCHANGED <<draft, known>>
              \/ /\ c.kind \in {"carried", "left"} /\ WriteDraftFails
                 /\ draft' = [draft EXCEPT !.config.games = c.at]
    /\ candidates' = candidates \ {FirstCandidate}
    /\ UNCHANGED <<gameFiles, pointer, away, override, workDir, gameDir, session, again, todo,
                   carried, configFrom, moveTo, edits>>

\* StateStore.build reads config, takes the Minecraft directory it names or forgets
\* it, and initialises again.
OpenStores ==
    /\ session = "open"
    /\ LET config == ConfigAt(workDir)
           p == Resolved(config.games, workDir)
       IN  \/ /\ config.games = NoPlace \/ Usable(p)
              /\ gameDir' = IF config.games = NoPlace THEN gameDir ELSE p
              /\ UNCHANGED <<stateFiles, known>>
           \/ /\ config.games # NoPlace /\ ~Usable(p)
              /\ gameDir' = DefaultGames(workDir)
              /\ stateFiles' = [stateFiles EXCEPT ![workDir]["config"] = [config EXCEPT !.games = NoPlace]]
              /\ BuildsHidden(TRUE)
    /\ session' = "files" /\ again' = FALSE /\ todo' = StateFiles
    /\ UNCHANGED <<gameFiles, pointer, away, override, workDir, carried, configFrom, candidates,
                   draft, moveTo, doubtful, edits, troubles>>

----------------------------------------------------------------------------
\* The session: any page or thread saves a state file, even while the wizard moves.
SaveContent(f, content) ==
    /\ edits < MaxEdits /\ edits' = edits + 1
    /\ stateFiles' = [stateFiles EXCEPT ![workDir][f] = [content EXCEPT !.form = "whole", !.rev = edits']]

Edit(f) ==
    /\ session \in {"wizard", "ready", "moving", "switched"}
    /\ SaveContent(f, IF f = "config" THEN ConfigAt(workDir) ELSE NoContent)
    /\ known' = IF Aside THEN known ELSE [known EXCEPT !.rev[f] = edits']
    /\ SavedAside(f)
    /\ UNCHANGED <<gameFiles, pointer, away, override, workDir, gameDir, session, starting, moveTo,
                   troubles>>

\* The settings page takes another Minecraft directory, and the launcher starts again
\* on it.
ChooseGames(p) ==
    /\ session = "ready" /\ Usable(p)
    /\ SaveContent("config", [ConfigAt(workDir) EXCEPT
           !.games = IF p = DefaultGames(workDir) THEN NoPlace
                     ELSE IF p = Sub(workDir) THEN Relative ELSE p])
    /\ StartOn(workDir, p)
    /\ known' = IF Aside THEN known
                ELSE [known EXCEPT !.rev["config"] = edits', !.builds = gameFiles[p],
                                   !.hidden = pointer # (IF workDir = Standard THEN NoRoot ELSE workDir)]
    /\ SavedAside("config")
    /\ UNCHANGED <<gameFiles, pointer, away, override, carried, configFrom, candidates, draft, moveTo,
                   troubles>>

InstallGame(b) ==
    /\ session = "ready" /\ b \notin gameFiles[gameDir]
    /\ gameFiles' = [gameFiles EXCEPT ![gameDir] = @ \cup {b}]
    /\ known' = IF Aside \/ known.hidden THEN known ELSE [known EXCEPT !.builds = @ \cup {b}]
    /\ UNCHANGED <<stateFiles, pointer, away, override, workDir, gameDir, session, starting, moveTo,
                   doubtful, edits, troubles>>

----------------------------------------------------------------------------
\* apply_paths: the files the chosen directory does not have yet are copied to it.
BeginMoving(r) ==
    /\ session = "wizard" /\ r \notin away
    /\ session' = "moving" /\ moveTo' = r
    /\ todo' = IF r = workDir THEN <<>> ELSE StateFiles
    /\ UNCHANGED <<onDisk, away, override, workDir, gameDir, again, carried, configFrom, candidates,
                   draft, doubtful, known, edits, troubles>>

CopyStateFile ==
    /\ session = "moving" /\ todo # <<>>
    /\ LET f == Head(todo)
       IN  IF Holds(workDir, f) /\ Lacks(moveTo, f)
           THEN /\ stateFiles' = [stateFiles EXCEPT ![moveTo][f] = stateFiles[workDir][f]]
                /\ doubtful' = doubtful \cup {<<moveTo, f>>}
           ELSE UNCHANGED <<stateFiles, doubtful>>
    /\ todo' = Tail(todo)
    /\ UNCHANGED <<gameFiles, pointer, away, override, workDir, gameDir, session, again, carried,
                   configFrom, candidates, draft, moveTo, known, edits, troubles>>

\* The copy raises; the wizard stays open over the directory there was.
BackToWizard == session' = "wizard" /\ todo' = <<>> /\ moveTo' = NoRoot
CopyStateFails ==
    /\ session = "moving" /\ todo # <<>>
    /\ LET f == Head(todo)
       IN  /\ Holds(workDir, f) /\ Lacks(moveTo, f)
           /\ \/ UNCHANGED <<stateFiles, doubtful>>
              \/ /\ stateFiles' = [stateFiles EXCEPT ![moveTo][f] = TornContent]
                 /\ doubtful' = doubtful \cup {<<moveTo, f>>}
    /\ BackToWizard
    /\ troubles' = troubles + 1 /\ troubles' <= MaxTroubles
    /\ UNCHANGED <<gameFiles, pointer, away, override, workDir, gameDir, again, carried,
                   configFrom, candidates, draft, known, edits>>

\* set_app_state_dir_override: storage.json is written, or removed for the default
\* directory; an error is only logged, and a torn storage.json says nothing.  What
\* the new directory held already is the state from now on.
SwitchRoot ==
    /\ session = "moving" /\ todo = <<>> /\ moveTo # workDir
    /\ session' = "switched" /\ override' = moveTo
    /\ LET stale == {f \in StateNames :
                        \/ <<workDir, f>> \in doubtful
                        \/ Holds(workDir, f) /\ ~Holds(moveTo, f)
                        \/ /\ <<moveTo, f>> \in doubtful
                           /\ stateFiles[moveTo][f] # stateFiles[workDir][f]}
           elsewhere == (Roots \ {moveTo}) \X StateNames
           behind == {x \in elsewhere : x[1] # workDir /\ Holds(workDir, x[2]) /\ ~Holds(moveTo, x[2])}
           settled == (doubtful \cap elsewhere) \cup ({moveTo} \X stale) \cup behind
       IN  \/ /\ pointer' = IF moveTo = Standard THEN NoRoot ELSE moveTo
              /\ doubtful' = IF Aside THEN settled \cup elsewhere ELSE settled
              /\ UNCHANGED troubles
           \/ /\ pointer' \in (IF moveTo = Standard THEN {pointer} ELSE {pointer, NoRoot})
              /\ doubtful' = settled \cup elsewhere
              /\ troubles' = troubles + 1 /\ troubles' <= MaxTroubles
    /\ known' = [known EXCEPT
           !.rev = [f \in StateNames |->
                       IF Holds(moveTo, f) THEN stateFiles[moveTo][f].rev
                       ELSE IF Aside THEN 0 ELSE known.rev[f]],
           !.hidden = TRUE]
    /\ UNCHANGED <<stateFiles, gameFiles, away, workDir, gameDir, starting, moveTo, edits>>

\* The rest of apply_paths: the Minecraft directory is the default one, the wizard is
\* done, and the launcher starts again on what its override names.
FinishMoving ==
    /\ session = "switched" \/ (session = "moving" /\ todo = <<>> /\ moveTo = workDir)
    /\ stateFiles' = [stateFiles EXCEPT ![moveTo]["config"] =
                         [ConfigAt(moveTo) EXCEPT !.games = NoPlace, !.done = TRUE]]
    /\ known' = IF moveTo = workDir /\ Aside THEN known
                ELSE [known EXCEPT !.builds = gameFiles[DefaultGames(moveTo)],
                                   !.hidden = pointer # (IF moveTo = Standard THEN NoRoot ELSE moveTo)]
    /\ LET r == IF override # NoRoot THEN override ELSE workDir IN StartOn(r, DefaultGames(r))
    /\ moveTo' = NoRoot
    /\ IF moveTo = workDir THEN SavedAside("config") ELSE UNCHANGED doubtful
    /\ UNCHANGED <<gameFiles, pointer, away, override, carried, configFrom, candidates, draft,
                   edits, troubles>>

\* A directory cannot be made: the wizard stays open, and every store goes on with
\* the directory it was opened on.
FinishFails ==
    /\ session = "switched" \/ (session = "moving" /\ todo = <<>> /\ moveTo = workDir)
    /\ BackToWizard
    /\ troubles' = troubles + 1 /\ troubles' <= MaxTroubles
    /\ UNCHANGED <<onDisk, away, override, workDir, gameDir, again, carried, configFrom, candidates,
                   draft, doubtful, known, edits>>

----------------------------------------------------------------------------
\* The launcher is closed, or dies.  Between the copy of an old config and the search
\* that resolves its relative directory a death leaves the next start without the
\* directory it is relative to.
StopLocation ==
    /\ session # "off" /\ session' = "off"
    /\ troubles' = IF session \in {"wizard", "ready"} THEN troubles ELSE troubles + 1
    /\ troubles' <= MaxTroubles
    /\ again' = FALSE /\ todo' = <<>> /\ carried' = <<>> /\ configFrom' = NoRoot
    /\ candidates' = {} /\ draft' = NoDraft
    /\ override' = NoRoot /\ workDir' = NoRoot /\ gameDir' = NoPlace /\ moveTo' = NoRoot
    /\ BuildsHidden(configFrom # NoRoot)
    /\ UNCHANGED <<onDisk, away, doubtful, edits>>

\* A chosen directory goes away, or comes back, while the launcher is closed.
Absent(r) ==
    /\ session = "off"
    /\ \/ /\ r \notin away /\ away' = away \cup {r}
          /\ troubles' = troubles + 1 /\ troubles' <= MaxTroubles
       \/ r \in away /\ away' = away \ {r} /\ UNCHANGED troubles
    /\ UNCHANGED <<onDisk, override, workDir, gameDir, session, starting, moveTo, doubtful, known,
                   edits>>

\* Nothing yet, or what an earlier release has left in one of the directories, with
\* its Minecraft directory.
LocationInit ==
    /\ \E home \in {NoRoot, Standard, "data", "beside"},
          games \in {NoPlace, Relative} \cup {Own(r) : r \in Locations} :
          LET at == IF games \notin {NoPlace, Relative} THEN games
                    ELSE IF home = Standard /\ games = NoPlace THEN Own("data") ELSE Sub(home)
              content(f) == [form |-> "whole", rev |-> 1, done |-> FALSE,
                             games |-> IF f = "config" THEN games ELSE NoPlace]
          IN  /\ home = NoRoot => games = NoPlace
              /\ stateFiles = [r \in Roots |-> [f \in StateNames |->
                                  IF r = home THEN content(f) ELSE NoContent]]
              /\ gameFiles = [p \in GamePlaces |-> IF p = at THEN GameBuilds ELSE {}]
              /\ known = [rev |-> [f \in StateNames |-> IF home = NoRoot THEN 0 ELSE 1],
                          builds |-> IF home = NoRoot THEN {} ELSE GameBuilds, hidden |-> FALSE]
    /\ pointer = NoRoot /\ away = {} /\ override = NoRoot /\ workDir = NoRoot /\ gameDir = NoPlace
    /\ session = "off" /\ again = FALSE /\ todo = <<>> /\ carried = <<>> /\ configFrom = NoRoot
    /\ candidates = {} /\ draft = NoDraft /\ moveTo = NoRoot /\ doubtful = {}
    /\ edits = 1 /\ troubles = 0

LocationNext ==
    \/ OpenLocation \/ MigrateFile \/ BeginLooking \/ NothingMore \/ GamesMoved \/ MoveGamesFails
    \/ GamesKept \/ GamesPassed \/ OpenStores \/ CopyStateFile \/ CopyStateFails \/ SwitchRoot
    \/ FinishMoving \/ FinishFails \/ StopLocation
    \/ \E f \in StateNames : Edit(f)
    \/ \E p \in GamePlaces : ChooseGames(p)
    \/ \E b \in GameBuilds : InstallGame(b)
    \/ \E r \in Homes : BeginMoving(r)
    \/ \E r \in Locations : Absent(r)

LocationSpec == LocationInit /\ [][LocationNext]_locationVars
----------------------------------------------------------------------------
LocationTypeOK ==
    /\ stateFiles \in [Roots -> [StateNames -> FileContents]]
    /\ gameFiles \in [GamePlaces -> SUBSET GameBuilds]
    /\ {pointer, override, moveTo} \subseteq Homes \cup {NoRoot}
    /\ workDir \in Homes \cup {NoRoot} /\ gameDir \in GamePlaces \cup {NoPlace}
    /\ away \subseteq Locations /\ doubtful \subseteq Roots \X StateNames
    /\ session \in {"off", "files", "games", "open", "wizard", "ready", "moving", "switched"}
    /\ again \in BOOLEAN /\ todo \in {<<>>, <<"records">>, StateFiles}
    /\ carried \in Seq(Roots) /\ configFrom \in Roots \cup {NoRoot}
    /\ candidates \subseteq [nr : Nat, kind : {"absolute", "relative", "carried", "left"}, at : GamePlaces,
                       root : Roots \cup {NoRoot}, tried : BOOLEAN]
    /\ draft \in [config : FileContents, changed : BOOLEAN]
    /\ known \in [rev : [StateNames -> 0..MaxEdits], builds : SUBSET GameBuilds, hidden : BOOLEAN]
    /\ edits \in 1..MaxEdits /\ troubles \in 0..MaxTroubles

InUse == session \in {"wizard", "ready"} /\ ~Aside

\* Through deaths, failed copies, moves and absences the launcher shows the state
\* that was saved last, except a file that a mishap is known to have torn or left
\* behind (migrate_legacy_app_state, _migrate_state_files, the pointer).
StateIsFollowed ==
    InUse => \A f \in StateNames :
        <<workDir, f>> \notin doubtful => /\ stateFiles[workDir][f].form # "torn"
                                          /\ stateFiles[workDir][f].rev = known.rev[f]

\* The Minecraft directory in use holds the builds there were, wherever older
\* layouts or config had them, unless a mishap has hidden some.
BuildsAreFound == InUse /\ ~known.hidden => known.builds \subseteq gameFiles[gameDir]

\* A state file that is whole changes only by a saving, on the directory in use,
\* or when its rewriting is cut: no copy replaces one.
StateIsNotReplaced ==
    \A r \in Roots, f \in StateNames :
        /\ stateFiles[r][f].form = "whole" /\ stateFiles'[r][f].rev # stateFiles[r][f].rev
        => r = workDir /\ (edits' > edits \/ (f = "config" /\ troubles' > troubles))

LocationIsSafe == [][StateIsFollowed' /\ BuildsAreFound' /\ StateIsNotReplaced]_locationVars

\* Data that goes to another directory is neither lost nor replaced: what a failed
\* migration leaves is what it found, the files of others survive, and the state
\* and the builds are followed wherever the launcher keeps them.
MovesAreSafe == MigrationIsSafe /\ LocationIsSafe
=============================================================================
