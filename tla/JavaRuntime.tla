----------------------------- MODULE JavaRuntime ------------------------------
(***************************************************************************)
(* One of Mojang's Java runtimes under minecraft/runtime: the service of   *)
(* application/java_runtime.py, called by the loaders (core/loaders/       *)
(* base.py) within the operation on the shared root, so one call at a      *)
(* time.  A runtime has its canonical directory; when its files are in use *)
(* it is installed beside it, in a generation that a marker makes active.  *)
(* Pages and the synchronization ask for the path without that operation.  *)
(***************************************************************************)
EXTENDS Naturals

CONSTANTS NoJava,
          Canonical,         \* runtime/<name>
          Generations,       \* the directories below runtime/.generations/<name>
          MaxJavaCalls, MaxJavaDeaths, MaxDamages

ASSUME JavaAssumption ==
    /\ NoJava \notin Generations \cup {Canonical} /\ Canonical \notin Generations
    /\ {MaxJavaCalls, MaxJavaDeaths, MaxDamages} \subseteq Nat

VARIABLES
    javaDisk,      \* absent, empty (without its executable), part or whole
    activeMarker,  \* runtime/.active/<name>.txt
    javaCall,      \* the call of ensure_runtime or repair_runtime under way
    javaResult,    \* the path the last call returned
    javaGame,      \* the directory a game runs from
    lookup,        \* a get_executable_path outside the operation, and what its marker named
    javaEvents     \* counters of the bounds; whether a marker could ever not be removed

javaVars == <<javaDisk, activeMarker, javaCall, javaResult, javaGame, lookup, javaEvents>>

Places == Generations \cup {Canonical}
Conditions == {"absent", "empty", "part", "whole"}
JavaErrors == {"locked", "incomplete", "failed"}
NoCall == [step |-> "idle", place |-> NoJava, attempt |-> 0, errors |-> {}, unlucky |-> FALSE]

JavaTypeOK ==
    /\ javaDisk \in [Places -> Conditions]
    /\ activeMarker \in Generations \cup {NoJava}
    /\ javaCall \in [step : {"idle", "install", "activate", "clean", "return"},
                     place : Places \cup {NoJava}, attempt : 0..2,
                     errors : SUBSET (Places \X JavaErrors), unlucky : BOOLEAN]
    /\ {javaResult, javaGame} \subseteq Places \cup {NoJava}
    /\ lookup \in Generations \cup {NoJava}
    /\ javaEvents \in [calls : 0..MaxJavaCalls, deaths : 0..MaxJavaDeaths,
                       damages : 0..MaxDamages, stuck : BOOLEAN]

\* What earlier sessions have left is whole, a part, or nothing.
JavaInit ==
    /\ javaDisk \in {[p \in Places |-> IF p = Canonical THEN c ELSE "absent"] :
                         c \in {"absent", "part", "whole"}}
    /\ activeMarker = NoJava /\ javaCall = NoCall
    /\ javaResult = NoJava /\ javaGame = NoJava /\ lookup = NoJava
    /\ javaEvents = [calls |-> 0, deaths |-> 0, damages |-> 0, stuck |-> FALSE]

-----------------------------------------------------------------------------
Runnable(p) == javaDisk[p] \in {"part", "whole"}
Named == activeMarker # NoJava /\ javaDisk[activeMarker] # "absent"

\* get_executable_path, and the marker it leaves.
Executable ==
    IF Named /\ Runnable(activeMarker) THEN activeMarker
    ELSE IF Runnable(Canonical) THEN Canonical ELSE NoJava
MarkerAfter == IF Named /\ ~Runnable(activeMarker) THEN NoJava ELSE activeMarker

\* rmtree leaves what the system does not let it remove.
Removals(p) ==
    {"absent"} \cup (IF javaGame # p THEN {}
                    ELSE IF Runnable(p) THEN {"empty", "part"} ELSE {javaDisk[p]})
RemoveTree(p) == \E c \in Removals(p) : javaDisk' = [javaDisk EXCEPT ![p] = c]

\* Every file the manifest lists is there, with its hash.
IsComplete(p) == javaDisk[p] = "whole"

Install(place) ==
    javaCall' = [NoCall EXCEPT !.step = "install", !.place = place, !.attempt = 1]

\* What an installation leaves that does not come to its end.
LeftPartly(p) ==
    \E c \in {"empty", "part", javaDisk[p]} : javaDisk' = [javaDisk EXCEPT ![p] = c]

Counted(event) == javaEvents' = [javaEvents EXCEPT ![event] = @ + 1]

\* The loaders call within the operation on the shared root.
CallBegins ==
    javaCall.step = "idle" /\ javaEvents.calls < MaxJavaCalls /\ Counted("calls")

\* What is whole is used; of anything else the canonical directory is removed.
EnsureRuntime ==
    /\ CallBegins
    /\ activeMarker' = MarkerAfter
    /\ IF Executable # NoJava /\ IsComplete(Executable)
       THEN javaResult' = Executable /\ UNCHANGED <<javaDisk, javaCall>>
       ELSE RemoveTree(Canonical) /\ Install(Canonical) /\ UNCHANGED javaResult
    /\ UNCHANGED <<javaGame, lookup>>

\* After Java could not be started for a loader's installer.
RepairRuntime ==
    /\ CallBegins
    /\ RemoveTree(Canonical) /\ Install(Canonical)
    /\ UNCHANGED <<activeMarker, javaResult, javaGame, lookup>>

Returned(java) == javaResult' = java /\ javaCall' = NoCall

JavaInstalls_Unchecked ==
    /\ javaCall.step = "install"
    /\ \E c \in {"part", "whole"} : javaDisk' = [javaDisk EXCEPT ![javaCall.place] = c]
    /\ javaCall' = [javaCall EXCEPT !.step = "activate"]
    /\ UNCHANGED <<activeMarker, javaResult, javaGame, lookup, javaEvents>>

JavaInstalls ==
    /\ javaCall.step = "install"
    /\ javaDisk' = [javaDisk EXCEPT ![javaCall.place] = "whole"]
    /\ javaCall' = [javaCall EXCEPT !.step = "activate"]
    /\ UNCHANGED <<activeMarker, javaResult, javaGame, lookup, javaEvents>>

\* After the second attempt: only a runtime in use, or one that stays
\* incomplete, is worth a generation.
Isolated_Locked(error) == javaCall.place = Canonical /\ error = "locked"
Isolated(error) == javaCall.place = Canonical /\ error \in {"locked", "incomplete"}

\* Files in use cannot be replaced; what a failed attempt left is removed.
JavaInstallFails(error) ==
    /\ javaCall.step = "install"
    /\ error = "locked" => javaGame = javaCall.place
    /\ LET p == javaCall.place
           errors == javaCall.errors \cup {<<p, error>>}
       IN  IF javaCall.attempt = 1
           THEN /\ RemoveTree(p)
                /\ javaCall' = [javaCall EXCEPT !.attempt = 2, !.errors = errors]
                /\ UNCHANGED javaResult
           ELSE IF Isolated(error)
           THEN \E g \in Generations :
                    /\ javaDisk[g] = "absent" /\ g \notin {activeMarker, javaGame, lookup}
                    /\ LeftPartly(p)
                    /\ javaCall' = [javaCall EXCEPT !.place = g, !.attempt = 1,
                                                    !.errors = errors]
                    /\ UNCHANGED javaResult
           ELSE /\ IF p = Canonical THEN LeftPartly(p) ELSE RemoveTree(p)
                /\ javaCall' = [javaCall EXCEPT !.step = "return", !.place = NoJava,
                                                !.errors = errors]
                /\ UNCHANGED javaResult
    /\ UNCHANGED <<activeMarker, javaGame, lookup, javaEvents>>

\* The marker is replaced, or removed when the canonical directory is whole:
\* an error of that is only logged.
Activate ==
    /\ javaCall.step = "activate"
    /\ \E fails \in BOOLEAN :
          /\ fails => javaCall.place = Canonical /\ activeMarker # NoJava
          /\ activeMarker' = IF javaCall.place # Canonical THEN javaCall.place
                             ELSE IF fails THEN activeMarker ELSE NoJava
          /\ javaCall' = [javaCall EXCEPT !.step = "clean", !.unlucky = @ \/ fails]
          /\ javaEvents' = [javaEvents EXCEPT !.stuck = @ \/ fails]
    /\ UNCHANGED <<javaDisk, javaResult, javaGame, lookup>>

\* A marker that cannot be written is an error of the call; the generation stays.
ActivateFails ==
    /\ javaCall.step = "activate" /\ javaCall.place # Canonical
    /\ Returned(NoJava)
    /\ UNCHANGED <<javaDisk, activeMarker, javaGame, lookup, javaEvents>>

\* Every other generation is removed, whatever runs from it.
CleanGenerations ==
    /\ javaCall.step = "clean"
    /\ \E disk \in [Generations -> Conditions] :
          /\ \A g \in Generations :
                disk[g] \in (IF g = javaCall.place THEN {javaDisk[g]} ELSE Removals(g))
          /\ javaDisk' = [p \in Places |-> IF p = Canonical THEN javaDisk[p] ELSE disk[p]]
    /\ javaCall' = [javaCall EXCEPT !.step = "return"]
    /\ UNCHANGED <<activeMarker, javaResult, javaGame, lookup, javaEvents>>

\* A call that has installed looks for the path anew.
Return ==
    /\ javaCall.step = "return"
    /\ IF javaCall.place = NoJava THEN Returned(NoJava) /\ UNCHANGED activeMarker
       ELSE Returned(Executable) /\ activeMarker' = MarkerAfter
    /\ UNCHANGED <<javaDisk, javaGame, lookup, javaEvents>>

-----------------------------------------------------------------------------
\* Another thread reads the marker, and removes the marker there is when what
\* it read has no executable.
LookUp ==
    /\ lookup = NoJava /\ Named /\ lookup' = activeMarker
    /\ UNCHANGED <<javaDisk, activeMarker, javaCall, javaResult, javaGame, javaEvents>>

LookUpEnds ==
    /\ lookup # NoJava /\ lookup' = NoJava
    /\ IF Runnable(lookup) THEN UNCHANGED <<activeMarker, javaCall>>
       ELSE /\ activeMarker' = NoJava
            /\ javaCall' = [javaCall EXCEPT !.unlucky =
                   @ \/ (javaCall.step # "idle" /\ activeMarker \notin {lookup, NoJava})]
    /\ UNCHANGED <<javaDisk, javaResult, javaGame, javaEvents>>

\* A game starts with the path the last call returned.
GameStarts ==
    /\ javaGame = NoJava /\ javaCall.step = "idle" /\ javaResult # NoJava
    /\ Runnable(javaResult) /\ javaGame' = javaResult
    /\ UNCHANGED <<javaDisk, activeMarker, javaCall, javaResult, lookup, javaEvents>>
GameExits ==
    /\ javaGame # NoJava /\ javaGame' = NoJava
    /\ UNCHANGED <<javaDisk, activeMarker, javaCall, javaResult, lookup, javaEvents>>

\* A file of a runtime is lost between two calls.
Damage(p) ==
    /\ javaCall.step = "idle" /\ javaDisk[p] = "whole"
    /\ javaEvents.damages < MaxDamages /\ Counted("damages")
    /\ \E c \in {"empty", "part"} : javaDisk' = [javaDisk EXCEPT ![p] = c]
    /\ UNCHANGED <<activeMarker, javaCall, javaResult, javaGame, lookup>>

\* The launcher dies; a game goes on.
JavaCallDies ==
    /\ javaCall.step # "idle"
    /\ javaEvents.deaths < MaxJavaDeaths /\ Counted("deaths")
    /\ IF javaCall.step = "install" THEN LeftPartly(javaCall.place) ELSE UNCHANGED javaDisk
    /\ javaCall' = NoCall /\ lookup' = NoJava /\ javaResult' = NoJava
    /\ UNCHANGED <<activeMarker, javaGame>>

JavaNext ==
    \/ EnsureRuntime \/ RepairRuntime \/ JavaInstalls \/ Activate \/ ActivateFails
    \/ CleanGenerations \/ Return \/ LookUp \/ LookUpEnds \/ GameStarts \/ GameExits \/ JavaCallDies
    \/ \E error \in JavaErrors : JavaInstallFails(error)
    \/ \E p \in Places : Damage(p)

JavaSpec == JavaInit /\ [][JavaNext]_javaVars

-----------------------------------------------------------------------------
\* The marker becomes the name of a generation only when that one is whole, and
\* what it names stays whole as long as files are not lost and markers can be
\* removed (_write_active_runtime before _cleanup_runtime_generations).
MarkedIsWhole ==
    activeMarker # NoJava /\ javaEvents.damages = 0 /\ ~javaEvents.stuck =>
        javaDisk[activeMarker] = "whole"

\* The path a call returns is one of a whole runtime, whatever earlier calls,
\* deaths and games have left, unless its marker was removed by another thread
\* or could not be removed.
ReturnedIsWhole ==
    [][javaCall'.step = "idle" /\ javaEvents'.deaths = javaEvents.deaths
       /\ javaEvents'.damages = javaEvents.damages
       /\ (javaCall.step # "idle" \/ javaEvents'.calls # javaEvents.calls)
       /\ javaResult' # NoJava =>
           javaDisk'[javaResult'] = "whole" \/ javaCall.unlucky]_javaVars

\* Files in use alone never leave the player without Java: a call that returns
\* none has failed otherwise, or lost its marker as above.
LockedIsNoReason ==
    [][javaCall.step = "return" /\ javaResult' = NoJava /\ javaCall'.step = "idle"
       /\ javaEvents'.deaths = javaEvents.deaths =>
           \/ javaCall.unlucky
           \/ \E e \in javaCall.errors :
                  e[2] = "failed" \/ (e[1] # Canonical /\ e[2] = "incomplete")]_javaVars

\* A call ends with a whole runtime, and with one whenever it can.
JavaIsReady == ReturnedIsWhole /\ LockedIsNoReason
=============================================================================
