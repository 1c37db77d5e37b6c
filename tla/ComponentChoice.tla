--------------------------- MODULE ComponentChoice ----------------------------
(***************************************************************************)
(* The dialog that gives a build another Minecraft or mod loader:          *)
(* ui/modals/version_component_modal.py, over the choices of LoaderBuilds. *)
(* Lists are loaded on other threads; a counter tells the answer to the    *)
(* last question, which a change of the loader or of the filter, closing   *)
(* the dialog and leaving the page all make late.  One version of          *)
(* Minecraft is offered; what an installation does is ComponentInstall's.  *)
(***************************************************************************)
EXTENDS LoaderBuilds, VersionCatalog, ModpackCatalog

CONSTANTS ChoiceLoaders, CompactLoaders, UnstableLoaders,
          Plain,         \* the component that has no builds: Minecraft itself
          Catalogues,    \* what the services may list: sets of builds, [stable, listed]
          NoChoice,      \* no list
          MaxQuestions

ASSUME ChoiceAssumption ==
    /\ CompactLoaders \cup UnstableLoaders \cup {Plain} \subseteq ChoiceLoaders
    /\ MaxQuestions \in Nat

\* The numbers of a build are padded to one length, and a loader lists no
\* prerelease as stable.
ASSUME CataloguesAssumption ==
    \A c \in Catalogues :
        /\ IsFiniteSet(c.stable \cup c.listed) /\ c.stable \cup c.listed \subseteq Build
        /\ \A a, b \in c.stable \cup c.listed : Len(a.nums) = Len(b.nums)
        /\ \A b \in c.stable : ~IsPrerelease(b)

VARIABLES listing,   \* what the loaders' services list now
          dialog,      \* the controls of the dialog and its counter
          offered,     \* options_by_version
          questions,   \* loads under way
          chosen       \* the component being installed

choiceVars == <<listing, dialog, offered, questions, chosen>>

ChoicesOf(loader, unstable) ==
    IF loader = Plain THEN <<Plain>>
    ELSE BuildChoices(listing.stable, listing.listed, loader \in CompactLoaders,
                      unstable /\ loader \in UnstableLoaders)
Question == [loader : ChoiceLoaders, unstable : BOOLEAN, generation : 0..MaxQuestions + 1]
Asked == [loader |-> dialog.loader, unstable |-> dialog.unstable,
          generation |-> dialog.generation]

ChoiceTypeOK ==
    /\ listing \in Catalogues
    /\ dialog \in [open : BOOLEAN, disposed : BOOLEAN, loader : ChoiceLoaders, unstable : BOOLEAN,
                   loading : BOOLEAN, generation : 0..MaxQuestions + 1]
    /\ \/ offered = NoChoice
       \/ offered.loader \in ChoiceLoaders /\ offered.unstable \in BOOLEAN
    /\ questions \subseteq Question
    /\ (chosen = NoChoice \/ chosen.loader \in ChoiceLoaders)

ChoiceInit ==
    /\ listing \in Catalogues
    /\ dialog = [open |-> FALSE, disposed |-> FALSE, loader |-> Plain, unstable |-> FALSE,
                 loading |-> FALSE, generation |-> 0]
    /\ offered = NoChoice /\ questions = {} /\ chosen = NoChoice

\* _queue_options_load with the controls as they are now.
Ask(loader, unstable) ==
    /\ dialog.generation < MaxQuestions
    /\ dialog' = [dialog EXCEPT !.open = TRUE, !.loader = loader, !.unstable = unstable,
                                !.loading = TRUE, !.generation = @ + 1]
    /\ questions' = questions \cup {[loader |-> loader, unstable |-> unstable,
                                     generation |-> dialog.generation + 1]}
    /\ UNCHANGED <<listing, offered, chosen>>

ShowDialog ==
    ~dialog.open /\ ~dialog.disposed /\ chosen = NoChoice /\ Ask(dialog.loader, dialog.unstable)

\* The filter can be changed while a list loads, the loader cannot.
ChangeLoader(loader) ==
    /\ dialog.open /\ ~dialog.loading /\ loader # dialog.loader
    /\ Ask(loader, dialog.unstable)
ChangeUnstable == dialog.open /\ Ask(dialog.loader, ~dialog.unstable)

Closed(disposed) ==
    dialog' = [dialog EXCEPT !.open = FALSE, !.disposed = disposed,
                             !.generation = IF @ > MaxQuestions THEN @ ELSE @ + 1]
CloseDialog ==
    dialog.open /\ Closed(FALSE) /\ UNCHANGED <<listing, offered, questions, chosen>>
Dispose ==
    ~dialog.disposed /\ Closed(TRUE) /\ UNCHANGED <<listing, offered, questions, chosen>>

\* The list, or an error that empties the dialog.
ShowChoices(q, fails) ==
    /\ offered' = IF fails THEN NoChoice
                  ELSE [loader |-> q.loader, unstable |-> q.unstable,
                        builds |-> ChoicesOf(q.loader, q.unstable)]
    /\ dialog' = [dialog EXCEPT !.loading = FALSE]

AnswerChoice(q, fails) ==
    /\ q \in questions /\ questions' = questions \ {q}
    /\ IF dialog.open /\ q.generation = dialog.generation THEN ShowChoices(q, fails)
       ELSE UNCHANGED <<dialog, offered>>
    /\ UNCHANGED <<listing, chosen>>

\* The button is enabled while a list is there that has the version.
InstallChoice(i) ==
    /\ dialog.open /\ ~dialog.loading /\ offered # NoChoice /\ chosen = NoChoice
    /\ i \in DOMAIN offered.builds
    /\ chosen' = [loader |-> offered.loader, build |-> offered.builds[i]]
    /\ Closed(FALSE)
    /\ UNCHANGED <<listing, offered, questions>>

ChoiceInstalled ==
    /\ chosen # NoChoice /\ chosen' = NoChoice
    /\ UNCHANGED <<listing, dialog, offered, questions>>

ChoiceNext ==
    \/ ShowDialog \/ ChangeUnstable \/ CloseDialog \/ Dispose \/ ChoiceInstalled
    \/ \E loader \in ChoiceLoaders : ChangeLoader(loader)
    \/ \E q \in questions, fails \in BOOLEAN : AnswerChoice(q, fails)
    \/ \E i \in 1..8 : InstallChoice(i)

ChoiceSpec == ChoiceInit /\ [][ChoiceNext]_choiceVars

-----------------------------------------------------------------------------
\* A dialog that lets its button be pressed offers builds of the loader and the
\* filter it shows, and one that says it is loading has asked for just those.
DialogIsCurrent ==
    dialog.open =>
        /\ dialog.loading => Asked \in questions
        /\ ~dialog.loading /\ offered # NoChoice =>
               offered.loader = dialog.loader /\ offered.unstable = dialog.unstable

\* What it offers: no prerelease unless the filter allows it, the newest stable
\* build whenever there is one, and no prerelease before the release it became.
ChoiceIsSound ==
    offered # NoChoice /\ offered.loader # Plain =>
        LET builds == offered.builds
            releases == {b \in listing.stable : \A c \in listing.stable :
                             c = b \/ NewerBuild(b, c)}
        IN  /\ offered.loader \notin UnstableLoaders \/ ~offered.unstable =>
                   \A i \in DOMAIN builds : ~IsPrerelease(builds[i])
            /\ releases \subseteq ToSet(builds)
            /\ \A i, j \in DOMAIN builds : i < j /\ builds[i].nums = builds[j].nums =>
                   ~(IsPrerelease(builds[i]) /\ ~IsPrerelease(builds[j]))

ChoiceIsCurrent == DialogIsCurrent /\ ChoiceIsSound

\* What the three pages that ask the services show is what they asked for last
\* (VersionCatalog, ModpackCatalog and this one): no answer that comes late
\* replaces it.
PagesAreCurrent == TabsAreCurrent /\ ModpacksAreCurrent /\ ChoiceIsCurrent
=============================================================================
