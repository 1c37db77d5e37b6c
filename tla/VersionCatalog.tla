--------------------------- MODULE VersionCatalog -----------------------------
(***************************************************************************)
(* What the create page offers to install: VersionCreatePage of            *)
(* pages/version_create.py.  It has a tab per loader and one filter, which *)
(* only some loaders know; a list is loaded once per tab and filter, on    *)
(* another thread, and a counter tells the answers to what was asked       *)
(* before the filter changed.  What a list holds of a loader's builds is   *)
(* LoaderBuilds's matter.                                                  *)
(***************************************************************************)
EXTENDS Naturals

CONSTANTS LoaderTabs, FirstTab,
          Filtered,      \* tabs whose list depends on the filter
          NoOptions,     \* no list
          MaxToggles

VARIABLES activeTab,
          tabState,     \* the filter and the per-tab fields of the create page
          optionsCache, \* _options_cache
          tabLoads,     \* loads of the create page under way
          toggles

catalogVars == <<activeTab, tabState, optionsCache, tabLoads, toggles>>

Key(state, t) == <<t, state.unstable /\ t \in Filtered>>
TabKeys == LoaderTabs \X BOOLEAN
TabAnswers == {"options", "failed"}
Options == [key : TabKeys, answer : TabAnswers]

ASSUME CatalogAssumption ==
    /\ FirstTab \in LoaderTabs /\ Filtered \subseteq LoaderTabs /\ MaxToggles \in Nat
    /\ NoOptions \notin TabAnswers \cup Options

CatalogTypeOK ==
    /\ activeTab \in LoaderTabs
    /\ tabState \in [unstable : BOOLEAN, generation : 0..MaxToggles,
                     options : [LoaderTabs -> Options \cup {NoOptions}],
                     loading : SUBSET LoaderTabs, failed : SUBSET LoaderTabs]
    /\ optionsCache \in [TabKeys -> TabAnswers \cup {NoOptions}]
    /\ tabLoads \subseteq [tab : LoaderTabs, key : TabKeys, generation : 0..MaxToggles]
    /\ toggles \in 0..MaxToggles

-----------------------------------------------------------------------------
\* _load_tab: what the page holds, or its cache, or a load that is under way.
LoadTab(state, t) ==
    LET key == Key(state, t)
    IN  IF state.options[t] # NoOptions /\ state.options[t].key = key THEN state
        ELSE IF optionsCache[key] # NoOptions
        THEN [state EXCEPT !.options[t] = [key |-> key, answer |-> optionsCache[key]],
                           !.failed = @ \ {t}, !.loading = @ \ {t}]
        ELSE [state EXCEPT !.options[t] = NoOptions, !.loading = @ \cup {t}]

\* A load begins for a tab that has become a loading one.
Loads(state, next) ==
    {[tab |-> t, key |-> Key(next, t), generation |-> next.generation] :
        t \in {t \in next.loading : t \notin state.loading
                                    \/ next.generation # state.generation}}

Opened(unstable, generation, loading) ==
    [unstable |-> unstable, generation |-> generation, loading |-> loading, failed |-> {},
     options |-> [t \in LoaderTabs |-> NoOptions]]

CatalogInit ==
    /\ activeTab = FirstTab
    /\ optionsCache = [k \in TabKeys |-> NoOptions]
    /\ tabState = Opened(FALSE, 0, {FirstTab})
    /\ tabLoads = {[tab |-> FirstTab, key |-> <<FirstTab, FALSE>>, generation |-> 0]}
    /\ toggles = 0

ShowTab(t) ==
    /\ t # activeTab /\ activeTab' = t
    /\ tabState' = LoadTab(tabState, t)
    /\ tabLoads' = tabLoads \cup Loads(tabState, tabState')
    /\ UNCHANGED <<optionsCache, toggles>>

\* The filter forgets what the tabs hold and makes their loads late.
SetUnstable ==
    /\ toggles < MaxToggles /\ toggles' = toggles + 1
    /\ tabState' = LoadTab(Opened(~tabState.unstable, tabState.generation + 1, {}), activeTab)
    /\ tabLoads' = tabLoads \cup Loads(tabState, tabState')
    /\ UNCHANGED <<activeTab, optionsCache>>

Answered(load, answer) ==
    LET t == load.tab
    IN  /\ tabState' = [tabState EXCEPT
               !.loading = @ \ {t}, !.options[t] = [key |-> load.key, answer |-> answer],
               !.failed = IF answer = "failed" THEN @ \cup {t} ELSE @]
        /\ optionsCache' = [optionsCache EXCEPT ![load.key] = answer]

AnswerTab_Late(load, answer) ==
    /\ load \in tabLoads /\ tabLoads' = tabLoads \ {load}
    /\ IF load.key = Key(tabState, load.tab) THEN Answered(load, answer)
       ELSE UNCHANGED <<tabState, optionsCache>>
    /\ UNCHANGED <<activeTab, toggles>>

\* A failure leaves its text on the tab and an empty list in the cache.
AnswerTab(load, answer) ==
    /\ load \in tabLoads /\ tabLoads' = tabLoads \ {load}
    /\ IF load.generation = tabState.generation THEN Answered(load, answer)
       ELSE UNCHANGED <<tabState, optionsCache>>
    /\ UNCHANGED <<activeTab, toggles>>

CatalogNext ==
    \/ \E t \in LoaderTabs : ShowTab(t)
    \/ SetUnstable
    \/ \E load \in tabLoads, answer \in TabAnswers : AnswerTab(load, answer)

CatalogSpec == CatalogInit /\ [][CatalogNext]_catalogVars

-----------------------------------------------------------------------------
\* A tab shows the list of the filter that is set, or the error of loading that
\* list, or that it is loading while a load of this filter is under way: answers
\* to what was asked before the filter changed leave no trace.
TabsAreCurrent ==
    /\ activeTab \in tabState.loading \/ tabState.options[activeTab] # NoOptions
    /\ tabState.loading = {l.tab : l \in {m \in tabLoads : m.generation = tabState.generation}}
    /\ \A t \in LoaderTabs : tabState.options[t] # NoOptions =>
           tabState.options[t].key = Key(tabState, t)
    /\ \A t \in tabState.failed :
           tabState.options[t] # NoOptions /\ tabState.options[t].answer = "failed"
=============================================================================
