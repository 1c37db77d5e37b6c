------------------------------ MODULE PageProofs ------------------------------
(***************************************************************************)
(* What the pages of the launcher show, for any number of changes, tasks,  *)
(* requests and threads: the lists of what can be installed                *)
(* (ModpackCatalog, VersionCatalog, ComponentChoice), the progress of what *)
(* is under way (Feedback) and the list of what is installed (ModsPage).   *)
(***************************************************************************)
EXTENDS VersionCatalog, ModpackCatalog, ComponentChoice, Feedback, ModsPage,
        SequenceTheorems, FiniteSetTheorems, WellFoundedInduction, TLAPS

\* The search that is awaited is the newest one, for the page that is asked for
\* and, unless the field waits to be searched, for the query in it.
AsksForThePage ==
    /\ search.loading => \E l \in searches : l.token = search.token
    /\ \A l \in searches : l.token = search.token =>
           /\ l.page = search.page
           /\ ~searchTimer.armed /\ searchTimer.reloads = 0 => l.query = search.query
    /\ ~search.loading => results.shows # "loading" /\ results.page = search.page
    /\ ~search.loading /\ ~searchTimer.armed /\ searchTimer.reloads = 0 =>
           results.query = search.query

ModpacksInv ==
    /\ ModpacksTypeOK
    /\ \A l \in searches : l.token <= search.token
    /\ search.active => AsksForThePage

CatalogState == [query : Queries, page : Nat, total : Nat, loading : BOOLEAN,
                 token : Nat, active : BOOLEAN]

\* A state whose fields are given other values of their own.
LEMMA CatalogStates ==
    ASSUME NEW state \in CatalogState, NEW page \in Nat, NEW loading \in BOOLEAN,
           NEW active \in BOOLEAN, NEW total \in Nat, NEW nr \in Nat
    PROVE  [state EXCEPT !.page = page, !.loading = loading, !.active = active,
                         !.total = total, !.token = nr] \in CatalogState
  BY DEF CatalogState

\* A search that begins is the newest one and asks for the page and the query.
LEMMA BegunSearchIsAsked ==
    ASSUME ModpacksInv, NEW page \in Nat, NEW active \in BOOLEAN, BeginSearch(page, active),
           searchTimer' \in [armed : BOOLEAN, reloads : Nat]
    PROVE  ModpacksInv'
<1> DEFINE new == [token |-> search.token + 1, query |-> search.query, page |-> page]
<1>1. search'.token = search.token + 1 /\ search'.query = search.query /\ search'.page = page
      /\ search'.loading = TRUE /\ search'.active = active /\ searches' = searches \cup {new}
      /\ new \in searches'
  BY DEF BeginSearch, ModpacksInv, ModpacksTypeOK
<1>2. ModpacksTypeOK'
  <2>1. search' \in [query : Queries, page : Nat, total : Nat, loading : BOOLEAN,
                     token : Nat, active : BOOLEAN]
    <3>1. search \in CatalogState /\ search.total \in Nat /\ search.token + 1 \in Nat
      BY DEF ModpacksInv, ModpacksTypeOK, CatalogState
    <3>2. (IF page = 0 THEN 0 ELSE search.total) \in Nat
      BY <3>1
    <3>3. search' = [search EXCEPT !.page = page, !.loading = TRUE, !.active = active,
                        !.total = IF page = 0 THEN 0 ELSE search.total,
                        !.token = search.token + 1]
      BY <3>1 DEF BeginSearch, CatalogState
    <3> QED
      BY <3>1, <3>2, <3>3, CatalogStates DEF CatalogState
  <2>2. results' \in [shows : {"loading", "results", "failed"}, query : Queries, page : Nat]
    BY ModpacksAssumption DEF BeginSearch, Spinner
  <2>3. searches' \subseteq Search
    BY <1>1 DEF ModpacksInv, ModpacksTypeOK, Search
  <2> QED
    BY <2>1, <2>2, <2>3 DEF ModpacksTypeOK
<1>3. search.token \in Nat /\ \A l \in searches : l.token <= search.token /\ l.token \in Nat
  BY DEF ModpacksInv, ModpacksTypeOK, Search
<1>4. \A l \in searches' : l.token <= search'.token
                          /\ (l.token = search'.token => l = new)
  BY <1>1, <1>3
<1>5. AsksForThePage'
  <2>1. new \in searches' /\ new.token = search'.token
    BY <1>1
  <2>2. new.page = search'.page /\ new.query = search'.query
    BY <1>1
  <2> HIDE DEF new
  <2> QED
    BY <1>1, <1>4, <2>1, <2>2 DEF AsksForThePage
<1> QED
  BY <1>2, <1>4, <1>5 DEF ModpacksInv

LEMMA ModpacksInitially == ModpacksInit => ModpacksInv
<1> SUFFICES ASSUME ModpacksInit PROVE ModpacksInv
  OBVIOUS
<1> QED
  BY ModpacksAssumption DEF ModpacksInit, ModpacksInv, ModpacksTypeOK, Spinner, Search

LEMMA ModpacksStep == ModpacksInv /\ [ModpacksNext]_modpackVars => ModpacksInv'
<1> SUFFICES ASSUME ModpacksInv, [ModpacksNext]_modpackVars PROVE ModpacksInv'
  OBVIOUS
<1> USE DEF ModpacksInv, ModpacksTypeOK
<1>1. CASE OpenModpacks
  BY <1>1, BegunSearchIsAsked DEF OpenModpacks
<1>2. CASE LeaveModpacks
  <2>1. search'.active = FALSE /\ search'.token = search.token + 1 /\ searches' = searches
    BY <1>2 DEF LeaveModpacks
  <2>2. ModpacksTypeOK'
    <3>1. search \in CatalogState /\ search.page \in Nat /\ search.total \in Nat
          /\ search.token + 1 \in Nat
      BY DEF CatalogState
    <3>4. search' = [search EXCEPT !.page = search.page, !.loading = FALSE, !.active = FALSE,
                        !.total = search.total, !.token = search.token + 1]
      BY <1>2, <3>1 DEF LeaveModpacks, CatalogState
    <3>5. search' \in CatalogState
      BY <3>1, <3>4, CatalogStates
    <3>2. searchTimer' \in [armed : BOOLEAN, reloads : Nat]
      BY <1>2 DEF LeaveModpacks
    <3> QED
      BY <1>2, <3>2, <3>5 DEF LeaveModpacks, CatalogState
  <2>3. \A l \in searches : l.token \in Nat /\ l.token <= search.token
    BY DEF Search
  <2> QED
    BY <2>1, <2>2, <2>3
<1>3. CASE SubmitSearch
  BY <1>3, BegunSearchIsAsked DEF SubmitSearch
<1>4. CASE TimerFires
  BY <1>4 DEF TimerFires, AsksForThePage
<1>5. CASE ReloadRuns
  BY <1>5, BegunSearchIsAsked DEF ReloadRuns
<1>6. ASSUME NEW q \in Queries, TypeQuery(q) PROVE ModpacksInv'
  BY <1>6 DEF TypeQuery, AsksForThePage
<1>7. ASSUME NEW page \in 0..MaxLoads, TurnPage(page) PROVE ModpacksInv'
  <2>1. page \in Nat
    BY ModpacksAssumption
  <2>2. BeginSearch(page, TRUE)
    BY ONLY <1>7, Zenon DEF TurnPage
  <2>3. searchTimer' = searchTimer
    BY ONLY <1>7 DEF TurnPage
  <2> QED
    BY <2>1, <2>2, <2>3, BegunSearchIsAsked
<1>8. ASSUME NEW load \in searches, NEW answer \in {"results", "failed"},
             AnswerSearch(load, answer)
      PROVE  ModpacksInv'
  <2> load \in Search
    OBVIOUS
  <2>1. CASE load.token = search.token /\ search.active
    <3>1. ShowAnswer(load, answer) /\ searches' = searches \ {load} /\ searchTimer' = searchTimer
      BY <1>8, <2>1 DEF AnswerSearch
    <3>2. ModpacksTypeOK'
      BY <3>1, ModpacksAssumption DEF ShowAnswer, Search
    <3>3. search'.loading = FALSE /\ search'.token = search.token /\ search'.active = TRUE
          /\ search'.page = search.page /\ search'.query = search.query
          /\ results' = [shows |-> answer, query |-> load.query, page |-> load.page]
      BY <3>1, <2>1 DEF ShowAnswer
    <3> QED
      BY <3>1, <3>2, <3>3, <2>1 DEF AsksForThePage
  <2>2. CASE ~(load.token = search.token /\ search.active)
    <3>1. searches' = searches \ {load} /\ UNCHANGED <<search, results, searchTimer>>
      BY <1>8, <2>2 DEF AnswerSearch
    <3> QED
      BY <3>1, <2>2 DEF AsksForThePage
  <2> QED
    BY <2>1, <2>2
<1>9. CASE UNCHANGED modpackVars
  BY <1>9 DEF modpackVars, AsksForThePage
<1> QED
  BY <1>1, <1>2, <1>3, <1>4, <1>5, <1>6, <1>7, <1>8, <1>9 DEF ModpacksNext

\* A search that is answered, cancelled or overtaken leaves the page of modpacks
\* with what is asked for now, or waiting for it (CatalogState of catalog.py,
\* ModpacksPage of modpacks.py).
THEOREM ModpacksStayCurrent == ModpacksSpec => []ModpacksAreCurrent
<1>1. ModpacksInv => ModpacksAreCurrent
  BY DEF ModpacksInv, AsksForThePage, ModpacksAreCurrent
<1> QED
  BY <1>1, ModpacksInitially, ModpacksStep, PTL DEF ModpacksSpec

-----------------------------------------------------------------------------
TabState == [unstable : BOOLEAN, generation : 0..MaxToggles,
             options : [LoaderTabs -> Options \union {NoOptions}],
             loading : SUBSET LoaderTabs, failed : SUBSET LoaderTabs]

\* What the tabs of a page hold, beside a cache.
TabsAreSound(state, cache) ==
    /\ \A t \in state.loading :
           state.options[t] = NoOptions /\ cache[Key(state, t)] = NoOptions
    /\ \A t \in LoaderTabs : state.options[t] # NoOptions =>
           state.options[t].key = Key(state, t)
    /\ \A t \in state.failed :
           state.options[t] # NoOptions /\ state.options[t].answer = "failed"

\* The loads of a page: none of a later filter, and those of the filter that is
\* set are those of the tabs that wait.
LoadsAreTheTabs(state, loads) ==
    /\ \A l \in loads : /\ l.generation <= state.generation
                        /\ l.generation = state.generation =>
                               l.tab \in state.loading /\ l.key = Key(state, l.tab)
    /\ \A t \in state.loading :
           \E l \in loads : l.tab = t /\ l.generation = state.generation

CatalogInv ==
    /\ CatalogTypeOK
    /\ tabState.generation = toggles
    /\ LoadsAreTheTabs(tabState, tabLoads)
    /\ TabsAreSound(tabState, optionsCache)
    /\ activeTab \in tabState.loading \/ tabState.options[activeTab] # NoOptions

\* A tab has one key under each filter, and no two tabs share one.
LEMMA KeysOfTabs ==
    ASSUME NEW state \in TabState, NEW t \in LoaderTabs
    PROVE  /\ Key(state, t) \in TabKeys
           /\ \A u \in LoaderTabs : Key(state, u) = Key(state, t) => u = t
           /\ state.unstable = FALSE => Key(state, t) = <<t, FALSE>>
<1>1. (state.unstable /\ t \in Filtered) \in BOOLEAN
  BY DEF TabState
<1>2. Key(state, t) \in TabKeys
  BY <1>1 DEF Key, TabKeys
<1>3. \A u \in LoaderTabs : Key(state, u) = Key(state, t) => u = t
  BY DEF Key
<1>4. state.unstable = FALSE => Key(state, t) = <<t, FALSE>>
  BY Zenon DEF Key
<1> QED
  BY <1>2, <1>3, <1>4

\* What a page begins with when it is opened and when its filter is changed.
LEMMA OpenedState ==
    ASSUME NEW unstable \in BOOLEAN, NEW generation \in 0..MaxToggles,
           NEW loading \in SUBSET LoaderTabs
    PROVE  LET state == Opened(unstable, generation, loading)
           IN  /\ state \in TabState /\ state.unstable = unstable
               /\ state.generation = generation /\ state.loading = loading
               /\ state.failed = {} /\ \A t \in LoaderTabs : state.options[t] = NoOptions
<1>1. [t \in LoaderTabs |-> NoOptions] \in [LoaderTabs -> Options \union {NoOptions}]
  OBVIOUS
<1> QED
  BY <1>1 DEF Opened, TabState

\* _load_tab keeps the tabs sound, fills or awaits the tab, and leaves the
\* filter and the other tabs alone.
LEMMA LoadTabIsSound ==
    ASSUME CatalogTypeOK, NEW state \in TabState, TabsAreSound(state, optionsCache),
           NEW t \in LoaderTabs
    PROVE  LET next == LoadTab(state, t)
           IN  /\ next \in TabState
               /\ next.unstable = state.unstable /\ next.generation = state.generation
               /\ TabsAreSound(next, optionsCache)
               /\ t \in next.loading \/ next.options[t] # NoOptions
               /\ next.loading = state.loading \/ next.loading = state.loading \union {t}
<1> DEFINE key == Key(state, t)
           next == LoadTab(state, t)
<1>1. key \in TabKeys /\ \A u \in LoaderTabs : Key(state, u) \in TabKeys
  BY CatalogAssumption DEF Key, TabKeys, TabState
<1>2. CASE state.options[t] # NoOptions /\ state.options[t].key = key
  <2>1. next = state
    BY <1>2 DEF LoadTab
  <2> QED
    BY <1>2, <2>1
<1>3. CASE ~(state.options[t] # NoOptions /\ state.options[t].key = key)
  <2>1. state.options[t] = NoOptions /\ t \notin state.failed
    BY <1>3 DEF TabsAreSound
  <2>2. CASE optionsCache[key] # NoOptions
    <3> DEFINE filled == [key |-> key, answer |-> optionsCache[key]]
    <3>1. filled \in Options /\ filled # NoOptions
      BY <1>1, <2>2, CatalogAssumption DEF CatalogTypeOK, Options
    <3>2. next = [state EXCEPT !.options[t] = filled,
                               !.failed = @ \ {t}, !.loading = @ \ {t}]
      BY <1>3, <2>2 DEF LoadTab
    <3>3. t \notin state.loading
      BY <2>2 DEF TabsAreSound
    <3>4. next.loading = state.loading /\ next.failed = state.failed
          /\ next.unstable = state.unstable /\ next.generation = state.generation
          /\ next.options = [state.options EXCEPT ![t] = filled]
      BY <2>1, <3>2, <3>3 DEF TabState
    <3>5. next \in TabState
      <4>1. [state.options EXCEPT ![t] = filled] \in [LoaderTabs -> Options \union {NoOptions}]
        BY <3>1 DEF TabState
      <4>2. state.failed \ {t} \in SUBSET LoaderTabs /\ state.loading \ {t} \in SUBSET LoaderTabs
        BY DEF TabState
      <4>3. next = [state EXCEPT !.options = [state.options EXCEPT ![t] = filled],
                                 !.failed = state.failed \ {t}, !.loading = state.loading \ {t}]
        BY <3>2
      <4> QED
        BY <4>1, <4>2, <4>3 DEF TabState
    <3>6. \A u \in LoaderTabs : /\ Key(next, u) = Key(state, u)
                                /\ next.options[u] = IF u = t THEN filled ELSE state.options[u]
      BY <3>4 DEF Key, TabState
    <3>7. TabsAreSound(next, optionsCache)
      BY <2>1, <3>1, <3>3, <3>4, <3>6 DEF TabsAreSound, TabState
    <3> QED
      BY <3>1, <3>4, <3>5, <3>6, <3>7
  <2>3. CASE optionsCache[key] = NoOptions
    <3>1. next = [state EXCEPT !.options[t] = NoOptions, !.loading = @ \union {t}]
      BY <1>3, <2>3 DEF LoadTab
    <3>2. next.loading = state.loading \union {t} /\ next.failed = state.failed
          /\ next.unstable = state.unstable /\ next.generation = state.generation
          /\ next.options = [state.options EXCEPT ![t] = NoOptions]
      BY <3>1 DEF TabState
    <3>3. next \in TabState
      BY <3>1 DEF TabState
    <3>4. \A u \in LoaderTabs : /\ Key(next, u) = Key(state, u)
                                /\ next.options[u] = state.options[u]
      BY <2>1, <3>2 DEF Key, TabState
    <3>5. TabsAreSound(next, optionsCache)
      BY <2>3, <2>1, <3>2, <3>4 DEF TabsAreSound, TabState
    <3> QED
      BY <3>2, <3>3, <3>5
  <2> QED
    BY <2>2, <2>3
<1> QED
  BY <1>2, <1>3

\* The loads that begin are those that are missing.
LEMMA NewLoadsAreTheTabs ==
    ASSUME NEW state \in TabState, NEW next \in TabState,
           NEW loads \in SUBSET [tab : LoaderTabs, key : TabKeys, generation : 0..MaxToggles],
           LoadsAreTheTabs(state, loads),
           state.loading \subseteq next.loading, next.generation = state.generation,
           next.unstable = state.unstable
    PROVE  /\ LoadsAreTheTabs(next, loads \union Loads(state, next))
           /\ Loads(state, next) \subseteq
                  [tab : LoaderTabs, key : TabKeys, generation : 0..MaxToggles]
<1> DEFINE new == Loads(state, next)
           NewLoad(t) == [tab |-> t, key |-> Key(next, t), generation |-> next.generation]
<1>1. new = {NewLoad(t) : t \in next.loading \ state.loading}
  BY DEF Loads
<1>2. \A t \in LoaderTabs : Key(next, t) = Key(state, t) /\ Key(next, t) \in TabKeys
  BY CatalogAssumption DEF Key, TabKeys, TabState
<1>3. new \subseteq [tab : LoaderTabs, key : TabKeys, generation : 0..MaxToggles]
  BY <1>1, <1>2 DEF TabState
<1>4. next.generation \in Nat
  BY CatalogAssumption DEF TabState
<1>5. ASSUME NEW l \in loads \union new
      PROVE  /\ l.generation <= next.generation
             /\ l.generation = next.generation =>
                    l.tab \in next.loading /\ l.key = Key(next, l.tab)
  <2>1. CASE l \in loads
    BY <1>2, <2>1 DEF LoadsAreTheTabs
  <2>2. CASE l \in new
    BY <1>1, <1>4, <2>2
  <2> QED
    BY <2>1, <2>2
<1>6. ASSUME NEW t \in next.loading
      PROVE  \E l \in loads \union new : l.tab = t /\ l.generation = next.generation
  <2>1. CASE t \in state.loading
    BY <2>1 DEF LoadsAreTheTabs
  <2>2. CASE t \notin state.loading
    <3>1. NewLoad(t) \in new
      BY <1>1, <2>2
    <3> QED
      BY <3>1
  <2> QED
    BY <2>1, <2>2
<1> QED
  BY <1>3, <1>5, <1>6 DEF LoadsAreTheTabs

LEMMA CatalogInitially == CatalogInit => CatalogInv
<1> SUFFICES ASSUME CatalogInit PROVE CatalogInv
  OBVIOUS
<1> USE CatalogAssumption
<1>0. tabState = Opened(FALSE, 0, {FirstTab})
  BY Zenon DEF CatalogInit
<1>1. /\ tabState \in TabState /\ tabState.unstable = FALSE /\ tabState.generation = 0
      /\ tabState.loading = {FirstTab} /\ tabState.failed = {}
      /\ \A t \in LoaderTabs : tabState.options[t] = NoOptions
  <2> DEFINE unstable == FALSE
  <2>1. unstable \in BOOLEAN /\ unstable = FALSE
    OBVIOUS
  <2>2. tabState = Opened(unstable, 0, {FirstTab})
    BY <1>0, Zenon
  <2> HIDE DEF unstable
  <2> QED
    BY <2>1, <2>2, OpenedState
<1>2. \A t \in LoaderTabs : Key(tabState, t) = <<t, FALSE>> /\ Key(tabState, t) \in TabKeys
  BY <1>1, KeysOfTabs
<1> DEFINE key == <<FirstTab, FALSE>>
<1>6. key = Key(tabState, FirstTab) /\ key \in TabKeys
  BY <1>2, Zenon
<1>7. tabLoads = {[tab |-> FirstTab, key |-> key, generation |-> 0]}
  BY Zenon DEF CatalogInit
<1> HIDE DEF key
<1>3. CatalogTypeOK
  <2>1. tabLoads \subseteq [tab : LoaderTabs, key : TabKeys, generation : 0..MaxToggles]
    BY <1>6, <1>7
  <2>2. optionsCache \in [TabKeys -> TabAnswers \union {NoOptions}]
    BY DEF CatalogInit
  <2> QED
    BY <1>1, <2>1, <2>2 DEF CatalogInit, CatalogTypeOK, TabState
<1>4. LoadsAreTheTabs(tabState, tabLoads)
  BY <1>1, <1>6, <1>7 DEF LoadsAreTheTabs
<1>5. TabsAreSound(tabState, optionsCache)
  BY <1>1, <1>2 DEF CatalogInit, TabsAreSound
<1> QED
  BY <1>1, <1>3, <1>4, <1>5 DEF CatalogInv, CatalogInit

LEMMA CatalogStep == CatalogInv /\ [CatalogNext]_catalogVars => CatalogInv'
<1> SUFFICES ASSUME CatalogInv, [CatalogNext]_catalogVars PROVE CatalogInv'
  OBVIOUS
<1> USE CatalogAssumption
<1>0. /\ tabState \in TabState /\ activeTab \in LoaderTabs
      /\ tabLoads \subseteq [tab : LoaderTabs, key : TabKeys, generation : 0..MaxToggles]
      /\ optionsCache \in [TabKeys -> TabAnswers \union {NoOptions}]
      /\ toggles \in 0..MaxToggles /\ tabState.generation = toggles
      /\ LoadsAreTheTabs(tabState, tabLoads) /\ TabsAreSound(tabState, optionsCache)
  BY DEF CatalogInv, CatalogTypeOK, TabState
<1>1. ASSUME NEW t \in LoaderTabs, ShowTab(t) PROVE CatalogInv'
  <2> DEFINE next == LoadTab(tabState, t)
  <2>1. /\ activeTab' = t /\ tabState' = next
        /\ tabLoads' = tabLoads \union Loads(tabState, next)
        /\ optionsCache' = optionsCache /\ toggles' = toggles
    BY <1>1 DEF ShowTab
  <2>2. /\ next \in TabState
        /\ next.unstable = tabState.unstable /\ next.generation = tabState.generation
        /\ TabsAreSound(next, optionsCache)
        /\ t \in next.loading \/ next.options[t] # NoOptions
        /\ tabState.loading \subseteq next.loading
    BY <1>0, LoadTabIsSound DEF CatalogInv
  <2> HIDE DEF next
  <2>3. /\ LoadsAreTheTabs(next, tabLoads')
        /\ tabLoads' \subseteq [tab : LoaderTabs, key : TabKeys, generation : 0..MaxToggles]
    BY <1>0, <2>1, <2>2, NewLoadsAreTheTabs
  <2> QED
    BY <1>0, <2>1, <2>2, <2>3 DEF CatalogInv, CatalogTypeOK, TabState
<1>2. CASE SetUnstable
  <2> DEFINE fresh == Opened(~tabState.unstable, tabState.generation + 1, {})
             next == LoadTab(fresh, activeTab)
  <2>1. /\ toggles < MaxToggles /\ toggles' = toggles + 1 /\ tabState' = next
        /\ tabLoads' = tabLoads \union Loads(tabState, next)
        /\ activeTab' = activeTab /\ optionsCache' = optionsCache
    BY <1>2 DEF SetUnstable
  <2>3. /\ fresh \in TabState /\ fresh.generation = toggles + 1 /\ fresh.loading = {}
        /\ fresh.failed = {} /\ \A t \in LoaderTabs : fresh.options[t] = NoOptions
    <3> DEFINE unstable == ~tabState.unstable
               generation == tabState.generation + 1
    <3>1. unstable \in BOOLEAN /\ generation \in 0..MaxToggles /\ generation = toggles + 1
      BY <1>0, <2>1 DEF TabState
    <3>2. fresh = Opened(unstable, generation, {})
      BY Zenon
    <3> HIDE DEF fresh, unstable, generation
    <3> QED
      BY <3>1, <3>2, OpenedState
  <2>4. TabsAreSound(fresh, optionsCache)
    BY <2>3 DEF TabsAreSound
  <2> HIDE DEF fresh
  <2>5. /\ next \in TabState /\ next.generation = toggles + 1
        /\ TabsAreSound(next, optionsCache)
        /\ activeTab \in next.loading \/ next.options[activeTab] # NoOptions
    BY <1>0, <2>3, <2>4, LoadTabIsSound DEF CatalogInv
  <2> HIDE DEF next
  <2>6. Loads(tabState, next) = {[tab |-> t, key |-> Key(next, t), generation |-> toggles + 1] :
                                    t \in next.loading}
    BY <1>0, <2>5 DEF Loads
  <2>7. \A t \in LoaderTabs : Key(next, t) \in TabKeys
    BY <2>5 DEF Key, TabKeys, TabState
  <2>8. /\ LoadsAreTheTabs(next, tabLoads')
        /\ tabLoads' \subseteq [tab : LoaderTabs, key : TabKeys, generation : 0..MaxToggles]
    <3>1. toggles + 1 \in 0..MaxToggles /\ toggles \in Nat
      BY <1>0, <2>1
    <3>2. next.loading \subseteq LoaderTabs
      BY <2>5 DEF TabState
    <3>3. \A l \in tabLoads : l.generation <= toggles /\ l.generation \in Nat
      BY <1>0 DEF LoadsAreTheTabs
    <3>4. tabLoads' \subseteq [tab : LoaderTabs, key : TabKeys, generation : 0..MaxToggles]
      BY <1>0, <2>1, <2>6, <2>7, <3>1, <3>2
    <3>5. ASSUME NEW l \in tabLoads'
          PROVE  /\ l.generation <= next.generation
                 /\ l.generation = next.generation =>
                        l.tab \in next.loading /\ l.key = Key(next, l.tab)
      <4>1. CASE l \in tabLoads
        BY <2>5, <3>1, <3>3, <4>1
      <4>2. CASE l \in Loads(tabState, next)
        BY <2>5, <2>6, <3>1, <4>2
      <4> QED
        BY <2>1, <4>1, <4>2
    <3>6. ASSUME NEW t \in next.loading
          PROVE  \E l \in tabLoads' : l.tab = t /\ l.generation = next.generation
      <4>1. [tab |-> t, key |-> Key(next, t), generation |-> toggles + 1] \in tabLoads'
        BY <2>1, <2>6
      <4> QED
        BY <2>5, <4>1
    <3> QED
      BY <3>4, <3>5, <3>6 DEF LoadsAreTheTabs
  <2> QED
    BY <1>0, <2>1, <2>5, <2>8 DEF CatalogInv, CatalogTypeOK, TabState
<1>3. ASSUME NEW load \in tabLoads, NEW answer \in TabAnswers, AnswerTab(load, answer)
      PROVE  CatalogInv'
  <2>0. /\ tabLoads' = tabLoads \ {load} /\ activeTab' = activeTab /\ toggles' = toggles
        /\ load.tab \in LoaderTabs /\ load.key \in TabKeys
    BY <1>0, <1>3 DEF AnswerTab
  <2>1. CASE load.generation = tabState.generation
    <3> DEFINE t == load.tab
               got == [key |-> load.key, answer |-> answer]
    <3>1. /\ tabState' = [tabState EXCEPT
                !.loading = @ \ {t}, !.options[t] = got,
                !.failed = IF answer = "failed" THEN @ \union {t} ELSE @]
          /\ optionsCache' = [optionsCache EXCEPT ![load.key] = answer]
      BY <1>3, <2>1 DEF AnswerTab, Answered
    <3>2. t \in tabState.loading /\ load.key = Key(tabState, t)
      BY <1>0, <2>1 DEF LoadsAreTheTabs
    <3>3. got \in Options /\ got # NoOptions /\ answer # NoOptions
      BY <2>0 DEF Options
    <3>4. tabState.options[t] = NoOptions /\ t \notin tabState.failed
      BY <1>0, <3>2 DEF TabsAreSound
    <3> DEFINE failed == IF answer = "failed" THEN tabState.failed \union {t} ELSE tabState.failed
    <3>5. /\ tabState'.loading = tabState.loading \ {t} /\ tabState'.failed = failed
          /\ tabState'.unstable = tabState.unstable /\ tabState'.generation = tabState.generation
          /\ tabState'.options = [tabState.options EXCEPT ![t] = got]
      BY <1>0, <3>1 DEF TabState
    <3>6. tabState' \in TabState
      <4>1. [tabState.options EXCEPT ![t] = got] \in [LoaderTabs -> Options \union {NoOptions}]
        BY <1>0, <3>3 DEF TabState
      <4>2. failed \in SUBSET LoaderTabs
        BY <1>0, <2>0 DEF TabState
      <4>3. tabState' = [tabState EXCEPT !.loading = tabState.loading \ {t},
                !.options = [tabState.options EXCEPT ![t] = got], !.failed = failed]
        BY <1>0, <3>1 DEF TabState
      <4> QED
        BY <1>0, <4>1, <4>2, <4>3 DEF TabState
    <3>7. \A u \in LoaderTabs :
              /\ Key(tabState', u) = Key(tabState, u)
              /\ tabState'.options[u] = IF u = t THEN got ELSE tabState.options[u]
              /\ u # t => Key(tabState, u) # load.key
              /\ Key(tabState, u) \in TabKeys
      <4>2. \A u \in LoaderTabs : Key(tabState', u) = Key(tabState, u)
        BY <3>5 DEF Key
      <4>3. \A u \in LoaderTabs : tabState'.options[u] = IF u = t THEN got ELSE tabState.options[u]
        BY <1>0, <3>5 DEF TabState
      <4>4. \A u \in LoaderTabs : Key(tabState, u) \in TabKeys
                                 /\ (u # t => Key(tabState, u) # load.key)
        BY <1>0, <2>0, <3>2, KeysOfTabs
      <4> QED
        BY <4>2, <4>3, <4>4
    <3>8. optionsCache' \in [TabKeys -> TabAnswers \union {NoOptions}]
          /\ \A k \in TabKeys : k # load.key => optionsCache'[k] = optionsCache[k]
      BY <1>0, <2>0, <3>1
    <3>9. TabsAreSound(tabState', optionsCache')
      <4>1. ASSUME NEW u \in tabState'.loading
            PROVE  tabState'.options[u] = NoOptions
                   /\ optionsCache'[Key(tabState', u)] = NoOptions
        <5>1. u \in LoaderTabs /\ u # t /\ u \in tabState.loading
          BY <1>0, <3>5 DEF TabState
        <5> QED
          BY <1>0, <3>7, <3>8, <5>1 DEF TabsAreSound
      <4>2. ASSUME NEW u \in LoaderTabs, tabState'.options[u] # NoOptions
            PROVE  tabState'.options[u].key = Key(tabState', u)
        BY <1>0, <3>2, <3>7, <4>2 DEF TabsAreSound
      <4>3. ASSUME NEW u \in tabState'.failed
            PROVE  tabState'.options[u] # NoOptions /\ tabState'.options[u].answer = "failed"
        <5>1. CASE u = t
          BY <2>0, <3>3, <3>4, <3>5, <3>7, <5>1
        <5>2. CASE u # t
          BY <1>0, <3>5, <3>7, <5>2 DEF TabsAreSound, TabState
        <5> QED
          BY <5>1, <5>2
      <4> QED
        BY <4>1, <4>2, <4>3 DEF TabsAreSound
    <3>10. LoadsAreTheTabs(tabState', tabLoads')
      <4>1. ASSUME NEW l \in tabLoads', l.tab = t, l.generation = tabState.generation
            PROVE  FALSE
        <5>1. l \in tabLoads /\ l # load /\ l.key = load.key
          BY <1>0, <2>0, <3>2, <4>1 DEF LoadsAreTheTabs
        <5> QED
          BY <1>0, <2>1, <4>1, <5>1
      <4>2. ASSUME NEW l \in tabLoads'
            PROVE  /\ l.generation <= tabState'.generation
                   /\ l.generation = tabState'.generation =>
                          l.tab \in tabState'.loading /\ l.key = Key(tabState', l.tab)
        BY <1>0, <2>0, <3>5, <3>7, <4>1 DEF LoadsAreTheTabs
      <4>3. ASSUME NEW u \in tabState'.loading
            PROVE  \E l \in tabLoads' : l.tab = u /\ l.generation = tabState'.generation
        BY <1>0, <2>0, <3>5 DEF LoadsAreTheTabs
      <4> QED
        BY <4>2, <4>3 DEF LoadsAreTheTabs
    <3>11. activeTab \in tabState'.loading \/ tabState'.options[activeTab] # NoOptions
      BY <1>0, <3>3, <3>5, <3>7 DEF CatalogInv
    <3> QED
      BY <1>0, <2>0, <3>5, <3>6, <3>8, <3>9, <3>10, <3>11 DEF CatalogInv, CatalogTypeOK, TabState
  <2>2. CASE load.generation # tabState.generation
    <3>1. tabState' = tabState /\ optionsCache' = optionsCache
      BY <1>3, <2>2 DEF AnswerTab
    <3>2. LoadsAreTheTabs(tabState', tabLoads')
      BY <1>0, <2>0, <2>2, <3>1 DEF LoadsAreTheTabs
    <3> QED
      BY <1>0, <2>0, <3>1, <3>2 DEF CatalogInv, CatalogTypeOK
  <2> QED
    BY <2>1, <2>2
<1>4. CASE UNCHANGED catalogVars
  BY <1>4 DEF catalogVars, CatalogInv, CatalogTypeOK
<1> QED
  BY <1>1, <1>2, <1>3, <1>4 DEF CatalogNext

\* Whatever order the answers come in, a tab shows the list of the filter that
\* is set, its error, or that it loads it (VersionCreatePage._load_tab and
\* _set_unstable_versions_enabled of version_create.py).
THEOREM TabsStayCurrent == CatalogSpec => []TabsAreCurrent
<1>1. CatalogInv => TabsAreCurrent
  <2> SUFFICES ASSUME CatalogInv PROVE TabsAreCurrent
    OBVIOUS
  <2>1. tabState.loading = {l.tab : l \in {m \in tabLoads : m.generation = tabState.generation}}
    BY DEF CatalogInv, LoadsAreTheTabs
  <2> QED
    BY <2>1 DEF CatalogInv, TabsAreSound, TabsAreCurrent
<1> QED
  BY <1>1, CatalogInitially, CatalogStep, PTL DEF CatalogSpec

-----------------------------------------------------------------------------
\* A question of the counter's value is the one that the controls ask.
QuestionsAreKnown ==
    \A q \in questions : /\ q.generation <= dialog.generation
                         /\ dialog.open /\ q.generation = dialog.generation => q = Asked

\* What the dialog offers is what it asked for last.
ChoiceInv ==
    /\ dialog \in [open : BOOLEAN, disposed : BOOLEAN, loader : ChoiceLoaders, unstable : BOOLEAN,
                   loading : BOOLEAN, generation : 0..MaxQuestions + 1]
    /\ questions \subseteq Question
    /\ QuestionsAreKnown
    /\ DialogIsCurrent

DialogState == [open : BOOLEAN, disposed : BOOLEAN, loader : ChoiceLoaders, unstable : BOOLEAN,
                loading : BOOLEAN, generation : 0..MaxQuestions + 1]

LEMMA ChoiceInitially == ChoiceInit => ChoiceInv
<1> SUFFICES ASSUME ChoiceInit PROVE ChoiceInv
  OBVIOUS
<1> QED
  BY ChoiceAssumption DEF ChoiceInit, ChoiceInv, QuestionsAreKnown, DialogIsCurrent, Question

\* A question that is asked is the only one of its value of the counter.
LEMMA AskKeepsChoice ==
    ASSUME ChoiceInv, NEW loader \in ChoiceLoaders, NEW unstable \in BOOLEAN,
           Ask(loader, unstable)
    PROVE  ChoiceInv'
<1> USE ChoiceAssumption
<1> DEFINE question == [loader |-> loader, unstable |-> unstable,
                        generation |-> dialog.generation + 1]
           opened == [dialog EXCEPT !.open = TRUE, !.loader = loader, !.unstable = unstable,
                                    !.loading = TRUE, !.generation = dialog.generation + 1]
<1>1. dialog \in DialogState /\ dialog.generation < MaxQuestions /\ dialog.generation \in Nat
  BY DEF ChoiceInv, DialogState, Ask
<1>2. dialog' = opened /\ questions' = questions \union {question} /\ question \in questions'
  BY <1>1 DEF Ask, DialogState
<1>3. /\ dialog'.open = TRUE /\ dialog'.loading = TRUE /\ dialog'.loader = loader
      /\ dialog'.unstable = unstable /\ dialog'.generation = dialog.generation + 1
  BY <1>1, <1>2 DEF DialogState
<1>4. dialog' \in DialogState
  <2> DEFINE open == TRUE
             generation == dialog.generation + 1
  <2>1. open \in BOOLEAN /\ generation \in 0..MaxQuestions + 1
    BY <1>1
  <2>2. dialog' = [dialog EXCEPT !.open = open, !.loader = loader, !.unstable = unstable,
                                 !.loading = open, !.generation = generation]
    BY <1>2
  <2> HIDE DEF open, generation
  <2> QED
    BY <1>1, <2>1, <2>2 DEF DialogState
<1>5. question \in Question /\ Asked' = question
  BY <1>1, <1>3 DEF Question, Asked
<1>6. questions' \subseteq Question
  BY <1>2, <1>5 DEF ChoiceInv
<1>7. \A q \in questions : q.generation <= dialog.generation /\ q.generation \in Nat
  BY DEF ChoiceInv, QuestionsAreKnown, Question
<1>8. QuestionsAreKnown'
  <2> SUFFICES ASSUME NEW q \in questions'
               PROVE  /\ q.generation <= dialog'.generation
                      /\ q.generation = dialog'.generation => q = Asked'
    BY DEF QuestionsAreKnown
  <2>1. CASE q \in questions
    BY <1>1, <1>3, <1>7, <2>1
  <2>2. CASE q = question
    BY <1>1, <1>3, <1>5, <2>2
  <2> QED
    BY <1>2, <2>1, <2>2
<1>9. DialogIsCurrent'
  BY <1>2, <1>3, <1>5 DEF DialogIsCurrent
<1> QED
  BY <1>4, <1>6, <1>8, <1>9 DEF ChoiceInv, DialogState

\* A dialog that is closed shows nothing, whatever is under way.
LEMMA CloseKeepsChoice ==
    ASSUME ChoiceInv, NEW disposed \in BOOLEAN, Closed(disposed), questions' = questions
    PROVE  ChoiceInv'
<1> DEFINE next == IF dialog.generation > MaxQuestions THEN dialog.generation
                   ELSE dialog.generation + 1
           open == FALSE
<1>1. dialog \in DialogState
  BY DEF ChoiceInv, DialogState
<1>2. next \in 0..MaxQuestions + 1 /\ next >= dialog.generation /\ open \in BOOLEAN
      /\ dialog.generation \in Nat
  BY <1>1, ChoiceAssumption DEF DialogState
<1>3. dialog' = [dialog EXCEPT !.open = open, !.disposed = disposed, !.generation = next]
  BY <1>1 DEF Closed, DialogState
<1>4. ~open
  OBVIOUS
<1> HIDE DEF next, open
<1>5. dialog' \in DialogState /\ dialog'.open = open /\ dialog'.generation = next
  BY <1>1, <1>2, <1>3 DEF DialogState
<1>6. \A q \in questions : q.generation <= dialog.generation /\ q.generation \in Nat
  BY DEF ChoiceInv, QuestionsAreKnown, Question
<1>7. \A q \in questions : q.generation <= next
  BY <1>2, <1>6
<1>8. QuestionsAreKnown' /\ DialogIsCurrent'
  BY <1>4, <1>5, <1>7 DEF QuestionsAreKnown, DialogIsCurrent
<1> QED
  BY <1>5, <1>8 DEF ChoiceInv, DialogState

LEMMA ChoiceStep == ChoiceInv /\ [ChoiceNext]_choiceVars => ChoiceInv'
<1> SUFFICES ASSUME ChoiceInv, [ChoiceNext]_choiceVars PROVE ChoiceInv'
  OBVIOUS
<1>0. dialog \in DialogState /\ dialog.loader \in ChoiceLoaders /\ dialog.unstable \in BOOLEAN
      /\ (~dialog.unstable) \in BOOLEAN
  BY DEF ChoiceInv, DialogState
<1>1. CASE ShowDialog
  BY <1>0, <1>1, AskKeepsChoice DEF ShowDialog
<1>2. CASE ChangeUnstable
  BY <1>0, <1>2, AskKeepsChoice DEF ChangeUnstable
<1>3. CASE CloseDialog
  BY <1>3, CloseKeepsChoice DEF CloseDialog
<1>4. CASE Dispose
  BY <1>4, CloseKeepsChoice DEF Dispose
<1>5. CASE ChoiceInstalled
  BY <1>5 DEF ChoiceInstalled, ChoiceInv, QuestionsAreKnown, DialogIsCurrent, Asked
<1>6. ASSUME NEW loader \in ChoiceLoaders, ChangeLoader(loader) PROVE ChoiceInv'
  BY <1>0, <1>6, AskKeepsChoice DEF ChangeLoader
<1>7. ASSUME NEW q \in questions, NEW fails \in BOOLEAN, AnswerChoice(q, fails)
      PROVE  ChoiceInv'
  <2>1. CASE dialog.open /\ q.generation = dialog.generation
    <3> DEFINE loading == FALSE
    <3>1. loading \in BOOLEAN /\ ~loading
      OBVIOUS
    <3>2. /\ questions' = questions \ {q} /\ dialog' = [dialog EXCEPT !.loading = loading]
          /\ offered' = IF fails THEN NoChoice
                        ELSE [loader |-> q.loader, unstable |-> q.unstable,
                              builds |-> ChoicesOf(q.loader, q.unstable)]
      BY <1>7, <2>1 DEF AnswerChoice, ShowChoices
    <3> HIDE DEF loading
    <3>3. /\ dialog' \in DialogState /\ dialog'.loading = loading
          /\ dialog'.open = dialog.open /\ dialog'.generation = dialog.generation
          /\ dialog'.loader = dialog.loader /\ dialog'.unstable = dialog.unstable
      BY <1>0, <3>1, <3>2 DEF DialogState
    <3>4. Asked' = Asked
      BY <3>3 DEF Asked
    <3>5. q.loader = dialog.loader /\ q.unstable = dialog.unstable
      BY <2>1 DEF ChoiceInv, QuestionsAreKnown, Asked
    <3>6. offered' # NoChoice => offered'.loader = q.loader /\ offered'.unstable = q.unstable
      BY <3>2
    <3>7. QuestionsAreKnown'
      BY <3>2, <3>3, <3>4 DEF ChoiceInv, QuestionsAreKnown
    <3>8. DialogIsCurrent'
      BY <3>1, <3>3, <3>5, <3>6 DEF DialogIsCurrent
    <3> QED
      BY <3>2, <3>3, <3>7, <3>8 DEF ChoiceInv, DialogState
  <2>2. CASE ~(dialog.open /\ q.generation = dialog.generation)
    <3>1. questions' = questions \ {q} /\ UNCHANGED <<dialog, offered>>
      BY <1>7, <2>2 DEF AnswerChoice
    <3>2. dialog.open => q # Asked
      BY <2>2 DEF Asked
    <3> QED
      BY <3>1, <3>2 DEF ChoiceInv, QuestionsAreKnown, DialogIsCurrent, Asked
  <2> QED
    BY <2>1, <2>2
<1>8. ASSUME NEW i \in 1..8, InstallChoice(i) PROVE ChoiceInv'
  BY <1>8, CloseKeepsChoice DEF InstallChoice
<1>9. CASE UNCHANGED choiceVars
  BY <1>9 DEF choiceVars, ChoiceInv, QuestionsAreKnown, DialogIsCurrent, Asked
<1> QED
  BY <1>1, <1>2, <1>3, <1>4, <1>5, <1>6, <1>7, <1>8, <1>9 DEF ChoiceNext

\* Whatever is closed, reopened, changed or answered late, the dialog lets the
\* player install what is of the loader and the filter it shows
\* (_queue_options_load and _apply_load_error of version_component_modal.py).
THEOREM DialogStaysCurrent == ChoiceSpec => []DialogIsCurrent
<1>1. ChoiceInv => DialogIsCurrent
  BY DEF ChoiceInv
<1> QED
  BY <1>1, ChoiceInitially, ChoiceStep, PTL DEF ChoiceSpec

-----------------------------------------------------------------------------
(* The choices of builds *)

\* Builds of one loader: sort keys of one length.
Comparable(builds) == \A b, c \in builds : Len(b.nums) = Len(c.nums)

RankOf(b) == IF IsPrerelease(b) THEN PrereleaseRank[b.word] ELSE StableRank

\* A set of numbers that is not empty has a least one.
LEMMA LeastIndex ==
    ASSUME NEW S \in SUBSET Nat, S # {} PROVE \E n \in S : \A m \in S : n <= m
<1> DEFINE R == OpToRel(<, Nat)
<1>1. IsWellFoundedOn(R, Nat) BY NatLessThanWellFounded, Zenon
<1>2. \A m, n \in Nat : m < n => <<m, n>> \in R BY Zenon DEF OpToRel
<1> HIDE DEF R
<1>3. PICK n \in S : \A m \in S : <<m, n>> \notin R BY <1>1, WFMin, Zenon
<1>4. \A m \in S : ~(m < n) BY <1>2, <1>3
<1> QED BY <1>4

LEMMA RanksDiffer ==
  ASSUME NEW b \in Build
  PROVE  /\ RankOf(b) \in Nat /\ RankOf(b) <= 10
         /\ RankOf(b) = 10 <=> ~IsPrerelease(b)
         /\ \A c \in Build : RankOf(b) = RankOf(c) => b.word = c.word
<1>1. /\ PrereleaseRank["snapshot"] = 1 /\ PrereleaseRank["alpha"] = 2
      /\ PrereleaseRank["beta"] = 3 /\ PrereleaseRank["pre"] = 4 /\ PrereleaseRank["rc"] = 5
  BY DEF PrereleaseRank
<1>2. DOMAIN PrereleaseRank = {"snapshot", "alpha", "beta", "pre", "rc"}
  BY DEF PrereleaseRank
<1>3. ASSUME NEW c \in Build
      PROVE  /\ c.word \in {"release", "snapshot", "alpha", "beta", "pre", "rc"}
             /\ c.word = "release" => RankOf(c) = 10
             /\ c.word = "snapshot" => RankOf(c) = 1
             /\ c.word = "alpha" => RankOf(c) = 2
             /\ c.word = "beta" => RankOf(c) = 3
             /\ c.word = "pre" => RankOf(c) = 4
             /\ c.word = "rc" => RankOf(c) = 5
  BY <1>1, <1>2 DEF Build, RankOf, IsPrerelease, StableRank
<1>4. RankOf(b) \in Nat /\ RankOf(b) <= 10 /\ (RankOf(b) = 10 <=> b.word = "release")
  <2> DEFINE w == b.word  r == RankOf(b)
  <2>1. /\ w \in {"release", "snapshot", "alpha", "beta", "pre", "rc"}
        /\ w = "release" => r = 10
        /\ w = "snapshot" => r = 1
        /\ w = "alpha" => r = 2
        /\ w = "beta" => r = 3
        /\ w = "pre" => r = 4
        /\ w = "rc" => r = 5
    BY <1>3
  <2> HIDE DEF w, r
  <2>2. r \in Nat /\ r <= 10 /\ (r = 10 <=> w = "release")
    BY <2>1
  <2> QED
    BY <2>2 DEF w, r
<1>6. IsPrerelease(b) <=> b.word # "release"
  BY <1>2 DEF IsPrerelease, Build
<1>5. ASSUME NEW c \in Build, RankOf(b) = RankOf(c) PROVE b.word = c.word
  BY <1>3, <1>5
<1> QED
  BY <1>4, <1>5, <1>6

LEMMA KeyOf ==
  ASSUME NEW b \in Build
  PROVE  /\ SortKey(b) \in Seq(Nat) /\ Len(SortKey(b)) = Len(b.nums) + 2 /\ Len(b.nums) \in Nat
         /\ \A i \in 1..Len(b.nums) : SortKey(b)[i] = b.nums[i]
         /\ SortKey(b)[Len(b.nums) + 1] = RankOf(b)
         /\ SortKey(b)[Len(b.nums) + 2] = b.pre
<1>1. b.nums \in Seq(Nat) /\ b.pre \in Nat /\ RankOf(b) \in Nat
  BY RanksDiffer DEF Build
<1>2. SortKey(b) = b.nums \o <<RankOf(b), b.pre>>
  BY DEF SortKey, RankOf
<1>3. ASSUME NEW s \in Seq(Nat), NEW r \in Nat, NEW p \in Nat, NEW t, t = s \o <<r, p>>
      PROVE  /\ t \in Seq(Nat) /\ Len(t) = Len(s) + 2 /\ Len(s) \in Nat
             /\ \A i \in 1..Len(s) : t[i] = s[i]
             /\ t[Len(s) + 1] = r /\ t[Len(s) + 2] = p
  BY <1>3
<1> HIDE DEF RankOf
<1> QED
  BY <1>1, <1>2, <1>3

\* Sort keys order the builds of a loader strictly and totally.
LEMMA NewerIsOrder ==
  ASSUME NEW builds \in SUBSET Build, Comparable(builds)
  PROVE  /\ \A b \in builds : ~NewerBuild(b, b)
         /\ \A b, c \in builds : b # c => NewerBuild(b, c) \/ NewerBuild(c, b)
         /\ \A b, c, d \in builds : NewerBuild(b, c) /\ NewerBuild(c, d) => NewerBuild(b, d)
<1>1. \A b \in builds : SortKey(b) \in Seq(Nat)
  BY KeyOf
<1>2. \A b, c \in builds : Len(SortKey(b)) = Len(SortKey(c))
  BY KeyOf DEF Comparable
<1>3. ASSUME NEW b \in builds PROVE ~NewerBuild(b, b)
  BY <1>1 DEF NewerBuild
<1>4. ASSUME NEW b \in builds, NEW c \in builds, SortKey(b) # SortKey(c)
      PROVE  NewerBuild(b, c) \/ NewerBuild(c, b)
  <2> DEFINE D == {i \in 1..Len(SortKey(b)) : SortKey(b)[i] # SortKey(c)[i]}
  <2>1. D # {}
    BY <1>1, <1>2, <1>4, SeqEqual
  <2>2. D \in SUBSET Nat
    BY <1>1
  <2>3. \E i \in D : \A j \in D : i <= j
    <3> HIDE DEF D
    <3> QED
      BY <2>1, <2>2, LeastIndex
  <2>4. PICK i \in D : \A j \in D : i <= j
    BY <2>3
  <2>5. \A j \in 1..(i - 1) : SortKey(b)[j] = SortKey(c)[j]
    BY <1>1, <2>4
  <2>6. /\ i \in 1..Len(SortKey(b)) /\ i \in 1..Len(SortKey(c))
        /\ SortKey(b)[i] > SortKey(c)[i] \/ SortKey(c)[i] > SortKey(b)[i]
    BY <1>1, <1>2, <2>4
  <2> QED
    BY <2>5, <2>6 DEF NewerBuild
<1>5. ASSUME NEW b \in builds, NEW c \in builds, SortKey(b) = SortKey(c) PROVE b = c
  <2>1. Len(b.nums) = Len(c.nums)
    BY DEF Comparable
  <2>2. b.pre = c.pre /\ RankOf(b) = RankOf(c) /\ \A i \in 1..Len(b.nums) : b.nums[i] = c.nums[i]
    BY <1>5, <2>1, KeyOf
  <2>3. b.word = c.word
    BY <2>2, RanksDiffer
  <2>4. b.nums = c.nums
    BY <2>1, <2>2, SeqEqual DEF Build
  <2>5. ASSUME NEW x \in Build PROVE x = [nums |-> x.nums, word |-> x.word, pre |-> x.pre]
    BY DEF Build
  <2> QED
    BY <2>2, <2>3, <2>4, <2>5
<1>6. ASSUME NEW b \in builds, NEW c \in builds, NEW d \in builds,
             NewerBuild(b, c), NewerBuild(c, d)
      PROVE  NewerBuild(b, d)
  <2>1. PICK i \in 1..Len(SortKey(b)) :
          /\ SortKey(b)[i] > SortKey(c)[i]
          /\ \A j \in 1..(i - 1) : SortKey(b)[j] = SortKey(c)[j]
    BY <1>6 DEF NewerBuild
  <2>2. PICK k \in 1..Len(SortKey(b)) :
          /\ SortKey(c)[k] > SortKey(d)[k]
          /\ \A j \in 1..(k - 1) : SortKey(c)[j] = SortKey(d)[j]
    BY <1>2, <1>6 DEF NewerBuild
  <2>3. SortKey(b) \in Seq(Nat) /\ SortKey(c) \in Seq(Nat) /\ SortKey(d) \in Seq(Nat)
        /\ Len(SortKey(c)) = Len(SortKey(b)) /\ Len(SortKey(d)) = Len(SortKey(b))
    BY <1>1, <1>2
  <2>4. ASSUME NEW kb \in Seq(Nat), NEW kc \in Seq(Nat), NEW kd \in Seq(Nat),
               Len(kc) = Len(kb), Len(kd) = Len(kb), i \in 1..Len(kb), k \in 1..Len(kb),
               kb[i] > kc[i], \A j \in 1..(i - 1) : kb[j] = kc[j],
               kc[k] > kd[k], \A j \in 1..(k - 1) : kc[j] = kd[j]
        PROVE  \E l \in 1..Len(kb) : kb[l] > kd[l] /\ \A j \in 1..(l - 1) : kb[j] = kd[j]
    <3> DEFINE l == IF i <= k THEN i ELSE k
    <3>1. l \in 1..Len(kb) /\ l <= i /\ l <= k
      BY <2>4
    <3>2. \A j \in 1..(l - 1) : kb[j] = kd[j]
      BY <2>4, <3>1
    <3>3. kb[l] > kd[l]
      <4>1. CASE i < k
        BY <2>4, <4>1
      <4>2. CASE i = k
        BY <2>4, <4>2
      <4>3. CASE k < i
        BY <2>4, <4>3
      <4> QED
        BY <4>1, <4>2, <4>3
    <3> QED
      BY <3>1, <3>2, <3>3
  <2> QED
    BY <2>1, <2>2, <2>3, <2>4 DEF NewerBuild
<1> QED
  BY <1>3, <1>4, <1>5, <1>6

\* In the order of their keys every build has a place of its own, and every place
\* a build.
LEMMA SortedPlaces ==
  ASSUME NEW builds \in SUBSET Build, Comparable(builds), IsFiniteSet(builds)
  PROVE  /\ Cardinality(builds) \in Nat
         /\ \A i \in 1..Cardinality(builds) : \E b \in builds :
               Cardinality({c \in builds : NewerBuild(c, b)}) = i - 1
         /\ \A b \in builds :
               Cardinality({c \in builds : NewerBuild(c, b)}) \in 0..(Cardinality(builds) - 1)
         /\ \A b, d \in builds :
               NewerBuild(b, d) <=> Cardinality({c \in builds : NewerBuild(c, b)})
                                     < Cardinality({c \in builds : NewerBuild(c, d)})
<1> DEFINE Above(b) == {c \in builds : NewerBuild(c, b)}
           n == Cardinality(builds)
<1>1. n \in Nat
  BY FS_CardinalityType
<1>2. /\ \A b \in builds : ~NewerBuild(b, b)
      /\ \A b, c \in builds : b # c => NewerBuild(b, c) \/ NewerBuild(c, b)
      /\ \A b, c, d \in builds : NewerBuild(b, c) /\ NewerBuild(c, d) => NewerBuild(b, d)
  BY NewerIsOrder
<1>3. ASSUME NEW b \in builds
      PROVE  /\ IsFiniteSet(Above(b)) /\ Cardinality(Above(b)) \in 0..(n - 1)
             /\ Cardinality(Above(b)) \in Nat
  <2>1. Above(b) \in SUBSET builds /\ b \in builds \ Above(b)
    BY <1>2
  <2>2. IsFiniteSet(Above(b)) /\ Cardinality(Above(b)) <= n /\ Cardinality(Above(b)) # n
    BY <2>1, FS_Subset
  <2>3. Cardinality(Above(b)) \in Nat
    BY <2>2, FS_CardinalityType
  <2> QED
    BY <1>1, <2>2, <2>3
<1>4. ASSUME NEW b \in builds, NEW d \in builds, NewerBuild(b, d)
      PROVE  Cardinality(Above(b)) < Cardinality(Above(d))
  <2>1. Above(b) \in SUBSET Above(d) /\ b \in Above(d) \ Above(b)
    BY <1>2, <1>4
  <2>2. IsFiniteSet(Above(d))
    BY <1>3
  <2>3. Cardinality(Above(b)) <= Cardinality(Above(d)) /\ Cardinality(Above(d)) # Cardinality(Above(b))
    BY <2>1, <2>2, FS_Subset
  <2>4. Cardinality(Above(b)) \in Nat /\ Cardinality(Above(d)) \in Nat
    BY <1>3
  <2> QED
    BY <2>3, <2>4
<1> DEFINE place == [b \in builds |-> Cardinality(Above(b)) + 1]
<1>5. place \in Injection(builds, 1..n)
  <2>1. \A b \in builds : place[b] = Cardinality(Above(b)) + 1
    OBVIOUS
  <2>2. place \in [builds -> 1..n]
    BY <1>1, <1>3
  <2>3. ASSUME NEW b \in builds, NEW d \in builds, place[b] = place[d] PROVE b = d
    <3>1. Cardinality(Above(b)) = Cardinality(Above(d))
      <4>1. Cardinality(Above(b)) \in Nat /\ Cardinality(Above(d)) \in Nat
        BY <1>3
      <4> QED
        BY <2>1, <2>3, <4>1
    <3>2. ~NewerBuild(b, d) /\ ~NewerBuild(d, b)
      <4>1. Cardinality(Above(b)) \in Nat /\ Cardinality(Above(d)) \in Nat
        BY <1>3
      <4> HIDE DEF Above
      <4> QED
        BY <1>4, <3>1, <4>1
    <3> QED
      BY <1>2, <3>2
  <2> HIDE DEF place
  <2> QED
    BY <2>2, <2>3 DEF Injection, IsInjective
<1>6. IsFiniteSet(1..n) /\ Cardinality(1..n) = n
  BY <1>1, FS_Interval
<1>7. place \in Surjection(builds, 1..n)
  <2> HIDE DEF place
  <2> QED
    BY <1>5, <1>6, FS_Injection
<1>8. ASSUME NEW i \in 1..n PROVE \E b \in builds : Cardinality(Above(b)) = i - 1
  <2>1. \E b \in builds : place[b] = i
    <3> HIDE DEF place
    <3> QED
      BY <1>7 DEF Surjection
  <2>2. PICK b \in builds : place[b] = i
    BY <2>1
  <2>3. Cardinality(Above(b)) + 1 = i /\ Cardinality(Above(b)) \in Nat
    BY <1>3, <2>2
  <2>4. Cardinality(Above(b)) = i - 1
    BY <2>3
  <2> QED
    BY <2>4
<1>9. ASSUME NEW b \in builds, NEW d \in builds
      PROVE  NewerBuild(b, d) <=> Cardinality(Above(b)) < Cardinality(Above(d))
  <2>1. Cardinality(Above(b)) \in Nat /\ Cardinality(Above(d)) \in Nat
    BY <1>3
  <2>2. b = d \/ NewerBuild(b, d) \/ NewerBuild(d, b)
    BY <1>2
  <2> HIDE DEF Above
  <2> QED
    BY <1>2, <1>4, <2>1, <2>2
<1> QED
  BY <1>1, <1>3, <1>8, <1>9

\* The choices are sorted: each build once, the newest first.
LEMMA SortedBuilds ==
  ASSUME NEW builds \in SUBSET Build, Comparable(builds), IsFiniteSet(builds)
  PROVE  /\ SortBuilds(builds) \in Seq(builds)
         /\ DOMAIN SortBuilds(builds) = 1..Cardinality(builds)
         /\ \A b \in builds : \E i \in DOMAIN SortBuilds(builds) : SortBuilds(builds)[i] = b
         /\ \A i, j \in DOMAIN SortBuilds(builds) :
               i < j => NewerBuild(SortBuilds(builds)[i], SortBuilds(builds)[j])
<1> DEFINE Place(b) == Cardinality({c \in builds : NewerBuild(c, b)})
           n == Cardinality(builds)
           s == SortBuilds(builds)
<1>1. /\ n \in Nat
      /\ \A i \in 1..n : \E b \in builds : Place(b) = i - 1
      /\ \A b \in builds : Place(b) \in 0..(n - 1)
      /\ \A b, d \in builds : NewerBuild(b, d) <=> Place(b) < Place(d)
  BY SortedPlaces
<1>2. s = [i \in 1..n |-> CHOOSE b \in builds : Place(b) = i - 1]
  BY DEF SortBuilds
<1> HIDE DEF Place, n, s
<1>3. \A i \in 1..n : s[i] \in builds /\ Place(s[i]) = i - 1
  BY <1>1, <1>2
<1>4. DOMAIN s = 1..n /\ s \in Seq(builds)
  BY <1>1, <1>2, <1>3
<1>5. ASSUME NEW b \in builds PROVE \E i \in 1..n : s[i] = b
  <2>1. Place(b) + 1 \in 1..n /\ Place(b) \in Nat
    BY <1>1
  <2>2. s[Place(b) + 1] \in builds /\ Place(s[Place(b) + 1]) = Place(b)
    BY <1>3, <2>1
  <2>3. ~NewerBuild(b, s[Place(b) + 1]) /\ ~NewerBuild(s[Place(b) + 1], b)
    BY <1>1, <2>1, <2>2
  <2>4. s[Place(b) + 1] = b
    BY <2>2, <2>3, NewerIsOrder
  <2> QED
    BY <2>1, <2>4
<1>6. ASSUME NEW i \in 1..n, NEW j \in 1..n, i < j PROVE NewerBuild(s[i], s[j])
  BY <1>1, <1>3, <1>6
<1> QED
  BY <1>4, <1>5, <1>6 DEF s, n

LEMMA NewestIsThere ==
  ASSUME NEW builds \in SUBSET Build, Comparable(builds), IsFiniteSet(builds), builds # {}
  PROVE  /\ Newest(builds) \in builds
         /\ \A c \in builds \ {Newest(builds)} : NewerBuild(Newest(builds), c)
<1> DEFINE Place(b) == Cardinality({c \in builds : NewerBuild(c, b)})
           n == Cardinality(builds)
<1>1. /\ n \in Nat
      /\ \A i \in 1..n : \E b \in builds : Place(b) = i - 1
      /\ \A b \in builds : Place(b) \in 0..(n - 1)
      /\ \A b, d \in builds : NewerBuild(b, d) <=> Place(b) < Place(d)
  BY SortedPlaces
<1>2. \A b, c \in builds : b # c => NewerBuild(b, c) \/ NewerBuild(c, b)
  BY NewerIsOrder
<1> HIDE DEF Place, n
<1>3. PICK a \in builds : TRUE
  OBVIOUS
<1>4. 1 \in 1..n
  BY <1>1, <1>3
<1>5. PICK b \in builds : Place(b) = 1 - 1
  BY <1>1, <1>4
<1>6. ASSUME NEW c \in builds \ {b} PROVE NewerBuild(b, c)
  <2>1. ~NewerBuild(c, b)
    BY <1>1, <1>5
  <2> QED
    BY <1>2, <2>1
<1>7. \E m \in builds : \A c \in builds \ {m} : NewerBuild(m, c)
  BY <1>6
<1> QED
  BY <1>7 DEF Newest

\* A prerelease is older than the release it became.
LEMMA ReleaseIsNewer ==
  ASSUME NEW b \in Build, NEW c \in Build, b.nums = c.nums, IsPrerelease(b), ~IsPrerelease(c)
  PROVE  ~NewerBuild(b, c)
<1> SUFFICES ASSUME NEW i \in 1..Len(SortKey(b)), SortKey(b)[i] > SortKey(c)[i],
                    \A j \in 1..(i - 1) : SortKey(b)[j] = SortKey(c)[j]
             PROVE  FALSE
  BY DEF NewerBuild
<1> DEFINE l == Len(b.nums)  kb == SortKey(b)  kc == SortKey(c)
<1>1. /\ l \in Nat /\ Len(kb) = l + 2 /\ kb \in Seq(Nat) /\ kc \in Seq(Nat) /\ Len(kc) = l + 2
      /\ \A j \in 1..l : kb[j] = kc[j]
      /\ kb[l + 1] = RankOf(b) /\ kc[l + 1] = RankOf(c)
  BY KeyOf
<1>2. RankOf(b) \in Nat /\ RankOf(b) < 10 /\ RankOf(c) = 10
  BY RanksDiffer
<1> HIDE DEF l, kb, kc
<1>3. i \in 1..(l + 2) /\ kb[i] > kc[i] /\ \A j \in 1..(i - 1) : kb[j] = kc[j]
  BY <1>1 DEF kb, kc
<1> HIDE DEF RankOf
<1>4. CASE i <= l
  BY <1>1, <1>3, <1>4
<1>5. CASE i = l + 1
  BY <1>1, <1>2, <1>3, <1>5
<1>6. CASE i = l + 2
  BY <1>1, <1>2, <1>3, <1>6
<1> QED
  BY <1>1, <1>3, <1>4, <1>5, <1>6

\* What one list of choices promises.
NoPrereleaseFirst(builds) ==
    \A i, j \in DOMAIN builds : i < j /\ builds[i].nums = builds[j].nums =>
        ~(IsPrerelease(builds[i]) /\ ~IsPrerelease(builds[j]))

LEMMA SortedIsSound ==
  ASSUME NEW builds \in SUBSET Build, Comparable(builds), IsFiniteSet(builds)
  PROVE  NoPrereleaseFirst(SortBuilds(builds))
<1> DEFINE s == SortBuilds(builds)
<1>1. ASSUME NEW i \in DOMAIN s, NEW j \in DOMAIN s, i < j, s[i].nums = s[j].nums,
             IsPrerelease(s[i]), ~IsPrerelease(s[j])
      PROVE  FALSE
  <2>1. NewerBuild(s[i], s[j]) /\ s[i] \in builds /\ s[j] \in builds
    BY <1>1, SortedBuilds
  <2> QED
    BY <1>1, <2>1, ReleaseIsNewer
<1> QED
  BY <1>1 DEF NoPrereleaseFirst

LEMMA FamiliesDiffer ==
  ASSUME NEW b \in Build, NEW c \in Build, Family(b) = Family(c)
  PROVE  /\ IsPrerelease(b) <=> IsPrerelease(c)
         /\ IsPrerelease(b) => b.nums = c.nums /\ b.word = c.word
<1>1. IsPrerelease(b) => Family(b) = <<"unstable", b.nums, b.word>>
  BY DEF Family
<1>2. ~IsPrerelease(b) => Family(b) = <<"stable", SubSeq(b.nums, 1, 2)>>
  BY DEF Family
<1>3. IsPrerelease(c) => Family(c) = <<"unstable", c.nums, c.word>>
  BY DEF Family
<1>4. ~IsPrerelease(c) => Family(c) = <<"stable", SubSeq(c.nums, 1, 2)>>
  BY DEF Family
<1> QED
  BY <1>1, <1>2, <1>3, <1>4

\* A sorted list of a part of the builds.
LEMMA SortedPart ==
  ASSUME NEW all \in SUBSET Build, Comparable(all), IsFiniteSet(all), NEW part \in SUBSET all
  PROVE  /\ SortBuilds(part) \in Seq(part)
         /\ \A b \in part : \E i \in DOMAIN SortBuilds(part) : SortBuilds(part)[i] = b
         /\ NoPrereleaseFirst(SortBuilds(part))
<1>1. part \in SUBSET Build /\ Comparable(part) /\ IsFiniteSet(part)
  BY FS_Subset DEF Comparable
<1> QED
  BY <1>1, SortedBuilds, SortedIsSound

\* The releases of the newest stable line follow what is newer and unstable.
LEMMA JoinedIsSound ==
  ASSUME NEW s \in Seq(Build), NEW t \in Seq(Build), NoPrereleaseFirst(s), NoPrereleaseFirst(t),
         \A i \in DOMAIN s, j \in DOMAIN t :
            s[i].nums = t[j].nums => ~(IsPrerelease(s[i]) /\ ~IsPrerelease(t[j]))
  PROVE  NoPrereleaseFirst(s \o t)
<1> DEFINE u == s \o t
<1>1. /\ Len(s) \in Nat /\ Len(t) \in Nat /\ DOMAIN s = 1..Len(s) /\ DOMAIN t = 1..Len(t)
      /\ DOMAIN u = 1..(Len(s) + Len(t))
      /\ \A i \in 1..(Len(s) + Len(t)) : u[i] = IF i <= Len(s) THEN s[i] ELSE t[i - Len(s)]
  OBVIOUS
<1> HIDE DEF u
<1>2. ASSUME NEW i \in DOMAIN u, NEW j \in DOMAIN u, i < j, u[i].nums = u[j].nums
      PROVE  ~(IsPrerelease(u[i]) /\ ~IsPrerelease(u[j]))
  <2>1. CASE j <= Len(s)
    <3>1. i \in DOMAIN s /\ j \in DOMAIN s /\ u[i] = s[i] /\ u[j] = s[j]
      BY <1>1, <1>2, <2>1
    <3> QED
      BY <1>2, <3>1 DEF NoPrereleaseFirst
  <2>2. CASE i <= Len(s) /\ j > Len(s)
    <3>1. i \in DOMAIN s /\ j - Len(s) \in DOMAIN t /\ u[i] = s[i] /\ u[j] = t[j - Len(s)]
      BY <1>1, <1>2, <2>2
    <3> QED
      BY <1>2, <3>1
  <2>3. CASE i > Len(s)
    <3>1. /\ i - Len(s) \in DOMAIN t /\ j - Len(s) \in DOMAIN t /\ i - Len(s) < j - Len(s)
          /\ u[i] = t[i - Len(s)] /\ u[j] = t[j - Len(s)]
      BY <1>1, <1>2, <2>3
    <3> QED
      BY <1>2, <3>1 DEF NoPrereleaseFirst
  <2> QED
    BY <1>1, <1>2, <2>1, <2>2, <2>3
<1> QED
  BY <1>2 DEF NoPrereleaseFirst, u

\* The choices between the builds that a service lists, stable and at all: no
\* prerelease that is not asked for, and always the newest stable build.
SoundChoices(builds, stable, unstable) ==
    /\ builds \in Seq(Build)
    /\ ~unstable => \A i \in DOMAIN builds : ~IsPrerelease(builds[i])
    /\ \A b \in stable : (\A c \in stable : c = b \/ NewerBuild(b, c)) =>
           \E i \in DOMAIN builds : builds[i] = b
    /\ NoPrereleaseFirst(builds)

LEMMA ChoicesAreSound ==
  ASSUME NEW stable \in SUBSET Build, NEW listed \in SUBSET Build,
         IsFiniteSet(stable \cup listed), Comparable(stable \cup listed),
         \A b \in stable : ~IsPrerelease(b),
         NEW compact, NEW unstable,
         NEW builds, builds = BuildChoices(stable, listed, compact, unstable)
  PROVE  SoundChoices(builds, stable, unstable)
<1> DEFINE all == stable \cup listed
           line(b) == Compact(all, b)
           newest == Compact(all, Newest(all))
           released == Compact(all, Newest(stable))
           Has(b) == \E i \in DOMAIN builds : builds[i] = b
<1>1. stable \in SUBSET Build /\ Comparable(stable) /\ IsFiniteSet(stable) /\ all \in SUBSET Build
  BY FS_Subset DEF Comparable
<1>2. ASSUME NEW b \in stable, \A c \in stable : c = b \/ NewerBuild(b, c)
      PROVE  b = Newest(stable)
  <2>1. Newest(stable) \in stable /\ \A c \in stable \ {Newest(stable)} : NewerBuild(Newest(stable), c)
    BY <1>1, NewestIsThere
  <2> QED
    BY <1>1, <1>2, <2>1, NewerIsOrder
<1>3. ASSUME stable # {}
      PROVE  /\ Newest(stable) \in released /\ released \in SUBSET all
             /\ \A b \in released : ~IsPrerelease(b)
  <2>1. Newest(stable) \in stable
    BY <1>1, <1>3, NewestIsThere
  <2>2. ASSUME NEW b \in released PROVE ~IsPrerelease(b)
    <3>1. b \in Build /\ Newest(stable) \in Build /\ Family(b) = Family(Newest(stable))
      BY <2>1, <2>2 DEF Compact
    <3> QED
      BY <2>1, <3>1, FamiliesDiffer
  <2> QED
    BY <2>1, <2>2 DEF Compact
<1> HIDE DEF newest, released
<1>4. ASSUME NEW part \in SUBSET all, builds = SortBuilds(part),
             ~unstable => \A b \in part : ~IsPrerelease(b),
             stable # {} => Newest(stable) \in part
      PROVE  SoundChoices(builds, stable, unstable)
  <2>1. builds \in Seq(part) /\ NoPrereleaseFirst(builds) /\ \A b \in part : Has(b)
    BY <1>4, SortedPart
  <2>2. builds \in Seq(Build) /\ \A i \in DOMAIN builds : builds[i] \in part
    BY <2>1
  <2> QED
    BY <1>2, <1>4, <2>1, <2>2 DEF SoundChoices
<1>5. ASSUME builds = <<>>, stable = {}
      PROVE  SoundChoices(builds, stable, unstable)
  BY <1>5 DEF SoundChoices, NoPrereleaseFirst
<1>6. CASE ~unstable
  <2>1. CASE stable = {}
    BY <1>5, <1>6, <2>1 DEF BuildChoices
  <2>2. CASE stable # {} /\ compact
    <3>1. builds = SortBuilds(released)
      BY <1>6, <2>2 DEF BuildChoices, released
    <3> QED
      BY <1>3, <1>4, <2>2, <3>1
  <2>3. CASE stable # {} /\ ~compact
    <3>1. builds = SortBuilds(stable) /\ Newest(stable) \in stable
      BY <1>1, <1>6, <2>3, NewestIsThere DEF BuildChoices
    <3> QED
      BY <1>4, <2>3, <3>1
  <2> QED
    BY <2>1, <2>2, <2>3
<1>7. CASE unstable
  <2>1. CASE all = {}
    BY <1>5, <1>7, <2>1 DEF BuildChoices
  <2>2. CASE all # {} /\ ~compact
    <3>1. builds = SortBuilds(all) /\ (stable # {} => Newest(stable) \in all)
      BY <1>1, <1>7, <2>2, NewestIsThere DEF BuildChoices
    <3> QED
      BY <1>4, <1>7, <3>1
  <2>3. CASE all # {} /\ compact /\ stable = {}
    <3>1. builds = SortBuilds(newest) /\ newest \in SUBSET all
      BY <1>7, <2>3 DEF BuildChoices, newest, Compact
    <3> QED
      BY <1>4, <1>7, <2>3, <3>1
  <2>4. CASE compact /\ stable # {}
    <3> DEFINE s == SortBuilds(newest)
               t == SortBuilds(released \ newest)
    <3>1. builds = s \o t
      BY <1>7, <2>4 DEF BuildChoices, newest, released
    <3>2. /\ newest \in SUBSET all /\ released \in SUBSET all
          /\ Newest(stable) \in released /\ \A b \in released : ~IsPrerelease(b)
      BY <1>3, <2>4 DEF newest, Compact
    <3>3. /\ s \in Seq(newest) /\ (\A b \in newest : \E i \in DOMAIN s : s[i] = b)
          /\ NoPrereleaseFirst(s)
      BY <3>2, SortedPart
    <3>4. /\ t \in Seq(released \ newest)
          /\ (\A b \in released \ newest : \E i \in DOMAIN t : t[i] = b)
          /\ NoPrereleaseFirst(t)
      BY <3>2, SortedPart
    <3>5. Newest(all) \in all /\ \A c \in all \ {Newest(all)} : NewerBuild(Newest(all), c)
      BY <1>1, <2>4, NewestIsThere
    <3>6. ASSUME NEW b \in newest, NEW c \in released \ newest, b.nums = c.nums, IsPrerelease(b)
          PROVE  FALSE
      <4>1. b \in Build /\ c \in Build /\ c \in all /\ ~IsPrerelease(c)
        BY <1>1, <3>2, <3>6
      <4>2. Family(b) = Family(Newest(all)) /\ Newest(all) \in Build
        BY <1>1, <3>5, <3>6 DEF newest, Compact
      <4>3. IsPrerelease(Newest(all)) /\ Newest(all).nums = b.nums
        BY <3>6, <4>1, <4>2, FamiliesDiffer
      <4>4. NewerBuild(Newest(all), c)
        BY <3>5, <4>1, <4>3
      <4> QED
        BY <3>6, <4>1, <4>2, <4>3, <4>4, ReleaseIsNewer
    <3> HIDE DEF s, t, all
    <3>7. s \in Seq(Build) /\ t \in Seq(Build)
      BY <1>1, <3>2, <3>3, <3>4
    <3>8. ASSUME NEW i \in DOMAIN s, NEW j \in DOMAIN t, s[i].nums = t[j].nums
          PROVE  ~(IsPrerelease(s[i]) /\ ~IsPrerelease(t[j]))
      <4>1. s[i] \in newest /\ t[j] \in released \ newest
        BY <3>3, <3>4
      <4> QED
        BY <3>6, <3>8, <4>1
    <3>9. NoPrereleaseFirst(builds)
      BY <3>1, <3>3, <3>4, <3>7, <3>8, JoinedIsSound
    <3>10. /\ builds \in Seq(Build)
           /\ \A i \in DOMAIN s : i \in DOMAIN builds /\ builds[i] = s[i]
           /\ \A j \in DOMAIN t : Len(s) + j \in DOMAIN builds /\ builds[Len(s) + j] = t[j]
      BY <3>1, <3>7
    <3>11. Has(Newest(stable))
      <4>1. CASE Newest(stable) \in newest
        <5>1. PICK i \in DOMAIN s : s[i] = Newest(stable)
          BY <3>3, <4>1
        <5> QED
          BY <3>10, <5>1
      <4>2. CASE Newest(stable) \notin newest
        <5>1. PICK j \in DOMAIN t : t[j] = Newest(stable)
          BY <3>2, <3>4, <4>2
        <5> QED
          BY <3>10, <5>1
      <4> QED
        BY <4>1, <4>2
    <3> QED
      BY <1>2, <1>7, <3>9, <3>10, <3>11 DEF SoundChoices
  <2> QED
    BY <2>1, <2>2, <2>3, <2>4
<1> QED
  BY <1>6, <1>7

\* The dialog offers the choices of the lists of its service.
OffersChoices ==
    /\ listing \in Catalogues
    /\ offered # NoChoice => \E loader \in ChoiceLoaders, unstable \in BOOLEAN :
           offered = [loader |-> loader, unstable |-> unstable,
                      builds |-> ChoicesOf(loader, unstable)]

LEMMA ChoicesStep == ChoiceInv /\ OffersChoices /\ [ChoiceNext]_choiceVars => OffersChoices'
<1> SUFFICES ASSUME ChoiceInv, OffersChoices, [ChoiceNext]_choiceVars PROVE OffersChoices'
  OBVIOUS
<1>1. listing' = listing
  BY DEF ChoiceNext, choiceVars, ShowDialog, ChangeUnstable, CloseDialog, Dispose,
         ChoiceInstalled, ChangeLoader, AnswerChoice, InstallChoice, Ask
<1>2. \A loader, unstable : ChoicesOf(loader, unstable)' = ChoicesOf(loader, unstable)
  BY <1>1 DEF ChoicesOf
<1>3. CASE offered' = offered
  BY <1>1, <1>2, <1>3 DEF OffersChoices
<1>4. ASSUME NEW q \in questions, NEW fails \in BOOLEAN, AnswerChoice(q, fails), offered' # offered
      PROVE  OffersChoices'
  <2>1. q.loader \in ChoiceLoaders /\ q.unstable \in BOOLEAN
    BY DEF ChoiceInv, Question
  <2>2. offered' = IF fails THEN NoChoice
                   ELSE [loader |-> q.loader, unstable |-> q.unstable,
                         builds |-> ChoicesOf(q.loader, q.unstable)]
    BY <1>4 DEF AnswerChoice, ShowChoices
  <2> QED
    BY <1>1, <1>2, <2>1, <2>2 DEF OffersChoices
<1> QED
  BY <1>3, <1>4 DEF ChoiceNext, choiceVars, ShowDialog, ChangeUnstable, CloseDialog, Dispose,
         ChoiceInstalled, ChangeLoader, InstallChoice, Ask

LEMMA OfferedIsSound == OffersChoices => ChoiceIsSound
<1> SUFFICES ASSUME OffersChoices, offered # NoChoice, offered.loader # Plain
             PROVE  ChoiceIsSound
  BY DEF ChoiceIsSound
<1>1. PICK loader \in ChoiceLoaders, unstable \in BOOLEAN :
         offered = [loader |-> loader, unstable |-> unstable,
                    builds |-> ChoicesOf(loader, unstable)]
  BY DEF OffersChoices
<1> DEFINE compact == loader \in CompactLoaders
           mixed == unstable /\ loader \in UnstableLoaders
<1>2. /\ offered.loader = loader /\ offered.unstable = unstable
      /\ offered.builds = BuildChoices(listing.stable, listing.listed, compact, mixed)
      /\ compact \in BOOLEAN /\ mixed \in BOOLEAN
  BY <1>1 DEF ChoicesOf
<1>3. /\ listing.stable \in SUBSET Build /\ listing.listed \in SUBSET Build
      /\ IsFiniteSet(listing.stable \cup listing.listed)
      /\ Comparable(listing.stable \cup listing.listed)
      /\ \A b \in listing.stable : ~IsPrerelease(b)
  BY CataloguesAssumption DEF OffersChoices, Comparable
<1> HIDE DEF compact
<1> HIDE DEF mixed
<1>4. SoundChoices(offered.builds, listing.stable, mixed)
  BY <1>2, <1>3, ChoicesAreSound
<1>5. ToSet(offered.builds) = {offered.builds[i] : i \in DOMAIN offered.builds}
  BY DEF ToSet
<1> QED
  BY <1>2, <1>4, <1>5 DEF ChoiceIsSound, SoundChoices, NoPrereleaseFirst, mixed

\* The dialog offers no prerelease that the filter hides, always the newest
\* stable build, and no prerelease above its release, whatever a loader's service
\* lists (VersionCreationCatalogService._loader_build_choices).
THEOREM ChoicesStaySound == ChoiceSpec => []ChoiceIsCurrent
<1>1. ChoiceInit => OffersChoices
  BY DEF ChoiceInit, OffersChoices
<1>2. ChoiceInv /\ OffersChoices => ChoiceIsCurrent
  BY OfferedIsSound DEF ChoiceInv, ChoiceIsCurrent
<1> QED
  BY <1>1, <1>2, ChoiceInitially, ChoiceStep, ChoicesStep, PTL DEF ChoiceSpec

\* What the three pages that ask the services show is the answer to what they
\* asked last, whatever comes late (PagesAreCurrent is of the three together).
THEOREM PagesStayCurrent ==
    CatalogSpec /\ ModpacksSpec /\ ChoiceSpec => []PagesAreCurrent
<1>1. TabsAreCurrent /\ ModpacksAreCurrent /\ ChoiceIsCurrent => PagesAreCurrent
  BY DEF PagesAreCurrent
<1> QED
  BY <1>1, TabsStayCurrent, ModpacksStayCurrent, ChoicesStaySound, PTL

-----------------------------------------------------------------------------
\* What the page's loop has still to do with the cycle the overlay is in.
Current(what) ==
    \E i \in DOMAIN queue : queue[i].cycle = overlay.cycle /\ queue[i].what = what
WillShow ==
    ~Current("hide") /\ (overlay.shown \/ Current("start") \/ Current("render"))
WillHide ==
    ~Current("start") /\ ~Current("render") /\ (~overlay.shown \/ Current("hide"))

\* The call that a thread makes next, and the lists that follow a lock.
Does(t, what) == calls[t] # <<>> /\ Head(calls[t]).what = what
EndsRun(t) == Does(t, "finalize") \/ Does(t, "hide")
Caller == Threads \union {Timer}
Single == {c \in Call : c.what # "start"}
Shows == {c \in Call : c.what = "show"}
CallLists == {<<>>} \union {<<c>> : c \in Single}
             \union {<<CallOf("start", FALSE, FALSE), c>> : c \in Shows}

FeedbackTypes ==
    /\ ops \in [OpIds -> [step : {"none", "running", "finished", "gone"}, child : BOOLEAN,
                          visible : BOOLEAN]]
    /\ root \in {0} \union OpIds
    /\ {revealed, closing, overlapped} \subseteq BOOLEAN
    /\ pending \in [waits : BOOLEAN, timers : SUBSET Nat] /\ token \in Nat
    /\ calls \in [Caller -> CallLists]
    /\ queue \in Seq(Posted)
    /\ overlay \in [cycle : Nat, shown : BOOLEAN, sheet : BOOLEAN, closed : BOOLEAN]
    /\ panel \in [active : BOOLEAN, loops : Nat]
    /\ panel.active => panel.loops > 0

\* The root is an operation begun under no other; it is there while any runs.
RootIsExact ==
    /\ root # 0 => ops[root].step \in {"running", "finished"} /\ ~ops[root].child
    /\ root # 0 <=> Active # {}
    /\ closing => root = 0 /\ ~revealed

\* A revealed cycle without a root is about to end.
EndIsUnderWay == revealed /\ root = 0 => \E t \in Caller : Does(t, "finalize")

OverlayIsSound ==
    /\ overlay.sheet => overlay.shown
    /\ \A i \in DOMAIN queue : queue[i].cycle <= overlay.cycle

\* While no end has overlapped another call: an end is alone, nothing is called
\* before something is revealed, and what the loop has to do makes the ring follow.
CallsAreInOrder ==
    /\ \A t, u \in Caller : t # u /\ EndsRun(t) => calls[u] = <<>>
    /\ ~revealed => ~pending.waits /\ \A t \in Caller : calls[t] = <<>> \/ EndsRun(t)
    /\ \A t \in Caller : Does(t, "hide") => ~revealed
    /\ \A o \in Active : ops[o].visible =>
           revealed /\ \A t \in Caller : ~Does(t, "finalize")
    /\ revealed /\ (\A t \in Caller : ~Does(t, "start")) => WillShow
    /\ ~revealed /\ (\A t \in Caller : ~Does(t, "hide")) => WillHide

FeedbackInv ==
    /\ FeedbackTypes
    /\ RootIsExact
    /\ EndIsUnderWay
    /\ OverlayIsSound
    /\ ~overlapped => CallsAreInOrder

\* Lists of one and of two calls.
LEMMA ShortLists ==
    /\ \A c \in Single : /\ <<c>> \in CallLists /\ <<c>> # <<>>
                         /\ Head(<<c>>) = c /\ Tail(<<c>>) = <<>>
    /\ \A b, c : /\ <<b, c>> # <<>> /\ Head(<<b, c>>) = b /\ Tail(<<b, c>>) = <<c>>
                 /\ <<b>> \o <<c>> = <<b, c>> /\ <<>> \o <<c>> = <<c>>
<1>1. ASSUME NEW c \in Single
      PROVE  <<c>> \in CallLists /\ <<c>> # <<>> /\ Head(<<c>>) = c /\ Tail(<<c>>) = <<>>
  BY DEF CallLists
<1>2. ASSUME NEW b, NEW c
      PROVE  /\ <<b, c>> # <<>> /\ Head(<<b, c>>) = b /\ Tail(<<b, c>>) = <<c>>
             /\ <<b>> \o <<c>> = <<b, c>> /\ <<>> \o <<c>> = <<c>>
  <2>1. <<b>> \in Seq({b, c}) /\ c \in {b, c}
    OBVIOUS
  <2>2. <<b>> \o <<c>> = Append(<<b>>, c)
    BY <2>1, AppendIsConcat
  <2>3. <<b>> \o <<c>> = <<b, c>>
    <3>1. <<b, c>> \in Seq({b, c}) /\ Append(<<b>>, c) \in Seq({b, c})
      BY <2>1
    <3>2. Len(Append(<<b>>, c)) = 2 /\ Len(<<b, c>>) = 2
      BY <2>1
    <3>3. \A i \in 1..2 : Append(<<b>>, c)[i] = <<b, c>>[i]
      BY <2>1
    <3> QED
      BY <2>2, <3>1, <3>2, <3>3, SeqEqual
  <2>4. <<>> \o <<c>> = <<c>>
    OBVIOUS
  <2>5. <<b, c>> # <<>> /\ Head(<<b, c>>) = b
    OBVIOUS
  <2>6. Tail(<<b, c>>) = <<c>>
    OBVIOUS
  <2> QED
    BY <2>3, <2>4, <2>5, <2>6
<1> QED
  BY <1>1, <1>2

\* The steps of a call's list: what is left is a list of calls again.
LEMMA ListsOfCalls ==
    ASSUME NEW list \in CallLists, list # <<>>
    PROVE  /\ Head(list) \in Call /\ Tail(list) \in CallLists
           /\ Head(list).what # "start" => Tail(list) = <<>>
           /\ Head(list).what = "start" =>
                  Tail(list) # <<>> /\ Head(Tail(list)).what = "show"
           /\ 1 \in DOMAIN list /\ list[1] = Head(list)
<1>1. CASE \E c \in Single : list = <<c>>
  <2>1. PICK c \in Single : list = <<c>>
    BY <1>1
  <2>2. Head(list) = c /\ Tail(list) = <<>> /\ c.what # "start" /\ c \in Call
    BY <2>1 DEF Single
  <2> QED
    BY <2>1, <2>2 DEF CallLists
<1>2. CASE \E c \in Shows : list = <<CallOf("start", FALSE, FALSE), c>>
  <2> DEFINE first == CallOf("start", FALSE, FALSE)
  <2>1. PICK c \in Shows : list = <<first, c>>
    BY <1>2
  <2>2. first \in Call /\ first.what = "start"
    BY DEF Call, CallOf
  <2> HIDE DEF first
  <2>3. Head(list) = first /\ Tail(list) = <<c>> /\ c.what = "show" /\ c \in Single
    BY <2>1 DEF Shows, Single
  <2>4. Tail(list) \in CallLists /\ Head(Tail(list)) = c /\ Tail(list) # <<>>
    BY <2>3, ShortLists
  <2> QED
    BY <2>1, <2>2, <2>3, <2>4
<1> QED
  BY <1>1, <1>2 DEF CallLists

\* The list that follows a lock under which something is shown.
LEMMA RevealThenShow ==
    ASSUME revealed \in BOOLEAN, NEW force \in BOOLEAN, NEW now \in BOOLEAN
    PROVE  LET list == Reveal \o <<CallOf("show", force, now)>>
           IN  /\ list \in CallLists /\ list # <<>>
               /\ ~revealed => Head(list).what = "start"
               /\ revealed => Head(list).what = "show"
<1> DEFINE c == CallOf("show", force, now)
           first == CallOf("start", FALSE, FALSE)
<1>1. c \in Shows /\ c \in Single /\ c.what = "show"
  BY DEF Shows, Single, Call, CallOf
<1>2. first.what = "start"
  BY DEF CallOf
<1> HIDE DEF c
<1>3. CASE revealed
  <2>1. Reveal = <<>>
    BY <1>3 DEF Reveal
  <2>2. Reveal \o <<c>> = <<c>>
    BY <2>1
  <2>3. /\ Reveal \o <<c>> \in CallLists /\ Reveal \o <<c>> # <<>>
        /\ Head(Reveal \o <<c>>).what = "show"
    BY <1>1, <2>2, ShortLists
  <2> QED
    BY <1>3, <2>3 DEF c
<1>4. CASE ~revealed
  <2>1. Reveal = <<first>>
    BY <1>4, Zenon DEF Reveal
  <2> HIDE DEF first
  <2>2. Reveal \o <<c>> = <<first, c>>
    BY <2>1, ShortLists
  <2>3. Head(<<first, c>>) = first /\ <<first, c>> # <<>>
    OBVIOUS
  <2>4. <<first, c>> \in CallLists
    BY <1>1, Zenon DEF CallLists, first
  <2>5. /\ Reveal \o <<c>> \in CallLists /\ Reveal \o <<c>> # <<>>
        /\ Head(Reveal \o <<c>>).what = "start"
    BY <1>2, <2>2, <2>3, <2>4
  <2> QED
    BY <1>4, <2>5 DEF c
<1> QED
  BY <1>3, <1>4

LEMMA OneCall ==
    ASSUME NEW what \in {"show", "render", "finalize", "hide"},
           NEW force \in BOOLEAN, NEW now \in BOOLEAN
    PROVE  LET list == <<CallOf(what, force, now)>>
           IN  /\ list \in CallLists /\ list # <<>> /\ Tail(list) = <<>>
               /\ Head(list) = CallOf(what, force, now)
               /\ Head(list).what = what /\ Head(list).force = force
<1> DEFINE c == CallOf(what, force, now)
<1>1. c \in Single /\ c.what = what /\ c.force = force
  BY DEF Single, Call, CallOf
<1> HIDE DEF c
<1>2. <<c>> \in CallLists /\ <<c>> # <<>> /\ Head(<<c>>) = c /\ Tail(<<c>>) = <<>>
  BY <1>1 DEF CallLists
<1> QED
  BY <1>1, <1>2 DEF c

\* What a thread leaves behind when it gives the lock back with a list of calls.
LEMMA CallsAfterLock ==
    ASSUME calls \in [Caller -> CallLists], overlapped \in BOOLEAN,
           NEW t \in Caller, NEW list \in CallLists, Then(t, list)
    PROVE  /\ calls' \in [Caller -> CallLists] /\ overlapped' \in BOOLEAN
           /\ calls'[t] = list /\ \A u \in Caller \ {t} : calls'[u] = calls[u]
           /\ ~overlapped' => \A u, v \in Caller : u # v /\ EndsRun(u)' => calls'[v] = <<>>
           /\ ~overlapped' => ~overlapped
                              \/ (AtRest /\ list # <<>> /\ Head(list).what = "start")
<1>1. calls' = [calls EXCEPT ![t] = list]
  BY DEF Then
<1>2. /\ calls' \in [Caller -> CallLists] /\ DOMAIN calls' = Caller
      /\ calls'[t] = list /\ \A u \in Caller \ {t} : calls'[u] = calls[u]
  BY <1>1
<1>3. overlapped' \in BOOLEAN
  BY DEF Then
<1>4. ~overlapped' => ~Overlap(calls')
  BY DEF Then
<1>5. ASSUME ~overlapped', NEW u \in Caller, NEW v \in Caller, u # v, EndsRun(u)'
      PROVE  calls'[v] = <<>>
  <2>1. calls'[u] # <<>> /\ Head(calls'[u]).what \in {"finalize", "hide"}
    BY <1>5 DEF EndsRun, Does
  <2>2. calls'[u] \in CallLists
    BY <1>2
  <2>3. 1 \in DOMAIN calls'[u] /\ calls'[u][1].what \in {"finalize", "hide"}
    BY <2>1, <2>2, ListsOfCalls
  <2> QED
    BY <1>2, <1>4, <1>5, <2>3 DEF Overlap
<1>6. ~overlapped' => ~overlapped \/ (AtRest /\ list # <<>> /\ Head(list).what = "start")
  <2> DEFINE fresh == AtRest /\ list # <<>> /\ Head(list).what = "start"
  <2>1. overlapped' = ((overlapped /\ ~fresh) \/ Overlap(calls'))
    BY Zenon DEF Then
  <2> HIDE DEF fresh
  <2>2. ~overlapped' => ~overlapped \/ fresh
    BY <2>1
  <2> QED
    BY <2>2 DEF fresh
<1> QED
  BY <1>2, <1>3, <1>5, <1>6

\* What a task of the cycle makes of the overlay: the end of it hides the ring,
\* everything else shows it.
Overlays == [cycle : Nat, shown : BOOLEAN, sheet : BOOLEAN, closed : BOOLEAN]

LEMMA PerformedTask ==
    ASSUME NEW ov \in Overlays, NEW task \in Posted
    PROVE  /\ Performed(ov, task) \in Overlays /\ Performed(ov, task).cycle = ov.cycle
           /\ Performed(ov, task).shown <=> task.what # "hide"
           /\ Performed(ov, task).sheet => Performed(ov, task).shown
<1>0. task.force \in BOOLEAN /\ task.what \in {"start", "render", "hide"}
  BY DEF Posted
<1>1. \A a, b, c \in BOOLEAN : [ov EXCEPT !.shown = a, !.closed = b, !.sheet = c] \in Overlays
  BY DEF Overlays
<1>2. /\ Started(ov) \in Overlays /\ Started(ov).cycle = ov.cycle /\ Started(ov).shown
  BY DEF Started, Overlays
<1>3. /\ Hidden(ov) \in Overlays /\ Hidden(ov).cycle = ov.cycle
      /\ ~Hidden(ov).shown /\ ~Hidden(ov).sheet
  BY DEF Hidden, Overlays
<1>4. ASSUME NEW force \in BOOLEAN
      PROVE  /\ Rendered(ov, force) \in Overlays /\ Rendered(ov, force).cycle = ov.cycle
             /\ Rendered(ov, force).shown
  <2>1. /\ TRUE \in BOOLEAN /\ (ov.closed /\ ~force) \in BOOLEAN
        /\ (ov.sheet \/ ~(ov.closed /\ ~force)) \in BOOLEAN
    BY DEF Overlays
  <2>2. Rendered(ov, force) = [ov EXCEPT !.shown = TRUE, !.closed = ov.closed /\ ~force,
                                         !.sheet = ov.sheet \/ ~(ov.closed /\ ~force)]
    BY DEF Rendered, Overlays
  <2>3. Rendered(ov, force) \in Overlays
    BY <1>1, <2>1, <2>2, Zenon
  <2>4. Rendered(ov, force).cycle = ov.cycle /\ Rendered(ov, force).shown
    BY DEF Rendered, Overlays
  <2> QED
    BY <2>3, <2>4
<1>5. CASE task.what = "start"
  BY <1>2, <1>5 DEF Performed
<1>6. CASE task.what = "hide"
  BY <1>3, <1>6 DEF Performed
<1>7. CASE task.what = "render"
  BY <1>0, <1>4, <1>7 DEF Performed
<1> QED
  BY <1>0, <1>5, <1>6, <1>7

\* The tasks of the cycle after one is queued, and after the oldest is taken.
LEMMA TaskIsPosted ==
    ASSUME queue \in Seq(Posted), NEW task \in Posted, queue' = Append(queue, task)
    PROVE  /\ queue' \in Seq(Posted)
           /\ \A i \in DOMAIN queue' : (i \in DOMAIN queue /\ queue'[i] = queue[i]) \/ queue'[i] = task
           /\ \A i \in DOMAIN queue : i \in DOMAIN queue' /\ queue'[i] = queue[i]
           /\ \E i \in DOMAIN queue' : queue'[i] = task
<1>1. /\ queue' \in Seq(Posted) /\ Len(queue') = Len(queue) + 1
      /\ \A i \in 1..Len(queue) : queue'[i] = queue[i]
      /\ queue'[Len(queue) + 1] = task
  BY AppendProperties
<1>2. DOMAIN queue' = 1..Len(queue) + 1 /\ DOMAIN queue = 1..Len(queue) /\ Len(queue) \in Nat
  BY <1>1, LenProperties
<1> QED
  BY <1>1, <1>2

LEMMA TaskIsTaken ==
    ASSUME queue \in Seq(Posted), queue # <<>>, queue' = Tail(queue)
    PROVE  /\ queue' \in Seq(Posted) /\ Head(queue) \in Posted
           /\ 1 \in DOMAIN queue /\ queue[1] = Head(queue)
           /\ \A i \in DOMAIN queue' : i + 1 \in DOMAIN queue /\ queue'[i] = queue[i + 1]
           /\ \A i \in DOMAIN queue : i = 1 \/ (i - 1 \in DOMAIN queue' /\ queue'[i - 1] = queue[i])
<1>1. /\ queue' \in Seq(Posted) /\ Head(queue) \in Posted /\ Len(queue') = Len(queue) - 1
      /\ \A i \in 1..Len(queue') : queue'[i] = queue[i + 1]
      /\ Head(queue) = queue[1]
  BY HeadTailProperties
<1>2. DOMAIN queue' = 1..Len(queue) - 1 /\ DOMAIN queue = 1..Len(queue)
      /\ Len(queue) \in Nat /\ Len(queue) # 0
  BY <1>1, LenProperties, EmptySeq
<1> QED
  BY <1>1, <1>2

LEMMA SameOverlay ==
    ASSUME UNCHANGED <<queue, overlay>>
    PROVE  (WillShow' <=> WillShow) /\ (WillHide' <=> WillHide) /\ (OverlayIsSound' <=> OverlayIsSound)
  BY DEF WillShow, WillHide, Current, OverlayIsSound

LEMMA RunTaskKeepsTheRing ==
    ASSUME FeedbackTypes, OverlayIsSound, RunTask
    PROVE  /\ queue' \in Seq(Posted) /\ overlay' \in Overlays /\ OverlayIsSound'
           /\ WillShow => WillShow'
           /\ WillHide => WillHide'
<1> DEFINE task == Head(queue)
<1>1. /\ queue \in Seq(Posted) /\ overlay \in Overlays /\ queue # <<>>
      /\ overlay' = Applied(overlay, task) /\ queue' = Tail(queue)
  BY DEF FeedbackTypes, RunTask, Overlays
<1>2. /\ queue' \in Seq(Posted) /\ task \in Posted
      /\ 1 \in DOMAIN queue /\ queue[1] = task
      /\ \A i \in DOMAIN queue' : i + 1 \in DOMAIN queue /\ queue'[i] = queue[i + 1]
      /\ \A i \in DOMAIN queue : i = 1 \/ (i - 1 \in DOMAIN queue' /\ queue'[i - 1] = queue[i])
  BY <1>1, TaskIsTaken
<1>3. /\ overlay' \in Overlays /\ overlay'.cycle = overlay.cycle
      /\ task.cycle = overlay.cycle => (overlay'.shown <=> task.what # "hide")
      /\ task.cycle # overlay.cycle => overlay' = overlay
      /\ overlay'.sheet => overlay'.shown
  BY <1>1, <1>2, PerformedTask DEF Applied, OverlayIsSound
<1> HIDE DEF task
<1>4. ASSUME NEW what
      PROVE  Current(what) <=> (Current(what)' \/ (task.cycle = overlay.cycle /\ task.what = what))
  BY <1>2, <1>3 DEF Current
<1>5. OverlayIsSound'
  BY <1>2, <1>3 DEF OverlayIsSound
<1>6. ASSUME WillShow PROVE WillShow'
  <2>1. ~Current("hide")' /\ ~(task.cycle = overlay.cycle /\ task.what = "hide")
    BY <1>4, <1>6 DEF WillShow
  <2>2. CASE task.cycle = overlay.cycle
    BY <1>3, <2>1, <2>2 DEF WillShow
  <2>3. CASE task.cycle # overlay.cycle
    BY <1>3, <1>4, <1>6, <2>1, <2>3 DEF WillShow
  <2> QED
    BY <2>2, <2>3
<1>7. ASSUME WillHide PROVE WillHide'
  <2>1. /\ ~Current("start")' /\ ~(task.cycle = overlay.cycle /\ task.what = "start")
        /\ ~Current("render")' /\ ~(task.cycle = overlay.cycle /\ task.what = "render")
    BY <1>4, <1>7 DEF WillHide
  <2>2. CASE task.cycle = overlay.cycle
    <3>1. task.what = "hide"
      BY <1>2, <2>1, <2>2 DEF Posted
    <3> QED
      BY <1>3, <2>1, <2>2, <3>1 DEF WillHide
  <2>3. CASE task.cycle # overlay.cycle
    BY <1>3, <1>4, <1>7, <2>1, <2>3 DEF WillHide
  <2> QED
    BY <2>2, <2>3
<1> QED
  BY <1>2, <1>3, <1>5, <1>6, <1>7

\* A call that reaches the overlay, at once or through the loop of the page: the
\* first and the last of a cycle decide what becomes of the ring.
LEMMA CallReachesOverlay ==
    ASSUME FeedbackTypes, OverlayIsSound, NEW t \in Caller, CallOverlay(t)
    PROVE  /\ queue' \in Seq(Posted) /\ overlay' \in Overlays /\ OverlayIsSound'
           /\ Does(t, "start") => WillShow'
           /\ Does(t, "hide") => WillHide'
           /\ Does(t, "render") /\ WillShow => WillShow'
<1> DEFINE call == Head(calls[t])
           what == call.what
           ov == IF what = "render" THEN overlay ELSE [overlay EXCEPT !.cycle = @ + 1]
           task == [what |-> what, force |-> call.force, cycle |-> ov.cycle]
<1>1. /\ calls[t] # <<>> /\ what \in {"start", "render", "hide"} /\ call \in Call
      /\ overlay \in Overlays /\ queue \in Seq(Posted)
  <2>1. calls[t] \in CallLists
    BY DEF FeedbackTypes
  <2>2. calls[t] # <<>> /\ what \in {"start", "render", "hide"}
    BY DEF CallOverlay
  <2> QED
    BY <2>1, <2>2, ListsOfCalls DEF FeedbackTypes, Overlays
<1>2. IF t = UI THEN overlay' = Applied(ov, task) /\ queue' = queue
                ELSE overlay' = ov /\ queue' = Append(queue, task)
  BY DEF CallOverlay
<1>3. /\ ov \in Overlays /\ ov.shown = overlay.shown /\ ov.sheet = overlay.sheet
      /\ what = "render" => ov.cycle = overlay.cycle
      /\ what # "render" => ov.cycle = overlay.cycle + 1
      /\ overlay.cycle \in Nat
  BY <1>1 DEF Overlays
<1>4. task \in Posted /\ task.cycle = ov.cycle /\ task.what = what
  BY <1>1, <1>3 DEF Posted, Call, Overlays
<1>5. \A i \in DOMAIN queue : queue[i].cycle \in Nat /\ queue[i].cycle <= overlay.cycle
  <2>1. \A i \in DOMAIN queue : queue[i] \in Posted
    BY <1>1
  <2> QED
    BY <2>1 DEF OverlayIsSound, Posted
<1>6. \A w : Does(t, w) <=> what = w
  BY <1>1 DEF Does
<1> HIDE DEF call, what, ov, task
<1>7. CASE t = UI
  <2>1. overlay' = Performed(ov, task) /\ queue' = queue
    BY <1>2, <1>4, <1>7 DEF Applied
  <2>2. /\ overlay' \in Overlays /\ overlay'.cycle = ov.cycle
        /\ (overlay'.shown <=> what # "hide") /\ (overlay'.sheet => overlay'.shown)
    BY <1>3, <1>4, <2>1, PerformedTask
  <2>3. OverlayIsSound'
    BY <1>3, <1>5, <2>1, <2>2 DEF OverlayIsSound
  <2>4. what # "render" => \A w : ~Current(w)'
    BY <1>3, <1>5, <2>1, <2>2 DEF Current
  <2>5. what = "render" => \A w : Current(w)' <=> Current(w)
    BY <1>3, <2>1, <2>2 DEF Current
  <2> QED
    BY <1>1, <1>6, <2>1, <2>2, <2>3, <2>4, <2>5 DEF WillShow, WillHide
<1>8. CASE t # UI
  <2>1. overlay' = ov /\ queue' = Append(queue, task)
    BY <1>2, <1>8
  <2>2. /\ queue' \in Seq(Posted)
        /\ \A i \in DOMAIN queue' : (i \in DOMAIN queue /\ queue'[i] = queue[i]) \/ queue'[i] = task
        /\ \A i \in DOMAIN queue : i \in DOMAIN queue' /\ queue'[i] = queue[i]
        /\ \E i \in DOMAIN queue' : queue'[i] = task
    BY <1>1, <1>4, <2>1, TaskIsPosted
  <2>3. OverlayIsSound'
    <3>1. \A i \in DOMAIN queue' : queue'[i].cycle <= ov.cycle
      BY <1>3, <1>4, <1>5, <2>2
    <3> QED
      BY <1>3, <2>1, <3>1 DEF OverlayIsSound
  <2>4. what # "render" => \A w : Current(w)' <=> w = what
    <3> SUFFICES ASSUME what # "render", NEW w PROVE Current(w)' <=> w = what
      OBVIOUS
    <3>1. \A i \in DOMAIN queue' : queue'[i].cycle = ov.cycle => queue'[i] = task
      BY <1>3, <1>5, <2>2
    <3> QED
      BY <1>4, <2>1, <2>2, <3>1 DEF Current
  <2>5. what = "render" => \A w : Current(w)' <=> Current(w) \/ w = what
    <3> SUFFICES ASSUME what = "render", NEW w PROVE Current(w)' <=> Current(w) \/ w = what
      OBVIOUS
    <3> QED
      BY <1>3, <1>4, <2>1, <2>2 DEF Current
  <2> QED
    BY <1>1, <1>3, <1>6, <2>1, <2>2, <2>3, <2>4, <2>5 DEF WillShow, WillHide
<1> QED
  BY <1>7, <1>8

\* The calls that follow a lock under which something is shown, or nothing: no
\* end is among them, and the first thing shown of a cycle starts it.
LEMMA CallsThatShow ==
    ASSUME FeedbackInv, NEW t \in Caller, NEW list \in CallLists, calls[t] = <<>>, Then(t, list),
           UNCHANGED <<queue, overlay>>, revealed' \in BOOLEAN,
           pending'.waits => pending.waits,
           list = <<>> => revealed' = revealed,
           list # <<>> => /\ revealed' /\ Head(list).what \in {"start", "show", "render"}
                          /\ ~revealed => Head(list).what = "start",
           \A o \in Active' : ops'[o].visible => list # <<>> \/ (o \in Active /\ ops[o].visible)
    PROVE  ~overlapped' => CallsAreInOrder'
<1> SUFFICES ASSUME ~overlapped' PROVE CallsAreInOrder'
  OBVIOUS
<1>1. /\ calls'[t] = list /\ \A u \in Caller \ {t} : calls'[u] = calls[u]
      /\ \A u, v \in Caller : u # v /\ EndsRun(u)' => calls'[v] = <<>>
      /\ ~overlapped \/ (AtRest /\ list # <<>> /\ Head(list).what = "start")
  BY CallsAfterLock DEF FeedbackInv, FeedbackTypes
<1>2. \A u \in Caller \ {t} : \A w : Does(u, w)' <=> Does(u, w)
  BY <1>1 DEF Does
<1>3. ~Does(t, "finalize")' /\ ~Does(t, "hide")' /\ \A w : ~Does(t, w)
  BY <1>1 DEF Does
<1>4. Does(t, "start")' <=> list # <<>> /\ Head(list).what = "start"
  BY <1>1 DEF Does
<1>5. CASE ~overlapped
  <2> USE <1>5
  <2>0. CallsAreInOrder
    BY DEF FeedbackInv
  <2>1. ~revealed' => /\ ~pending'.waits
                      /\ \A u \in Caller : calls'[u] = <<>> \/ EndsRun(u)'
    BY <1>1, <1>2, <2>0 DEF CallsAreInOrder, EndsRun
  <2>2. \A u \in Caller : Does(u, "hide")' => ~revealed'
    BY <1>1, <1>2, <1>3, <2>0 DEF CallsAreInOrder, EndsRun
  <2>3. \A o \in Active' : ops'[o].visible =>
            revealed' /\ \A u \in Caller : ~Does(u, "finalize")'
    BY <1>1, <1>2, <1>3, <2>0 DEF CallsAreInOrder, EndsRun
  <2>4. revealed' /\ (\A u \in Caller : ~Does(u, "start")') => WillShow'
    BY <1>1, <1>2, <1>3, <1>4, <2>0, SameOverlay DEF CallsAreInOrder
  <2>5. ~revealed' /\ (\A u \in Caller : ~Does(u, "hide")') => WillHide'
    BY <1>1, <1>2, <1>3, <2>0, SameOverlay DEF CallsAreInOrder
  <2> QED
    BY <1>1, <2>1, <2>2, <2>3, <2>4, <2>5 DEF CallsAreInOrder
<1>6. CASE AtRest /\ list # <<>> /\ Head(list).what = "start"
  <2>1. \A u \in Caller : calls[u] = <<>>
    BY <1>6 DEF AtRest, FeedbackInv, FeedbackTypes
  <2>2. \A u \in Caller : ~Does(u, "hide")' /\ ~Does(u, "finalize")'
    BY <1>2, <1>3, <2>1 DEF Does
  <2> QED
    BY <1>1, <1>4, <1>6, <2>2 DEF CallsAreInOrder
<1> QED
  BY <1>1, <1>5, <1>6

LEMMA BeginKeepsFeedback ==
    ASSUME FeedbackInv, NEW t \in Threads, NEW visible \in BOOLEAN, BeginOperation(t, visible)
    PROVE  FeedbackInv'
<1> USE FeedbackAssumption
<1> DEFINE list == IF visible THEN Reveal \o <<CallOf("show", root = 0, TRUE)>> ELSE <<>>
<1>1. PICK o \in OpIds :
          /\ ops[o] = NoOp
          /\ ops' = [ops EXCEPT ![o] = Operation(root # 0, visible)]
          /\ root' = IF root = 0 THEN o ELSE root
  BY DEF BeginOperation
<1>2. /\ calls[t] = <<>> /\ ~closing /\ revealed' = (revealed \/ visible) /\ Then(t, list)
      /\ UNCHANGED <<token, pending, closing, queue, overlay, panel, updates>>
  BY Zenon DEF BeginOperation
<1>3. t \in Caller /\ 0 \notin OpIds /\ revealed \in BOOLEAN
      /\ (root = 0) \in BOOLEAN /\ (root # 0) \in BOOLEAN /\ TRUE \in BOOLEAN
  BY DEF Caller, OpIds, FeedbackInv, FeedbackTypes
<1>4. /\ list \in CallLists
      /\ list = <<>> => ~visible
      /\ list # <<>> => /\ visible /\ Head(list).what \in {"start", "show", "render"}
                        /\ ~revealed => Head(list).what = "start"
  BY <1>3, RevealThenShow DEF CallLists
<1> HIDE DEF list
<1>5. \A p \in OpIds : ops'[p] = IF p = o THEN Operation(root # 0, visible) ELSE ops[p]
  BY <1>1 DEF FeedbackInv, FeedbackTypes
<1>6. Operation(root # 0, visible).step = "running" /\ Operation(root # 0, visible).visible = visible
      /\ Operation(root # 0, visible).child = (root # 0) /\ NoOp.step = "none"
  BY DEF Operation, NoOp
<1>7. Active' = Active \union {o}
  BY <1>1, <1>5, <1>6 DEF Active
<1>8. FeedbackTypes'
  <2>1. Operation(root # 0, visible) \in
            [step : {"none", "running", "finished", "gone"}, child : BOOLEAN, visible : BOOLEAN]
    BY <1>3 DEF Operation
  <2>2. ops' \in [OpIds -> [step : {"none", "running", "finished", "gone"}, child : BOOLEAN,
                            visible : BOOLEAN]]
    BY <1>1, <2>1 DEF FeedbackInv, FeedbackTypes
  <2>3. calls' \in [Caller -> CallLists] /\ overlapped' \in BOOLEAN
    BY <1>2, <1>3, <1>4, CallsAfterLock DEF FeedbackInv, FeedbackTypes
  <2> QED
    BY <1>1, <1>2, <1>3, <2>2, <2>3 DEF FeedbackInv, FeedbackTypes
<1>9. RootIsExact' /\ EndIsUnderWay' /\ OverlayIsSound'
  <2>1. root' # 0 /\ root' \in OpIds
    BY <1>1, <1>3 DEF FeedbackInv, FeedbackTypes
  <2>2. ops'[root'].step \in {"running", "finished"} /\ ~ops'[root'].child
    BY <1>1, <1>3, <1>5, <1>6 DEF FeedbackInv, FeedbackTypes, RootIsExact
  <2>3. OverlayIsSound'
    BY <1>2 DEF FeedbackInv, OverlayIsSound
  <2> QED
    BY <1>2, <1>7, <2>1, <2>2, <2>3 DEF RootIsExact, EndIsUnderWay
<1>10. ~overlapped' => CallsAreInOrder'
  <2>1. \A p \in Active' : ops'[p].visible => list # <<>> \/ (p \in Active /\ ops[p].visible)
    <3> SUFFICES ASSUME NEW p \in Active', ops'[p].visible
                 PROVE  list # <<>> \/ (p \in Active /\ ops[p].visible)
      OBVIOUS
    <3>1. CASE p = o
      BY <1>4, <1>5, <1>6, <3>1
    <3>2. CASE p # o
      BY <1>5, <1>7, <3>2 DEF Active
    <3> QED
      BY <3>1, <3>2
  <2>2. revealed' \in BOOLEAN /\ (list = <<>> => revealed' = revealed)
    BY <1>2, <1>3, <1>4
  <2>3. list # <<>> => revealed'
    BY <1>2, <1>3, <1>4
  <2> QED
    BY <1>2, <1>3, <1>4, <2>1, <2>2, <2>3, CallsThatShow
<1> QED
  BY <1>8, <1>9, <1>10 DEF FeedbackInv

LEMMA UpdateKeepsFeedback ==
    ASSUME FeedbackInv, NEW t \in Threads, NEW o \in OpIds, UpdateOperation(t, o)
    PROVE  FeedbackInv'
<1> USE FeedbackAssumption
<1> DEFINE list == Reveal \o <<CallOf("show", ~ops[o].visible, ~ops[o].visible)>>
<1>1. /\ calls[t] = <<>> /\ ~closing /\ revealed' = TRUE /\ Then(t, list)
      /\ o \in Active /\ ops' = [ops EXCEPT ![o].visible = TRUE]
      /\ UNCHANGED <<root, token, pending, closing, queue, overlay, panel>>
  BY Zenon DEF UpdateOperation
<1>2. t \in Caller /\ revealed \in BOOLEAN /\ (~ops[o].visible) \in BOOLEAN
  BY DEF Caller, FeedbackInv, FeedbackTypes
<1>3. /\ list \in CallLists /\ list # <<>>
      /\ Head(list).what \in {"start", "show", "render"}
      /\ ~revealed => Head(list).what = "start"
  BY <1>2, RevealThenShow
<1> HIDE DEF list
<1>4. /\ \A p \in OpIds : ops'[p].step = ops[p].step /\ ops'[p].child = ops[p].child
      /\ ops' \in [OpIds -> [step : {"none", "running", "finished", "gone"}, child : BOOLEAN,
                             visible : BOOLEAN]]
  BY <1>1 DEF FeedbackInv, FeedbackTypes
<1>5. Active' = Active
  BY <1>4 DEF Active
<1>6. FeedbackTypes'
  BY <1>1, <1>2, <1>3, <1>4, CallsAfterLock DEF FeedbackInv, FeedbackTypes
<1>7. RootIsExact' /\ EndIsUnderWay' /\ OverlayIsSound'
  <2>1. root # 0 /\ root \in OpIds
    BY <1>1 DEF FeedbackInv, RootIsExact, FeedbackTypes
  <2> QED
    BY <1>1, <1>4, <1>5, <2>1, SameOverlay DEF FeedbackInv, RootIsExact, EndIsUnderWay
<1>8. ~overlapped' => CallsAreInOrder'
  BY <1>1, <1>2, <1>3, CallsThatShow
<1> QED
  BY <1>6, <1>7, <1>8 DEF FeedbackInv

LEMMA DiscardPending ==
    ASSUME pending \in [waits : BOOLEAN, timers : SUBSET Nat], token \in Nat, Discard
    PROVE  /\ pending' \in [waits : BOOLEAN, timers : SUBSET Nat] /\ ~pending'.waits
           /\ token' \in Nat
<1>1. pending' = [pending EXCEPT !.waits = FALSE] /\ token' = token + 1
  BY DEF Discard
<1>2. pending' \in [waits : BOOLEAN, timers : SUBSET Nat]
  BY <1>1
<1> QED
  BY <1>1, <1>2

LEMMA FinishKeepsFeedback ==
    ASSUME FeedbackInv, NEW t \in Threads, NEW o \in OpIds, FinishOperation(t, o)
    PROVE  FeedbackInv'
<1> USE FeedbackAssumption
<1> DEFINE ended == [ops EXCEPT ![o].step = IF ops[o].child THEN "gone" ELSE "finished"]
           parent == ended[root]
           steps == {"none", "running", "finished", "gone"}
           Ops == [OpIds -> [step : steps, child : BOOLEAN, visible : BOOLEAN]]
<1>1. /\ calls[t] = <<>> /\ o \in Active
      /\ IF Finalizable(ended)
         THEN /\ ops' = Cleared(ended) /\ root' = 0
              /\ Then(t, <<CallOf("finalize", FALSE, FALSE)>>)
         ELSE /\ ops' = ended /\ root' = root
              /\ Then(t, IF ops[o].child /\ parent.step = "running" /\ parent.visible /\ revealed
                         THEN <<CallOf("show", FALSE, TRUE)>> ELSE <<>>)
      /\ IF ops[o].child THEN Discard ELSE UNCHANGED <<token, pending>>
      /\ UNCHANGED <<revealed, closing, queue, overlay, panel>>
  BY Zenon DEF FinishOperation
<1>2. /\ t \in Caller /\ 0 \notin OpIds /\ ops \in Ops
      /\ FALSE \in BOOLEAN /\ TRUE \in BOOLEAN
      /\ root \in OpIds /\ root # 0 /\ ops[root].step \in {"running", "finished"}
      /\ ~ops[root].child /\ ~closing
  BY <1>1 DEF Caller, OpIds, FeedbackInv, FeedbackTypes, RootIsExact
<1>3. /\ ended \in Ops
      /\ \A p \in OpIds : p # o => ended[p] = ops[p]
      /\ ended[o].child = ops[o].child /\ ended[o].visible = ops[o].visible
      /\ ended[o].step = IF ops[o].child THEN "gone" ELSE "finished"
  BY <1>2
<1>4. /\ pending' \in [waits : BOOLEAN, timers : SUBSET Nat] /\ token' \in Nat
      /\ pending'.waits => pending.waits
  <2>1. CASE ops[o].child
    BY <1>1, <2>1, DiscardPending DEF FeedbackInv, FeedbackTypes
  <2>2. CASE ~ops[o].child
    BY <1>1, <2>2 DEF FeedbackInv, FeedbackTypes
  <2> QED
    BY <2>1, <2>2
<1> HIDE DEF ended
<1>5. CASE Finalizable(ended)
  <2> DEFINE list == <<CallOf("finalize", FALSE, FALSE)>>
  <2>1. /\ list \in CallLists /\ list # <<>> /\ Head(list).what = "finalize"
        /\ Then(t, list) /\ ops' = Cleared(ended) /\ root' = 0
    BY <1>1, <1>2, <1>5, OneCall
  <2> HIDE DEF list
  <2>2. /\ calls' \in [Caller -> CallLists] /\ overlapped' \in BOOLEAN
        /\ calls'[t] = list /\ \A u \in Caller \ {t} : calls'[u] = calls[u]
        /\ ~overlapped' => \A u, v \in Caller : u # v /\ EndsRun(u)' => calls'[v] = <<>>
        /\ ~overlapped' => ~overlapped
    BY <1>2, <2>1, CallsAfterLock DEF FeedbackInv, FeedbackTypes
  <2>3. ops' \in Ops /\ \A p \in OpIds : ops'[p].step # "running"
    BY <1>2, <1>3, <1>5, <2>1 DEF Cleared, Finalizable
  <2>4. Active' = {}
    BY <2>3 DEF Active
  <2>5. FeedbackTypes'
    BY <1>1, <1>4, <2>1, <2>2, <2>3 DEF FeedbackInv, FeedbackTypes
  <2>6. Does(t, "finalize")' /\ \A w : w # "finalize" => ~Does(t, w)'
    BY <2>1, <2>2 DEF Does
  <2>7. \A u \in Caller \ {t} : \A w : Does(u, w)' <=> Does(u, w)
    BY <2>2 DEF Does
  <2>8. RootIsExact' /\ EndIsUnderWay' /\ OverlayIsSound'
    BY <1>1, <1>2, <2>1, <2>4, <2>6, SameOverlay DEF FeedbackInv, RootIsExact, EndIsUnderWay
  <2>9. ~overlapped' => CallsAreInOrder'
    <3> SUFFICES ASSUME ~overlapped' PROVE CallsAreInOrder'
      OBVIOUS
    <3>0. CallsAreInOrder
      BY <2>2 DEF FeedbackInv
    <3>1. \A w : ~Does(t, w)
      BY <1>1 DEF Does
    <3>2. ~revealed' => /\ ~pending'.waits
                        /\ \A u \in Caller : calls'[u] = <<>> \/ EndsRun(u)'
      BY <1>1, <1>4, <2>2, <2>6, <2>7, <3>0 DEF CallsAreInOrder, EndsRun
    <3>3. \A u \in Caller : Does(u, "hide")' => ~revealed'
      BY <1>1, <2>6, <2>7, <3>0 DEF CallsAreInOrder
    <3>4. revealed' /\ (\A u \in Caller : ~Does(u, "start")') => WillShow'
      BY <1>1, <2>7, <3>0, <3>1, SameOverlay DEF CallsAreInOrder
    <3>5. ~revealed' /\ (\A u \in Caller : ~Does(u, "hide")') => WillHide'
      BY <1>1, <2>7, <3>0, <3>1, SameOverlay DEF CallsAreInOrder
    <3> QED
      BY <2>2, <2>4, <3>2, <3>3, <3>4, <3>5 DEF CallsAreInOrder
  <2> QED
    BY <2>5, <2>8, <2>9 DEF FeedbackInv
<1>6. CASE ~Finalizable(ended)
  <2> DEFINE shows == ops[o].child /\ parent.step = "running" /\ parent.visible /\ revealed
             list == IF shows THEN <<CallOf("show", FALSE, TRUE)>> ELSE <<>>
  <2>1. Then(t, list) /\ ops' = ended /\ root' = root
    BY <1>1, <1>6
  <2>2. /\ list \in CallLists
        /\ list # <<>> => revealed /\ Head(list).what = "show"
    BY <1>2, OneCall DEF CallLists
  <2> HIDE DEF list
  <2>3. \A p \in OpIds : ended[p].step = "running" => p # o /\ p \in Active
    BY <1>3 DEF Active
  <2>4. \A p \in Active' : p \in Active /\ ops'[p] = ops[p]
    BY <1>3, <2>1, <2>3 DEF Active
  <2>5. RootIsExact'
    <3>1. ended[root].step \in {"running", "finished"} /\ ~ended[root].child
      BY <1>2, <1>3
    <3>2. \E p \in OpIds : ended[p].step = "running"
      BY <1>2, <1>6, <3>1 DEF Finalizable
    <3>3. Active' # {}
      BY <2>1, <3>2 DEF Active
    <3> QED
      BY <1>1, <1>2, <2>1, <3>1, <3>3 DEF RootIsExact
  <2>6. EndIsUnderWay' /\ OverlayIsSound'
    BY <1>1, <1>2, <2>1, SameOverlay DEF FeedbackInv, EndIsUnderWay
  <2>7. FeedbackTypes'
    BY <1>1, <1>2, <1>3, <1>4, <2>1, <2>2, CallsAfterLock DEF FeedbackInv, FeedbackTypes
  <2>8. ~overlapped' => CallsAreInOrder'
    <3>1. revealed' \in BOOLEAN /\ revealed' = revealed
      BY <1>1 DEF FeedbackInv, FeedbackTypes
    <3> QED
      BY <1>1, <1>2, <1>4, <2>1, <2>2, <2>4, <3>1, CallsThatShow
  <2> QED
    BY <2>5, <2>6, <2>7, <2>8 DEF FeedbackInv
<1> QED
  BY <1>5, <1>6

LEMMA FinalizeKeepsFeedback ==
    ASSUME FeedbackInv, NEW t \in Threads, FinalizeProgress(t)
    PROVE  FeedbackInv'
<1> DEFINE list == IF revealed THEN <<CallOf("hide", FALSE, FALSE)>> ELSE <<>>
<1>1. /\ Does(t, "finalize") /\ Discard /\ revealed' = FALSE /\ Then(t, list)
      /\ UNCHANGED <<ops, root, closing, queue, overlay, panel>>
  BY Zenon DEF FinalizeProgress, Does
<1>2. t \in Caller /\ FALSE \in BOOLEAN
  BY DEF Caller
<1>3. /\ list \in CallLists
      /\ revealed => list # <<>> /\ Head(list).what = "hide"
      /\ ~revealed => list = <<>>
  BY <1>2, OneCall DEF CallLists
<1> HIDE DEF list
<1>4. /\ calls' \in [Caller -> CallLists] /\ overlapped' \in BOOLEAN
      /\ calls'[t] = list /\ \A u \in Caller \ {t} : calls'[u] = calls[u]
      /\ ~overlapped' => \A u, v \in Caller : u # v /\ EndsRun(u)' => calls'[v] = <<>>
      /\ ~overlapped' => ~overlapped
  BY <1>1, <1>2, <1>3, CallsAfterLock DEF FeedbackInv, FeedbackTypes
<1>5. FeedbackTypes'
  BY <1>1, <1>4, DiscardPending DEF FeedbackInv, FeedbackTypes
<1>6. RootIsExact' /\ EndIsUnderWay' /\ OverlayIsSound'
  BY <1>1, SameOverlay DEF FeedbackInv, RootIsExact, EndIsUnderWay, Active
<1>7. ~overlapped' => CallsAreInOrder'
  <2> SUFFICES ASSUME ~overlapped' PROVE CallsAreInOrder'
    OBVIOUS
  <2>0. CallsAreInOrder
    BY <1>4 DEF FeedbackInv
  <2>1. \A u \in Caller \ {t} : calls[u] = <<>> /\ calls'[u] = <<>>
    BY <1>1, <1>2, <1>4, <2>0 DEF CallsAreInOrder, EndsRun
  <2>2. \A u \in Caller : calls'[u] = <<>> \/ EndsRun(u)'
    BY <1>3, <1>4, <2>1 DEF EndsRun, Does
  <2>3. ~pending'.waits
    BY <1>1, DiscardPending DEF FeedbackInv, FeedbackTypes
  <2>4. \A o \in Active' : ~ops'[o].visible
    BY <1>1, <1>2, <2>0 DEF CallsAreInOrder, Active
  <2>5. ASSUME \A u \in Caller : ~Does(u, "hide")' PROVE WillHide'
    <3>1. ~revealed
      BY <1>2, <1>3, <1>4, <2>5 DEF Does
    <3>2. \A u \in Caller : ~Does(u, "hide")
      BY <1>1, <2>1 DEF Does
    <3> QED
      BY <1>1, <2>0, <3>1, <3>2, SameOverlay DEF CallsAreInOrder
  <2> QED
    BY <1>1, <1>4, <2>2, <2>3, <2>4, <2>5 DEF CallsAreInOrder
<1> QED
  BY <1>5, <1>6, <1>7 DEF FeedbackInv

\* What follows a call to show something, and a timer that is due, calls for no
\* end and no beginning.
LEMMA CallsThatRender ==
    ASSUME FeedbackInv, NEW t \in Caller, NEW list \in CallLists, Then(t, list),
           UNCHANGED <<ops, root, revealed, closing, queue, overlay, panel>>,
           pending' \in [waits : BOOLEAN, timers : SUBSET Nat], token' \in Nat,
           list # <<>> => Head(list).what = "render",
           ~Does(t, "start") /\ ~EndsRun(t),
           ~overlapped /\ ~revealed => list = <<>> /\ ~pending'.waits
    PROVE  FeedbackInv'
<1>1. /\ calls' \in [Caller -> CallLists] /\ overlapped' \in BOOLEAN
      /\ calls'[t] = list /\ \A u \in Caller \ {t} : calls'[u] = calls[u]
      /\ ~overlapped' => \A u, v \in Caller : u # v /\ EndsRun(u)' => calls'[v] = <<>>
      /\ ~overlapped' => ~overlapped
  BY CallsAfterLock DEF FeedbackInv, FeedbackTypes
<1>2. FeedbackTypes'
  BY <1>1 DEF FeedbackInv, FeedbackTypes
<1>3. \A u \in Caller \ {t} : \A w : Does(u, w)' <=> Does(u, w)
  BY <1>1 DEF Does
<1>4. ~Does(t, "start")' /\ ~Does(t, "finalize")' /\ ~Does(t, "hide")'
      /\ ~Does(t, "start") /\ ~Does(t, "finalize") /\ ~Does(t, "hide")
  BY <1>1 DEF Does, EndsRun
<1>5. RootIsExact' /\ EndIsUnderWay' /\ OverlayIsSound'
  BY <1>3, <1>4, SameOverlay DEF FeedbackInv, RootIsExact, EndIsUnderWay, Active
<1>6. ~overlapped' => CallsAreInOrder'
  <2> SUFFICES ASSUME ~overlapped' PROVE CallsAreInOrder'
    OBVIOUS
  <2>0. CallsAreInOrder
    BY <1>1 DEF FeedbackInv
  <2>1. ~revealed' => /\ ~pending'.waits
                      /\ \A u \in Caller : calls'[u] = <<>> \/ EndsRun(u)'
    BY <1>1, <1>3, <2>0 DEF CallsAreInOrder, EndsRun
  <2>2. \A u \in Caller : Does(u, "hide")' => ~revealed'
    BY <1>3, <1>4, <2>0 DEF CallsAreInOrder
  <2>3. \A o \in Active' : ops'[o].visible =>
            revealed' /\ \A u \in Caller : ~Does(u, "finalize")'
    BY <1>3, <1>4, <2>0 DEF CallsAreInOrder, Active
  <2>4. revealed' /\ (\A u \in Caller : ~Does(u, "start")') => WillShow'
    BY <1>3, <1>4, <2>0, SameOverlay DEF CallsAreInOrder
  <2>5. ~revealed' /\ (\A u \in Caller : ~Does(u, "hide")') => WillHide'
    BY <1>3, <1>4, <2>0, SameOverlay DEF CallsAreInOrder
  <2> QED
    BY <1>1, <2>1, <2>2, <2>3, <2>4, <2>5 DEF CallsAreInOrder
<1> QED
  BY <1>2, <1>5, <1>6 DEF FeedbackInv

LEMMA ShowKeepsFeedback ==
    ASSUME FeedbackInv, NEW t \in Caller, ShowProgress(t)
    PROVE  FeedbackInv'
<1> DEFINE call == Head(calls[t])
<1>1. /\ Does(t, "show") /\ UNCHANGED <<ops, root, revealed, closing, queue, overlay, panel>>
      /\ \/ Then(t, Tail(calls[t])) /\ UNCHANGED <<token, pending>>
         \/ Discard /\ Then(t, <<CallOf("render", call.force, FALSE)>>)
         \/ /\ pending' = [waits |-> TRUE, timers |-> IF pending.waits THEN pending.timers
                                                      ELSE pending.timers \union {token}]
            /\ Then(t, Tail(calls[t])) /\ UNCHANGED token
  BY Zenon DEF ShowProgress, Does
<1>2. /\ Tail(calls[t]) = <<>> /\ call.force \in BOOLEAN /\ FALSE \in BOOLEAN
      /\ ~Does(t, "start") /\ ~EndsRun(t)
  <2>1. calls[t] \in CallLists /\ calls[t] # <<>> /\ call.what = "show"
    BY <1>1 DEF FeedbackInv, FeedbackTypes, Does
  <2>2. Tail(calls[t]) = <<>> /\ call \in Call
    BY <2>1, ListsOfCalls
  <2> QED
    BY <2>1, <2>2 DEF Call, Does, EndsRun
<1>3. ~overlapped => revealed
  BY <1>1, <1>2 DEF FeedbackInv, CallsAreInOrder, Does
<1>4. CASE Then(t, Tail(calls[t])) /\ UNCHANGED <<token, pending>>
  <2>1. <<>> \in CallLists
    BY DEF CallLists
  <2>2. Then(t, <<>>)
    BY <1>2, <1>4
  <2> QED
    BY <1>1, <1>2, <1>3, <1>4, <2>1, <2>2, CallsThatRender DEF FeedbackInv, FeedbackTypes
<1>5. CASE Discard /\ Then(t, <<CallOf("render", call.force, FALSE)>>)
  <2> DEFINE list == <<CallOf("render", call.force, FALSE)>>
  <2>1. list \in CallLists /\ Head(list).what = "render" /\ Then(t, list)
    BY <1>2, <1>5, OneCall
  <2>2. pending' \in [waits : BOOLEAN, timers : SUBSET Nat] /\ token' \in Nat
    BY <1>5, DiscardPending DEF FeedbackInv, FeedbackTypes
  <2> HIDE DEF list
  <2> QED
    BY <1>1, <1>2, <1>3, <2>1, <2>2, CallsThatRender
<1>6. CASE /\ pending' = [waits |-> TRUE, timers |-> IF pending.waits THEN pending.timers
                                                    ELSE pending.timers \union {token}]
           /\ Then(t, Tail(calls[t])) /\ UNCHANGED token
  <2>1. <<>> \in CallLists
    BY DEF CallLists
  <2>2. Then(t, <<>>)
    BY <1>2, <1>6
  <2>3. pending' \in [waits : BOOLEAN, timers : SUBSET Nat] /\ token' \in Nat
    BY <1>6 DEF FeedbackInv, FeedbackTypes
  <2> QED
    BY <1>1, <1>2, <1>3, <2>1, <2>2, <2>3, CallsThatRender
<1> QED
  BY <1>1, <1>4, <1>5, <1>6

LEMMA FlushKeepsFeedback ==
    ASSUME FeedbackInv, NEW tk, FlushPendingRender(tk)
    PROVE  FeedbackInv'
<1> DEFINE due == ~closing /\ tk = token /\ pending.waits
           list == IF due THEN <<CallOf("render", FALSE, FALSE)>> ELSE <<>>
<1>1. /\ calls[Timer] = <<>> /\ Then(Timer, list)
      /\ pending' = [waits |-> pending.waits /\ ~due, timers |-> pending.timers \ {tk}]
      /\ UNCHANGED <<ops, root, revealed, token, closing, queue, overlay, panel>>
  BY Zenon DEF FlushPendingRender
<1>2. Timer \in Caller /\ FALSE \in BOOLEAN
  BY DEF Caller
<1>3. /\ list \in CallLists
      /\ list # <<>> => pending.waits /\ Head(list).what = "render"
  BY <1>2, OneCall DEF CallLists
<1>4. /\ pending' \in [waits : BOOLEAN, timers : SUBSET Nat]
      /\ pending'.waits => pending.waits
  BY <1>1 DEF FeedbackInv, FeedbackTypes
<1> HIDE DEF list, due
<1>5. ~Does(Timer, "start") /\ ~EndsRun(Timer)
  BY <1>1 DEF Does, EndsRun
<1>6. ~overlapped /\ ~revealed => list = <<>> /\ ~pending'.waits
  BY <1>3, <1>4 DEF FeedbackInv, CallsAreInOrder
<1>7. token' \in Nat
  BY <1>1 DEF FeedbackInv, FeedbackTypes
<1> QED
  BY <1>1, <1>2, <1>3, <1>4, <1>5, <1>6, <1>7, CallsThatRender

LEMMA ShutdownKeepsFeedback ==
    ASSUME FeedbackInv, Shutdown
    PROVE  FeedbackInv'
<1> USE FeedbackAssumption
<1> DEFINE list == IF revealed THEN <<CallOf("hide", FALSE, FALSE)>> ELSE <<>>
<1>1. /\ calls[UI] = <<>> /\ closing' = TRUE /\ root' = 0 /\ revealed' = FALSE
      /\ ops' = [o \in OpIds |-> IF o \in Begun THEN [ops[o] EXCEPT !.step = "gone"] ELSE ops[o]]
      /\ Discard /\ Then(UI, list)
      /\ UNCHANGED <<queue, overlay, panel, updates>>
  BY Zenon DEF Shutdown
<1>2. UI \in Caller /\ FALSE \in BOOLEAN
  BY DEF Caller
<1>3. /\ list \in CallLists
      /\ revealed => list # <<>> /\ Head(list).what = "hide"
      /\ ~revealed => list = <<>>
  BY <1>2, OneCall DEF CallLists
<1> HIDE DEF list
<1>4. /\ calls' \in [Caller -> CallLists] /\ overlapped' \in BOOLEAN
      /\ calls'[UI] = list /\ \A u \in Caller \ {UI} : calls'[u] = calls[u]
      /\ ~overlapped' => \A u, v \in Caller : u # v /\ EndsRun(u)' => calls'[v] = <<>>
      /\ ~overlapped' => ~overlapped
  BY <1>1, <1>2, <1>3, CallsAfterLock DEF FeedbackInv, FeedbackTypes
<1>5. /\ ops' \in [OpIds -> [step : {"none", "running", "finished", "gone"}, child : BOOLEAN,
                             visible : BOOLEAN]]
      /\ \A o \in OpIds : ops'[o].step # "running"
  <2>1. \A o \in OpIds : ops'[o] \in [step : {"none", "running", "finished", "gone"},
                                      child : BOOLEAN, visible : BOOLEAN]
    BY <1>1 DEF FeedbackInv, FeedbackTypes
  <2>2. \A o \in OpIds : ops'[o].step # "running"
    BY <1>1 DEF FeedbackInv, FeedbackTypes, Begun
  <2>3. ops' = [o \in OpIds |-> ops'[o]]
    BY <1>1
  <2> QED
    BY <2>1, <2>2, <2>3
<1>6. Active' = {}
  BY <1>5 DEF Active
<1>7. FeedbackTypes'
  <2>1. pending' \in [waits : BOOLEAN, timers : SUBSET Nat] /\ token' \in Nat /\ ~pending'.waits
    BY <1>1, DiscardPending DEF FeedbackInv, FeedbackTypes
  <2> QED
    BY <1>1, <1>4, <1>5, <2>1 DEF FeedbackInv, FeedbackTypes
<1>8. RootIsExact' /\ EndIsUnderWay' /\ OverlayIsSound'
  BY <1>1, <1>6, SameOverlay DEF FeedbackInv, RootIsExact, EndIsUnderWay
<1>9. ~overlapped' => CallsAreInOrder'
  <2> SUFFICES ASSUME ~overlapped' PROVE CallsAreInOrder'
    OBVIOUS
  <2>0. CallsAreInOrder
    BY <1>4 DEF FeedbackInv
  <2>1. ~Does(UI, "hide")
    BY <1>1 DEF Does
  <2>2. \A u \in Caller \ {UI} : \A w : Does(u, w)' <=> Does(u, w)
    BY <1>4 DEF Does
  <2>3. revealed => EndsRun(UI)' /\ Does(UI, "hide")'
    BY <1>3, <1>4 DEF EndsRun, Does
  <2>4. \A u \in Caller : calls'[u] = <<>> \/ EndsRun(u)'
    <3>1. CASE revealed
      BY <1>2, <1>4, <2>3, <3>1
    <3>2. CASE ~revealed
      BY <1>3, <1>4, <2>0, <2>2, <3>2 DEF CallsAreInOrder, EndsRun
    <3> QED
      BY <3>1, <3>2
  <2>5. ~pending'.waits
    BY <1>1, DiscardPending DEF FeedbackInv, FeedbackTypes
  <2>6. ASSUME \A u \in Caller : ~Does(u, "hide")' PROVE WillHide'
    <3>1. ~revealed
      BY <1>2, <2>3, <2>6
    <3>2. \A u \in Caller : ~Does(u, "hide")
      BY <2>1, <2>2, <2>6
    <3> QED
      BY <1>1, <2>0, <3>1, <3>2, SameOverlay DEF CallsAreInOrder
  <2> QED
    BY <1>1, <1>4, <1>6, <2>4, <2>5, <2>6 DEF CallsAreInOrder
<1> QED
  BY <1>7, <1>8, <1>9 DEF FeedbackInv

LEMMA CallKeepsFeedback ==
    ASSUME FeedbackInv, NEW t \in Caller, CallOverlay(t)
    PROVE  FeedbackInv'
<1>1. /\ calls[t] # <<>> /\ Head(calls[t]).what \in {"start", "render", "hide"}
      /\ Then(t, Tail(calls[t]))
      /\ UNCHANGED <<ops, root, revealed, token, pending, closing, panel>>
  BY Zenon DEF CallOverlay
<1>2. /\ queue' \in Seq(Posted) /\ overlay' \in Overlays /\ OverlayIsSound'
      /\ Does(t, "start") => WillShow'
      /\ Does(t, "hide") => WillHide'
      /\ Does(t, "render") /\ WillShow => WillShow'
  BY CallReachesOverlay DEF FeedbackInv
<1>3. /\ Tail(calls[t]) \in CallLists
      /\ Tail(calls[t]) # <<>> => Does(t, "start") /\ Head(Tail(calls[t])).what = "show"
      /\ Does(t, "start") \/ Does(t, "render") \/ Does(t, "hide")
  <2>1. calls[t] \in CallLists
    BY DEF FeedbackInv, FeedbackTypes
  <2> QED
    BY <1>1, <2>1, ListsOfCalls DEF Does
<1>4. /\ calls' \in [Caller -> CallLists] /\ overlapped' \in BOOLEAN
      /\ calls'[t] = Tail(calls[t]) /\ \A u \in Caller \ {t} : calls'[u] = calls[u]
      /\ ~overlapped' => \A u, v \in Caller : u # v /\ EndsRun(u)' => calls'[v] = <<>>
      /\ ~overlapped' => ~overlapped
  BY <1>1, <1>3, CallsAfterLock DEF FeedbackInv, FeedbackTypes
<1>5. FeedbackTypes'
  BY <1>1, <1>2, <1>4 DEF FeedbackInv, FeedbackTypes, Overlays
<1>6. \A u \in Caller \ {t} : \A w : Does(u, w)' <=> Does(u, w)
  BY <1>4 DEF Does
<1>7. /\ ~Does(t, "start")' /\ ~Does(t, "finalize")' /\ ~Does(t, "hide")' /\ ~Does(t, "finalize")
      /\ calls'[t] # <<>> => Does(t, "start")
      /\ \A v, w : Does(t, v) /\ Does(t, w) => v = w
  BY <1>1, <1>3, <1>4 DEF Does
<1>8. RootIsExact' /\ EndIsUnderWay'
  BY <1>1, <1>6, <1>7 DEF FeedbackInv, RootIsExact, EndIsUnderWay, Active
<1>9. ~overlapped' => CallsAreInOrder'
  <2> SUFFICES ASSUME ~overlapped' PROVE CallsAreInOrder'
    OBVIOUS
  <2>0. CallsAreInOrder
    BY <1>4 DEF FeedbackInv
  <2>1. ~revealed <=> Does(t, "hide")
    BY <1>1, <1>3, <1>7, <2>0 DEF CallsAreInOrder, EndsRun
  <2>2. ~revealed' => /\ ~pending'.waits
                      /\ \A u \in Caller : calls'[u] = <<>> \/ EndsRun(u)'
    <3> SUFFICES ASSUME ~revealed PROVE \A u \in Caller : calls'[u] = <<>> \/ EndsRun(u)'
      BY <1>1, <2>0 DEF CallsAreInOrder
    <3>1. calls'[t] = <<>>
      BY <1>7, <2>1
    <3> QED
      BY <1>4, <1>6, <2>0, <3>1 DEF CallsAreInOrder, EndsRun
  <2>3. \A u \in Caller : Does(u, "hide")' => ~revealed'
    BY <1>1, <1>6, <1>7, <2>0 DEF CallsAreInOrder
  <2>4. \A o \in Active' : ops'[o].visible =>
            revealed' /\ \A u \in Caller : ~Does(u, "finalize")'
    BY <1>1, <1>6, <1>7, <2>0 DEF CallsAreInOrder, Active
  <2>5. ASSUME revealed, \A u \in Caller : ~Does(u, "start")' PROVE WillShow'
    <3>1. CASE Does(t, "start")
      BY <1>2, <3>1
    <3>2. CASE ~Does(t, "start")
      <4>1. \A u \in Caller : ~Does(u, "start")
        BY <1>6, <2>5, <3>2
      <4>2. Does(t, "render") /\ WillShow
        BY <1>3, <2>0, <2>1, <2>5, <3>2, <4>1 DEF CallsAreInOrder
      <4> QED
        BY <1>2, <4>2
    <3> QED
      BY <3>1, <3>2
  <2>6. ~revealed => WillHide'
    BY <1>2, <2>1
  <2> QED
    BY <1>1, <1>4, <2>2, <2>3, <2>4, <2>5, <2>6 DEF CallsAreInOrder
<1> QED
  BY <1>2, <1>5, <1>8, <1>9 DEF FeedbackInv

LEMMA FeedbackInitially == FeedbackInit => FeedbackInv
<1> SUFFICES ASSUME FeedbackInit PROVE FeedbackInv
  OBVIOUS
<1> USE FeedbackAssumption DEF FeedbackInit
<1>1. \A t \in Caller : calls[t] = <<>>
  BY DEF Caller
<1>2. \A t \in Caller : \A w : ~Does(t, w)
  BY <1>1 DEF Does
<1>3. Active = {}
  BY DEF Active, NoOp
<1>4. FeedbackTypes
  <2>1. calls \in [Caller -> CallLists]
    BY DEF Caller, CallLists
  <2>2. ops \in [OpIds -> [step : {"none", "running", "finished", "gone"}, child : BOOLEAN,
                           visible : BOOLEAN]]
    BY DEF NoOp
  <2>3. queue \in Seq(Posted)
    OBVIOUS
  <2>4. overlay \in [cycle : Nat, shown : BOOLEAN, sheet : BOOLEAN, closed : BOOLEAN]
    BY DEF NewOverlay
  <2>5. panel \in [active : BOOLEAN, loops : Nat] /\ ~panel.active
    BY DEF NewPanel
  <2>6. pending \in [waits : BOOLEAN, timers : SUBSET Nat]
    OBVIOUS
  <2> QED
    BY <2>1, <2>2, <2>3, <2>4, <2>5, <2>6 DEF FeedbackTypes
<1>5. OverlayIsSound /\ WillHide /\ ~pending.waits
  BY DEF OverlayIsSound, WillHide, Current, NewOverlay
<1>6. CallsAreInOrder
  BY <1>1, <1>2, <1>3, <1>5 DEF CallsAreInOrder, EndsRun
<1> QED
  BY <1>3, <1>4, <1>5, <1>6 DEF FeedbackInv, RootIsExact, EndIsUnderWay

LEMMA FeedbackStep == FeedbackInv /\ [FeedbackNext]_feedbackVars => FeedbackInv'
<1> SUFFICES ASSUME FeedbackInv, [FeedbackNext]_feedbackVars PROVE FeedbackInv'
  OBVIOUS
<1>1. ASSUME NEW t \in Threads, NEW visible \in BOOLEAN, BeginOperation(t, visible)
      PROVE  FeedbackInv'
  BY <1>1, BeginKeepsFeedback
<1>2. ASSUME NEW t \in Threads, UseHandle(t) PROVE FeedbackInv'
  BY <1>2, UpdateKeepsFeedback, FinishKeepsFeedback DEF UseHandle
<1>3. ASSUME NEW t \in Threads, FinalizeProgress(t) PROVE FeedbackInv'
  BY <1>3, FinalizeKeepsFeedback
<1>4. ASSUME NEW t \in Threads \union {Timer}, ShowProgress(t) \/ CallOverlay(t)
      PROVE  FeedbackInv'
  BY <1>4, ShowKeepsFeedback, CallKeepsFeedback DEF Caller
<1>5. ASSUME NEW tk \in pending.timers, FlushPendingRender(tk) PROVE FeedbackInv'
  BY <1>5, FlushKeepsFeedback
<1>6. CASE Shutdown
  BY <1>6, ShutdownKeepsFeedback
<1>7. CASE RunTask
  <2>1. /\ queue' \in Seq(Posted) /\ overlay' \in Overlays /\ OverlayIsSound'
        /\ WillShow => WillShow'
        /\ WillHide => WillHide'
    BY <1>7, RunTaskKeepsTheRing DEF FeedbackInv
  <2>2. UNCHANGED <<ops, root, revealed, token, pending, closing, calls, panel, overlapped>>
    BY <1>7 DEF RunTask
  <2> QED
    BY <2>1, <2>2 DEF FeedbackInv, FeedbackTypes, RootIsExact, EndIsUnderWay, CallsAreInOrder,
                      Active, Does, EndsRun, Overlays
<1>8. CASE ToggleBottomSheet
  <2>1. /\ overlay.shown /\ overlay' = [overlay EXCEPT !.sheet = ~@, !.closed = overlay.sheet]
        /\ UNCHANGED <<ops, root, revealed, token, pending, closing, calls, queue, panel, overlapped>>
    BY <1>8 DEF ToggleBottomSheet
  <2>2. overlay \in Overlays
    BY DEF FeedbackInv, FeedbackTypes, Overlays
  <2>3. overlay'.cycle = overlay.cycle /\ overlay'.shown = overlay.shown
    BY <2>1, <2>2 DEF Overlays
  <2>4. overlay' \in Overlays
    <3>1. \A a, b \in BOOLEAN : [overlay EXCEPT !.sheet = a, !.closed = b] \in Overlays
      BY <2>2 DEF Overlays
    <3>2. (~overlay.sheet) \in BOOLEAN /\ overlay.sheet \in BOOLEAN
      BY <2>2 DEF Overlays
    <3>3. overlay' = [overlay EXCEPT !.sheet = ~overlay.sheet, !.closed = overlay.sheet]
      BY <2>1, <2>2 DEF Overlays
    <3> QED
      BY <3>1, <3>2, <3>3, Zenon
  <2>5. OverlayIsSound' /\ (WillShow' <=> WillShow) /\ (WillHide' <=> WillHide)
    BY <2>1, <2>3 DEF FeedbackInv, OverlayIsSound, WillShow, WillHide, Current
  <2> QED
    BY <2>1, <2>4, <2>5 DEF FeedbackInv, FeedbackTypes, RootIsExact, EndIsUnderWay,
                            CallsAreInOrder, Active, Does, EndsRun, Overlays
<1>9. ASSUME PanelShown \/ PanelHidden \/ RefreshLoopEnds PROVE FeedbackInv'
  <2>1. panel' \in [active : BOOLEAN, loops : Nat] /\ (panel'.active => panel'.loops > 0)
    <3>0. panel \in [active : BOOLEAN, loops : Nat] /\ (panel.active => panel.loops > 0)
      BY DEF FeedbackInv, FeedbackTypes
    <3>1. CASE PanelShown
      BY <3>0, <3>1 DEF PanelShown
    <3>2. CASE PanelHidden
      BY <3>0, <3>2 DEF PanelHidden
    <3>3. CASE RefreshLoopEnds
      BY <3>0, <3>3 DEF RefreshLoopEnds
    <3> QED
      BY <1>9, <3>1, <3>2, <3>3
  <2>2. UNCHANGED <<ops, root, revealed, token, pending, closing, calls, queue, overlay, overlapped>>
    BY <1>9 DEF PanelShown, PanelHidden, RefreshLoopEnds
  <2> QED
    BY <2>1, <2>2, SameOverlay DEF FeedbackInv, FeedbackTypes, RootIsExact, EndIsUnderWay,
                                   CallsAreInOrder, Active, Does, EndsRun
<1>10. CASE UNCHANGED feedbackVars
  <2>1. UNCHANGED <<ops, root, revealed, token, pending, closing, calls, queue, overlay, panel,
                    overlapped>>
    BY <1>10 DEF feedbackVars
  <2> QED
    BY <2>1, SameOverlay DEF FeedbackInv, FeedbackTypes, RootIsExact, EndIsUnderWay,
                             CallsAreInOrder, Active, Does, EndsRun
<1> QED
  BY <1>1, <1>2, <1>3, <1>4, <1>5, <1>6, <1>7, <1>8, <1>9, <1>10 DEF FeedbackNext

\* The launcher is busy exactly while an operation runs; when nothing is under
\* way the ring follows what has been revealed, unless an end overlapped another
\* call since the last cycle began; and a panel that is shown is refreshed
\* (FeedbackService of feedback.py, ProgressOverlay of progress_overlay.py).
THEOREM ProgressStaysTrue == FeedbackSpec => []ProgressIsTrue
<1>1. FeedbackInv => ProgressIsTrue
  <2> SUFFICES ASSUME FeedbackInv PROVE ProgressIsTrue
    OBVIOUS
  <2>1. BusyIsExact /\ PanelIsRefreshed
    BY DEF FeedbackInv, RootIsExact, FeedbackTypes, BusyIsExact, PanelIsRefreshed
  <2>2. ASSUME AtRest, ~overlapped
        PROVE  /\ overlay.shown <=> revealed
               /\ overlay.sheet => overlay.shown
               /\ revealed => root # 0
               /\ \A o \in Active : ops[o].visible => revealed
    <3>1. CallsAreInOrder
      BY <2>2 DEF FeedbackInv
    <3>2. \A t \in Caller : \A w : ~Does(t, w)
      BY <2>2 DEF AtRest, FeedbackInv, FeedbackTypes, Does
    <3>3. \A w : ~Current(w)
      BY <2>2 DEF AtRest, Current
    <3>4. overlay.shown <=> revealed
      BY <3>1, <3>2, <3>3 DEF CallsAreInOrder, WillShow, WillHide
    <3>5. revealed => root # 0
      BY <3>2 DEF FeedbackInv, EndIsUnderWay
    <3> QED
      BY <3>1, <3>4, <3>5 DEF FeedbackInv, OverlayIsSound, CallsAreInOrder
  <2> QED
    BY <2>1, <2>2 DEF ProgressIsTrue, OverlayFollows
<1> QED
  BY <1>1, FeedbackInitially, FeedbackStep, PTL DEF FeedbackSpec

-----------------------------------------------------------------------------
TaskRecord == [key : ListKeys, current : BOOLEAN, tab : Tabs, object : 1..MaxObjects,
               step : {"working", "returned", "failed"}, read : States \cup {NoList}, inner : BOOLEAN]
PageTypes ==
    /\ PageTypeOK
    /\ tasks \in SUBSET TaskRecord
    /\ mutations \in [queued : Nat, returned : Nat]
    /\ installation \in [step : {"idle", "planning", "asking", "writing", "scanning"},
                         object : 0..MaxObjects]

IsScan(t) == t.key = "scan" /\ t.current
IsCheck(t) == t.key = "check" /\ t.current
NoScan == \A t \in tasks : ~IsScan(t)

\* What the current tasks are about: one at a time of the scans and the checks,
\* and one of the installation's own scans.
TasksAreKnown ==
    /\ \A t \in tasks : t.current => t.tab = tab /\ t.object = object
    /\ \A t, u \in tasks : (IsScan(t) \/ IsCheck(t)) /\ (IsScan(u) \/ IsCheck(u)) => t = u
    /\ \A t, u \in tasks : t.inner /\ u.inner => t = u
    /\ \A t \in tasks : t.inner => t.key = "scan" /\ installation.step = "scanning"
    /\ \A t \in tasks : IsScan(t) => t.inner \/ is_loading
    /\ \A t \in tasks : IsScan(t) /\ t.step = "returned" =>
           /\ t.read \in States /\ t.read <= directory
           /\ items # NoList => items <= t.read
           /\ ~missed /\ mutations.returned = 0 => t.read = directory
    /\ \A t \in tasks : IsCheck(t) => t.read = items /\ items \in States /\ (is_loaded \/ missed)

\* How the list, what is shown and the directory hang together.
ListIsKnown ==
    /\ is_loading => \E t \in tasks : IsScan(t)
    /\ status = "checking" => \E t \in tasks : IsCheck(t)
    /\ items # NoList => items <= directory
    /\ is_loaded => items # NoList
    /\ is_loaded /\ display \in States => display = items
    /\ is_loaded /\ display = Ring /\ ~missed => is_loading
    /\ is_loaded /\ ~missed /\ mutations.returned = 0 /\ NoScan => items = directory
    /\ tab = Shown /\ ~is_loaded =>
           /\ display \notin States
           /\ display = Ring => is_loading
           /\ items # NoList /\ NoScan => missed

PageInv == PageTypes /\ (~closed => TasksAreKnown /\ ListIsKnown)

LEMMA PageNumbers ==
    /\ MaxChanges \in Nat \ {0} /\ MaxObjects \in Nat \ {0}
    /\ NoList \in Nat /\ Ring \in Nat /\ Error \in Nat
    /\ NoList \notin States /\ Ring \notin States /\ Error \notin States
    /\ NoList # Ring /\ Ring # Error
    /\ States \subseteq Nat /\ 0 \in States
BY PageAssumption DEF NoList, Ring, Error, States

\* `new` has what `old` has, but for the tasks that are no longer current.
Remains(old, new) ==
    /\ new \in SUBSET TaskRecord
    /\ \A t \in new : t.current => t \in old
    /\ \A t \in new : t.inner => \E u \in old : u.inner /\ u.key = t.key
    /\ (\A t, u \in old : t.inner /\ u.inner => t = u) => \A t, u \in new : t.inner /\ u.inner => t = u

LEMMA OutdatedTasks ==
    ASSUME NEW ts \in SUBSET TaskRecord, NEW keys \in SUBSET ListKeys
    PROVE  /\ Remains(ts, Outdated(ts, keys))
           /\ \A t \in Outdated(ts, keys) : t.current => t.key \notin keys
           /\ \A t \in ts : t.current /\ t.key \notin keys => t \in Outdated(ts, keys)
<1> DEFINE Old(t) == [t EXCEPT !.current = @ /\ t.key \notin keys]
<1>1. ASSUME NEW t \in ts
      PROVE  /\ Old(t) \in TaskRecord
             /\ Old(t).current => t.key \notin keys /\ Old(t) = t
             /\ t.current /\ t.key \notin keys => Old(t) = t
             /\ Old(t).inner <=> t.inner
             /\ Old(t).key = t.key
  <2> DEFINE flag == t.current /\ t.key \notin keys
  <2>1. flag \in BOOLEAN /\ t.current \in BOOLEAN BY DEF TaskRecord
  <2>2. flag = TRUE \/ flag = FALSE BY <2>1
  <2>3. Old(t) = [t EXCEPT !.current = flag] BY DEF TaskRecord
  <2>4. flag => t.key \notin keys /\ t.current OBVIOUS
  <2>5. t.current /\ t.key \notin keys => flag OBVIOUS
  <2>6. flag => flag = t.current BY <2>1
  <2> HIDE DEF flag, Old
  <2>7. [t EXCEPT !.current = flag] \in TaskRecord
        /\ ([t EXCEPT !.current = flag].current <=> flag)
        /\ [t EXCEPT !.current = flag].inner = t.inner
        /\ [t EXCEPT !.current = flag].key = t.key
    BY <2>1 DEF TaskRecord
  <2>8. flag = t.current => [t EXCEPT !.current = flag] = t
    BY DEF TaskRecord
  <2> QED BY <2>3, <2>4, <2>5, <2>6, <2>7, <2>8
<1>2. Outdated(ts, keys) = {Old(t) : t \in ts} BY DEF Outdated
<1> HIDE DEF Old
<1> QED BY <1>1, <1>2 DEF Remains

LEMMA NothingCurrent ==
    ASSUME NEW ts \in SUBSET TaskRecord
    PROVE  /\ Remains(ts, Outdated(ts, ListKeys))
           /\ \A t \in Outdated(ts, ListKeys) : ~t.current
BY OutdatedTasks DEF TaskRecord, Remains

NewTask(t, key) ==
    /\ t \in TaskRecord /\ t.key = key /\ t.current /\ t.tab = tab' /\ t.object = object'
    /\ t.step = "working" /\ (key = "check" => t.read = items)

LEMMA BegunTask ==
    ASSUME NEW key \in ListKeys, tab' \in Tabs, object' \in 1..MaxObjects,
           items \in States \cup {NoList}
    PROVE  /\ NewTask(Task(key, tab', object'), key)
           /\ ~Task(key, tab', object').inner
           /\ NewTask([Task(key, tab', object') EXCEPT !.inner = TRUE], key)
           /\ [Task(key, tab', object') EXCEPT !.inner = TRUE].inner
<1> DEFINE yes == TRUE no == FALSE read == IF key = "check" THEN items ELSE NoList
           task == [key |-> key, current |-> yes, tab |-> tab', object |-> object', step |-> "working",
                    read |-> read, inner |-> no]
<1>1. yes \in BOOLEAN /\ no \in BOOLEAN /\ read \in States \cup {NoList} OBVIOUS
<1>2. Task(key, tab', object') = task BY DEF Task
<1>3. yes /\ ~no /\ (key = "check" => read = items) OBVIOUS
<1> HIDE DEF yes, no, read
<1>4. NewTask(task, key) /\ ~task.inner
  BY <1>1, <1>3 DEF TaskRecord, NewTask
<1>5. NewTask([task EXCEPT !.inner = yes], key) /\ [task EXCEPT !.inner = yes].inner
  BY <1>1, <1>3 DEF TaskRecord, NewTask
<1> QED BY <1>2, <1>4, <1>5 DEF yes

LEMMA PageTypesHold ==
    ASSUME PageTypes
    PROVE  /\ directory \in States /\ items \in States \cup {NoList}
           /\ display \in States \cup {Ring, Error} /\ tab \in Tabs /\ object \in 1..MaxObjects
           /\ status \in {"idle", "checking", "known"}
           /\ is_loaded \in BOOLEAN /\ is_loading \in BOOLEAN /\ closed \in BOOLEAN
           /\ missed \in BOOLEAN /\ tasks \in SUBSET TaskRecord
           /\ mutations.queued \in Nat /\ mutations.returned \in Nat
           /\ NoInstallation \in [step : {"idle", "planning", "asking", "writing", "scanning"},
                                  object : 0..MaxObjects]
BY PageNumbers DEF PageTypes, PageTypeOK, NoInstallation

LEMMA CheckOfScan ==
    ASSUME tab' \in Tabs, object' \in 1..MaxObjects, items \in States \cup {NoList}, NEW r \in States
    PROVE  LET c == [Task("check", tab', object') EXCEPT !.read = r]
           IN  /\ c \in TaskRecord /\ c.key = "check" /\ c.current /\ c.read = r /\ ~c.inner
               /\ c.tab = tab' /\ c.object = object' /\ c.step = "working"
<1>1. NewTask(Task("check", tab', object'), "check") /\ ~Task("check", tab', object').inner
  BY BegunTask DEF ListKeys
<1> QED BY <1>1 DEF NewTask, TaskRecord

\* `s` is the only current task of `new`.
Alone(s, old, new) ==
    /\ new \in SUBSET TaskRecord /\ s \in new
    /\ \A t \in new : t.current => t = s
    /\ \A t \in new : t.inner => t = s \/ \E u \in old : u.inner /\ u.key = t.key
    /\ (\A t, u \in old : t.inner /\ u.inner => t = u)
       => \A t, u \in new \ {s} : t.inner /\ u.inner => t = u

LEMMA AloneAfter ==
    ASSUME PageTypes, NEW s \in TaskRecord
    PROVE  Alone(s, tasks, Outdated(tasks, ListKeys) \cup {s})
<1>1. tasks \in SUBSET TaskRecord BY PageTypesHold
<1> QED BY <1>1, NothingCurrent DEF Alone, Remains

LEMMA RebuildTasks ==
    ASSUME PageTypes, tab' \in Tabs, object' \in 1..MaxObjects, Rebuild(tab', object')
    PROVE  /\ \E s : NewTask(s, "scan") /\ ~s.inner /\ Alone(s, tasks, tasks')
           /\ is_loading' /\ display' = Ring /\ status' = "idle"
<1> DEFINE s == Task("scan", tab', object')
<1>1. NewTask(s, "scan") /\ ~s.inner BY BegunTask, PageTypesHold DEF ListKeys
<1>2. s \in TaskRecord BY <1>1 DEF NewTask
<1>3. tasks' = Outdated(tasks, ListKeys) \cup {s} BY DEF Rebuild
<1> HIDE DEF s
<1>4. Alone(s, tasks, tasks') BY <1>2, <1>3, AloneAfter
<1> QED BY <1>1, <1>4 DEF Rebuild, ShowLoading, Show, SetStatus

LEMMA GiveUpTasks ==
    ASSUME PageTypes, GiveUp
    PROVE  /\ Remains(tasks, tasks') /\ \A t \in tasks' : ~t.current
           /\ ~is_loading' /\ display' = display
           /\ status' \in {"idle", "known"} /\ is_loading' \in BOOLEAN
<1>1. is_loading' \in BOOLEAN BY DEF GiveUp
<1> QED BY <1>1, PageTypesHold, NothingCurrent DEF GiveUp, SetStatus

LEMMA StepTypes ==
    ASSUME PageTypes, NEW t \in tasks, NEW to \in {"working", "returned", "failed"},
           NEW r \in States \cup {NoList}
    PROVE  /\ [t EXCEPT !.step = to] \in TaskRecord
           /\ [t EXCEPT !.step = to, !.read = r] \in TaskRecord
BY PageTypesHold DEF TaskRecord

LEMMA PageTypesKept == ASSUME PageInv, [PageNext]_pageVars PROVE PageTypes'
<1>0. PageTypes BY DEF PageInv
<1> USE <1>0, PageTypesHold, PageNumbers
<1> DEFINE Works == [step : {"idle", "planning", "asking", "writing", "scanning"},
                     object : 0..MaxObjects]
<1>1. CASE UNCHANGED pageVars
  BY <1>1 DEF pageVars, PageTypes, PageTypeOK
<1>2. ASSUME NEW to \in Tabs, SwitchTab(to) PROVE PageTypes'
  <2>1. tab' \in Tabs /\ tab' = to /\ object' \in 1..MaxObjects
    BY <1>2 DEF SwitchTab, ShowTabPanel
  <2>2. missed' \in BOOLEAN BY <1>2 DEF SwitchTab
  <2>3. CASE Rebuild(tab', object')
    <3>1. tasks' \in SUBSET TaskRecord /\ is_loading' \in BOOLEAN /\ display' = Ring /\ status' = "idle"
      BY <2>1, <2>3, RebuildTasks DEF Alone, Rebuild, ShowLoading
    <3> QED BY <1>2, <2>1, <2>2, <3>1 DEF SwitchTab, PageTypes, PageTypeOK
  <2>4. CASE GiveUp
    <3>1. tasks' \in SUBSET TaskRecord BY <2>4, GiveUpTasks DEF Remains
    <3>2. /\ is_loading' \in BOOLEAN /\ display' = display
          /\ status' \in {"idle", "checking", "known"}
      BY <2>4, GiveUpTasks
    <3> QED BY <1>2, <2>1, <2>2, <3>1, <3>2 DEF SwitchTab, PageTypes, PageTypeOK
  <2> QED BY <1>2, <2>1, <2>3, <2>4 DEF SwitchTab
<1>3. CASE VersionSaved
  <2>1. tasks' \in SUBSET TaskRecord BY <1>3, GiveUpTasks DEF VersionSaved, Remains
  <2>2. is_loading' \in BOOLEAN /\ display' = display /\ status' \in {"idle", "checking", "known"}
    BY <1>3, GiveUpTasks DEF VersionSaved
  <2>3. missed' \in BOOLEAN /\ is_loaded' \in BOOLEAN BY <1>3 DEF VersionSaved
  <2>4. object' \in 1..MaxObjects BY <1>3 DEF VersionSaved
  <2> QED BY <1>3, <2>1, <2>2, <2>3, <2>4 DEF VersionSaved, PageTypes, PageTypeOK
<1>4. CASE BeforeHide
  <2>1. mutations' \in [queued : Nat, returned : Nat] BY <1>4 DEF BeforeHide, PageTypes
  <2>2. installation' \in Works BY <1>4 DEF BeforeHide, PageTypes
  <2>3. is_loading' \in BOOLEAN /\ closed' \in BOOLEAN BY <1>4 DEF BeforeHide
  <2> QED BY <1>4, <2>1, <2>2, <2>3 DEF BeforeHide, PageTypes, PageTypeOK
<1>5. CASE OnInstalledSearchChange
  <2>1. display' \in States
    BY <1>5 DEF OnInstalledSearchChange, Show, PageInv, ListIsKnown
  <2> QED BY <1>5, <2>1 DEF OnInstalledSearchChange, PageTypes, PageTypeOK
<1>6. CASE RequestCheck \/ AskUpdate
  <2>1. tab' \in Tabs /\ object' \in 1..MaxObjects /\ UNCHANGED <<tab, object>>
    BY <1>6 DEF RequestCheck, AskUpdate
  <2>2. \A key \in ListKeys : Task(key, tab, object) \in TaskRecord
    BY <2>1, BegunTask DEF NewTask
  <2>3. tasks' \in SUBSET TaskRecord
    BY <1>6, <2>2, OutdatedTasks DEF RequestCheck, AskUpdate, Remains, ListKeys
  <2> QED BY <1>6, <2>3 DEF RequestCheck, AskUpdate, SetStatus, PageTypes, PageTypeOK
<1>7. CASE AskMutation
  <2>1. mutations' \in [queued : Nat, returned : Nat] BY <1>7 DEF AskMutation, PageTypes
  <2>2. tasks' \in SUBSET TaskRecord
    BY <1>7, OutdatedTasks DEF AskMutation, CancelCheck, Remains, ListKeys
  <2> QED BY <1>7, <2>1, <2>2 DEF AskMutation, CancelCheck, SetStatus, PageTypes, PageTypeOK
<1>8. CASE Mutate \/ MutationFails
  <2>1. mutations' \in [queued : Nat, returned : Nat]
    BY <1>8 DEF Mutate, MutationFails, PageTypes
  <2>2. directory' \in States BY <1>8 DEF Mutate, MutationFails, States
  <2> QED BY <1>8, <2>1, <2>2 DEF Mutate, MutationFails, PageTypes, PageTypeOK
<1>9. CASE MutationReturns
  <2>1. mutations' \in [queued : Nat, returned : Nat] BY <1>9 DEF MutationReturns, PageTypes
  <2>2. tasks' \in SUBSET TaskRecord /\ is_loading' \in BOOLEAN /\ display' = Ring /\ status' = "idle"
    BY <1>9, RebuildTasks DEF MutationReturns, Alone, Rebuild, ShowLoading
  <2> QED BY <1>9, <2>1, <2>2 DEF MutationReturns, PageTypes, PageTypeOK
<1>10. CASE StartInstall \/ PlanMade \/ AnswerPlan \/ InstallationFails
  <2>1. installation' \in Works
    BY <1>10 DEF StartInstall, PlanMade, AnswerPlan, InstallationFails, PageTypes
  <2> QED BY <1>10, <2>1
      DEF StartInstall, PlanMade, AnswerPlan, InstallationFails, Unmoved, PageTypes, PageTypeOK
<1>11. CASE Installed
  <2>1. installation' \in Works BY <1>11 DEF Installed, PageTypes
  <2>2. directory' \in States BY <1>11 DEF Installed, States
  <2>3. missed' \in BOOLEAN /\ UNCHANGED <<tab, object>> BY <1>11 DEF Installed
  <2> DEFINE s == [Task("scan", tab, object) EXCEPT !.inner = TRUE]
  <2>4. s \in TaskRecord BY <2>3, BegunTask DEF NewTask, ListKeys
  <2>5. tasks' = tasks \/ tasks' = Outdated(tasks, ListKeys) \cup {s} BY <1>11 DEF Installed
  <2> HIDE DEF s
  <2>6. tasks' \in SUBSET TaskRecord BY <2>4, <2>5, AloneAfter DEF Alone
  <2> QED BY <1>11, <2>1, <2>2, <2>3, <2>6 DEF Installed, SetStatus, PageTypes, PageTypeOK
<1>12. ASSUME NEW t \in tasks, TaskStep(t) PROVE PageTypes'
  <2>1. CASE WorkerReads(t) \/ WorkerEnds(t) \/ WorkerFails(t)
    <3>1. \E u \in TaskRecord : tasks' = (tasks \ {t}) \cup {u}
      <4>1. CASE WorkerReads(t)
        BY <4>1, StepTypes DEF WorkerReads
      <4>2. CASE WorkerEnds(t) \/ WorkerFails(t)
        <5>1. \E to \in {"returned", "failed"} : tasks' = (tasks \ {t}) \cup {[t EXCEPT !.step = to]}
          BY <4>2 DEF WorkerEnds, WorkerFails, Step
        <5> QED BY <5>1, StepTypes
      <4> QED BY <2>1, <4>1, <4>2
    <3>2. tasks' \in SUBSET TaskRecord BY <3>1
    <3> QED BY <2>1, <3>2
        DEF WorkerReads, WorkerEnds, WorkerFails, Unmoved, PageTypes, PageTypeOK
  <2>2. CASE Drop(t)
    <3>1. installation' \in Works BY <2>2 DEF Drop, Ends, PageTypes
    <3> QED BY <2>2, <3>1 DEF Drop, Unmoved, PageTypes, PageTypeOK
  <2>3. CASE ScanApplied(t)
    <3>1. installation' \in Works BY <2>3 DEF ScanApplied, Ends, PageTypes
    <3>2. t.read \in States
      BY <2>3 DEF ScanApplied, IsCurrent, IsScan, PageInv, TasksAreKnown
    <3>3. UNCHANGED <<tab, object>> BY <2>3 DEF ScanApplied
    <3>4. [Task("check", tab, object) EXCEPT !.read = t.read] \in TaskRecord
      BY <3>2, <3>3, CheckOfScan
    <3>5. Outdated(tasks \ {t}, {"check"}) \in SUBSET TaskRecord
      BY OutdatedTasks DEF Remains, ListKeys
    <3>6. tasks' \in SUBSET TaskRecord BY <2>3, <3>4, <3>5 DEF ScanApplied, Apply
    <3>7. missed' \in BOOLEAN /\ is_loaded' \in BOOLEAN /\ is_loading' \in BOOLEAN
      BY <2>3 DEF ScanApplied, Apply
    <3>8. status' \in {"idle", "checking", "known"} /\ items' = t.read /\ display' = t.read
      BY <2>3 DEF ScanApplied, Apply, Show, SetStatus
    <3> QED BY <2>3, <3>1, <3>2, <3>6, <3>7, <3>8 DEF ScanApplied, PageTypes, PageTypeOK
  <2>4. CASE ScanFailed(t)
    <3>1. installation' \in Works BY <2>4 DEF ScanFailed, Ends, PageTypes
    <3>2. missed' \in BOOLEAN /\ is_loading' \in BOOLEAN BY <2>4 DEF ScanFailed
    <3> QED BY <2>4, <3>1, <3>2 DEF ScanFailed, Show, PageTypes, PageTypeOK
  <2>5. CASE CheckApplied(t)
    <3>1. t.read \in States
      BY <2>5 DEF CheckApplied, IsCurrent, IsCheck, PageInv, TasksAreKnown
    <3>2. is_loaded' \in BOOLEAN BY <2>5 DEF CheckApplied, Apply
    <3>3. status' = "known" /\ items' = t.read /\ display' = t.read /\ tasks' = tasks \ {t}
      BY <2>5 DEF CheckApplied, Apply, Show, SetStatus
    <3> QED BY <2>5, <3>1, <3>2, <3>3 DEF CheckApplied, PageTypes, PageTypeOK
  <2>6. CASE CheckFailed(t)
    BY <2>6 DEF CheckFailed, SetStatus, PageTypes, PageTypeOK
  <2>7. CASE ConfirmUpdate(t)
    <3>1. tasks' \in SUBSET TaskRecord
      BY <2>7, OutdatedTasks DEF ConfirmUpdate, CancelCheck, Remains, ListKeys
    <3>2. installation' \in Works BY <2>7 DEF ConfirmUpdate, PageTypes
    <3> QED BY <2>7, <3>1, <3>2 DEF ConfirmUpdate, CancelCheck, SetStatus, PageTypes, PageTypeOK
  <2> QED BY <1>12, <2>1, <2>2, <2>3, <2>4, <2>5, <2>6, <2>7 DEF TaskStep
<1> QED BY <1>1, <1>2, <1>3, <1>4, <1>5, <1>6, <1>7, <1>8, <1>9, <1>10, <1>11, <1>12 DEF PageNext

PageKnown == TasksAreKnown /\ ListIsKnown

LEMMA LiveTasks ==
    ASSUME TasksAreKnown, ~closed
    PROVE  /\ Live("scan") # {} <=> ~NoScan
           /\ Live("check") # {} <=> \E t \in tasks : IsCheck(t)
BY DEF Live, IsCurrent, TasksAreKnown, NoScan, IsScan, IsCheck

LEMMA RebuildKnown ==
    ASSUME PageTypes, PageTypes', PageKnown, tab' \in Tabs, object' \in 1..MaxObjects,
           Rebuild(tab', object'), UNCHANGED <<directory, items, is_loaded, installation>>
    PROVE  PageKnown'
<1>1. PICK s : NewTask(s, "scan") /\ ~s.inner /\ Alone(s, tasks, tasks') BY RebuildTasks
<1>2. is_loading' /\ display' = Ring /\ status' = "idle" BY RebuildTasks
<1>3. TasksAreKnown' BY <1>1, <1>2 DEF PageKnown, TasksAreKnown, NewTask, Alone, IsScan, IsCheck
<1>4. s \in tasks' /\ IsScan(s) BY <1>1 DEF Alone, NewTask, IsScan
<1>5. ListIsKnown' BY <1>2, <1>4, PageNumbers DEF PageKnown, ListIsKnown, NoScan, IsScan
<1> QED BY <1>3, <1>5 DEF PageKnown

LEMMA GiveUpKnown ==
    ASSUME PageTypes, PageTypes', PageKnown, GiveUp,
           UNCHANGED <<directory, items, installation>>,
           is_loaded' => is_loaded /\ (~missed' => ~missed /\ NoScan) /\ UNCHANGED mutations,
           tab' = Shown => is_loaded'
    PROVE  PageKnown'
<1>1. /\ Remains(tasks, tasks') /\ \A t \in tasks' : ~t.current
      /\ ~is_loading' /\ display' = display /\ status' \in {"idle", "known"}
  BY GiveUpTasks
<1>2. TasksAreKnown'
  BY <1>1 DEF PageKnown, TasksAreKnown, Remains, IsScan, IsCheck
<1>3. ListIsKnown'
  BY <1>1 DEF PageKnown, ListIsKnown, NoScan, IsScan
<1> QED BY <1>2, <1>3 DEF PageKnown

LEMMA SwitchKnown ==
    ASSUME PageInv, PageTypes', NEW to \in Tabs, SwitchTab(to)
    PROVE  PageKnown'
<1>1. PageTypes /\ PageKnown /\ ~closed BY DEF PageInv, SwitchTab, PageKnown
<1>2. UNCHANGED <<directory, items, is_loaded, object, mutations, installation>> /\ tab' = to
  BY DEF SwitchTab, ShowTabPanel
<1>3. object' \in 1..MaxObjects BY <1>1, <1>2, PageTypesHold
<1>4. CASE Rebuild(to, object)
  BY <1>1, <1>2, <1>3, <1>4, RebuildKnown
<1>5. CASE GiveUp /\ ~MustLoad(to)
  <2>1. is_loaded /\ ~missed' => ~missed /\ NoScan
    BY <1>1, LiveTasks DEF SwitchTab, PageKnown
  <2>2. tab' = Shown => is_loaded BY <1>2, <1>5 DEF MustLoad
  <2> QED BY <1>1, <1>2, <1>5, <2>1, <2>2, GiveUpKnown
<1> QED BY <1>4, <1>5 DEF SwitchTab

LEMMA SavedKnown ==
    ASSUME PageInv, PageTypes', VersionSaved
    PROVE  PageKnown'
<1>1. PageTypes /\ PageKnown /\ ~closed BY DEF PageInv, VersionSaved, PageKnown
<1>2. GiveUp /\ UNCHANGED <<directory, items, installation>> /\ ~is_loaded' /\ tab' # Shown
  BY DEF VersionSaved, Shown
<1> QED BY <1>1, <1>2, GiveUpKnown

LEMMA ReturnKnown ==
    ASSUME PageInv, PageTypes', MutationReturns
    PROVE  PageKnown'
<1>1. PageTypes /\ PageKnown BY DEF PageInv, MutationReturns, PageKnown
<1>2. UNCHANGED <<tab, object, directory, items, is_loaded, installation>> /\ Rebuild(tab, object)
  BY DEF MutationReturns
<1> QED BY <1>1, <1>2, PageTypesHold, RebuildKnown

\* The tasks stay, and the page is as settled as it was.
LEMMA SameTasksKnown ==
    ASSUME PageTypes, PageKnown, UNCHANGED <<tasks, tab, object, items, is_loaded, is_loading, status>>,
           display' = display \/ (is_loaded /\ display' = items),
           installation' = installation \/ (installation.step # "scanning"),
           directory' \in Nat, directory <= directory',
           missed => missed',
           \/ directory' = directory /\ mutations'.returned = mutations.returned
           \/ mutations'.returned # 0
           \/ missed'
           \/ ~is_loaded /\ NoScan
    PROVE  PageKnown'
<1>0. directory \in Nat /\ (items # NoList => items \in Nat)
  BY PageTypesHold, PageNumbers
<1>1. TasksAreKnown'
  <2>1. \A t \in tasks : t.inner => t.key = "scan" /\ installation'.step = "scanning"
    BY DEF PageKnown, TasksAreKnown
  <2>2. ASSUME NEW t \in tasks, IsScan(t), t.step = "returned"
        PROVE  /\ t.read \in States /\ t.read <= directory'
               /\ ~missed' /\ mutations'.returned = 0 => t.read = directory'
    <3>1. t.read \in States /\ t.read \in Nat /\ t.read <= directory /\ ~NoScan
      BY <2>2, PageNumbers DEF PageKnown, TasksAreKnown, NoScan
    <3>2. ~missed /\ mutations.returned = 0 => t.read = directory
      BY <2>2 DEF PageKnown, TasksAreKnown
    <3> QED BY <1>0, <3>1, <3>2
  <2>3. \A t \in tasks : IsCheck(t) => t.read = items /\ items \in States /\ (is_loaded \/ missed')
    BY DEF PageKnown, TasksAreKnown
  <2> QED BY <2>1, <2>2, <2>3 DEF PageKnown, TasksAreKnown, IsScan, IsCheck
<1>2. ListIsKnown'
  <2>1. /\ is_loading' => \E t \in tasks' : IsScan(t)
        /\ status' = "checking" => \E t \in tasks' : IsCheck(t)
        /\ is_loaded' => items' # NoList
        /\ NoScan' <=> NoScan
    BY DEF PageKnown, ListIsKnown, NoScan, IsScan, IsCheck
  <2>2. items' # NoList => items' <= directory'
    BY <1>0 DEF PageKnown, ListIsKnown
  <2>3. /\ is_loaded' /\ display' \in States => display' = items'
        /\ is_loaded' /\ display' = Ring /\ ~missed' => is_loading'
    BY PageTypesHold, PageNumbers DEF PageKnown, ListIsKnown
  <2>4. is_loaded' /\ ~missed' /\ mutations'.returned = 0 /\ NoScan' => items' = directory'
    BY <2>1, PageTypesHold DEF PageKnown, ListIsKnown
  <2>5. tab' = Shown /\ ~is_loaded' =>
           /\ display' \notin States
           /\ display' = Ring => is_loading'
           /\ items' # NoList /\ NoScan' => missed'
    BY <2>1, PageTypesHold DEF PageKnown, ListIsKnown
  <2> QED BY <2>1, <2>2, <2>3, <2>4, <2>5 DEF ListIsKnown, NoScan, IsScan, IsCheck
<1> QED BY <1>1, <1>2 DEF PageKnown

LEMMA QuietKnown ==
    ASSUME PageInv, PageTypes', ~closed,
           \/ OnInstalledSearchChange \/ Mutate \/ MutationFails
           \/ StartInstall \/ PlanMade \/ AnswerPlan \/ InstallationFails
           \/ Installed /\ installation.object # object
    PROVE  PageKnown'
<1>1. PageTypes /\ PageKnown BY DEF PageInv, PageKnown
<1>2. directory \in Nat /\ directory' \in Nat
  <2>1. directory' \in States
    BY DEF PageTypes, PageTypeOK
  <2> QED BY <1>1, <2>1, PageTypesHold, PageNumbers
<1>3. CASE OnInstalledSearchChange
  BY <1>1, <1>2, <1>3, SameTasksKnown DEF OnInstalledSearchChange, Show
<1>4. CASE Mutate
  <2>1. mutations'.returned = 1 /\ directory <= directory' /\ UNCHANGED installation
    BY <1>2, <1>4 DEF Mutate
  <2> QED BY <1>1, <1>2, <1>4, <2>1, SameTasksKnown DEF Mutate
<1>5. CASE MutationFails
  <2>1. mutations'.returned = mutations.returned BY <1>1, <1>5 DEF MutationFails, PageTypes
  <2> QED BY <1>1, <1>2, <1>5, <2>1, SameTasksKnown DEF MutationFails
<1>6. CASE StartInstall \/ PlanMade \/ AnswerPlan \/ InstallationFails
  <2>1. installation.step # "scanning"
    BY <1>6 DEF StartInstall, PlanMade, AnswerPlan, InstallationFails, Writing, NoInstallation
  <2>2. UNCHANGED tasks /\ Unmoved
    BY <1>6 DEF StartInstall, PlanMade, AnswerPlan, InstallationFails
  <2> QED BY <1>1, <1>2, <2>1, <2>2, SameTasksKnown DEF Unmoved
<1>7. CASE Installed /\ installation.object # object
  <2>1. installation.step # "scanning" BY <1>7 DEF Installed, Writing
  <2>2. missed' = (missed \/ is_loaded \/ Live("scan") # {}) /\ UNCHANGED <<tasks, status>>
    BY <1>7 DEF Installed
  <2>3. missed' \/ (~is_loaded /\ NoScan) BY <1>1, <2>2, LiveTasks DEF PageKnown
  <2>4. missed => missed' BY <2>2
  <2>5. directory <= directory' BY <1>2, <1>7 DEF Installed
  <2>6. UNCHANGED <<tasks, tab, object, items, is_loaded, is_loading, status, display>>
    BY <1>7, <2>2 DEF Installed
  <2> QED BY <1>1, <1>2, <2>1, <2>3, <2>4, <2>5, <2>6, SameTasksKnown
<1> QED BY <1>3, <1>4, <1>5, <1>6, <1>7

LEMMA InstalledKnown ==
    ASSUME PageInv, PageTypes', ~closed, Installed, installation.object = object
    PROVE  PageKnown'
<1> DEFINE s == [Task("scan", tab, object) EXCEPT !.inner = TRUE]
<1>1. PageTypes /\ PageKnown BY DEF PageInv, PageKnown
<1>2. tasks' = Outdated(tasks, ListKeys) \cup {s} BY DEF Installed
<1>3. UNCHANGED <<items, display, is_loaded, is_loading, tab, object, mutations, missed>>
      /\ status' = "idle" /\ installation.step = "writing"
  BY DEF Installed, SetStatus, Writing
<1>4. tab' \in Tabs /\ object' \in 1..MaxObjects BY <1>1, <1>3, PageTypesHold
<1>5. NewTask(s, "scan") /\ s.inner
  BY <1>1, <1>3, <1>4, BegunTask, PageTypesHold DEF ListKeys
<1> HIDE DEF s
<1>6. Alone(s, tasks, tasks') BY <1>1, <1>2, <1>5, AloneAfter DEF NewTask
<1>7. \A t \in tasks : ~t.inner BY <1>1, <1>3 DEF PageKnown, TasksAreKnown
<1>8. installation'.step = "scanning" BY <1>1 DEF Installed, PageTypes
<1>9. directory' \in Nat /\ directory \in Nat /\ directory <= directory'
      /\ (items # NoList => items \in Nat)
  <2>1. directory \in Nat /\ (items # NoList => items \in Nat)
    BY <1>1, PageTypesHold, PageNumbers
  <2> QED BY <2>1 DEF Installed
<1>10. TasksAreKnown'
  BY <1>3, <1>5, <1>6, <1>7, <1>8 DEF TasksAreKnown, NewTask, Alone, IsScan, IsCheck
<1>11. s \in tasks' /\ IsScan(s) BY <1>5, <1>6 DEF Alone, NewTask, IsScan
<1>12. ~NoScan' BY <1>11 DEF NoScan, IsScan
<1>13. items' # NoList => items' <= directory'
  BY <1>1, <1>3, <1>9 DEF PageKnown, ListIsKnown
<1>14. ListIsKnown'
  BY <1>1, <1>3, <1>11, <1>12, <1>13 DEF PageKnown, ListIsKnown, IsScan
<1> QED BY <1>10, <1>14 DEF PageKnown

\* Only checks and confirmations are outdated, or begun.
LEMMA ChecksKnown ==
    ASSUME PageTypes, PageTypes', PageKnown,
           UNCHANGED <<directory, items, display, is_loaded, is_loading, tab, object, missed>>,
           mutations'.returned = mutations.returned,
           NEW keys \in SUBSET {"check", "confirm"}, NEW more \in SUBSET TaskRecord,
           tasks' = Outdated(tasks, keys) \cup more,
           \A t \in more : ~t.inner /\ t.key # "scan" /\ t.current /\ t.tab = tab /\ t.object = object,
           \A t, u \in more : t = u,
           \A t \in more : IsCheck(t) => /\ t.read = items /\ items \in States /\ (is_loaded \/ missed)
                                         /\ "check" \in keys /\ NoScan,
           installation' = installation \/ installation.step # "scanning",
           status' = "checking" =>
              (\E t \in more : IsCheck(t)) \/ (status = "checking" /\ "check" \notin keys)
    PROVE  PageKnown'
<1>1. /\ Remains(tasks, Outdated(tasks, keys))
      /\ \A t \in Outdated(tasks, keys) : t.current => t.key \notin keys
      /\ \A t \in tasks : t.current /\ t.key \notin keys => t \in Outdated(tasks, keys)
  BY OutdatedTasks, PageTypesHold DEF ListKeys
<1>2. \A t \in tasks' : IsScan(t) <=> t \in tasks /\ IsScan(t)
  BY <1>1 DEF Remains, IsScan
<1>3. \A t \in tasks : IsScan(t) => t \in tasks' BY <1>1 DEF IsScan
<1>4. NoScan' <=> NoScan BY <1>2, <1>3 DEF NoScan, IsScan
<1>5. \A t \in tasks' : IsCheck(t) =>
         t \in more \/ (t \in tasks /\ IsCheck(t) /\ "check" \notin keys)
  BY <1>1 DEF Remains, IsCheck
<1>6. \A t, u \in tasks' : (IsScan(t) \/ IsCheck(t)) /\ (IsScan(u) \/ IsCheck(u)) => t = u
  <2> SUFFICES ASSUME NEW t \in tasks', NEW u \in tasks',
                      IsScan(t) \/ IsCheck(t), IsScan(u) \/ IsCheck(u)
               PROVE  t = u
    OBVIOUS
  <2>1. (t \in more /\ IsCheck(t)) \/ t \in tasks BY <1>2, <1>5
  <2>2. (u \in more /\ IsCheck(u)) \/ u \in tasks BY <1>2, <1>5
  <2>3. ASSUME t \in more, IsCheck(t), u \notin more PROVE FALSE
    BY <1>2, <1>5, <2>3 DEF NoScan
  <2>4. ASSUME u \in more, IsCheck(u), t \notin more PROVE FALSE
    BY <1>2, <1>5, <2>4 DEF NoScan
  <2> QED BY <2>1, <2>2, <2>3, <2>4 DEF PageKnown, TasksAreKnown
<1>7. /\ \A t, u \in tasks' : t.inner /\ u.inner => t = u
      /\ \A t \in tasks' : t.inner => t.key = "scan" /\ installation'.step = "scanning"
  BY <1>1 DEF Remains, PageKnown, TasksAreKnown
<1>8. \A t \in tasks' : t.current => t.tab = tab' /\ t.object = object'
  BY <1>1 DEF Remains, PageKnown, TasksAreKnown
<1>9. TasksAreKnown'
  BY <1>2, <1>5, <1>6, <1>7, <1>8 DEF PageKnown, TasksAreKnown, IsScan, IsCheck
<1>10. is_loading' => \E t \in tasks' : IsScan(t) BY <1>3 DEF PageKnown, ListIsKnown
<1>11. status' = "checking" => \E t \in tasks' : IsCheck(t)
  BY <1>1 DEF PageKnown, ListIsKnown, IsCheck
<1>12. ListIsKnown'
  BY <1>4, <1>10, <1>11 DEF PageKnown, ListIsKnown, IsScan, IsCheck
<1> QED BY <1>9, <1>12 DEF PageKnown

LEMMA AskedKnown ==
    ASSUME PageInv, PageTypes', ~closed,
           RequestCheck \/ AskUpdate \/ AskMutation \/ \E t \in tasks : ConfirmUpdate(t)
    PROVE  PageKnown'
<1>1. PageTypes /\ PageKnown BY DEF PageInv, PageKnown
<1>2. CASE RequestCheck
  <2> DEFINE c == Task("check", tab, object)
  <2>1. UNCHANGED <<directory, items, display, is_loaded, is_loading, tab, object, mutations,
                    installation, missed>>
        /\ ~is_loading /\ installation = NoInstallation /\ tab = Shown /\ items # NoList
        /\ tasks' = Outdated(tasks, {"check"}) \cup {c} /\ status' = "checking"
    BY <1>2 DEF RequestCheck, SetStatus
  <2>2. NewTask(c, "check") /\ ~c.inner
    BY <1>1, <2>1, BegunTask, PageTypesHold DEF ListKeys
  <2> HIDE DEF c
  <2>3. NoScan
    BY <1>1, <2>1 DEF PageKnown, TasksAreKnown, NoScan, NoInstallation
  <2>4. is_loaded \/ missed BY <1>1, <2>1, <2>3 DEF PageKnown, ListIsKnown
  <2>5. items \in States BY <1>1, <2>1, PageTypesHold
  <2>6. /\ {c} \in SUBSET TaskRecord /\ \A t \in {c} : IsCheck(t)
        /\ \A t \in {c} : ~t.inner /\ t.key # "scan" /\ t.current /\ t.tab = tab /\ t.object = object
        /\ \A t \in {c} : t.read = items
    BY <2>1, <2>2 DEF NewTask, IsCheck
  <2> QED BY <1>1, <2>1, <2>3, <2>4, <2>5, <2>6, ChecksKnown
<1>3. CASE AskUpdate
  <2> DEFINE c == Task("confirm", tab, object)
  <2>1. UNCHANGED <<directory, items, display, is_loaded, is_loading, status, tab, object, mutations,
                    installation, missed>>
        /\ tasks' = Outdated(tasks, {"confirm"}) \cup {c}
    BY <1>3 DEF AskUpdate
  <2>2. NewTask(c, "confirm") /\ ~c.inner
    BY <1>1, <2>1, BegunTask, PageTypesHold DEF ListKeys
  <2> HIDE DEF c
  <2>3. /\ {c} \in SUBSET TaskRecord /\ \A t \in {c} : ~IsCheck(t)
        /\ \A t \in {c} : ~t.inner /\ t.key # "scan" /\ t.current /\ t.tab = tab /\ t.object = object
    BY <2>1, <2>2 DEF NewTask, IsCheck
  <2> QED BY <1>1, <2>1, <2>3, ChecksKnown
<1>4. CASE AskMutation \/ \E t \in tasks : ConfirmUpdate(t)
  <2>1. UNCHANGED <<directory, items, display, is_loaded, is_loading, tab, object, missed>>
        /\ tasks' = Outdated(tasks, {"check", "confirm"}) /\ status' = "idle"
    BY <1>4 DEF AskMutation, ConfirmUpdate, CancelCheck, SetStatus
  <2>2. mutations'.returned = mutations.returned
    BY <1>1, <1>4 DEF AskMutation, ConfirmUpdate, PageTypes
  <2>3. installation' = installation \/ installation.step # "scanning"
    BY <1>4 DEF AskMutation, ConfirmUpdate, NoInstallation
  <2> DEFINE keys == {"check", "confirm"}
             none == {}
  <2>4. tasks' = Outdated(tasks, keys) \cup none BY <2>1
  <2>5. keys \in SUBSET {"check", "confirm"} /\ none \in SUBSET TaskRecord OBVIOUS
  <2>6. \A t : t \notin none OBVIOUS
  <2>7. status' # "checking" BY <2>1
  <2> HIDE DEF keys, none
  <2> QED BY <1>1, <2>1, <2>2, <2>3, <2>4, <2>5, <2>6, <2>7, ChecksKnown
<1> QED BY <1>2, <1>3, <1>4

\* A worker is done, and its task is what it was but for the answer.
LEMMA WorkerKnown ==
    ASSUME PageInv, PageTypes', ~closed, NEW t \in tasks,
           WorkerReads(t) \/ WorkerEnds(t) \/ WorkerFails(t)
    PROVE  PageKnown'
<1>1. PageTypes /\ PageKnown BY DEF PageInv, PageKnown
<1>2. UNCHANGED installation /\ Unmoved
  BY DEF WorkerReads, WorkerEnds, WorkerFails
<1>3. UNCHANGED <<directory, items, display, is_loaded, is_loading, status, tab, object,
                  mutations, installation, missed>>
  BY <1>2 DEF Unmoved
<1>4. t \in TaskRecord BY <1>1, PageTypesHold
<1>5. directory \in States /\ directory <= directory /\ (items # NoList => items <= directory)
  <2>1. directory \in States BY <1>1, PageTypesHold
  <2>2. directory \in Nat BY <2>1, PageNumbers
  <2> QED BY <1>1, <2>1, <2>2 DEF PageKnown, ListIsKnown
<1>6. \E u : /\ tasks' = (tasks \ {t}) \cup {u}
             /\ u.key = t.key /\ u.current = t.current /\ u.tab = t.tab /\ u.object = t.object
             /\ u.inner = t.inner
             /\ u.step = "returned" /\ u.key = "scan" => u.read = directory
             /\ u.key = "check" => u.read = t.read
  <2>1. CASE WorkerReads(t)
    <3> DEFINE u == [t EXCEPT !.step = "returned", !.read = directory]
    <3>1. tasks' = (tasks \ {t}) \cup {u} /\ t.key = "scan" BY <2>1 DEF WorkerReads
    <3>2. /\ u.key = t.key /\ u.current = t.current /\ u.tab = t.tab /\ u.object = t.object
          /\ u.inner = t.inner /\ u.read = directory
      BY <1>4 DEF TaskRecord
    <3> QED BY <3>1, <3>2
  <2>2. CASE WorkerEnds(t) \/ WorkerFails(t)
    <3>1. PICK to \in {"returned", "failed"} :
             /\ tasks' = (tasks \ {t}) \cup {[t EXCEPT !.step = to]}
             /\ to = "returned" => t.key = "check"
      BY <2>2 DEF WorkerEnds, WorkerFails, Step
    <3> DEFINE u == [t EXCEPT !.step = to]
    <3>2. /\ u.key = t.key /\ u.current = t.current /\ u.tab = t.tab /\ u.object = t.object
          /\ u.inner = t.inner /\ u.read = t.read /\ u.step = to
      BY <1>4 DEF TaskRecord
    <3> QED BY <3>1, <3>2
  <2> QED BY <2>1, <2>2
<1>7. PICK u : /\ tasks' = (tasks \ {t}) \cup {u}
               /\ u.key = t.key /\ u.current = t.current /\ u.tab = t.tab /\ u.object = t.object
               /\ u.inner = t.inner
               /\ u.step = "returned" /\ u.key = "scan" => u.read = directory
               /\ u.key = "check" => u.read = t.read
  BY <1>6
<1>8. (IsScan(u) <=> IsScan(t)) /\ (IsCheck(u) <=> IsCheck(t)) BY <1>7 DEF IsScan, IsCheck
<1>9. \A v, w \in tasks' : (IsScan(v) \/ IsCheck(v)) /\ (IsScan(w) \/ IsCheck(w)) => v = w
  BY <1>1, <1>7, <1>8 DEF PageKnown, TasksAreKnown
<1>10. \A v, w \in tasks' : v.inner /\ w.inner => v = w
  BY <1>1, <1>7 DEF PageKnown, TasksAreKnown
<1>11. TasksAreKnown'
  BY <1>1, <1>3, <1>5, <1>7, <1>8, <1>9, <1>10 DEF PageKnown, TasksAreKnown, IsScan, IsCheck
<1>12. NoScan' <=> NoScan BY <1>7, <1>8 DEF NoScan, IsScan
<1>13. /\ (\E v \in tasks : IsScan(v)) => \E v \in tasks' : IsScan(v)
       /\ (\E v \in tasks : IsCheck(v)) => \E v \in tasks' : IsCheck(v)
  BY <1>7, <1>8
<1>14. ListIsKnown'
  BY <1>1, <1>3, <1>12, <1>13 DEF PageKnown, ListIsKnown, IsScan, IsCheck
<1> QED BY <1>11, <1>14 DEF PageKnown

LEMMA DropKnown ==
    ASSUME PageInv, PageTypes', ~closed, NEW t \in tasks, Drop(t)
    PROVE  PageKnown'
<1>1. PageTypes /\ PageKnown BY DEF PageInv, PageKnown
<1>2. UNCHANGED <<directory, items, display, is_loaded, is_loading, status, tab, object,
                  mutations, missed>> /\ tasks' = tasks \ {t}
  BY DEF Drop, Unmoved
<1>3. ~t.current BY <1>1 DEF Drop, IsCurrent, PageKnown, TasksAreKnown
<1>4. \A u \in tasks' : u.inner => u.key = "scan" /\ installation'.step = "scanning"
  BY <1>1, <1>2 DEF Drop, Ends, PageKnown, TasksAreKnown
<1>5. TasksAreKnown'
  BY <1>1, <1>2, <1>4 DEF PageKnown, TasksAreKnown, IsScan, IsCheck
<1>6. NoScan' <=> NoScan BY <1>2, <1>3 DEF NoScan, IsScan
<1>7. /\ (\E v \in tasks : IsScan(v)) => \E v \in tasks' : IsScan(v)
      /\ (\E v \in tasks : IsCheck(v)) => \E v \in tasks' : IsCheck(v)
  BY <1>2, <1>3 DEF IsScan, IsCheck
<1>8. ListIsKnown'
  BY <1>1, <1>2, <1>6, <1>7 DEF PageKnown, ListIsKnown, IsScan, IsCheck
<1> QED BY <1>5, <1>8 DEF PageKnown

LEMMA ScanAppliedKnown ==
    ASSUME PageInv, PageTypes', ~closed, NEW t \in tasks, ScanApplied(t)
    PROVE  PageKnown' /\ (items = NoList \/ items' >= items)
<1>1. PageTypes /\ PageKnown BY DEF PageInv, PageKnown
<1>2. IsScan(t) /\ t.step = "returned" /\ t.key = "scan" BY DEF ScanApplied, IsCurrent, IsScan
<1>3. /\ t.read \in States /\ t.read <= directory
      /\ items # NoList => items <= t.read
      /\ ~missed /\ mutations.returned = 0 => t.read = directory
  BY <1>1, <1>2 DEF PageKnown, TasksAreKnown
<1>4. t.read \in Nat /\ (items # NoList => items \in Nat) /\ t.read # NoList /\ t.read # Ring
  BY <1>1, <1>3, PageTypesHold, PageNumbers
<1>5. /\ ~is_loading' /\ is_loaded' /\ items' = t.read /\ display' = t.read
      /\ missed' = (missed /\ t.read # directory)
      /\ UNCHANGED <<directory, tab, object, mutations, closed>>
  BY DEF ScanApplied, Apply, Show
<1>6. \A u \in tasks : IsScan(u) \/ IsCheck(u) => u = t
  BY <1>1, <1>2 DEF PageKnown, TasksAreKnown
<1>7. ~IsCheck(t) BY <1>2 DEF IsCheck
<1>8. installation' = IF t.inner THEN NoInstallation ELSE installation BY DEF ScanApplied, Ends
<1>9. \A u \in tasks \ {t} : u.inner => u.key = "scan" /\ installation'.step = "scanning"
  BY <1>1, <1>8 DEF PageKnown, TasksAreKnown
<1>10. \E more \in SUBSET TaskRecord, keys \in SUBSET {"check"} :
          /\ (tasks' = tasks \ {t} /\ more = {}) \/ tasks' = Outdated(tasks \ {t}, keys) \cup more
          /\ status' = "checking" => \E c \in more : IsCheck(c)
          /\ \A c, d \in more : c = d
          /\ \A c \in more : /\ c.key = "check" /\ c.current /\ c.read = t.read /\ ~c.inner
                             /\ c.tab = tab /\ c.object = object
  <2>1. CASE Apply(t, tasks \ {t}) /\ UNCHANGED status
    <3>1. tasks' = tasks \ {t} BY <2>1 DEF Apply
    <3>2. status' # "checking" BY <1>1, <1>6, <1>7, <2>1 DEF PageKnown, ListIsKnown
    <3> DEFINE none == {}
    <3>3. none \in SUBSET TaskRecord /\ none \in SUBSET {"check"} /\ none = {} /\ \A c : c \notin none
      OBVIOUS
    <3> HIDE DEF none
    <3> QED BY <3>1, <3>2, <3>3
  <2>2. CASE ~(Apply(t, tasks \ {t}) /\ UNCHANGED status)
    <3> DEFINE c == [Task("check", tab, object) EXCEPT !.read = t.read]
               keys == {"check"}
               more == {c}
    <3>1. tasks' = Outdated(tasks \ {t}, keys) \cup more BY <2>2 DEF ScanApplied
    <3>2. c \in TaskRecord /\ c.key = "check" /\ c.current /\ c.read = t.read /\ ~c.inner
          /\ c.tab = tab /\ c.object = object
      BY <1>1, <1>3, <1>5, CheckOfScan, PageTypesHold
    <3> HIDE DEF c
    <3>3. IsCheck(c) BY <3>2 DEF IsCheck
    <3>4. more \in SUBSET TaskRecord /\ keys \in SUBSET {"check"} BY <3>2
    <3>5. \A d \in more : d = c OBVIOUS
    <3>6. c \in more OBVIOUS
    <3> HIDE DEF more, keys
    <3> QED BY <3>1, <3>2, <3>3, <3>4, <3>5, <3>6
  <2> QED BY <2>1, <2>2
<1>11. PICK more \in SUBSET TaskRecord, keys \in SUBSET {"check"} :
          /\ (tasks' = tasks \ {t} /\ more = {}) \/ tasks' = Outdated(tasks \ {t}, keys) \cup more
          /\ status' = "checking" => \E c \in more : IsCheck(c)
          /\ \A c, d \in more : c = d
          /\ \A c \in more : /\ c.key = "check" /\ c.current /\ c.read = t.read /\ ~c.inner
                             /\ c.tab = tab /\ c.object = object
  BY <1>10
<1>12. /\ more \subseteq tasks'
       /\ \A u \in tasks' : u.current => u \in tasks \ {t} \/ u \in more
       /\ \A u \in tasks' : u.inner => \E v \in tasks \ {t} : v.inner /\ v.key = u.key
       /\ \A u, v \in tasks' : u.inner /\ v.inner => u = v
  <2>1. tasks \ {t} \in SUBSET TaskRecord BY <1>1, PageTypesHold
  <2>2. keys \in SUBSET ListKeys BY DEF ListKeys
  <2>3. Remains(tasks \ {t}, Outdated(tasks \ {t}, keys)) BY <2>1, <2>2, OutdatedTasks
  <2>4. \A u, v \in tasks \ {t} : u.inner /\ v.inner => u = v
    BY <1>1 DEF PageKnown, TasksAreKnown
  <2>5. CASE tasks' = tasks \ {t} /\ more = {} BY <2>4, <2>5
  <2>6. CASE tasks' = Outdated(tasks \ {t}, keys) \cup more BY <1>11, <2>3, <2>4, <2>6 DEF Remains
  <2> QED BY <1>11, <2>5, <2>6
<1>13. \A u \in tasks' : IsScan(u) \/ IsCheck(u) => u \in more
  BY <1>6, <1>12 DEF IsScan, IsCheck
<1>14. \A u \in tasks' : ~IsScan(u) BY <1>11, <1>13 DEF IsScan
<1>15. \A u \in tasks' : IsCheck(u) => u.read = items' /\ items' \in States
  BY <1>3, <1>5, <1>11, <1>13
<1>16. \A u \in tasks' : u.current => u.tab = tab' /\ u.object = object'
  BY <1>1, <1>5, <1>11, <1>12 DEF PageKnown, TasksAreKnown
<1>17. \A u \in tasks' : u.inner => u.key = "scan" /\ installation'.step = "scanning"
  BY <1>9, <1>12
<1>18. TasksAreKnown'
  BY <1>5, <1>11, <1>12, <1>13, <1>14, <1>15, <1>16, <1>17 DEF TasksAreKnown, IsScan, IsCheck
<1>19. status' = "checking" => \E c \in tasks' : IsCheck(c) BY <1>11, <1>12
<1>20. ListIsKnown'
  BY <1>3, <1>4, <1>5, <1>19 DEF ListIsKnown, IsCheck, IsScan
<1> QED BY <1>3, <1>4, <1>5, <1>18, <1>20 DEF PageKnown

\* Tasks that no longer matter are gone.
LEMMA EndedKnown ==
    ASSUME PageInv, PageTypes', ~closed, NEW t \in tasks,
           ScanFailed(t) \/ CheckApplied(t) \/ CheckFailed(t)
    PROVE  PageKnown' /\ items' = items
<1>1. PageTypes /\ PageKnown BY DEF PageInv, PageKnown
<1>2. tasks' = tasks \ {t} /\ UNCHANGED <<directory, tab, object, mutations>>
  BY DEF ScanFailed, CheckApplied, CheckFailed, Apply
<1>3. \A u \in tasks : u # t => ~IsScan(u) /\ ~IsCheck(u)
  BY <1>1 DEF ScanFailed, CheckApplied, CheckFailed, IsCurrent, IsScan, IsCheck, PageKnown,
              TasksAreKnown
<1>4. \A u \in tasks' : u.inner => u.key = "scan" /\ installation'.step = "scanning"
  BY <1>1, <1>2 DEF ScanFailed, CheckApplied, CheckFailed, Ends, PageKnown, TasksAreKnown
<1>5. TasksAreKnown'
  BY <1>1, <1>2, <1>3, <1>4 DEF PageKnown, TasksAreKnown, IsScan, IsCheck
<1>6. NoScan' BY <1>2, <1>3 DEF NoScan, IsScan
<1>7. CASE ScanFailed(t)
  <2>1. /\ ~is_loading' /\ display' = Error /\ missed' = (missed \/ items # NoList)
        /\ UNCHANGED <<items, is_loaded, status>>
    BY <1>7 DEF ScanFailed, Show
  <2>2. status # "checking"
    BY <1>1, <1>3, <1>7 DEF ScanFailed, IsCheck, PageKnown, ListIsKnown
  <2>3. Error \notin States /\ Error # Ring BY PageNumbers
  <2>4. ListIsKnown'
    BY <1>1, <1>2, <1>6, <2>1, <2>2, <2>3 DEF PageKnown, ListIsKnown
  <2> QED BY <1>5, <2>1, <2>4 DEF PageKnown
<1>8. CASE CheckApplied(t)
  <2>1. IsCheck(t) /\ ~IsScan(t) BY <1>8 DEF CheckApplied, IsCurrent, IsCheck, IsScan
  <2>2. t.read = items /\ items \in States /\ (is_loaded \/ missed) /\ NoScan
    BY <1>1, <1>3, <2>1 DEF PageKnown, TasksAreKnown, NoScan
  <2>3. /\ items' = items /\ display' = items /\ is_loaded' /\ status' = "known"
        /\ UNCHANGED <<is_loading, missed>>
    BY <1>8, <2>2 DEF CheckApplied, Apply, Show, SetStatus
  <2>4. items # NoList /\ items # Ring BY <2>2, PageNumbers
  <2>5. ~is_loading BY <1>1, <2>2 DEF PageKnown, ListIsKnown, NoScan
  <2>6. ListIsKnown'
    BY <1>1, <1>2, <1>6, <2>2, <2>3, <2>4, <2>5 DEF PageKnown, ListIsKnown
  <2> QED BY <1>5, <2>3, <2>6 DEF PageKnown
<1>9. CASE CheckFailed(t)
  <2>1. ~IsScan(t) BY <1>9 DEF CheckFailed, IsScan
  <2>2. NoScan BY <1>3, <2>1 DEF NoScan
  <2>3. ~is_loading BY <1>1, <2>2 DEF PageKnown, ListIsKnown, NoScan
  <2>4. UNCHANGED <<items, display, is_loaded, is_loading, missed>> /\ status' = "idle"
    BY <1>9 DEF CheckFailed, SetStatus
  <2>5. ListIsKnown'
    BY <1>1, <1>2, <1>6, <2>2, <2>3, <2>4 DEF PageKnown, ListIsKnown
  <2> QED BY <1>5, <2>4, <2>5 DEF PageKnown
<1> QED BY <1>7, <1>8, <1>9

LEMMA PageInitially == PageInit => PageInv
<1> SUFFICES ASSUME PageInit PROVE PageInv OBVIOUS
<1> DEFINE yes == TRUE no == FALSE
           s == [key |-> "scan", current |-> yes, tab |-> Shown, object |-> 1, step |-> "working",
                 read |-> NoList, inner |-> no]
<1>1. /\ directory = 0 /\ items = NoList /\ display = Ring /\ ~is_loaded /\ is_loading
      /\ status = "idle" /\ tab = Shown /\ object = 1 /\ tasks = {s}
      /\ mutations = [queued |-> 0, returned |-> 0] /\ installation = NoInstallation
      /\ ~closed /\ ~missed
  BY DEF PageInit
<1>2. /\ yes \in BOOLEAN /\ no \in BOOLEAN /\ yes /\ ~no
      /\ is_loaded \in BOOLEAN /\ is_loading \in BOOLEAN /\ closed \in BOOLEAN /\ missed \in BOOLEAN
  BY DEF PageInit
<1> HIDE DEF yes, no
<1>3. Shown \in Tabs BY DEF Shown, Tabs
<1>4. 1 \in 1..MaxObjects /\ 0 \in 0..MaxObjects BY PageNumbers
<1>5. s \in TaskRecord /\ s.key = "scan" /\ s.current /\ ~s.inner /\ s.step = "working"
      /\ s.tab = Shown /\ s.object = 1
  BY <1>2, <1>3, <1>4 DEF TaskRecord, ListKeys
<1> HIDE DEF s
<1>6. PageTypes
  BY <1>1, <1>2, <1>3, <1>4, <1>5, PageNumbers DEF PageTypes, PageTypeOK, NoInstallation
<1>7. TasksAreKnown BY <1>1, <1>5 DEF TasksAreKnown, IsScan, IsCheck
<1>8. ListIsKnown BY <1>1, <1>5, PageNumbers DEF ListIsKnown, NoScan, IsScan
<1> QED BY <1>6, <1>7, <1>8 DEF PageInv

LEMMA PageStep ==
    ASSUME PageInv, [PageNext]_pageVars
    PROVE  /\ PageInv'
           /\ items' # items => items = NoList \/ items' >= items
           /\ closed => UNCHANGED <<items, display, status>>
<1>1. PageTypes' BY PageTypesKept
<1>2. CASE UNCHANGED pageVars
  BY <1>1, <1>2
  DEF pageVars, PageInv, TasksAreKnown, ListIsKnown, NoScan, IsScan, IsCheck
<1>3. CASE closed /\ PageNext
  <2>1. closed' = closed /\ UNCHANGED <<items, display, status>>
    <3>1. CASE Mutate \/ MutationFails \/ PlanMade \/ AnswerPlan \/ Installed \/ InstallationFails
      BY <1>3, <3>1 DEF Mutate, MutationFails, PlanMade, AnswerPlan, Installed,
                        InstallationFails, Unmoved
    <3>2. ASSUME NEW t \in tasks, TaskStep(t)
          PROVE  closed' = closed /\ UNCHANGED <<items, display, status>>
      BY <1>3, <3>2 DEF TaskStep, WorkerReads, WorkerEnds, WorkerFails, Drop, ScanApplied,
                        ScanFailed, CheckApplied, CheckFailed, ConfirmUpdate, IsCurrent, Unmoved
    <3> QED BY <1>3, <3>1, <3>2
        DEF PageNext, SwitchTab, VersionSaved, BeforeHide, OnInstalledSearchChange, RequestCheck,
            AskMutation, MutationReturns, AskUpdate, StartInstall
  <2> QED BY <1>1, <1>3, <2>1 DEF PageInv
<1>4. CASE ~closed /\ BeforeHide
  BY <1>1, <1>4 DEF BeforeHide, PageInv
<1>5. ASSUME ~closed, PageNext, ~BeforeHide
      PROVE  PageKnown' /\ (items' # items => items = NoList \/ items' >= items)
  <2>1. ASSUME NEW to \in Tabs, SwitchTab(to) PROVE PageKnown' /\ items' = items
    BY <1>1, <2>1, SwitchKnown DEF SwitchTab
  <2>2. CASE VersionSaved \/ MutationReturns
    BY <1>1, <2>2, SavedKnown, ReturnKnown DEF VersionSaved, MutationReturns
  <2>3. CASE \/ OnInstalledSearchChange \/ Mutate \/ MutationFails
             \/ StartInstall \/ PlanMade \/ AnswerPlan \/ InstallationFails
             \/ Installed /\ installation.object # object
    <3>1. PageKnown' BY <1>1, <1>5, <2>3, QuietKnown
    <3>2. items' = items
      BY <2>3 DEF OnInstalledSearchChange, Mutate, MutationFails, StartInstall, PlanMade, AnswerPlan,
                  InstallationFails, Installed, Unmoved
    <3> QED BY <3>1, <3>2
  <2>4. CASE Installed /\ installation.object = object
    BY <1>1, <1>5, <2>4, InstalledKnown DEF Installed
  <2>5. CASE RequestCheck \/ AskUpdate \/ AskMutation \/ \E t \in tasks : ConfirmUpdate(t)
    <3>1. PageKnown' BY <1>1, <1>5, <2>5, AskedKnown
    <3>2. items' = items BY <2>5 DEF RequestCheck, AskUpdate, AskMutation, ConfirmUpdate
    <3> QED BY <3>1, <3>2
  <2>6. ASSUME NEW t \in tasks, TaskStep(t), ~ConfirmUpdate(t)
        PROVE  PageKnown' /\ (items' # items => items = NoList \/ items' >= items)
    <3>1. CASE WorkerReads(t) \/ WorkerEnds(t) \/ WorkerFails(t)
      <4>1. PageKnown' BY <1>1, <1>5, <3>1, WorkerKnown
      <4> QED BY <3>1, <4>1 DEF WorkerReads, WorkerEnds, WorkerFails, Unmoved
    <3>2. CASE Drop(t)
      BY <1>1, <1>5, <3>2, DropKnown DEF Drop, Unmoved
    <3>3. CASE ScanApplied(t) BY <1>1, <1>5, <3>3, ScanAppliedKnown
    <3>4. CASE ScanFailed(t) \/ CheckApplied(t) \/ CheckFailed(t)
      BY <1>1, <1>5, <3>4, EndedKnown
    <3> QED BY <2>6, <3>1, <3>2, <3>3, <3>4 DEF TaskStep
  <2> QED BY <1>5, <2>1, <2>2, <2>3, <2>4, <2>5, <2>6 DEF PageNext
<1>6. CASE ~closed /\ PageNext /\ ~BeforeHide
  BY <1>1, <1>5, <1>6 DEF PageInv, PageKnown
<1> QED BY <1>2, <1>3, <1>4, <1>6

LEMMA ListStaysTrue == PageInv => ListIsTrue
<1> SUFFICES ASSUME PageInv, ~closed PROVE ListIsTrue BY DEF ListIsTrue
<1>1. PageTypes /\ TasksAreKnown /\ ListIsKnown BY DEF PageInv
<1>2. is_loading => Live("scan") # {} BY <1>1, LiveTasks DEF ListIsKnown, NoScan
<1>3. status = "checking" => Live("check") # {} BY <1>1, LiveTasks DEF ListIsKnown
<1>4. Live("scan") = {} => NoScan BY <1>1, LiveTasks
<1> QED BY <1>1, <1>2, <1>3, <1>4 DEF ListIsTrue, ListIsKnown

\* In every execution the list of installed mods is true when its scans are over,
\* never goes back to an older directory, and stands still once the page is left
\* (mods_manager_installed.py, session_tasks.py).
THEOREM PageStaysCurrent == PageSpec => PageIsCurrent
<1>1. PageInv /\ [PageNext]_pageVars => PageInv' BY PageStep
<1>2. PageInv /\ [PageNext]_pageVars
      => [/\ ListIsTrue'
          /\ items' # items => items = NoList \/ items' >= items
          /\ closed => UNCHANGED <<items, display, status>>]_pageVars
  <2>1. PageInv' => ListIsTrue' BY ListStaysTrue, PTL
  <2> QED BY PageStep, <2>1
<1> QED BY PageInitially, <1>1, <1>2, PTL DEF PageSpec, PageIsCurrent

\* Every variable of the page has its type.
THEOREM PageTypeCorrect == PageSpec => []PageTypeOK
<1>1. PageInv /\ [PageNext]_pageVars => PageInv' BY PageStep
<1>2. PageInv => PageTypeOK BY DEF PageInv, PageTypes
<1> QED BY PageInitially, <1>1, <1>2, PTL DEF PageSpec
=============================================================================
