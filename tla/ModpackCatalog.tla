--------------------------- MODULE ModpackCatalog -----------------------------
(***************************************************************************)
(* The page of modpacks: ModpacksPage of pages/modpacks.py with            *)
(* CatalogState of application/catalog.py.  A field whose changes are      *)
(* searched after a pause, by the thread of a timer, and pages of results; *)
(* every search has a thread and a token that tells late answers.          *)
(***************************************************************************)
EXTENDS Naturals

CONSTANTS Queries, FirstQuery,
          PagesOf,       \* query -> pages of its results
          MaxLoads       \* bound on the searches and the visits

ASSUME ModpacksAssumption ==
    FirstQuery \in Queries /\ PagesOf \in [Queries -> Nat \ {0}] /\ MaxLoads \in Nat

VARIABLES search,       \* CatalogState, the query in the field, and whether the page is shown
          results,      \* what the page shows
          searchTimer,  \* _search_timer, and the reloads it has put on the page's loop
          searches      \* searches under way

modpackVars == <<search, results, searchTimer, searches>>

Spinner == [shows |-> "loading", query |-> FirstQuery, page |-> 0]
Search == [token : Nat, query : Queries, page : Nat]

ModpacksTypeOK ==
    /\ search \in [query : Queries, page : Nat, total : Nat, loading : BOOLEAN,
                   token : Nat, active : BOOLEAN]
    /\ results \in [shows : {"loading", "results", "failed"}, query : Queries, page : Nat]
    /\ searchTimer \in [armed : BOOLEAN, reloads : Nat]
    /\ searches \subseteq Search

ModpacksInit ==
    /\ search = [query |-> FirstQuery, page |-> 0, total |-> 0, loading |-> FALSE,
                 token |-> 0, active |-> FALSE]
    /\ results = Spinner
    /\ searchTimer = [armed |-> FALSE, reloads |-> 0] /\ searches = {}

\* CatalogState.begin and the thread of the search.
BeginSearch(page, active) ==
    /\ search.token < MaxLoads
    /\ search' = [search EXCEPT !.page = page, !.loading = TRUE, !.active = active,
                      !.total = IF page = 0 THEN 0 ELSE @, !.token = @ + 1]
    /\ results' = Spinner
    /\ searches' = searches \cup
           {[token |-> search.token + 1, query |-> search.query, page |-> page]}

OpenModpacks ==
    /\ ~search.active /\ BeginSearch(0, TRUE)
    /\ UNCHANGED searchTimer

\* Leaving the page cancels what is under way; a timer that has fired is not.
LeaveModpacks ==
    /\ search.active
    /\ search' = [search EXCEPT !.active = FALSE, !.loading = FALSE, !.token = @ + 1]
    /\ searchTimer' = [searchTimer EXCEPT !.armed = FALSE]
    /\ UNCHANGED <<results, searches>>

TypeQuery(q) ==
    /\ search.active /\ q # search.query
    /\ search' = [search EXCEPT !.query = q]
    /\ searchTimer' = [searchTimer EXCEPT !.armed = TRUE]
    /\ UNCHANGED <<results, searches>>

SubmitSearch ==
    /\ search.active /\ BeginSearch(0, TRUE)
    /\ UNCHANGED searchTimer

TimerFires ==
    /\ searchTimer.armed /\ search.token + searchTimer.reloads < MaxLoads
    /\ searchTimer' = [armed |-> FALSE, reloads |-> searchTimer.reloads + 1]
    /\ UNCHANGED <<search, results, searches>>

\* The page may have been left since the timer looked: the load goes on unseen.
ReloadRuns ==
    /\ searchTimer.reloads > 0
    /\ searchTimer' = [searchTimer EXCEPT !.reloads = @ - 1]
    /\ BeginSearch(0, search.active)

\* The buttons of a catalogue: has_next with next_offset, has_previous.
NextPage(page) == page = search.page + 1 /\ page < search.total
PreviousPage(page) == search.page > 0 /\ page = search.page - 1

TurnPage(page) ==
    /\ search.active /\ ~search.loading
    /\ NextPage(page) \/ PreviousPage(page)
    /\ BeginSearch(page, TRUE)
    /\ UNCHANGED searchTimer

ShowAnswer(load, answer) ==
    /\ search' = [search EXCEPT !.loading = FALSE,
                      !.total = IF answer = "results" THEN PagesOf[load.query] ELSE 0]
    /\ results' = [shows |-> answer, query |-> load.query, page |-> load.page]

AnswerSearch(load, answer) ==
    /\ load \in searches /\ searches' = searches \ {load}
    /\ IF load.token = search.token /\ search.active THEN ShowAnswer(load, answer)
       ELSE UNCHANGED <<search, results>>
    /\ UNCHANGED searchTimer

ModpacksNext ==
    \/ OpenModpacks \/ LeaveModpacks \/ SubmitSearch \/ TimerFires \/ ReloadRuns
    \/ \E q \in Queries : TypeQuery(q)
    \/ \E page \in 0..MaxLoads : TurnPage(page)
    \/ \E load \in searches, answer \in {"results", "failed"} : AnswerSearch(load, answer)

ModpacksSpec == ModpacksInit /\ [][ModpacksNext]_modpackVars

-----------------------------------------------------------------------------
\* When nothing is awaited the page of modpacks shows the page asked for of the
\* query in the field; while it says it is loading, the newest search is under way.
ModpacksAreCurrent ==
    search.active =>
        /\ search.loading => \E l \in searches : l.token = search.token
        /\ ~search.loading /\ ~searchTimer.armed /\ searchTimer.reloads = 0 =>
               /\ results.shows # "loading"
               /\ results.query = search.query /\ results.page = search.page
=============================================================================
