------------------------------ MODULE ModsPage ------------------------------
(***************************************************************************)
(* The list of installed mods on the page of an instance                   *)
(* (pages/mods_manager.py, mods_manager_installed.py, mods_manager_search  *)
(* .py) and the background tasks behind it (ui/core/session_tasks.py).     *)
(* The page's own code runs on one thread; scans of the directory, update  *)
(* checks, changes of single mods and installations run beside it and      *)
(* return whenever they are done.  A task belongs to a key; beginning a    *)
(* new one of the key, or invalidating it, makes earlier tokens stale.     *)
(* The token's generation, a counter that never comes back, is kept as the *)
(* flag `current` of each task.  A check also asks whether the list is     *)
(* still the object it has copied; only scans and checks replace it, and   *)
(* either makes the earlier check stale.                                   *)
(***************************************************************************)
EXTENDS Naturals, FiniteSets

CONSTANTS MaxChanges,   \* changes of the directory
          MaxObjects,   \* Version objects the page is given
          MaxTasks      \* tasks that run at a time

ASSUME PageAssumption == {MaxChanges, MaxObjects, MaxTasks} \subseteq Nat \ {0}

VARIABLES
    directory,      \* how often the mods directory has changed
    items,          \* the state of the directory installed_items["mods"] tells
    display,        \* what the list shows: a state, a ring, an error
    is_loaded,         \* "mods" is one of loaded_content_keys
    is_loading, status,
    tab,            \* the content tab and its inner tab
    object,         \* the Version object of the page
    tasks,          \* the keyed tasks: scans, checks, confirmations
    mutations,      \* the changes of single mods, by their step
    installation, \* the installation and the dialog before it
    closed,
    missed          \* history: a change whose rescan has been given up

pageVars == <<directory, items, display, is_loaded, is_loading, status, tab, object,
              tasks, mutations, installation, closed, missed>>

\* The states of the directory, and what a list can be instead.
NoList == MaxChanges + 1
Ring == MaxChanges + 2
Error == MaxChanges + 3
States == 0..MaxChanges
Tabs == {<<"mods", "installed">>, <<"mods", "modrinth">>, <<"settings", "installed">>}
Shown == <<"mods", "installed">>
NoInstallation == [step |-> "idle", object |-> 0]

\* begin and invalidate: every token of these keys is stale from now on.
Outdated(ts, keys) == {[t EXCEPT !.current = @ /\ t.key \notin keys] : t \in ts}
ListKeys == {"scan", "check", "confirm"}

IsCurrent_Newest(t) == ~closed /\ t.object = object /\ t.tab = tab
IsCurrent(t) == ~closed /\ t.current /\ t.object = object /\ t.tab = tab

Task(key, where, for) ==
    [key |-> key, current |-> TRUE, tab |-> where, object |-> for, step |-> "working",
     read |-> IF key = "check" THEN items ELSE NoList, inner |-> FALSE]

PageInit ==
    /\ directory = 0 /\ items = NoList /\ display = Ring /\ is_loaded = FALSE /\ is_loading = TRUE
    /\ status = "idle" /\ tab = Shown /\ object = 1
    /\ tasks = {[key |-> "scan", current |-> TRUE, tab |-> Shown, object |-> 1, step |-> "working",
                 read |-> NoList, inner |-> FALSE]}
    /\ mutations = [queued |-> 0, returned |-> 0]
    /\ installation = NoInstallation /\ closed = FALSE /\ missed = FALSE

\* What the page shows: the list or what stands for it, the word of the updates'
\* toolbar, and the panel of a tab.
Show(what) == display' = what
ShowLoading == is_loading' = TRUE /\ Show(Ring)
SetStatus(to) == status' = to
ShowTabPanel(to) == tab' = to
MustLoad(to) == to = Shown /\ ~is_loaded

\* The transaction of an installation runs (ModContent).
Writing == installation.step = "writing"

Live(key) == {t \in tasks : t.key = key /\ IsCurrent(t)}
Room == Cardinality(tasks) < MaxTasks

\* A rebuild shows the ring and starts a scan for the tab it finds.
Rebuild(where, for) ==
    /\ tasks' = Outdated(tasks, ListKeys) \cup {Task("scan", where, for)}
    /\ ShowLoading /\ SetStatus("idle")

\* Leaving a tab gives up its scan and its check.
GiveUp ==
    /\ tasks' = Outdated(tasks, ListKeys) /\ is_loading' = FALSE
    /\ SetStatus(IF status = "checking" THEN "idle" ELSE status)
    /\ UNCHANGED display

SwitchTab(to) ==
    /\ ~closed /\ to # tab /\ ShowTabPanel(to) /\ (tab[1] = "settings" => to = Shown)
    /\ IF MustLoad(to)
       THEN Room /\ Rebuild(to, object) ELSE GiveUp
    /\ missed' = (missed \/ (is_loaded /\ Live("scan") # {}))
    /\ UNCHANGED <<directory, items, is_loaded, object, mutations, installation, closed>>

\* Saving the settings of the version gives the page another object.
VersionSaved ==
    /\ ~closed /\ tab[1] = "settings" /\ object < MaxObjects /\ object' = object + 1
    /\ is_loaded' = FALSE /\ GiveUp /\ missed' = FALSE
    /\ UNCHANGED <<directory, items, tab, mutations, installation, closed>>

BeforeHide ==
    /\ ~closed /\ closed' = TRUE /\ is_loading' = FALSE
    /\ installation' = IF Writing THEN installation ELSE NoInstallation
    /\ mutations' = [mutations EXCEPT !.returned = 0]
    /\ UNCHANGED <<directory, items, display, is_loaded, status, tab, object, tasks, missed>>

Step(t, to) == tasks' = (tasks \ {t}) \cup {[t EXCEPT !.step = to]}
\* The installation ends with the scan it waits for.
Ends(t) == installation' = IF t.inner THEN NoInstallation ELSE installation
Unmoved == UNCHANGED <<directory, items, display, is_loaded, is_loading, status, tab, object,
                    mutations, closed, missed>>

\* The worker reads the directory, for as long as it takes, under no lease.
WorkerReads(t) ==
    /\ t.key = "scan" /\ t.step = "working"
    /\ tasks' = (tasks \ {t}) \cup {[t EXCEPT !.step = "returned", !.read = directory]}
    /\ UNCHANGED installation /\ Unmoved
WorkerEnds(t) == t.key = "check" /\ t.step = "working" /\ Step(t, "returned") /\ UNCHANGED installation /\ Unmoved
WorkerFails(t) == t.step = "working" /\ Step(t, "failed") /\ UNCHANGED installation /\ Unmoved

\* A stale task is cancelled, or returns and is dropped.
Drop(t) == ~IsCurrent(t) /\ tasks' = tasks \ {t} /\ Ends(t) /\ Unmoved

Apply(t, rest) ==
    /\ items' = t.read /\ Show(t.read) /\ is_loaded' = TRUE
    /\ tasks' = rest

\* After a scan the page checks for updates by itself when it can.
ScanApplied(t) ==
    /\ t.key = "scan" /\ t.step = "returned" /\ IsCurrent(t) /\ Ends(t)
    /\ is_loading' = FALSE
    /\ \/ Apply(t, tasks \ {t}) /\ UNCHANGED status
       \/ /\ tab = Shown /\ SetStatus("checking")
          /\ items' = t.read /\ Show(t.read) /\ is_loaded' = TRUE
          /\ tasks' = Outdated(tasks \ {t}, {"check"})
                      \cup {[Task("check", tab, object) EXCEPT !.read = t.read]}
    /\ missed' = (missed /\ t.read # directory)
    /\ UNCHANGED <<directory, tab, object, mutations, closed>>

ScanFailed(t) ==
    /\ t.key = "scan" /\ t.step = "failed" /\ IsCurrent(t) /\ Ends(t)
    /\ tasks' = tasks \ {t} /\ is_loading' = FALSE /\ Show(Error)
    /\ missed' = (missed \/ items # NoList)
    /\ UNCHANGED <<directory, items, is_loaded, status, tab, object, mutations, closed>>

\* Typing into the filter renders the list again.
OnInstalledSearchChange ==
    /\ ~closed /\ tab = Shown /\ is_loaded /\ Show(items)
    /\ UNCHANGED <<directory, items, is_loaded, is_loading, status, tab, object, tasks, mutations,
                   installation, closed, missed>>

RequestCheck ==
    /\ ~closed /\ status # "checking" /\ ~is_loading /\ installation = NoInstallation /\ tab = Shown
    /\ items # NoList /\ Room
    /\ tasks' = Outdated(tasks, {"check"}) \cup {Task("check", tab, object)}
    /\ SetStatus("checking")
    /\ UNCHANGED <<directory, items, display, is_loaded, is_loading, tab, object, mutations,
                   installation, closed, missed>>

CheckApplied(t) ==
    /\ t.key = "check" /\ t.step = "returned" /\ IsCurrent(t)
    /\ Apply(t, tasks \ {t}) /\ SetStatus("known")
    /\ UNCHANGED <<directory, is_loading, tab, object, mutations, installation, closed, missed>>
CheckFailed(t) ==
    /\ t.key = "check" /\ t.step = "failed" /\ IsCurrent(t)
    /\ tasks' = tasks \ {t} /\ SetStatus("idle")
    /\ UNCHANGED <<directory, items, display, is_loaded, is_loading, tab, object, mutations,
                   installation, closed, missed>>
\* The user toggles, restores or deletes a mod of the list.
CancelCheck == tasks' = Outdated(tasks, {"check", "confirm"}) /\ SetStatus("idle")
AskMutation ==
    /\ ~closed /\ tab = Shown /\ display \in States /\ mutations.queued + mutations.returned = 0
    /\ CancelCheck /\ mutations' = [mutations EXCEPT !.queued = @ + 1]
    /\ UNCHANGED <<directory, items, display, is_loaded, is_loading, tab, object, installation,
                   closed, missed>>

\* Under the instance's operation; a running game or a second one refuses it.
Mutate ==
    /\ mutations.queued > 0 /\ ~Writing /\ directory < MaxChanges
    /\ directory' = directory + 1
    /\ mutations' = [queued |-> mutations.queued - 1, returned |-> IF closed THEN 0 ELSE 1]
    /\ UNCHANGED <<items, display, is_loaded, is_loading, status, tab, object, tasks, installation,
                   closed, missed>>
MutationFails ==
    /\ mutations.queued > 0 /\ mutations' = [mutations EXCEPT !.queued = @ - 1]
    /\ UNCHANGED <<directory, items, display, is_loaded, is_loading, status, tab, object, tasks,
                   installation, closed, missed>>
MutationReturns ==
    /\ mutations.returned > 0 /\ mutations' = [mutations EXCEPT !.returned = @ - 1]
    /\ ~closed /\ Room /\ Rebuild(tab, object)
    /\ UNCHANGED <<directory, items, is_loaded, tab, object, installation, closed, missed>>

\* An update is confirmed for the list it was asked about.
AskUpdate ==
    /\ ~closed /\ status = "known" /\ tab = Shown /\ Room
    /\ tasks' = Outdated(tasks, {"confirm"}) \cup {Task("confirm", tab, object)}
    /\ UNCHANGED <<installation, directory, items, display, is_loaded, is_loading, status, tab, object,
                   mutations, closed, missed>>
ConfirmUpdate(t) ==
    /\ t.key = "confirm" /\ IsCurrent(t) /\ CancelCheck
    /\ installation' = IF installation = NoInstallation THEN [step |-> "planning", object |-> object] ELSE installation
    /\ UNCHANGED <<directory, items, display, is_loaded, is_loading, tab, object, mutations,
                   closed, missed>>

StartInstall ==
    /\ ~closed /\ tab = <<"mods", "modrinth">> /\ installation = NoInstallation
    /\ installation' = [step |-> "planning", object |-> object]
    /\ UNCHANGED tasks /\ Unmoved

\* The plan is for the object it was made with; it may have to be confirmed,
\* and what is added to it is planned again.
PlanMade ==
    /\ installation.step = "planning"
    /\ \/ installation' = NoInstallation
       \/ /\ ~closed /\ installation.object = object
          /\ \E to \in {"asking", "writing"} : installation' = [installation EXCEPT !.step = to]
    /\ UNCHANGED tasks /\ Unmoved
AnswerPlan ==
    /\ installation.step = "asking"
    /\ \/ installation' = NoInstallation
       \/ /\ ~closed /\ installation.object = object
          /\ \E to \in {"planning", "writing"} : installation' = [installation EXCEPT !.step = to]
    /\ UNCHANGED tasks /\ Unmoved

\* The installation rescans by itself, without the ring, for the tab it finds.
Installed ==
    /\ Writing /\ directory < MaxChanges /\ directory' = directory + 1
    /\ IF closed \/ installation.object # object
       THEN /\ installation' = NoInstallation
            /\ missed' = (missed \/ is_loaded \/ Live("scan") # {})
            /\ UNCHANGED <<tasks, status>>
       ELSE /\ Room /\ installation' = [installation EXCEPT !.step = "scanning"] /\ SetStatus("idle")
            /\ tasks' = Outdated(tasks, ListKeys)
                        \cup {[Task("scan", tab, object) EXCEPT !.inner = TRUE]}
            /\ UNCHANGED missed
    /\ UNCHANGED <<items, display, is_loaded, is_loading, tab, object, mutations, closed>>
InstallationFails ==
    /\ Writing /\ installation' = NoInstallation /\ UNCHANGED tasks /\ Unmoved

TaskStep(t) ==
    \/ WorkerReads(t) \/ WorkerEnds(t) \/ WorkerFails(t) \/ Drop(t)
    \/ ScanApplied(t) \/ ScanFailed(t) \/ CheckApplied(t) \/ CheckFailed(t)
    \/ ConfirmUpdate(t)
PageNext ==
    \/ \E to \in Tabs : SwitchTab(to)
    \/ VersionSaved \/ BeforeHide \/ OnInstalledSearchChange \/ RequestCheck \/ AskMutation
    \/ Mutate \/ MutationFails \/ MutationReturns \/ AskUpdate \/ StartInstall \/ PlanMade \/ AnswerPlan \/ Installed
    \/ InstallationFails \/ \E t \in tasks : TaskStep(t)

PageSpec == PageInit /\ [][PageNext]_pageVars

(* ---- Properties ---- *)

\* Every variable has its type.
PageTypeOK ==
    /\ directory \in States /\ items \in States \cup {NoList}
    /\ display \in States \cup {Ring, Error}
    /\ status \in {"idle", "checking", "known"} /\ tab \in Tabs
    /\ object \in 1..MaxObjects /\ installation.object \in 0..MaxObjects
    /\ {is_loaded, is_loading, closed, missed} \subseteq BOOLEAN

\* The page waits only for what is under way, and a list it shows on a
\* directory at rest tells that directory, but for the rescans of a list it has
\* loaded that a change of tabs gave up, that failed, or that never began since
\* the settings were saved under an installation.
ListIsTrue ==
    ~closed =>
      /\ is_loading => Live("scan") # {}
      /\ status = "checking" => Live("check") # {}
      /\ tab = Shown /\ display = Ring /\ ~missed => is_loading
      /\ display \in States /\ tab = Shown /\ Live("scan") = {} /\ mutations.returned = 0 /\ ~missed
           => display = directory

\* Every step leaves a true list; whatever returns late, the list never tells
\* an older directory than before, and a page that was left does not change.
PageIsCurrent ==
    [][/\ ListIsTrue'
       /\ items' # items => items = NoList \/ items' >= items
       /\ closed => UNCHANGED <<items, display, status>>]_pageVars
=============================================================================
