-------------------------- MODULE ModDependencies --------------------------
(***************************************************************************)
(* The plan of a mod's installation: which releases of which projects the  *)
(* chosen one requires (ModrinthModsService._resolve_required_dependencies *)
(* in application/modrinth_mods.py).  The resolver walks the dependencies  *)
(* breadth first, prefers what is installed, then the newest release, lets *)
(* exact requirements win, and repeats the walk over the releases it ended *)
(* with until they no longer change.  The catalogue is asked as the walk   *)
(* meets a release and answers the same each time.                         *)
(***************************************************************************)
EXTENDS Naturals, Sequences

CONSTANTS
    Projects,       \* the projects of the catalogue
    MainProject,    \* the one the user installs, and
    MainRelease,    \* its release
    FabricApi,      \* the project every Fabric mod is taken to need
    Offered,        \* the compatible releases of each project, numbered by date
    Lists,          \* the lists of dependencies a release may declare
    Inventories     \* what may be installed of each project before

ASSUME DependencyAssumption ==
    /\ {MainProject, FabricApi} \subseteq Projects
    /\ Offered \in [Projects -> SUBSET (Nat \ {0})]
    /\ \A p \in Projects : Offered[p] # {} =>
         \E r \in Offered[p] : \A s \in Offered[p] : s <= r     \* one is the newest
    /\ MainRelease \in Offered[MainProject]
    /\ Lists \subseteq Seq([to : Projects, exact : Nat,
                            kind : {"required", "incompatible", "optional"}])
    /\ Inventories \subseteq [Projects -> Nat]

VARIABLES
    catalogue,      \* the dependencies of the releases met so far
    inventory,      \* the installed release of each project; 0 for none
    implicit,       \* the loader is Fabric and its API is to be added
    queue, resolved, lastWalk, pinned, traversed, incompatible, implicitChecked,
    issues,         \* what makes the plan impossible
    seen,           \* the outcomes of earlier walks
    planning        \* the walk goes on, or the plan is made

planVars == <<catalogue, inventory, implicit, queue, resolved, lastWalk, pinned,
              traversed, incompatible, implicitChecked, issues, seen, planning>>

None0 == [p \in Projects |-> 0]
Main == <<MainProject, MainRelease>>

Newest(releases) == CHOOSE r \in releases : \A s \in releases : s <= r

\* What the inventory of the instance has of a project.
IsInstalled(p) == inventory[p] # 0

\* An installed release that is enabled, owned and compatible.
CurrentRelease(p) == IF inventory[p] \in Offered[p] THEN inventory[p] ELSE 0

\* The release a dependency stands for; 0 when there is none.
Resolve(d) ==
    CASE d.exact # 0 -> IF d.exact \in Offered[d.to] THEN d.exact ELSE 0
      [] d.exact = 0 /\ CurrentRelease(d.to) # 0 -> CurrentRelease(d.to)
      [] OTHER -> IF Offered[d.to] = {} THEN 0 ELSE Newest(Offered[d.to])

\* What the installation does about a release of the plan.
CandidateAction(p, exact) ==
    CASE ~IsInstalled(p) -> "install"
      [] inventory[p] = resolved[p] -> "satisfied"
      [] ~exact /\ CurrentRelease(p) >= resolved[p] -> "satisfied"
      [] OTHER -> "replace"

\* A walk starts from the main release with nothing but its own pin.
StartWalk(list) ==
    /\ queue' = list /\ resolved' = None0
    /\ pinned' = [None0 EXCEPT ![MainProject] = MainRelease]
    /\ traversed' = {MainProject} /\ incompatible' = {} /\ issues' = {}
    /\ implicitChecked' = ~implicit

\* The release the user chose, what is installed, and whether its loader needs
\* the API.
AskedFor ==
    /\ \E list \in Lists : catalogue = [r \in {Main} |-> list] /\ queue = list
    /\ inventory \in Inventories /\ implicit \in BOOLEAN

PlanInit ==
    /\ AskedFor
    /\ resolved = None0 /\ lastWalk = None0
    /\ pinned = [None0 EXCEPT ![MainProject] = MainRelease]
    /\ traversed = {MainProject} /\ incompatible = {} /\ issues = {}
    /\ implicitChecked = ~implicit /\ seen = {None0} /\ planning = TRUE

Dependency == Head(queue)
Walking(kind) == planning /\ queue # <<>> /\ Dependency.kind = kind
Drop == queue' = Tail(queue)
BlocksPlan(projects) == issues' = issues \cup projects
RestStays == UNCHANGED <<inventory, implicit, lastWalk, seen, planning, implicitChecked>>

\* Optional, embedded and unknown ones are only shown to the user.
ShowOptional ==
    /\ Walking("optional") /\ Drop
    /\ UNCHANGED <<catalogue, resolved, pinned, traversed, incompatible, issues>> /\ RestStays

NoteIncompatible ==
    /\ Walking("incompatible") /\ Drop
    /\ incompatible' = incompatible \cup {Dependency.to}
    /\ UNCHANGED <<catalogue, resolved, pinned, traversed, issues>> /\ RestStays

Conflicts == Dependency.exact # 0 /\ pinned[Dependency.to] \notin {0, Dependency.exact}

BlockRequired ==
    /\ Walking("required") /\ (Resolve(Dependency) = 0 \/ Conflicts) /\ Drop
    /\ BlocksPlan({Dependency.to})
    /\ UNCHANGED <<catalogue, resolved, pinned, traversed, incompatible>> /\ RestStays

RequireMain ==
    /\ Walking("required") /\ Dependency.to = MainProject
    /\ Resolve(Dependency) # 0 /\ ~Conflicts /\ Drop
    /\ UNCHANGED <<catalogue, resolved, pinned, traversed, incompatible, issues>> /\ RestStays

Chosen_Fresh(p, release) == release

\* The dependencies that count are those of the release the last walk ended
\* with.
Chosen(p, release) == IF lastWalk[p] # 0 THEN lastWalk[p] ELSE release

\* What the catalogue may answer about a release: what it has answered before.
Answered(source) == IF source \in DOMAIN catalogue THEN {catalogue[source]} ELSE Lists

TakeRequired ==
    LET p == Dependency.to
        release == Resolve(Dependency)
        wins == \/ resolved[p] = 0 \/ Dependency.exact # 0
                \/ pinned[p] = 0 /\ release > resolved[p]
        source == <<p, Chosen(p, release)>>
    IN  /\ Walking("required") /\ p # MainProject /\ release # 0 /\ ~Conflicts
        /\ pinned' = [pinned EXCEPT ![p] = IF Dependency.exact = 0 THEN @ ELSE Dependency.exact]
        /\ resolved' = [resolved EXCEPT ![p] = IF wins THEN release ELSE @]
        /\ traversed' = traversed \cup {p}
        /\ IF p \in traversed THEN Drop /\ UNCHANGED catalogue
           ELSE \E list \in Answered(source) :
                  /\ catalogue' = [r \in DOMAIN catalogue \cup {source} |->
                                     IF r = source THEN list ELSE catalogue[r]]
                  /\ queue' = Tail(queue) \o list
        /\ UNCHANGED <<incompatible, issues>> /\ RestStays

\* Fabric's API comes last, when nothing else asked for it.
AddFabricApi ==
    /\ planning /\ queue = <<>> /\ ~implicitChecked /\ implicitChecked' = TRUE
    /\ queue' = IF resolved[FabricApi] # 0 THEN <<>>
                ELSE <<[to |-> FabricApi, exact |-> 0, kind |-> "required"]>>
    /\ UNCHANGED <<catalogue, inventory, implicit, resolved, lastWalk, pinned, traversed,
                   incompatible, issues, seen, planning>>

WalkEnded == planning /\ queue = <<>> /\ implicitChecked

MayRepeat_Ever == resolved # lastWalk

\* Releases an earlier walk has ended with are not walked over again.
MayRepeat == resolved # lastWalk /\ resolved \notin seen

WalkAgain ==
    /\ WalkEnded /\ MayRepeat
    /\ seen' = seen \cup {resolved} /\ lastWalk' = resolved
    /\ StartWalk(catalogue[Main])
    /\ UNCHANGED <<catalogue, inventory, implicit, planning>>

\* A project is in the way when it is installed or planned itself.
InTheWay == {p \in incompatible : IsInstalled(p) \/ resolved[p] # 0 \/ p = MainProject}

\* Releases that come round again do not converge.
MakePlan ==
    /\ WalkEnded /\ ~MayRepeat /\ planning' = FALSE
    /\ BlocksPlan(InTheWay \cup (IF resolved # lastWalk THEN {MainProject} ELSE {}))
    /\ UNCHANGED <<catalogue, inventory, implicit, queue, resolved, lastWalk, pinned,
                   traversed, incompatible, implicitChecked, seen>>

PlanNext ==
    \/ ShowOptional \/ NoteIncompatible \/ BlockRequired \/ RequireMain \/ TakeRequired
    \/ AddFabricApi \/ WalkAgain \/ MakePlan

\* The plan that is shown: its candidates, and whether it can be installed.
Candidates == {p \in Projects : p = MainProject \/ resolved[p] # 0}
CanInstall == ~planning /\ issues = {}

PlanSpec == PlanInit /\ [][PlanNext]_planVars /\ WF_planVars(PlanNext)

(* ---- Properties ---- *)

\* Every variable has its type.
PlanTypeOK ==
    /\ {resolved, lastWalk, pinned} \subseteq [Projects -> Nat]
    /\ traversed \subseteq Projects /\ issues \subseteq Projects
    /\ incompatible \subseteq Projects /\ {planning, implicitChecked} \subseteq BOOLEAN

\* What is in the instance once the plan is carried out.
After == [p \in Projects |->
            IF p = MainProject THEN MainRelease
            ELSE IF resolved[p] = 0 \/ CandidateAction(p, pinned[p] # 0) = "satisfied"
                 THEN inventory[p] ELSE resolved[p]]
Declared(p) ==
    LET source == <<p, After[p]>>
    IN  IF source \in DOMAIN catalogue
        THEN {catalogue[source][i] : i \in DOMAIN catalogue[source]} ELSE {}

\* A plan without issues is closed: carried out, every release of it finds
\* what it requires, in the release it requires, and nothing it declares
\* itself incompatible with is in the instance; and beside Fabric's API it
\* brings only what a release of it requires.
PlanIsClosed ==
    CanInstall =>
      /\ \A p \in Candidates : <<p, After[p]>> \in DOMAIN catalogue
      /\ \A p \in Candidates : \A d \in Declared(p) :
           /\ d.kind = "required" => After[d.to] # 0 /\ d.exact \in {0, After[d.to]}
           /\ d.kind = "incompatible" => After[d.to] = 0
      /\ \A p \in Candidates \ {MainProject, FabricApi} :
           \E q \in Candidates : \E d \in Declared(q) : d.to = p

\* The walk over what releases require ends in a plan that can be carried out
\* (build_dependency_plan).
PlanIsSound == [][PlanIsClosed']_planVars

\* However the releases of the catalogue require each other, in circles or
\* each excluding the other's choice, a walk that has one to follow leads to a
\* plan.
PlanEnds == queue # <<>> ~> ~planning
=============================================================================
