---------------------------- MODULE InstanceLease ----------------------------
(***************************************************************************)
(* The lease of one game directory: InstanceOperationCoordinator, one per  *)
(* launcher process (application/instance_operations.py), over the kernel  *)
(* file lock all processes share (application/platform_lock.py).           *)
(*                                                                         *)
(* A worker is a thread of the process Home[w].  Everything a coordinator  *)
(* does is done under its `_lock`, so one call is one step, except         *)
(* try_acquire: between taking the kernel lock and entering the lease it   *)
(* writes the owner's metadata, and other processes, an I/O error or the   *)
(* death of the process may come in between.  The metadata itself decides  *)
(* nothing and is left out.                                                *)
(***************************************************************************)
EXTENDS Naturals, FiniteSets

CONSTANTS
    Workers,    \* the threads
    Processes,  \* the launcher processes
    Home,       \* the process of a thread
    Leases,     \* lease objects, each used once: a bound on the acquisitions
    None

ASSUME LeaseAssumption ==
    /\ IsFiniteSet(Workers)
    /\ Home \in [Workers -> Processes]
    /\ None \notin Leases /\ None \notin Workers

VARIABLES
    kernel,  \* the lease whose file handle has the kernel lock
    active,  \* _active of each process, for this directory
    mutex,   \* _lock of each process: the worker inside try_acquire
    lease,   \* the lease objects: _released and _release_requested, _borrow_count, process
    doing,      \* what each worker does
    ref      \* the lease each worker knows of

leaseVars == <<kernel, active, mutex, lease, doing, ref>>

Objects == [state : {"unused", "held", "requested", "released"},
            borrows : Nat,
            process : Processes \cup {None}]

Working(w) == doing[w] \in {"owning", "borrowing"}
Borrowers(l) == {w \in Workers : doing[w] = "borrowing" /\ ref[w] = l}
Unlocked(w) == mutex[Home[w]] = None

StepTo(w, label, l) == doing' = [doing EXCEPT ![w] = label] /\ ref' = [ref EXCEPT ![w] = l]

-----------------------------------------------------------------------------
(* try_acquire                                                             *)

\* This process uses the directory, or another one has the kernel lock: InstanceOperationBusy.
Refuse(w) ==
    /\ doing[w] = "idle" /\ Unlocked(w)
    /\ active[Home[w]] # None \/ kernel # None
    /\ StepTo(w, "refused", None)
    /\ UNCHANGED <<kernel, active, mutex, lease>>

Dismiss(w) ==
    /\ doing[w] = "refused" /\ StepTo(w, "idle", None)
    /\ UNCHANGED <<kernel, active, mutex, lease>>

\* OSFileLock.try_acquire takes the kernel lock, without waiting for it.
LockFile(w) ==
    /\ doing[w] = "idle" /\ Unlocked(w)
    /\ active[Home[w]] = None /\ kernel = None
    /\ \E l \in Leases :
          /\ lease[l].state = "unused"
          /\ lease' = [lease EXCEPT ![l] = [state |-> "held", borrows |-> 0,
                                            process |-> Home[w]]]
          /\ kernel' = l
          /\ StepTo(w, "locked", l)
    /\ mutex' = [mutex EXCEPT ![Home[w]] = w]
    /\ UNCHANGED active

\* The metadata is written and the lease is entered in _active.
Enter(w) ==
    /\ doing[w] = "locked"
    /\ active' = [active EXCEPT ![Home[w]] = ref[w]]
    /\ mutex' = [mutex EXCEPT ![Home[w]] = None]
    /\ StepTo(w, "owning", ref[w])
    /\ UNCHANGED <<kernel, lease>>

\* Writing the metadata raises: the kernel lock is given back and no lease comes to be.
FailToEnter(w) ==
    /\ doing[w] = "locked"
    /\ lease' = [lease EXCEPT ![ref[w]].state = "released"]
    /\ kernel' = None
    /\ mutex' = [mutex EXCEPT ![Home[w]] = None]
    /\ StepTo(w, "idle", None)
    /\ UNCHANGED active

-----------------------------------------------------------------------------
(* Borrowed leases                                                         *)

\* A working thread passes its lease to another one of the process (operation(lease=...)).
Hand(w, v) ==
    /\ Working(w) /\ doing[v] = "idle" /\ Home[v] = Home[w]
    /\ ref' = [ref EXCEPT ![v] = ref[w]]
    /\ UNCHANGED <<kernel, active, mutex, lease, doing>>

\* Mutant: a lease that is over is still lent.
Valid_Stale(w) == ref[w] # None
\* _pin_borrowed: a lease that is over, or about to be, is refused.
Valid(w) == lease[ref[w]].state = "held" /\ active[Home[w]] = ref[w]
Pin(w) ==
    /\ doing[w] = "idle" /\ ref[w] # None /\ Unlocked(w)
    /\ IF Valid(w)
       THEN /\ lease' = [lease EXCEPT ![ref[w]].borrows = @ + 1]
            /\ StepTo(w, "borrowing", ref[w])
       ELSE StepTo(w, "refused", None) /\ UNCHANGED lease
    /\ UNCHANGED <<kernel, active, mutex>>

\* The end of a lease: _released, the kernel lock given back; `entered` is the new _active.
End(l, entered) ==
    /\ lease' = [lease EXCEPT ![l].state = "released", ![l].borrows = 0]
    /\ active' = entered
    /\ kernel' = IF kernel = l THEN None ELSE kernel
\* Mutant: the entry of _active stays.
Without_Kept(p) == active
Without(p) == [active EXCEPT ![p] = None]

\* Mutant: the release the owner asked for is forgotten.
Unpin_NeverEnds(w) ==
    /\ doing[w] = "borrowing" /\ Unlocked(w)
    /\ lease' = [lease EXCEPT ![ref[w]].borrows = @ - 1]
    /\ StepTo(w, "idle", None)
    /\ UNCHANGED <<kernel, active, mutex>>
\* _unpin_borrowed: the last borrower ends a lease whose owner has gone.
Unpin(w) ==
    /\ doing[w] = "borrowing" /\ Unlocked(w)
    /\ IF lease[ref[w]].borrows = 1 /\ lease[ref[w]].state = "requested"
       THEN End(ref[w], Without(Home[w]))
       ELSE /\ lease' = [lease EXCEPT ![ref[w]].borrows = @ - 1]
            /\ UNCHANGED <<kernel, active>>
    /\ StepTo(w, "idle", None)
    /\ UNCHANGED mutex

-----------------------------------------------------------------------------
(* _release: by the owner inside its block, and again at the end of it.    *)

Over(l) == lease[l].state \in {"requested", "released"}

\* Mutant: the owner frees the directory under its borrowers.
ReleaseOnce_Now(w) ==
    IF Over(ref[w]) THEN UNCHANGED <<kernel, active, lease>>
    ELSE End(ref[w], IF active[Home[w]] = ref[w] THEN Without(Home[w]) ELSE active)

\* A lease that is not the active one any more (the code's guard against it) only ends itself.
ReleaseOnce(w) ==
    LET entered == active[Home[w]] = ref[w]
    IN CASE Over(ref[w]) -> UNCHANGED <<kernel, active, lease>>
         [] ~Over(ref[w]) /\ entered /\ lease[ref[w]].borrows > 0 ->
                /\ lease' = [lease EXCEPT ![ref[w]].state = "requested"]
                /\ UNCHANGED <<kernel, active>>
         [] OTHER -> End(ref[w], IF entered THEN Without(Home[w]) ELSE active)

Release(w) ==
    /\ Unlocked(w)
    /\ \/ doing[w] = "owning" /\ \E next \in {"closing", "idle"} :
             StepTo(w, next, IF next = "idle" THEN None ELSE ref[w])
       \/ doing[w] = "closing" /\ StepTo(w, "idle", None)
    /\ ReleaseOnce(w)
    /\ UNCHANGED mutex

-----------------------------------------------------------------------------
\* A launcher dies, and the kernel closes its handles; another one may start in its place.
Die(p) ==
    /\ \E w \in Workers : Home[w] = p /\ doing[w] # "idle"
    /\ doing' = [w \in Workers |-> IF Home[w] = p THEN "idle" ELSE doing[w]]
    /\ ref' = [w \in Workers |-> IF Home[w] = p THEN None ELSE ref[w]]
    /\ active' = [active EXCEPT ![p] = None]
    /\ mutex' = [mutex EXCEPT ![p] = None]
    /\ lease' = [l \in Leases |-> IF lease[l].process = p
                                  THEN [lease[l] EXCEPT !.state = "released", !.borrows = 0]
                                  ELSE lease[l]]
    /\ kernel' = IF kernel # None /\ lease[kernel].process = p THEN None ELSE kernel

LeaseInit ==
    /\ kernel = None
    /\ active = [p \in Processes |-> None] /\ mutex = [p \in Processes |-> None]
    /\ lease = [l \in Leases |-> [state |-> "unused", borrows |-> 0, process |-> None]]
    /\ doing = [w \in Workers |-> "idle"] /\ ref = [w \in Workers |-> None]

Call(w) ==
    \/ Refuse(w) \/ Dismiss(w) \/ LockFile(w) \/ Enter(w) \/ FailToEnter(w)
    \/ Pin(w) \/ Unpin(w) \/ Release(w)
\* The bound on the leases is reached and nobody is in a call.
AllIdle ==
    /\ \A l \in Leases : lease[l].state = "released"
    /\ \A w \in Workers : doing[w] = "idle"
    /\ UNCHANGED leaseVars
LeaseNext ==
    \/ AllIdle
    \/ \E w \in Workers : Call(w)
    \/ \E w, v \in Workers : Hand(w, v)
    \/ \E p \in Processes : Die(p)

LeaseSpec == LeaseInit /\ [][LeaseNext]_leaseVars
\* A callback run under a lease returns or raises, and then the block is left.
LeaseFairSpec == LeaseSpec /\ \A w \in Workers :
    WF_leaseVars(Enter(w) \/ FailToEnter(w)) /\ WF_leaseVars(Unpin(w)) /\ WF_leaseVars(Release(w))

-----------------------------------------------------------------------------
(* Properties                                                              *)

\* Every variable has its type.
LeaseTypeOK ==
    /\ kernel \in Leases \cup {None}
    /\ active \in [Processes -> Leases \cup {None}]
    /\ mutex \in [Processes -> Workers \cup {None}]
    /\ lease \in [Leases -> Objects]
    /\ doing \in [Workers -> {"idle", "refused", "locked", "owning", "borrowing", "closing"}]
    /\ ref \in [Workers -> Leases \cup {None}]

\* Whoever works on the directory, as an owner or a borrower, does so under the one lease that
\* has the kernel lock: a deferred or repeated release never frees it under a working thread.
WorkIsProtected == \A w \in Workers : Working(w) => ref[w] = kernel

\* The kernel lock is never left behind: it belongs to a worker who is in try_acquire or works.
NoLockLeaked ==
    kernel # None => \E w \in Workers : ref[w] = kernel /\ (Working(w) \/ doing[w] = "locked")

\* The lock is there exactly as long as somebody needs it (try_acquire, _release).
LockIsExact == WorkIsProtected /\ NoLockLeaked

\* Nobody is turned away from a directory nobody has: _active is never stale.
RefusedOnlyWhenHeld ==
    [][\A w \in Workers : Refuse(w) => kernel # None]_leaseVars

\* A release that waits for borrowers happens once the last of them is done.
RequestedIsReleased ==
    \A l \in Leases : lease[l].state = "requested" ~> lease[l].state = "released"

Use == INSTANCE ExclusiveUse WITH users <- {w \in Workers : Working(w)}
\* The coordinators and the kernel lock together keep the promise of the lease.
ImplementsExclusiveUse == Use!Spec
=============================================================================
