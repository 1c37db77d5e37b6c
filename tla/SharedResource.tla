---------------------------- MODULE SharedResource ----------------------------
(***************************************************************************)
(* The lock of a shared root (versions, libraries, Java runtimes):         *)
(* SharedResourceCoordinator (application/shared_resources.py), one per    *)
(* launcher process, over the kernel file lock (platform_lock.py).         *)
(*                                                                         *)
(* Unlike an instance lease it is reentrant: a pack installer enters it,   *)
(* and the loader and the Java installation it calls on the same thread    *)
(* enter it again.  `blocks` counts the open `with` blocks of a thread; it *)
(* is not known to the coordinator, which keeps one owner and one depth.   *)
(***************************************************************************)
EXTENDS Naturals, FiniteSets

CONSTANTS Workers, Processes, Home, None,
          MaxDepth  \* bound on the nesting of a thread

ASSUME SharedAssumption ==
    /\ Home \in [Workers -> Processes] /\ None \notin Workers
    /\ MaxDepth \in Nat

VARIABLES
    kernel,  \* the thread whose file handle has the kernel lock
    active,  \* _active of each process for this root: owner_thread and depth
    mutex,   \* _lock of each process: the thread that is taking the kernel lock
    blocks,  \* the open blocks of each thread
    block       \* "run", "locked" in OSFileLock.try_acquire, "busy" or "lost" after an error

sharedVars == <<kernel, active, mutex, blocks, block>>

Nobody == [owner |-> None, depth |-> 0]
Unlocked(w) == block[w] = "run" /\ mutex[Home[w]] = None
Other(w) == active[Home[w]].owner \notin {None, w}

\* Another thread, or another process, is in an operation: SharedResourceBusy.
Refuse(w) ==
    /\ Unlocked(w) /\ blocks[w] < MaxDepth
    /\ Other(w) \/ (active[Home[w]].owner = None /\ kernel # None)
    /\ block' = [block EXCEPT ![w] = "busy"]
    /\ UNCHANGED <<kernel, active, mutex, blocks>>

\* The error is caught by the caller; the blocks it is raised through are left by Leave.
Dismiss(w) ==
    /\ block[w] = "busy" /\ block' = [block EXCEPT ![w] = "run"]
    /\ UNCHANGED <<kernel, active, mutex, blocks>>

LockFile(w) ==
    /\ Unlocked(w) /\ blocks[w] < MaxDepth
    /\ active[Home[w]].owner = None /\ kernel = None
    /\ kernel' = w /\ mutex' = [mutex EXCEPT ![Home[w]] = w]
    /\ block' = [block EXCEPT ![w] = "locked"]
    /\ UNCHANGED <<active, blocks>>

Enter(w) ==
    /\ block[w] = "locked"
    /\ active' = [active EXCEPT ![Home[w]] = [owner |-> w, depth |-> 1]]
    /\ blocks' = [blocks EXCEPT ![w] = @ + 1]
    /\ mutex' = [mutex EXCEPT ![Home[w]] = None] /\ block' = [block EXCEPT ![w] = "run"]
    /\ UNCHANGED kernel

\* Mutant: a block that was never entered is counted out.
FailToEnter_Uncounts(w) ==
    /\ block[w] = "locked"
    /\ kernel' = None
    /\ blocks' = [blocks EXCEPT ![w] = @ - 1]
    /\ mutex' = [mutex EXCEPT ![Home[w]] = None] /\ block' = [block EXCEPT ![w] = "run"]
    /\ UNCHANGED active

\* Writing the owner's metadata raises: the kernel lock is given back.
FailToEnter(w) ==
    /\ block[w] = "locked"
    /\ kernel' = None
    /\ mutex' = [mutex EXCEPT ![Home[w]] = None] /\ block' = [block EXCEPT ![w] = "run"]
    /\ UNCHANGED <<active, blocks>>

\* Mutant: a nested entry is let in and not counted.
Reenter_Uncounted(w) ==
    /\ Unlocked(w) /\ blocks[w] < MaxDepth
    /\ active[Home[w]].owner = w
    /\ blocks' = [blocks EXCEPT ![w] = @ + 1]
    /\ UNCHANGED <<kernel, active, mutex, block>>

Reenter(w) ==
    /\ Unlocked(w) /\ blocks[w] < MaxDepth
    /\ active[Home[w]].owner = w
    /\ active' = [active EXCEPT ![Home[w]] = [owner |-> w, depth |-> active[Home[w]].depth + 1]]
    /\ blocks' = [blocks EXCEPT ![w] = @ + 1]
    /\ UNCHANGED <<kernel, mutex, block>>

\* A block ends.  The coordinator trusts the depth, not the block: the outermost one frees it.
Leave(w) ==
    /\ Unlocked(w) /\ blocks[w] > 0
    /\ blocks' = [blocks EXCEPT ![w] = @ - 1]
    /\ \/ /\ active[Home[w]].owner # w
          /\ block' = [block EXCEPT ![w] = "lost"] /\ UNCHANGED <<kernel, active>>
       \/ /\ active[Home[w]].owner = w /\ active[Home[w]].depth > 1
          /\ active' = [active EXCEPT
                          ![Home[w]] = [owner |-> w, depth |-> active[Home[w]].depth - 1]]
          /\ UNCHANGED <<kernel, block>>
       \/ /\ active[Home[w]].owner = w /\ active[Home[w]].depth <= 1
          /\ active' = [active EXCEPT ![Home[w]] = Nobody]
          /\ kernel' = IF kernel = w THEN None ELSE kernel
          /\ UNCHANGED block
    /\ UNCHANGED mutex

\* A launcher dies, and the kernel closes its handle; another one may start in its place.
Die(p) ==
    /\ \E w \in Workers : Home[w] = p /\ (blocks[w] > 0 \/ block[w] # "run")
    /\ kernel' = IF kernel # None /\ Home[kernel] = p THEN None ELSE kernel
    /\ active' = [active EXCEPT ![p] = Nobody] /\ mutex' = [mutex EXCEPT ![p] = None]
    /\ blocks' = [w \in Workers |-> IF Home[w] = p THEN 0 ELSE blocks[w]]
    /\ block' = [w \in Workers |-> IF Home[w] = p THEN "run" ELSE block[w]]

SharedInit ==
    /\ kernel = None
    /\ active = [p \in Processes |-> Nobody] /\ mutex = [p \in Processes |-> None]
    /\ blocks = [w \in Workers |-> 0] /\ block = [w \in Workers |-> "run"]

SharedNext ==
    \/ \E w \in Workers : \/ Refuse(w) \/ Dismiss(w) \/ LockFile(w) \/ Enter(w)
                          \/ FailToEnter(w) \/ Reenter(w) \/ Leave(w)
    \/ \E p \in Processes : Die(p)
SharedSpec == SharedInit /\ [][SharedNext]_sharedVars

-----------------------------------------------------------------------------
(* Properties                                                              *)

\* Every variable has its type.
SharedTypeOK ==
    /\ kernel \in Workers \cup {None}
    /\ active \in [Processes -> [owner : Workers \cup {None}, depth : Nat]]
    /\ mutex \in [Processes -> Workers \cup {None}]
    /\ blocks \in [Workers -> Nat]
    /\ block \in [Workers -> {"run", "locked", "busy", "lost"}]

\* A thread with an open block, however deep, has the kernel lock: an inner block that ends, or
\* one that was refused, never frees the root under the outer one.
BlocksAreProtected == \A w \in Workers : blocks[w] > 0 => kernel = w

\* The depth is the number of open blocks of the owner, so the outermost end frees the root,
\* none earlier and none never, and no end finds the ownership lost.
DepthIsExact ==
    /\ \A w \in Workers : block[w] # "lost"
    /\ \A w \in Workers : active[Home[w]].owner = w => active[Home[w]].depth = blocks[w]
    /\ kernel # None => blocks[kernel] > 0 \/ block[kernel] = "locked"

\* The root is locked under every block, and the count that frees it is right (operation).
RootIsExclusive == BlocksAreProtected /\ DepthIsExact
=============================================================================
