------------------------- MODULE InstanceLeaseProofs -------------------------
(***************************************************************************)
(* Proofs about InstanceLease.  The inductive invariant ties the three     *)
(* places that say who has the directory together: the kernel lock, the    *)
(* tables of the coordinators and the workers' own view; and it counts the *)
(* borrowers, since the deferred release rests on that count.              *)
(***************************************************************************)
EXTENDS InstanceLease, FiniteSetTheorems, TLAPS

Live(l) == lease[l].state \in {"held", "requested"}

\* A lease in _active has the kernel lock and belongs to that process.
ActiveHolds ==
    \A p \in Processes : active[p] # None =>
        kernel = active[p] /\ Live(active[p]) /\ lease[active[p]].process = p

\* Inside try_acquire: the worker has _lock and the kernel lock, and no lease is entered.
LockedHolds ==
    \A w \in Workers : doing[w] = "locked" =>
        /\ mutex[Home[w]] = w /\ ref[w] # None /\ ref[w] = kernel /\ active[Home[w]] = None
        /\ lease[ref[w]].state = "held" /\ lease[ref[w]].borrows = 0
        /\ lease[ref[w]].process = Home[w]

\* A working thread knows the active lease of its process; an owner's is not being released.
WorkersHold ==
    \A w \in Workers :
        /\ Working(w) => ref[w] # None /\ active[Home[w]] = ref[w]
        /\ doing[w] = "owning" => lease[ref[w]].state = "held"
        /\ doing[w] = "closing" => ref[w] # None /\ Over(ref[w])
        /\ ref[w] # None => lease[ref[w]].state # "unused"

\* A lease has one owner.
OneOwner ==
    \A w, v \in Workers :
        doing[w] \in {"owning", "locked"} /\ doing[v] \in {"owning", "locked"} /\ ref[w] = ref[v]
            => w = v

\* The kernel lock is with the lease that is not over, and that lease is somebody's.
LiveIsHeld ==
    /\ kernel # None => Live(kernel)
    /\ \A l \in Leases : Live(l) => kernel = l
    /\ \A l \in Leases : lease[l].state = "held" =>
           \E w \in Workers : ref[w] = l /\ doing[w] \in {"owning", "locked"}
    /\ \A l \in Leases : lease[l].state = "requested" => lease[l].borrows > 0

\* _borrow_count is the number of borrowers.
BorrowsCounted ==
    \A l \in Leases : Live(l) => lease[l].borrows = Cardinality(Borrowers(l))

IInv == /\ LeaseTypeOK /\ ActiveHolds /\ LockedHolds /\ WorkersHold /\ OneOwner
        /\ LiveIsHeld /\ BorrowsCounted

-----------------------------------------------------------------------------
\* The sets of borrowers are finite, so that they can be counted.
LEMMA BorrowersFinite == ASSUME NEW l PROVE IsFiniteSet(Borrowers(l))
  BY LeaseAssumption, FS_Subset DEF Borrowers

\* Taking one borrower away or adding one changes the count by one.
LEMMA CountOne ==
    ASSUME NEW S, IsFiniteSet(S), NEW w
    PROVE  /\ Cardinality(S) \in Nat
           /\ w \notin S => Cardinality(S \cup {w}) = Cardinality(S) + 1
           /\ w \in S => Cardinality(S \ {w}) = Cardinality(S) - 1
  BY FS_CardinalityType, FS_AddElement, FS_RemoveElement

\* The invariant holds initially.
LEMMA InitInv == LeaseInit => IInv
  BY LeaseAssumption DEF LeaseInit, IInv, LeaseTypeOK, ActiveHolds, LockedHolds, WorkersHold, OneOwner,
     LiveIsHeld, BorrowsCounted, Live, Objects, Working, Over

\* A refusal preserves the invariant.
LEMMA RefuseInv == ASSUME IInv, NEW w \in Workers, Refuse(w) PROVE IInv'
<1> USE LeaseAssumption
<1>f. /\ doing[w] = "idle"
      /\ lease \in [Leases -> Objects]
  BY DEF Refuse, IInv, LeaseTypeOK, Objects
<1>e. /\ \A v \in Workers : doing'[v] = (IF v = w THEN "refused" ELSE doing[v]) /\ ref'[v] = (IF v = w THEN None ELSE ref[v])
      /\ UNCHANGED <<kernel, active, mutex, lease>>
  BY <1>f DEF Refuse, StepTo, IInv, LeaseTypeOK, Objects
<1>1. LeaseTypeOK'
  BY <1>f DEF Refuse, StepTo, IInv, LeaseTypeOK, Objects
<1>2. ActiveHolds'
  BY <1>e, <1>f DEF IInv, LeaseTypeOK, ActiveHolds, LockedHolds, WorkersHold, OneOwner, LiveIsHeld, Working, Live, Over
<1>3. LockedHolds'
  BY <1>e, <1>f DEF IInv, LeaseTypeOK, ActiveHolds, LockedHolds, WorkersHold, OneOwner, LiveIsHeld, Working, Live, Over
<1>4. WorkersHold'
  BY <1>e, <1>f DEF IInv, LeaseTypeOK, ActiveHolds, LockedHolds, WorkersHold, OneOwner, LiveIsHeld, Working, Live, Over
<1>5. OneOwner'
  BY <1>e, <1>f DEF IInv, LeaseTypeOK, ActiveHolds, LockedHolds, WorkersHold, OneOwner, LiveIsHeld, Working, Live, Over
<1>6. LiveIsHeld'
  BY <1>e, <1>f DEF IInv, LeaseTypeOK, ActiveHolds, LockedHolds, WorkersHold, OneOwner, LiveIsHeld, Working, Live, Over
<1>b. \A l \in Leases : Live(l)' => /\ Live(l) /\ Borrowers(l)' = Borrowers(l)
                                  /\ lease'[l].borrows = lease[l].borrows
  BY <1>e, <1>f DEF IInv, LeaseTypeOK, ActiveHolds, LockedHolds, WorkersHold, OneOwner, LiveIsHeld, Working, Live, Borrowers
<1>7. BorrowsCounted'
  BY <1>b DEF IInv, BorrowsCounted
<1> QED BY <1>1, <1>2, <1>3, <1>4, <1>5, <1>6, <1>7 DEF IInv

\* So does its end.
LEMMA DismissInv == ASSUME IInv, NEW w \in Workers, Dismiss(w) PROVE IInv'
<1> USE LeaseAssumption
<1>f. /\ doing[w] = "refused"
      /\ lease \in [Leases -> Objects]
  BY DEF Dismiss, IInv, LeaseTypeOK, Objects
<1>e. /\ \A v \in Workers : doing'[v] = (IF v = w THEN "idle" ELSE doing[v]) /\ ref'[v] = (IF v = w THEN None ELSE ref[v])
      /\ UNCHANGED <<kernel, active, mutex, lease>>
  BY <1>f DEF Dismiss, StepTo, IInv, LeaseTypeOK, Objects
<1>1. LeaseTypeOK'
  BY <1>f DEF Dismiss, StepTo, IInv, LeaseTypeOK, Objects
<1>2. ActiveHolds'
  BY <1>e, <1>f DEF IInv, LeaseTypeOK, ActiveHolds, LockedHolds, WorkersHold, OneOwner, LiveIsHeld, Working, Live, Over
<1>3. LockedHolds'
  BY <1>e, <1>f DEF IInv, LeaseTypeOK, ActiveHolds, LockedHolds, WorkersHold, OneOwner, LiveIsHeld, Working, Live, Over
<1>4. WorkersHold'
  BY <1>e, <1>f DEF IInv, LeaseTypeOK, ActiveHolds, LockedHolds, WorkersHold, OneOwner, LiveIsHeld, Working, Live, Over
<1>5. OneOwner'
  BY <1>e, <1>f DEF IInv, LeaseTypeOK, ActiveHolds, LockedHolds, WorkersHold, OneOwner, LiveIsHeld, Working, Live, Over
<1>6. LiveIsHeld'
  BY <1>e, <1>f DEF IInv, LeaseTypeOK, ActiveHolds, LockedHolds, WorkersHold, OneOwner, LiveIsHeld, Working, Live, Over
<1>b. \A l \in Leases : Live(l)' => /\ Live(l) /\ Borrowers(l)' = Borrowers(l)
                                  /\ lease'[l].borrows = lease[l].borrows
  BY <1>e, <1>f DEF IInv, LeaseTypeOK, ActiveHolds, LockedHolds, WorkersHold, OneOwner, LiveIsHeld, Working, Live, Borrowers
<1>7. BorrowsCounted'
  BY <1>b DEF IInv, BorrowsCounted
<1> QED BY <1>1, <1>2, <1>3, <1>4, <1>5, <1>6, <1>7 DEF IInv

\* Enter preserves the invariant: the lease that has the kernel lock becomes the active one.
LEMMA EnterInv == ASSUME IInv, NEW w \in Workers, Enter(w) PROVE IInv'
<1> USE LeaseAssumption
<1>f. /\ doing[w] = "locked"
      /\ ref[w] \in Leases /\ ref[w] # None /\ kernel = ref[w]
      /\ lease[ref[w]].state = "held" /\ lease[ref[w]].process = Home[w]
      /\ mutex[Home[w]] = w /\ active[Home[w]] = None /\ Home[w] \in Processes
  BY DEF Enter, LockedHolds, IInv, LeaseTypeOK, Objects
<1>e. /\ \A v \in Workers : doing'[v] = (IF v = w THEN "owning" ELSE doing[v]) /\ ref'[v] = (IF v = w THEN ref[w] ELSE ref[v])
      /\ \A p \in Processes : active'[p] = (IF p = Home[w] THEN ref[w] ELSE active[p])
      /\ \A p \in Processes : mutex'[p] = (IF p = Home[w] THEN None ELSE mutex[p])
      /\ UNCHANGED <<kernel, lease>>
  BY <1>f DEF Enter, StepTo, IInv, LeaseTypeOK, Objects
<1>1. LeaseTypeOK'
  BY <1>f DEF Enter, StepTo, IInv, LeaseTypeOK, Objects
<1>2. ActiveHolds'
  BY <1>e, <1>f DEF IInv, LeaseTypeOK, ActiveHolds, LockedHolds, WorkersHold, OneOwner, LiveIsHeld, Working, Live, Over
<1>3. LockedHolds'
  BY <1>e, <1>f DEF IInv, LeaseTypeOK, ActiveHolds, LockedHolds, WorkersHold, OneOwner, LiveIsHeld, Working, Live, Over
<1>4. WorkersHold'
  BY <1>e, <1>f DEF IInv, LeaseTypeOK, ActiveHolds, LockedHolds, WorkersHold, OneOwner, LiveIsHeld, Working, Live, Over
<1>5. OneOwner'
  BY <1>e, <1>f DEF IInv, LeaseTypeOK, ActiveHolds, LockedHolds, WorkersHold, OneOwner, LiveIsHeld, Working, Live, Over
<1>6. LiveIsHeld'
  BY <1>e, <1>f DEF IInv, LeaseTypeOK, ActiveHolds, LockedHolds, WorkersHold, OneOwner, LiveIsHeld, Working, Live, Over
<1>b. \A l \in Leases : Live(l)' => /\ Live(l) /\ Borrowers(l)' = Borrowers(l)
                                  /\ lease'[l].borrows = lease[l].borrows
  BY <1>e, <1>f DEF IInv, LeaseTypeOK, ActiveHolds, LockedHolds, WorkersHold, OneOwner, LiveIsHeld, Working, Live, Borrowers
<1>7. BorrowsCounted'
  BY <1>b DEF IInv, BorrowsCounted
<1> QED BY <1>1, <1>2, <1>3, <1>4, <1>5, <1>6, <1>7 DEF IInv

\* FailToEnter preserves the invariant: the lock goes and the lease is over.
LEMMA FailToEnterInv == ASSUME IInv, NEW w \in Workers, FailToEnter(w) PROVE IInv'
<1> USE LeaseAssumption
<1>f. /\ doing[w] = "locked"
      /\ ref[w] \in Leases /\ ref[w] # None /\ kernel = ref[w]
      /\ lease[ref[w]].state = "held" /\ lease[ref[w]].process = Home[w]
      /\ mutex[Home[w]] = w /\ active[Home[w]] = None /\ Home[w] \in Processes
  BY DEF FailToEnter, LockedHolds, IInv, LeaseTypeOK, Objects
<1>e. /\ \A v \in Workers : doing'[v] = (IF v = w THEN "idle" ELSE doing[v]) /\ ref'[v] = (IF v = w THEN None ELSE ref[v])
      /\ \A p \in Processes : mutex'[p] = (IF p = Home[w] THEN None ELSE mutex[p])
      /\ kernel' = None /\ active' = active
      /\ \A l \in Leases : /\ lease'[l].state = (IF l = ref[w] THEN "released" ELSE lease[l].state)
                          /\ lease'[l].borrows = (IF l = ref[w] THEN lease[l].borrows ELSE lease[l].borrows)
                          /\ lease'[l].process = (IF l = ref[w] THEN lease[l].process ELSE lease[l].process)
  BY <1>f DEF FailToEnter, StepTo, IInv, LeaseTypeOK, Objects
<1>1. LeaseTypeOK'
  BY <1>f DEF FailToEnter, StepTo, IInv, LeaseTypeOK, Objects
<1>2. ActiveHolds'
  BY <1>e, <1>f DEF IInv, LeaseTypeOK, ActiveHolds, LockedHolds, WorkersHold, OneOwner, LiveIsHeld, Working, Live, Over
<1>3. LockedHolds'
  BY <1>e, <1>f DEF IInv, LeaseTypeOK, ActiveHolds, LockedHolds, WorkersHold, OneOwner, LiveIsHeld, Working, Live, Over
<1>4. WorkersHold'
  BY <1>e, <1>f DEF IInv, LeaseTypeOK, ActiveHolds, LockedHolds, WorkersHold, OneOwner, LiveIsHeld, Working, Live, Over
<1>5. OneOwner'
  BY <1>e, <1>f DEF IInv, LeaseTypeOK, ActiveHolds, LockedHolds, WorkersHold, OneOwner, LiveIsHeld, Working, Live, Over
<1>6. LiveIsHeld'
  BY <1>e, <1>f DEF IInv, LeaseTypeOK, ActiveHolds, LockedHolds, WorkersHold, OneOwner, LiveIsHeld, Working, Live, Over
<1>b. \A l \in Leases : Live(l)' => /\ Live(l) /\ Borrowers(l)' = Borrowers(l)
                                  /\ lease'[l].borrows = lease[l].borrows
  BY <1>e, <1>f DEF IInv, LeaseTypeOK, ActiveHolds, LockedHolds, WorkersHold, OneOwner, LiveIsHeld, Working, Live, Borrowers
<1>7. BorrowsCounted'
  BY <1>b DEF IInv, BorrowsCounted
<1> QED BY <1>1, <1>2, <1>3, <1>4, <1>5, <1>6, <1>7 DEF IInv

\* LockFile preserves the invariant: an unused lease has no borrower and nobody knows it.
LEMMA LockFileInv == ASSUME IInv, NEW w \in Workers, LockFile(w) PROVE IInv'
<1> USE LeaseAssumption
<1>p. PICK l \in Leases :
         /\ lease[l].state = "unused"
         /\ lease' = [lease EXCEPT ![l] = [state |-> "held", borrows |-> 0, process |-> Home[w]]]
         /\ kernel' = l
         /\ StepTo(w, "locked", l)
  BY DEF LockFile
<1>f. /\ doing[w] = "idle" /\ l # None /\ Home[w] \in Processes
      /\ active[Home[w]] = None /\ kernel = None /\ mutex[Home[w]] = None
  BY DEF LockFile, Unlocked, IInv, LeaseTypeOK
<1>e. /\ \A v \in Workers : doing'[v] = (IF v = w THEN "locked" ELSE doing[v])
                           /\ ref'[v] = (IF v = w THEN l ELSE ref[v])
      /\ \A p \in Processes : mutex'[p] = (IF p = Home[w] THEN w ELSE mutex[p])
      /\ kernel' = l /\ active' = active
      /\ \A m \in Leases : /\ lease'[m].state = (IF m = l THEN "held" ELSE lease[m].state)
                          /\ lease'[m].borrows = (IF m = l THEN 0 ELSE lease[m].borrows)
                          /\ lease'[m].process = (IF m = l THEN Home[w] ELSE lease[m].process)
  BY <1>p, <1>f DEF LockFile, StepTo, IInv, LeaseTypeOK, Objects
<1>1. LeaseTypeOK'
  BY <1>p, <1>f DEF LockFile, StepTo, IInv, LeaseTypeOK, Objects
<1>2. ActiveHolds'
  BY <1>e, <1>f, <1>p DEF IInv, LeaseTypeOK, ActiveHolds, LockedHolds, WorkersHold, OneOwner, LiveIsHeld, Working, Live, Over
<1>3. LockedHolds'
  BY <1>e, <1>f, <1>p DEF IInv, LeaseTypeOK, ActiveHolds, LockedHolds, WorkersHold, OneOwner, LiveIsHeld, Working, Live, Over
<1>4. WorkersHold'
  BY <1>e, <1>f, <1>p DEF IInv, LeaseTypeOK, ActiveHolds, LockedHolds, WorkersHold, OneOwner, LiveIsHeld, Working, Live, Over
<1>5. OneOwner'
  BY <1>e, <1>f, <1>p DEF IInv, LeaseTypeOK, ActiveHolds, LockedHolds, WorkersHold, OneOwner, LiveIsHeld, Working, Live, Over
<1>6. LiveIsHeld'
  BY <1>e, <1>f, <1>p DEF IInv, LeaseTypeOK, ActiveHolds, LockedHolds, WorkersHold, OneOwner, LiveIsHeld, Working, Live, Over
<1>c. Cardinality({}) = 0
  BY FS_EmptySet
<1>b. \A m \in Leases : Borrowers(m)' = IF m = l THEN {} ELSE Borrowers(m)
  BY <1>e, <1>f, <1>p DEF IInv, WorkersHold, ActiveHolds, Working, Borrowers, Live
<1>7. BorrowsCounted'
  <2> SUFFICES ASSUME NEW m \in Leases, Live(m)'
               PROVE  lease'[m].borrows = Cardinality(Borrowers(m)')
    BY DEF BorrowsCounted
  <2>1. CASE m = l
    BY <2>1, <1>b, <1>c, <1>e
  <2>2. CASE m # l
    BY <2>2, <1>b, <1>e DEF IInv, BorrowsCounted, Live
  <2> QED BY <2>1, <2>2
<1> QED BY <1>1, <1>2, <1>3, <1>4, <1>5, <1>6, <1>7 DEF IInv

\* Hand preserves the invariant: an idle worker is no borrower yet.
LEMMA HandInv == ASSUME IInv, NEW w \in Workers, NEW v \in Workers, Hand(w, v) PROVE IInv'
<1> USE LeaseAssumption
<1>f. /\ doing[v] = "idle" /\ Working(w)
      /\ ref[w] \in Leases /\ ref[w] # None /\ lease[ref[w]].state # "unused"
  BY DEF Hand, WorkersHold, IInv, LeaseTypeOK, Objects
<1>e. /\ \A u \in Workers : ref'[u] = (IF u = v THEN ref[w] ELSE ref[u])
      /\ UNCHANGED <<kernel, active, mutex, lease, doing>>
  BY <1>f DEF Hand, IInv, LeaseTypeOK, Objects
<1>1. LeaseTypeOK'
  BY <1>f DEF Hand, IInv, LeaseTypeOK, Objects
<1>2. ActiveHolds'
  BY <1>e, <1>f DEF IInv, LeaseTypeOK, ActiveHolds, LockedHolds, WorkersHold, OneOwner, LiveIsHeld, Working, Live, Over
<1>3. LockedHolds'
  BY <1>e, <1>f DEF IInv, LeaseTypeOK, ActiveHolds, LockedHolds, WorkersHold, OneOwner, LiveIsHeld, Working, Live, Over
<1>4. WorkersHold'
  BY <1>e, <1>f DEF IInv, LeaseTypeOK, ActiveHolds, LockedHolds, WorkersHold, OneOwner, LiveIsHeld, Working, Live, Over
<1>5. OneOwner'
  BY <1>e, <1>f DEF IInv, LeaseTypeOK, ActiveHolds, LockedHolds, WorkersHold, OneOwner, LiveIsHeld, Working, Live, Over
<1>6. LiveIsHeld'
  BY <1>e, <1>f DEF IInv, LeaseTypeOK, ActiveHolds, LockedHolds, WorkersHold, OneOwner, LiveIsHeld, Working, Live, Over
<1>b. \A l \in Leases : Live(l)' => /\ Live(l) /\ Borrowers(l)' = Borrowers(l)
                                  /\ lease'[l].borrows = lease[l].borrows
  BY <1>e, <1>f DEF IInv, LeaseTypeOK, ActiveHolds, LockedHolds, WorkersHold, OneOwner, LiveIsHeld, Working, Live, Borrowers
<1>7. BorrowsCounted'
  BY <1>b DEF IInv, BorrowsCounted
<1> QED BY <1>1, <1>2, <1>3, <1>4, <1>5, <1>6, <1>7 DEF IInv

\* Pin preserves the invariant when the lease is refused.
LEMMA PinRefusedInv == ASSUME IInv, NEW w \in Workers, Pin(w), ~Valid(w) PROVE IInv'
<1> USE LeaseAssumption
<1>f. /\ doing[w] = "idle"
  BY DEF Pin, IInv, LeaseTypeOK, Objects
<1>e. /\ \A v \in Workers : doing'[v] = (IF v = w THEN "refused" ELSE doing[v]) /\ ref'[v] = (IF v = w THEN None ELSE ref[v])
      /\ UNCHANGED <<kernel, active, mutex, lease>>
  BY <1>f DEF Pin, StepTo, IInv, LeaseTypeOK, Objects
<1>1. LeaseTypeOK'
  BY <1>f DEF Pin, StepTo, IInv, LeaseTypeOK, Objects
<1>2. ActiveHolds'
  BY <1>e, <1>f DEF IInv, LeaseTypeOK, ActiveHolds, LockedHolds, WorkersHold, OneOwner, LiveIsHeld, Working, Live, Over
<1>3. LockedHolds'
  BY <1>e, <1>f DEF IInv, LeaseTypeOK, ActiveHolds, LockedHolds, WorkersHold, OneOwner, LiveIsHeld, Working, Live, Over
<1>4. WorkersHold'
  BY <1>e, <1>f DEF IInv, LeaseTypeOK, ActiveHolds, LockedHolds, WorkersHold, OneOwner, LiveIsHeld, Working, Live, Over
<1>5. OneOwner'
  BY <1>e, <1>f DEF IInv, LeaseTypeOK, ActiveHolds, LockedHolds, WorkersHold, OneOwner, LiveIsHeld, Working, Live, Over
<1>6. LiveIsHeld'
  BY <1>e, <1>f DEF IInv, LeaseTypeOK, ActiveHolds, LockedHolds, WorkersHold, OneOwner, LiveIsHeld, Working, Live, Over
<1>b. \A l \in Leases : Live(l)' => /\ Live(l) /\ Borrowers(l)' = Borrowers(l)
                                  /\ lease'[l].borrows = lease[l].borrows
  BY <1>e, <1>f DEF IInv, LeaseTypeOK, ActiveHolds, LockedHolds, WorkersHold, OneOwner, LiveIsHeld, Working, Live, Borrowers
<1>7. BorrowsCounted'
  BY <1>b DEF IInv, BorrowsCounted
<1> QED BY <1>1, <1>2, <1>3, <1>4, <1>5, <1>6, <1>7 DEF IInv

\* Pin preserves the invariant when it counts one borrower more.
LEMMA PinnedInv == ASSUME IInv, NEW w \in Workers, Pin(w), Valid(w) PROVE IInv'
<1> USE LeaseAssumption
<1>f. /\ doing[w] = "idle"
      /\ ref[w] \in Leases /\ ref[w] # None /\ lease[ref[w]].state = "held"
      /\ active[Home[w]] = ref[w] /\ mutex[Home[w]] = None /\ Home[w] \in Processes
  BY DEF Pin, Valid, Unlocked, IInv, LeaseTypeOK, Objects
<1>e. /\ \A v \in Workers : doing'[v] = (IF v = w THEN "borrowing" ELSE doing[v]) /\ ref'[v] = (IF v = w THEN ref[w] ELSE ref[v])
      /\ UNCHANGED <<kernel, active, mutex>>
      /\ \A l \in Leases : /\ lease'[l].state = (IF l = ref[w] THEN lease[l].state ELSE lease[l].state)
                          /\ lease'[l].borrows = (IF l = ref[w] THEN lease[l].borrows + 1 ELSE lease[l].borrows)
                          /\ lease'[l].process = (IF l = ref[w] THEN lease[l].process ELSE lease[l].process)
  BY <1>f DEF Pin, StepTo, IInv, LeaseTypeOK, Objects
<1>1. LeaseTypeOK'
  <2>1. /\ lease' = [lease EXCEPT ![ref[w]].borrows = @ + 1]
        /\ doing' = [doing EXCEPT ![w] = "borrowing"] /\ ref' = [ref EXCEPT ![w] = ref[w]]
        /\ UNCHANGED <<kernel, active, mutex>>
    BY DEF Pin, StepTo
  <2>2. lease' \in [Leases -> Objects]
    BY <2>1, <1>f, SMTT(30) DEF IInv, LeaseTypeOK, Objects
  <2> QED BY <2>1, <2>2, <1>f, SMTT(30) DEF IInv, LeaseTypeOK
<1>2. ActiveHolds'
  BY <1>e, <1>f DEF IInv, LeaseTypeOK, ActiveHolds, LockedHolds, WorkersHold, OneOwner, LiveIsHeld, Working, Live, Over
<1>3. LockedHolds'
  BY <1>e, <1>f DEF IInv, LeaseTypeOK, ActiveHolds, LockedHolds, WorkersHold, OneOwner, LiveIsHeld, Working, Live, Over
<1>4. WorkersHold'
  BY <1>e, <1>f DEF IInv, LeaseTypeOK, ActiveHolds, LockedHolds, WorkersHold, OneOwner, LiveIsHeld, Working, Live, Over
<1>5. OneOwner'
  BY <1>e, <1>f DEF IInv, LeaseTypeOK, ActiveHolds, LockedHolds, WorkersHold, OneOwner, LiveIsHeld, Working, Live, Over
<1>6. LiveIsHeld'
  BY <1>e, <1>f DEF IInv, LeaseTypeOK, ActiveHolds, LockedHolds, WorkersHold, OneOwner, LiveIsHeld, Working, Live, Over
<1>b. \A m \in Leases : IF m = ref[w] THEN Borrowers(m)' = Borrowers(m) \cup {w} /\ w \notin Borrowers(m)
                                   ELSE Borrowers(m)' = Borrowers(m)
  BY <1>e, <1>f DEF Borrowers
<1>c. \A m \in Leases : m = ref[w] => Cardinality(Borrowers(m)') = Cardinality(Borrowers(m)) + 1
  BY <1>b, BorrowersFinite, CountOne
<1>7. BorrowsCounted'
  BY <1>b, <1>c, <1>e, <1>f DEF IInv, BorrowsCounted, Live
<1> QED BY <1>1, <1>2, <1>3, <1>4, <1>5, <1>6, <1>7 DEF IInv

\* The last borrower of a requested lease ends it: nobody else works on it.
LEMMA UnpinLastInv ==
    ASSUME IInv, NEW w \in Workers, Unpin(w),
           lease[ref[w]].borrows = 1, lease[ref[w]].state = "requested"
    PROVE  IInv'
<1> USE LeaseAssumption
<1>f. /\ doing[w] = "borrowing"
      /\ ref[w] \in Leases /\ ref[w] # None /\ kernel = ref[w] /\ Live(ref[w])
      /\ active[Home[w]] = ref[w] /\ mutex[Home[w]] = None /\ Home[w] \in Processes
      /\ lease[ref[w]].process = Home[w]
  BY DEF Unpin, Unlocked, WorkersHold, ActiveHolds, Working, IInv, LeaseTypeOK, Objects
<1>c. /\ IsFiniteSet(Borrowers(ref[w])) /\ w \in Borrowers(ref[w])
      /\ lease[ref[w]].borrows = Cardinality(Borrowers(ref[w]))
  BY <1>f, BorrowersFinite DEF Borrowers, IInv, BorrowsCounted
<1>d. \A v \in Workers : Working(v) /\ Home[v] = Home[w] => v = w
  <2>1. Borrowers(ref[w]) \ {w} = {}
    <3>1. Cardinality(Borrowers(ref[w]) \ {w}) = 0
      BY <1>c, CountOne
    <3> QED BY <3>1, <1>c, FS_EmptySet, FS_Subset
  <2>2. \A v \in Workers : Working(v) /\ Home[v] = Home[w] => doing[v] = "borrowing" /\ ref[v] = ref[w]
    BY <1>f DEF IInv, WorkersHold, Working
  <2> QED BY <2>1, <2>2 DEF Borrowers
<1>e. /\ \A v \in Workers : doing'[v] = (IF v = w THEN "idle" ELSE doing[v]) /\ ref'[v] = (IF v = w THEN None ELSE ref[v])
      /\ \A p \in Processes : active'[p] = (IF p = Home[w] THEN None ELSE active[p])
      /\ kernel' = None /\ mutex' = mutex
      /\ \A l \in Leases : /\ lease'[l].state = (IF l = ref[w] THEN "released" ELSE lease[l].state)
                          /\ lease'[l].borrows = (IF l = ref[w] THEN 0 ELSE lease[l].borrows)
                          /\ lease'[l].process = (IF l = ref[w] THEN lease[l].process ELSE lease[l].process)
  BY <1>f DEF Unpin, End, Without, StepTo, IInv, LeaseTypeOK, Objects
<1>1. LeaseTypeOK'
  BY <1>f DEF Unpin, End, Without, StepTo, IInv, LeaseTypeOK, Objects
<1>2. ActiveHolds'
  BY <1>e, <1>f, <1>d DEF IInv, LeaseTypeOK, ActiveHolds, LockedHolds, WorkersHold, OneOwner, LiveIsHeld, Working, Live, Over
<1>3. LockedHolds'
  BY <1>e, <1>f, <1>d DEF IInv, LeaseTypeOK, ActiveHolds, LockedHolds, WorkersHold, OneOwner, LiveIsHeld, Working, Live, Over
<1>4. WorkersHold'
  BY <1>e, <1>f, <1>d DEF IInv, LeaseTypeOK, ActiveHolds, LockedHolds, WorkersHold, OneOwner, LiveIsHeld, Working, Live, Over
<1>5. OneOwner'
  BY <1>e, <1>f, <1>d DEF IInv, LeaseTypeOK, ActiveHolds, LockedHolds, WorkersHold, OneOwner, LiveIsHeld, Working, Live, Over
<1>6. LiveIsHeld'
  BY <1>e, <1>f, <1>d DEF IInv, LeaseTypeOK, ActiveHolds, LockedHolds, WorkersHold, OneOwner, LiveIsHeld, Working, Live, Over
<1>b. \A l \in Leases : ~Live(l)'
  BY <1>e, <1>f DEF IInv, LiveIsHeld, Live
<1>7. BorrowsCounted'
  BY <1>b DEF BorrowsCounted
<1> QED BY <1>1, <1>2, <1>3, <1>4, <1>5, <1>6, <1>7 DEF IInv

\* Unpin preserves the invariant when others still borrow or the owner still works.
LEMMA UnpinInv ==
    ASSUME IInv, NEW w \in Workers, Unpin(w),
           ~(lease[ref[w]].borrows = 1 /\ lease[ref[w]].state = "requested")
    PROVE  IInv'
<1> USE LeaseAssumption
<1>f. /\ doing[w] = "borrowing"
      /\ ref[w] \in Leases /\ ref[w] # None /\ kernel = ref[w] /\ Live(ref[w])
      /\ active[Home[w]] = ref[w] /\ mutex[Home[w]] = None /\ Home[w] \in Processes
      /\ lease[ref[w]].process = Home[w]
  BY DEF Unpin, Unlocked, WorkersHold, ActiveHolds, Working, IInv, LeaseTypeOK, Objects
<1>c. /\ IsFiniteSet(Borrowers(ref[w])) /\ w \in Borrowers(ref[w])
      /\ lease[ref[w]].borrows = Cardinality(Borrowers(ref[w]))
  BY <1>f, BorrowersFinite DEF Borrowers, IInv, BorrowsCounted
<1>g. lease[ref[w]].borrows \in Nat /\ lease[ref[w]].borrows > 0
  <2>1. Cardinality(Borrowers(ref[w]) \ {w}) = Cardinality(Borrowers(ref[w])) - 1
    BY <1>c, CountOne
  <2>2. Cardinality(Borrowers(ref[w]) \ {w}) \in Nat /\ Cardinality(Borrowers(ref[w])) \in Nat
    BY <1>c, FS_Subset, FS_CardinalityType
  <2> QED BY <1>c, <2>1, <2>2
<1>e. /\ \A v \in Workers : doing'[v] = (IF v = w THEN "idle" ELSE doing[v]) /\ ref'[v] = (IF v = w THEN None ELSE ref[v])
      /\ UNCHANGED <<kernel, active, mutex>>
      /\ \A l \in Leases : /\ lease'[l].state = (IF l = ref[w] THEN lease[l].state ELSE lease[l].state)
                          /\ lease'[l].borrows = (IF l = ref[w] THEN lease[l].borrows - 1 ELSE lease[l].borrows)
                          /\ lease'[l].process = (IF l = ref[w] THEN lease[l].process ELSE lease[l].process)
  BY <1>f, <1>g DEF Unpin, StepTo, IInv, LeaseTypeOK, Objects
<1>h. lease[ref[w]].borrows - 1 \in Nat /\ (lease[ref[w]].state = "requested" => lease[ref[w]].borrows - 1 > 0)
  BY <1>g
<1>1. LeaseTypeOK'
  <2>1. lease' \in [Leases -> Objects]
    BY <1>f, <1>h DEF Unpin, IInv, LeaseTypeOK, Objects
  <2> QED BY <2>1, <1>f DEF Unpin, StepTo, IInv, LeaseTypeOK
<1>2. ActiveHolds'
  BY <1>e, <1>f, <1>h DEF IInv, LeaseTypeOK, ActiveHolds, LockedHolds, WorkersHold, OneOwner, LiveIsHeld, Working, Live, Over
<1>3. LockedHolds'
  BY <1>e, <1>f, <1>h DEF IInv, LeaseTypeOK, ActiveHolds, LockedHolds, WorkersHold, OneOwner, LiveIsHeld, Working, Live, Over
<1>4. WorkersHold'
  BY <1>e, <1>f, <1>h DEF IInv, LeaseTypeOK, ActiveHolds, LockedHolds, WorkersHold, OneOwner, LiveIsHeld, Working, Live, Over
<1>5. OneOwner'
  BY <1>e, <1>f, <1>h DEF IInv, LeaseTypeOK, ActiveHolds, LockedHolds, WorkersHold, OneOwner, LiveIsHeld, Working, Live, Over
<1>6. LiveIsHeld'
  BY <1>e, <1>f, <1>h DEF IInv, LeaseTypeOK, ActiveHolds, LockedHolds, WorkersHold, OneOwner, LiveIsHeld, Working, Live, Over
<1>b. \A m \in Leases : Borrowers(m)' = IF m = ref[w] THEN Borrowers(m) \ {w} ELSE Borrowers(m)
  BY <1>e, <1>f DEF Borrowers
<1>d. \A m \in Leases : m = ref[w] => Cardinality(Borrowers(m)') = Cardinality(Borrowers(m)) - 1
  BY <1>b, <1>c, CountOne
<1>7. BorrowsCounted'
  BY <1>b, <1>c, <1>d, <1>e, <1>f DEF IInv, BorrowsCounted, Live
<1> QED BY <1>1, <1>2, <1>3, <1>4, <1>5, <1>6, <1>7 DEF IInv

\* A second release changes nothing but the worker.
LEMMA ReleaseAgainInv == ASSUME IInv, NEW w \in Workers, Release(w), Over(ref[w]) PROVE IInv'
<1> USE LeaseAssumption
<1>f. /\ doing[w] \in {"owning", "closing"}
      /\ ref[w] \in Leases /\ ref[w] # None /\ Home[w] \in Processes
      /\ mutex[Home[w]] = None
      /\ Over(ref[w])
  BY DEF Release, Unlocked, IInv, LeaseTypeOK, Objects, WorkersHold, Working
<1>e. /\ \E next \in {"closing", "idle"} :
        \A v \in Workers : doing'[v] = (IF v = w THEN next ELSE doing[v])
                         /\ ref'[v] = (IF v = w THEN (IF next = "idle" THEN None ELSE ref[w])
                                       ELSE ref[v])
      /\ UNCHANGED <<kernel, active, mutex, lease>>
  BY <1>f DEF Release, ReleaseOnce, StepTo, IInv, LeaseTypeOK, Objects
<1>1. LeaseTypeOK'
  BY <1>f DEF Release, ReleaseOnce, StepTo, IInv, LeaseTypeOK, Objects
<1>2. ActiveHolds'
  BY <1>e, <1>f DEF IInv, LeaseTypeOK, ActiveHolds, LockedHolds, WorkersHold, OneOwner, LiveIsHeld, Working, Live, Over
<1>3. LockedHolds'
  BY <1>e, <1>f DEF IInv, LeaseTypeOK, ActiveHolds, LockedHolds, WorkersHold, OneOwner, LiveIsHeld, Working, Live, Over
<1>4. WorkersHold'
  BY <1>e, <1>f DEF IInv, LeaseTypeOK, ActiveHolds, LockedHolds, WorkersHold, OneOwner, LiveIsHeld, Working, Live, Over
<1>5. OneOwner'
  BY <1>e, <1>f DEF IInv, LeaseTypeOK, ActiveHolds, LockedHolds, WorkersHold, OneOwner, LiveIsHeld, Working, Live, Over
<1>6. LiveIsHeld'
  BY <1>e, <1>f DEF IInv, LeaseTypeOK, ActiveHolds, LockedHolds, WorkersHold, OneOwner, LiveIsHeld, Working, Live, Over
<1>b. \A l \in Leases : Live(l)' => /\ Live(l) /\ Borrowers(l)' = Borrowers(l)
                                  /\ lease'[l].borrows = lease[l].borrows
  BY <1>e, <1>f DEF IInv, LeaseTypeOK, ActiveHolds, LockedHolds, WorkersHold, OneOwner, LiveIsHeld, Working, Live, Borrowers
<1>7. BorrowsCounted'
  BY <1>b DEF IInv, BorrowsCounted
<1> QED BY <1>1, <1>2, <1>3, <1>4, <1>5, <1>6, <1>7 DEF IInv

\* A release that finds borrowers is put off.
LEMMA ReleaseDeferredInv == ASSUME IInv, NEW w \in Workers, Release(w), ~Over(ref[w]), active[Home[w]] = ref[w], lease[ref[w]].borrows > 0 PROVE IInv'
<1> USE LeaseAssumption
<1>f. /\ doing[w] \in {"owning", "closing"}
      /\ ref[w] \in Leases /\ ref[w] # None /\ Home[w] \in Processes
      /\ mutex[Home[w]] = None
      /\ doing[w] = "owning"
      /\ lease[ref[w]].state = "held" /\ lease[ref[w]].borrows > 0
  BY DEF Release, Unlocked, IInv, LeaseTypeOK, Objects, WorkersHold, Working, Over
<1>e. /\ \E next \in {"closing", "idle"} :
        \A v \in Workers : doing'[v] = (IF v = w THEN next ELSE doing[v])
                         /\ ref'[v] = (IF v = w THEN (IF next = "idle" THEN None ELSE ref[w])
                                       ELSE ref[v])
      /\ UNCHANGED <<kernel, active, mutex>>
      /\ \A l \in Leases : /\ lease'[l].state = (IF l = ref[w] THEN "requested" ELSE lease[l].state)
                          /\ lease'[l].borrows = (IF l = ref[w] THEN lease[l].borrows ELSE lease[l].borrows)
                          /\ lease'[l].process = (IF l = ref[w] THEN lease[l].process ELSE lease[l].process)
  BY <1>f DEF Release, ReleaseOnce, StepTo, Over, IInv, LeaseTypeOK, Objects
<1>1. LeaseTypeOK'
  <2>1. lease' \in [Leases -> Objects]
    BY <1>f DEF Release, ReleaseOnce, StepTo, Over, IInv, LeaseTypeOK, Objects
  <2>2. doing' \in [Workers -> {"idle", "refused", "locked", "owning", "borrowing", "closing"}]
    BY <1>f DEF Release, StepTo, IInv, LeaseTypeOK
  <2>3. ref' \in [Workers -> Leases \cup {None}]
    BY <1>f DEF Release, StepTo, IInv, LeaseTypeOK
  <2> QED BY <2>1, <2>2, <2>3, <1>f DEF Release, ReleaseOnce, StepTo, Over, IInv, LeaseTypeOK
<1>2. ActiveHolds'
  BY <1>e, <1>f DEF IInv, LeaseTypeOK, ActiveHolds, LockedHolds, WorkersHold, OneOwner, LiveIsHeld, Working, Live, Over
<1>3. LockedHolds'
  BY <1>e, <1>f DEF IInv, LeaseTypeOK, ActiveHolds, LockedHolds, WorkersHold, OneOwner, LiveIsHeld, Working, Live, Over
<1>4. WorkersHold'
  BY <1>e, <1>f DEF IInv, LeaseTypeOK, ActiveHolds, LockedHolds, WorkersHold, OneOwner, LiveIsHeld, Working, Live, Over
<1>5. OneOwner'
  BY <1>e, <1>f DEF IInv, LeaseTypeOK, ActiveHolds, LockedHolds, WorkersHold, OneOwner, LiveIsHeld, Working, Live, Over
<1>6. LiveIsHeld'
  BY <1>e, <1>f DEF IInv, LeaseTypeOK, ActiveHolds, LockedHolds, WorkersHold, OneOwner, LiveIsHeld, Working, Live, Over
<1>b. \A l \in Leases : Live(l)' => /\ Live(l) /\ Borrowers(l)' = Borrowers(l)
                                  /\ lease'[l].borrows = lease[l].borrows
  BY <1>e, <1>f DEF IInv, LeaseTypeOK, ActiveHolds, LockedHolds, WorkersHold, OneOwner, LiveIsHeld, Working, Live, Borrowers
<1>7. BorrowsCounted'
  BY <1>b DEF IInv, BorrowsCounted
<1> QED BY <1>1, <1>2, <1>3, <1>4, <1>5, <1>6, <1>7 DEF IInv

\* A release that finds none ends the lease, and nobody else works on it.
LEMMA ReleaseLastInv ==
    ASSUME IInv, NEW w \in Workers, Release(w), ~Over(ref[w]),
           ~(active[Home[w]] = ref[w] /\ lease[ref[w]].borrows > 0)
    PROVE  IInv'
<1> USE LeaseAssumption
<1>f. /\ doing[w] = "owning" /\ ref[w] \in Leases /\ ref[w] # None /\ Home[w] \in Processes
      /\ mutex[Home[w]] = None /\ active[Home[w]] = ref[w] /\ kernel = ref[w]
      /\ lease[ref[w]].state = "held" /\ lease[ref[w]].process = Home[w]
      /\ lease[ref[w]].borrows = 0
  BY DEF Release, Unlocked, WorkersHold, ActiveHolds, Working, Over, IInv, LeaseTypeOK, Objects
<1>c. Borrowers(ref[w]) = {}
  BY <1>f, BorrowersFinite, FS_EmptySet DEF IInv, BorrowsCounted, Live
<1>d. \A v \in Workers : (Working(v) \/ doing[v] = "locked") /\ Home[v] = Home[w] => v = w
  <2>1. \A v \in Workers : Working(v) /\ Home[v] = Home[w] => doing[v] = "owning" /\ ref[v] = ref[w]
    BY <1>c, <1>f DEF IInv, WorkersHold, Working, Borrowers
  <2>2. \A v \in Workers : doing[v] = "locked" => Home[v] # Home[w]
    BY <1>f DEF IInv, LockedHolds
  <2> QED BY <2>1, <2>2, <1>f DEF IInv, OneOwner
<1>e. /\ \E next \in {"closing", "idle"} :
        \A v \in Workers : doing'[v] = (IF v = w THEN next ELSE doing[v])
                         /\ ref'[v] = (IF v = w THEN (IF next = "idle" THEN None ELSE ref[w])
                                       ELSE ref[v])
      /\ kernel' = None /\ mutex' = mutex
      /\ \A p \in Processes : active'[p] = (IF p = Home[w] THEN None ELSE active[p])
      /\ \A l \in Leases : /\ lease'[l].state = (IF l = ref[w] THEN "released" ELSE lease[l].state)
                          /\ lease'[l].borrows = (IF l = ref[w] THEN 0 ELSE lease[l].borrows)
                          /\ lease'[l].process = lease[l].process
  BY <1>f DEF Release, ReleaseOnce, End, Without, StepTo, Over, IInv, LeaseTypeOK, Objects
<1>1. LeaseTypeOK'
  <2>1. lease' = [lease EXCEPT ![ref[w]].state = "released", ![ref[w]].borrows = 0]
    BY <1>f DEF Release, ReleaseOnce, End, Over
  <2>2. lease' \in [Leases -> Objects]
    <3>1. lease \in [Leases -> Objects]
      BY DEF IInv, LeaseTypeOK
    <3> QED BY <2>1, <3>1, <1>f DEF Objects
  <2>3. doing' \in [Workers -> {"idle", "refused", "locked", "owning", "borrowing", "closing"}]
    BY <1>f DEF Release, StepTo, IInv, LeaseTypeOK
  <2>4. ref' \in [Workers -> Leases \cup {None}]
    BY <1>f DEF Release, StepTo, IInv, LeaseTypeOK
  <2> QED BY <2>2, <2>3, <2>4, <1>f DEF Release, ReleaseOnce, End, Without, StepTo, Over, IInv, LeaseTypeOK
<1>2. ActiveHolds'
  BY <1>e, <1>f, <1>d DEF IInv, LeaseTypeOK, ActiveHolds, LockedHolds, WorkersHold, OneOwner, LiveIsHeld, Working, Live, Over
<1>3. LockedHolds'
  BY <1>e, <1>f, <1>d DEF IInv, LeaseTypeOK, ActiveHolds, LockedHolds, WorkersHold, OneOwner, LiveIsHeld, Working, Live, Over
<1>4. WorkersHold'
  BY <1>e, <1>f, <1>d DEF IInv, LeaseTypeOK, ActiveHolds, LockedHolds, WorkersHold, OneOwner, LiveIsHeld, Working, Live, Over
<1>5. OneOwner'
  BY <1>e, <1>f, <1>d DEF IInv, LeaseTypeOK, ActiveHolds, LockedHolds, WorkersHold, OneOwner, LiveIsHeld, Working, Live, Over
<1>6. LiveIsHeld'
  BY <1>e, <1>f, <1>d DEF IInv, LeaseTypeOK, ActiveHolds, LockedHolds, WorkersHold, OneOwner, LiveIsHeld, Working, Live, Over
<1>b. \A l \in Leases : ~Live(l)'
  BY <1>e, <1>f DEF IInv, LiveIsHeld, Live
<1>7. BorrowsCounted'
  BY <1>b DEF BorrowsCounted
<1> QED BY <1>1, <1>2, <1>3, <1>4, <1>5, <1>6, <1>7 DEF IInv

\* Die preserves the invariant: the table, the lock and the leases of a process go together.
LEMMA DieInv == ASSUME IInv, NEW p \in Processes, Die(p) PROVE IInv'
<1> USE LeaseAssumption
<1>f. \A w \in Workers : Working(w) \/ doing[w] = "locked" =>
          ref[w] \in Leases /\ kernel = ref[w] /\ lease[ref[w]].process = Home[w]
  BY DEF IInv, LeaseTypeOK, WorkersHold, LockedHolds, ActiveHolds
<1>e. /\ \A w \in Workers : doing'[w] = (IF Home[w] = p THEN "idle" ELSE doing[w])
                           /\ ref'[w] = (IF Home[w] = p THEN None ELSE ref[w])
      /\ \A q \in Processes : active'[q] = (IF q = p THEN None ELSE active[q])
                             /\ mutex'[q] = (IF q = p THEN None ELSE mutex[q])
      /\ \A l \in Leases :
            /\ lease'[l].state = (IF lease[l].process = p THEN "released" ELSE lease[l].state)
            /\ lease'[l].borrows = (IF lease[l].process = p THEN 0 ELSE lease[l].borrows)
            /\ lease'[l].process = lease[l].process
      /\ kernel' = IF kernel # None /\ lease[kernel].process = p THEN None ELSE kernel
  BY DEF Die, IInv, LeaseTypeOK, Objects
<1>1. LeaseTypeOK'
  <2>1. lease' \in [Leases -> Objects]
    <3>1. \A l \in Leases : lease'[l] \in Objects
      <4> SUFFICES ASSUME NEW l \in Leases PROVE lease'[l] \in Objects
        OBVIOUS
      <4>1. lease[l] \in Objects
        BY DEF IInv, LeaseTypeOK
      <4>2. lease'[l] = IF lease[l].process = p THEN [lease[l] EXCEPT !.state = "released", !.borrows = 0]
                        ELSE lease[l]
        BY DEF Die
      <4>3. [lease[l] EXCEPT !.state = "released", !.borrows = 0] \in Objects
        BY <4>1 DEF Objects
      <4> QED BY <4>1, <4>2, <4>3
    <3> QED BY <3>1 DEF Die
  <2> QED BY <2>1 DEF Die, IInv, LeaseTypeOK
<1>2. ActiveHolds'
  BY <1>e, <1>f DEF IInv, LeaseTypeOK, ActiveHolds, LockedHolds, WorkersHold, OneOwner, LiveIsHeld, Working, Live, Over
<1>3. LockedHolds'
  BY <1>e, <1>f DEF IInv, LeaseTypeOK, ActiveHolds, LockedHolds, WorkersHold, OneOwner, LiveIsHeld, Working, Live, Over
<1>4. WorkersHold'
  BY <1>e, <1>f DEF IInv, LeaseTypeOK, ActiveHolds, LockedHolds, WorkersHold, OneOwner, LiveIsHeld, Working, Live, Over
<1>5. OneOwner'
  BY <1>e, <1>f DEF IInv, LeaseTypeOK, ActiveHolds, LockedHolds, WorkersHold, OneOwner, LiveIsHeld, Working, Live, Over
<1>6. LiveIsHeld'
  BY <1>e, <1>f DEF IInv, LeaseTypeOK, ActiveHolds, LockedHolds, WorkersHold, OneOwner, LiveIsHeld, Working, Live, Over
<1>b. \A l \in Leases : Live(l)' => /\ Live(l) /\ Borrowers(l)' = Borrowers(l)
                                  /\ lease'[l].borrows = lease[l].borrows
  <2> SUFFICES ASSUME NEW l \in Leases, Live(l)'
               PROVE  /\ Live(l) /\ Borrowers(l)' = Borrowers(l)
                      /\ lease'[l].borrows = lease[l].borrows
    OBVIOUS
  <2>1. Live(l) /\ lease[l].process # p /\ lease'[l].borrows = lease[l].borrows
    BY <1>e DEF Live
  <2>2. \A w \in Workers : doing[w] = "borrowing" /\ ref[w] = l => Home[w] # p
    BY <1>f, <2>1 DEF Working
  <2> QED BY <2>1, <2>2, <1>e DEF Borrowers
<1>7. BorrowsCounted'
  BY <1>b DEF IInv, BorrowsCounted
<1> QED BY <1>1, <1>2, <1>3, <1>4, <1>5, <1>6, <1>7 DEF IInv

-----------------------------------------------------------------------------
\* Every step preserves the invariant.
LEMMA StepInv == IInv /\ [LeaseNext]_leaseVars => IInv'
<1> SUFFICES ASSUME IInv, [LeaseNext]_leaseVars PROVE IInv'
  OBVIOUS
<1>1. CASE UNCHANGED leaseVars
  BY <1>1 DEF leaseVars, IInv, LeaseTypeOK, ActiveHolds, LockedHolds, WorkersHold, OneOwner, LiveIsHeld,
     BorrowsCounted, Live, Working, Over, Borrowers
<1>2. CASE AllIdle
  BY <1>1, <1>2 DEF AllIdle
<1>3. ASSUME NEW w \in Workers, Pin(w) PROVE IInv'
  BY <1>3, PinRefusedInv, PinnedInv
<1>4. ASSUME NEW w \in Workers, Unpin(w) PROVE IInv'
  BY <1>4, UnpinInv, UnpinLastInv
<1>5. ASSUME NEW w \in Workers, Release(w) PROVE IInv'
  BY <1>5, ReleaseAgainInv, ReleaseDeferredInv, ReleaseLastInv
<1>6. ASSUME NEW w \in Workers, Call(w) PROVE IInv'
  BY <1>3, <1>4, <1>5, <1>6, RefuseInv, DismissInv, LockFileInv, EnterInv, FailToEnterInv DEF Call
<1>7. ASSUME NEW w \in Workers, NEW v \in Workers, Hand(w, v) PROVE IInv'
  BY <1>7, HandInv
<1>8. ASSUME NEW p \in Processes, Die(p) PROVE IInv'
  BY <1>8, DieInv
<1> QED BY <1>1, <1>2, <1>6, <1>7, <1>8 DEF LeaseNext

\* The invariant holds of every behaviour.
THEOREM LeaseInvariant == LeaseSpec => []IInv
  BY InitInv, StepInv, PTL DEF LeaseSpec

\* Every variable always has its type.
THEOREM TypeCorrect == LeaseSpec => []LeaseTypeOK
  BY LeaseInvariant, PTL DEF IInv

\* Whoever works on the directory, owner or borrower, of whatever process, has it under the
\* kernel lock: no release, deferred or repeated, frees it under a working thread.
THEOREM WorkProtected == LeaseSpec => []WorkIsProtected
<1>1. IInv => WorkIsProtected
  BY LeaseAssumption DEF IInv, LeaseTypeOK, WorkersHold, ActiveHolds, WorkIsProtected, Working
<1> QED BY <1>1, LeaseInvariant, PTL

\* The kernel lock always belongs to a thread that is in try_acquire or works.
THEOREM LockNotLeaked == LeaseSpec => []NoLockLeaked
<1>1. ASSUME IInv, kernel # None
      PROVE  \E w \in Workers : ref[w] = kernel /\ (Working(w) \/ doing[w] = "locked")
  <2>1. kernel \in Leases /\ Live(kernel)
    BY <1>1 DEF IInv, LeaseTypeOK, LiveIsHeld
  <2>2. CASE lease[kernel].state = "held"
    BY <1>1, <2>1, <2>2 DEF IInv, LiveIsHeld, Working
  <2>3. CASE lease[kernel].state = "requested"
    <3>1. Cardinality(Borrowers(kernel)) > 0
      BY <1>1, <2>1, <2>3 DEF IInv, LiveIsHeld, BorrowsCounted
    <3>2. Borrowers(kernel) # {}
      BY <3>1, FS_EmptySet
    <3> QED BY <3>2 DEF Borrowers, Working
  <2> QED BY <2>1, <2>2, <2>3 DEF Live
<1>2. IInv => NoLockLeaked
  BY <1>1 DEF NoLockLeaked
<1> QED BY <1>2, LeaseInvariant, PTL

\* A directory nobody has is never refused: the tables of the coordinators are never stale.
THEOREM RefusalIsTrue == LeaseSpec => RefusedOnlyWhenHeld
<1>1. ASSUME IInv, NEW w \in Workers, Refuse(w) PROVE kernel # None
  BY <1>1, LeaseAssumption DEF IInv, ActiveHolds, Refuse
<1>2. IInv /\ [LeaseNext]_leaseVars => [\A w \in Workers : Refuse(w) => kernel # None]_leaseVars
  BY <1>1
<1> QED BY <1>2, LeaseInvariant, PTL DEF LeaseSpec, RefusedOnlyWhenHeld

-----------------------------------------------------------------------------
(* The lease implements exclusive use.                                     *)

Users == {w \in Workers : Working(w)}

\* A step of one worker that leaves its `working` alone leaves the users alone.
LEMMA SameUsers ==
    ASSUME LeaseTypeOK, NEW w \in Workers, \A v \in Workers \ {w} : doing'[v] = doing[v],
           Working(w)' <=> Working(w)
    PROVE  Users' = Users
  BY DEF Users, Working

\* Only the lease's own process enters it, and only when nobody works.
LEMMA EnterAlone == ASSUME IInv, NEW w \in Workers, Enter(w) PROVE Users = {} /\ Users' = {w}
<1>1. doing[w] = "locked" /\ ref[w] = kernel /\ active[Home[w]] = None
      /\ lease[kernel].process = Home[w]
  BY DEF Enter, IInv, LockedHolds
<1>2. \A v \in Workers : ~Working(v)
  BY <1>1, LeaseAssumption DEF IInv, WorkersHold, ActiveHolds, Working
<1>3. \A v \in Workers : Working(v)' <=> v = w
  BY <1>2 DEF Enter, StepTo, Working, IInv, LeaseTypeOK
<1> QED BY <1>2, <1>3 DEF Users

\* A borrower joins a worker of its own process: the owner is still there.
LEMMA PinJoins ==
    ASSUME IInv, NEW w \in Workers, Pin(w), Valid(w)
    PROVE  Use!Join(w)
<1>1. /\ ref[w] \in Leases /\ ref[w] # None /\ lease[ref[w]].state = "held"
      /\ active[Home[w]] = ref[w] /\ lease[ref[w]].process = Home[w]
  BY LeaseAssumption DEF Pin, Valid, IInv, LeaseTypeOK, ActiveHolds
<1>2. PICK v \in Workers : ref[v] = ref[w] /\ doing[v] \in {"owning", "locked"}
  BY <1>1 DEF IInv, LiveIsHeld
<1>3. doing[v] = "owning" /\ Home[v] = Home[w]
  BY <1>1, <1>2, LeaseAssumption DEF IInv, LockedHolds, WorkersHold, ActiveHolds, Working
<1>4. \A u \in Workers : Working(u)' <=> Working(u) \/ u = w
  BY DEF Pin, StepTo, Working, IInv, LeaseTypeOK
<1> QED BY <1>3, <1>4 DEF Use!Join, Working

\* One worker's step is a step of the abstract specification, or none.
LEMMA CallSimulates ==
    ASSUME IInv, NEW w \in Workers, Call(w) PROVE Use!Next \/ Users' = Users
<1> USE LeaseAssumption
<1>1. CASE Enter(w)
  BY <1>1, EnterAlone DEF Use!Next, Use!Enter, Users
<1>2. CASE Pin(w) /\ Valid(w)
  BY <1>2, PinJoins DEF Use!Next
<1>3. CASE Unpin(w)
  <2>1. doing[w] = "borrowing" /\ \A v \in Workers : Working(v)' <=> Working(v) /\ v # w
    BY <1>3 DEF Unpin, StepTo, Working, IInv, LeaseTypeOK
  <2> QED BY <2>1 DEF Use!Next, Use!Leave, Working
<1>4. CASE Release(w) /\ doing[w] = "owning"
  <2>1. \A v \in Workers : Working(v)' <=> Working(v) /\ v # w
    BY <1>4 DEF Release, StepTo, Working, IInv, LeaseTypeOK
  <2> QED BY <2>1, <1>4 DEF Use!Next, Use!Leave, Working
<1>5. CASE Release(w) /\ doing[w] = "closing"
  BY <1>5, SameUsers DEF Release, StepTo, Working, IInv, LeaseTypeOK
<1>6. CASE Pin(w) /\ ~Valid(w)
  BY <1>6, SameUsers DEF Pin, StepTo, Working, IInv, LeaseTypeOK
<1>7. CASE Refuse(w) \/ Dismiss(w) \/ FailToEnter(w)
  BY <1>7, SameUsers DEF Refuse, Dismiss, FailToEnter, StepTo, Working, IInv, LeaseTypeOK
<1>8. CASE LockFile(w)
  BY <1>8, SameUsers DEF LockFile, StepTo, Working, IInv, LeaseTypeOK
<1>9. Release(w) => doing[w] \in {"owning", "closing"}
  BY DEF Release
<1> QED BY <1>1, <1>2, <1>3, <1>4, <1>5, <1>6, <1>7, <1>8, <1>9 DEF Call

\* The coordinators of all processes and the kernel lock together implement exclusive use: at
\* any time the directory is used by the threads of one process, let in by one another.
THEOREM LeaseIsExclusive == LeaseSpec => ImplementsExclusiveUse
<1>1. LeaseInit => Use!Init
  BY DEF LeaseInit, Use!Init, Working
<1>2. IInv /\ [LeaseNext]_leaseVars => [Use!Next]_Users
  <2> SUFFICES ASSUME IInv, [LeaseNext]_leaseVars PROVE Use!Next \/ Users' = Users
    OBVIOUS
  <2>1. CASE UNCHANGED leaseVars \/ AllIdle
    BY <2>1 DEF leaseVars, AllIdle, Users, Working
  <2>2. ASSUME NEW w \in Workers, Call(w) PROVE Use!Next \/ Users' = Users
    BY <2>2, CallSimulates
  <2>3. ASSUME NEW w \in Workers, NEW v \in Workers, Hand(w, v) PROVE Users' = Users
    BY <2>3 DEF Hand, Users, Working
  <2>4. ASSUME NEW p \in Processes, Die(p) PROVE Use!Next
    <3>1. PICK w \in Workers : Home[w] = p
      BY <2>4 DEF Die
    <3>2. \A v \in Workers : Working(v)' <=> Working(v) /\ Home[v] # p
      BY <2>4 DEF Die, Working, IInv, LeaseTypeOK
    <3>3. Use!Die(Home[w])
      BY <3>1, <3>2 DEF Use!Die
    <3> QED BY <3>3 DEF Use!Next
  <2> QED BY <2>1, <2>2, <2>3, <2>4 DEF LeaseNext
<1> QED BY <1>1, <1>2, LeaseInvariant, PTL DEF LeaseSpec, ImplementsExclusiveUse, Use!Spec, Users
\* The kernel lock is held under every worker, and by nobody who has left (try_acquire, _release).
THEOREM LockExact == LeaseSpec => []LockIsExact
BY WorkProtected, LockNotLeaked, PTL DEF LockIsExact
=============================================================================
