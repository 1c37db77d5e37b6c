----------------------------- MODULE AtomicUpdate -----------------------------
(***************************************************************************)
(* What a file transaction promises: a set of files changes from one       *)
(* version to another in a single step, or does not change.                *)
(***************************************************************************)
EXTENDS Naturals

CONSTANTS Paths, Absent

VARIABLES files,    \* what a reader of the settled directory finds
          wanted,   \* the version the last update asked for
          updating  \* an update was asked for and is not decided

avars == <<files, wanted, updating>>

Versions == [Paths -> Nat \cup {Absent}]

Init == files \in Versions /\ wanted = files /\ updating = FALSE

Request == /\ ~updating /\ updating' = TRUE
           /\ wanted' \in Versions /\ UNCHANGED files
Apply   == /\ updating /\ updating' = FALSE
           /\ files' = wanted /\ UNCHANGED wanted
Abandon == /\ updating /\ updating' = FALSE
           /\ UNCHANGED <<files, wanted>>

Next == Request \/ Apply \/ Abandon
Spec == Init /\ [][Next]_avars
=============================================================================
