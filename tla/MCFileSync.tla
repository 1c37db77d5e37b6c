----------------------------- MODULE MCFileSync -----------------------------
(* FileSyncJournal, and the inductive invariant of its proofs, on two files. *)
EXTENDS FileSyncProofs, TLC

SymmetryWithKeys == Permutations(Paths) \cup Permutations(Keys)
=============================================================================
