---------------------------- MODULE MCCaseStore ----------------------------
(* Small instances of CaseStore for TLC. *)
EXTENDS CaseStore, TLC

Symmetry == Permutations(Procs) \cup Permutations(Revs)

=============================================================================
