--------------------------- MODULE MCRunDispatch ---------------------------
(* Small instances of RunDispatch for TLC. *)
EXTENDS RunDispatch, TLC

\* Two steps, each with a work cell of its own.
TwoStepPlan == <<"s1", "s2">>
TwoCells == [s \in {"s1", "s2"} |-> IF s = "s1" THEN "c1" ELSE "c2"]

\* Three steps, of which the first two resolve the same work cell.
ThreeStepPlan == <<"s1", "s2", "s3">>
ThreeSteps == [s \in {"s1", "s2", "s3"} |-> IF s = "s3" THEN "c2" ELSE "c1"]

OneStepPlan == <<"s1">>
OneCell == [s \in {"s1"} |-> "c1"]

Symmetry == Permutations(Runners)

=============================================================================
