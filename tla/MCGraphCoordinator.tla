------------------------- MODULE MCGraphCoordinator -------------------------
(* Small instances of GraphCoordinator for TLC. *)
EXTENDS GraphCoordinator, TLC

CONSTANTS r1, r2, i1, n1, n2, rec, t1, t2

OneRun == {r1}
TwoRuns == {r1, r2}
OneItem == {i1}
OneRunItem == [r \in OneRun |-> i1]
TwoRunsItem == [r \in TwoRuns |-> i1]
OneNode == {n1}
TwoNodes == {n1, n2}
FirstNode == {n1}
OneTask == {rec, t1}
TwoTasks == {rec, t1, t2}

\* The tasks other than recovery are interchangeable.
TaskSymmetry == Permutations({t1, t2})
=============================================================================
