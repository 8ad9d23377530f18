--------------------------- MODULE MCCoordinator ---------------------------
EXTENDS CoordinatorProps, TLC

CONSTANTS j1, c1, c2, l1

OneJob == {j1}
TwoCallers == {c1, c2}
OneLease == {l1}
Symmetric == Permutations(TwoCallers)

\* One of the runs gets a result, and one, the same or the other, is approved.
Small == /\ Cardinality({r \in Runs : "approve" \in log[r]}) <= 1
         /\ Cardinality({r \in Runs : "result" \in log[r]}) <= 1
=============================================================================
