-------------------------- MODULE CoordinatorProps --------------------------
(***************************************************************************)
(* What has to be true of C4 however its callers interleave.               *)
(***************************************************************************)
EXTENDS Coordinator

\* A job counted as applied belongs to a run whose submission was recorded,
\* and that was approved before: no late handler can make it so otherwise.
AppliedWasSubmitted ==
  \A j \in Jobs : job[j] = "applied" =>
    \E r \in Started : run[r].job = j /\ {"approve", "submitted"} \subseteq log[r]

\* Completing a lease comes after its result is on record, although the check
\* of the lease, the result and the completion are three transactions.
CompletedLeaseHasResult ==
  \A l \in Leases : lease[l].st = "completed" =>
    "result" \in log[lease[l].run]

\* The submit gate: what was logged of a run refines SubmitGate.
Gate == INSTANCE SubmitGate WITH
  cleared <- {r \in Runs : "cleared" \in log[r]},
  approved <- {r \in Runs : "approve" \in log[r]},
  submitted <- {r \in Runs : "submitted" \in log[r]}
GateHolds == Gate!Spec

=============================================================================
