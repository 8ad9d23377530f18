SPECIFICATION Spec
CONSTANTS
  j1 = j1
  c1 = c1
  c2 = c2
  l1 = l1
  Jobs <- OneJob
  NoJob = NoJob
  Callers <- TwoCallers
  Leases <- OneLease
  MaxRuns = 2
SYMMETRY Symmetric
CHECK_DEADLOCK FALSE
INVARIANT AppliedWasSubmitted
INVARIANT CompletedLeaseHasResult
PROPERTY GateHolds
CONSTRAINT Small
