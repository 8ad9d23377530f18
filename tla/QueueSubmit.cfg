SPECIFICATION Spec
CONSTANTS
  MaxJobs = 2
  Targets <- MCOnePosting
  Contents = {c1, c2}
  Limits = {1}
  InitialLimit = 1
  Faults = {"storage", "crash"}
  NoTarget = NoTarget
  NoDigest = NoDigest
INVARIANT OneLiveJobPerPosting
INVARIANT IntentBeforeClick
PROPERTY SubmitsOnce
PROPERTY LandsAsConfirmed
