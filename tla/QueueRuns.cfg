SPECIFICATION Spec
CONSTANTS
  MaxJobs = 2
  Targets <- MCTwoEmployers
  Contents = {c1}
  Limits = {1}
  InitialLimit = 2
  Faults = {"storage"}
  NoTarget = NoTarget
  NoDigest = NoDigest
INVARIANT StoppedMeansAborted
INVARIANT FillAndReviewExclusive
PROPERTY StartsWithinLimit
PROPERTY NoMissedStart
