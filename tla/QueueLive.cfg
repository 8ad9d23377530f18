SPECIFICATION FairSpec
CONSTANTS
  MaxJobs = 2
  Targets <- MCOneEmployer
  Contents = {c1}
  Limits = {2}
  InitialLimit = 2
  Faults = {"disconnect"}
  NoTarget = NoTarget
  NoDigest = NoDigest
INVARIANT SerialPerEmployer
PROPERTY EveryRunEnds
PROPERTY EveryReviewEnds
PROPERTY FirstInLineStarts
