SPECIFICATION FairSpec
CONSTANTS
  client = client
  p1 = p1
  p2 = p2
  Items = {1, 2}
  Clients = {client}
  Operations <- QueueOperations
  HuntJobs <- OneJob
  NoJob = "none"
  Contents <- ShortTexts
  OnePage <- ShortTexts
  MaxRuns = 2
  MaxRevisions = 1
  MaxOpened = 0
  Compilers = {}
  Free = Free
  MaxEdits = 0
  MaxCrashes = 1
CHECK_DEADLOCK FALSE
INVARIANT RunningHasWorker
INVARIANT SelectedIsServable
PROPERTY NoRevival
PROPERTY EveryItemSettles
