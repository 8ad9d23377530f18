SPECIFICATION SpecFromPrepared
CONSTANTS
  client = client
  p1 = p1
  p2 = p2
  Items = {1}
  Clients = {client}
  Operations <- ReviewOperations
  HuntJobs <- OneJob
  NoJob = "none"
  Contents <- Texts
  OnePage <- ShortTexts
  MaxRuns = 1
  MaxRevisions = 2
  MaxOpened = 1
  Compilers = {p1, p2}
  Free = Free
  MaxEdits = 1
  MaxCrashes = 0
ACTION_CONSTRAINT NothingBegunInCleared
SYMMETRY Compiles
CHECK_DEADLOCK FALSE
INVARIANT SelectedIsServable
INVARIANT PublishedIsCurrent
PROPERTY RevisionsAreImmutable
PROPERTY RefreshKeepsChoice
