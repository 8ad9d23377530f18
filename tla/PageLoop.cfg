SPECIFICATION FairSpec
CONSTANTS
  text = text
  resume = resume
  Fields <- TwoFields
  Uploads <- OneUpload
  Required <- TwoFields
  NextButton = NextButton
  LastPage = 3
  MaxTabs = 3
  Slots <- TwoSlots
  PageLimit = 3
  MutationRetries = 1
  ProviderRetries = 1
  VerifyReads = 2
CHECK_DEADLOCK FALSE
INVARIANT UncertainIsQuiet
INVARIANT OnePageThenNone
PROPERTY LeavesVerified
PROPERTY DoubtStops
PROPERTY LoopEnds
