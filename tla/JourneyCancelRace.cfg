SPECIFICATION FairSpec
CONSTANTS
  StartA = StartA
  StartB = StartB
  CancelA = CancelA
  CancelB = CancelB
  Starts <- MCStarts
  Cancels <- MCCancels
  Task = Task
  stateRetryLimit = 1
  MaxAborts = 0
  Faults = {}
  None = None
INVARIANT EndsWithResult
CHECK_DEADLOCK FALSE
