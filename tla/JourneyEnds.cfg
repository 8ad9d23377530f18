SPECIFICATION FairSpec
CONSTANTS
  StartA = StartA
  StartB = StartB
  CancelA = CancelA
  CancelB = CancelB
  Starts <- MCStarts
  Cancels <- MCCancels
  Task = Task
  stateRetryLimit = 1
  MaxAborts = 1
  Faults = {"store", "events", "evidence", "close"}
  None = None
INVARIANT TerminalAgrees
INVARIANT CancelWins
INVARIANT SessionReleased
PROPERTY TerminalIsFinal
PROPERTY EverythingEnds
CHECK_DEADLOCK FALSE
