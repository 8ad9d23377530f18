SPECIFICATION Spec
CONSTANTS
  CallerA = CallerA
  CallerB = CallerB
  SharedTab = SharedTab
  None = None
  Callers <- MCCallers
  Tabs <- MCTabs
  TabOf <- MCShared
  MaxLinks = 2
  MaxCalls = 3
  Faults = {"disconnect", "timeout", "cancel"}
INVARIANT FreshLink
INVARIANT NoStrayDebugger
INVARIANT NoOrphan
INVARIANT NoLostCall
PROPERTY DetachTakesEarlier
SYMMETRY MCSymmetry
CHECK_DEADLOCK FALSE
