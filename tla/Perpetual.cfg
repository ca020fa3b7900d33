CONSTANTS
  Profiles = {2, 5}
  PsuMin = 1
  PsuMax = 5
  Step = 2
  MaxDelta = 3
  Close = 1
  Safe = 5
  Threshold = 2
  Scenarios <- FaultyOrRacing
  None = None
SPECIFICATION FairSpec
INVARIANT AdjustmentCapped
INVARIANT Maintained
INVARIANT AdjustmentIsSaved
INVARIANT VoltageInPsuRange
PROPERTY OutageLeavesMonitor
