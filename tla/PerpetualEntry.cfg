CONSTANTS
  Profiles = {2, 5}
  PsuMin = 1
  PsuMax = 5
  Step = 2
  MaxDelta = 3
  Close = 1
  Safe = 5
  Threshold = 2
  Scenarios <- Quiet
  None = None
SPECIFICATION Spec
INVARIANT FirstEntryAppliesActive
