CONSTANTS
  MaxRetries = 2
  OfflineThreshold = 2
  Phase0Threshold = 3
  MinerKinds = {"ok"}
SPECIFICATION Spec
INVARIANT RetryBudgetRespected
