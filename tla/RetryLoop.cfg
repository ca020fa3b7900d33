CONSTANTS
  MaxRetries = 2
  OfflineThreshold = 2
  Phase0Threshold = 3
  MinerKinds = {"ok", "stuck", "storming", "gone"}
SPECIFICATION FairSpec
INVARIANT GivesUpWhenNeverGood
INVARIANT SafeVfBeforeTuning
PROPERTY DeathIsReported
PROPERTY StopEndsWorker
PROPERTY StormTripsBreaker
PROPERTY OfflineModeEnds
