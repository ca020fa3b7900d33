CONSTANTS
  Cells <- TwoVoltages
  Rounds = 1
  PolishRounds = 1
  Scenes <- KillsAndAsks
  None = None
SPECIFICATION FairSpec
INVARIANT CrashResumesCell
INVARIANT MonitoredIsSaved
PROPERTY TunedVoltagesStay
PROPERTY TuneSettles
