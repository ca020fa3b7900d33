CONSTANTS
  Cells <- OneVoltage
  Rounds = 1
  PolishRounds = 1
  Scenes <- NoInterference
  None = None
SPECIFICATION FairSpec
PROPERTY TuneSettles
