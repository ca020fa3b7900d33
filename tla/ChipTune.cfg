CONSTANTS
  N = 3
  BoardOf <- OneBoard
  Parked = {3}
  Grid = 3
  FMinCfg = 7
  FMaxCfg = 14
  Floor = 3
  DeadFreq = 3
  Spread = 6
  Step = 3
  PolishStep = 3
  Drop = 4
  Rounds = 12
  PolishRounds = 2
  Still = 2
  Seed = 9
  Troubles = 2
SPECIFICATION Spec
INVARIANT TypeOK
INVARIANT BoardsWithinBounds
PROPERTY NeverRetriesBad
PROPERTY ConvergedStays
PROPERTY ResumeKeepsProgress
