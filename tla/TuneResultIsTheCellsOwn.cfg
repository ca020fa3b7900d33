CONSTANTS
  Cells <- TwoVoltages
  Rounds = 1
  PolishRounds = 1
  Scenes <- OneKill
  None = None
SPECIFICATION Spec
INVARIANT ResultIsTheCellsOwn
