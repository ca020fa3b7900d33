CONSTANTS
  None = None
  Score <- MCScore
  Scenes <- MCScenes
  SearchTolerance = 1
  Markets <- MCMarkets
  Tolerance = 2
  Miners <- MCMiners
  Fallback = 3
  PlMin = 2
  PlMax = 4
  PlCount = 2
  FMin = 2
  FMax = 6
  FCount = 2
  Drift = 1
  BoardCount = 2
  MaxLevel = 4
  Close = 1
  SettleTolerance = 2
  AskedPoints <- MCPoints
SPECIFICATION Spec
INVARIANT TypeOK
INVARIANT PeakHeld
INVARIANT MeasuredAsLabelled
PROPERTY SettledInValley
INVARIANT CommandsInOrder
INVARIANT ShortfallBounded
PROPERTY ImplementsTuner
PROPERTY Settles
