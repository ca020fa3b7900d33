CONSTANTS
  c = c
  f = f
  Cells <- CoarseAndFine
  FineCells <- OnlyFine
  None = None
SPECIFICATION FairSpec
INVARIANT TypeOK
INVARIANT OneEntryPerCell
INVARIANT FineStaysFine
PROPERTY KillLosesNothing
PROPERTY QueueMoves
