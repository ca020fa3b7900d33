CONSTANTS
  c = c
  f = f
  Cells <- CoarseAndFine
  FineCells <- OnlyFine
  None = None
SPECIFICATION Spec
PROPERTY MeasurementIsAtomic
