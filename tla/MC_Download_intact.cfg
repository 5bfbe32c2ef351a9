CONSTANTS
  d1 = d1
  d2 = d2
  Downloads <- MCDownloads
  ChunkSizes = {1, 2}
  MaxBytes = 3
SYMMETRY MCSymmetry
SPECIFICATION Spec
INVARIANT CompletedFileIntact
\* Every download thread returns; the process then has nothing left to do.
CHECK_DEADLOCK FALSE
