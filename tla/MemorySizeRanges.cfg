SPECIFICATION Spec
CONSTANTS
  LastSize = 17000
INVARIANTS
  RowHoldsSize
  RowFitsChunk
  RowsGrow
