SPECIFICATION Spec
CONSTANTS
  Fanout = 2
  PageBytes = 8
  QwordBytes = 2
  StackAlign = 4
  LowPage = 1
  StackPages = 2
  FramePages = 8
  ArenaTables = 9
  LargeTables = 2
  LargeFrame = 32
  MaxSteps = 2
  TouchedPages = {2, 4, 14}
  Files <- MCFiles
  Arguments <- MCArguments
  Reserved <- MCReserved
  Arenas <- MCArenas
INVARIANTS TablesFormTree LoadedProcessExact
PROPERTIES ImplementsAddressMap
CHECK_DEADLOCK FALSE
