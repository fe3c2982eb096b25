CONSTANTS
  InitialCommands <- MCDamagedCommands
  BatchFiles <- MCBatchFiles
  Files <- MCFiles
  FormatImages = {"system"}
  MAX_DOWNLOAD_SIZE = 8
  SPARSE_HEADER_SIZE = 2
  CHUNK_HEADER_SIZE = 1
  MaxFaults = 1
  MaxRan = 9
SPECIFICATION Spec
INVARIANT
  ExitStatusReflectsCommands
CHECK_DEADLOCK FALSE
