SPECIFICATION Spec
CONSTANTS
  FileSize = 3
  Initial = 1
  MinDownload = 1
  ReadAhead = 2
  Buffers = {2}
  MaxCommands = 2
  MaxFailures = 1
INVARIANT
  BlockedFetchIsPending
CHECK_DEADLOCK FALSE
