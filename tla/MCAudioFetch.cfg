SPECIFICATION Spec
CONSTANTS
  FileSize = 3
  Initial = 1
  MinDownload = 1
  ReadAhead = 2
  Buffers = {2}
  MaxCommands = 2
  MaxFailures = 1
INVARIANTS
  TypeOK
  NoOrphans
  DownloadedOnce
  ReadsWhatIsWritten
  CachedFileIsComplete
  RetriedFetchIsPending
CHECK_DEADLOCK FALSE
