SPECIFICATION LiveSpec
CONSTANTS
  t1 = t1
  u1 = u1
  Tracks = {t1}
  NoTrack = NoTrack
  Explicit = {t1}
  Duration = 1
  PreloadMargin = 1
  MaxId = 2
  MaxBacklog = 1
  FileSize = 2
  Initial = 1
  MinDownload = 1
  ReadAhead = 2
  Buffers = {2}
  MaxCommands = 2
  MaxFailures = 0
  Urls = {u1}
  None = None
  CoverUrl <- OneCoverUrl
  Senders = {}
  Volumes = {0}
  COVER_CACHE_SIZE = 1
  CONNECTION_QUEUE = 2
  MaxConnections = 1
  MaxFetches = 1
PROPERTIES
  LoadResolves
  ShutdownCompletes
  SleepersWake
  DroppedReaderIsTold
\* The player and the fetch loop end when they are closed.
CHECK_DEADLOCK FALSE
