CONSTANTS
  t1 = t1
  t2 = t2
  u1 = u1
  u2 = u2
  a1 = a1
  a2 = a2
  None = None
  Tracks = {t1}
  Urls = {u1}
  CoverUrl <- OneCoverUrl
  Senders = {a1}
  Volumes = {0}
  COVER_CACHE_SIZE = 1
  CONNECTION_QUEUE = 2
  MaxConnections = 1
  MaxFetches = 1
SPECIFICATION FairSpec
CHECK_DEADLOCK FALSE
PROPERTIES
  DroppedIsClosed
