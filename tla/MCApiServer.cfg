CONSTANTS
  t1 = t1
  t2 = t2
  u1 = u1
  u2 = u2
  a1 = a1
  a2 = a2
  None = None
  Tracks = {t1, t2}
  Urls = {u1, u2}
  CoverUrl <- MCCoverUrl
  Senders = {a1, a2}
  Volumes = {0}
  COVER_CACHE_SIZE = 2
  CONNECTION_QUEUE = 2
  MaxConnections = 1
  MaxFetches = 2
SPECIFICATION Spec
SYMMETRY Symmetry
CHECK_DEADLOCK FALSE
INVARIANTS
  TypeOK
  ReplicaAgrees
  SpotifyCoverFitsTrack
  CacheConsistent
  NoGhost
PROPERTY
  SourceMovesOnPlay
