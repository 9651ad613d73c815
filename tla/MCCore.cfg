SPECIFICATION CoreSpec
CONSTANTS
  Requests = {r1, r2}
  Subscribers = {s1}
  KeyRequests = {k1, k2}
  Channels = {c1, c2, c3}
  ChannelIds = 2
  MaxTries = 2
  MaxPackets = 3
  SessionScenes <- MCSessionScenes
  Conns = {1, 2}
  MaxPolls = 2
  MaxTold = 2
  MaxSamples = 1
  AirplayScenes <- MCAirplayScenes
  Paths <- MCPaths
  Clients = {c1, c2}
  Keys = {k1}
  MaxSockets = 2
  DealerScenes <- MCDealerScenes
  Files = {"big", "small"}
  FileSize <- MCFileSize
  SizeLimit = 2
  Threads = {t1, t2}
  MaxTime = 4
  Callers = {"requests", "connections"}
  Wants <- MCWants
  Resolvable <- MCResolvable
  PortConfigs = {0, 4070}
  RequestTries = 4
  MaxAnswers = 1
  MaxLoginTries = 2
  MaxTokenTries = 2
  Users = {"u"}
  MaxSpircs = 3
  MaxHour = 2
  ReconnectRateLimit = 1
  Setups <- MCSetups
  Size = 5
INVARIANTS
  SilenceNoticed AnswersFitRequests ChannelsAreSignalled OnlyHeldAnswersAreLeft
  OnePollEach EndedLeavesTheAir OnlyReceiveErrorsGoUnseen
  AnsweredOnce HandlerFound
  DiskWithinLimit
  ResolveFailsOnlyByRace
  OneSpircServes
  RangesAreSets
\* Each part may have done all that its bounds let it do.
CHECK_DEADLOCK FALSE
