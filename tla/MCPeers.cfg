SPECIFICATION PeersSpec
CONSTANTS
  IceSessions = {1, 2}
  IceFamilies = {"kvs", "bridge", "apprtc"}
  IceUseTurn = TRUE
  IceMaxFetches = 2
  IceMaxTriggers = 2
  IceMaxFaults = 1
  Makers = {"m1", "m2"}
  PoolLimit = 2
  KcMaxCerts = 4
  KcMaxInits = 2
  LocalCandidates = {"c1", "c2"}
  NgMaxWaits = 2
  DcSessions = {"s1", "s2"}
  DcMaxMessages = 2
  DcMaxCalls = 1
  MaxPlayers = 3
  MaxReceived = 1
  MaxOffers = 2
  MinBitrate = 1
  MaxBitrate = 2
  Depth = 2
  MaxFrames = 6
  MaxErrors = 2
  MaxStarts = 2
  RbSize = 3
  Chunks = {1, 2, 4}
  RbMaxBytes = 7
  MicRing = 2
  FrameQueue = 2
  ApMaxFrames = 4
  ApMaxStarts = 3
  PlayQueue = 2
  OutRing = 1
  AuMaxFrames = 4
  AuMaxFaults = 2
  AuMaxInits = 3
  Senders = {q1}
  Queuers = {q2}
  Ladder <- Rungs
  MaxRate = 100
  MinRates = {10, 50}
  ResFloor = 0
  PinFloor = 60
  CameraFps = 25
  FpsFloor = 12
  Ceilings = {0, 50}
  StartLevel = 1
  StaleTicks = 0
  DwellTicks = 0
  MinReports = 0
  DecayTicks = 0
  PinTicks = 1
  EvalTicks = 1
  RecoverTicks = 1
  RcMaxTime = 1
  RcMaxOps = 5
  Actors = {1, 2, 3}
  Pushers = {p1}
  MinThreads = 1
  MaxThreads = 2
  MaxTasks = 2
  MaxTerm = 4
  Slots = {0, 1}
  Users = {u1}
  Starts = {0, 1}
  Periods = {0, 1}
  MaxTime = 2
  MaxAdds = 2
  CallbackCancels = {"other"}
  WithShutdown = TRUE
  CellCount = 4
  Items = {1, 2}
  HashKeys = {1, 2, 3, 4}
  HashOf <- KeyHash
  BucketLength = 1
  MinAlloc = 2
 
 
 
INVARIANT RateSound
CHECK_DEADLOCK FALSE
