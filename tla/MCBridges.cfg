SPECIFICATION BridgesSpec
CONSTANTS
  Script <- CloudScript
  QueueMax = 1
  CacheMax = 3
  TurnUris = 1
  MaxFaults = 1
  Commands <- CommandIds
  Requests <- CommandRequests
  EventCommands = {"log"}
  ChunkCount <- Chunks
  MaxHandlers = 1
  MaxEvents = 2
  MaxFailures = 1
  MaxAttempts = 1
  MaxRoomTries = 1
  Fragments = 2
  ArMaxFaults = 2
  MaxLost = 1
  MaxCalls = 2
  MaxFrames = 2
  Senders <- RoomSenders
  SendScript <- RoomScript
  MustDeliver = {"answer"}
  MaxLinks = 2
  MaxSendFails = 1
INVARIANT SplitModeSound
INVARIANT SendOrderKept
PROPERTY RoomSound
 
PROPERTY ArRecovers
CHECK_DEADLOCK FALSE
