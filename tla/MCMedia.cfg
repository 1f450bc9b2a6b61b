SPECIFICATION MediaSpec
CONSTANTS
  Sessions = {s1}
  Senders = {1, 2}
  QDepth = 1
  MaxFrames = 4
  MaxHalfFrames = 2
  MaxStarts = 2
  MsMaxFails = 1
  Slots = {a, b}
  Sinks = {1, 2}
  Configs <- SinkConfigs
  LoanCap = 2
  GenMod = 2
  NoSlot = NoSlot
  Pump = Pump
  Ctl = Ctl
  Handles = {h1, h2}
  Snappers = {1}
  Uvc = TRUE
  MaxFails = 1
  NBufs = 3
  Readers = {r1, r2}
  MaxIoErr = 2
  EncSinks = {1, 2}
  MaxSeq = 4
  EsMaxStarts = 1
  Sources = {f1, f2, f3}
  MaxSources = 2
  MaxMem = 2
SYMMETRY MediaSymmetry
INVARIANT CaptureSound
INVARIANT SourcesSound
 
PROPERTY BusSound
CHECK_DEADLOCK FALSE
