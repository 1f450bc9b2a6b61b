SPECIFICATION SignalingSpec
CONSTANTS
  MaxDials = 2
  MaxDowns = 1
  Messages = 2
  KindsOf <- MessageKinds
  SmSenders = {s1}
  SmPeers = {p1, p2}
  SmFlusher = w
  IceSlots = 2
  SmMaxSends = 3
  SmMaxRecv = 2
  CallStates = {"describe", "ice"}
  SkewLimit = 1
  SkewWidth = 5
  CkMaxDays = 3
  CkMaxSets = 1
  Dates <- ServerDates
  Offsets <- ClockOffsets
  Getters = {g1, g2}
  Kinds = {"iot", "file", "callback", "static"}
  Grace = 1
  MaxLife = 2
  Lifetimes = {0, 2, 3}
  CrRetries = 3
  CrMaxTime = 4
  CrMaxMade = 3
  ClientIds <- Names
  SigDay = 1
  SigWidth = 4
  MaxExpires = 7
  SigMaxTime = 2
  SigMaxKeys = 2
INVARIANT LinkSafe
INVARIANT MessagesDelivered
INVARIANT OngoingExact
INVARIANT RequestsAccepted
INVARIANT CredentialsSound
PROPERTY AbortEndsCall
CHECK_DEADLOCK FALSE
