SPECIFICATION QueuesSpec
CONSTANTS
  Msgs = {offer, answer, ice1, ice2}
  DroppableMsgs = {ice1, ice2}
  Readers = {r1, r2}
  Depth = 3
  NoMsg = NoMsg
  Tasks = {w1, w2}
  Syncs = {s1}
  Forever = {s1}
  Size = 2
  NoEntry = NoEntry
  Peers = {p1, p2}
  IceMax = 2
  AnswerMax = 1
  PurgedMax = 2
  MaxAttempts = 2
  MaxAge = 0
  MaxRounds = 2
  WqSize = 1
  MaxGen = 2
  MaxOffers = 2
  MaxCands = 1
  MaxTime = 1
  MaxDrops = 1
  CanLeave = TRUE
  CanClose = TRUE
  NoMessage = NoMessage
  Delays <- ShortDelays
  ConnectionTimeout = 2
  Never = Never
INVARIANT NoErrorLost
