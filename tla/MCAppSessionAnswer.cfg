SPECIFICATION Spec
CONSTANTS
  s2 = s2
  s1 = s1
  p1 = p1
  Peers = {p1}
  Sessions = {s1, s2}
  None = None
  MaxStreams = 2
  EarlyPeers = {}
INVARIANT AnswerUsesLiveSession
