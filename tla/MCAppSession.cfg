SPECIFICATION Spec
CONSTANTS
  s1 = s1
  s2 = s2
  p1 = p1
  p2 = p2
  p3 = p3
  Peers = {p1, p2, p3}
  Sessions = {s1, s2}
  None = None
  MaxStreams = 2
  EarlyPeers = {}
SYMMETRY Symmetry
 
INVARIANT MediaFollowsSessions
PROPERTY LiveViewerKept
