CONSTANTS
  p1 = p1
  p2 = p2
  b1 = b1
  b2 = b2
  Peers = {p1, p2}
  BootNodes = {b1, b2}
  BootReply <- MCBootReply
  Period = 3
  StaleAfter = 30
SPECIFICATION Spec

PROPERTY InactivePeerRestored
