SPECIFICATION FairSpec
CONSTANTS
  Peer = {p1, p2}
  NumCnl = 2
  Node = {n1}
  Ends <- MCEnds
  OwnCnl = {1}
  MaxStamp = 2
  MaxNodStamp = 1
  MaxEvents = 3
CHECK_DEADLOCK FALSE
INVARIANT AnnouncedFirst
PROPERTIES NotTwice Delivered SpentForgotten
