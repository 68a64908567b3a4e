SPECIFICATION FairSpec
CONSTANTS
  Channels = {a, b}
  NoChannel = none
  MaxClicks = 3
  MaxMoves = 1
  MaxLosses = 1
INVARIANT CallFollowsTheUser
PROPERTIES ConnectingEnds
CHECK_DEADLOCK FALSE
