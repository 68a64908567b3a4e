SPECIFICATION FairSpec
CONSTANTS
  CmdCap = 2
  EventsCap = 1
  MaxOutstanding = 5
  MaxCommands = 7
  MaxEvents = 2
  MaxDrops = 1
INVARIANT RoomIsMade
PROPERTIES LogoutClears
CHECK_DEADLOCK FALSE
