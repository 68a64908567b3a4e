SPECIFICATION OnlineSpec
CONSTANTS
  CmdCap = 1
  EventsCap = 1
  MaxOutstanding = 4
  MaxCommands = 4
  MaxEvents = 3
  MaxDrops = 0
PROPERTIES UpdatesFlow
CHECK_DEADLOCK FALSE
