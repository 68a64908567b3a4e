SPECIFICATION OnlineSpec
CONSTANTS
  CmdCap = 2
  EventsCap = 1
  MaxOutstanding = 2
  MaxCommands = 6
  MaxEvents = 3
  MaxDrops = 2
INVARIANT NoCircularWait
PROPERTIES UpdatesFlow CommandsRun
CHECK_DEADLOCK FALSE
