SPECIFICATION FairSpec
CONSTANTS
  EventsCap = 1
  MaxBackoff = 4
  RejectWays <- InvalidThenClose
  MaxSessions = 4
  MaxEvents = 2
  MaxWire = 3
  MaxFaults = 2
  MaxShutdowns = 1
PROPERTIES DeliversTheStream NoDeadResume HandshakeFailuresBackOff EventuallyDelivered UpdatesKeepFlowing
CHECK_DEADLOCK FALSE
