SPECIFICATION FairSpec
CONSTANTS
  MaxLogins = 1
  MaxMentions = 1
  MaxQuits = 0
PROPERTIES LogoutStopsGateway
CHECK_DEADLOCK FALSE
