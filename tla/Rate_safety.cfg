SPECIFICATION FairSpec
CONSTANTS
  channels = channels
  guilds = guilds
  one = one
  two = two
  me = me
  messages = messages
  Major = {channels, guilds}
  Snowflakes = {one, two}
  Literals = {me, messages}
  Id = id
  MaxLen = 5
  a = a
  b = b
  c = c
  Calls = {a, b, c}
  PathOf <- MessagesOfOneChannel
  Retriers = {a, b}
  Limit = 2
  Window = 2
  Pause = 2
INVARIANTS TypeOK BucketsFollowRoutes RefusedOnlyWhenUnsure RetryWaitsUnlessDisturbed
PROPERTIES Settles
CHECK_DEADLOCK FALSE
