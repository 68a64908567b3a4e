SPECIFICATION Spec
CONSTANTS
  big = big
  Guilds <- OneGuild
  BigGuilds <- OneGuild
  MemberCount = 6
  Page = 2
  ServerAdds = TRUE
  MaxSelects = 2
  MaxDrops = 1
INVARIANTS TypeOK GuildsStaySubscribed TrackedIsServed CoveredIsServedAtFirst
CHECK_DEADLOCK FALSE
