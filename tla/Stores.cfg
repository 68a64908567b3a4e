SPECIFICATION Spec
CONSTANTS
  Histories = {k}
  Old = 0
  Limit = 1
  MaxMessages = 2
  MaxSends = 2
  People = {me, p}
  Me = me
  MaxRequests = 3
  MaxEchoes = 2
  MaxCopies = 2
  Requests = {r, s}
  Marks = {1, 2}
  MaxChanges = 2
  Drafts = {d}
  MaxVersion = 4
  Channels = {c}
  NoChannel = NoChannel
  MaxMentions = 2
  MaxLogins = 2
  Users = {u}
  MaxMoves = 3
  MaxBatches = 1
  MaxRevisions = 2
  Messages = {m}
  Emojis = {e, f}
  Reactors = {1, 2}
  PageSize = 1
  MaxReactions = 1
SYMMETRY Symmetry
CONSTRAINT ChipIsSure
INVARIANTS
  TypeOK NoDoubleInsertUnlessOverlap NoGapUnlessRaced MineIsRight
  BookmarksAgreeUnlessRaced ScheduledAgreeUnlessRaced NoMentionMissedUnlessRaced
  MembersAgreeUnlessRaced CopiesAgreeUnlessRaced ReactorsAgreeUnlessRaced OfThisEmoji
CHECK_DEADLOCK FALSE
