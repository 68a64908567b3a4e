SPECIFICATION Spec
CONSTANTS
  MaxLogins = 3
  MaxMentions = 1
  MaxQuits = 1
INVARIANTS TypeOK SlotsAgree NeverRestoresAnother CountedOnceAtFirst
CHECK_DEADLOCK FALSE
