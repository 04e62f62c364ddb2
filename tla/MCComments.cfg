SPECIFICATION FairSpec
CONSTANTS
  b = b
  Users = {a, b}
  Owner = b
  MaxComments = 2
  MaxScreens = 2
  MaxTexts = 2
  MaxFaults = 1
INVARIANTS
  ListExact
  CommentersAnnounced
  TypedKept
PROPERTIES
  RepeatedOnlyWhilePending
  CommentsArrive
CHECK_DEADLOCK FALSE
