SPECIFICATION FairSpec
CONSTANTS
  b = b
  Users = {a, b}
  Devices = {a}
  Screens = {s, t}
  Posts = {p1, p2}
  OldPosts = {p1}
  Owner <- MCOwner
  MaxOpens = 2
  MaxEvents = 3
INVARIANTS
  ButtonTruthful
  FeedMatchesFollow
  FollowersAnnounced
PROPERTIES
  ImplementsTwoLeg
  ChainsSettle
CHECK_DEADLOCK FALSE
