SPECIFICATION FairSpec
CONSTANTS
  p1 = p1
  p2 = p2
  Posts <- AllPosts
  Feeds <- AllFeeds
  MaxTaps = 2
  MaxUpsets = 1
  MaxScreens = 1
INVARIANTS
  RowsWhole
  HeartsTruthful
  PublishedOnce
PROPERTIES
  RefreshEnds
  ShareEnds
CHECK_DEADLOCK FALSE
