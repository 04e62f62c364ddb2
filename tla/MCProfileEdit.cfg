SPECIFICATION EditFairSpec
CONSTANTS
  n1 = n1
  Names = {n1}
  FirstName = n1
  OwnPosts = {p1, p2}
  OldPosts = {p1}
  FirstImages = {0, 1}
  MaxEditors = 2
  MaxEvents = 3
INVARIANTS
  ImageAlive
  CopiesFollow
  ProfileShowsImage
PROPERTY
  DoneDismisses
CHECK_DEADLOCK FALSE
