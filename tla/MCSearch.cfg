SPECIFICATION SearchSpec
CONSTANTS
  u1 = u1
  u2 = u2
  u3 = u3
  People = {u1, u2, u3}
  Order <- MCOrder
  Texts <- MCTexts
  NoText = NoText
  Lower <- MCLower
  Username <- MCUsername
  Fullname <- MCFullname
  MaxKeys = 3
  MaxFailures = 1
INVARIANT
  TableFollowsSearch
CHECK_DEADLOCK FALSE
