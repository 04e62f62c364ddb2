SPECIFICATION Spec
CONSTANTS
  b = b
  Users = {a, b}
  Posts = {p1}
  Owner <- MCOwner
  Cells = {x}
  MaxEvents = 2
  MaxLoads = 3
INVARIANT
  LikersAnnounced
PROPERTY
  HeartKept
CHECK_DEADLOCK FALSE
