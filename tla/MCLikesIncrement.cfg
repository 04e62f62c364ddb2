SPECIFICATION Spec
CONSTANTS
  b = b
  Users = {a, b}
  Posts = {p1}
  Owner <- MCOwner
  Cells = {x}
  MaxLoads = 2
  MaxEvents = 2
PROPERTY
  LikeIncrements
CHECK_DEADLOCK FALSE
