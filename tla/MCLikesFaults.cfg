SPECIFICATION Spec
CONSTANTS
  b = b
  Users = {b}
  Posts = {p1, p2}
  Owner <- MCOwner
  Cells = {x}
  MaxEvents = 3
  MaxLoads = 1
INVARIANT
  CounterInRange
PROPERTY
  ImplementsTwoLeg
CHECK_DEADLOCK FALSE
