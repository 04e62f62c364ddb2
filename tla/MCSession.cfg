SPECIFICATION FairSpec
CONSTANTS
  Users = {a, b}
  Known = {a}
  NoOne = NoOne
  MaxStarts = 3
  MaxLogouts = 2
  MaxFaults = 2
INVARIANTS
  ModalAgrees
  TabsBelong
  NoDeadEnd
PROPERTY
  SessionSettles
CHECK_DEADLOCK FALSE
