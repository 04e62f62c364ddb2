SPECIFICATION NoteSpec
CONSTANTS
  n1 = n1
  n2 = n2
  Notifications = {n1, n2}
  Senders = {b, c}
  Latest <- MCLatest
  Cells = {c1, c2}
  MaxEvents = 3
SYMMETRY MCSymmetry
INVARIANTS
  RowsTruthful
  ButtonTruthful
CHECK_DEADLOCK FALSE
