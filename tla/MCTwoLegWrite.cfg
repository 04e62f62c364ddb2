SPECIFICATION Spec
CONSTANTS
  Clients = {c1}
  Keys = {k1, k2}
  MaxPending = 4
INVARIANTS
  TypeOK
  MirrorAtRest
  IInv
