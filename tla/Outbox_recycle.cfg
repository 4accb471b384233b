SPECIFICATION Spec
CONSTANTS
  k1 = k1
  r1 = r1
  t1 = t1
  t2 = t2
  v1 = v1
  None = None
  Keys = {k1}
  Rooms = {r1}
  Waiting = {}
  Texts = {t1, t2}
  Versions = {v1}
  MaxCalls = 2
  MaxFaults = 1
  Recycle = TRUE
SYMMETRY OutboxSymmetry
INVARIANTS NeverReplaced
