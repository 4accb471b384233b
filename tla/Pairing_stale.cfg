SPECIFICATION Spec
CONSTANTS
  p1 = p1
  p2 = p2
  d1 = d1
  d2 = d2
  c1 = c1
  c2 = c2
  x1 = x1
  None = None
  Pairings = {p1, p2}
  Dirs = {d1, d2}
  Calls = {c1, c2}
  Passes = {x1}
  GuessLimit = 1
  MaxFaults = 0
SYMMETRY PairingSymmetry
INVARIANTS UnclaimedRevoked
CHECK_DEADLOCK FALSE
