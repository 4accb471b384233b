SPECIFICATION FairSpec
CONSTANTS
  p1 = p1
  p2 = p2
  d1 = d1
  c1 = c1
  c2 = c2
  x1 = x1
  None = None
  Pairings = {p1, p2}
  Dirs = {d1}
  Calls = {c1, c2}
  Passes = {x1}
  GuessLimit = 1
  MaxFaults = 1
INVARIANTS GuessesBounded ClaimIsHeld
PROPERTIES ApprovalsEnd AckedIsActivated
CHECK_DEADLOCK FALSE
