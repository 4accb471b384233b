SPECIFICATION Spec
CONSTANTS
  a = a
  b = b
  r1 = r1
  r2 = r2
  q1 = q1
  q2 = q2
  None = None
  Users = {a, b}
  Rooms = {r1, r2}
  Creator <- AllByA
  Public = {}
  DMs = {r1, r2}
  Cap <- CapTwo
  Reqs = {q1, q2}
  ContactLimit = 1
  Known <- Nobody
  Wanted = {b}
  Blockers = {b}
  Leavers = {b}
  Linearized = TRUE
  MaxTime = 2
  MaxRefused = 1
  MaxLate = 1
SYMMETRY MemberSymmetry
INVARIANTS OneOpenRequest AcceptedIsTrusted RefusalStands
