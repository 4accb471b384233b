SPECIFICATION Spec
CONSTANTS
  a = a
  b = b
  r1 = r1
  q1 = q1
  None = None
  Users = {a, b}
  Rooms = {r1}
  Creator <- AllByA
  Public = {}
  DMs = {}
  Cap <- CapTwo
  Reqs = {q1}
  ContactLimit = 2
  Known <- Nobody
  Wanted = {b}
  Blockers = {}
  Leavers = {a, b}
  Linearized = TRUE
  MaxTime = 0
  MaxRefused = 1
  MaxLate = 0
INVARIANTS PendingIsInvited
