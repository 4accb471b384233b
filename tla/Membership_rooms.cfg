SPECIFICATION FairSpec
CONSTANTS
  a = a
  b = b
  c = c
  r1 = r1
  q1 = q1
  None = None
  Users = {a, b, c}
  Rooms = {r1}
  Creator <- AllByA
  Public = {}
  DMs = {r1}
  Cap <- CapTwo
  Reqs = {q1}
  ContactLimit = 1
  Known <- OneFriend
  Wanted = {c}
  Blockers = {}
  Leavers = {a, b, c}
  Linearized = TRUE
  MaxTime = 0
  MaxRefused = 1
  MaxLate = 1
INVARIANTS WithinCapacity
PROPERTIES RoomFills
