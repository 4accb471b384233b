SPECIFICATION SendingFairSpec
CONSTANTS
  k1 = k1
  r1 = r1
  r2 = r2
  t1 = t1
  v1 = v1
  v2 = v2
  None = None
  Keys = {k1}
  Rooms = {r1, r2}
  Waiting = {r2}
  Texts = {t1}
  Versions = {v1, v2}
  MaxCalls = 2
  MaxFaults = 2
  Recycle = FALSE
  q1 = q1
  q2 = q2
  e3 = e3
  DMs = {q1, q2}
  Posts = {e1, e2, e3}
  RoomOf <- MCRoomOf
  EchoCap = 2
  PeerCap = 2
  AcceptCap = 1
  MaxLosses = 1
  Exchanges = {"x1", "x2"}
  Contents = {"c1"}
  PageLimit = 1
  PilotFaults = 2
INVARIANTS NeverReplaced StoredOnce AnswersMatch
PROPERTIES ResumedOnceOpen EchoDropsOnlyExcess EchoDrains RoundTripsComplete
CHECK_DEADLOCK FALSE
