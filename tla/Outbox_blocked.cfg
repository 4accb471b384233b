SPECIFICATION FairSpec
CONSTANTS
  k1 = k1
  k2 = k2
  r1 = r1
  r2 = r2
  t1 = t1
  v1 = v1
  None = None
  Keys = {k1, k2}
  Rooms = {r1, r2}
  Waiting = {r2}
  Texts = {t1}
  Versions = {v1}
  MaxCalls = 1
  MaxFaults = 1
  Recycle = FALSE
PROPERTIES Resumed
