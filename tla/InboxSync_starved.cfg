SPECIFICATION FairSpec
CONSTANTS
  r1 = r1
  r2 = r2
  Rooms = {r1, r2}
  MaxPos = 3
  MaxFaults = 0
  GapLimit <- CodeGapLimit
  RetryLimit = 1
  Fresh = TRUE
  CanLoseState = FALSE
PROPERTIES LateKeyUpgrades
