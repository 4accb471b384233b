SPECIFICATION FairSpec
CONSTANTS
  r1 = r1
  Rooms = {r1}
  MaxPos = 4
  MaxFaults = 2
  GapLimit <- CodeGapLimit
  RetryLimit <- CodeRetryLimit
  Fresh = TRUE
  CanLoseState = TRUE
INVARIANTS NothingLost KeysNotDiscarded
PROPERTIES UpgradeReappears ImplementsDurableInbox EventuallyDelivered LateKeyUpgrades
CHECK_DEADLOCK FALSE
