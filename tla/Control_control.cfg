SPECIFICATION FairSpec
CONSTANTS
  h1 = h1
  p1 = p1
  k1 = k1
  k2 = k2
  k3 = k3
  c1 = c1
  c2 = c2
  x1 = x1
  x2 = x2
  f1 = f1
  f2 = f2
  f3 = f3
  ana = ana
  bo = bo
  None = None
  Operator = Operator
  Handles = {h1}
  Proofs = {p1}
  RecoveryIds = {k1, k2, k3}
  Calls = {c1, c2}
  PerDay = 1
  RecoveryLimit = 1
  OperatorRaces = FALSE
  MaxFaults = 1
  MaxDays = 1
  Files = {f1, f2, f3}
  Size <- Sizes
  Owner <- Owners
  Quota = 2
  Batch = 1
  Passes = {x1, x2}
  MaxLost = 2
  Members = {"m"}
  RoomOwner = "o"
  MessageLimit = 1
  ReceiptLimit = 1
  Absent = Absent
INVARIANTS SameCredentials RecoveryBudget StoredIsCharged QuotaKept RoomKeepsPromise
PROPERTIES StaysRevoked Served ChargeReleased
CHECK_DEADLOCK FALSE
