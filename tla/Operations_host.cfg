SPECIFICATION FairSpec
CONSTANTS
  None = None
  Nothing = Nothing
  w1 = w1
  w2 = w2
  b2 = b2
  Bundles = {b1, b2}
  Websites = {w1, w2}
  Assets <- MCAssets
  Base <- MCBase
  MaxFaults = 2
  Kinds = {"bundle", "website"}
  MaxChanges = 1
  MaxFailures = 1
  AccessFaults = 2
  MaxRequests = 4
INVARIANTS ReadyIsWhole FailedIsFenced ServerCopyConsistent WritersResume IdentityKept
INVARIANTS PackagesReviewed LoadersAgree OwnedUntilGone
PROPERTIES NeverOlder SiteSettles
CHECK_DEADLOCK FALSE
