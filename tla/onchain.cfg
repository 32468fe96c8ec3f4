SPECIFICATION FairSpec
CONSTANTS
  LN_HTLC_MAX = 2
  Offered = {0}
  Hop = {0}
  Expiry <- MCExpiry
  Orders <- MCOrders
  MaxHeight = 5
  MaxClose = 3
  MaxCrashes = 1
CHECK_DEADLOCK FALSE
INVARIANT PenaltyComplete
PROPERTIES RecoveredBeforeDeleted ClosedIsRemoved TimeoutCloses
