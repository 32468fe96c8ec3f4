SPECIFICATION Spec
CONSTANTS
  Cnl = {c1, c2}
  NoCnl = none
  LN_HTLC_MAX = 2
  Cltvs = {10, 11}
  Delta = 1
  Routes <- MCRoutes
  MaxFwd = 4
  MaxOffline = 1
  A = c1
  B = c2
CHECK_DEADLOCK FALSE
INVARIANTS CommittedBeforeOffered ClaimedAfterNext
